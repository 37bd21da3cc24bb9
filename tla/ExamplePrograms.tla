---------------------------- MODULE ExamplePrograms ----------------------------
(***************************************************************************)
(* The C++ examples, e-cli-assist.cpp and e-hello-foo.cpp, from their      *)
(* first poll to their last destructor, against the server: one dialogue   *)
(* with the local session and, on the same connection, with the provider   *)
(* that takes it over.  Both programs poll blindly for the next frame, so  *)
(* they rest on the order in which the server answers.                     *)
(*                                                                         *)
(* `up' and `down' are the channels between the program and the client     *)
(* library.  The web socket sessions of both sides are one link here,      *)
(* which relays as FrameRelay says they do.  LocalSession is the server's  *)
(* end.  An operator with a suffix is a faulty variant of the one after it.*)
(***************************************************************************)
EXTENDS BufferedChannel

CONSTANTS
    None,
    MaxFaults  \* bound: failures of the link, the asset manager, the provider

VARIABLES
    pc, outgoing, aio, provider, served, in, out, handled, replies,
    script,    \* what the program is going to do, see CliScript
    at,        \* the step of the script it has come to
    program,   \* "next", "timed" or "wait" in a poll, "leave", "join", "over"
    failed,    \* an exception is on its way to main
    up, down,
    link,      \* "connecting", "open" or "closed"
    state,     \* the state of the provider, an index into its schema
    todo,      \* frames the provider is going to push
    faults

\* What a program asks of the server, and of either provider.
Request(op) ==
    [op |-> op, data |-> CASE op = "make_assets_available" -> "urls"
                           [] op = "load_provider"         -> "known"
                           [] OTHER                        -> "plain"]

Requests ==
    { Request(op) : op \in {"make_assets_available", "load_provider", "run",
          "load-model", "start-instance", "load_model", "create_instance"} }

Local == INSTANCE LocalSession WITH MaxRequests <- 0

server == <<pc, outgoing, aio, provider, served, handled, replies>>
channels == <<in, out, up, down>>
plugin == <<state, todo>>
client == <<script, at, program, failed>>
vars == <<server, channels, plugin, client, link, faults>>

-----------------------------------------------------------------------------
(* The scripts and the schemas.                                            *)

Expect(id)    == [kind |-> "expect", what |-> id]
Call(op)      == [kind |-> "call", what |-> op]
TimedCall(op) == [kind |-> "timed", what |-> op]

CliScript ==
    << Expect("s:acord"), TimedCall(Local!MakeAssets),
       Call(Local!LoadProvider), Expect("s:initial"),
       Call("load-model"), Expect("s:model-loaded"),
       Call("start-instance"), Expect("s:instance"), Call("run") >>

HelloScript ==
    << Expect("s:acord"), Call(Local!MakeAssets),
       Call(Local!LoadProvider), Expect("s:foo"),
       Call("load_model"), Expect("s:model_loaded"),
       Call("create_instance"), Expect("s:instance"), Call("run") >>

StateInitial     == [id |-> "s:foo", op |-> "load_model"]
StateModelLoaded == [id |-> "s:model_loaded", op |-> "create_instance"]
StateInstance    == [id |-> "s:instance", op |-> "run"]
Foo == << StateInitial, StateModelLoaded, StateInstance >>

Llama ==
    << [id |-> "s:initial", op |-> "load-model"],
       [id |-> "s:model-loaded", op |-> "start-instance"],
       [id |-> "s:instance", op |-> "run"] >>

Schema == IF script = CliScript THEN Llama ELSE Foo

Init ==
    /\ Local!Init
    /\ script \in {CliScript, HelloScript}
    /\ at = 1 /\ program = "next" /\ failed = FALSE
    /\ up = EmptyChannel /\ down = EmptyChannel
    /\ link = "connecting" /\ state = 1 /\ todo = <<>> /\ faults = 0

-----------------------------------------------------------------------------
(* The program.                                                            *)

Step == script[at]

\* io.push({op, ...})
Push ==
    /\ program = "next" /\ Step.kind # "expect"
    /\ MayWrite(up)
    /\ up' = Put(up, Request(Step.what))
    /\ program' = IF Step.kind = "timed" THEN "timed" ELSE "wait"
    /\ UNCHANGED <<server, in, out, down, plugin, script, at, failed, link, faults>>

\* An exception leaves the block, and the destructors of its objects run.
Throw ==
    /\ program' = "leave" /\ failed' = TRUE
    /\ UNCHANGED <<server, channels, plugin, script, at, link, faults>>

PushThrows ==
    /\ program = "next" /\ Step.kind # "expect" /\ up.closed
    /\ Throw

Polls == program = "wait" \/ (program = "next" /\ Step.kind = "expect")

\* expectSuccess and expectStateChange: an answer may be any frame but an error.
Expected(f) ==
    IF Step.kind = "expect" THEN f = Local!State(Step.what) ELSE f # Local!Error

\* The next step of the script, or the end of the program.
Proceed ==
    /\ IF at = Len(script) THEN program' = "leave" /\ UNCHANGED at
                           ELSE program' = "next" /\ at' = at + 1
    /\ UNCHANGED failed

\* io.poll() returns a frame, to a program that expects it or throws.
Poll ==
    /\ Polls \/ program = "timed"
    /\ MayRead(down)
    /\ down' = Take(down)
    /\ IF Expected(Head(down.buf))
       THEN Proceed
       ELSE program' = "leave" /\ failed' = TRUE /\ UNCHANGED at
    /\ UNCHANGED <<server, in, out, up, plugin, script, link, faults>>

PollTimesOut_AsksAgain ==
    /\ program = "timed"
    /\ program' = "next"
    /\ UNCHANGED <<server, channels, plugin, script, at, failed, link, faults>>

PollTimesOut_Throws == program = "timed" /\ Throw

\* The poll that waits 100 ms ends without a frame, at any time or because the
\* stream is closed, and one that waits for good follows it.
PollTimesOut ==
    /\ program = "timed"
    /\ program' = "wait"
    /\ UNCHANGED <<server, channels, plugin, script, at, failed, link, faults>>

PollThrows == Polls /\ down.closed /\ Throw

\* ~BlockingIo closes its endpoint,
CloseIo ==
    /\ program = "leave"
    /\ program' = "join"
    /\ up' = Close(up) /\ down' = Close(down)
    /\ UNCHANGED <<server, in, out, plugin, script, at, failed, link, faults>>

\* and ~IoCtx drops the work guard and joins its thread, which runs until the
\* web socket is closed.
JoinIo ==
    /\ program = "join" /\ link = "closed"
    /\ program' = "over"
    /\ UNCHANGED <<server, channels, plugin, script, at, failed, link, faults>>

ProgramNext ==
    \/ Push \/ PushThrows \/ Poll \/ PollTimesOut \/ PollThrows
    \/ CloseIo \/ JoinIo

-----------------------------------------------------------------------------
(* The link.                                                               *)

LinkOpens ==
    /\ link = "connecting" /\ link' = "open"
    /\ UNCHANGED <<server, channels, plugin, client, faults>>

LinkUp ==
    /\ link = "open" /\ MayRead(up) /\ MayWrite(in)
    /\ up' = Take(up) /\ in' = Put(in, Head(up.buf))
    /\ UNCHANGED <<server, out, down, plugin, client, link, faults>>

LinkDown ==
    /\ link = "open" /\ MayRead(out) /\ MayWrite(down)
    /\ out' = Take(out) /\ down' = Put(down, Head(out.buf))
    /\ UNCHANGED <<server, in, up, plugin, client, link, faults>>

\* Both sessions close their channels, and what is in them may be lost.
LinkCloses ==
    /\ link' = "closed"
    /\ in' = Close(in) /\ out' = Close(out) /\ up' = Close(up) /\ down' = Close(down)
    /\ UNCHANGED <<server, plugin, client>>

\* Either side ended its part of the dialogue,
LinkEnds ==
    /\ link # "closed"
    /\ \E c \in {in, out, up, down} : c.closed
    /\ LinkCloses /\ UNCHANGED faults

Fault == faults < MaxFaults /\ faults' = faults + 1

\* or the connection was refused or lost.
LinkLost == link # "closed" /\ LinkCloses /\ Fault

LinkNext == LinkOpens \/ LinkUp \/ LinkDown \/ LinkEnds

-----------------------------------------------------------------------------
(* The server: the local session from wsOpened on, and the provider.       *)

Serves == link # "connecting" /\ UNCHANGED <<up, down, client, link>>

CoroutineStep == Local!CoroutineNext /\ Serves /\ UNCHANGED <<plugin, faults>>
AssetsStep == Local!AssetsMove /\ Serves /\ UNCHANGED <<plugin, faults>>
AssetsFail == Local!AssetsFail /\ Serves /\ UNCHANGED plugin /\ Fault

\* The provider announces its first state.
ProviderStarts ==
    /\ provider = "starting" /\ provider' = "up"
    /\ todo' = << Local!State(Schema[1].id) >>
    /\ Serves
    /\ UNCHANGED <<pc, outgoing, aio, served, in, out, handled, replies, state, faults>>

\* It takes a request of the state it is in: it answers it, then announces the
\* next state.  Any other request is an error.
ProviderServes ==
    /\ provider = "up" /\ todo = <<>> /\ MayRead(in)
    /\ in' = Take(in)
    /\ handled' = Append(handled, Head(in.buf))
    /\ IF Head(in.buf).op = Schema[state].op
       THEN IF state = Len(Schema)
            THEN todo' = << Head(in.buf) >> /\ UNCHANGED state
            ELSE /\ todo' = << Head(in.buf), Local!State(Schema[state + 1].id) >>
                 /\ state' = state + 1
       ELSE todo' = << Local!Error >> /\ UNCHANGED state
    /\ Serves
    /\ UNCHANGED <<pc, outgoing, aio, provider, served, out, replies, faults>>

\* An exception of the request is answered with an error.
ProviderFails ==
    /\ provider = "up" /\ todo = <<>> /\ MayRead(in)
    /\ in' = Take(in)
    /\ handled' = Append(handled, Head(in.buf))
    /\ todo' = << Local!Error >>
    /\ Serves /\ Fault
    /\ UNCHANGED <<pc, outgoing, aio, provider, served, out, replies, state>>

ProviderPushes ==
    /\ provider = "up" /\ todo # <<>> /\ MayWrite(out)
    /\ out' = Put(out, Head(todo)) /\ todo' = Tail(todo)
    /\ replies' = Append(replies, Head(todo))
    /\ Serves
    /\ UNCHANGED <<pc, outgoing, aio, provider, served, in, handled, state, faults>>

\* Its stream is closed, and it goes.
ProviderEnds == provider # "gone" /\ Local!ProviderEnd /\ in.closed /\ Serves
                /\ UNCHANGED <<plugin, faults>>

ServerNext ==
    \/ CoroutineStep \/ AssetsStep
    \/ ProviderStarts \/ ProviderServes \/ ProviderPushes \/ ProviderEnds

\* The program is over, and the server has nothing left to do for it.
Over == program = "over" /\ UNCHANGED vars

Next ==
    \/ ProgramNext \/ LinkNext \/ ServerNext
    \/ LinkLost \/ AssetsFail \/ ProviderFails
    \/ Over

Spec == Init /\ [][Next]_vars

\* The program and the server run, the link delivers, and the asset manager and
\* the provider come to an answer.
FairSpec ==
    /\ Spec
    /\ WF_vars(ProgramNext) /\ WF_vars(ServerNext)
    /\ WF_vars(LinkOpens) /\ WF_vars(LinkUp) /\ WF_vars(LinkDown) /\ WF_vars(LinkEnds)

-----------------------------------------------------------------------------
(* Properties.                                                             *)

\* expectSuccess does not look at the operation of an answer, and the programs
\* take its data for what they asked: so the frame a poll returns must be the
\* answer to the last request, the state that follows from it, or an error,
\* whether the poll before it timed out or not.  It is, because the server
\* answers load_provider before a provider can push its state.
Wanted(f) ==
    \/ f = Local!Error
    \/ IF Step.kind = "expect" THEN f = Local!State(Step.what) ELSE f.op = Step.what
PolledIsWanted == [][Poll => Wanted(Head(down.buf))]_vars

\* A program fails for a reason: the link, the asset manager or the provider
\* did.  A download that takes longer than the first poll is none.
FailsForAReason == failed => faults > 0

\* Both programs come to the end of their last destructor: no poll, and no join
\* of the client library's thread, waits for ever, whatever failed.
ProgramEnds == <>(program = "over")
=============================================================================
