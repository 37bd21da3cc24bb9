----------------------------- MODULE AppLifecycle -----------------------------
(***************************************************************************)
(* App.cpp and its two users: the server's main.cpp, whose main thread     *)
(* calls run, and AppRunner.hpp, which calls it from a thread of its own   *)
(* and stops it.  The owner is the thread that creates and destroys the    *)
(* App; the io threads run the handlers of the web sockets, the runner     *)
(* runs the coroutines of the local sessions.                              *)
(*                                                                         *)
(* The two contexts are of libraries outside of the repository, and taken  *)
(* to be what their names say: run returns when the context was stopped or *)
(* has no work left, a handler that has begun comes to its end, and a      *)
(* context that was stopped stays so.                                      *)
(* An operator with a suffix is a faulty variant of the one after it.      *)
(***************************************************************************)
EXTENDS Naturals

CONSTANTS
    IoThreads,     \* three in the code
    Runner,        \* the thread of AppRunner, or the main thread of the server
    MaxSessions    \* bound: local sessions at once

ASSUME RunnerAssumption == Runner \notin IoThreads
ASSUME SessionsAssumption == MaxSessions \in Nat

Threads == IoThreads \cup {Runner}

\* The members of Impl that a thread may touch, by their place in it: the
\* backend, localSessionXCtx, wg, ctx and wsCtx.
Members == 5
Backend == 1
LocalCtx == 2
WorkGuard == 3
WsCtx == 5

VARIABLES
    owner,     \* what the owner is about to do
    made,      \* the members 1..made exist
    thread,    \* thread[t]: "none", "started", "idle" in run, "busy" in a
               \* handler, or "ended"
    stopped,   \* the contexts, as members, that were stopped
    ready,     \* coroutine steps that wait in localSessionXCtx
    waiting    \* coroutines that wait for something else

vars == <<owner, made, thread, stopped, ready, waiting>>

Init ==
    /\ owner = "construct" /\ made = 0
    /\ thread = [t \in Threads |-> "none"]
    /\ stopped = {} /\ ready = 0 /\ waiting = 0

-----------------------------------------------------------------------------
(* The owner.                                                              *)

\* The members come into being in the order of their declaration.
Construct ==
    /\ owner = "construct" /\ made < Members
    /\ made' = made + 1
    /\ UNCHANGED <<owner, thread, stopped, ready, waiting>>

\* A constructor of one of them throws: those before it are destroyed.
ConstructFails ==
    /\ owner = "construct" /\ made < Members
    /\ owner' = "destroy"
    /\ UNCHANGED <<made, thread, stopped, ready, waiting>>

\* The plugins are loaded, the services registered and the ports opened, or
\* one of these throws while no thread is there yet.
Serve ==
    /\ owner = "construct" /\ made = Members
    /\ owner' \in {"spawn", "destroy"}
    /\ UNCHANGED <<made, thread, stopped, ready, waiting>>

Start(t) == thread' = [thread EXCEPT ![t] = "started"]

StartIoThread(t) ==
    /\ owner = "spawn" /\ thread[t] = "none"
    /\ Start(t)
    /\ UNCHANGED <<owner, made, stopped, ready, waiting>>

\* The system has no thread to give.  An exception before the first thread
\* unwinds the constructor; a later one destroys a std::thread that was not
\* joined, and that is the end of the process.
StartIoThreadFails ==
    /\ owner = "spawn" /\ \E t \in IoThreads : thread[t] = "none"
    /\ owner' = IF \A t \in IoThreads : thread[t] = "none"
                THEN "destroy" ELSE "terminated"
    /\ UNCHANGED <<made, thread, stopped, ready, waiting>>

StartRunner_NoThread ==
    /\ owner = "spawn" /\ \A t \in IoThreads : thread[t] # "none"
    /\ owner' \in {"use", "run"}
    /\ UNCHANGED <<made, thread, stopped, ready, waiting>>

\* AppRunner starts a thread that calls run, and the program goes on to use the
\* App; the main function of the server calls run itself.
StartRunner ==
    /\ owner = "spawn" /\ \A t \in IoThreads : thread[t] # "none"
    /\ Start(Runner)
    /\ owner' \in {"use", "run"}
    /\ UNCHANGED <<made, stopped, ready, waiting>>

\* Without that thread, AppRunner destroys its app and throws.
StartRunnerFails ==
    /\ owner = "spawn" /\ \A t \in IoThreads : thread[t] # "none"
    /\ owner' = "stopWs"
    /\ UNCHANGED <<made, thread, stopped, ready, waiting>>

\* ~AppRunner: stop, at any time after the construction.
Stop ==
    /\ owner = "use"
    /\ stopped' = stopped \cup {LocalCtx}
    /\ owner' = "joinRunner"
    /\ UNCHANGED <<made, thread, ready, waiting>>

JoinRunner_Detaches ==
    /\ owner \in {"joinRunner", "run"}
    /\ owner' = "stopWs"
    /\ UNCHANGED <<made, thread, stopped, ready, waiting>>

\* ~AppRunner: join.  In the server, run returned.
JoinRunner ==
    /\ owner \in {"joinRunner", "run"} /\ thread[Runner] = "ended"
    /\ owner' = "stopWs"
    /\ UNCHANGED <<made, thread, stopped, ready, waiting>>

\* ~Impl: wsCtx.stop().
StopWs ==
    /\ owner = "stopWs"
    /\ stopped' = stopped \cup {WsCtx}
    /\ owner' = "joinWs"
    /\ UNCHANGED <<made, thread, ready, waiting>>

JoinWs ==
    /\ owner = "joinWs" /\ \A t \in IoThreads : thread[t] = "ended"
    /\ owner' = "destroy"
    /\ UNCHANGED <<made, thread, stopped, ready, waiting>>

\* The members go in the reverse order, and with its context what was queued
\* or suspended there.
Destroy ==
    /\ owner = "destroy" /\ made > 0
    /\ made' = made - 1
    /\ IF made = LocalCtx THEN ready' = 0 /\ waiting' = 0
                          ELSE UNCHANGED <<ready, waiting>>
    /\ UNCHANGED <<owner, thread, stopped>>

Destroyed ==
    /\ owner = "destroy" /\ made = 0
    /\ owner' = "done"
    /\ UNCHANGED <<made, thread, stopped, ready, waiting>>

\* What the owner does of itself; Stop is up to the user of an AppRunner.
OwnerMoves ==
    \/ Construct \/ ConstructFails \/ Serve
    \/ \E t \in IoThreads : StartIoThread(t)
    \/ StartIoThreadFails \/ StartRunner \/ StartRunnerFails
    \/ JoinRunner \/ StopWs \/ JoinWs \/ Destroy \/ Destroyed

OwnerNext == OwnerMoves \/ Stop

-----------------------------------------------------------------------------
(* The threads.                                                            *)

Context(t) == IF t = Runner THEN LocalCtx ELSE WsCtx

Becomes(t, s) ==
    /\ owner # "terminated"
    /\ thread' = [thread EXCEPT ![t] = s]
    /\ UNCHANGED <<owner, made>>

Run_Restarts(t) ==
    /\ thread[t] = "started"
    /\ Becomes(t, "idle")
    /\ stopped' = stopped \ {Context(t)}
    /\ UNCHANGED <<ready, waiting>>

\* The thread comes to run.
Run(t) ==
    /\ thread[t] = "started"
    /\ Becomes(t, "idle")
    /\ UNCHANGED <<stopped, ready, waiting>>

HasWork_NoGuard(t) == t \in IoThreads \/ ready > 0 \/ waiting > 0

\* The sockets that listen are work of wsCtx; wg is work of localSessionXCtx.
HasWork(t) == t \in IoThreads \/ made >= WorkGuard \/ ready > 0 \/ waiting > 0

RunReturns(t) ==
    /\ thread[t] = "idle"
    /\ Context(t) \in stopped \/ ~HasWork(t)
    /\ Becomes(t, "ended")
    /\ UNCHANGED <<stopped, ready, waiting>>

MayBegin(t) == thread[t] = "idle" /\ Context(t) \notin stopped

Sessions == ready + waiting + IF thread[Runner] = "busy" THEN 1 ELSE 0

\* An io thread begins a handler of some web socket.
IoBegins(t) ==
    /\ MayBegin(t)
    /\ Becomes(t, "busy")
    /\ UNCHANGED <<stopped, ready, waiting>>

\* A session opened: its coroutine is posted to localSessionXCtx.
IoOpensSession(t) ==
    /\ thread[t] = "busy" /\ Sessions < MaxSessions
    /\ Becomes(t, "idle")
    /\ ready' = ready + 1
    /\ UNCHANGED <<stopped, waiting>>

\* A frame, or a close, wakes a coroutine.
IoWakesSession(t) ==
    /\ thread[t] = "busy" /\ waiting > 0
    /\ Becomes(t, "idle")
    /\ ready' = ready + 1 /\ waiting' = waiting - 1
    /\ UNCHANGED stopped

\* Any other handler.
IoEnds(t) ==
    /\ thread[t] = "busy"
    /\ Becomes(t, "idle")
    /\ UNCHANGED <<stopped, ready, waiting>>

\* The runner resumes a coroutine,
RunnerBegins ==
    /\ MayBegin(Runner) /\ ready > 0
    /\ Becomes(Runner, "busy")
    /\ ready' = ready - 1
    /\ UNCHANGED <<stopped, waiting>>

\* which suspends again or returns.
RunnerEnds ==
    /\ thread[Runner] = "busy"
    /\ Becomes(Runner, "idle")
    /\ waiting' \in {waiting, waiting + 1}
    /\ UNCHANGED <<stopped, ready>>

IoNext(t) ==
    \/ Run(t) \/ RunReturns(t)
    \/ IoBegins(t) \/ IoOpensSession(t) \/ IoWakesSession(t) \/ IoEnds(t)

RunnerNext == Run(Runner) \/ RunReturns(Runner) \/ RunnerBegins \/ RunnerEnds

\* A program that is over does nothing.
Over == owner \in {"done", "terminated"} /\ UNCHANGED vars

Next ==
    \/ OwnerNext
    \/ \E t \in IoThreads : IoNext(t)
    \/ RunnerNext
    \/ Over

Spec == Init /\ [][Next]_vars

\* The system runs every thread, and a handler comes to its end.  Nothing makes
\* anybody stop an AppRunner.
FairSpec ==
    /\ Spec
    /\ WF_vars(OwnerMoves) /\ WF_vars(RunnerNext)
    /\ \A t \in IoThreads : WF_vars(IoNext(t))

-----------------------------------------------------------------------------
(* Properties.                                                             *)

\* The types of the variables.
TypeOK ==
    /\ owner \in {"construct", "spawn", "use", "run", "joinRunner", "stopWs",
                 "joinWs", "destroy", "done", "terminated"}
    /\ made \in 0..Members
    /\ thread \in [Threads -> {"none", "started", "idle", "busy", "ended"}]
    /\ stopped \subseteq {LocalCtx, WsCtx}
    /\ ready \in Nat /\ waiting \in Nat

Alive(t) == thread[t] \in {"started", "idle", "busy"}

\* No io thread and no runner touches a member of Impl before it is there or
\* after it is gone, whichever step of the construction fails and whenever
\* the owner stops it.  (The backend's own threads are not in the model.)
ThreadsSeeMembers == \A t \in Threads : Alive(t) => made = Members

\* "should never get to here": run returns in no program that did not call
\* stop, however idle the server is when run is called, or later.
RunEndsByStop == thread[Runner] = "ended" => LocalCtx \in stopped

\* Sessions that are opened are served, those too that open before run is
\* called, unless the program ends.
SessionsAreServed ==
    ready > 0 ~> \/ thread[Runner] = "busy"
                 \/ owner \notin {"spawn", "use", "run"}

\* The destructors end: no join waits for ever, also when stop is called
\* before the thread of AppRunner has come to run.
DestructionEnds ==
    owner \in {"joinRunner", "stopWs", "destroy"} ~> owner = "done"
=============================================================================
