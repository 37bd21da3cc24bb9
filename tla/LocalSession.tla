----------------------------- MODULE LocalSession -----------------------------
(***************************************************************************)
(* LocalSession.cpp: the coroutine Acord_run that serves one client, from  *)
(* the state change it greets it with until the client leaves or a         *)
(* provider takes the endpoint over.  A step goes from one suspension of   *)
(* the coroutine to the next; the sessions share a thread, but no state.   *)
(* An operator with a suffix is a faulty variant of the one after it.      *)
(*                                                                         *)
(* `in' and `out' are the two channels of the endpoint.  The asset manager *)
(* (AssetMgr has its own model) and the providers, which are plugins, are  *)
(* seen from here only by what they answer.                                *)
(***************************************************************************)
EXTENDS BufferedChannel

CONSTANTS
    Requests,     \* the frames [op, data] the client may write
    None,
    MaxRequests   \* bound: frames the client writes

\* The data of a request is one of these, or else
\* Struct_fromDict throws on it.
Urls == "urls"              \* a list of strings
Known == "known"            \* the name of a provider that is loaded
Unknown == "unknown"        \* the name of one that is not

MakeAssets == "make_assets_available"
LoadProvider == "load_provider"

State(id) == [op |-> id, data |-> "null"]
Error == [op |-> "error", data |-> "plain"]
Ack == [op |-> LoadProvider, data |-> "null"]
Assets == [op |-> MakeAssets, data |-> "paths"]

VARIABLES
    pc,        \* where the coroutine is suspended, "done" when it returned,
               \* "undefined" when it pushes to an endpoint it has given away
    outgoing,  \* the frame of a push that is in progress
    aio,       \* the asset manager session, as seen from its endpoint
    provider,  \* who has the endpoint: "none", "starting", "up" or "gone"
    in, out,
    handled,   \* frames read from `in'
    replies,   \* frames written to `out'
    served     \* how many of the requests the coroutine itself has handled

local == <<pc, outgoing, aio, provider, served>>
vars == <<local, in, out, handled, replies>>

Init ==
    /\ pc = "push" /\ outgoing = State("s:acord")
    /\ aio = "none" /\ provider = "none" /\ served = 0
    /\ in = EmptyChannel /\ out = EmptyChannel
    /\ handled = <<>> /\ replies = <<>>

-----------------------------------------------------------------------------
(* Acord_run and Acord_makeAssetsAvailable.                                *)

\* Leaving the coroutine destroys its endpoint, which closes both streams.
Return_StaysOpen ==
    /\ pc' = "done" /\ outgoing' = None /\ aio' = "none"
    /\ UNCHANGED <<in, out>>

Return ==
    /\ pc' = "done" /\ outgoing' = None /\ aio' = "none"
    /\ in' = Close(in) /\ out' = Close(out)

\* co_await io.push(...), when there is room: the acknowledgement of
\* load_provider is followed by the handover, any other frame by a poll.
Push ==
    /\ pc = "push" /\ MayWrite(out)
    /\ out' = PutAndWake(out, outgoing)
    /\ replies' = Append(replies, outgoing)
    /\ outgoing' = None /\ aio' = "none"
    /\ pc' = IF outgoing = Ack THEN "attach" ELSE "poll"
    /\ UNCHANGED <<provider, in, handled, served>>

Closed_InPollOnly ==
    /\ \/ pc = "throw"
       \/ pc = "poll" /\ in.closed
       \/ pc \in {"assetsState", "assetsResult"} /\ aio = "failed"
    /\ Return
    /\ UNCHANGED <<provider, handled, replies, served>>

\* co_await throws stream_closed_error, or a request threw something else:
\* both end the coroutine, and with it the session, without a word.
Closed ==
    /\ \/ pc = "throw"
       \/ pc = "push" /\ out.closed
       \/ pc = "poll" /\ in.closed
       \/ pc \in {"assetsState", "assetsResult"} /\ aio = "failed"
    /\ Return
    /\ UNCHANGED <<provider, handled, replies, served>>

\* co_await io.poll() returns a frame `f'.
Poll(f) ==
    /\ pc = "poll" /\ MayRead(in) /\ f = Head(in.buf)
    /\ handled' = Append(handled, f)
    /\ served' = served + 1
    /\ UNCHANGED <<provider, replies>>

Continue == in' = TakeAndWake(in) /\ UNCHANGED out

\* backend.connect(amgr::Interface::id)
PollMakeAssets ==
    \E f \in Requests :
        /\ f.op = MakeAssets /\ f.data = Urls
        /\ Poll(f) /\ Continue
        /\ pc' = "assetsState" /\ aio' = "open"
        /\ UNCHANGED outgoing

\* Struct_fromDict throws outside of the inner try, and what it throws is not
\* a stream_closed_error: it leaves the coroutine.
PollMakeAssetsBadParams ==
    \E f \in Requests :
        /\ f.op = MakeAssets /\ f.data # Urls
        /\ Poll(f) /\ Continue
        /\ pc' = "throw"
        /\ UNCHANGED <<outgoing, aio>>

\* The name parses and is acknowledged, or the error is.
PollLoadProvider ==
    \E f \in Requests :
        /\ f.op = LoadProvider
        /\ Poll(f) /\ Continue
        /\ pc' = "push"
        /\ outgoing' = IF f.data \in {Known, Unknown} THEN Ack ELSE Error
        /\ UNCHANGED aio

PollUnknownOp_Silent ==
    \E f \in Requests :
        /\ f.op \notin {MakeAssets, LoadProvider}
        /\ Poll(f) /\ Continue
        /\ UNCHANGED <<pc, outgoing, aio>>

PollUnknownOp ==
    \E f \in Requests :
        /\ f.op \notin {MakeAssets, LoadProvider}
        /\ Poll(f) /\ Continue
        /\ pc' = "push" /\ outgoing' = Error
        /\ UNCHANGED aio

\* The state of the asset manager is read and the urls are pushed to it.
AssetsState ==
    /\ pc = "assetsState" /\ aio = "stated"
    /\ pc' = "assetsResult" /\ aio' = "asked"
    /\ UNCHANGED <<outgoing, provider, in, out, handled, replies, served>>

AssetsResult_KeepsOp ==
    /\ pc = "assetsResult" /\ aio = "answered"
    /\ pc' = "push" /\ outgoing' = [op |-> "assets", data |-> "paths"]
    /\ UNCHANGED <<aio, provider, in, out, handled, replies, served>>

AssetsResult_Lost ==
    /\ pc = "assetsResult" /\ aio = "answered"
    /\ pc' = "poll" /\ aio' = "none"
    /\ UNCHANGED <<outgoing, provider, in, out, handled, replies, served>>

\* Its answer is given the name of the request, and pushed to the client.
AssetsResult ==
    /\ pc = "assetsResult" /\ aio = "answered"
    /\ pc' = "push" /\ outgoing' = Assets
    /\ UNCHANGED <<aio, provider, in, out, handled, replies, served>>

Attach_NoReturn ==
    /\ pc = "attach" /\ handled[served].data = Known
    /\ provider' = "starting"
    /\ pc' = "poll"
    /\ UNCHANGED <<outgoing, aio, in, out, handled, replies, served>>

\* io.detach() and backend.attach(), for a provider that is there: the
\* coroutine returns and its streams stay open.
Attach ==
    /\ pc = "attach" /\ handled[served].data = Known
    /\ provider' = "starting"
    /\ pc' = "done"
    /\ UNCHANGED <<outgoing, aio, in, out, handled, replies, served>>

\* attach throws: the endpoint it was given is destroyed, and the error is
\* pushed to an endpoint that has no streams any more.
AttachThrows ==
    /\ pc = "attach" /\ handled[served].data # Known
    /\ in' = Close(in) /\ out' = Close(out)
    /\ pc' = "undefined" /\ outgoing' = Error
    /\ UNCHANGED <<aio, provider, handled, replies, served>>

\* Of what that does only this is certain: the streams stay closed.
PushToNothing ==
    /\ pc = "undefined"
    /\ pc' = "done" /\ outgoing' = None
    /\ UNCHANGED <<aio, provider, in, out, handled, replies, served>>

CoroutineNext ==
    \/ Push \/ Closed
    \/ PollMakeAssets \/ PollMakeAssetsBadParams
    \/ PollLoadProvider \/ PollUnknownOp
    \/ AssetsState \/ AssetsResult
    \/ Attach \/ AttachThrows \/ PushToNothing

-----------------------------------------------------------------------------
(* The asset manager and the provider.                                     *)

\* The asset manager greets, and answers what it is asked.
AssetsMove ==
    /\ \/ aio = "open" /\ aio' = "stated"
       \/ aio = "asked" /\ aio' = "answered"
    /\ UNCHANGED <<pc, outgoing, provider, in, out, handled, replies, served>>

\* An exception ends its session.
AssetsFail ==
    /\ aio = "asked" /\ aio' = "failed"
    /\ UNCHANGED <<pc, outgoing, provider, in, out, handled, replies, served>>

\* A provider announces its own state, reads requests, and may end.
ProviderState ==
    /\ provider = "starting" /\ MayWrite(out)
    /\ provider' = "up"
    /\ out' = PutAndWake(out, State("s:initial"))
    /\ replies' = Append(replies, State("s:initial"))
    /\ UNCHANGED <<pc, outgoing, aio, in, handled, served>>

ProviderRead ==
    /\ provider = "up" /\ MayRead(in)
    /\ in' = TakeAndWake(in)
    /\ handled' = Append(handled, Head(in.buf))
    /\ UNCHANGED <<local, out, replies>>

ProviderEnd ==
    /\ \/ provider = "up"
       \/ provider = "starting" /\ out.closed
    /\ provider' = "gone"
    /\ in' = Close(in) /\ out' = Close(out)
    /\ UNCHANGED <<pc, outgoing, aio, handled, replies, served>>

ServerNext ==
    \/ CoroutineNext
    \/ AssetsMove \/ AssetsFail
    \/ ProviderState \/ ProviderRead \/ ProviderEnd

-----------------------------------------------------------------------------
(* The client, which is the web socket session at the other end.           *)

ClientWrite(f) ==
    /\ MayWrite(in) /\ Len(handled) + Len(in.buf) < MaxRequests
    /\ in' = Put(in, f)
    /\ UNCHANGED <<local, out, handled, replies>>

ClientRead ==
    /\ MayRead(out)
    /\ out' = Take(out)
    /\ UNCHANGED <<local, in, handled, replies>>

ClientClose ==
    /\ ~in.closed
    /\ in' = Close(in) /\ out' = Close(out)
    /\ UNCHANGED <<local, handled, replies>>

Next ==
    \/ ServerNext
    \/ \E f \in Requests : ClientWrite(f)
    \/ ClientRead \/ ClientClose

Spec == Init /\ [][Next]_vars

ServerFairness == WF_vars(CoroutineNext) /\ WF_vars(AssetsMove) /\ WF_vars(ProviderState)
FairSpec == Spec /\ ServerFairness /\ WF_vars(ClientRead)

-----------------------------------------------------------------------------
(* Properties.                                                             *)

Replies == {State("s:acord"), State("s:initial"), Error, Ack, Assets}

\* The types of the variables.
TypeOK ==
    /\ pc \in {"push", "poll", "throw", "assetsState", "assetsResult", "attach",
              "undefined", "done"}
    /\ outgoing \in Replies \cup {None}
    /\ aio \in {"none", "open", "stated", "asked", "answered", "failed"}
    /\ provider \in {"none", "starting", "up", "gone"}
    /\ in \in Channel(Requests) /\ out \in Channel(Replies)
    /\ handled \in Seq(Requests) /\ replies \in Seq(Replies)
    /\ served \in 0..Len(handled)

\* What a request is answered with.
Answers(f) ==
    CASE f.op = MakeAssets   -> {Assets}
      [] f.op = LoadProvider -> {Ack, Error}
      [] OTHER               -> {Error}

\* The client is greeted with the state, then gets one answer to each request,
\* in the order of the requests, and none is read before the one before it
\* was answered.
OneAnswerEach ==
    /\ replies # <<>> => replies[1] = State("s:acord")
    /\ \A i \in 1..served : Len(replies) > i => replies[i + 1] \in Answers(handled[i])
    /\ provider = "none" => Len(replies) <= served + 1
    /\ pc = "poll" => Len(replies) = served + 1

\* The endpoint has one owner: the coroutine, the provider it gave it to, or
\* nobody, and then it is closed.
OneOwner ==
    /\ provider # "none" => pc = "done"
    /\ pc = "done" /\ provider \in {"none", "gone"} => in.closed /\ out.closed

\* Once a provider has the endpoint, a request that is read is the provider's.
HandoverIsFinal == [][provider # "none" => served' = served]_vars

\* When the client leaves, the coroutine ends, wherever it is suspended.
LeavingEndsSession == in.closed ~> pc = "done"

\* Every request is answered, unless the session ends first.
RequestsAreAnswered ==
    \A n \in 1..MaxRequests : served >= n ~> (Len(replies) > n \/ out.closed)

\* "In the Acord we have 2 notifications: the op itself and if there is an
\* error; the new state": a load_provider that fails is answered by an error.
\* It is not: the request is acknowledged before the provider is attached, and
\* the error of attach is pushed to the endpoint that attach was given.
FailedLoadIsAnError ==
    \A i \in 1..served :
        handled[i].op = LoadProvider /\ handled[i].data # Known /\ Len(replies) > i
            => replies[i + 1] = Error
=============================================================================
