-------------------------- MODULE LocalSession_proofs --------------------------
(***************************************************************************)
(* Proofs about LocalSession, for every set of requests and every          *)
(* capacity.                                                               *)
(***************************************************************************)
EXTENDS LocalSession, BufferedChannel_proofs

-----------------------------------------------------------------------------
(* The inductive invariant.  What was answered so far follows from where   *)
(* the coroutine is suspended: it owes an answer to the request it read    *)
(* last, and to no other.                                                  *)

\* Before the handover every request that was read is the coroutine's.
Owed ==
    /\ provider # "none" => pc = "done" /\ Len(replies) > served
    /\ provider = "starting" => Len(replies) = served + 1
    /\ provider = "none" => served = Len(handled) /\ Len(replies) <= served + 1
    /\ pc \in {"poll", "attach"} => Len(replies) = served + 1
    /\ pc \in {"push", "assetsState", "assetsResult"} => Len(replies) = served
    /\ pc \in {"assetsState", "assetsResult", "attach"} => served > 0

\* The frame in a push is the answer that is owed, or the greeting.
Pushing ==
    /\ pc = "push" => IF served = 0 THEN outgoing = State("s:acord")
                                    ELSE outgoing \in Answers(handled[served])
    /\ pc \in {"assetsState", "assetsResult"} => handled[served].op = MakeAssets

\* Each answer that was pushed is one to the request of its place.
Answered ==
    /\ replies # <<>> => replies[1] = State("s:acord")
    /\ \A i \in 1..served : Len(replies) > i => replies[i + 1] \in Answers(handled[i])

\* An endpoint that nobody owns is closed.
Abandoned ==
    pc \in {"done", "undefined"} /\ provider \in {"none", "gone"}
        => in.closed /\ out.closed

IInv == TypeOK /\ Owed /\ Pushing /\ Answered /\ Abandoned

\* The greeting is announced first.
LEMMA InitInv == Init => IInv
<1> SUFFICES ASSUME Init PROVE IInv
  OBVIOUS
<1>1. EmptyChannel \in Channel(Requests) /\ EmptyChannel \in Channel(Replies)
  BY DEF EmptyChannel, Channel
<1>2. TypeOK
  BY <1>1 DEF Init, TypeOK, Replies
<1>3. Owed /\ Pushing /\ Answered /\ Abandoned
  BY DEF Init, Owed, Pushing, Answered, Abandoned
<1>4. QED  BY <1>2, <1>3 DEF IInv

\* An answer is one of the frames that go to the client.
LEMMA AnswersAreReplies == \A f : Answers(f) \subseteq Replies
  BY DEF Answers, Replies

\* A push pays what was owed.  Only an acknowledgement leads to a handover, and
\* only load_provider is answered by one.
LEMMA PushInv == IInv /\ Push => IInv'
<1> SUFFICES ASSUME IInv, Push PROVE IInv'
  OBVIOUS
<1>1. /\ pc = "push" /\ provider = "none"
      /\ served \in Nat /\ served = Len(handled) /\ served = Len(replies)
      /\ handled \in Seq(Requests) /\ replies \in Seq(Replies)
  BY DEF IInv, TypeOK, Owed, Push
<1>2. outgoing \in Replies
  BY <1>1, AnswersAreReplies DEF IInv, Pushing, Replies
<1>3. /\ outgoing' = None /\ aio' = "none" /\ provider' = provider /\ in' = in
      /\ handled' = handled /\ served' = served
      /\ replies' = Append(replies, outgoing)
      /\ pc' \in {"attach", "poll"} /\ (pc' = "attach" => outgoing = Ack)
  BY DEF Push
<1>4. out' \in Channel(Replies)
  BY <1>2, ChannelWrite DEF IInv, TypeOK, Push
<1>5. /\ replies' \in Seq(Replies) /\ Len(replies') = served + 1
      /\ replies'[served + 1] = outgoing
      /\ \A i \in 1..served : replies'[i] = replies[i]
  BY <1>1, <1>2, <1>3
<1>6. TypeOK'
  BY <1>1, <1>3, <1>4, <1>5 DEF IInv, TypeOK
<1>7. Owed' /\ Pushing' /\ Abandoned'
  <2>1. served = 0 => pc' # "attach"
    BY <1>1, <1>3 DEF IInv, Pushing, Ack, State, LoadProvider
  <2>2. Owed'
    <3>1. provider' = "none" /\ served' = Len(handled')
      BY <1>1, <1>3
    <3>2. Len(replies') = served' + 1 /\ served' \in Nat
      BY <1>1, <1>3, <1>5
    <3>3. pc' = "attach" => served' > 0
      BY <1>1, <1>3, <2>1
    <3>4. pc' \in {"attach", "poll"}
      BY <1>3
    <3>5. QED  BY <3>1, <3>2, <3>3, <3>4 DEF Owed
  <2>3. Pushing' /\ Abandoned'
    BY <1>3 DEF Pushing, Abandoned
  <2>4. QED  BY <2>2, <2>3
<1>8. Answered'
  <2>1. replies'[1] = State("s:acord")
    BY <1>1, <1>5 DEF IInv, Pushing, Answered
  <2>2. ASSUME NEW i \in 1..served
        PROVE  replies'[i + 1] \in Answers(handled[i])
    <3>1. CASE i = served
      BY <1>1, <1>5, <3>1 DEF IInv, Pushing
    <3>2. CASE i < served
      BY <1>1, <1>5, <3>2 DEF IInv, Answered
    <3>3. QED  BY <1>1, <3>1, <3>2
  <2>3. QED  BY <1>3, <2>1, <2>2 DEF Answered
<1>9. QED  BY <1>6, <1>7, <1>8 DEF IInv

\* Leaving the coroutine closes both streams.
LEMMA ReturnInv ==
    ASSUME IInv, provider = "none", Return,
           UNCHANGED <<provider, handled, replies, served>>
    PROVE  IInv'
<1>1. /\ pc' = "done" /\ in' \in Channel(Requests) /\ out' \in Channel(Replies)
      /\ in'.closed /\ out'.closed
  BY ChannelFlags, ChannelFields DEF IInv, TypeOK, Return
<1>2. TypeOK'
  BY <1>1 DEF IInv, TypeOK, Return
<1>3. Owed' /\ Pushing' /\ Answered' /\ Abandoned'
  BY <1>1 DEF IInv, Owed, Pushing, Answered, Abandoned
<1>4. QED  BY <1>2, <1>3 DEF IInv

LEMMA ClosedInv == IInv /\ Closed => IInv'
  BY ReturnInv DEF IInv, Owed, Closed

\* A request that is read is the one an answer is owed to.
LEMMA PollInv ==
    ASSUME IInv, NEW f \in Requests, Poll(f), Continue,
           outgoing' \in Replies \cup {None},
           aio' \in {"none", "open", "stated", "asked", "answered", "failed"},
           \/ pc' = "push" /\ outgoing' \in Answers(f)
           \/ pc' = "assetsState" /\ f.op = MakeAssets
           \/ pc' = "throw"
    PROVE  IInv'
<1>1. /\ pc = "poll" /\ provider = "none"
      /\ served \in Nat /\ served = Len(handled) /\ Len(replies) = served + 1
      /\ handled \in Seq(Requests) /\ replies \in Seq(Replies)
  BY DEF IInv, TypeOK, Owed, Poll
<1>2. /\ in' \in Channel(Requests) /\ out' = out
      /\ provider' = provider /\ replies' = replies
      /\ handled' = Append(handled, f) /\ served' = served + 1
  BY ChannelRead DEF IInv, TypeOK, Poll, Continue
<1>3. /\ handled' \in Seq(Requests) /\ Len(handled') = served'
      /\ handled'[served'] = f
      /\ \A i \in 1..served : handled'[i] = handled[i]
  BY <1>1, <1>2
<1>4. TypeOK'
  BY <1>1, <1>2, <1>3 DEF IInv, TypeOK
<1>5. Owed' /\ Pushing' /\ Abandoned'
  BY <1>1, <1>2, <1>3 DEF Owed, Pushing, Abandoned
<1>6. Answered'
  BY <1>1, <1>2, <1>3 DEF IInv, Answered
<1>7. QED  BY <1>4, <1>5, <1>6 DEF IInv

LEMMA PollMakeAssetsInv == IInv /\ PollMakeAssets => IInv'
  BY PollInv DEF PollMakeAssets, IInv, TypeOK

LEMMA PollMakeAssetsBadParamsInv == IInv /\ PollMakeAssetsBadParams => IInv'
  BY PollInv DEF PollMakeAssetsBadParams, IInv, TypeOK

LEMMA PollLoadProviderInv == IInv /\ PollLoadProvider => IInv'
<1> SUFFICES ASSUME IInv, NEW f \in Requests, f.op = LoadProvider, Poll(f), Continue,
                    pc' = "push", outgoing' \in {Ack, Error}, aio' = aio
             PROVE  IInv'
  BY DEF PollLoadProvider
<1>1. Answers(f) = {Ack, Error}
  BY DEF Answers, MakeAssets, LoadProvider
<1>2. QED  BY <1>1, PollInv, AnswersAreReplies DEF IInv, TypeOK

LEMMA PollUnknownOpInv == IInv /\ PollUnknownOp => IInv'
<1> SUFFICES ASSUME IInv, NEW f \in Requests, f.op \notin {MakeAssets, LoadProvider},
                    Poll(f), Continue, pc' = "push", outgoing' = Error, aio' = aio
             PROVE  IInv'
  BY DEF PollUnknownOp
<1>1. Answers(f) = {Error}
  BY DEF Answers
<1>2. QED  BY <1>1, PollInv, AnswersAreReplies DEF IInv, TypeOK

\* While the asset manager is asked, the request stays the last one.
LEMMA AssetsStateInv == IInv /\ AssetsState => IInv'
  BY DEF AssetsState, IInv, TypeOK, Owed, Pushing, Answered, Abandoned

LEMMA AssetsResultInv == IInv /\ AssetsResult => IInv'
<1> SUFFICES ASSUME IInv, AssetsResult PROVE IInv'
  OBVIOUS
<1>1. Answers(handled[served]) = {Assets} /\ served > 0
  <2>1. handled[served].op = MakeAssets /\ served > 0
    BY DEF IInv, TypeOK, Owed, Pushing, AssetsResult
  <2>2. QED  BY <2>1 DEF Answers, MakeAssets, LoadProvider
<1>2. TypeOK'
  BY DEF AssetsResult, IInv, TypeOK, Replies
<1>3. Owed' /\ Pushing' /\ Answered' /\ Abandoned'
  BY <1>1 DEF AssetsResult, IInv, TypeOK, Owed, Pushing, Answered, Abandoned
<1>4. QED  BY <1>2, <1>3 DEF IInv

LEMMA AttachInv == IInv /\ Attach => IInv'
  BY DEF Attach, IInv, TypeOK, Owed, Pushing, Answered, Abandoned

LEMMA AttachThrowsInv == IInv /\ AttachThrows => IInv'
<1> SUFFICES ASSUME IInv, AttachThrows PROVE IInv'
  OBVIOUS
<1>1. /\ in' \in Channel(Requests) /\ out' \in Channel(Replies)
      /\ in'.closed /\ out'.closed
  BY ChannelFlags, ChannelFields DEF IInv, TypeOK, AttachThrows
<1>2. TypeOK'
  BY <1>1 DEF AttachThrows, IInv, TypeOK, Replies
<1>3. Owed' /\ Pushing' /\ Answered' /\ Abandoned'
  BY <1>1 DEF AttachThrows, IInv, TypeOK, Owed, Pushing, Answered, Abandoned
<1>4. QED  BY <1>2, <1>3 DEF IInv

LEMMA PushToNothingInv == IInv /\ PushToNothing => IInv'
  BY DEF PushToNothing, IInv, TypeOK, Owed, Pushing, Answered, Abandoned

LEMMA CoroutineInv == IInv /\ CoroutineNext => IInv'
  BY PushInv, ClosedInv, PollMakeAssetsInv, PollMakeAssetsBadParamsInv,
     PollLoadProviderInv, PollUnknownOpInv, AssetsStateInv, AssetsResultInv,
     AttachInv, AttachThrowsInv, PushToNothingInv DEF CoroutineNext

\* The asset manager answers the coroutine and changes nothing else.
LEMMA AssetsInv == IInv /\ (AssetsMove \/ AssetsFail) => IInv'
  BY DEF AssetsMove, AssetsFail, IInv, TypeOK, Owed, Pushing, Answered, Abandoned

\* What a provider pushes comes after the answers of the coroutine.
LEMMA ProviderStateInv == IInv /\ ProviderState => IInv'
<1> SUFFICES ASSUME IInv, ProviderState PROVE IInv'
  OBVIOUS
<1> DEFINE f == State("s:initial")
<1>1. /\ provider = "starting" /\ provider' = "up" /\ pc = "done"
      /\ served \in Nat /\ Len(replies) > served
      /\ replies \in Seq(Replies) /\ f \in Replies
  BY DEF IInv, TypeOK, Owed, ProviderState, Replies
<1>2. /\ pc' = pc /\ outgoing' = outgoing /\ aio' = aio /\ in' = in
      /\ handled' = handled /\ served' = served /\ replies' = Append(replies, f)
  BY DEF ProviderState
<1>3. out' \in Channel(Replies)
  BY <1>1, ChannelWrite DEF IInv, TypeOK, ProviderState
<1>4. /\ replies' \in Seq(Replies) /\ Len(replies') = Len(replies) + 1
      /\ \A i \in 1..Len(replies) : replies'[i] = replies[i]
  BY <1>1, <1>2
<1>5. TypeOK'
  BY <1>1, <1>2, <1>3, <1>4 DEF IInv, TypeOK
<1>6. Owed' /\ Pushing' /\ Abandoned'
  BY <1>1, <1>2, <1>4 DEF IInv, Owed, Pushing, Abandoned
<1>7. Answered'
  <2>1. replies'[1] = State("s:acord")
    BY <1>1, <1>4 DEF IInv, Answered
  <2>2. \A i \in 1..served : replies'[i + 1] \in Answers(handled[i])
    BY <1>1, <1>4 DEF IInv, Answered
  <2>3. QED  BY <1>2, <2>1, <2>2 DEF Answered
<1>8. QED  BY <1>5, <1>6, <1>7 DEF IInv

\* What it reads comes after the requests of the coroutine.
LEMMA ProviderReadInv == IInv /\ ProviderRead => IInv'
<1> SUFFICES ASSUME IInv, ProviderRead PROVE IInv'
  OBVIOUS
<1>1. /\ provider = "up" /\ pc = "done" /\ Head(in.buf) \in Requests
      /\ served \in 0..Len(handled)
      /\ in' \in Channel(Requests) /\ handled \in Seq(Requests)
  BY ChannelRead DEF IInv, TypeOK, Owed, ProviderRead
<1>2. /\ UNCHANGED <<local, out, replies>> /\ handled' = Append(handled, Head(in.buf))
  BY DEF ProviderRead
<1>3. /\ handled' \in Seq(Requests) /\ Len(handled') = Len(handled) + 1
      /\ \A i \in 1..served : handled'[i] = handled[i]
  BY <1>1, <1>2
<1>4. TypeOK'
  BY <1>1, <1>2, <1>3 DEF IInv, TypeOK, local
<1>5. Owed' /\ Pushing' /\ Answered' /\ Abandoned'
  BY <1>1, <1>2, <1>3 DEF IInv, Owed, Pushing, Answered, Abandoned, local
<1>6. QED  BY <1>4, <1>5 DEF IInv

\* When it ends, it closes what it was given.
LEMMA ProviderEndInv == IInv /\ ProviderEnd => IInv'
<1> SUFFICES ASSUME IInv, ProviderEnd PROVE IInv'
  OBVIOUS
<1>1. /\ in' \in Channel(Requests) /\ out' \in Channel(Replies)
      /\ in'.closed /\ out'.closed
  BY ChannelFlags, ChannelFields DEF IInv, TypeOK, ProviderEnd
<1>2. TypeOK'
  BY <1>1 DEF ProviderEnd, IInv, TypeOK
<1>3. Owed' /\ Pushing' /\ Answered' /\ Abandoned'
  BY <1>1 DEF ProviderEnd, IInv, TypeOK, Owed, Pushing, Answered, Abandoned
<1>4. QED  BY <1>2, <1>3 DEF IInv

LEMMA ServerInv == IInv /\ ServerNext => IInv'
  BY CoroutineInv, AssetsInv, ProviderStateInv, ProviderReadInv, ProviderEndInv
     DEF ServerNext

\* The web socket session at the other end moves frames, and may close.
LEMMA ClientInv ==
    ASSUME IInv, UNCHANGED <<local, handled, replies>>,
           in' \in Channel(Requests), out' \in Channel(Replies),
           in.closed => in'.closed, out.closed => out'.closed
    PROVE  IInv'
  BY DEF IInv, TypeOK, Owed, Pushing, Answered, Abandoned, local

LEMMA ClientNextInv ==
    ASSUME IInv, \/ \E f \in Requests : ClientWrite(f)
                 \/ ClientRead \/ ClientClose
    PROVE  IInv'
<1>0. in \in Channel(Requests) /\ out \in Channel(Replies)
  BY DEF IInv, TypeOK
<1>1. ASSUME NEW f \in Requests, ClientWrite(f) PROVE IInv'
  BY <1>0, <1>1, ClientInv, ChannelWrite, ChannelPutFields DEF ClientWrite
<1>2. CASE ClientRead
  BY <1>0, <1>2, ClientInv, ChannelRead, ChannelFields DEF ClientRead
<1>3. CASE ClientClose
  BY <1>0, <1>3, ClientInv, ChannelFlags, ChannelFields DEF ClientClose
<1>4. QED  BY <1>1, <1>2, <1>3

LEMMA NextInv == IInv /\ [Next]_vars => IInv'
<1> SUFFICES ASSUME IInv, [Next]_vars PROVE IInv'
  OBVIOUS
<1>1. CASE Next
  BY <1>1, ServerInv, ClientNextInv DEF Next
<1>2. CASE UNCHANGED vars
  BY <1>2, ClientInv DEF vars, IInv, TypeOK
<1>3. QED  BY <1>1, <1>2

\* The invariant holds in every state of every behaviour.
LEMMA Invariance == Spec => []IInv
  BY InitInv, NextInv, PTL DEF Spec

-----------------------------------------------------------------------------
(* The theorems.                                                           *)

\* Every variable keeps its type; only the five kinds of frames that the
\* schema has ever go to the client.
THEOREM TypeCorrect == Spec => []TypeOK
<1>1. IInv => TypeOK
  BY DEF IInv
<1>2. QED  BY <1>1, Invariance, PTL

\* One answer to each request, in the order of the requests, behind the
\* greeting: no request is read while the one before it is unanswered.
THEOREM RequestsAnsweredOnce == Spec => []OneAnswerEach
<1>1. IInv => OneAnswerEach
  BY DEF IInv, Owed, Answered, OneAnswerEach
<1>2. QED  BY <1>1, Invariance, PTL

\* The endpoint has one owner, and when the last one is gone it is closed, on
\* every way out of the coroutine.
THEOREM EndpointIsOwned == Spec => []OneOwner
<1>1. IInv => OneOwner
  BY DEF IInv, Owed, Abandoned, OneOwner
<1>2. QED  BY <1>1, Invariance, PTL

\* The coroutine never takes a request again once a provider has the endpoint.
THEOREM ProviderKeepsEndpoint == Spec => HandoverIsFinal
<1>1. IInv /\ [Next]_vars => [provider # "none" => served' = served]_vars
  BY DEF IInv, Owed, Next, ServerNext, CoroutineNext, Push, Closed, Poll,
     PollMakeAssets, PollMakeAssetsBadParams, PollLoadProvider, PollUnknownOp,
     AssetsState, AssetsResult, Attach, AttachThrows, PushToNothing,
     AssetsMove, AssetsFail, ProviderState, ProviderRead, ProviderEnd,
     ClientWrite, ClientRead, ClientClose, local
<1>2. QED  BY <1>1, Invariance, PTL DEF Spec, HandoverIsFinal
=============================================================================
