-------------------------- MODULE ServerSession_proofs --------------------------
(***************************************************************************)
(* Proofs about ServerSession: the two halves of a connection, of which    *)
(* each has its own invariant, keep both of them together.                 *)
(***************************************************************************)
EXTENDS ServerSession, CommonWsSession_proofs

\* The lemmas about the local session, for the channels of this connection.
LP == INSTANCE LocalSession_proofs WITH
    Requests <- Frames, MaxRequests <- MaxWire,
    in <- write_stream, out <- read_stream,
    handled <- delivered, replies <- pushed

-----------------------------------------------------------------------------
(* The inductive invariant.                                                *)

\* The endpoint is given to the coroutine when the socket opens, and it is
\* gone when the coroutine and the provider it may have been given to are.
OwnerInv ==
    /\ user = "none" => pc = "push"
    /\ user = "gone" <=> /\ pc \in {"done", "undefined"}
                         /\ provider \in {"none", "gone"}

\* The bound on the traffic of the peer.
BoundInv == Len(accepted) + Len(wire) <= MaxWire

SystemInv == RelayInv /\ LP!IInv /\ OwnerInv /\ BoundInv

\* The two names of the actions of the local session.
LEMMA SameCoroutine == Local!CoroutineNext => LP!CoroutineNext
  BY DEF Local!CoroutineNext, LP!CoroutineNext,
         Local!Push, LP!Push, Local!Closed, LP!Closed, Local!Return, LP!Return,
         Local!Poll, LP!Poll, Local!Continue, LP!Continue,
         Local!PollMakeAssets, LP!PollMakeAssets,
         Local!PollMakeAssetsBadParams, LP!PollMakeAssetsBadParams,
         Local!PollLoadProvider, LP!PollLoadProvider,
         Local!PollUnknownOp, LP!PollUnknownOp,
         Local!AssetsState, LP!AssetsState, Local!AssetsResult, LP!AssetsResult,
         Local!Attach, LP!Attach, Local!AttachThrows, LP!AttachThrows,
         Local!PushToNothing, LP!PushToNothing,
         Local!State, LP!State, Local!Error, LP!Error, Local!Ack, LP!Ack,
         Local!Assets, LP!Assets, Local!MakeAssets, LP!MakeAssets,
         Local!LoadProvider, LP!LoadProvider, Local!Urls, LP!Urls,
         Local!Known, LP!Known, Local!Unknown, LP!Unknown,
         Local!MayRead, LP!MayRead, Local!MayWrite, LP!MayWrite,
         Local!Close, LP!Close, Local!TakeAndWake, LP!TakeAndWake,
         Local!PutAndWake, LP!PutAndWake

LEMMA SameEnvironment ==
    /\ Local!AssetsMove \/ Local!AssetsFail => LP!AssetsMove \/ LP!AssetsFail
    /\ Local!ProviderState => LP!ProviderState
    /\ Local!ProviderRead => LP!ProviderRead
    /\ Local!ProviderEnd => LP!ProviderEnd
  BY DEF Local!AssetsMove, LP!AssetsMove, Local!AssetsFail, LP!AssetsFail,
         Local!ProviderState, LP!ProviderState, Local!ProviderRead, LP!ProviderRead,
         Local!ProviderEnd, LP!ProviderEnd, Local!State, LP!State,
         Local!MayRead, LP!MayRead, Local!MayWrite, LP!MayWrite,
         Local!Close, LP!Close, Local!TakeAndWake, LP!TakeAndWake,
         Local!PutAndWake, LP!PutAndWake, Local!local, LP!local

LEMMA SameReplies ==
    /\ LP!Replies = Local!Replies
    /\ \A f : LP!Answers(f) = Local!Answers(f)
  BY DEF Local!Replies, LP!Replies, Local!Answers, LP!Answers,
         Local!State, LP!State, Local!Error, LP!Error, Local!Ack, LP!Ack,
         Local!Assets, LP!Assets, Local!MakeAssets, LP!MakeAssets,
         Local!LoadProvider, LP!LoadProvider

LEMMA SameChannel == \A F : LP!Channel(F) = Channel(F)
  BY DEF LP!Channel, Channel

\* What the local session pushes is a frame, and holds no blob.
LEMMA RepliesAreFrames ==
    /\ LP!Replies \subseteq OutFrames /\ LP!Replies \subseteq Frames
    /\ \A f \in LP!Replies : f.data # "blob"
<1>1. LP!Replies \subseteq OutFrames /\ LP!Replies \subseteq Frames
  BY SameReplies, RepliesAssumption, TrafficAssumption
<1>2. \A f \in LP!Replies : f.data # "blob"
  BY DEF LP!Replies, LP!State, LP!Error, LP!Ack, LP!Assets
<1>3. QED  BY <1>1, <1>2

LEMMA InitSystem == ServerInit => Init /\ SystemInv
<1> SUFFICES ASSUME ServerInit PROVE Init /\ SystemInv
  OBVIOUS
<1>1. Init
  BY DEF ServerInit
<1>2. RelayInv
  BY <1>1, InitInv, InitRelay DEF RelayInv
<1>3. LP!Init
  BY DEF ServerInit, Init, LP!Init, LP!State, Local!State, EmptyChannel, LP!EmptyChannel
<1>4. LP!IInv
  BY <1>3, CapacityAssumption, LP!InitInv
<1>5. OwnerInv
  BY ServerAssumption DEF ServerInit, Init, OwnerInv
<1>6. BoundInv
  BY BoundsAssumption DEF ServerInit, Init, BoundInv
<1>7. QED  BY <1>1, <1>2, <1>4, <1>5, <1>6 DEF SystemInv

-----------------------------------------------------------------------------
(* Every step of the local session is a step of the dispatch side of the   *)
(* web socket session, or none.                                            *)

\* A step that leaves both channels alone posts no task.
LEMMA WakeRests ==
    ASSUME TypeOK, Wake, UNCHANGED channels
    PROVE  tasks' = tasks
<1>1. tasks \in [write : Nat, read : Nat]
  BY DEF TypeOK
<1>2. tasks' = [write |-> tasks.write, read |-> tasks.read]
  BY <1>1 DEF Wake, channels
<1>3. QED  BY <1>1, <1>2

\* There is room in the bound for what the local session pushes.
LEMMA PushedBound == SystemInv => served \in Nat /\ served <= MaxWire
<1> SUFFICES ASSUME SystemInv PROVE served \in Nat /\ served <= MaxWire
  OBVIOUS
<1>1. /\ accepted = delivered \o UpQueue /\ UpQueue \in Seq(Frames)
      /\ delivered \in Seq(Frames) /\ wire \in Seq(Messages)
  <2>1. /\ delivered \in Seq(Frames) /\ wire \in Seq(Messages)
        /\ write_stream.buf \in Seq(Frames) /\ accepted = delivered \o UpQueue
    BY DEF SystemInv, RelayInv, IInv, TypeOK, UpInv, Channel
  <2>2. UpQueue \in Seq(Frames)
    BY <2>1, AppendProperties DEF UpQueue
  <2>3. QED  BY <2>1, <2>2
<1>2. Len(accepted) = Len(delivered) + Len(UpQueue)
  BY <1>1, ConcatProperties
<1>3. Len(delivered) \in Nat /\ Len(UpQueue) \in Nat /\ Len(wire) \in Nat
  BY <1>1, LenProperties
<1>4. served \in 0..Len(delivered)
  BY DEF SystemInv, LP!IInv, LP!TypeOK
<1>5. QED  BY <1>2, <1>3, <1>4, BoundsAssumption DEF SystemInv, BoundInv

\* A push of the coroutine or of the provider is a write,
LEMMA WriteMaps ==
    ASSUME SystemInv, NEW f \in LP!Replies, AtOtherEnd,
           user = "up", user' = user, Len(pushed) <= served + 1,
           MayWrite(read_stream), read_stream' = PutAndWake(read_stream, f),
           pushed' = Append(pushed, f), UNCHANGED <<write_stream, delivered>>
    PROVE  Next
<1>1. Len(pushed) < MaxPushed
  <2>1. served \in Nat /\ served <= MaxWire
    BY PushedBound
  <2>2. Len(pushed) \in Nat
    BY LenProperties DEF SystemInv, RelayInv, IInv, TypeOK
  <2>3. QED  BY <2>1, <2>2, ServerAssumption, BoundsAssumption
<1>2. DispatchWrite(f)
  BY <1>1 DEF DispatchWrite, AtOtherEnd
<1>3. QED  BY <1>2, RepliesAreFrames DEF Next, EnvironmentNext

\* a poll is a read,
LEMMA ReadMaps ==
    ASSUME AtOtherEnd, user = "up", user' = user,
           MayRead(write_stream), write_stream' = TakeAndWake(write_stream),
           delivered' = Append(delivered, Head(write_stream.buf)),
           UNCHANGED <<read_stream, pushed>>
    PROVE  Next
  BY DEF AtOtherEnd, DispatchRead, Next, EnvironmentNext

\* the end of the last owner is a close,
LEMMA CloseMaps ==
    ASSUME AtOtherEnd, user = "up", user' = "gone",
           write_stream' = Close(write_stream), read_stream' = Close(read_stream),
           UNCHANGED <<delivered, pushed>>
    PROVE  Next
  BY DEF AtOtherEnd, DispatchClose, CloseChannels, history, Next, EnvironmentNext

\* and what it does inside is nothing to the web socket session.
LEMMA RestMaps ==
    ASSUME SystemInv, AtOtherEnd, user' = user,
           UNCHANGED <<write_stream, read_stream, delivered, pushed>>
    PROVE  UNCHANGED vars
<1>1. tasks' = tasks
  BY WakeRests DEF AtOtherEnd, SystemInv, RelayInv, IInv, channels
<1>2. QED  BY <1>1 DEF AtOtherEnd, vars, channels, history

\* The endpoint is there as long as someone owns it.
LEMMA EndpointIsUp ==
    ASSUME SystemInv, user # "none",
           pc \notin {"done", "undefined"} \/ provider \notin {"none", "gone"}
    PROVE  user = "up"
  BY DEF SystemInv, RelayInv, IInv, TypeOK, OwnerInv

\* The coroutine owns it, in whatever state it is suspended.
LEMMA CoroutineOwns ==
    ASSUME SystemInv, pc # "done"
    PROVE  provider = "none"
  BY DEF SystemInv, LP!IInv, LP!Owed

LEMMA PushMaps == SystemInv /\ Local!Push /\ AtOtherEnd => Next
<1> SUFFICES ASSUME SystemInv, Local!Push, AtOtherEnd PROVE Next
  OBVIOUS
<1>1. pc = "push" /\ user # "none" /\ pc' \in {"attach", "poll"}
  BY DEF Local!Push, AtOtherEnd
<1>2. user = "up" /\ user' = user
  BY <1>1, EndpointIsUp DEF AtOtherEnd
<1>3. outgoing \in LP!Replies /\ Len(pushed) <= served + 1
  <2>1. CASE served = 0
    BY <1>1, <2>1 DEF SystemInv, LP!IInv, LP!Pushing, LP!Owed, LP!Replies
  <2>2. CASE served # 0
    <3>1. outgoing \in LP!Answers(delivered[served])
      BY <1>1, <2>2 DEF SystemInv, LP!IInv, LP!Pushing
    <3>2. QED  BY <1>1, <3>1, CapacityAssumption, LP!AnswersAreReplies, PushedBound
               DEF SystemInv, LP!IInv, LP!Owed
  <2>3. QED  BY <2>1, <2>2
<1>4. QED  BY <1>2, <1>3, WriteMaps
           DEF Local!Push, Local!MayWrite, MayWrite, Local!PutAndWake, PutAndWake

LEMMA ClosedMaps == SystemInv /\ Local!Closed /\ AtOtherEnd => Next
<1> SUFFICES ASSUME SystemInv, Local!Closed, AtOtherEnd PROVE Next
  OBVIOUS
<1>1. /\ pc \notin {"done", "undefined"} /\ user # "none"
      /\ pc' = "done" /\ provider' = provider
  BY DEF Local!Closed, Local!Return, AtOtherEnd
<1>2. user = "up" /\ user' = "gone"
  BY <1>1, EndpointIsUp, CoroutineOwns DEF AtOtherEnd
<1>3. QED  BY <1>2, CloseMaps DEF Local!Closed, Local!Return, Local!Close, Close

LEMMA PollMaps ==
    ASSUME SystemInv, NEW f, Local!Poll(f), Local!Continue, AtOtherEnd,
           pc' \notin {"done", "undefined"}
    PROVE  Next
<1>1. pc = "poll" /\ user # "none"
  BY DEF Local!Poll, AtOtherEnd
<1>2. user = "up" /\ user' = user
  BY <1>1, EndpointIsUp DEF AtOtherEnd
<1>3. QED  BY <1>2, ReadMaps
           DEF Local!Poll, Local!Continue, Local!MayRead, MayRead,
               Local!TakeAndWake, TakeAndWake

LEMMA AttachThrowsMaps == SystemInv /\ Local!AttachThrows /\ AtOtherEnd => Next
<1> SUFFICES ASSUME SystemInv, Local!AttachThrows, AtOtherEnd PROVE Next
  OBVIOUS
<1>1. pc = "attach" /\ user # "none" /\ pc' = "undefined"
  BY DEF Local!AttachThrows, AtOtherEnd
<1>2. user = "up" /\ user' = "gone"
  BY <1>1, EndpointIsUp DEF AtOtherEnd
<1>3. QED  BY <1>2, CloseMaps DEF Local!AttachThrows, Local!Close, Close

\* Between two suspensions that touch no channel, nothing happens out there.
LEMMA InsideMaps ==
    ASSUME SystemInv, AtOtherEnd,
           \/ Local!AssetsState \/ Local!AssetsResult \/ Local!Attach
           \/ Local!PushToNothing \/ Local!AssetsMove \/ Local!AssetsFail
    PROVE  UNCHANGED vars
<1>1. /\ UNCHANGED <<write_stream, read_stream, delivered, pushed>>
      /\ pc' = "undefined" => pc = "undefined" /\ provider = "none"
      /\ pc' = "done" /\ provider' \in {"none", "gone"}
             => pc \in {"done", "undefined"} /\ provider \in {"none", "gone"}
  BY CoroutineOwns
     DEF Local!AssetsState, Local!AssetsResult, Local!Attach, Local!PushToNothing,
         Local!AssetsMove, Local!AssetsFail
<1>2. user' = user
  BY <1>1 DEF AtOtherEnd, SystemInv, OwnerInv
<1>3. QED  BY <1>1, <1>2, RestMaps

LEMMA CoroutineMaps == SystemInv /\ CoroutineStep => [Next]_vars
<1> SUFFICES ASSUME SystemInv, Local!CoroutineNext, AtOtherEnd PROVE [Next]_vars
  BY DEF CoroutineStep
<1>1. CASE Local!Push
  BY <1>1, PushMaps
<1>2. CASE Local!Closed
  BY <1>2, ClosedMaps
<1>3. CASE \/ Local!PollMakeAssets \/ Local!PollMakeAssetsBadParams
           \/ Local!PollLoadProvider \/ Local!PollUnknownOp
  <2>1. \E f : Local!Poll(f) /\ Local!Continue /\ pc' \notin {"done", "undefined"}
    BY <1>3 DEF Local!PollMakeAssets, Local!PollMakeAssetsBadParams,
                Local!PollLoadProvider, Local!PollUnknownOp
  <2>2. QED  BY <2>1, PollMaps
<1>4. CASE Local!AttachThrows
  BY <1>4, AttachThrowsMaps
<1>5. CASE Local!AssetsState \/ Local!AssetsResult \/ Local!Attach \/ Local!PushToNothing
  BY <1>5, InsideMaps
<1>6. QED  BY <1>1, <1>2, <1>3, <1>4, <1>5 DEF Local!CoroutineNext

LEMMA AssetsMaps == SystemInv /\ AssetsStep => [Next]_vars
  BY InsideMaps DEF AssetsStep

LEMMA ProviderMaps == SystemInv /\ ProviderStep => [Next]_vars
<1> SUFFICES ASSUME SystemInv, AtOtherEnd,
                    Local!ProviderState \/ Local!ProviderRead \/ Local!ProviderEnd
             PROVE  Next
  BY DEF ProviderStep
<1>1. provider \in {"starting", "up"} /\ pc = "done" /\ user # "none" /\ pc' = pc
  BY DEF Local!ProviderState, Local!ProviderRead, Local!ProviderEnd, Local!local,
         SystemInv, LP!IInv, LP!Owed, AtOtherEnd
<1>2. user = "up"
  BY <1>1, EndpointIsUp
<1>3. CASE Local!ProviderState
  <2>1. Len(pushed) <= served + 1
    BY <1>3, PushedBound DEF Local!ProviderState, SystemInv, LP!IInv, LP!Owed
  <2>2. Local!State("s:initial") \in LP!Replies
    BY DEF Local!State, LP!State, LP!Replies
  <2>3. user' = user
    BY <1>1, <1>3 DEF Local!ProviderState, AtOtherEnd
  <2>4. QED  BY <1>2, <1>3, <2>1, <2>2, <2>3, WriteMaps
             DEF Local!ProviderState, Local!MayWrite, MayWrite,
                 Local!PutAndWake, PutAndWake
<1>4. CASE Local!ProviderRead
  <2>1. user' = user
    BY <1>1, <1>4 DEF Local!ProviderRead, Local!local, AtOtherEnd
  <2>2. QED  BY <1>2, <1>4, <2>1, ReadMaps
             DEF Local!ProviderRead, Local!MayRead, MayRead,
                 Local!TakeAndWake, TakeAndWake
<1>5. CASE Local!ProviderEnd
  <2>1. user' = "gone"
    BY <1>1, <1>5 DEF Local!ProviderEnd, AtOtherEnd
  <2>2. QED  BY <1>2, <1>5, <2>1, CloseMaps DEF Local!ProviderEnd, Local!Close, Close
<1>6. QED  BY <1>3, <1>4, <1>5

\* A step of the two halves is one of the web socket session, or none.
LEMMA ServerMaps == SystemInv /\ [ServerNext]_serverVars => [Next]_vars
<1> SUFFICES ASSUME SystemInv, [ServerNext]_serverVars PROVE [Next]_vars
  OBVIOUS
<1>1. CASE SessionNext /\ UNCHANGED local
  BY <1>1 DEF Next
<1>2. CASE CoroutineStep \/ AssetsStep \/ ProviderStep
  BY <1>2, CoroutineMaps, AssetsMaps, ProviderMaps
<1>3. CASE PeerLost \/ \E m \in InMessages : PeerSend(m)
  BY <1>3 DEF Next, EnvironmentNext
<1>4. CASE UNCHANGED serverVars
  BY <1>4 DEF serverVars
<1>5. QED  BY <1>1, <1>2, <1>3, <1>4 DEF ServerNext

-----------------------------------------------------------------------------
(* And every step of the web socket session is one of the client of the    *)
(* local session.                                                          *)

\* What its handlers do to the two channels.
SocketSide ==
    /\ \/ UNCHANGED write_stream
       \/ \E f : write_stream' = Put(write_stream, f)
       \/ write_stream' = Register(write_stream)
       \/ write_stream' = Close(write_stream)
    /\ \/ UNCHANGED read_stream
       \/ MayRead(read_stream) /\ read_stream' = Take(read_stream)
       \/ read_stream' = Register(read_stream)
       \/ read_stream' = Close(read_stream)
    /\ UNCHANGED <<delivered, pushed>>

LEMMA TryWriteSide ==
    ASSUME NEW f, TryWriteToDispatch(f)
    PROVE  \/ UNCHANGED write_stream
           \/ \E g : write_stream' = Put(write_stream, g)
           \/ write_stream' = Register(write_stream)
  BY DEF TryWriteToDispatch, WriteSucceeds, WriteBlocked, WriteClosed

LEMMA TryReadSide ==
    ASSUME NEW w, NEW c, TryReadFromDispatch(w, c)
    PROVE  \/ UNCHANGED read_stream
           \/ MayRead(read_stream) /\ read_stream' = Take(read_stream)
           \/ read_stream' = Register(read_stream)
  BY DEF TryReadFromDispatch, ReadSucceeds, ReadBlocked, ReadClosed

LEMMA SessionSide == SessionNext \/ PeerLost \/ (\E m \in InMessages : PeerSend(m)) => SocketSide
<1>1. WsOpened => SocketSide
  BY TryReadSide DEF WsOpened, SocketSide, history
<1>2. WsReceived => SocketSide
  BY TryWriteSide DEF WsReceived, SocketSide
<1>3. RunTryWrite => SocketSide
  BY TryWriteSide DEF RunTryWrite, SocketSide, history
<1>4. RunTryRead => SocketSide
  BY TryReadSide DEF RunTryRead, SocketSide, history
<1>5. WsCompletedSend => SocketSide
  BY TryReadSide DEF WsCompletedSend, SocketSide
<1>6. WsClosed => SocketSide
  BY DEF WsClosed, CloseChannels, SocketSide, history
<1>7. WsReceivedMalformed \/ PeerLost \/ (\E m \in InMessages : PeerSend(m)) => SocketSide
  BY DEF WsReceivedMalformed, PeerLost, PeerSend, SocketSide, channels, history
<1>8. QED  BY <1>1, <1>2, <1>3, <1>4, <1>5, <1>6, <1>7 DEF SessionNext

\* None of it disturbs the invariant of the local session.
LEMMA SideLocal ==
    ASSUME SystemInv, SocketSide, UNCHANGED local, TypeOK'
    PROVE  LP!IInv'
<1>1. /\ write_stream \in Channel(Frames) /\ write_stream' \in Channel(Frames)
      /\ read_stream \in Channel(LP!Replies)
  BY SameChannel DEF SystemInv, RelayInv, IInv, TypeOK, LP!IInv, LP!TypeOK
<1>2. write_stream.closed => write_stream'.closed
  BY <1>1, ChannelFields, ChannelPutFields DEF SocketSide
<1>3. read_stream' \in Channel(LP!Replies) /\ (read_stream.closed => read_stream'.closed)
  <2>1. CASE UNCHANGED read_stream
    BY <1>1, <2>1
  <2>2. CASE MayRead(read_stream) /\ read_stream' = Take(read_stream)
    BY <1>1, <2>2, ChannelRead, ChannelFields
  <2>3. CASE read_stream' = Register(read_stream)
    BY <1>1, <2>3, ChannelFlags, ChannelFields
  <2>4. CASE read_stream' = Close(read_stream)
    BY <1>1, <2>4, ChannelFlags, ChannelFields
  <2>5. QED  BY <2>1, <2>2, <2>3, <2>4 DEF SocketSide
<1>4. UNCHANGED LP!local
  BY DEF local, LP!local
<1>5. QED  BY <1>1, <1>2, <1>3, <1>4, SameChannel, CapacityAssumption, LP!ClientInv
           DEF SocketSide, SystemInv

-----------------------------------------------------------------------------
(* Every step keeps the invariant.                                         *)

LEMMA OwnerStep == SystemInv /\ [ServerNext]_serverVars => OwnerInv'
<1> SUFFICES ASSUME SystemInv, [ServerNext]_serverVars PROVE OwnerInv'
  OBVIOUS
<1>1. CASE (SessionNext \/ PeerLost \/ \E m \in InMessages : PeerSend(m)) /\ UNCHANGED local
  <2>1. \/ user' = user
        \/ user = "none" /\ user' = "up"
    BY <1>1 DEF SessionNext, WsOpened, WsReceived, WsReceivedMalformed, RunTryWrite,
                RunTryRead, WsCompletedSend, WsClosed, PeerLost, PeerSend
  <2>2. QED  BY <1>1, <2>1 DEF SystemInv, OwnerInv, local
<1>2. CASE CoroutineStep \/ AssetsStep \/ ProviderStep
  <2>1. /\ user # "none" /\ LP!IInv'
        /\ user' = IF pc' = "undefined" \/ (pc' = "done" /\ provider' \in {"none", "gone"})
                   THEN "gone" ELSE user
    BY <1>2, CapacityAssumption, SameCoroutine, SameEnvironment, LP!CoroutineInv,
       LP!AssetsInv, LP!ProviderStateInv, LP!ProviderReadInv, LP!ProviderEndInv
       DEF CoroutineStep, AssetsStep, ProviderStep, AtOtherEnd, SystemInv
  <2>2. pc' # "done" => provider' = "none"
    BY <2>1 DEF LP!IInv, LP!Owed
  <2>3. user = "gone" => pc' \in {"done", "undefined"} /\ provider' \in {"none", "gone"}
    BY <1>2 DEF SystemInv, OwnerInv, CoroutineStep, AssetsStep, ProviderStep,
         Local!CoroutineNext, Local!Push, Local!Closed, Local!Poll, Local!PollMakeAssets,
         Local!PollMakeAssetsBadParams, Local!PollLoadProvider, Local!PollUnknownOp,
         Local!AssetsState, Local!AssetsResult, Local!Attach, Local!AttachThrows,
         Local!PushToNothing, Local!AssetsMove, Local!AssetsFail,
         Local!ProviderState, Local!ProviderRead, Local!ProviderEnd, Local!local
  <2>4. QED  BY <2>1, <2>2, <2>3 DEF OwnerInv
<1>3. CASE UNCHANGED serverVars
  BY <1>3 DEF serverVars, vars, local, SystemInv, OwnerInv
<1>4. QED  BY <1>1, <1>2, <1>3 DEF ServerNext

LEMMA BoundStep == SystemInv /\ [Next]_vars => BoundInv'
<1> SUFFICES ASSUME SystemInv, [Next]_vars PROVE BoundInv'
  OBVIOUS
<1>1. /\ accepted \in Seq(Frames) /\ wire \in Seq(Messages)
      /\ Len(accepted) \in Nat /\ Len(wire) \in Nat
  BY LenProperties DEF SystemInv, RelayInv, IInv, TypeOK
<1>2. CASE WsReceived
  <2>1. ToAc(Head(wire)) \in Frames /\ Len(Tail(wire)) = Len(wire) - 1
    BY <1>1, <1>2, ToAcType, HeadTailProperties DEF WsReceived
  <2>2. Len(accepted') = Len(accepted) + 1
    BY <1>1, <1>2, <2>1, AppendProperties DEF WsReceived
  <2>3. QED  BY <1>1, <1>2, <2>1, <2>2 DEF WsReceived, SystemInv, BoundInv
<1>3. CASE WsReceivedMalformed
  <2>1. Len(Tail(wire)) = Len(wire) - 1
    BY <1>1, <1>3, HeadTailProperties DEF WsReceivedMalformed
  <2>2. accepted' = accepted /\ Len(wire') = Len(wire) - 1
    BY <1>3, <2>1 DEF WsReceivedMalformed, history
  <2>3. QED  BY <1>1, <2>2, BoundsAssumption DEF SystemInv, BoundInv
<1>4. ASSUME NEW m \in InMessages, PeerSend(m) PROVE BoundInv'
  <2>1. Len(wire') = Len(wire) + 1 /\ accepted' = accepted
    BY <1>1, <1>4, AppendProperties, TrafficAssumption DEF PeerSend, history
  <2>2. Len(accepted) + Len(wire) < MaxWire
    BY <1>1, <1>4, BoundsAssumption DEF PeerSend, Received
  <2>3. QED  BY <1>1, <2>1, <2>2, BoundsAssumption DEF BoundInv
<1>5. ASSUME UNCHANGED <<accepted, wire>> PROVE BoundInv'
  BY <1>5 DEF SystemInv, BoundInv
<1>6. CASE \/ WsOpened \/ RunTryWrite \/ RunTryRead \/ WsCompletedSend \/ WsClosed
           \/ DispatchRead \/ DispatchClose \/ PeerLost \/ UNCHANGED vars
           \/ \E f \in OutFrames : DispatchWrite(f)
  BY <1>5, <1>6 DEF WsOpened, RunTryWrite, RunTryRead, WsCompletedSend, WsClosed,
     DispatchRead, DispatchClose, DispatchWrite, PeerLost, vars, history, network
<1>7. QED  BY <1>2, <1>3, <1>4, <1>6 DEF Next, SessionNext, EnvironmentNext

LEMMA SystemStep == SystemInv /\ [ServerNext]_serverVars => SystemInv'
<1> SUFFICES ASSUME SystemInv, [ServerNext]_serverVars PROVE SystemInv'
  OBVIOUS
<1>1. [Next]_vars
  BY ServerMaps
<1>2. RelayInv'
  BY <1>1, NextInv, UpStep, DownStep DEF SystemInv, RelayInv
<1>3. LP!IInv'
  <2>1. CASE (SessionNext \/ PeerLost \/ \E m \in InMessages : PeerSend(m)) /\ UNCHANGED local
    BY <1>2, <2>1, SessionSide, SideLocal DEF RelayInv, IInv
  <2>2. CASE CoroutineStep \/ AssetsStep \/ ProviderStep
    BY <2>2, CapacityAssumption, SameCoroutine, SameEnvironment, LP!CoroutineInv,
       LP!AssetsInv, LP!ProviderStateInv, LP!ProviderReadInv, LP!ProviderEndInv
       DEF CoroutineStep, AssetsStep, ProviderStep, SystemInv
  <2>3. CASE UNCHANGED serverVars
    <3>1. SocketSide /\ UNCHANGED local
      BY <2>3 DEF serverVars, vars, channels, history, SocketSide
    <3>2. QED  BY <1>2, <3>1, SideLocal DEF RelayInv, IInv
  <2>4. QED  BY <2>1, <2>2, <2>3 DEF ServerNext
<1>4. OwnerInv' /\ BoundInv'
  BY <1>1, OwnerStep, BoundStep
<1>5. QED  BY <1>2, <1>3, <1>4 DEF SystemInv

LEMMA SystemInvariance == ServerSpec => []SystemInv
  BY InitSystem, SystemStep, PTL DEF ServerSpec

-----------------------------------------------------------------------------
(* The theorems.                                                           *)

\* A connection of the server is a web socket session: what was proved of the
\* session for any dispatch side holds for the local session.
THEOREM ConnectionIsASession == ServerSpec => SessionSpec
<1>1. ServerInit => Init
  BY InitSystem
<1>2. SystemInv /\ [ServerNext]_serverVars => [Next]_vars
  BY ServerMaps
<1>3. QED  BY <1>1, <1>2, SystemInvariance, PTL DEF ServerSpec, SessionSpec, Spec

\* In particular the pumps of a connection never stall, whatever the local
\* session and the providers do.
COROLLARY ConnectionNeverStalls == ServerSpec => []OnePumpEach
  BY ConnectionIsASession, PumpsNeverStall DEF SessionSpec

\* The session at the other end of the channels answers once each, and its
\* endpoint has one owner.
THEOREM ConnectionAnswersOnce == ServerSpec => [](LP!OneAnswerEach /\ LP!OneOwner)
<1>1. SystemInv => LP!OneAnswerEach /\ LP!OneOwner
  BY DEF SystemInv, LP!IInv, LP!Owed, LP!Answered, LP!Abandoned, LP!OneAnswerEach, LP!OneOwner
<1>2. QED  BY <1>1, SystemInvariance, PTL

\* Across both pumps and all four queues, the message after the greeting that
\* the client receives in place i answers the request it sent in place i.
THEOREM ClientIsAnsweredInOrder == ServerSpec => []AnswersInOrder
<1>1. SystemInv => AnswersInOrder
  <2> SUFFICES ASSUME SystemInv, NEW i \in 1..served, Len(sent) > i
               PROVE  ToAc(sent[i + 1]) \in Local!Answers(accepted[i])
    BY DEF AnswersInOrder
  <2>1. /\ delivered \in Seq(Frames) /\ write_stream.buf \in Seq(Frames)
        /\ sent \in Seq(Messages) /\ pushed \in Seq(Frames) /\ Len(sent) \in Nat
        /\ served \in Nat /\ i \in 1..Len(delivered)
    <3>1. /\ delivered \in Seq(Frames) /\ write_stream.buf \in Seq(Frames)
          /\ sent \in Seq(Messages) /\ pushed \in Seq(Frames)
          /\ served \in 0..Len(delivered)
      BY DEF SystemInv, RelayInv, IInv, TypeOK, Channel, LP!IInv, LP!TypeOK
    <3>2. QED  BY <3>1, LenProperties
  <2>2. delivered[i] = accepted[i]
    <3>1. UpQueue \in Seq(Frames)
      BY <2>1, AppendProperties DEF UpQueue
    <3>2. QED  BY <2>1, <3>1, ConcatProperties DEF SystemInv, RelayInv, UpInv
  <2>3. i + 1 \in DOMAIN sent
    BY <2>1
  <2>4. Len(pushed) > i /\ pushed[i + 1] \in LP!Answers(delivered[i])
    <3>1. Len(pushed) >= Len(sent) /\ Len(pushed) \in Nat
      BY <2>1, SentBehindPushed DEF SystemInv
    <3>2. Len(pushed) > i
      BY <2>1, <3>1
    <3>3. QED  BY <3>2 DEF SystemInv, LP!IInv, LP!Answered
  <2>5. pushed[i + 1].data # "blob"
    BY <2>4, CapacityAssumption, LP!AnswersAreReplies, RepliesAreFrames
  <2>6. ToAc(sent[i + 1]) = pushed[i + 1]
    BY <2>3, <2>5, DecodesPushed DEF SystemInv, PeerDecodesPushed
  <2>7. QED  BY <2>2, <2>4, <2>6, SameReplies
<1>2. QED  BY <1>1, SystemInvariance, PTL
=============================================================================
