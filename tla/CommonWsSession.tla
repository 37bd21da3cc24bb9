---------------------------- MODULE CommonWsSession ----------------------------
(***************************************************************************)
(* CommonWsSession.cpp, the bridge between one web socket and one dispatch *)
(* endpoint, on the server (WsSession.cpp) and on the client (IoCtx.cpp).  *)
(*                                                                         *)
(* Two pumps run side by side, each with one frame in hand at most: one    *)
(* takes messages from the socket (m_receiving) and writes them to         *)
(* write_stream, the other reads read_stream and sends (m_sending).  The   *)
(* handlers of a session run one at a time on the strand of its socket.    *)
(* The dispatch side runs on another: what it finds registered on a        *)
(* channel it turns into a task posted to the strand.                      *)
(***************************************************************************)
EXTENDS BufferedChannel, FrameCvt

CONSTANTS
    Side,       \* "server" or "client"
    None,       \* an empty optional
    InMessages, \* the messages the peer may send
    OutFrames,  \* the frames the dispatch side may write
    MaxWire,    \* bound: messages the peer sends
    MaxPushed   \* bound: frames the dispatch side writes

ASSUME SideAssumption == Side \in {"server", "client"}
ASSUME NoneAssumption == None \notin Frames \cup {EmptyFrame} \cup Messages
ASSUME TrafficAssumption == InMessages \subseteq Messages /\ OutFrames \subseteq Frames
ASSUME BoundsAssumption == MaxWire \in Nat /\ MaxPushed \in Nat

VARIABLES
    ws,           \* the socket: "init", "open", "closing" or "closed"
    rx,           \* wsReceive was called and has not completed
    tasks,        \* tasks posted with postWsIoTask that have not run
    m_cvt,
    m_receiving,
    m_sending,
    write_stream, \* m_dispatch.write_stream
    read_stream,  \* m_dispatch.read_stream
    user,         \* the owner of the other endpoint: "none", "up" or "gone"
    peer,         \* the other end of the connection: "up" or "lost"
    wire,         \* messages of the peer that were not received yet
    accepted,     \* frames received and parsed
    delivered,    \* frames the dispatch side has read
    pushed,       \* frames the dispatch side has written
    sent          \* messages whose send has completed

session  == <<m_cvt, m_receiving, m_sending>>
channels == <<write_stream, read_stream>>
network  == <<peer, wire>>
history  == <<accepted, delivered, pushed, sent>>
vars == <<ws, rx, tasks, session, channels, user, network, history>>

Init ==
    /\ ws = "init" /\ rx = FALSE
    /\ tasks = [write |-> 0, read |-> 0]
    /\ m_cvt = None /\ m_receiving = None /\ m_sending = None
    /\ write_stream = EmptyChannel /\ read_stream = EmptyChannel
    /\ user = IF Side = "server" THEN "none" ELSE "up"
    /\ peer = "up" /\ wire = <<>>
    /\ accepted = <<>> /\ delivered = <<>> /\ pushed = <<>> /\ sent = <<>>

-----------------------------------------------------------------------------
(* The calls of fishnets.  A session that is closed ignores them.          *)

\* wsClose(), where `w' is the state of the socket when it is called.
Closing(w) == IF w = "open" THEN "closing" ELSE w

\* wsReceive()
Receiving == ws # "closed"

-----------------------------------------------------------------------------
(* The functions the handlers share, each from the point of its call to    *)
(* the end of the handler.  An operator with a suffix is a faulty variant  *)
(* of the one after it: it shows that the properties can tell the two.     *)

WriteSucceeds_KeepsFrame(f) ==
    /\ MayWrite(write_stream)
    /\ write_stream' = Put(write_stream, f)
    /\ m_receiving' = f /\ rx' = Receiving
    /\ UNCHANGED ws

WriteSucceeds_NoReceive(f) ==
    /\ MayWrite(write_stream)
    /\ write_stream' = Put(write_stream, f)
    /\ m_receiving' = None /\ rx' = FALSE
    /\ UNCHANGED ws

WriteSucceeds(f) ==
    /\ MayWrite(write_stream)
    /\ write_stream' = Put(write_stream, f)
    /\ m_receiving' = None /\ rx' = Receiving
    /\ UNCHANGED ws

WriteBlocked_NoCallback(f) ==
    /\ WriteBlocks(write_stream)
    /\ m_receiving' = f /\ rx' = FALSE
    /\ UNCHANGED <<ws, write_stream>>

WriteBlocked_Receives(f) ==
    /\ WriteBlocks(write_stream)
    /\ write_stream' = Register(write_stream)
    /\ m_receiving' = f /\ rx' = Receiving
    /\ UNCHANGED ws

WriteBlocked_DropsFrame(f) ==
    /\ WriteBlocks(write_stream)
    /\ m_receiving' = None /\ rx' = Receiving
    /\ UNCHANGED <<ws, write_stream>>

WriteBlocked(f) ==
    /\ WriteBlocks(write_stream)
    /\ write_stream' = Register(write_stream)
    /\ m_receiving' = f /\ rx' = FALSE
    /\ UNCHANGED ws

WriteClosed(f) ==
    /\ write_stream.closed
    /\ ws' = Closing(ws)
    /\ m_receiving' = f /\ rx' = FALSE
    /\ UNCHANGED write_stream

\* tryWriteToDispatch(), with `f' in m_receiving.
TryWriteToDispatch(f) == WriteSucceeds(f) \/ WriteBlocked(f) \/ WriteClosed(f)

ReadSucceeds_LeavesFrame(w, c) ==
    /\ MayRead(read_stream)
    /\ m_sending' = FromAc(c, Head(read_stream.buf))
    /\ ws' = w
    /\ UNCHANGED read_stream

ReadSucceeds(w, c) ==
    /\ MayRead(read_stream)
    /\ m_sending' = FromAc(c, Head(read_stream.buf))
    /\ read_stream' = Take(read_stream)
    /\ ws' = w

ReadBlocked(w) ==
    /\ ReadBlocks(read_stream)
    /\ m_sending' = None
    /\ read_stream' = Register(read_stream)
    /\ ws' = w

ReadClosed_StaysOpen(w) ==
    /\ read_stream.closed
    /\ m_sending' = None
    /\ ws' = w
    /\ UNCHANGED read_stream

ReadClosed(w) ==
    /\ read_stream.closed
    /\ m_sending' = None
    /\ ws' = Closing(w)
    /\ UNCHANGED read_stream

\* tryReadFromDispatch() and doSend(), called with the socket in state `w' and
\* the conversion `c'.
TryReadFromDispatch(w, c) == ReadSucceeds(w, c) \/ ReadBlocked(w) \/ ReadClosed(w)

-----------------------------------------------------------------------------
(* The handlers of the session.                                            *)

\* What a connection may ask for: IoCtx::connect always asks for "/cbor", the
\* peers of a server for that or for anything else.
Targets == IF Side = "client" THEN {"/cbor"} ELSE {"/cbor", "/"}

\* wsOpened of either subclass.  The server creates its channels and starts
\* the local session here; the client was given its endpoint before.
WsOpened ==
    /\ ws = "init"
    /\ \E target \in Targets :
          m_cvt' = IF target = "/cbor" THEN "cbor" ELSE "json"
    /\ rx' = TRUE
    /\ user' = IF user = "none" THEN "up" ELSE user
    /\ TryReadFromDispatch("open", m_cvt')
    /\ UNCHANGED <<tasks, m_receiving, write_stream, network, history>>

\* received(), when the message parses.
WsReceived ==
    /\ ws \in {"open", "closing"} /\ rx
    /\ wire # <<>> /\ ~Throws(Head(wire))
    /\ wire' = Tail(wire)
    /\ accepted' = Append(accepted, ToAc(Head(wire)))
    /\ TryWriteToDispatch(ToAc(Head(wire)))
    /\ UNCHANGED <<tasks, m_cvt, m_sending, read_stream, user, peer,
                   delivered, pushed, sent>>

WsReceivedMalformed_StaysOpen ==
    /\ ws \in {"open", "closing"} /\ rx
    /\ wire # <<>> /\ Throws(Head(wire))
    /\ wire' = Tail(wire)
    /\ rx' = FALSE
    /\ m_receiving' = EmptyFrame
    /\ UNCHANGED <<ws, tasks, m_cvt, m_sending, channels, user, peer, history>>

\* received(), when parsing throws: m_receiving keeps the empty frame.
WsReceivedMalformed ==
    /\ ws \in {"open", "closing"} /\ rx
    /\ wire # <<>> /\ Throws(Head(wire))
    /\ wire' = Tail(wire)
    /\ rx' = FALSE
    /\ m_receiving' = EmptyFrame
    /\ ws' = Closing(ws)
    /\ UNCHANGED <<tasks, m_cvt, m_sending, channels, user, peer, history>>

\* The task that the callback of a blocked write has posted.
RunTryWrite ==
    /\ tasks.write > 0
    /\ tasks' = [tasks EXCEPT !.write = @ - 1]
    /\ IF m_receiving = None
       THEN UNCHANGED <<ws, rx, m_receiving, write_stream>>
       ELSE TryWriteToDispatch(m_receiving)
    /\ UNCHANGED <<m_cvt, m_sending, read_stream, user, network, history>>

\* The task that the callback of a blocked read has posted.
RunTryRead ==
    /\ tasks.read > 0
    /\ tasks' = [tasks EXCEPT !.read = @ - 1]
    /\ IF m_sending # None
       THEN UNCHANGED <<ws, m_sending, read_stream>>
       ELSE TryReadFromDispatch(ws, m_cvt)
    /\ UNCHANGED <<rx, m_cvt, m_receiving, write_stream, user, network, history>>

WsCompletedSend_NoRead ==
    /\ ws \in {"open", "closing"}
    /\ m_sending # None
    /\ sent' = Append(sent, m_sending)
    /\ m_sending' = None
    /\ UNCHANGED <<ws, rx, tasks, m_cvt, m_receiving, channels, user, network,
                   accepted, delivered, pushed>>

\* wsCompletedSend()
WsCompletedSend ==
    /\ ws \in {"open", "closing"}
    /\ m_sending # None
    /\ sent' = Append(sent, m_sending)
    /\ TryReadFromDispatch(ws, m_cvt)
    /\ UNCHANGED <<rx, tasks, m_cvt, m_receiving, write_stream, user, network,
                   accepted, delivered, pushed>>

\* Closing a channel, or a step of the dispatch side, posts the task of the
\* callback it found.
Wake ==
    tasks' = [write |-> tasks.write +
                  IF write_stream.cb /\ ~write_stream'.cb THEN 1 ELSE 0,
              read |-> tasks.read +
                  IF read_stream.cb /\ ~read_stream'.cb THEN 1 ELSE 0]

CloseChannels_ReadOnly ==
    /\ read_stream' = Close(read_stream)
    /\ UNCHANGED write_stream
    /\ Wake

CloseChannels ==
    /\ write_stream' = Close(write_stream)
    /\ read_stream' = Close(read_stream)
    /\ Wake

\* wsClosed(): after wsClose, when a connection attempt fails, or when an
\* operation in progress fails because the peer is lost.
WsClosed ==
    /\ \/ ws = "closing"
       \/ ws = "init" /\ Side = "client"
       \/ ws = "open" /\ peer = "lost" /\ (rx \/ m_sending # None)
    /\ ws' = "closed"
    /\ rx' = FALSE
    /\ CloseChannels
    /\ UNCHANGED <<session, user, network, history>>

-----------------------------------------------------------------------------
(* The dispatch side: the local session on the server, the program that    *)
(* called IoCtx::connect on the client.                                    *)

DispatchRead ==
    /\ user = "up" /\ MayRead(write_stream)
    /\ delivered' = Append(delivered, Head(write_stream.buf))
    /\ write_stream' = TakeAndWake(write_stream)
    /\ UNCHANGED read_stream
    /\ Wake
    /\ UNCHANGED <<ws, rx, session, user, network, accepted, pushed, sent>>

DispatchWrite(f) ==
    /\ user = "up" /\ MayWrite(read_stream)
    /\ Len(pushed) < MaxPushed
    /\ pushed' = Append(pushed, f)
    /\ read_stream' = PutAndWake(read_stream, f)
    /\ UNCHANGED write_stream
    /\ Wake
    /\ UNCHANGED <<ws, rx, session, user, network, accepted, delivered, sent>>

\* The destructor of the endpoint closes both of its streams.
DispatchClose ==
    /\ user = "up"
    /\ user' = "gone"
    /\ CloseChannels
    /\ UNCHANGED <<ws, rx, session, network, history>>

-----------------------------------------------------------------------------
(* The peer.                                                               *)

Received == Len(accepted) + IF m_receiving = EmptyFrame THEN 1 ELSE 0

PeerSend(m) ==
    /\ peer = "up" /\ ws \in {"open", "closing"}
    /\ Received + Len(wire) < MaxWire
    /\ wire' = Append(wire, m)
    /\ UNCHANGED <<ws, rx, tasks, session, channels, user, peer, history>>

PeerLost ==
    /\ peer = "up" /\ ws # "init"
    /\ peer' = "lost"
    /\ UNCHANGED <<ws, rx, tasks, session, channels, user, wire, history>>

-----------------------------------------------------------------------------
SessionNext ==
    \/ WsOpened \/ WsReceived \/ WsReceivedMalformed
    \/ RunTryWrite \/ RunTryRead \/ WsCompletedSend \/ WsClosed

EnvironmentNext ==
    \/ DispatchRead \/ DispatchClose \/ PeerLost
    \/ \E f \in OutFrames : DispatchWrite(f)
    \/ \E m \in InMessages : PeerSend(m)

Next == SessionNext \/ EnvironmentNext

Spec == Init /\ [][Next]_vars

\* The strand runs what is ready, the transport completes what was started
\* or fails it, and the dispatch side reads what it is sent.
Fairness ==
    /\ WF_vars(WsOpened) /\ WF_vars(WsReceived) /\ WF_vars(WsReceivedMalformed)
    /\ WF_vars(RunTryWrite) /\ WF_vars(RunTryRead)
    /\ WF_vars(WsCompletedSend) /\ WF_vars(WsClosed)
    /\ WF_vars(DispatchRead)

FairSpec == Spec /\ Fairness

-----------------------------------------------------------------------------
(* Properties.                                                             *)

\* The types of the variables.
TypeOK ==
    /\ ws \in {"init", "open", "closing", "closed"}
    /\ rx \in BOOLEAN
    /\ tasks \in [write : Nat, read : Nat]
    /\ m_cvt \in {None, "cbor", "json"}
    /\ m_receiving \in Frames \cup {EmptyFrame, None}
    /\ m_sending \in Messages \cup {None}
    /\ write_stream \in Channel(Frames) /\ read_stream \in Channel(Frames)
    /\ user \in {"none", "up", "gone"}
    /\ peer \in {"up", "lost"}
    /\ wire \in Seq(Messages)
    /\ accepted \in Seq(Frames) /\ delivered \in Seq(Frames)
    /\ pushed \in Seq(Frames) /\ sent \in Seq(Messages)

\* How many things will go on with each pump: an operation of the socket in
\* progress, a callback registered on the channel, a task posted.
ReceivePump == (IF rx THEN 1 ELSE 0) + (IF write_stream.cb THEN 1 ELSE 0) + tasks.write
SendPump == (IF m_sending # None THEN 1 ELSE 0) + (IF read_stream.cb THEN 1 ELSE 0) + tasks.read

\* While the socket is open each pump has exactly one continuation: with none
\* the direction would be dead (a lost wake-up), with two a second wsReceive
\* or wsSend would be started while the first is in progress.
OnePumpEach == ws = "open" => ReceivePump = 1 /\ SendPump = 1

\* The same bound until the session is over, so that the early returns of
\* tryWriteToDispatch and tryReadFromDispatch are never the ones that save it.
NeverTwice ==
    /\ ReceivePump <= 1 /\ SendPump <= 1
    /\ tasks.write > 0 => m_receiving \in Frames
    /\ tasks.read > 0 => m_sending = None

\* assert(!m_receiving) in received(): a message never arrives while the
\* frame before it is still waiting for room in the channel.
AssertNotReceiving == rx => m_receiving = None

\* The callbacks hold the session by shared_ptr and the session holds the
\* channels: none may be left on them once the session is closed, or neither
\* is ever destroyed.
NoCallbackAfterClose == ws = "closed" => ~write_stream.cb /\ ~read_stream.cb

\* What a peer decodes is what the dispatch side wrote.  Only JSON loses
\* something: a blob reaches the peer as an object.
PeerDecodesPushed ==
    \A i \in DOMAIN sent :
        ToAc(sent[i]) =
            IF m_cvt = "json" /\ pushed[i].data = "blob"
            THEN [op |-> pushed[i].op, data |-> "bytes"]
            ELSE pushed[i]

\* From the socket to the dispatch side, the session is a relay that keeps
\* every frame and their order, and that holds one frame more than its
\* channel.  A message that does not parse closes it: nothing that follows
\* it, nor the empty frame it leaves behind, is ever delivered.
Up == INSTANCE FrameRelay WITH
    Item <- Frames, Window <- Capacity + 1,
    closed <- ws = "closed" \/ m_receiving = EmptyFrame
UpRelay == Up!Spec

\* From the dispatch side to the socket, the same.
OpsOf(s) == [i \in DOMAIN s |-> s[i].op]
Down == INSTANCE FrameRelay WITH
    Item <- Ops, Window <- Capacity + 1,
    accepted <- OpsOf(pushed), delivered <- OpsOf(sent),
    closed <- read_stream.closed
DownRelay == Down!Spec

\* When the dispatch side goes, the socket is closed, whatever each pump was
\* waiting for at the time.
DispatchCloseEndsSession == user = "gone" ~> ws = "closed"

\* When the peer is lost the session ends, also if the channel was full and
\* no operation was there to fail: this is owed to the dispatch side, which
\* must go on reading.
PeerLossEndsSession == peer = "lost" ~> ws = "closed"

\* A message that does not parse ends the session.
MalformedEndsSession == m_receiving = EmptyFrame ~> ws = "closed"

\* Every frame written by the dispatch side is sent, and every message sent
\* by the peer reaches the dispatch side, unless the session ends: with
\* MaxPushed of the one and MaxWire of the other, both sides catch up.
EverythingMoves ==
    []<>(\/ Len(sent) = Len(pushed) /\ Len(delivered) = Received + Len(wire)
         \/ ws \in {"init", "closed"})
=============================================================================
