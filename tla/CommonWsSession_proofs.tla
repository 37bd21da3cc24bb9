------------------------- MODULE CommonWsSession_proofs -------------------------
(***************************************************************************)
(* Proofs about CommonWsSession, for every traffic, capacity and bound.    *)
(***************************************************************************)
EXTENDS CommonWsSession, BufferedChannel_proofs, SequenceTheorems

-----------------------------------------------------------------------------
(* Lemmas about the operators the session is built from.                   *)

\* A message that parses becomes a frame.
LEMMA ToAcType ==
    ASSUME NEW m \in Messages, ~Throws(m)
    PROVE  ToAc(m) \in Frames
  BY DEF Messages, Frames, Data, Throws, ToAc

\* A frame becomes a message, under either conversion.
LEMMA FromAcType ==
    ASSUME NEW f \in Frames, NEW c
    PROVE  FromAc(c, f) \in Messages
<1>1. CASE c = "cbor"
  BY <1>1 DEF Messages, Frames, Data, FromAc
<1>2. CASE c # "cbor"
  BY <1>2 DEF Messages, Frames, Data, FromAc
<1>3. QED  BY <1>1, <1>2

\* The frame a failed parse leaves in m_receiving is no frame of a peer.
LEMMA EmptyFrameIsNoFrame == EmptyFrame \notin Frames /\ EmptyFrame # None
  BY EmptyOpAssumption, NoneAssumption DEF Frames, EmptyFrame

-----------------------------------------------------------------------------
(* The inductive invariant.  TypeOK alone is not inductive: RunTryWrite    *)
(* would write the frame of a failed parse, had it a task to run.  That it *)
(* never does follows from counting what may continue each pump.           *)

\* A session that was not opened, or is over, has nothing in progress.
SocketInv ==
    /\ ws = "init" => m_receiving = None /\ m_sending = None /\ sent = <<>>
                      /\ ReceivePump = 0 /\ SendPump = 0
    /\ ws = "closed" => /\ ~rx
                        /\ write_stream.closed /\ ~write_stream.cb
                        /\ read_stream.closed /\ ~read_stream.cb

ReceiveInv ==
    /\ ReceivePump <= 1
    /\ ws = "open" => ReceivePump = 1
    /\ rx => m_receiving = None
    /\ write_stream.cb \/ tasks.write > 0 => m_receiving \in Frames
    /\ m_receiving = EmptyFrame => ws \in {"closing", "closed"} /\ ReceivePump = 0

SendInv ==
    /\ SendPump <= 1
    /\ ws = "open" => SendPump = 1

IInv == TypeOK /\ SocketInv /\ ReceiveInv /\ SendInv

\* The invariant holds initially.
LEMMA InitInv == Init => IInv
<1> SUFFICES ASSUME Init PROVE IInv
  OBVIOUS
<1>1. TypeOK
  <2>1. EmptyChannel \in Channel(Frames)
    BY DEF EmptyChannel, Channel
  <2>2. tasks \in [write : Nat, read : Nat] /\ user \in {"none", "up", "gone"}
    BY DEF Init
  <2>3. rx \in BOOLEAN
    BY DEF Init
  <2>4. QED  BY <2>1, <2>2, <2>3 DEF Init, TypeOK
<1>2. ReceivePump = 0 /\ SendPump = 0
  BY DEF Init, ReceivePump, SendPump, EmptyChannel
<1>3. m_receiving # EmptyFrame
  BY EmptyFrameIsNoFrame DEF Init
<1>4. SocketInv /\ ReceiveInv /\ SendInv
  BY <1>2, <1>3, SMTT(30) DEF Init, SocketInv, ReceiveInv, SendInv, EmptyChannel
<1>5. QED  BY <1>1, <1>4 DEF IInv

\* tryWriteToDispatch with a frame of the peer, called when nothing else will
\* go on with the receiving pump.
LEMMA TryWriteInv ==
    ASSUME TypeOK, NEW f \in Frames, TryWriteToDispatch(f),
           ~write_stream.cb, tasks'.write = 0,
           ws = "closed" => write_stream.closed
    PROVE  /\ ws' = ws \/ (ws = "open" /\ ws' = "closing")
           /\ rx' \in BOOLEAN /\ m_receiving' \in Frames \cup {None}
           /\ write_stream' \in Channel(Frames)
           /\ write_stream'.closed = write_stream.closed
           /\ ReceivePump' <= 1 /\ (ws' = "open" => ReceivePump' = 1)
           /\ rx' => m_receiving' = None
           /\ write_stream'.cb => m_receiving' \in Frames
           /\ ws = "closed" => ~rx' /\ ~write_stream'.cb
<1>0. write_stream \in Channel(Frames)
  BY DEF TypeOK
<1>1. CASE WriteSucceeds(f)
  <2>1. write_stream' \in Channel(Frames)
    BY <1>0, <1>1, ChannelWrite DEF WriteSucceeds
  <2>2. write_stream'.closed = write_stream.closed /\ ~write_stream'.cb
    BY <1>0, <1>1 DEF WriteSucceeds, Put, Channel
  <2>3. ws # "closed" /\ ws' = ws /\ m_receiving' = None /\ rx' = TRUE
    BY <1>1 DEF WriteSucceeds, Receiving, MayWrite
  <2>4. ReceivePump' = 1
    BY <2>2, <2>3, SMTT(30) DEF ReceivePump
  <2>5. QED  BY <2>1, <2>2, <2>3, <2>4
<1>2. CASE WriteBlocked(f)
  <2>1. write_stream' \in Channel(Frames)
    BY <1>0, <1>2, ChannelFlags DEF WriteBlocked
  <2>2. write_stream'.closed = write_stream.closed /\ write_stream'.cb
    BY <1>0, <1>2 DEF WriteBlocked, Register, Channel
  <2>3. ws # "closed" /\ ws' = ws /\ m_receiving' = f /\ ~rx' /\ rx' \in BOOLEAN
    BY <1>2 DEF WriteBlocked, WriteBlocks
  <2>4. ReceivePump' = 1
    BY <2>2, <2>3, SMTT(30) DEF ReceivePump
  <2>5. QED  BY <2>1, <2>2, <2>3, <2>4
<1>3. CASE WriteClosed(f)
  <2>1. write_stream' = write_stream /\ m_receiving' = f /\ ~rx' /\ rx' \in BOOLEAN
    BY <1>3 DEF WriteClosed
  <2>2. ws' # "open" /\ (ws' = ws \/ (ws = "open" /\ ws' = "closing"))
    BY <1>3 DEF WriteClosed, Closing
  <2>3. ReceivePump' = 0
    BY <2>1, SMTT(30) DEF ReceivePump
  <2>4. QED  BY <1>0, <2>1, <2>2, <2>3
<1>4. QED  BY <1>1, <1>2, <1>3 DEF TryWriteToDispatch

\* tryReadFromDispatch, called when nothing else will go on with the sending
\* pump.
LEMMA TryReadInv ==
    ASSUME TypeOK, NEW w, NEW c, TryReadFromDispatch(w, c),
           ~read_stream.cb, tasks'.read = 0,
           w = "closed" => read_stream.closed
    PROVE  /\ ws' = w \/ (w = "open" /\ ws' = "closing")
           /\ m_sending' \in Messages \cup {None}
           /\ read_stream' \in Channel(Frames)
           /\ read_stream'.closed = read_stream.closed
           /\ SendPump' <= 1 /\ (ws' = "open" => SendPump' = 1)
           /\ w = "closed" => ~read_stream'.cb
<1>0. read_stream \in Channel(Frames)
  BY DEF TypeOK
<1>1. CASE ReadSucceeds(w, c)
  <2>1. Head(read_stream.buf) \in Frames /\ read_stream' \in Channel(Frames)
    BY <1>0, <1>1, ChannelRead DEF ReadSucceeds
  <2>2. m_sending' \in Messages /\ m_sending' # None
    BY <1>1, <2>1, FromAcType, NoneAssumption DEF ReadSucceeds
  <2>3. read_stream'.closed = read_stream.closed /\ ~read_stream'.cb
    BY <1>0, <1>1 DEF ReadSucceeds, Take, Channel
  <2>4. SendPump' = 1
    BY <2>2, <2>3, SMTT(30) DEF SendPump
  <2>5. QED  BY <1>1, <2>1, <2>2, <2>3, <2>4 DEF ReadSucceeds
<1>2. CASE ReadBlocked(w)
  <2>1. read_stream' \in Channel(Frames)
    BY <1>0, <1>2, ChannelFlags DEF ReadBlocked
  <2>2. read_stream'.closed = read_stream.closed /\ read_stream'.cb = TRUE
    BY <1>0, <1>2 DEF ReadBlocked, Register, Channel
  <2>3. w # "closed" /\ ws' = w /\ m_sending' = None
    BY <1>2 DEF ReadBlocked, ReadBlocks
  <2>4. SendPump' = 1
    BY <2>2, <2>3, SMTT(30) DEF SendPump
  <2>5. QED  BY <2>1, <2>2, <2>3, <2>4
<1>3. CASE ReadClosed(w)
  <2>1. read_stream' = read_stream /\ m_sending' = None
    BY <1>3 DEF ReadClosed
  <2>2. ws' # "open" /\ (ws' = w \/ (w = "open" /\ ws' = "closing"))
    BY <1>3 DEF ReadClosed, Closing
  <2>3. SendPump' = 0
    BY <2>1, SMTT(30) DEF SendPump
  <2>4. QED  BY <1>0, <2>1, <2>2, <2>3
<1>4. QED  BY <1>1, <1>2, <1>3 DEF TryReadFromDispatch

\* A pump is counted from two flags and a number: what the count says of them.
LEMMA CountParts ==
    ASSUME NEW a, NEW b, NEW n \in Nat
    PROVE  LET count == (IF a THEN 1 ELSE 0) + (IF b THEN 1 ELSE 0) + n
           IN  /\ count \in Nat
               /\ count = 0 => ~a /\ ~b /\ n = 0
               /\ count <= 1 /\ a => ~b /\ n = 0
               /\ count <= 1 /\ n > 0 => ~a /\ ~b /\ n = 1
<1>1. CASE a /\ b
  BY <1>1
<1>2. CASE a /\ ~b
  BY <1>2
<1>3. CASE ~a /\ b
  BY <1>3
<1>4. CASE ~a /\ ~b
  BY <1>4
<1>5. QED  BY <1>1, <1>2, <1>3, <1>4

\* What the counts of the pumps say of their parts.
LEMMA PumpParts ==
    ASSUME TypeOK
    PROVE  /\ ReceivePump \in Nat /\ SendPump \in Nat
           /\ ReceivePump = 0 => ~rx /\ ~write_stream.cb /\ tasks.write = 0
           /\ ReceivePump <= 1 /\ rx => ~write_stream.cb /\ tasks.write = 0
           /\ ReceivePump <= 1 /\ tasks.write > 0 =>
                  ~rx /\ ~write_stream.cb /\ tasks.write = 1
           /\ SendPump = 0 => m_sending = None /\ ~read_stream.cb /\ tasks.read = 0
           /\ SendPump <= 1 /\ m_sending # None => ~read_stream.cb /\ tasks.read = 0
           /\ SendPump <= 1 /\ tasks.read > 0 =>
                  m_sending = None /\ ~read_stream.cb /\ tasks.read = 1
<1>1. tasks.write \in Nat /\ tasks.read \in Nat
  BY DEF TypeOK
<1>2. /\ ReceivePump \in Nat
      /\ ReceivePump = 0 => ~rx /\ ~write_stream.cb /\ tasks.write = 0
      /\ ReceivePump <= 1 /\ rx => ~write_stream.cb /\ tasks.write = 0
      /\ ReceivePump <= 1 /\ tasks.write > 0 =>
             ~rx /\ ~write_stream.cb /\ tasks.write = 1
  BY <1>1, CountParts, SMTT(30) DEF ReceivePump
<1>3. /\ SendPump \in Nat
      /\ SendPump = 0 => m_sending = None /\ ~read_stream.cb /\ tasks.read = 0
      /\ SendPump <= 1 /\ m_sending # None => ~read_stream.cb /\ tasks.read = 0
      /\ SendPump <= 1 /\ tasks.read > 0 =>
             m_sending = None /\ ~read_stream.cb /\ tasks.read = 1
  <2> DEFINE sending == m_sending # None
  <2>1. /\ SendPump \in Nat
        /\ SendPump = 0 => ~sending /\ ~read_stream.cb /\ tasks.read = 0
        /\ SendPump <= 1 /\ sending => ~read_stream.cb /\ tasks.read = 0
        /\ SendPump <= 1 /\ tasks.read > 0 =>
               ~sending /\ ~read_stream.cb /\ tasks.read = 1
    BY <1>1, CountParts, SMTT(30) DEF SendPump
  <2>2. QED  BY <2>1
<1>4. QED  BY <1>2, <1>3

\* Opening starts one receive, and one read that blocks or sends.
LEMMA WsOpenedInv == IInv /\ WsOpened => IInv'
<1> SUFFICES ASSUME IInv, WsOpened PROVE IInv'
  OBVIOUS
<1>0. TypeOK /\ SocketInv /\ ReceiveInv /\ SendInv /\ ws = "init"
  BY DEF IInv, WsOpened
<1>1. /\ ~write_stream.cb /\ tasks.write = 0 /\ m_receiving = None
      /\ ~read_stream.cb /\ tasks.read = 0
  BY <1>0, PumpParts, SMTT(30) DEF SocketInv
<1>2. /\ TryReadFromDispatch("open", m_cvt') /\ tasks' = tasks
      /\ m_receiving' = m_receiving /\ write_stream' = write_stream
      /\ rx' /\ rx' \in BOOLEAN
  BY DEF WsOpened
<1>3. /\ ws' \in {"open", "closing"}
      /\ m_sending' \in Messages \cup {None}
      /\ read_stream' \in Channel(Frames)
      /\ SendPump' <= 1 /\ (ws' = "open" => SendPump' = 1)
  BY <1>0, <1>1, <1>2, TryReadInv
<1>4. ReceivePump' = 1
  BY <1>1, <1>2, SMTT(30) DEF ReceivePump
<1>5. m_cvt' \in {"cbor", "json"} /\ user' \in {"none", "up", "gone"}
  BY <1>0, SMTT(30) DEF WsOpened, TypeOK
<1>6. TypeOK'
  BY <1>0, <1>2, <1>3, <1>5, SMTT(30) DEF WsOpened, TypeOK, network, history
<1>7. SocketInv' /\ SendInv'
  BY <1>3, SMTT(30) DEF SocketInv, SendInv
<1>8. ReceiveInv'
  BY <1>1, <1>2, <1>4, EmptyFrameIsNoFrame, SMTT(30) DEF ReceiveInv
<1>9. QED  BY <1>6, <1>7, <1>8 DEF IInv

\* A message that parses hands the receiving pump to tryWriteToDispatch.
LEMMA WsReceivedInv == IInv /\ WsReceived => IInv'
<1> SUFFICES ASSUME IInv, WsReceived PROVE IInv'
  OBVIOUS
<1> DEFINE f == ToAc(Head(wire))
<1>0. TypeOK /\ SocketInv /\ ReceiveInv /\ SendInv
  BY DEF IInv
<1>1. ws \in {"open", "closing"} /\ rx /\ ~write_stream.cb /\ tasks.write = 0
  BY <1>0, PumpParts, SMTT(30) DEF WsReceived, ReceiveInv
<1>2. f \in Frames /\ Tail(wire) \in Seq(Messages)
  <2>1. Head(wire) \in Messages /\ ~Throws(Head(wire)) /\ Tail(wire) \in Seq(Messages)
    BY <1>0, SMTT(30) DEF WsReceived, TypeOK
  <2>2. QED  BY <2>1, ToAcType
<1>3. /\ TryWriteToDispatch(f) /\ tasks' = tasks
      /\ wire' = Tail(wire) /\ accepted' = Append(accepted, f)
      /\ m_cvt' = m_cvt /\ m_sending' = m_sending /\ read_stream' = read_stream
      /\ user' = user /\ peer' = peer
      /\ delivered' = delivered /\ pushed' = pushed /\ sent' = sent
  BY DEF WsReceived
<1>4. /\ ws' = ws \/ (ws = "open" /\ ws' = "closing")
      /\ rx' \in BOOLEAN /\ m_receiving' \in Frames \cup {None}
      /\ write_stream' \in Channel(Frames)
      /\ ReceivePump' <= 1 /\ (ws' = "open" => ReceivePump' = 1)
      /\ rx' => m_receiving' = None
      /\ write_stream'.cb => m_receiving' \in Frames
  BY <1>0, <1>1, <1>2, <1>3, TryWriteInv
<1>5. accepted' \in Seq(Frames)
  BY <1>0, <1>2, <1>3, SMTT(30) DEF TypeOK
<1>6. TypeOK'
  BY <1>0, <1>1, <1>2, <1>3, <1>4, <1>5, SMTT(30) DEF TypeOK
<1>7. SendPump' = SendPump
  BY <1>3, SMTT(30) DEF SendPump
<1>8. SocketInv' /\ SendInv'
  BY <1>0, <1>1, <1>4, <1>7, SMTT(30) DEF SocketInv, SendInv
<1>9. ReceiveInv'
  BY <1>1, <1>3, <1>4, EmptyFrameIsNoFrame, SMTT(30) DEF ReceiveInv
<1>10. QED  BY <1>6, <1>8, <1>9 DEF IInv

\* A message that does not parse stops the receiving pump and the session.
LEMMA WsReceivedMalformedInv == IInv /\ WsReceivedMalformed => IInv'
<1> SUFFICES ASSUME IInv, WsReceivedMalformed PROVE IInv'
  OBVIOUS
<1>0. TypeOK /\ SocketInv /\ ReceiveInv /\ SendInv
  BY DEF IInv
<1>1. ws \in {"open", "closing"} /\ rx /\ ~write_stream.cb /\ tasks.write = 0
  BY <1>0, PumpParts, SMTT(30) DEF WsReceivedMalformed, ReceiveInv
<1>2. ws' = "closing" /\ ~rx' /\ rx' \in BOOLEAN /\ m_receiving' = EmptyFrame
  BY <1>1 DEF WsReceivedMalformed, Closing
<1>3. /\ tasks' = tasks /\ m_cvt' = m_cvt /\ m_sending' = m_sending
      /\ write_stream' = write_stream /\ read_stream' = read_stream
      /\ user' = user /\ peer' = peer /\ wire' = Tail(wire)
      /\ accepted' = accepted /\ delivered' = delivered
      /\ pushed' = pushed /\ sent' = sent
  BY DEF WsReceivedMalformed, channels, history
<1>4. wire' \in Seq(Messages)
  BY <1>0, <1>3, SMTT(30) DEF WsReceivedMalformed, TypeOK
<1>5. TypeOK'
  BY <1>0, <1>2, <1>3, <1>4, SMTT(30) DEF TypeOK
<1>6. ReceivePump' = 0 /\ SendPump' = SendPump
  BY <1>1, <1>2, <1>3, SMTT(30) DEF ReceivePump, SendPump
<1>7. SocketInv' /\ SendInv' /\ ReceiveInv'
  BY <1>0, <1>1, <1>2, <1>3, <1>6, EmptyFrameIsNoFrame, SMTT(30) DEF SocketInv, SendInv, ReceiveInv
<1>8. QED  BY <1>5, <1>7 DEF IInv

\* The posted task takes the receiving pump over from the callback.
LEMMA RunTryWriteInv == IInv /\ RunTryWrite => IInv'
<1> SUFFICES ASSUME IInv, RunTryWrite PROVE IInv'
  OBVIOUS
<1>0. TypeOK /\ SocketInv /\ ReceiveInv /\ SendInv
  BY DEF IInv
<1>1. tasks.write = 1 /\ ~rx /\ ~write_stream.cb /\ m_receiving \in Frames
  BY <1>0, PumpParts, SMTT(30) DEF RunTryWrite, ReceiveInv, TypeOK
<1>2. ws # "init" /\ (ws = "closed" => write_stream.closed)
  BY <1>0, <1>1, PumpParts, SMTT(30) DEF SocketInv
<1>3. tasks' \in [write : Nat, read : Nat] /\ tasks'.write = 0 /\ tasks'.read = tasks.read
  BY <1>0, <1>1, SMTT(30) DEF RunTryWrite, TypeOK
<1>4. /\ TryWriteToDispatch(m_receiving)
      /\ m_cvt' = m_cvt /\ m_sending' = m_sending /\ read_stream' = read_stream
      /\ user' = user /\ peer' = peer /\ wire' = wire
      /\ accepted' = accepted /\ delivered' = delivered
      /\ pushed' = pushed /\ sent' = sent
  BY <1>1, NoneAssumption DEF RunTryWrite, network, history
<1>5. /\ ws' = ws \/ (ws = "open" /\ ws' = "closing")
      /\ rx' \in BOOLEAN /\ m_receiving' \in Frames \cup {None}
      /\ write_stream' \in Channel(Frames)
      /\ write_stream'.closed = write_stream.closed
      /\ ReceivePump' <= 1 /\ (ws' = "open" => ReceivePump' = 1)
      /\ rx' => m_receiving' = None
      /\ write_stream'.cb => m_receiving' \in Frames
      /\ ws = "closed" => ~rx' /\ ~write_stream'.cb
  BY <1>0, <1>1, <1>2, <1>3, <1>4, TryWriteInv
<1>6. TypeOK'
  BY <1>0, <1>3, <1>4, <1>5, SMTT(30) DEF TypeOK
<1>7. SendPump' = SendPump
  BY <1>3, <1>4, SMTT(30) DEF SendPump
<1>8. SocketInv' /\ SendInv'
  BY <1>0, <1>2, <1>4, <1>5, <1>7, SMTT(30) DEF SocketInv, SendInv
<1>9. ReceiveInv'
  BY <1>3, <1>5, EmptyFrameIsNoFrame, SMTT(30) DEF ReceiveInv
<1>10. QED  BY <1>6, <1>8, <1>9 DEF IInv

\* The posted task takes the sending pump over from the callback.
LEMMA RunTryReadInv == IInv /\ RunTryRead => IInv'
<1> SUFFICES ASSUME IInv, RunTryRead PROVE IInv'
  OBVIOUS
<1>0. TypeOK /\ SocketInv /\ ReceiveInv /\ SendInv
  BY DEF IInv
<1>1. tasks.read = 1 /\ m_sending = None /\ ~read_stream.cb
  BY <1>0, PumpParts, SMTT(30) DEF RunTryRead, SendInv, TypeOK
<1>2. ws # "init" /\ (ws = "closed" => read_stream.closed)
  BY <1>0, <1>1, PumpParts, SMTT(30) DEF SocketInv
<1>3. tasks' \in [write : Nat, read : Nat] /\ tasks'.read = 0 /\ tasks'.write = tasks.write
  BY <1>0, <1>1, SMTT(30) DEF RunTryRead, TypeOK
<1>4. /\ TryReadFromDispatch(ws, m_cvt)
      /\ rx' = rx /\ m_cvt' = m_cvt /\ m_receiving' = m_receiving
      /\ write_stream' = write_stream
      /\ user' = user /\ peer' = peer /\ wire' = wire
      /\ accepted' = accepted /\ delivered' = delivered
      /\ pushed' = pushed /\ sent' = sent
  BY <1>1 DEF RunTryRead, network, history
<1>5. /\ ws' = ws \/ (ws = "open" /\ ws' = "closing")
      /\ m_sending' \in Messages \cup {None}
      /\ read_stream' \in Channel(Frames)
      /\ read_stream'.closed = read_stream.closed
      /\ SendPump' <= 1 /\ (ws' = "open" => SendPump' = 1)
      /\ ws = "closed" => ~read_stream'.cb
  BY <1>0, <1>1, <1>2, <1>3, <1>4, TryReadInv
<1>6. TypeOK'
  BY <1>0, <1>3, <1>4, <1>5, SMTT(30) DEF TypeOK
<1>7. ReceivePump' = ReceivePump
  BY <1>3, <1>4, SMTT(30) DEF ReceivePump
<1>8. SocketInv' /\ SendInv' /\ ReceiveInv'
  BY <1>0, <1>2, <1>3, <1>4, <1>5, <1>7, SMTT(30) DEF SocketInv, SendInv, ReceiveInv
<1>9. QED  BY <1>6, <1>8 DEF IInv

\* A completed send hands the sending pump to tryReadFromDispatch.
LEMMA WsCompletedSendInv == IInv /\ WsCompletedSend => IInv'
<1> SUFFICES ASSUME IInv, WsCompletedSend PROVE IInv'
  OBVIOUS
<1>0. TypeOK /\ SocketInv /\ ReceiveInv /\ SendInv
  BY DEF IInv
<1>1. /\ ws \in {"open", "closing"} /\ m_sending \in Messages
      /\ tasks.read = 0 /\ ~read_stream.cb
  BY <1>0, PumpParts, SMTT(30) DEF WsCompletedSend, SendInv, TypeOK
<1>2. /\ TryReadFromDispatch(ws, m_cvt) /\ sent' = Append(sent, m_sending)
      /\ rx' = rx /\ tasks' = tasks /\ m_cvt' = m_cvt
      /\ m_receiving' = m_receiving /\ write_stream' = write_stream
      /\ user' = user /\ peer' = peer /\ wire' = wire
      /\ accepted' = accepted /\ delivered' = delivered /\ pushed' = pushed
  BY DEF WsCompletedSend, network
<1>3. /\ ws' = ws \/ (ws = "open" /\ ws' = "closing")
      /\ m_sending' \in Messages \cup {None}
      /\ read_stream' \in Channel(Frames)
      /\ SendPump' <= 1 /\ (ws' = "open" => SendPump' = 1)
  BY <1>0, <1>1, <1>2, TryReadInv
<1>4. sent' \in Seq(Messages)
  BY <1>0, <1>1, <1>2, SMTT(30) DEF TypeOK
<1>5. TypeOK'
  BY <1>0, <1>2, <1>3, <1>4, SMTT(30) DEF TypeOK
<1>6. ReceivePump' = ReceivePump
  BY <1>2, SMTT(30) DEF ReceivePump
<1>7. SocketInv' /\ SendInv' /\ ReceiveInv'
  BY <1>0, <1>1, <1>2, <1>3, <1>6, SMTT(30) DEF SocketInv, SendInv, ReceiveInv
<1>8. QED  BY <1>5, <1>7 DEF IInv

\* Waking moves a continuation from a channel to the posted tasks.
LEMMA WakeInv ==
    ASSUME TypeOK, Wake,
           write_stream'.cb => write_stream.cb,
           read_stream'.cb => read_stream.cb
    PROVE  /\ tasks' \in [write : Nat, read : Nat]
           /\ tasks'.write + (IF write_stream'.cb THEN 1 ELSE 0)
                = tasks.write + (IF write_stream.cb THEN 1 ELSE 0)
           /\ tasks'.read + (IF read_stream'.cb THEN 1 ELSE 0)
                = tasks.read + (IF read_stream.cb THEN 1 ELSE 0)
           /\ tasks'.write > 0 => write_stream.cb \/ tasks.write > 0
<1>1. tasks.write \in Nat /\ tasks.read \in Nat
  BY DEF TypeOK
<1>2. /\ tasks'.write = tasks.write + IF write_stream.cb /\ ~write_stream'.cb THEN 1 ELSE 0
      /\ tasks'.read = tasks.read + IF read_stream.cb /\ ~read_stream'.cb THEN 1 ELSE 0
      /\ tasks' \in [write : Nat, read : Nat]
  BY <1>1 DEF Wake
<1>3. CASE write_stream.cb /\ ~write_stream'.cb
  BY <1>1, <1>2, <1>3
<1>4. CASE ~(write_stream.cb /\ ~write_stream'.cb)
  BY <1>1, <1>2, <1>4
<1>5. QED  BY <1>3, <1>4

\* wsClosed ends the receive and turns both callbacks into tasks.
LEMMA WsClosedInv == IInv /\ WsClosed => IInv'
<1> SUFFICES ASSUME IInv, WsClosed PROVE IInv'
  OBVIOUS
<1>0. TypeOK /\ SocketInv /\ ReceiveInv /\ SendInv
  BY DEF IInv
<1>1. /\ ws' = "closed" /\ ~rx' /\ rx' \in BOOLEAN
      /\ m_cvt' = m_cvt /\ m_receiving' = m_receiving /\ m_sending' = m_sending
      /\ user' = user /\ peer' = peer /\ wire' = wire
      /\ accepted' = accepted /\ delivered' = delivered
      /\ pushed' = pushed /\ sent' = sent
  BY DEF WsClosed, session, network, history
<1>2. /\ write_stream' \in Channel(Frames) /\ read_stream' \in Channel(Frames)
      /\ write_stream'.closed /\ ~write_stream'.cb
      /\ read_stream'.closed /\ ~read_stream'.cb
  BY <1>0, ChannelFlags DEF WsClosed, CloseChannels, TypeOK, Close, Channel
<1>3. /\ tasks' \in [write : Nat, read : Nat]
      /\ tasks'.write = tasks.write + IF write_stream.cb THEN 1 ELSE 0
      /\ tasks'.read = tasks.read + IF read_stream.cb THEN 1 ELSE 0
      /\ tasks'.write > 0 => write_stream.cb \/ tasks.write > 0
  BY <1>0, <1>2, WakeInv, SMTT(30) DEF WsClosed, CloseChannels, TypeOK
<1>4. ReceivePump' <= ReceivePump /\ ReceivePump' \in Nat /\ SendPump' = SendPump
  <2>1. tasks.write \in Nat /\ tasks.read \in Nat /\ rx \in BOOLEAN
    BY <1>0, SMTT(30) DEF TypeOK
  <2>2. ReceivePump' <= ReceivePump /\ ReceivePump' \in Nat
    BY <1>1, <1>2, <1>3, <2>1, SMTT(30) DEF ReceivePump
  <2>3. SendPump' = SendPump
    BY <1>1, <1>2, <1>3, <2>1, SMTT(30) DEF SendPump
  <2>4. QED  BY <2>2, <2>3
<1>5. TypeOK'
  BY <1>0, <1>1, <1>2, <1>3, SMTT(30) DEF TypeOK
<1>6. ReceiveInv'
  BY <1>0, <1>1, <1>2, <1>3, <1>4, PumpParts, SMTT(30) DEF ReceiveInv
<1>7. SocketInv' /\ SendInv'
  BY <1>0, <1>1, <1>2, <1>3, <1>4, SMTT(30) DEF SocketInv, SendInv
<1>8. QED  BY <1>5, <1>6, <1>7 DEF IInv

\* The steps of the dispatch side leave the session alone, but for what the
\* channels make of its callbacks.
LEMMA DispatchInv ==
    ASSUME IInv, Wake,
           ws' = ws, rx' = rx, session' = session, network' = network,
           user' \in {"none", "up", "gone"},
           accepted' = accepted, sent' = sent,
           delivered' \in Seq(Frames), pushed' \in Seq(Frames),
           write_stream' \in Channel(Frames), read_stream' \in Channel(Frames),
           write_stream'.cb => write_stream.cb,
           write_stream.closed => write_stream'.closed,
           read_stream'.cb => read_stream.cb,
           read_stream.closed => read_stream'.closed
    PROVE  IInv'
<1>0. TypeOK /\ SocketInv /\ ReceiveInv /\ SendInv
  BY DEF IInv
<1>1. m_cvt' = m_cvt /\ m_receiving' = m_receiving /\ m_sending' = m_sending
      /\ peer' = peer /\ wire' = wire
  BY DEF session, network
<1>2. /\ tasks' \in [write : Nat, read : Nat]
      /\ tasks'.write + (IF write_stream'.cb THEN 1 ELSE 0)
           = tasks.write + (IF write_stream.cb THEN 1 ELSE 0)
      /\ tasks'.read + (IF read_stream'.cb THEN 1 ELSE 0)
           = tasks.read + (IF read_stream.cb THEN 1 ELSE 0)
      /\ tasks'.write > 0 => write_stream.cb \/ tasks.write > 0
  BY <1>0, WakeInv
<1>3. ReceivePump' = ReceivePump /\ SendPump' = SendPump
  <2>1. /\ tasks.write \in Nat /\ tasks.read \in Nat
        /\ tasks'.write \in Nat /\ tasks'.read \in Nat
    BY <1>0, <1>2, SMTT(30) DEF TypeOK
  <2>2. ReceivePump' = ReceivePump
    BY <1>2, <2>1, SMTT(30) DEF ReceivePump
  <2>3. SendPump' = SendPump
    BY <1>1, <1>2, <2>1, SMTT(30) DEF SendPump
  <2>4. QED  BY <2>2, <2>3
<1>4. TypeOK'
  BY <1>0, <1>1, <1>2, SMTT(30) DEF TypeOK
<1>5. SocketInv' /\ ReceiveInv' /\ SendInv'
  BY <1>0, <1>1, <1>2, <1>3, SMTT(30) DEF SocketInv, ReceiveInv, SendInv
<1>6. QED  BY <1>4, <1>5 DEF IInv

\* A read of the dispatch side wakes a blocked write of the session.
LEMMA DispatchReadInv == IInv /\ DispatchRead => IInv'
<1> SUFFICES ASSUME IInv, DispatchRead PROVE IInv'
  OBVIOUS
<1>1. TypeOK /\ write_stream \in Channel(Frames)
  BY DEF IInv, TypeOK
<1>2. /\ Head(write_stream.buf) \in Frames
      /\ write_stream' \in Channel(Frames) /\ ~write_stream'.cb
      /\ write_stream'.closed = write_stream.closed
  <2>1. Head(write_stream.buf) \in Frames /\ write_stream' \in Channel(Frames)
    BY <1>1, ChannelRead DEF DispatchRead
  <2>2. ~write_stream'.cb /\ write_stream'.closed = write_stream.closed
    BY <1>1 DEF DispatchRead, TakeAndWake, Channel
  <2>3. QED  BY <2>1, <2>2
<1>3. delivered' \in Seq(Frames) /\ user' \in {"none", "up", "gone"}
  BY <1>1, <1>2, SMTT(30) DEF DispatchRead, TypeOK
<1>4. QED  BY <1>1, <1>2, <1>3, DispatchInv DEF DispatchRead, TypeOK

\* A write of the dispatch side wakes a blocked read of the session.
LEMMA DispatchWriteInv ==
    ASSUME NEW f \in OutFrames
    PROVE  IInv /\ DispatchWrite(f) => IInv'
<1> SUFFICES ASSUME IInv, DispatchWrite(f) PROVE IInv'
  OBVIOUS
<1>1. TypeOK /\ read_stream \in Channel(Frames) /\ f \in Frames
  BY TrafficAssumption DEF IInv, TypeOK
<1>2. /\ read_stream' \in Channel(Frames) /\ ~read_stream'.cb
      /\ read_stream'.closed = read_stream.closed
  <2>1. read_stream' \in Channel(Frames)
    BY <1>1, ChannelWrite DEF DispatchWrite
  <2>2. ~read_stream'.cb /\ read_stream'.closed = read_stream.closed
    BY <1>1 DEF DispatchWrite, PutAndWake, Channel
  <2>3. QED  BY <2>1, <2>2
<1>3. pushed' \in Seq(Frames) /\ user' \in {"none", "up", "gone"}
  BY <1>1, SMTT(30) DEF DispatchWrite, TypeOK
<1>4. QED  BY <1>1, <1>2, <1>3, DispatchInv DEF DispatchWrite, TypeOK

\* Closing the endpoint of the dispatch side wakes both.
LEMMA DispatchCloseInv == IInv /\ DispatchClose => IInv'
<1> SUFFICES ASSUME IInv, DispatchClose PROVE IInv'
  OBVIOUS
<1>1. TypeOK /\ write_stream \in Channel(Frames) /\ read_stream \in Channel(Frames)
  BY DEF IInv, TypeOK
<1>2. /\ write_stream' \in Channel(Frames) /\ read_stream' \in Channel(Frames)
      /\ write_stream'.closed /\ ~write_stream'.cb
      /\ read_stream'.closed /\ ~read_stream'.cb
  BY <1>1, ChannelFlags DEF DispatchClose, CloseChannels, Close, Channel
<1>3. /\ Wake /\ ws' = ws /\ rx' = rx /\ session' = session /\ network' = network
      /\ user' = "gone"
      /\ accepted' = accepted /\ sent' = sent
      /\ delivered' = delivered /\ pushed' = pushed
  BY DEF DispatchClose, CloseChannels, history
<1>4. QED  BY <1>1, <1>2, <1>3, DispatchInv DEF TypeOK

\* Traffic and the loss of the peer change nothing the session knows of.
LEMMA NetworkInv ==
    ASSUME IInv, ws' = ws, rx' = rx, tasks' = tasks, session' = session,
           channels' = channels, user' = user, history' = history,
           peer' \in {"up", "lost"}, wire' \in Seq(Messages)
    PROVE  IInv'
  BY DEF IInv, TypeOK, SocketInv, ReceiveInv, SendInv, ReceivePump, SendPump,
         session, channels, history

\* A message under way is typed, and nothing else changes.
LEMMA PeerSendInv ==
    ASSUME NEW m \in InMessages
    PROVE  IInv /\ PeerSend(m) => IInv'
<1> SUFFICES ASSUME IInv, PeerSend(m) PROVE IInv'
  OBVIOUS
<1>1. wire' \in Seq(Messages) /\ peer' \in {"up", "lost"}
  BY TrafficAssumption DEF IInv, TypeOK, PeerSend
<1>2. QED  BY <1>1, NetworkInv DEF PeerSend

\* The session learns of the loss of the peer only in WsClosed.
LEMMA PeerLostInv == IInv /\ PeerLost => IInv'
<1> SUFFICES ASSUME IInv, PeerLost PROVE IInv'
  OBVIOUS
<1>1. wire' \in Seq(Messages) /\ peer' \in {"up", "lost"}
  BY DEF IInv, TypeOK, PeerLost
<1>2. QED  BY <1>1, NetworkInv DEF PeerLost

\* Every step preserves the invariant.
LEMMA NextInv == IInv /\ [Next]_vars => IInv'
<1> SUFFICES ASSUME IInv, [Next]_vars PROVE IInv'
  OBVIOUS
<1>1. CASE SessionNext
  BY <1>1, WsOpenedInv, WsReceivedInv, WsReceivedMalformedInv, RunTryWriteInv,
     RunTryReadInv, WsCompletedSendInv, WsClosedInv DEF SessionNext
<1>2. CASE EnvironmentNext
  BY <1>2, DispatchReadInv, DispatchWriteInv, DispatchCloseInv, PeerSendInv,
     PeerLostInv DEF EnvironmentNext
<1>3. CASE UNCHANGED vars
  <2>1. wire' \in Seq(Messages) /\ peer' \in {"up", "lost"}
    BY <1>3, SMTT(30) DEF vars, network, IInv, TypeOK
  <2>2. QED  BY <1>3, <2>1, NetworkInv DEF vars
<1>4. QED  BY <1>1, <1>2, <1>3 DEF Next

\* The invariant holds in every state of every behaviour.
LEMMA Invariance == Spec => []IInv
  BY InitInv, NextInv, PTL DEF Spec

-----------------------------------------------------------------------------
(* The theorems.                                                           *)

\* Every variable keeps its type: in particular only frames that were parsed
\* are ever written to the dispatch side.
THEOREM TypeCorrect == Spec => []TypeOK
<1>1. IInv => TypeOK
  BY DEF IInv
<1>2. QED  BY <1>1, Invariance, PTL

\* No lost wake-up and no doubled operation: while the socket is open each of
\* the two pumps has exactly one continuation.
THEOREM PumpsNeverStall == Spec => []OnePumpEach
<1>1. IInv => OnePumpEach
  BY DEF IInv, ReceiveInv, SendInv, OnePumpEach
<1>2. QED  BY <1>1, Invariance, PTL

\* At no time, closing and closed included, does a pump have two, and the
\* early returns of the two functions the posted tasks run are never taken.
THEOREM PumpsNeverDouble == Spec => []NeverTwice
<1>1. IInv => NeverTwice
  BY PumpParts DEF IInv, ReceiveInv, SendInv, NeverTwice
<1>2. QED  BY <1>1, Invariance, PTL

\* The assertion at the top of received() holds whenever a message arrives.
THEOREM AssertionHolds == Spec => []AssertNotReceiving
<1>1. IInv => AssertNotReceiving
  BY DEF IInv, ReceiveInv, AssertNotReceiving
<1>2. QED  BY <1>1, Invariance, PTL

\* A closed session leaves none of its callbacks on the channels, so nothing
\* keeps it alive.
THEOREM SessionIsReleased == Spec => []NoCallbackAfterClose
<1>1. IInv => NoCallbackAfterClose
  BY DEF IInv, SocketInv, NoCallbackAfterClose
<1>2. QED  BY <1>1, Invariance, PTL

-----------------------------------------------------------------------------
(* The relays.  Each direction is a queue that begins in the channel: what *)
(* went in is what came out, followed by what is in the queue.             *)

\* The frames on their way to the dispatch side, m_receiving the last of them.
UpQueue ==
    IF m_receiving \in Frames THEN Append(write_stream.buf, m_receiving)
                              ELSE write_stream.buf

UpInv ==
    /\ accepted = delivered \o UpQueue
    /\ Len(write_stream.buf) <= Capacity

\* Of the frames `p' that were written, `t' were taken from the channel and
\* converted, and `b' are still in it.
Taken(t, c, p, b) ==
    /\ Len(p) = Len(t) + Len(b) /\ Len(b) <= Capacity
    /\ \A i \in 1..Len(t) : t[i] = FromAc(c, p[i])
    /\ \A i \in 1..Len(b) : b[i] = p[Len(t) + i]

DownInv ==
    /\ Taken(IF m_sending = None THEN sent ELSE Append(sent, m_sending),
             m_cvt, pushed, read_stream.buf)
    /\ m_cvt \notin {"cbor", "json"}
           => ws \in {"init", "closed"} /\ sent = <<>> /\ SendPump = 0

RelayInv == IInv /\ UpInv /\ DownInv

\* A sequence that goes on, seen as a queue behind what came out of it.
LEMMA QueueIn ==
    ASSUME NEW S, NEW s \in Seq(S), NEW q \in Seq(S), NEW f \in S
    PROVE  s \o Append(q, f) = Append(s \o q, f)
<1>1. /\ Append(q, f) = q \o <<f>> /\ <<f>> \in Seq(S) /\ s \o q \in Seq(S)
      /\ Append(s \o q, f) = (s \o q) \o <<f>>
  BY AppendIsConcat, ConcatProperties
<1>2. QED  BY <1>1, ConcatAssociative

\* What comes out of it next is the head of the queue.
LEMMA QueueOut ==
    ASSUME NEW S, NEW s \in Seq(S), NEW q \in Seq(S), q # <<>>
    PROVE  /\ s \o q = Append(s, Head(q)) \o Tail(q)
           /\ Len(s) < Len(s \o q) /\ Head(q) = (s \o q)[Len(s) + 1]
<1>1. /\ Head(q) \in S /\ Tail(q) \in Seq(S) /\ Len(Tail(q)) = Len(q) - 1
      /\ \A i \in 1..Len(Tail(q)) : Tail(q)[i] = q[i + 1]
      /\ Len(q) \in Nat /\ Len(q) > 0 /\ Head(q) = q[1]
  BY HeadTailProperties, LenProperties, EmptySeq
<1>2. /\ s \o q \in Seq(S) /\ Len(s \o q) = Len(s) + Len(q) /\ Len(s) \in Nat
      /\ \A i \in 1..Len(s) + Len(q) :
            (s \o q)[i] = IF i <= Len(s) THEN s[i] ELSE q[i - Len(s)]
  BY ConcatProperties, LenProperties
<1>3. /\ Append(s, Head(q)) \in Seq(S) /\ Len(Append(s, Head(q))) = Len(s) + 1
      /\ \A i \in 1..Len(s) : Append(s, Head(q))[i] = s[i]
      /\ Append(s, Head(q))[Len(s) + 1] = Head(q)
  BY <1>1, AppendProperties
<1> DEFINE t == Append(s, Head(q)) \o Tail(q)
<1>4. /\ t \in Seq(S) /\ Len(t) = Len(s) + Len(q)
      /\ \A i \in 1..Len(s) + Len(q) :
            t[i] = IF i <= Len(s) + 1 THEN Append(s, Head(q))[i]
                                      ELSE Tail(q)[i - (Len(s) + 1)]
  BY <1>1, <1>2, <1>3, ConcatProperties
<1>5. ASSUME NEW i \in 1..Len(s) + Len(q) PROVE t[i] = (s \o q)[i]
  <2>1. CASE i <= Len(s)
    BY <1>2, <1>3, <1>4, <2>1
  <2>2. CASE i = Len(s) + 1
    BY <1>1, <1>2, <1>3, <1>4, <2>2
  <2>3. CASE i > Len(s) + 1
    <3>1. t[i] = Tail(q)[i - (Len(s) + 1)] /\ (s \o q)[i] = q[i - Len(s)]
      BY <1>2, <1>4, <2>3
    <3>2. i - (Len(s) + 1) \in 1..Len(Tail(q)) /\ i - (Len(s) + 1) + 1 = i - Len(s)
      BY <1>1, <1>2, <2>3
    <3>3. QED  BY <1>1, <3>1, <3>2
  <2>4. QED  BY <1>2, <2>1, <2>2, <2>3
<1>6. t = s \o q
  BY <1>2, <1>4, <1>5, SeqEqual
<1>7. QED  BY <1>1, <1>2, <1>6

\* tryWriteToDispatch keeps its frame: in the channel or in m_receiving.
LEMMA TryWriteKeeps ==
    ASSUME TypeOK, NEW f \in Frames, TryWriteToDispatch(f),
           Len(write_stream.buf) <= Capacity
    PROVE  /\ UpQueue' = Append(write_stream.buf, f)
           /\ Len(write_stream'.buf) <= Capacity
           /\ ws = "closed" => ws' = "closed"
           /\ m_receiving' \in Frames \cup {None}
<1>1. write_stream \in Channel(Frames) /\ Len(write_stream.buf) \in Nat
  BY DEF TypeOK, Channel
<1>2. None \notin Frames
  BY NoneAssumption
<1>3. CASE WriteSucceeds(f)
  <2>1. write_stream'.buf = Append(write_stream.buf, f)
    BY <1>1, <1>3, ChannelPutFields DEF WriteSucceeds
  <2>2. Len(write_stream'.buf) = Len(write_stream.buf) + 1
    BY <1>1, <2>1 DEF Channel
  <2>3. Len(write_stream'.buf) <= Capacity
    BY <1>1, <1>3, <2>2, CapacityAssumption DEF WriteSucceeds, MayWrite
  <2>4. QED  BY <1>2, <1>3, <2>1, <2>3 DEF WriteSucceeds, UpQueue
<1>4. CASE WriteBlocked(f)
  <2>1. write_stream'.buf = write_stream.buf
    BY <1>1, <1>4, ChannelFields DEF WriteBlocked
  <2>2. QED  BY <1>4, <2>1 DEF WriteBlocked, UpQueue
<1>5. CASE WriteClosed(f)
  BY <1>5 DEF WriteClosed, UpQueue, Closing
<1>6. QED  BY <1>3, <1>4, <1>5 DEF TryWriteToDispatch

\* A step that moves no frame up is a step of the relay that moves none.
LEMMA UpRests ==
    ASSUME UpInv, UNCHANGED <<accepted, delivered, m_receiving>>,
           write_stream'.buf = write_stream.buf,
           ws = "closed" => ws' = "closed"
    PROVE  UpInv' /\ Up!Next
  BY DEF UpInv, UpQueue, Up!Next

LEMMA WsReceivedUp == RelayInv /\ WsReceived => UpInv' /\ Up!Next
<1> SUFFICES ASSUME RelayInv, WsReceived PROVE UpInv' /\ Up!Next
  OBVIOUS
<1> DEFINE f == ToAc(Head(wire))
<1>1. TypeOK /\ ReceiveInv /\ UpInv /\ Len(write_stream.buf) <= Capacity
  BY DEF RelayInv, IInv, UpInv
<1>2. /\ ws \in {"open", "closing"} /\ m_receiving = None
      /\ accepted' = Append(accepted, f) /\ delivered' = delivered
      /\ TryWriteToDispatch(f)
  BY <1>1 DEF WsReceived, ReceiveInv
<1>3. f \in Frames
  <2>1. Head(wire) \in Messages /\ ~Throws(Head(wire))
    BY <1>1, SMTT(30) DEF WsReceived, TypeOK
  <2>2. QED  BY <2>1, ToAcType
<1>4. /\ UpQueue' = Append(write_stream.buf, f) /\ Len(write_stream'.buf) <= Capacity
  BY <1>1, <1>2, <1>3, TryWriteKeeps
<1>5. /\ write_stream.buf \in Seq(Frames) /\ delivered \in Seq(Frames)
      /\ Len(write_stream.buf) \in Nat /\ Len(delivered) \in Nat
  BY <1>1, LenProperties DEF TypeOK, Channel
<1>6. accepted = delivered \o write_stream.buf
  BY <1>1, <1>2, NoneAssumption DEF UpInv, UpQueue
<1>7. UpInv'
  <2>1. delivered \o Append(write_stream.buf, f) = Append(delivered \o write_stream.buf, f)
    <3> HIDE DEF f
    <3>1. QED  BY <1>3, <1>5, QueueIn
  <2>2. QED  BY <1>2, <1>4, <1>6, <2>1 DEF UpInv
<1>8. Len(accepted) - Len(delivered) < Capacity + 1
  BY <1>1, <1>5, <1>6, ConcatProperties, CapacityAssumption
<1>9. ~(ws = "closed" \/ m_receiving = EmptyFrame)
  BY <1>2, EmptyFrameIsNoFrame
<1>10. QED  BY <1>2, <1>3, <1>7, <1>8, <1>9 DEF Up!Next, Up!Accept

LEMMA WsReceivedMalformedUp == RelayInv /\ WsReceivedMalformed => UpInv' /\ Up!Next
<1> SUFFICES ASSUME RelayInv, WsReceivedMalformed PROVE UpInv' /\ Up!Next
  OBVIOUS
<1>1. m_receiving = None /\ m_receiving' = EmptyFrame
  BY DEF RelayInv, IInv, ReceiveInv, WsReceivedMalformed
<1>2. UNCHANGED <<accepted, delivered, write_stream>>
  BY DEF WsReceivedMalformed, channels, history
<1>3. UpQueue' = UpQueue
  BY <1>1, <1>2, NoneAssumption, EmptyFrameIsNoFrame DEF UpQueue
<1>4. QED  BY <1>1, <1>2, <1>3 DEF RelayInv, UpInv, Up!Next

LEMMA RunTryWriteUp == RelayInv /\ RunTryWrite => UpInv' /\ Up!Next
<1> SUFFICES ASSUME RelayInv, RunTryWrite PROVE UpInv' /\ Up!Next
  OBVIOUS
<1>1. TypeOK /\ ReceiveInv /\ UpInv /\ Len(write_stream.buf) <= Capacity
  BY DEF RelayInv, IInv, UpInv
<1>2. m_receiving \in Frames /\ m_receiving # None
  BY <1>1, NoneAssumption DEF RunTryWrite, ReceiveInv
<1>3. TryWriteToDispatch(m_receiving) /\ UNCHANGED <<accepted, delivered>>
  BY <1>2 DEF RunTryWrite, history
<1>4. /\ UpQueue' = Append(write_stream.buf, m_receiving)
      /\ Len(write_stream'.buf) <= Capacity /\ (ws = "closed" => ws' = "closed")
  BY <1>1, <1>2, <1>3, TryWriteKeeps
<1>5. UpQueue' = UpQueue
  BY <1>2, <1>4 DEF UpQueue
<1>6. QED
  BY <1>1, <1>2, <1>3, <1>4, <1>5, EmptyFrameIsNoFrame DEF UpInv, Up!Next

LEMMA DispatchReadUp == RelayInv /\ DispatchRead => UpInv' /\ Up!Next
<1> SUFFICES ASSUME RelayInv, DispatchRead PROVE UpInv' /\ Up!Next
  OBVIOUS
<1> DEFINE b == write_stream.buf
<1>1. /\ write_stream \in Channel(Frames) /\ b \in Seq(Frames) /\ b # <<>>
      /\ delivered \in Seq(Frames) /\ m_receiving \in Frames \cup {EmptyFrame, None}
      /\ accepted = delivered \o UpQueue /\ Len(b) <= Capacity
  BY DEF RelayInv, IInv, TypeOK, Channel, UpInv, DispatchRead, MayRead
<1>2. /\ ws' = ws /\ m_receiving' = m_receiving /\ accepted' = accepted
      /\ delivered' = Append(delivered, Head(b)) /\ write_stream'.buf = Tail(b)
  <2>1. TakeAndWake(write_stream).buf = Tail(b)
    BY <1>1, ChannelFields
  <2>2. QED  BY <2>1 DEF DispatchRead, session
<1>3. /\ UpQueue \in Seq(Frames) /\ UpQueue # <<>>
      /\ Head(UpQueue) = Head(b) /\ Tail(UpQueue) = UpQueue'
  <2>1. CASE m_receiving \in Frames
    BY <1>1, <1>2, <2>1, AppendProperties, HeadTailAppend DEF UpQueue
  <2>2. CASE m_receiving \notin Frames
    BY <1>1, <1>2, <2>2 DEF UpQueue
  <2>3. QED  BY <2>1, <2>2
<1>4. /\ accepted = delivered' \o UpQueue'
      /\ Len(delivered) < Len(accepted) /\ Head(b) = accepted[Len(delivered) + 1]
  BY <1>1, <1>2, <1>3, QueueOut
<1>5. Len(write_stream'.buf) <= Capacity
  BY <1>1, <1>2, HeadTailProperties, LenProperties, CapacityAssumption
<1>6. QED  BY <1>2, <1>4, <1>5 DEF UpInv, Up!Next, Up!Deliver

\* No step of the other pump, of the dispatch side's writes or of the peer
\* touches the frames that go up.
LEMMA OthersUp ==
    ASSUME RelayInv,
           \/ WsOpened \/ RunTryRead \/ WsCompletedSend \/ WsClosed \/ DispatchClose
           \/ \E f \in OutFrames : DispatchWrite(f)
           \/ \E m \in InMessages : PeerSend(m)
           \/ PeerLost \/ UNCHANGED vars
    PROVE  UpInv' /\ Up!Next
<1>1. UpInv /\ write_stream \in Channel(Frames)
  BY DEF RelayInv, IInv, TypeOK
<1>2. UNCHANGED <<accepted, delivered, m_receiving>>
  BY DEF WsOpened, RunTryRead, WsCompletedSend, WsClosed, DispatchClose, DispatchWrite,
         PeerSend, PeerLost, vars, session, history
<1>3. write_stream'.buf = write_stream.buf
  <2>1. write_stream' \in {write_stream, Close(write_stream)}
    BY DEF WsOpened, RunTryRead, WsCompletedSend, WsClosed, DispatchClose, DispatchWrite,
           PeerSend, PeerLost, vars, channels, CloseChannels
  <2>2. QED  BY <1>1, <2>1, ChannelFields
<1>4. ws = "closed" => ws' = "closed"
  BY DEF WsOpened, RunTryRead, WsCompletedSend, WsClosed, DispatchClose, DispatchWrite,
         PeerSend, PeerLost, vars, TryReadFromDispatch, ReadSucceeds, ReadBlocked,
         ReadClosed, Closing
<1>5. QED  BY <1>1, <1>2, <1>3, <1>4, UpRests

LEMMA UpStep == RelayInv /\ [Next]_vars => UpInv' /\ Up!Next
  BY WsReceivedUp, WsReceivedMalformedUp, RunTryWriteUp, DispatchReadUp, OthersUp
     DEF Next, SessionNext, EnvironmentNext

-----------------------------------------------------------------------------
(* The same for the way down, where what goes in is a frame and what comes *)
(* out a message.                                                          *)

\* A frame that is written joins the end of the channel,
LEMMA TakenPut ==
    ASSUME NEW t \in Seq(Messages), NEW c, NEW p \in Seq(Frames), NEW b \in Seq(Frames),
           Taken(t, c, p, b), NEW f \in Frames, Len(b) < Capacity
    PROVE  Taken(t, c, Append(p, f), Append(b, f))
<1>1. /\ Len(t) \in Nat /\ Len(b) \in Nat /\ Len(p) = Len(t) + Len(b)
      /\ \A i \in 1..Len(t) : t[i] = FromAc(c, p[i])
      /\ \A i \in 1..Len(b) : b[i] = p[Len(t) + i]
  BY LenProperties DEF Taken
<1>2. /\ Len(Append(p, f)) = Len(p) + 1 /\ Append(p, f)[Len(p) + 1] = f
      /\ \A i \in 1..Len(p) : Append(p, f)[i] = p[i]
      /\ Len(Append(b, f)) = Len(b) + 1 /\ Append(b, f)[Len(b) + 1] = f
      /\ \A i \in 1..Len(b) : Append(b, f)[i] = b[i]
  BY AppendProperties
<1>3. \A i \in 1..Len(t) : t[i] = FromAc(c, Append(p, f)[i])
  BY <1>1, <1>2
<1>4. \A i \in 1..Len(Append(b, f)) : Append(b, f)[i] = Append(p, f)[Len(t) + i]
  <2> TAKE i \in 1..Len(Append(b, f))
  <2>1. i \in 1..Len(b) + 1
    BY <1>2
  <2>2. CASE i <= Len(b)
    BY <1>1, <1>2, <2>1, <2>2
  <2>3. CASE i = Len(b) + 1
    BY <1>1, <1>2, <2>3
  <2>4. i <= Len(b) \/ i = Len(b) + 1
    <3>1. Len(b) \in Nat
      BY <1>1
    <3>2. QED  BY <3>1, <2>1
  <2>5. QED  BY <2>2, <2>3, <2>4
<1>5. Len(Append(p, f)) = Len(t) + Len(Append(b, f)) /\ Len(Append(b, f)) <= Capacity
  BY <1>1, <1>2, CapacityAssumption
<1>6. QED  BY <1>3, <1>4, <1>5 DEF Taken

\* and the one at its head is the next to be converted.
LEMMA TakenNext ==
    ASSUME NEW t \in Seq(Messages), NEW c, NEW p \in Seq(Frames), NEW b \in Seq(Frames),
           Taken(t, c, p, b), b # <<>>
    PROVE  Taken(Append(t, FromAc(c, Head(b))), c, p, Tail(b))
<1> DEFINE m == FromAc(c, Head(b))
<1>1. /\ Len(t) \in Nat /\ Len(b) \in Nat /\ Len(p) = Len(t) + Len(b) /\ Len(b) <= Capacity
      /\ \A i \in 1..Len(t) : t[i] = FromAc(c, p[i])
      /\ \A i \in 1..Len(b) : b[i] = p[Len(t) + i]
  BY LenProperties DEF Taken
<1>2. /\ Head(b) \in Frames /\ Head(b) = b[1] /\ Len(b) > 0 /\ Len(Tail(b)) = Len(b) - 1
      /\ \A i \in 1..Len(Tail(b)) : Tail(b)[i] = b[i + 1]
  BY HeadTailProperties, EmptySeq
<1>3. m \in Messages
  BY <1>2, FromAcType
<1>4. /\ Len(Append(t, m)) = Len(t) + 1 /\ Append(t, m)[Len(t) + 1] = m
      /\ \A i \in 1..Len(t) : Append(t, m)[i] = t[i]
  BY <1>3, AppendProperties
<1>5. Head(b) = p[Len(t) + 1]
  BY <1>1, <1>2
<1> HIDE DEF m
<1>6. m = FromAc(c, p[Len(t) + 1])
  BY <1>5 DEF m
<1>7. \A i \in 1..Len(Append(t, m)) : Append(t, m)[i] = FromAc(c, p[i])
  <2> TAKE i \in 1..Len(Append(t, m))
  <2>1. CASE i <= Len(t)
    BY <1>1, <1>4, <2>1
  <2>2. CASE i = Len(t) + 1
    BY <1>1, <1>4, <1>6, <2>2
  <2>3. QED  BY <1>1, <1>4, <2>1, <2>2
<1>8. \A i \in 1..Len(Tail(b)) : Tail(b)[i] = p[Len(Append(t, m)) + i]
  <2> TAKE i \in 1..Len(Tail(b))
  <2>1. i + 1 \in 1..Len(b) /\ Len(t) + (i + 1) = Len(Append(t, m)) + i
    BY <1>1, <1>2, <1>4
  <2>2. QED  BY <1>1, <1>2, <2>1
<1>9. Len(p) = Len(Append(t, m)) + Len(Tail(b)) /\ Len(Tail(b)) <= Capacity
  BY <1>1, <1>2, <1>4, CapacityAssumption
<1>10. Taken(Append(t, m), c, p, Tail(b))
  BY <1>7, <1>8, <1>9 DEF Taken
<1>11. QED  BY <1>10 DEF m

\* tryReadFromDispatch takes the frame at the head of the channel or none.
LEMMA TryReadKeeps ==
    ASSUME TypeOK, NEW w, NEW c, TryReadFromDispatch(w, c),
           NEW t \in Seq(Messages), Taken(t, c, pushed, read_stream.buf)
    PROVE  /\ Taken(IF m_sending' = None THEN t ELSE Append(t, m_sending'),
                    c, pushed, read_stream'.buf)
           /\ read_stream'.closed = read_stream.closed
           /\ ws' = w \/ (w = "open" /\ ws' = "closing")
<1>1. /\ read_stream \in Channel(Frames) /\ read_stream.buf \in Seq(Frames)
      /\ pushed \in Seq(Frames)
  BY DEF TypeOK, Channel
<1>2. CASE ReadSucceeds(w, c)
  <2>1. /\ read_stream'.buf = Tail(read_stream.buf)
        /\ read_stream'.closed = read_stream.closed
    BY <1>1, <1>2, ChannelFields DEF ReadSucceeds
  <2>2. read_stream.buf # <<>> /\ m_sending' = FromAc(c, Head(read_stream.buf)) /\ ws' = w
    BY <1>2 DEF ReadSucceeds, MayRead
  <2>3. m_sending' # None
    <3>1. Head(read_stream.buf) \in Frames
      BY <1>1, <2>2
    <3>2. m_sending' \in Messages
      BY <2>2, <3>1, FromAcType
    <3>3. QED  BY <3>2, NoneAssumption
  <2>4. Taken(Append(t, m_sending'), c, pushed, Tail(read_stream.buf))
    BY <1>1, <2>2, TakenNext
  <2>5. QED  BY <2>1, <2>2, <2>3, <2>4
<1>3. CASE ReadBlocked(w)
  <2>1. /\ read_stream'.buf = read_stream.buf
        /\ read_stream'.closed = read_stream.closed
    BY <1>1, <1>3, ChannelFields DEF ReadBlocked
  <2>2. QED  BY <1>3, <2>1 DEF ReadBlocked
<1>4. CASE ReadClosed(w)
  BY <1>4 DEF ReadClosed, Closing
<1>5. QED  BY <1>2, <1>3, <1>4 DEF TryReadFromDispatch

\* A step that moves no frame down is a step of the relay that moves none.
LEMMA DownRests ==
    ASSUME DownInv, UNCHANGED <<pushed, sent, m_sending, m_cvt>>,
           read_stream'.buf = read_stream.buf,
           read_stream.closed => read_stream'.closed,
           m_cvt \notin {"cbor", "json"} => ws' \in {"init", "closed"} /\ SendPump' = 0
    PROVE  DownInv' /\ Down!Next
  BY DEF DownInv, Down!Next

LEMMA WsOpenedDown == RelayInv /\ WsOpened => DownInv' /\ Down!Next
<1> SUFFICES ASSUME RelayInv, WsOpened PROVE DownInv' /\ Down!Next
  OBVIOUS
<1>1. /\ TypeOK /\ m_sending = None /\ sent = <<>>
      /\ Taken(sent, m_cvt, pushed, read_stream.buf)
  BY DEF RelayInv, DownInv, IInv, SocketInv, WsOpened
<1>2. /\ TryReadFromDispatch("open", m_cvt') /\ m_cvt' \in {"cbor", "json"}
      /\ pushed' = pushed /\ sent' = sent
  BY SMTT(30) DEF WsOpened, history
<1>3. Taken(sent, m_cvt', pushed, read_stream.buf) /\ sent \in Seq(Messages)
  BY <1>1 DEF Taken, TypeOK
<1>4. /\ Taken(IF m_sending' = None THEN sent ELSE Append(sent, m_sending'),
               m_cvt', pushed, read_stream'.buf)
      /\ read_stream'.closed = read_stream.closed
  BY <1>1, <1>2, <1>3, TryReadKeeps
<1>5. QED  BY <1>2, <1>4 DEF DownInv, Down!Next

LEMMA RunTryReadDown == RelayInv /\ RunTryRead => DownInv' /\ Down!Next
<1> SUFFICES ASSUME RelayInv, RunTryRead PROVE DownInv' /\ Down!Next
  OBVIOUS
<1>1. TypeOK /\ SendInv /\ DownInv
  BY DEF RelayInv, IInv
<1>2. m_sending = None /\ SendPump # 0
  BY <1>1, PumpParts DEF RunTryRead, SendInv, TypeOK
<1>3. /\ m_cvt \in {"cbor", "json"} /\ sent \in Seq(Messages)
      /\ Taken(sent, m_cvt, pushed, read_stream.buf)
  BY <1>1, <1>2 DEF DownInv, TypeOK
<1>4. TryReadFromDispatch(ws, m_cvt) /\ UNCHANGED <<m_cvt, pushed, sent>>
  BY <1>2 DEF RunTryRead, history
<1>5. /\ Taken(IF m_sending' = None THEN sent ELSE Append(sent, m_sending'),
               m_cvt, pushed, read_stream'.buf)
      /\ read_stream'.closed = read_stream.closed
  BY <1>1, <1>3, <1>4, TryReadKeeps
<1>6. QED  BY <1>3, <1>4, <1>5 DEF DownInv, Down!Next

\* A conversion keeps the operation.
LEMMA FromAcOp == \A c, f : FromAc(c, f).op = f.op
  BY DEF FromAc

LEMMA WsCompletedSendDown == RelayInv /\ WsCompletedSend => DownInv' /\ Down!Next
<1> SUFFICES ASSUME RelayInv, WsCompletedSend PROVE DownInv' /\ Down!Next
  OBVIOUS
<1> DEFINE t == Append(sent, m_sending)
<1>1. /\ TypeOK /\ DownInv /\ m_sending \in Messages /\ sent \in Seq(Messages)
      /\ pushed \in Seq(Frames)
  BY DEF RelayInv, IInv, TypeOK, WsCompletedSend
<1>2. /\ t \in Seq(Messages) /\ Len(t) = Len(sent) + 1 /\ t[Len(sent) + 1] = m_sending
      /\ \A i \in 1..Len(sent) : t[i] = sent[i]
      /\ Len(sent) \in Nat /\ Len(pushed) \in Nat
  BY <1>1, AppendProperties, LenProperties
<1>3. /\ m_cvt \in {"cbor", "json"} /\ Taken(t, m_cvt, pushed, read_stream.buf)
  BY <1>1 DEF DownInv, WsCompletedSend
<1>4. TryReadFromDispatch(ws, m_cvt) /\ sent' = t /\ UNCHANGED <<m_cvt, pushed>>
  BY DEF WsCompletedSend
<1>5. /\ Taken(IF m_sending' = None THEN t ELSE Append(t, m_sending'),
               m_cvt, pushed, read_stream'.buf)
      /\ read_stream'.closed = read_stream.closed
  BY <1>1, <1>2, <1>3, <1>4, TryReadKeeps
<1>6. DownInv'
  BY <1>3, <1>4, <1>5 DEF DownInv
<1>7. Down!Deliver
  <2>1. Len(sent) < Len(pushed) /\ m_sending.op = pushed[Len(sent) + 1].op
    <3>1. Len(pushed) >= Len(t) /\ t[Len(sent) + 1] = FromAc(m_cvt, pushed[Len(sent) + 1])
      BY <1>1, <1>2, <1>3, LenProperties DEF Taken, TypeOK, Channel
    <3>2. QED  BY <1>2, <3>1, FromAcOp
  <2>2. /\ Len(OpsOf(sent)) = Len(sent) /\ Len(OpsOf(pushed)) = Len(pushed)
        /\ OpsOf(pushed)[Len(sent) + 1] = pushed[Len(sent) + 1].op
    BY <1>1, <1>2, <2>1 DEF OpsOf
  <2>3. OpsOf(sent') = Append(OpsOf(sent), m_sending.op)
    BY <1>1, <1>2, <1>4 DEF OpsOf
  <2>4. QED  BY <1>4, <2>1, <2>2, <2>3 DEF Down!Deliver
<1>8. QED  BY <1>5, <1>6, <1>7 DEF Down!Next

LEMMA DispatchWriteDown ==
    ASSUME NEW f \in OutFrames
    PROVE  RelayInv /\ DispatchWrite(f) => DownInv' /\ Down!Next
<1> SUFFICES ASSUME RelayInv, DispatchWrite(f) PROVE DownInv' /\ Down!Next
  OBVIOUS
<1> DEFINE t == IF m_sending = None THEN sent ELSE Append(sent, m_sending)
<1>1. /\ TypeOK /\ DownInv /\ f \in Frames /\ f.op \in Ops
      /\ sent \in Seq(Messages) /\ pushed \in Seq(Frames)
      /\ read_stream \in Channel(Frames) /\ read_stream.buf \in Seq(Frames)
  BY TrafficAssumption DEF RelayInv, IInv, TypeOK, Channel, Frames
<1>2. /\ t \in Seq(Messages) /\ Len(t) <= Len(sent) + 1
      /\ Len(sent) \in Nat /\ Len(pushed) \in Nat /\ Len(t) \in Nat
  BY <1>1, AppendProperties, LenProperties DEF TypeOK
<1>3. /\ read_stream' = PutAndWake(read_stream, f) /\ pushed' = Append(pushed, f)
      /\ Len(read_stream.buf) < Capacity /\ ~read_stream.closed
      /\ UNCHANGED <<ws, m_sending, m_cvt, sent>>
  BY DEF DispatchWrite, MayWrite, session
<1>4. read_stream'.buf = Append(read_stream.buf, f) /\ ~read_stream'.cb
  BY <1>1, <1>3, ChannelPutFields
<1>5. Taken(t, m_cvt, pushed, read_stream.buf)
  BY <1>1 DEF DownInv
<1>6. Taken(t, m_cvt, pushed', read_stream'.buf)
  <2> HIDE DEF t
  <2>1. QED  BY <1>1, <1>2, <1>3, <1>4, <1>5, TakenPut
<1>7. DownInv'
  <2>1. ASSUME m_cvt \notin {"cbor", "json"} PROVE SendPump' = 0
    <3>1. m_sending = None /\ ~read_stream.cb /\ tasks.read = 0
      BY <1>1, <2>1, PumpParts DEF DownInv
    <3>2. tasks'.read = 0
      BY <3>1 DEF DispatchWrite, Wake
    <3>3. QED  BY <1>3, <1>4, <3>1, <3>2, SMTT(30) DEF SendPump
  <2>2. QED  BY <1>1, <1>3, <1>6, <2>1 DEF DownInv
<1>8. Down!Accept
  <2>1. Len(pushed) - Len(sent) < Capacity + 1
    <3>1. Len(read_stream.buf) \in Nat /\ Len(pushed) = Len(t) + Len(read_stream.buf)
      BY <1>1, <1>5, LenProperties DEF Taken
    <3> HIDE DEF t
    <3>2. QED  BY <1>2, <1>3, <3>1, CapacityAssumption
  <2>2. Len(OpsOf(sent)) = Len(sent) /\ Len(OpsOf(pushed)) = Len(pushed)
    BY <1>1, <1>2 DEF OpsOf
  <2>3. OpsOf(pushed') = Append(OpsOf(pushed), f.op)
    BY <1>1, <1>2, <1>3 DEF OpsOf
  <2>4. OpsOf(sent') = OpsOf(sent)
    BY <1>3
  <2>5. QED  BY <1>1, <1>3, <2>1, <2>2, <2>3, <2>4 DEF Down!Accept
<1>9. QED  BY <1>3, <1>7, <1>8 DEF Down!Next

\* No step of the other pump, of the dispatch side's reads or of the peer
\* touches the frames that go down.
LEMMA OthersDown ==
    ASSUME RelayInv,
           \/ WsReceived \/ WsReceivedMalformed \/ RunTryWrite \/ WsClosed
           \/ DispatchRead \/ DispatchClose
           \/ \E m \in InMessages : PeerSend(m)
           \/ PeerLost \/ UNCHANGED vars
    PROVE  DownInv' /\ Down!Next
<1>1. TypeOK /\ DownInv /\ read_stream \in Channel(Frames)
  BY DEF RelayInv, IInv, TypeOK
<1>2. UNCHANGED <<pushed, sent, m_sending, m_cvt>>
  BY DEF WsReceived, WsReceivedMalformed, RunTryWrite, WsClosed, DispatchRead,
         DispatchClose, PeerSend, PeerLost, vars, session, history
<1>3. read_stream' \in {read_stream, Close(read_stream)}
  BY DEF WsReceived, WsReceivedMalformed, RunTryWrite, WsClosed, DispatchRead,
         DispatchClose, CloseChannels, PeerSend, PeerLost, vars, channels
<1>4. /\ read_stream'.buf = read_stream.buf
      /\ read_stream.closed => read_stream'.closed
      /\ ~read_stream.cb => ~read_stream'.cb
  BY <1>1, <1>3, ChannelFields
<1>5. ASSUME m_cvt \notin {"cbor", "json"}
      PROVE  ws' \in {"init", "closed"} /\ SendPump' = 0
  <2>1. /\ ws \in {"init", "closed"} /\ m_sending = None
        /\ ~read_stream.cb /\ tasks.read = 0 /\ ~read_stream'.cb
    BY <1>1, <1>4, <1>5, PumpParts DEF DownInv
  <2>2. ws' \in {"init", "closed"}
    BY <2>1 DEF WsReceived, WsReceivedMalformed, RunTryWrite, TryWriteToDispatch,
       WriteSucceeds, WriteBlocked, WriteClosed, Closing, WsClosed, DispatchRead,
       DispatchClose, PeerSend, PeerLost, vars
  <2>3. tasks'.read = 0
    BY <1>1, <2>1 DEF WsReceived, WsReceivedMalformed, RunTryWrite, WsClosed,
       CloseChannels, Wake, DispatchRead, DispatchClose, PeerSend, PeerLost, vars, TypeOK
  <2>4. QED  BY <1>2, <2>1, <2>2, <2>3, SMTT(30) DEF SendPump
<1>6. QED  BY <1>1, <1>2, <1>4, <1>5, DownRests

LEMMA DownStep == RelayInv /\ [Next]_vars => DownInv' /\ Down!Next
  BY WsOpenedDown, RunTryReadDown, WsCompletedSendDown, DispatchWriteDown, OthersDown
     DEF Next, SessionNext, EnvironmentNext

LEMMA InitRelay == Init => UpInv /\ DownInv /\ Up!Init /\ Down!Init
<1> SUFFICES ASSUME Init PROVE UpInv /\ DownInv /\ Up!Init /\ Down!Init
  OBVIOUS
<1>1. /\ write_stream.buf = <<>> /\ read_stream.buf = <<>> /\ ~read_stream.closed
      /\ m_receiving = None /\ m_sending = None /\ ws = "init"
      /\ accepted = <<>> /\ delivered = <<>> /\ pushed = <<>> /\ sent = <<>>
  BY DEF Init, EmptyChannel
<1>2. UpInv
  BY <1>1, NoneAssumption, CapacityAssumption DEF UpInv, UpQueue
<1>3. SendPump = 0
  BY DEF Init, SendPump, EmptyChannel
<1>4. DownInv
  BY <1>1, <1>3, CapacityAssumption DEF DownInv, Taken
<1>5. Up!Init
  BY <1>1, EmptyFrameIsNoFrame DEF Up!Init
<1>6. Down!Init
  <2>1. OpsOf(<<>>) = <<>>
    BY DEF OpsOf
  <2>2. read_stream.closed = FALSE
    BY DEF Init, EmptyChannel
  <2>3. QED  BY <1>1, <2>1, <2>2 DEF Down!Init
<1>7. QED  BY <1>2, <1>4, <1>5, <1>6

LEMMA RelayInvariance == Spec => []RelayInv
<1>1. Init => RelayInv
  BY InitInv, InitRelay DEF RelayInv
<1>2. RelayInv /\ [Next]_vars => RelayInv'
  BY NextInv, UpStep, DownStep DEF RelayInv
<1>3. QED  BY <1>1, <1>2, PTL DEF Spec

-----------------------------------------------------------------------------
(* What the relays promise.                                                *)

\* From the socket to the dispatch side no frame is lost, doubled or
\* overtaken, whatever blocks, closes or fails, and no more than the channel
\* and m_receiving hold are on their way.
THEOREM UpIsARelay == Spec => UpRelay
<1>1. Init => Up!Init
  BY InitRelay
<1>2. RelayInv /\ [Next]_vars => [Up!Next]_Up!vars
  BY UpStep
<1>3. QED  BY <1>1, <1>2, RelayInvariance, PTL DEF Spec, UpRelay, Up!Spec

\* From the dispatch side to the socket, the same.
THEOREM DownIsARelay == Spec => DownRelay
<1>1. Init => Down!Init
  BY InitRelay
<1>2. RelayInv /\ [Next]_vars => [Down!Next]_Down!vars
  BY DownStep
<1>3. QED  BY <1>1, <1>2, RelayInvariance, PTL DEF Spec, DownRelay, Down!Spec

\* A peer that decodes a message finds the frame that was encoded, but for the
\* blobs of JSON.
LEMMA RoundTrip ==
    ASSUME NEW f \in Frames, NEW c \in {"cbor", "json"}
    PROVE  ToAc(FromAc(c, f)) = IF c = "json" /\ f.data = "blob"
                                THEN [op |-> f.op, data |-> "bytes"] ELSE f
<1>1. /\ f = [op |-> f.op, data |-> f.data] /\ f.data # "absent"
  BY PlainAssumption DEF Frames, Data
<1>2. CASE c = "cbor"
  BY <1>1, <1>2 DEF ToAc, FromAc
<1>3. CASE c = "json"
  BY <1>1, <1>3 DEF ToAc, FromAc
<1>4. QED  BY <1>2, <1>3

\* What was sent was pushed before.
LEMMA SentBehindPushed == RelayInv => Len(sent) <= Len(pushed) /\ Len(pushed) \in Nat
<1> SUFFICES ASSUME RelayInv PROVE Len(sent) <= Len(pushed) /\ Len(pushed) \in Nat
  OBVIOUS
<1> DEFINE t == IF m_sending = None THEN sent ELSE Append(sent, m_sending)
<1>1. /\ Len(sent) \in Nat /\ Len(pushed) \in Nat /\ Len(read_stream.buf) \in Nat
      /\ Len(t) \in {Len(sent), Len(sent) + 1}
  BY LenProperties, AppendProperties DEF RelayInv, IInv, TypeOK, Channel
<1>2. Len(pushed) = Len(t) + Len(read_stream.buf)
  BY DEF RelayInv, DownInv, Taken
<1> HIDE DEF t
<1>3. QED  BY <1>1, <1>2

\* The frame of a message that is sent has the place of the message.
LEMMA DecodesPushed == RelayInv => PeerDecodesPushed
<1> SUFFICES ASSUME RelayInv, NEW i \in DOMAIN sent
             PROVE  ToAc(sent[i]) = IF m_cvt = "json" /\ pushed[i].data = "blob"
                                    THEN [op |-> pushed[i].op, data |-> "bytes"]
                                    ELSE pushed[i]
  BY DEF PeerDecodesPushed
<1>1. /\ sent \in Seq(Messages) /\ pushed \in Seq(Frames)
      /\ read_stream.buf \in Seq(Frames) /\ m_sending \in Messages \cup {None}
  BY DEF RelayInv, IInv, TypeOK, Channel
<1>2. i \in 1..Len(sent) /\ Len(sent) \in Nat /\ sent # <<>>
  BY <1>1
<1>3. m_cvt \in {"cbor", "json"}
  BY <1>2 DEF RelayInv, DownInv
<1>4. sent[i] = FromAc(m_cvt, pushed[i]) /\ i \in 1..Len(pushed)
  <2>1. CASE m_sending = None
    <3>1. Taken(sent, m_cvt, pushed, read_stream.buf)
      BY <2>1 DEF RelayInv, DownInv
    <3>2. QED  BY <1>1, <1>2, <3>1, LenProperties DEF Taken
  <2>2. CASE m_sending # None
    <3> DEFINE t == Append(sent, m_sending)
    <3>1. Taken(t, m_cvt, pushed, read_stream.buf)
      BY <2>2 DEF RelayInv, DownInv
    <3>2. Len(t) = Len(sent) + 1 /\ t[i] = sent[i]
      BY <1>1, <1>2, <2>2, AppendProperties
    <3> HIDE DEF t
    <3>3. /\ Len(pushed) = Len(t) + Len(read_stream.buf)
          /\ \A j \in 1..Len(t) : t[j] = FromAc(m_cvt, pushed[j])
      BY <3>1 DEF Taken
    <3>4. Len(read_stream.buf) \in Nat /\ Len(sent) \in Nat
      BY <1>1, LenProperties
    <3>5. i \in 1..Len(t)
      BY <1>2, <3>2, <3>4
    <3>6. i \in 1..Len(pushed)
      <4>1. Len(pushed) = Len(sent) + 1 + Len(read_stream.buf)
        BY <3>2, <3>3
      <4>2. i \in 1..Len(sent)
        BY <1>2
      <4>3. \A a, b \in Nat : \A j \in 1..a : j \in 1..(a + 1 + b)
        OBVIOUS
      <4>4. i \in 1..(Len(sent) + 1 + Len(read_stream.buf))
        BY <3>4, <4>2, <4>3, Zenon
      <4>5. QED  BY <4>1, <4>4, Zenon
    <3>7. QED  BY <3>2, <3>3, <3>5, <3>6
  <2>3. QED  BY <2>1, <2>2
<1>5. pushed[i] \in Frames
  BY <1>1, <1>4
<1>6. QED  BY <1>3, <1>4, <1>5, RoundTrip

\* Every message that is sent is the frame of its place, in the encoding the
\* peer asked for when it connected.
THEOREM PeersDecodeFrames == Spec => []PeerDecodesPushed
  BY DecodesPushed, RelayInvariance, PTL
=============================================================================
