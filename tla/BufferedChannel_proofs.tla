------------------------- MODULE BufferedChannel_proofs -------------------------
(***************************************************************************)
(* Lemmas about the operators of a channel, which the proofs about its     *)
(* users rest on.                                                          *)
(***************************************************************************)
EXTENDS BufferedChannel, TLAPS

\* What is read from a channel, and what is left in it.
LEMMA ChannelRead ==
    ASSUME NEW F, NEW c \in Channel(F), MayRead(c)
    PROVE  /\ Head(c.buf) \in F
           /\ Take(c) \in Channel(F) /\ TakeAndWake(c) \in Channel(F)
<1>1. c.buf \in Seq(F) /\ c.buf # <<>>
  BY DEF Channel, MayRead
<1>2. Head(c.buf) \in F /\ Tail(c.buf) \in Seq(F)
  BY <1>1
<1>3. QED  BY <1>2 DEF Channel, Take, TakeAndWake

\* A channel takes any frame of its type.
LEMMA ChannelWrite ==
    ASSUME NEW F, NEW c \in Channel(F), NEW f \in F
    PROVE  Put(c, f) \in Channel(F) /\ PutAndWake(c, f) \in Channel(F)
<1>1. c.buf \in Seq(F)
  BY DEF Channel
<1>2. Append(c.buf, f) \in Seq(F)
  BY <1>1
<1>3. QED  BY <1>2 DEF Channel, Put, PutAndWake

\* Callbacks and closing leave the frames alone.
LEMMA ChannelFlags ==
    ASSUME NEW F, NEW c \in Channel(F)
    PROVE  Register(c) \in Channel(F) /\ Close(c) \in Channel(F)
  BY DEF Channel, Register, Close

\* What each operation makes of the fields of a channel.
LEMMA ChannelFields ==
    ASSUME NEW F, NEW c \in Channel(F)
    PROVE  /\ Take(c).buf = Tail(c.buf) /\ TakeAndWake(c).buf = Tail(c.buf)
           /\ Register(c).buf = c.buf /\ Close(c).buf = c.buf
           /\ Take(c).closed = c.closed /\ TakeAndWake(c).closed = c.closed
           /\ Register(c).closed = c.closed /\ Close(c).closed
           /\ Take(c).cb = c.cb /\ Register(c).cb
           /\ ~TakeAndWake(c).cb /\ ~Close(c).cb
  BY DEF Channel, Take, TakeAndWake, Register, Close

LEMMA ChannelPutFields ==
    ASSUME NEW F, NEW c \in Channel(F), NEW f
    PROVE  /\ Put(c, f).buf = Append(c.buf, f) /\ PutAndWake(c, f).buf = Append(c.buf, f)
           /\ Put(c, f).closed = c.closed /\ PutAndWake(c, f).closed = c.closed
           /\ Put(c, f).cb = c.cb /\ ~PutAndWake(c, f).cb
  BY DEF Channel, Put, PutAndWake
=============================================================================
