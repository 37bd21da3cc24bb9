--------------------------- MODULE BufferedChannel ---------------------------
(***************************************************************************)
(* ac::frameio::BufferedChannel, the bounded frame queue of the alpaca     *)
(* core library, as the sources of acord use it: one end writes, the other *)
(* reads, either may close.  The library is not in the repository, so this *)
(* is an external model.  read and write check the queue and register the  *)
(* callback of a blocked caller under one lock.  A reader of a closed      *)
(* channel is told either of the frames left in it or that it is closed:   *)
(* the users of the channel must work with both.                           *)
(*                                                                         *)
(* `cb' is the one-shot callback of the web socket side of the channel.    *)
(* The other side is a coroutine that waits until it can go on, and needs  *)
(* no callback in the model.                                               *)
(***************************************************************************)
EXTENDS Naturals, Sequences

CONSTANT Capacity  \* BufferedChannel_create(10) in the server

ASSUME CapacityAssumption == Capacity \in Nat \ {0}

Channel(F) == [buf : Seq(F), closed : BOOLEAN, cb : BOOLEAN]

EmptyChannel == [buf |-> <<>>, closed |-> FALSE, cb |-> FALSE]

MayRead(c)     == c.buf # <<>>
ReadBlocks(c)  == c.buf = <<>> /\ ~c.closed

MayWrite(c)    == Len(c.buf) < Capacity /\ ~c.closed
WriteBlocks(c) == Len(c.buf) >= Capacity /\ ~c.closed

\* The web socket side: it takes or leaves a frame, or registers its callback.
Take(c)      == [c EXCEPT !.buf = Tail(@)]
Put(c, f)    == [c EXCEPT !.buf = Append(@, f)]
Register(c)  == [c EXCEPT !.cb = TRUE]

\* The other side does the same, and consumes the callback it finds.
TakeAndWake(c)   == [c EXCEPT !.buf = Tail(@), !.cb = FALSE]
PutAndWake(c, f) == [c EXCEPT !.buf = Append(@, f), !.cb = FALSE]
Close(c)         == [c EXCEPT !.closed = TRUE, !.cb = FALSE]
=============================================================================
