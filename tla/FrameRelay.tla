------------------------------ MODULE FrameRelay ------------------------------
(***************************************************************************)
(* What a web socket session promises in each direction: the frames it     *)
(* accepts come out at the other end once each and in order, no more than  *)
(* Window of them are under way, and a closed relay accepts nothing.       *)
(***************************************************************************)
EXTENDS Naturals, Sequences

CONSTANTS Item, Window

VARIABLES accepted, delivered, closed

vars == <<accepted, delivered, closed>>

Init == accepted = <<>> /\ delivered = <<>> /\ closed = FALSE

Accept ==
    /\ ~closed
    /\ Len(accepted) - Len(delivered) < Window
    /\ \E i \in Item : accepted' = Append(accepted, i)
    /\ UNCHANGED delivered

Deliver ==
    /\ Len(delivered) < Len(accepted)
    /\ delivered' = Append(delivered, accepted[Len(delivered) + 1])
    /\ UNCHANGED accepted

\* A step may move frames and close the relay at once.
Next ==
    /\ closed => closed'
    /\ Accept \/ Deliver \/ UNCHANGED <<accepted, delivered>>

Spec == Init /\ [][Next]_vars
=============================================================================
