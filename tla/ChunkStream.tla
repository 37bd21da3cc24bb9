----------------------------- MODULE ChunkStream -----------------------------
(***************************************************************************)
(* What a download promises its consumer: bytes of the asset, from the     *)
(* first one and in order, and an end that says "whole" only when that is  *)
(* all of them, or "broken".                                               *)
(***************************************************************************)
EXTENDS Naturals, SequencesExt

VARIABLES asset, got, end

vars == <<asset, got, end>>

Init == got = <<>> /\ end = "open"

\* Bytes may come with the end of the download, and none after it.
Next ==
    /\ end = "open"
    /\ IsPrefix(got, got') /\ IsPrefix(got', asset)
    /\ end' \in {"open", "whole", "broken"}
    /\ end' = "whole" => got' = asset
    /\ UNCHANGED asset

Spec == Init /\ [][Next]_vars
=============================================================================
