---------------------------- MODULE MCServerSession ----------------------------
(***************************************************************************)
(* Requests for ServerSession, and the frames its two halves exchange.     *)
(***************************************************************************)
EXTENDS ServerSession

MCOps == {"make_assets_available", "load_provider", "other", "s:acord", "s:initial", "error"}
MCPlain == {"urls", "known", "unknown", "paths", "plain"}

\* Requests that are answered, or end with a handover.
MCRequests ==
    { [type |-> "text", op |-> "make_assets_available", data |-> "urls"],
      [type |-> "text", op |-> "load_provider", data |-> "known"],
      [type |-> "text", op |-> "other", data |-> "absent"] }

\* And one that the coroutine does not survive.
MCInMessages == MCRequests \cup
    { [type |-> "binary", op |-> "make_assets_available", data |-> "blob"] }

MCOutFrames == Local!Replies
=============================================================================
