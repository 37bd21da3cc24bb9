-------------------------- MODULE MCCommonWsSession --------------------------
(***************************************************************************)
(* Traffic for CommonWsSession: a message of each kind the handlers tell   *)
(* apart, and a frame that JSON cannot hold as it is.                      *)
(***************************************************************************)
EXTENDS CommonWsSession

MCInMessages ==
    { [type |-> "text", op |-> "a", data |-> "absent"],
      [type |-> "binary", op |-> "b", data |-> "blob"],
      [type |-> "text", op |-> "", data |-> "plain"] }

MCOutFrames ==
    { [op |-> "a", data |-> "plain"], [op |-> "b", data |-> "blob"] }
=============================================================================
