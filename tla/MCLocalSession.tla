---------------------------- MODULE MCLocalSession ----------------------------
(***************************************************************************)
(* Requests for LocalSession: every operation, with data that parses and   *)
(* data that does not, a provider that is there and one that is not.       *)
(***************************************************************************)
EXTENDS LocalSession

MCRequests ==
    { [op |-> MakeAssets, data |-> Urls], [op |-> MakeAssets, data |-> "null"],
      [op |-> LoadProvider, data |-> Known], [op |-> LoadProvider, data |-> Unknown],
      [op |-> LoadProvider, data |-> "null"], [op |-> "other", data |-> "plain"] }
=============================================================================
