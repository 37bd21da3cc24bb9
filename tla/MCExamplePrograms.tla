-------------------------- MODULE MCExamplePrograms --------------------------
(***************************************************************************)
(* ExamplePrograms needs no definitions for TLC.                           *)
(***************************************************************************)
EXTENDS ExamplePrograms
=============================================================================
