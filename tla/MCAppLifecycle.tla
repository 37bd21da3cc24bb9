---------------------------- MODULE MCAppLifecycle ----------------------------
(***************************************************************************)
(* Threads for AppLifecycle.  Three io threads, as in the code.            *)
(***************************************************************************)
EXTENDS AppLifecycle, TLC

CONSTANTS t1, t2, t3

MCIoThreads == {t1, t2, t3}
=============================================================================
