---------------------------- MODULE MCExceptions ----------------------------
(***************************************************************************)
(* Three catches, three calls of run_wam and ten choice points: room for a *)
(* catch that has exited between two whose goals are running.              *)
(***************************************************************************)
EXTENDS Exceptions, TLC
=============================================================================
