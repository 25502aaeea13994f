---------------------------- MODULE MCInterrupts -----------------------------
(***************************************************************************)
(* Interrupts, with the signals and bounds that each .cfg gives: from no   *)
(* signal to two, with room for a clct_tr that is interrupted by a handler *)
(* that binds another delay variable.                                      *)
(***************************************************************************)
EXTENDS Interrupts, TLC
==============================================================================
