------------------------------- MODULE MCClauses -------------------------------
(***************************************************************************)
(* Clauses with one consulted file and the two groups of assert.  Three    *)
(* clauses make an index with a table of two and a clause beside it, and   *)
(* a chain with a clause in the middle.  As in the code the ids of the     *)
(* file (8 and on) are integers of Prolog, those of assert (16 and on, -24 *)
(* and down) are beyond MaxInt = 15.                                       *)
(***************************************************************************)
EXTENDS Clauses
MCConstants == {"a"}
MCFiles == {1}
MCAsserta == -3
================================================================================
