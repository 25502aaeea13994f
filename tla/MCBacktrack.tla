---------------------------- MODULE MCBacktrack ----------------------------
(***************************************************************************)
(* Backtrack on two stack cells, two heap cells, three choice points and   *)
(* one global variable.  Two cells of each kind are enough to have an      *)
(* older and a newer one, three choice points enough to cut or raise the   *)
(* HB of one that has a newer and an older neighbour.                      *)
(***************************************************************************)
EXTENDS Backtrack
============================================================================
