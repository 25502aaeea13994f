----------------------------- MODULE MCTrailStack -----------------------------
(***************************************************************************)
(* TrailStack with two stack cells and two heap cells, room for three      *)
(* choice points or two and what gv_alloc takes, and one nested run_wam.   *)
(* gv_alloc moves the trail twice, by two words each time.                 *)
(***************************************************************************)
EXTENDS TrailStack
===============================================================================
