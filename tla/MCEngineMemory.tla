---------------------------- MODULE MCEngineMemory ----------------------------
(***************************************************************************)
(* An engine with room for two choice points or one and two global         *)
(* variables, on whose behalf the stack is asked to grow by more than the  *)
(* gap above the heap, to shrink in favour of the heap, and both to shrink. *)
(***************************************************************************)
EXTENDS EngineMemory

MCFirstSizes == <<4, 11>>
MCSizes == { <<8, 10>>, <<3, 12>>, <<3, 9>> }
MCBases == {100, 200}

(* Only gc changes the sizes. *)
MCNoSizes == {}
===============================================================================
