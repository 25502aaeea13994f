-------------------------------- MODULE MCGC --------------------------------
(***************************************************************************)
(* GC with every kind of term on nine words of stack: without environment  *)
(* variables four words of heap, enough for a cell older than a choice     *)
(* point to be bound to a new list after one gc and be looked at by the    *)
(* next; with them, two frames of one variable each, three words.  And     *)
(* with three more words of stack lists only: a nested run above two       *)
(* frames with a choice point, before and after a gc.                      *)
(***************************************************************************)
EXTENDS GC

NoVariables == y = 0 /\ \A a \in DOMAIN mem : mem[a].t = "ret" => mem[a].v = 0
ListsOnly == \A a \in DOMAIN mem : mem[a].t \notin {"str", "fun", "uia", "fence", "delay"}

Shallow == SP >= HeapBase - 8 /\ (NoVariables \/ H <= HeapBase + 3)
Nested == saved # << >> /\ H <= HeapBase + 3 /\ NoVariables /\ ListsOnly

(* A bound of the model: not all of this at once *)
BoundedNext == Next /\ (Shallow \/ Nested)'
BoundedSpec == Init /\ [][BoundedNext]_vars
=============================================================================
