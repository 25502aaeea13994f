------------------------------ MODULE Snapshots ------------------------------
(***************************************************************************)
(* What the trail and the choice points of the engine promise: that it     *)
(* behaves as if every choice point held a copy of the whole memory.       *)
(*                                                                         *)
(*   mem    the live cells, address -> word                                *)
(*   saved  one copy of the memory per choice point, oldest first          *)
(*   gv     the global variables, which no backtracking restores           *)
(***************************************************************************)
EXTENDS Words, Sequences

VARIABLES mem, saved, gv

absvars == <<mem, saved, gv>>

Newest == saved[Len(saved)]

Cells(m) == DOMAIN m

(***************************************************************************)
(* Forward execution: cells appear, stack cells newer than every choice    *)
(* point disappear or are reused, and a cell that a choice point saved, or *)
(* that is on the heap, changes only by the binding of an unbound          *)
(* variable.  No copy and no global variable changes.                      *)
(***************************************************************************)
Run ==
  /\ Cells(Newest) \subseteq Cells(mem')
  /\ \A a \in Cells(mem) \cap Cells(mem') :
       \/ mem'[a] = mem[a]
       \/ Unbound(mem, a)
       \/ a < HeapBase /\ a \notin Cells(Newest)
  /\ UNCHANGED <<saved, gv>>

(* A new choice point saves everything. *)
Mark ==
  /\ saved' = Append(saved, mem)
  /\ UNCHANGED <<mem, gv>>

(* Failure restores the newest copy, and keeps the choice point ... *)
Retry ==
  /\ mem' = Newest
  /\ UNCHANGED <<saved, gv>>

(* ... or, on the last alternative, drops it. *)
Trust ==
  /\ Len(saved) > 1
  /\ mem' = Newest
  /\ saved' = SubSeq(saved, 1, Len(saved) - 1)
  /\ UNCHANGED gv

(* Cut forgets the newest copies, and nothing else. *)
Cut ==
  /\ \E k \in 1 .. Len(saved) - 1 : saved' = SubSeq(saved, 1, k)
  /\ UNCHANGED <<mem, gv>>

(***************************************************************************)
(* Setting a global variable may bind a stack variable to a fresh heap     *)
(* variable on the way, and adds heap cells to copies that lack them, so   *)
(* that failure cannot take them away.  A copy keeps all that it held, and *)
(* takes what it lacked from the next newer copy, the newest from mem.     *)
(***************************************************************************)
NextNewer(i) == IF i = Len(saved') THEN mem' ELSE saved'[i + 1]

SetGlobal ==
  /\ \E g \in DOMAIN gv : gv' = [gv EXCEPT ![g] = gv'[g]]
  /\ Cells(mem) \subseteq Cells(mem')
  /\ \A a \in Cells(mem) : mem'[a] = mem[a] \/ Unbound(mem, a)
  /\ Len(saved') = Len(saved)
  /\ \A i \in 1 .. Len(saved) :
       /\ \A a \in Cells(saved[i]) :
            a \in Cells(saved'[i]) /\ saved'[i][a] = saved[i][a]
       /\ \A a \in Cells(saved'[i]) \ Cells(saved[i]) :
            /\ a >= HeapBase
            /\ a \in Cells(NextNewer(i)) /\ saved'[i][a] = NextNewer(i)[a]

Init ==
  /\ mem = << >>
  /\ saved = << mem >>
  /\ \A g \in DOMAIN gv : gv[g] = Con

Next == Run \/ Mark \/ Retry \/ Trust \/ Cut \/ SetGlobal

Spec == Init /\ [][Next]_absvars
==============================================================================
