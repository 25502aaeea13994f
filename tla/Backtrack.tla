------------------------------ MODULE Backtrack ------------------------------
(***************************************************************************)
(* The store of the WAM emulator of port/wam.c, and everything that        *)
(* decides what backtracking undoes: the instructions that create and bind *)
(* variables, the trail, the choice points (chpt.h), cut with its sweep of *)
(* the trail, and the global variables (gv.c) that survive failure and     *)
(* raise the heap-backtrack points to do so.                               *)
(*                                                                         *)
(* Instructions get operands that are already dereferenced: every live     *)
(* unbound variable and every live non-variable word is an operand, which  *)
(* covers whatever DEREF may arrive at.  A step is one instruction, or the *)
(* instructions that build one structure.                                  *)
(***************************************************************************)
EXTENDS Words, Sequences, Functions

CONSTANTS
  GVars,      (* the global variables that are allocated *)
  MaxChoice   (* the most choice points at a time: a bound *)

ASSUME MaxChoiceAssumption == MaxChoice \in Nat \ {0}

VARIABLES
  store,  (* the live cells, sp .. h - 1; what is outside is never read   *)
  sp,     (* mr_SP: the newest stack cell                                 *)
  h,      (* mr_H: the first free heap cell                               *)
  hb,     (* mr_HB: the register copy of the newest choice point's HB     *)
  spb,    (* mr_SPB: the register copy of its SPB                         *)
  cps,    (* the choice points, oldest first, each with the addresses     *)
          (* trailed since it became the newest                           *)
  gv      (* the global variables                                         *)

regs == <<sp, h, hb, spb>>
vars == <<store, sp, h, hb, spb, cps, gv>>

Live == sp .. h - 1
B == Len(cps)

Choice == [hb : Nat, spb : Nat, trail : SUBSET Addr]

TypeOK ==
  /\ sp \in 0 .. HeapBase
  /\ h \in HeapBase .. HeapEnd
  /\ store \in [Live -> Word]
  /\ hb \in HeapBase .. HeapEnd
  /\ spb \in 0 .. HeapBase
  /\ cps \in Seq(Choice)
  /\ B \in 1 .. MaxChoice
  /\ gv \in [GVars -> Word]

(***************************************************************************)
(* The engine starts with one choice point, on which it gives up.          *)
(***************************************************************************)
Init ==
  /\ sp = HeapBase
  /\ h = HeapBase
  /\ store = << >>
  /\ hb = HeapBase
  /\ spb = HeapBase
  /\ cps = << [hb |-> HeapBase, spb |-> HeapBase, trail |-> {}] >>
  /\ gv = [g \in GVars |-> Con]
------------------------------------------------------------------------------
(***************************************************************************)
(* Binding                                                                 *)
(***************************************************************************)

(* The TRAIL test: only a cell older than the newest choice point need be  *)
(* reset when that choice point is failed back to.                         *)
MustTrail(r) == r < hb /\ r >= spb

Trail(r) == IF MustTrail(r) THEN [cps EXCEPT ![B].trail = @ \cup {r}] ELSE cps

(* The store with cell a, perhaps a new one at either end, holding w *)
Put(m, a, w) == [c \in DOMAIN m \cup {a} |-> IF c = a THEN w ELSE m[c]]

UnboundVars == {a \in Live : Unbound(store, a)}

(* The words that DEREF may end with; those a global variable holds are    *)
(* among them, as gv_get hands its contents to the unifier.                *)
Operands ==
  {Ref(a) : a \in UnboundVars}
    \cup {w \in {store[a] : a \in Live} \cup {gv[g] : g \in GVars} : w.tag # "ref"}
    \cup {Con}

(* BIND: an unbound variable against anything that is not a variable *)
BindValue(r, w) ==
  /\ r \in UnboundVars
  /\ w \in Operands /\ w.tag # "ref"
  /\ cps' = Trail(r)
  /\ store' = Put(store, r, w)
  /\ UNCHANGED <<regs, gv>>

(* Mutant of VarVar: the higher address refers to the lower, on the stack too. *)
VarVarDownward(f1, f2) ==
  IF f1 < f2 THEN [from |-> f2, to |-> f1] ELSE [from |-> f1, to |-> f2]

(***************************************************************************)
(* UNIFY of two variables: between heap cells the higher address refers to *)
(* the lower, else the lower to the higher, so that no reference leads to  *)
(* a cell that goes away first.                                            *)
(***************************************************************************)
VarVar(f1, f2) ==
  LET lo == IF f1 < f2 THEN f1 ELSE f2
      hi == IF f1 < f2 THEN f2 ELSE f1
  IN  IF lo >= HeapBase THEN [from |-> hi, to |-> lo] ELSE [from |-> lo, to |-> hi]

UnifyVars(f1, f2) ==
  LET b == VarVar(f1, f2)
  IN  /\ f1 \in UnboundVars /\ f2 \in UnboundVars /\ f1 # f2
      /\ cps' = Trail(b.from)
      /\ store' = Put(store, b.from, Ref(b.to))
      /\ UNCHANGED <<regs, gv>>
------------------------------------------------------------------------------
(***************************************************************************)
(* Building terms                                                          *)
(***************************************************************************)

(* An environment variable, initialised to unbound *)
InitYVar ==
  /\ sp > 0
  /\ sp' = sp - 1
  /\ store' = Put(store, sp - 1, Ref(sp - 1))
  /\ UNCHANGED <<h, hb, spb, cps, gv>>

(* A word copied from a cell to a new argument *)
Move(c) ==
  /\ sp > 0
  /\ c \in Live
  /\ sp' = sp - 1
  /\ store' = Put(store, sp - 1, store[c])
  /\ UNCHANGED <<h, hb, spb, cps, gv>>

(* A fresh heap variable as an argument *)
PutXVar ==
  /\ sp > 0 /\ h < HeapEnd
  /\ sp' = sp - 1
  /\ h' = h + 1
  /\ store' = Put(Put(store, h, Ref(h)), sp - 1, Ref(h))
  /\ UNCHANGED <<hb, spb, cps, gv>>

IsStackVar(w) == w.tag = "ref" /\ w.p < HeapBase

(***************************************************************************)
(* A structure with argument w.  A stack variable may not be referred to   *)
(* from the heap: it is first made to refer to the new heap cell.          *)
(***************************************************************************)
PutStructure(w) ==
  /\ sp > 0 /\ h < HeapEnd
  /\ w \in Operands
  /\ sp' = sp - 1
  /\ h' = h + 1
  /\ IF IsStackVar(w)
     THEN /\ cps' = Trail(w.p)
          /\ store' = Put(Put(Put(store, h, Ref(h)), w.p, Ref(h)), sp - 1, Str(h))
     ELSE /\ cps' = cps
          /\ store' = Put(Put(store, h, w), sp - 1, Str(h))
  /\ UNCHANGED <<hb, spb, gv>>

(***************************************************************************)
(* The last call of a clause: the stack is cut back to s, which the newest *)
(* choice point bounds, and the argument w is left as the only new cell.   *)
(* An argument that is an unsafe variable, one on the stack that the cut   *)
(* back may remove, is first moved to the heap.                            *)
(***************************************************************************)
UnsafeVar(w) == IsStackVar(w) /\ w.p < spb

LastCall(w, s) ==
  /\ w \in Operands
  /\ s \in sp + 1 .. spb
  /\ sp' = s - 1
  /\ IF UnsafeVar(w)
     THEN /\ h < HeapEnd
          /\ h' = h + 1
          /\ cps' = Trail(w.p)
          /\ store' = Restrict(Put(Put(Put(store, h, Ref(h)), w.p, Ref(h)), s - 1, Ref(h)),
                              s - 1 .. h)
     ELSE /\ h' = h
          /\ cps' = cps
          /\ store' = Restrict(Put(store, s - 1, w), s - 1 .. h - 1)
  /\ UNCHANGED <<hb, spb, gv>>
------------------------------------------------------------------------------
(***************************************************************************)
(* Choice points                                                           *)
(***************************************************************************)
Try ==
  /\ B < MaxChoice
  /\ hb' = h
  /\ spb' = sp
  /\ cps' = Append(cps, [hb |-> h, spb |-> sp, trail |-> {}])
  /\ UNCHANGED <<store, sp, h, gv>>

(* UNWINDTRAIL, and the stack and heap cut back to the registers SPB, HB *)
Unwound ==
  [a \in spb .. hb - 1 |-> IF a \in cps[B].trail THEN Ref(a) ELSE store[a]]

(* Mutant of Retry: the stack is left where it was. *)
RetryKeepsStack ==
  /\ store' = Unwound
  /\ cps' = [cps EXCEPT ![B].trail = {}]
  /\ h' = hb
  /\ UNCHANGED <<sp, hb, spb, gv>>

Retry ==
  /\ store' = Unwound
  /\ cps' = [cps EXCEPT ![B].trail = {}]
  /\ h' = hb
  /\ sp' = spb
  /\ UNCHANGED <<hb, spb, gv>>

Trust ==
  /\ B > 1
  /\ store' = Unwound
  /\ cps' = SubSeq(cps, 1, B - 1)
  /\ h' = hb
  /\ sp' = spb
  /\ hb' = cps[B - 1].hb
  /\ spb' = cps[B - 1].spb
  /\ UNCHANGED gv

(***************************************************************************)
(* Cut: choice points made since the environment at e leave, and the sweep *)
(* of what they trailed keeps the entries that the new newest choice point *)
(* still needs.                                                            *)
(***************************************************************************)
(* k is the first choice point, from the newest, with its SPB above e *)
CutTo(e, k) ==
  /\ k \in 1 .. B
  /\ cps[k].spb > e
  /\ \A j \in k + 1 .. B : cps[j].spb <= e

(* the addresses trailed since choice point i became the newest *)
TrailedFrom(i) == UNION {cps[j].trail : j \in i .. B}

(* Mutant of Cut: the entries of the choice points cut away go with them. *)
CutDropsTrail(e) ==
  /\ e \in sp .. HeapBase - 1
  /\ spb <= e
  /\ \E k \in 1 .. B :
       /\ CutTo(e, k)
       /\ cps' = SubSeq(cps, 1, k)
       /\ hb' = cps[k].hb
       /\ spb' = cps[k].spb
  /\ UNCHANGED <<store, sp, h, gv>>

Cut(e) ==
  /\ e \in sp .. HeapBase - 1
  /\ spb <= e
  /\ \E k \in 1 .. B :
       /\ CutTo(e, k)
       /\ cps' = [i \in 1 .. k |->
                   IF i < k THEN cps[i]
                   ELSE [cps[k] EXCEPT !.trail =
                           @ \cup {r \in TrailedFrom(k + 1) : r < cps[k].hb /\ r >= cps[k].spb}]]
       /\ hb' = cps[k].hb
       /\ spb' = cps[k].spb
  /\ UNCHANGED <<store, sp, h, gv>>
------------------------------------------------------------------------------
(***************************************************************************)
(* Global variables                                                        *)
(***************************************************************************)

(* Mutant of WalkStopsAt: an HB equal to newp is passed as if it protected it. *)
WalkPassesEqual(n, newp) ==
  /\ \A j \in n + 1 .. B : cps[j].hb >= newp
  /\ n > 0 => cps[n].hb < newp

(***************************************************************************)
(* The walk of gv_set from the newest choice point down passes those whose *)
(* HB is above newp and stops at choice point n, or at none with n = 0.    *)
(***************************************************************************)
WalkStopsAt(n, newp) ==
  /\ \A j \in n + 1 .. B : cps[j].hb > newp
  /\ n > 0 => cps[n].hb <= newp

(* The HB of choice point n and of every older one becomes the last HB     *)
(* passed, or the heap pointer top when none was.                          *)
RaiseHB(cs, n, top) ==
  LET hbl == IF n = Len(cs) THEN top ELSE cs[n + 1].hb
  IN  [i \in 1 .. Len(cs) |-> IF i <= n THEN [cs[i] EXCEPT !.hb = hbl] ELSE cs[i]]

(* A constant needs no protection. *)
GvSetConstant(g, w) ==
  /\ w \in Operands /\ ~ IsPointer(w)
  /\ gv' = [gv EXCEPT ![g] = w]
  /\ UNCHANGED <<store, regs, cps>>

(* Mutant of GvSetHeap: the register HB is not brought up to date. *)
GvSetHeapStaleHB(g, w) ==
  /\ w \in Operands /\ IsPointer(w) /\ w.p >= HeapBase
  /\ gv' = [gv EXCEPT ![g] = w]
  /\ \E n \in 0 .. B : WalkStopsAt(n, w.p) /\ cps' = RaiseHB(cps, n, h)
  /\ UNCHANGED <<store, regs>>

(* A variable on the heap or a structure: everything it is made of must    *)
(* outlive the choice points.                                              *)
GvSetHeap(g, w) ==
  /\ w \in Operands /\ IsPointer(w) /\ w.p >= HeapBase
  /\ gv' = [gv EXCEPT ![g] = w]
  /\ \E n \in 0 .. B : WalkStopsAt(n, w.p) /\ cps' = RaiseHB(cps, n, h)
  /\ hb' = cps'[B].hb
  /\ UNCHANGED <<store, sp, h, spb>>

(* A stack variable is made to refer to a fresh heap variable first. *)
GvSetStackVar(g, w) ==
  /\ w \in Operands /\ IsStackVar(w)
  /\ h < HeapEnd
  /\ h' = h + 1
  /\ store' = Put(Put(store, h, Ref(h)), w.p, Ref(h))
  /\ gv' = [gv EXCEPT ![g] = Ref(h)]
  /\ \E n \in 0 .. B : WalkStopsAt(n, h) /\ cps' = RaiseHB(Trail(w.p), n, h')
  /\ hb' = cps'[B].hb
  /\ UNCHANGED <<sp, spb>>

GvSet(g, w) == GvSetConstant(g, w) \/ GvSetHeap(g, w) \/ GvSetStackVar(g, w)
------------------------------------------------------------------------------
Next ==
  \/ \E r \in Live, w \in Operands : BindValue(r, w)
  \/ \E f1, f2 \in Live : UnifyVars(f1, f2)
  \/ InitYVar
  \/ \E c \in Live : Move(c)
  \/ PutXVar
  \/ \E w \in Operands : PutStructure(w)
  \/ \E w \in Operands, s \in sp + 1 .. spb : LastCall(w, s)
  \/ Try
  \/ Retry
  \/ Trust
  \/ \E e \in StackAddr : Cut(e)
  \/ \E g \in GVars, w \in Operands : GvSet(g, w)

Spec == Init /\ [][Next]_vars
------------------------------------------------------------------------------
(***************************************************************************)
(* Properties                                                              *)
(***************************************************************************)

(***************************************************************************)
(* Later choice points protect more, the registers HB and SPB are those of *)
(* the newest choice point whatever cut or gv_set did to it, and the trail *)
(* holds only cells that existed when their choice point was made.         *)
(***************************************************************************)
ChoicesOrdered ==
  /\ hb = cps[B].hb /\ hb <= h
  /\ spb = cps[B].spb /\ spb >= sp
  /\ \A i, j \in 1 .. B : i <= j => cps[i].hb <= cps[j].hb /\ cps[i].spb >= cps[j].spb
  /\ \A i \in 1 .. B :
       /\ cps[i].hb >= HeapBase /\ cps[i].spb <= HeapBase
       /\ cps[i].trail \subseteq cps[i].spb .. cps[i].hb - 1

(***************************************************************************)
(* No word leads to a cell that is gone, or that will go before the cell   *)
(* that holds the word: not in the store (engine.c checks this of a heap   *)
(* cell in heap_cell_invariant), and not in a global variable              *)
(* (global_cell_invariant), whatever has been failed over since it was set.*)
(***************************************************************************)
NoDangling ==
  /\ ClosedOn(store, sp, h)
  /\ \A g \in GVars : MayHold(gv[g], HeapBase, h)

(* The memory that failing back to choice point i would leave *)
View(i) ==
  [a \in cps[i].spb .. cps[i].hb - 1 |->
     IF a \in TrailedFrom(i) THEN Ref(a) ELSE store[a]]

(***************************************************************************)
(* Nor would a word dangle after failing back to any of the choice points, *)
(* not only to the newest: what the trail does not reset, HB protects.     *)
(***************************************************************************)
FailureSafe ==
  \A i \in 1 .. B :
    /\ ClosedOn(View(i), cps[i].spb, cps[i].hb)
    /\ \A g \in GVars : MayHold(gv[g], HeapBase, cps[i].hb)

(***************************************************************************)
(* The trail and the choice points do what copies of the memory would do:  *)
(* backtracking restores exactly what each choice point saw, cut forgets   *)
(* without changing what the older ones saw, and gv_set takes from no      *)
(* choice point what it had.                                               *)
(***************************************************************************)
Copies == INSTANCE Snapshots WITH
            mem <- store,
            saved <- [i \in 1 .. B |-> View(i)]

RestoresSnapshots == Copies!Spec
==============================================================================
