------------------------------ MODULE TrailStack ------------------------------
(***************************************************************************)
(* The trail area of the engine, word by word: trail entries and choice    *)
(* points share one stack that grows down from wm_trailbase, and the       *)
(* global variables lie above it, up to wm_gvbase.                         *)
(*                                                                         *)
(*     tr                 b                      trailbase        GVBase   *)
(*     | entry ... entry | NC HB SPB PrevB | ... |  globals      |         *)
(*                                                                         *)
(* Nothing marks a word as a trail entry or as part of a choice point: cut *)
(* and get_out (the return from a nested run_wam) tell them apart by their *)
(* values, and so does gv_alloc, which moves the whole stack down to make  *)
(* room for more global variables.  Both loops go word by word here.       *)
(*                                                                         *)
(* Of the cells of stack and heap only the addresses matter, all below the *)
(* trail area: 1 .. HeapBase - 1 on the stack, HeapBase .. Low - 1 on the  *)
(* heap.  0 is the null pointer, the integer that ends the free list, and  *)
(* any word that is no pointer.                                            *)
(***************************************************************************)
EXTENDS Integers, Sequences, SequencesExt

CONSTANTS
  HeapBase,   (* wm_heapbase                                               *)
  Low,        (* the lowest address of the trail area: a bound, the code   *)
              (* compares TR with H only now and then                      *)
  GVBase,     (* wm_gvbase                                                 *)
  GV_SHIFT,   (* by how many words gv_alloc moves the trail                *)
  MaxCalls,   (* the most nested calls of run_wam: a bound                 *)
  MaxGlobals  (* the most global variables, free ones too: a bound         *)

ASSUME AreaAssumption ==
  /\ HeapBase \in Nat /\ HeapBase > 1
  /\ Low \in Nat /\ Low > HeapBase
  /\ GVBase \in Nat /\ GVBase >= Low + 4
  /\ GV_SHIFT \in Nat \ {0}
  /\ MaxCalls \in Nat
  /\ MaxGlobals \in Nat

VARIABLES
  word,       (* the live words of the area, address -> value              *)
  tr, b,      (* mr_TR, mr_B                                               *)
  hb, spb,    (* mr_HB, mr_SPB                                             *)
  trailbase,  (* wm_trailbase                                              *)
  freelist,   (* wm_gvfreelist                                             *)
  allocated,  (* the global variables in use, by number                    *)
  regstack,   (* what the register stack holds of each caller of run_wam   *)
  pc,         (* where the engine is: between instructions, in the sweep   *)
              (* of cut, in that of get_out, or in the loop of gv_alloc    *)
  at, end     (* reg1 and reg2 of the sweeps; at is also tr of gv_alloc    *)

choiceRegs == <<b, hb, spb>>
gvars == <<trailbase, freelist, allocated>>
loop == <<pc, at, end>>
vars == <<word, tr, choiceRegs, gvars, regstack, loop>>

Cell == 1 .. Low - 1

SPBOf(c) == word[c + 2]
PrevB(c) == word[c + 3]

(* The words from a up to the global variables, with v in the lowest ones *)
Push(v) == [x \in tr - Len(v) .. GVBase - 1 |-> IF x < tr THEN v[x - tr + Len(v) + 1] ELSE word[x]]
Drop(a) == [x \in a .. GVBase - 1 |-> word[x]]

Running == pc = "run"

Init ==
  /\ b = GVBase - 4 /\ tr = b
  /\ hb = HeapBase /\ spb = HeapBase
  /\ word = [x \in b .. GVBase - 1 |-> << 0, hb, spb, 0 >>[x - b + 1]]
  /\ trailbase = GVBase
  /\ freelist = 0
  /\ allocated = {}
  /\ regstack = << >>
  /\ pc = "run" /\ at = 0 /\ end = 0
------------------------------------------------------------------------------
(***************************************************************************)
(* The choice points are where a word points upward, to the next older     *)
(* one, and the last four words below trailbase.                           *)
(***************************************************************************)
IsChoice(w, c) == c = trailbase - 4 \/ w[c + 3] > c + 3

Bases == {c \in b .. trailbase - 4 : IsChoice(word, c)}

Trailed == {word[x] : x \in {y \in tr .. trailbase - 1 : \A c \in Bases : y \notin c .. c + 3}}

(* A cell is trailed once, until failure unbinds it. *)
Trail(r) ==
  /\ Running
  /\ r < hb /\ r >= spb /\ r \notin Trailed
  /\ tr > Low
  /\ tr' = tr - 1
  /\ word' = Push(<< r >>)
  /\ UNCHANGED <<choiceRegs, gvars, regstack, loop>>

(* h and sp are the registers H and SP at a TRY. *)
NewChoice(h, sp) ==
  /\ tr - 4 >= Low
  /\ h >= hb /\ sp <= spb
  /\ word' = Push(<< 0, h, sp, b >>)
  /\ tr' = tr - 4 /\ b' = tr - 4
  /\ hb' = h /\ spb' = sp

Try(h, sp) ==
  /\ Running
  /\ NewChoice(h, sp)
  /\ UNCHANGED <<gvars, regstack, loop>>

Retry ==
  /\ Running
  /\ tr' = b
  /\ word' = Drop(b)
  /\ UNCHANGED <<choiceRegs, gvars, regstack, loop>>

(* The choice point that the innermost run_wam starts with *)
IsCallBase == regstack # << >> /\ PrevB(b) = regstack[Len(regstack)].b

PopChoice ==
  /\ PrevB(b) # 0
  /\ b' = PrevB(b)
  /\ word' = Drop(b + 4)
  /\ hb' = word[PrevB(b) + 1]
  /\ spb' = SPBOf(PrevB(b))

Trust ==
  /\ Running
  /\ ~ IsCallBase
  /\ PopChoice
  /\ tr' = b + 4
  /\ UNCHANGED <<gvars, regstack, loop>>
------------------------------------------------------------------------------
(***************************************************************************)
(* Cut, and the return of run_wam                                          *)
(***************************************************************************)

(* c is the first choice point, from the newest, with its SPB above e; of  *)
(* the newest it is the register that is compared.                         *)
StopsAt(c, e) ==
  LET above(d) == IF d = b THEN spb > e ELSE SPBOf(d) > e
  IN  /\ c \in Bases /\ above(c)
      /\ \A d \in Bases : d < c => ~ above(d)

(* The sweep begins: c is the newest choice point, the trail above it is   *)
(* written anew from the top, over what is swept.                          *)
SweepFrom(c, where) ==
  /\ b' = c
  /\ hb' = word[c + 1]
  /\ spb' = IF c = b THEN spb ELSE SPBOf(c)
  /\ end' = tr
  /\ tr' = c
  /\ at' = c - 1
  /\ pc' = where

(* The environments of the innermost run_wam lie below its goal's frame. *)
OwnEnv(e) == regstack # << >> => e < regstack[Len(regstack)].sp - 1

Cut(e) ==
  /\ Running
  /\ OwnEnv(e)
  /\ spb <= e
  /\ \E c \in Bases : StopsAt(c, e) /\ SweepFrom(c, "cut")
  /\ UNCHANGED <<word, gvars, regstack>>

(* Mutant of SweepChoice: the choice point is taken for a word longer. *)
SweepChoiceLong ==
  /\ word[at] > at
  /\ at' = at - 5
  /\ UNCHANGED <<word, tr>>

(* The word at PrevB points up: the choice point below it is skipped. *)
SweepChoice ==
  /\ word[at] > at
  /\ at' = at - 4
  /\ UNCHANGED <<word, tr>>

(* RETRAIL *)
SweepEntry ==
  /\ word[at] <= at
  /\ at' = at - 1
  /\ IF word[at] < hb /\ word[at] >= spb
     THEN tr' = tr - 1 /\ word' = [word EXCEPT ![tr - 1] = word[at]]
     ELSE UNCHANGED <<tr, word>>

Sweep ==
  /\ pc \in {"cut", "return"}
  /\ at >= end
  /\ SweepChoice \/ SweepEntry
  /\ UNCHANGED <<choiceRegs, gvars, regstack, pc, end>>

SweepDone ==
  /\ pc \in {"cut", "return"}
  /\ at < end
  /\ word' = Drop(tr)
  /\ pc' = "run" /\ at' = 0 /\ end' = 0
  /\ IF pc = "return"
     THEN /\ spb' = regstack[Len(regstack)].spb
          /\ regstack' = Front(regstack)
     ELSE UNCHANGED <<spb, regstack>>
  /\ UNCHANGED <<tr, b, hb, gvars>>

(***************************************************************************)
(* run_wam called from C code that the emulator called: the registers are  *)
(* saved, the stack goes on from sp, and the goal gets a choice point.     *)
(***************************************************************************)
Call(h, sp) ==
  /\ Running
  /\ Len(regstack) < MaxCalls
  /\ sp <= spb /\ sp > 1
  /\ regstack' = Append(regstack, [b |-> b, spb |-> spb, sp |-> sp])
  /\ NewChoice(h, sp - 1)
  /\ UNCHANGED <<gvars, loop>>

(* get_out cuts back to the stack as it was at the call. *)
Succeed ==
  /\ Running
  /\ regstack # << >>
  /\ \E c \in Bases : StopsAt(c, regstack[Len(regstack)].sp - 1) /\ SweepFrom(c, "return")
  /\ UNCHANGED <<word, gvars, regstack>>

(* The last failure: TRUST_ME of the goal's choice point, and get_out, which *)
(* finds nothing to cut and still goes over what is trailed for the newest.  *)
Fail ==
  /\ Running
  /\ IsCallBase
  /\ PopChoice
  /\ end' = b + 4
  /\ tr' = PrevB(b)
  /\ at' = PrevB(b) - 1
  /\ pc' = "return"
  /\ UNCHANGED <<gvars, regstack>>
------------------------------------------------------------------------------
(***************************************************************************)
(* Global variables                                                        *)
(***************************************************************************)

(* What gv_set does here: the HB of the choice points that do not protect  *)
(* the heap from newp on is raised to that of the next newer one, or to h, *)
(* the register H.                                                         *)
GvSet(newp, h) ==
  LET protecting == {c \in Bases : \A d \in Bases : d <= c => word[d + 1] > newp}
      hbl == IF protecting = {} THEN h
             ELSE CHOOSE v \in {word[c + 1] : c \in protecting} :
                    \A c \in protecting : v <= word[c + 1]
      raised == {c + 1 : c \in Bases \ protecting}
  IN  /\ Running
      /\ h >= hb /\ newp < h
      /\ word' = [x \in DOMAIN word |-> IF x \in raised THEN hbl ELSE word[x]]
      /\ hb' = word'[b + 1]
      /\ UNCHANGED <<tr, b, spb, gvars, regstack, loop>>

GvAllocFromList ==
  /\ Running
  /\ freelist # 0
  /\ freelist' = word[freelist]
  /\ word' = [word EXCEPT ![freelist] = 0]
  /\ allocated' = allocated \cup {GVBase - freelist}
  /\ UNCHANGED <<tr, choiceRegs, trailbase, regstack, loop>>

(* The free list is empty: the trail is moved. *)
GvAllocShift ==
  /\ Running
  /\ freelist = 0
  /\ tr - GV_SHIFT >= Low
  /\ GVBase - trailbase + GV_SHIFT <= MaxGlobals
  /\ pc' = "shift" /\ at' = tr
  /\ UNCHANGED <<word, tr, choiceRegs, gvars, regstack, end>>

(* A pointer to a higher word of the trail area moves with it. *)
Moved(v, x) == IF x < v /\ v < trailbase THEN v - GV_SHIFT ELSE v

Shift ==
  /\ pc = "shift"
  /\ at < trailbase
  /\ word' = [x \in DOMAIN word \cup {at - GV_SHIFT} |->
               IF x = at - GV_SHIFT THEN Moved(word[at], at) ELSE word[x]]
  /\ at' = at + 1
  /\ UNCHANGED <<tr, choiceRegs, gvars, regstack, pc, end>>

(* The new variables, old words of the trail or, when that is shorter than *)
(* GV_SHIFT, of below it: the first GV_SHIFT - 1 are linked into the free  *)
(* list.                                                                   *)
Linked(from, to) ==
  [x \in DOMAIN word \cup from .. to |->
     IF x = from THEN 0 ELSE IF x \in from + 1 .. to THEN x - 1 ELSE word[x]]

(* Mutant of NewVariables: the last one, too, is linked. *)
NewVariablesAllListed ==
  /\ trailbase' = trailbase - GV_SHIFT
  /\ freelist' = trailbase - 1
  /\ word' = Linked(trailbase', trailbase - 1)
  /\ allocated' = allocated \cup {GVBase - (trailbase - 1)}

(* The last one is handed out. *)
NewVariables ==
  /\ trailbase' = trailbase - GV_SHIFT
  /\ freelist' = IF GV_SHIFT = 1 THEN 0 ELSE trailbase - 2
  /\ word' = [Linked(trailbase', trailbase - 2) EXCEPT ![trailbase - 1] = 0]
  /\ allocated' = allocated \cup {GVBase - (trailbase - 1)}

(* Mutant of FixPtrs: what the callers of run_wam saved is left alone. *)
FixOwnPtrs ==
  /\ b' = b - GV_SHIFT
  /\ tr' = tr - GV_SHIFT
  /\ UNCHANGED regstack

FixPtrs ==
  /\ b' = b - GV_SHIFT
  /\ tr' = tr - GV_SHIFT
  /\ regstack' = [i \in DOMAIN regstack |-> [regstack[i] EXCEPT !.b = @ - GV_SHIFT]]

ShiftDone ==
  /\ pc = "shift"
  /\ at = trailbase
  /\ FixPtrs
  /\ NewVariables
  /\ pc' = "run" /\ at' = 0
  /\ UNCHANGED <<hb, spb, end>>

(* Mutant of GvFree: the head of the list is the variable's number. *)
GvFreeNumber(v) ==
  /\ Running
  /\ v \in allocated
  /\ word' = [word EXCEPT ![GVBase - v] = freelist]
  /\ freelist' = v
  /\ allocated' = allocated \ {v}
  /\ UNCHANGED <<tr, choiceRegs, trailbase, regstack, loop>>

GvFree(v) ==
  /\ Running
  /\ v \in allocated
  /\ word' = [word EXCEPT ![GVBase - v] = freelist]
  /\ freelist' = GVBase - v
  /\ allocated' = allocated \ {v}
  /\ UNCHANGED <<tr, choiceRegs, trailbase, regstack, loop>>
------------------------------------------------------------------------------
HeapTop == HeapBase .. Low
StackTop == 1 .. HeapBase

Next ==
  \/ \E r \in Cell : Trail(r)
  \/ \E h \in HeapTop, sp \in StackTop : Try(h, sp)
  \/ Retry
  \/ Trust
  \/ \E e \in 1 .. HeapBase - 1 : Cut(e)
  \/ Sweep
  \/ SweepDone
  \/ \E h \in HeapTop, sp \in StackTop : Call(h, sp)
  \/ Succeed
  \/ Fail
  \/ \E newp \in HeapBase .. Low - 1, h \in HeapTop : GvSet(newp, h)
  \/ GvAllocFromList
  \/ GvAllocShift
  \/ Shift
  \/ ShiftDone
  \/ \E v \in allocated : GvFree(v)

Spec == Init /\ [][Next]_vars
------------------------------------------------------------------------------
(***************************************************************************)
(* Properties                                                              *)
(***************************************************************************)
TypeOK ==
  /\ tr \in Low .. GVBase - 4 /\ b \in Low .. GVBase - 4
  /\ hb \in HeapTop /\ spb \in StackTop
  /\ \A x \in DOMAIN word : word[x] \in 0 .. GVBase - 1
  /\ Running => DOMAIN word = tr .. GVBase - 1
  /\ trailbase \in Low + 4 .. GVBase
  /\ freelist \in {0} \cup trailbase .. GVBase - 1
  /\ allocated \subseteq 1 .. GVBase - trailbase
  /\ regstack \in Seq([b : Low .. GVBase - 4, spb : StackTop, sp : StackTop])
  /\ Len(regstack) <= MaxCalls
  /\ pc \in {"run", "cut", "return", "shift"}
  /\ at \in 0 .. GVBase /\ end \in 0 .. GVBase - 1

(***************************************************************************)
(* Whatever cut, return and gv_alloc moved: the words that point upward    *)
(* are exactly the PrevB words of the choice points, each pointing to the  *)
(* next older choice point, up to the oldest just below trailbase; the     *)
(* registers are those of the newest; and the choice points that the       *)
(* callers of run_wam will go on with are still there, oldest first.       *)
(***************************************************************************)
ChainIntact ==
  Running =>
    /\ b \in Bases
    /\ \A c \in Bases :
         IF c = trailbase - 4 THEN PrevB(c) = 0
         ELSE /\ PrevB(c) \in Bases
              /\ \A d \in Bases : d > c => d >= PrevB(c)
    /\ hb = word[b + 1] /\ spb = SPBOf(b)
    /\ \A i \in DOMAIN regstack :
         /\ regstack[i].b \in Bases \ {b} /\ regstack[i].spb = SPBOf(regstack[i].b)
         /\ i > 1 => regstack[i].b < regstack[i - 1].b

(***************************************************************************)
(* Every word above the trail is a global variable in use or on the free   *)
(* list, once: walking the list from its head meets each free one.         *)
(***************************************************************************)
FreeLinks[n \in 0 .. GVBase - trailbase] ==
  IF n = 0 THEN freelist ELSE IF FreeLinks[n - 1] = 0 THEN 0 ELSE word[FreeLinks[n - 1]]

GlobalsPartitioned ==
  LET Listed == {n \in DOMAIN FreeLinks : FreeLinks[n] # 0}
  IN  /\ \A m, n \in Listed : m # n => FreeLinks[m] # FreeLinks[n]
      /\ {FreeLinks[n] : n \in Listed}
           = (trailbase .. GVBase - 1) \ {GVBase - v : v \in allocated}

(***************************************************************************)
(* The area does what a stack of choice points with sets of trailed        *)
(* addresses would do (module ChoiceStack).  In the middle of a sweep the  *)
(* newest choice point trails what is already rewritten and what of the    *)
(* rest RETRAIL will keep; in the middle of gv_alloc's loop a word that    *)
(* has moved is read where it is now, its pointer moved back.              *)
(***************************************************************************)
Unmoved(x) ==
  IF pc # "shift" \/ x >= at THEN word[x]
  ELSE LET v == word[x - GV_SHIFT] IN IF v > x - GV_SHIFT THEN v + GV_SHIFT ELSE v

Area == [x \in tr .. trailbase - 1 |-> Unmoved(x)]

OldestFirst(area) ==
  LET base == {c \in b .. trailbase - 4 : IsChoice(area, c)}
  IN  CHOOSE t \in [1 .. Cardinality(base) -> base] : \A i, j \in DOMAIN t : i < j => t[i] > t[j]

Pending ==
  IF pc \notin {"cut", "return"} THEN {}
  ELSE {word[x] : x \in {y \in end .. at : \A z \in y .. y + 3 : word[z] <= z}}

AsChoices ==
  LET area == Area
      base == OldestFirst(area)
      low(i) == IF i = Len(base) THEN tr ELSE base[i + 1] + 4
      trail(i) == {area[x] : x \in low(i) .. base[i] - 1}
      pending == {r \in Pending : r < hb /\ r >= spb}
  IN  [i \in 1 .. Len(base) |->
        [hb |-> area[base[i] + 1], spb |-> area[base[i] + 2],
         trail |-> IF i = Len(base) THEN trail(i) \cup pending ELSE trail(i)]]

(* How many choice points there are from c on *)
Depth(c) == Cardinality({d \in c .. trailbase - 4 : IsChoice(Area, d)})

CallersOnly == IF pc = "return" THEN Front(regstack) ELSE regstack

AsCalls == [i \in DOMAIN CallersOnly |-> Depth(CallersOnly[i].b)]

Stack == INSTANCE ChoiceStack WITH
           choices <- AsChoices, calls <- AsCalls, globals <- allocated

ImplementsChoiceStack == Stack!Spec
==============================================================================
