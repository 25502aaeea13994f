---------------------------------- MODULE GC ----------------------------------
(***************************************************************************)
(* The garbage compactor, word by word: marking with the pointers of the   *)
(* heap turned round (mark), every pointer from outside threaded into the  *)
(* heap as soon as its target is marked (mark_from, rev), the trail and    *)
(* the choice points compacted, and two sweeps over the heap that undo the *)
(* threads and slide what is marked together (rev_update).  A choice point *)
(* carries a bit that says that the heap below its HB has been compacted:  *)
(* the next gc leaves that part alone.                                     *)
(*                                                                         *)
(* The program that makes the heaps is kept small: procedures of one       *)
(* argument, clauses with at most one environment variable.  All of memory *)
(* is one function from addresses to words.                                *)
(*                                                                         *)
(*   SP        HeapBase        H           TR           GVBase             *)
(*   | frames      | heap      |   (free)  | trail, choice points | global | *)
(*                                                                         *)
(* No proof is to be had here: gc.c's jumps are recursive operators.       *)
(***************************************************************************)
EXTENDS Integers, Sequences, FiniteSets, FiniteSetsExt, Functions, TLC

CONSTANTS
  HeapBase,   (* wm_heapbase; the stack is below, down to address 1        *)
  MaxHeap,    (* the most words on the heap: a bound                       *)
  GVBase,     (* wm_gvbase; the one global variable is just below          *)
  MaxChoices, (* the most choice points on top of the first: a bound       *)
  MaxTrail,   (* the most trail entries: a bound                           *)
  MaxRuns,    (* the most nested calls of run_wam: a bound                 *)
  MaxGcs,     (* how often gc is called: a bound                           *)
  MaxVars,    (* the most environment variables: a bound                   *)
  Kinds       (* what the program makes: terms of these kinds              *)

ASSUME GCAssumption ==
  /\ HeapBase \in Nat /\ HeapBase > 3
  /\ MaxHeap \in Nat
  /\ GVBase > HeapBase + MaxHeap + 4 * (MaxChoices + 2 * MaxRuns + 1) + MaxTrail + 3
  /\ MaxVars \in 0 .. 1
  /\ Kinds \subseteq {"list", "struct", "uia", "delay"}

VARIABLES
  mem,        (* the words in use, address -> word                         *)
  E, SP,      (* the environment and the end of the stack                  *)
  B, TR, HB, H, SPB,
  gvset,      (* gv_setcnt is not 0                                        *)
  called,     (* a procedure has just been called                          *)
  live, y,    (* of the frame at E: the argument will be used again, how   *)
              (* many environment variables there are                      *)
  saved,      (* the register stack: the B register of each run_wam        *)
  gcs         (* how often gc has run                                      *)

frame == <<E, SP, live, y>>
choiceRegs == <<B, TR, HB, SPB>>
vars == <<mem, frame, choiceRegs, H, gvset, called, saved, gcs>>

(***************************************************************************)
(* A word: its tag, its value (the address, the arity, the number of words *)
(* between fences) and a bit, which tells a reversed pointer, a choice     *)
(* point's SPB with the compaction bit, and a return address that says     *)
(* that the argument is used again.  The return address "end" leads to the *)
(* W_RETURN of run_wam; a choice point "bottom" is one that run_wam began  *)
(* with.                                                                   *)
(***************************************************************************)
Word(t, v) == [t |-> t, v |-> v, bit |-> FALSE]
Const == Word("int", 0)
Ref(a) == Word("ref", a)
Unbound(m, a) == m[a] = Ref(a)
Pointer == {"ref", "str", "lst", "uia"}
Functor == {"fun", "delay"}

Global == GVBase - 1
FirstB == Global - 4

(* The fields of a frame and of a choice point *)
EnvE(m, e) == m[e].v
HBOf(m, b) == m[b + 1].v
SPBOf(m, b) == m[b + 2].v
Compacted(m, b) == m[b + 2].bit
PrevB(m, b) == m[b + 3].v
ChoicePoint(next, hb, spb, b) ==
  << Word(next, 0), Ref(hb), Word("spb", spb), Word("b", b) >>

Restricted(m, sp, h, tr) == Restrict(m, (sp .. h - 1) \union (tr .. GVBase - 1))
Pushed(m, a, ws) == [i \in a .. a + Len(ws) - 1 |-> ws[i - a + 1]] @@ m

Lower(a, b) == IF a < b THEN a ELSE b

Init ==
  /\ E = HeapBase - 3 /\ SP = E /\ H = HeapBase + 1
  /\ B = FirstB /\ TR = B /\ HB = HeapBase /\ SPB = HeapBase
  /\ mem = Pushed(<< >>, E, << Word("env", HeapBase), Word("ret", 0), Ref(HeapBase) >>)
             @@ (HeapBase :> Ref(HeapBase))
             @@ Pushed(<< >>, B, ChoicePoint("bottom", HeapBase, HeapBase, 0))
             @@ (Global :> Const)
  /\ gvset = FALSE /\ called = TRUE
  /\ live = TRUE /\ y = 0
  /\ saved = << >> /\ gcs = 0
------------------------------------------------------------------------------
(***************************************************************************)
(* What can be reached                                                     *)
(***************************************************************************)

(* The words of the object that word w leads to *)
Object(m, w) ==
  CASE w.t = "ref" -> IF w.v >= HeapBase /\ m[w.v - 1].t = "delay" THEN w.v - 1 .. w.v + 1
                      ELSE {w.v}
    [] w.t = "str" -> w.v .. w.v + m[w.v].v
    [] w.t = "lst" -> {w.v, w.v + 1}
    [] w.t = "uia" -> w.v .. w.v + m[w.v].v
    [] OTHER -> {}

RECURSIVE Reach(_, _)
Reach(m, cells) ==
  LET more == cells \union UNION {Object(m, m[a]) : a \in cells}
  IN  IF more = cells THEN cells ELSE Reach(m, more)

(* The slots of the frames that the frame at f returns to *)
RECURSIVE Callers(_, _)
Callers(m, f) ==
  LET e == EnvE(m, f)
  IN  IF e >= HeapBase THEN {}
      ELSE (IF m[f + 1].bit THEN {e + 2} ELSE {}) \union e - m[f + 1].v .. e - 1
             \union Callers(m, e)

Slots(m, f) ==
  IF f >= HeapBase THEN {}
  ELSE (IF m[f + 1].t = "end" THEN {} ELSE {f + 2}) \union Callers(m, f)

(* What the clause that runs can lay its hands on *)
OwnSlots == (IF live THEN {E + 2} ELSE {}) \union E - y .. E - 1
InHand == Reach(mem, OwnSlots)
Variables == {a \in InHand : Unbound(mem, a)}
Operands ==
  {Const} \union {Ref(a) : a \in {v \in Variables : v >= HeapBase}}
    \union {w \in {mem[a] : a \in InHand} : w.t \in Pointer /\ w.t # "ref"}
------------------------------------------------------------------------------
(***************************************************************************)
(* The program                                                             *)
(***************************************************************************)
Room(n) == H + n <= HeapBase + MaxHeap

RECURSIVE Chain(_, _)
Chain(m, b) == IF b = 0 THEN << >> ELSE << b >> \o Chain(m, PrevB(m, b))
NChoices == Len(Chain(mem, B))
Trailed == FirstB - TR - 4 * (NChoices - 1)

(* The choice points of clauses, and the newest that is not one: the       *)
(* bottom of the innermost run                                             *)
Clauses == {b \in Range(Chain(mem, B)) : mem[b].t = "clauses"}
Bottom == Min(Range(Chain(mem, B)) \ Clauses)

MustTrail(a, hb, spb) == a < hb /\ a >= spb

(* Cell c bound to w with the words ws made on the heap *)
Bind(c, w, ws) ==
  LET m == Pushed([mem EXCEPT ![c] = w], H, ws)
  IN  /\ Room(Len(ws))
      /\ H' = H + Len(ws)
      /\ IF MustTrail(c, HB, SPB)
         THEN /\ Trailed < MaxTrail
              /\ TR' = TR - 1
              /\ mem' = ((TR - 1) :> Ref(c)) @@ m
         ELSE mem' = m /\ TR' = TR
      /\ called' = FALSE
      /\ UNCHANGED <<frame, B, HB, SPB, gvset, saved, gcs>>

(* No occurs check is made; a term that contains itself is left out.       *)
BindTo(c, w) ==
  /\ w.t # "ref"
  /\ c \notin Reach(mem, Object(mem, w))
  /\ Bind(c, w, << >>)

(* The pointer to a new term with w in it, and its words *)
New(kind, w) ==
  CASE kind = "list" -> << Word("lst", H), << w, Ref(H + 1) >> >>
    [] kind = "struct" -> << Word("str", H), << Word("fun", 1), w >> >>
    [] kind = "uia" -> << Word("uia", H), << Word("fence", 2), Const, Word("fence", 2) >> >>

BindNew(c, kind, w) == Bind(c, New(kind, w)[1], New(kind, w)[2])

(***************************************************************************)
(* freeze: the variable is bound to the one inside the new delay term, and *)
(* always trailed; the HB of every choice point is raised to the new H, so *)
(* that no failure takes the term back.                                    *)
(***************************************************************************)
Delay(c, w) ==
  LET m == Pushed([mem EXCEPT ![c] = Ref(H + 1)], H,
                  << Word("delay", 2), Ref(H + 1), w >>)
      raised == [a \in {b + 1 : b \in Range(Chain(mem, B))} |-> Ref(H + 3)]
  IN  /\ Room(3) /\ Trailed < MaxTrail
      /\ ~ (c >= HeapBase /\ mem[c - 1].t = "delay")
      /\ TR' = TR - 1 /\ H' = H + 3 /\ HB' = H + 3
      /\ mem' = ((TR - 1) :> Ref(c)) @@ raised @@ m
      /\ called' = FALSE
      /\ UNCHANGED <<frame, B, SPB, gvset, saved, gcs>>

Unify ==
  \E c \in Variables, w \in Operands :
    \/ BindTo(c, w)
    \/ \E kind \in Kinds \ {"delay"} : BindNew(c, kind, w)
    \/ "delay" \in Kinds /\ Delay(c, w)

(***************************************************************************)
(* A call.  What the callee returns to is told by the words put out after  *)
(* the call: whether the argument of the caller will be used again, how    *)
(* many environment variables it has.                                      *)
(***************************************************************************)
Call(again, ny, w, ws) ==
  LET e == SP - (ny - y) - 3
  IN  /\ e > 0 /\ Room(Len(ws))
      /\ (again => live)
      /\ (ny = y \/ (ny = 1 /\ SP = E))
      /\ E' = e /\ SP' = e /\ H' = H + Len(ws)
      /\ mem' = Pushed(<< >>, e, << Word("env", E), [Word("ret", ny) EXCEPT !.bit = again], w >>)
                  @@ (IF ny = y THEN << >> ELSE (E - 1) :> Ref(E - 1))
                  @@ Pushed(mem, H, ws)
      /\ live' = TRUE /\ y' = 0 /\ called' = TRUE
      /\ UNCHANGED <<choiceRegs, gvset, saved, gcs>>

Return ==
  LET e == EnvE(mem, E)
      sp == Lower(SPB, e - mem[E + 1].v)
  IN  /\ e < HeapBase /\ mem[E + 1].t = "ret"
      /\ E' = e /\ SP' = sp
      /\ live' = mem[E + 1].bit /\ y' = mem[E + 1].v
      /\ mem' = Restricted(mem, sp, H, TR)
      /\ called' = FALSE
      /\ UNCHANGED <<choiceRegs, H, gvset, saved, gcs>>

Try ==
  /\ called
  /\ Cardinality(Clauses) < MaxChoices
  /\ TR' = TR - 4 /\ B' = TR - 4
  /\ HB' = H /\ SPB' = SP
  /\ mem' = Pushed(mem, TR - 4, ChoicePoint("clauses", H, SP, B))
  /\ called' = FALSE
  /\ UNCHANGED <<frame, H, gvset, saved, gcs>>

(* UNWINDTRAIL: the entries from tr up to the choice point at b *)
Unwound(m, tr, b) == [a \in {m[i].v : i \in tr .. b - 1} |-> Ref(a)] @@ m

(* RETRY: the choice point stays.  TRUST: it goes. *)
Fail(last) ==
  LET m == Unwound(mem, TR, B)
      tr == IF last THEN B + 4 ELSE B
  IN  /\ B # Bottom
      /\ E' = SPB /\ SP' = SPB /\ H' = HB /\ TR' = tr
      /\ mem' = Restricted(m, SPB, HB, tr)
      /\ IF last THEN B' = PrevB(mem, B) ELSE B' = B
      /\ HB' = HBOf(mem, B') /\ SPB' = SPBOf(mem, B')
      /\ live' = TRUE /\ y' = 0 /\ called' = FALSE
      /\ UNCHANGED <<gvset, saved, gcs>>

(* The trail entries from tr up to the choice point at b, oldest first *)
EntriesAt(tr, b) == tr .. b - 1 \ UNION {c .. c + 3 : c \in Range(Chain(mem, B))}
Entries(tr, b) ==
  LET at == EntriesAt(tr, b)
  IN  [k \in 1 .. Cardinality(at) |->
        mem[CHOOSE i \in at : Cardinality({j \in at : j > i}) = k - 1]]

(* mutant: HB stays *)
CutBackKeepsHB(b, sp) ==
  LET hb == HBOf(mem, b)
      spb == SPBOf(mem, b)
      kept == SelectSeq(Entries(TR, b), LAMBDA w : MustTrail(w.v, hb, spb))
  IN  /\ B' = b /\ HB' = HB /\ SPB' = spb
      /\ TR' = b - Len(kept)
      /\ mem' = [a \in b - Len(kept) .. b - 1 |-> kept[b - a]] @@ Restricted(mem, sp, H, b)

(* The choice points newer than b leave, and so do the entries that b does *)
(* not need.                                                               *)
CutBack(b, sp) ==
  LET hb == HBOf(mem, b)
      spb == SPBOf(mem, b)
      kept == SelectSeq(Entries(TR, b), LAMBDA w : MustTrail(w.v, hb, spb))
  IN  /\ B' = b /\ HB' = hb /\ SPB' = spb
      /\ TR' = b - Len(kept)
      /\ mem' = [a \in b - Len(kept) .. b - 1 |-> kept[b - a]] @@ Restricted(mem, sp, H, b)

(* The newest choice point made before the frame at e *)
RECURSIVE Before(_, _)
Before(b, e) == IF SPBOf(mem, b) > e THEN b ELSE Before(PrevB(mem, b), e)

(* The next goal begins with a TRIM1. *)
Cut ==
  /\ SPB <= E /\ SPBOf(mem, Bottom) > E
  /\ CutBack(Before(B, E), E - y)
  /\ SP' = E - y
  /\ called' = FALSE
  /\ UNCHANGED <<E, live, y, H, gvset, saved, gcs>>

(***************************************************************************)
(* A builtin calls run_wam.  The frame that it returns from counts all     *)
(* that the builtin has as in use.                                         *)
(***************************************************************************)
(* The frame that W_WAM_START1 pushes *)
RunFrame == << Word("env", E), [Word("end", 0) EXCEPT !.bit = TRUE] >>

Run(bottoms, frames) ==
  /\ called /\ Len(saved) < MaxRuns
  /\ SP > Len(frames)
  /\ saved' = Append(saved, B)
  /\ E' = SP - Len(frames) /\ SP' = E' /\ SPB' = SP - 2
  /\ B' = TR - Len(bottoms) /\ TR' = B' /\ HB' = H
  /\ mem' = Pushed(Pushed(mem, B', bottoms), E', frames)
  /\ UNCHANGED <<H, gvset, gcs>>

(* A command (w_exec): two choice points, the newer one compacted          *)
RunCommand ==
  LET b == TR - 4
      newer == [ChoicePoint("bottom", H, SP - 2, b) EXCEPT ![3].bit = TRUE]
  IN  /\ Run(newer \o ChoicePoint("bottom", H, SP - 2, B), RunFrame \o RunFrame)
      /\ live' = FALSE /\ y' = 0 /\ called' = FALSE

(* A goal given to the builtin (wm_rungoal): one choice point              *)
RunGoal ==
  /\ Run(ChoicePoint("bottom", H, SP - 2, B),
         << Word("env", SP - 2), Word("ret", 0), mem[E + 2] >> \o RunFrame)
  /\ UNCHANGED <<live, y, called>>

(* run_wam returns (get_out).  A run that fails has failed to the code of  *)
(* its bottom and does the same.                                           *)
EndRun ==
  LET e == EnvE(mem, E)
  IN  /\ saved # << >> /\ mem[E + 1].t = "end"
      /\ CutBack(Before(B, e - 1), e)
      /\ E' = e /\ SP' = e /\ live' = TRUE /\ y' = 0 /\ called' = FALSE
      /\ saved' = SubSeq(saved, 1, Len(saved) - 1)
      /\ UNCHANGED <<H, gvset, gcs>>

(* mutant: no HB is raised *)
GvSetOnly(w) ==
  /\ w.t \in Pointer
  /\ mem' = [mem EXCEPT ![Global] = w]
  /\ gvset' = TRUE
  /\ called' = FALSE
  /\ UNCHANGED <<frame, B, TR, HB, SPB, H, saved, gcs>>

(* gv_set: the HB of every choice point that is not above the value's is   *)
(* raised to the one that is, or to H.                                     *)
GvSet(w) ==
  LET chain == Chain(mem, B)
      above == {i \in DOMAIN chain : \A j \in 1 .. i : HBOf(mem, chain[j]) > w.v}
      n == Cardinality(above)
      hb == IF n = 0 THEN H ELSE HBOf(mem, chain[n])
  IN  /\ w.t \in Pointer
      /\ mem' = [a \in {chain[i] + 1 : i \in n + 1 .. Len(chain)} |-> Ref(hb)]
                  @@ [mem EXCEPT ![Global] = w]
      /\ HB' = HBOf(mem', B)
      /\ gvset' = TRUE
      /\ called' = FALSE
      /\ UNCHANGED <<frame, B, TR, SPB, H, saved, gcs>>
------------------------------------------------------------------------------
(***************************************************************************)
(* Marking.  g is what a gc works on: memory, the cells marked, how many   *)
(* words that makes, the part of the heap that is compacted.  The labels   *)
(* of mark() are the operators; p is the ptr of the code, up its bptr and  *)
(* btag, the cell whose word is being followed and the tag it was met by.  *)
(***************************************************************************)
Marked(g, p) == [g EXCEPT !.marks = @ \union {p}, !.n = @ + 1]
InRange(g, p) == g.lo <= p /\ p <= g.hi

RECURSIVE MarkTop(_, _, _), MarkFollow(_, _, _, _), MarkArgs(_, _, _),
          MarkCdr(_, _, _), MarkBackup(_, _, _)

Mark(g, w) == MarkTop(g, w, [p |-> 0, tag |-> "ref"])

MarkTop(g, w, up) ==
  LET p == w.v
  IN  IF ~ (w.t \in Pointer /\ InRange(g, p)) THEN MarkBackup(g, w, up)
      ELSE
        CASE w.t = "uia" ->
               LET n == g.m[p].v
               IN  MarkBackup(IF p \in g.marks THEN g
                              ELSE [g EXCEPT !.marks = @ \union {p, p + n}, !.n = @ + n + 1],
                              w, up)
          [] w.t = "ref" ->
               LET d == IF g.m[p - 1].t = "delay" THEN Mark(g, Word("str", p - 1)) ELSE g
               IN  IF p \in d.marks THEN MarkBackup(d, w, up) ELSE MarkFollow(d, p, "ref", up)
          [] w.t = "str" ->
               IF p \in g.marks THEN MarkBackup(g, w, up)
               ELSE MarkArgs(Marked(g, p), p + g.m[p].v, up)
          [] w.t = "lst" ->
               IF p \in g.marks THEN MarkCdr(g, p, up) ELSE MarkFollow(g, p, "lst", up)

MarkFollow(g, p, tag, up) ==
  MarkTop([Marked(g, p) EXCEPT !.m[p] = Word(up.tag, up.p)], g.m[p], [p |-> p, tag |-> tag])

MarkArgs(g, p, up) ==
  IF g.m[p].t \in Functor THEN MarkBackup(g, Word("str", p), up)
  ELSE IF p \in g.marks THEN MarkArgs(g, p - 1, up)
  ELSE MarkFollow(g, p, "str", up)

MarkCdr(g, p, up) ==
  IF p + 1 \in g.marks THEN MarkBackup(g, Word("lst", p), up)
  ELSE MarkFollow(g, p + 1, "int", up)

MarkBackup(g, w, up) ==
  IF up.p = 0 THEN g
  ELSE LET p == up.p
           above == [p |-> g.m[p].v, tag |-> g.m[p].t]
           back == [g EXCEPT !.m[p] = w]
       IN  CASE up.tag = "ref" -> MarkBackup(back, Ref(p), above)
             [] up.tag = "str" -> MarkArgs(back, p - 1, above)
             [] up.tag = "lst" -> MarkCdr(back, p, above)
             [] up.tag = "int" -> MarkBackup(back, Word("lst", p - 1), above)
------------------------------------------------------------------------------
(***************************************************************************)
(* Reversed pointers                                                       *)
(***************************************************************************)

(* rev: the word at loc, a pointer to between lo and hi, changes places    *)
(* with what it points to, turned round to lead to targ.                   *)
Rev(g, lo, hi, loc, targ) ==
  LET w == g.m[loc]
  IN  IF w.t \in Pointer /\ lo <= w.v /\ w.v <= hi
      THEN [g EXCEPT !.m[loc] = g.m[w.v],
                     !.m[w.v] = [t |-> w.t, v |-> targ, bit |-> TRUE]]
      ELSE g

REV(g, loc) == Rev(g, g.lo, g.hi, loc, loc)

MarkFrom(g, loc) == REV(Mark(g, g.m[loc]), loc)

(* rev_update: all that was turned round at loc now points to targ. *)
RECURSIVE Unthread(_, _, _, _)
Unthread(m, w, loc, targ) ==
  IF ~ w.bit THEN [m EXCEPT ![loc] = w]
  ELSE Unthread([m EXCEPT ![w.v] = Word(w.t, targ)], m[w.v], loc, targ)

RevUpdate(g, loc, targ) == [g EXCEPT !.m = Unthread(@, g.m[loc], loc, targ)]
------------------------------------------------------------------------------
(***************************************************************************)
(* Phase 2: the words outside of the heap to mark from                     *)
(***************************************************************************)
Upward(lo, hi) == IF lo < hi THEN [i \in 1 .. hi - lo |-> lo + i - 1] ELSE << >>

(* mutant: the mask is not looked at *)
RECURSIVE FrameWordsUnmasked(_, _, _, _)
FrameWordsUnmasked(m, e, ra, apb) ==
  IF e >= apb THEN << >>
  ELSE Upward(e + 2, Lower(apb, EnvE(m, e))) \o FrameWordsUnmasked(m, EnvE(m, e), m[e + 1], apb)

(* From the frame at e, that ra returns to, up to apb *)
RECURSIVE FrameWords(_, _, _, _)
FrameWords(m, e, ra, apb) ==
  IF e >= apb THEN << >>
  ELSE (IF ra.bit THEN << e + 2 >> ELSE << >>)
         \o Upward(e + 3, Lower(apb, EnvE(m, e)))
         \o FrameWords(m, EnvE(m, e), m[e + 1], apb)

(* mutant: what has changed since the last gc is not looked at *)
TrailedCellsNone(m, tr, b, oldest, lo) == << >>

(* The cells of stack and compacted heap that have changed since: they are *)
(* on the trail.                                                           *)
TrailedCells(m, tr, b, oldest, lo) ==
  SelectSeq([i \in 1 .. b - tr |-> m[tr + i - 1].v], LAMBDA a : oldest <= a /\ a < lo)

(* All words outside, from the newest choice point to mrccp *)
RECURSIVE Roots(_, _, _, _, _, _)
Roots(m, ap, b, tr, mrccp, lo) ==
  LET apb == SPBOf(m, b)
      e == EnvE(m, ap)
      next == PrevB(m, b)
  IN  Upward(ap + 2, Lower(apb, e)) \o FrameWords(m, e, m[ap + 1], apb)
        \o TrailedCells(m, tr, b, SPBOf(m, mrccp), lo)
        \o (IF next = 0 \/ next > mrccp THEN << >> ELSE Roots(m, apb, next, b + 4, mrccp, lo))

RECURSIVE MarkAll(_, _)
MarkAll(g, roots) ==
  IF roots = << >> THEN g ELSE MarkAll(MarkFrom(g, Head(roots)), Tail(roots))
------------------------------------------------------------------------------
(***************************************************************************)
(* Phase 3: the trail and the choice points are moved up, from mrccp to    *)
(* the newest; an entry for a cell that is not marked is left out.         *)
(***************************************************************************)
RECURSIVE MoveEntries(_, _, _)
MoveEntries(g, b, tr) ==
  LET w == g.m[b]
      keep == [g EXCEPT !.m = ((tr - 1) :> w) @@ @]
  IN  IF w.v >= b THEN [g |-> g, b |-> b - 3, tr |-> tr]
      ELSE IF ~ InRange(g, w.v) THEN MoveEntries(keep, b - 1, tr - 1)
      ELSE IF w.v \in g.marks THEN MoveEntries(REV(keep, tr - 1), b - 1, tr - 1)
      ELSE MoveEntries(g, b - 1, tr)

RECURSIVE MoveChoices(_, _, _, _, _)
MoveChoices(g, b, tr, apb, bit) ==
  LET hb == Min({a \in g.marks : a >= HBOf(g.m, b)})
      spb == [g.m[b + 2] EXCEPT !.bit = @ \/ bit]
      cp == << g.m[b], Ref(hb), spb, Word("b", apb) >>
      s == MoveEntries(REV([g EXCEPT !.m = Pushed(@, tr, cp)], tr + 1), b - 1, tr)
  IN  IF s.b < B THEN [g |-> s.g, B |-> tr, TR |-> s.tr]
      ELSE MoveChoices(s.g, s.b, s.tr - 4, tr, bit)
------------------------------------------------------------------------------
(***************************************************************************)
(* Phases 4 and 5                                                          *)
(***************************************************************************)

(* Downward: what points to h from outside and from above gets the new     *)
(* address, nh; the pointer at h, if it leads down, is turned round.       *)
RECURSIVE SweepDown(_, _, _)
SweepDown(g, h, nh) ==
  IF h < g.lo THEN g
  ELSE IF h \notin g.marks THEN SweepDown(g, h - 1, nh)
  ELSE LET v == IF g.m[h].t = "fence" THEN g.m[h].v ELSE 0
       IN  SweepDown(Rev(RevUpdate(g, h - v, nh - v), g.lo, h - v - 1, h - v, h - v),
                     h - v - 1, nh - v - 1)

(* Upward: the same for pointers from below, and the words are moved. *)
RECURSIVE SweepUp(_, _, _)
SweepUp(g, h, nh) ==
  IF h > g.hi THEN [g |-> g, nh |-> nh]
  ELSE IF h \notin g.marks THEN SweepUp(g, h + 1, nh)
  ELSE LET u == RevUpdate(g, h, nh)
           w == u.m[h]
           v == IF w.t = "fence" THEN w.v ELSE 0
           moved == CASE w.t = "fence" -> [u EXCEPT !.m = [a \in nh .. nh + v |-> @[h + a - nh]] @@ @]
                      [] w.t \in Pointer /\ w.v = h -> [u EXCEPT !.m[nh] = Word(w.t, nh)]
                      [] OTHER -> LET r == Rev(u, h + 1, g.hi, h, nh)
                                  IN  [r EXCEPT !.m[nh] = r.m[h]]
       IN  SweepUp(moved, h + v + 1, nh + v + 1)
------------------------------------------------------------------------------
(***************************************************************************)
(* gc: phase 1 finds the newest choice point with the compaction bit, or,  *)
(* when a global variable has been set, the oldest of all.                 *)
(***************************************************************************)
RECURSIVE Mrccp(_)
Mrccp(b) ==
  IF PrevB(mem, b) = 0 \/ (~ gvset /\ Compacted(mem, b)) THEN b ELSE Mrccp(PrevB(mem, b))

(* Nothing is taken to be compacted. *)
Whole == gvset \/ ~ Compacted(mem, Mrccp(B))

Gc ==
  LET mrccp == Mrccp(B)
      lo == IF Whole THEN HeapBase ELSE HBOf(mem, mrccp)
      m == (H :> Const) @@ ((TR - 1) :> Word("b", mrccp)) @@ mem
      start == Mark([m |-> m, marks |-> {}, n |-> 0, lo |-> lo, hi |-> H], Ref(H))
      marked == MarkAll(start, Roots(m, E, B, TR, mrccp, lo) \o << Global >>)
      p3 == MoveChoices(marked, mrccp, mrccp, PrevB(m, mrccp), ~ gvset)
      p4 == SweepDown(p3.g, H, lo + p3.g.n - 1)
      p5 == SweepUp(p4, lo, lo)
      h == p5.nh - 1
  IN  /\ called /\ gcs < MaxGcs
      /\ B' = p3.B /\ TR' = p3.TR /\ H' = h
      /\ mem' = Restricted(p5.g.m, SP, h, p3.TR)
      /\ HB' = HBOf(mem', B')
      /\ gvset' = FALSE
      /\ gcs' = gcs + 1
      /\ UNCHANGED <<frame, SPB, called, saved>>
------------------------------------------------------------------------------
Args == {<< Const, << >> >>, << Ref(H), << Ref(H) >> >>}
          \union {<< w, << >> >> : w \in Operands} \union {<< Ref(a), << >> >> : a \in Variables}

Next ==
  \/ Unify
  \/ \E again \in BOOLEAN, ny \in 0 .. MaxVars, arg \in Args : Call(again, ny, arg[1], arg[2])
  \/ Return
  \/ Try
  \/ \E last \in BOOLEAN : Fail(last)
  \/ Cut
  \/ RunCommand
  \/ RunGoal
  \/ EndRun
  \/ \E w \in Operands : GvSet(w)
  \/ Gc

Spec == Init /\ [][Next]_vars
------------------------------------------------------------------------------
(***************************************************************************)
(* What each choice point sees: memory as failing to it would leave it,    *)
(* the frames that would go on from there, the global variable.  View 0 is *)
(* what the program sees now.                                              *)
(***************************************************************************)
ViewMem(i) ==
  LET b == Chain(mem, B)[i]
  IN  IF i = 0 THEN mem
      ELSE [a \in {mem[c].v : c \in EntriesAt(TR, b)} |-> Ref(a)] @@ mem
ViewTop(i) == IF i = 0 THEN H ELSE HBOf(mem, Chain(mem, B)[i])
ViewRoots(i) ==
  {Global} \union
    IF i > 0 THEN Slots(mem, SPBOf(mem, Chain(mem, B)[i]))
    ELSE OwnSlots \union Callers(mem, E)

(* The registers and the choice points say the same, in order: the newest  *)
(* choice point holds HB and SPB, and older ones saw less of the heap and  *)
(* of the stack, whatever gc, a cut or gv_set did to them.                 *)
TypeOK ==
  LET chain == Chain(mem, B)
  IN  /\ DOMAIN mem = (SP .. H - 1) \union (TR .. GVBase - 1)
      /\ SP <= E /\ E < HeapBase /\ HeapBase <= H /\ H <= HeapBase + MaxHeap
      /\ TR <= B /\ chain[NChoices] = FirstB
      /\ HB = HBOf(mem, B) /\ SPB = SPBOf(mem, B)
      /\ ViewTop(1) <= H /\ SP <= SPB
      /\ \A i \in 1 .. NChoices - 1 : /\ HBOf(mem, chain[i + 1]) <= HBOf(mem, chain[i])
                                      /\ SPBOf(mem, chain[i]) <= SPBOf(mem, chain[i + 1])
      /\ \A a \in EntriesAt(TR, FirstB) : mem[a].v < H

(* All that the program, or a choice point that it will fail to, can reach *)
(* is still there: below its HB, after every unwinding of the trail, and   *)
(* so is what a global variable holds, which no failure takes back.        *)
NothingDangles ==
  \A i \in 0 .. NChoices :
    \A a \in Reach(ViewMem(i), ViewRoots(i)) : a = Global \/ a < ViewTop(i)
------------------------------------------------------------------------------
(***************************************************************************)
(* Two memories say the same of two sets of roots that lie at the same     *)
(* addresses when the words reached can be paired off.                     *)
(***************************************************************************)
Related(m, n, pairs) ==
  pairs \union UNION {IF m[p[1]].t \in Pointer
                      THEN {<< a, n[p[2]].v + (a - m[p[1]].v) >> : a \in Object(m, m[p[1]])}
                      ELSE {} : p \in pairs}

Matches(m, n, p) ==
  /\ p[2] \in DOMAIN n
  /\ n[p[2]].t = m[p[1]].t
  /\ n[p[2]].bit = m[p[1]].bit
  /\ m[p[1]].t \notin Pointer => n[p[2]].v = m[p[1]].v

RECURSIVE SameTerms(_, _, _)
SameTerms(m, n, pairs) ==
  /\ \A p \in pairs : Matches(m, n, p)
  /\ \A p, q \in pairs : p[1] < q[1] => p[2] < q[2]
  /\ \A p, q \in pairs : p[1] = q[1] => p[2] = q[2]
  /\ Related(m, n, pairs) = pairs \/ SameTerms(m, n, Related(m, n, pairs))

(* A gc changes nothing that a choice point, or the program, can see: the  *)
(* same terms in the same order, with the same sharing, above and below    *)
(* the same choice points, also where an earlier gc, a cut, a failure or a *)
(* global variable came between.                                           *)
GcPreserves ==
  [][gcs' # gcs =>
      /\ NChoices' = NChoices
      /\ \A i \in 0 .. NChoices :
           /\ ViewRoots(i)' = ViewRoots(i)
           /\ SameTerms(ViewMem(i), ViewMem(i)', {<< a, a >> : a \in ViewRoots(i)})]_vars

(* What is left after a gc of the whole heap is what can be reached. *)
AllRoots == UNION {ViewRoots(i) : i \in 0 .. NChoices}
GcCollects ==
  [][gcs' # gcs /\ Whole =>
      (HeapBase .. H - 1)' \subseteq Reach(mem, AllRoots)']_vars
==============================================================================
