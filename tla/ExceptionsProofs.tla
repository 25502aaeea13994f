--------------------------- MODULE ExceptionsProofs ---------------------------
(***************************************************************************)
(* Proofs about Exceptions, for every number of catches, choice points and *)
(* nested runs.                                                            *)
(***************************************************************************)
EXTENDS Exceptions, SequenceTheorems, TLAPS

(***************************************************************************)
(* The inductive invariant.  A run has a stretch of the choice points, the *)
(* positions lo + 1 .. hi.  What is said of a stretch of cs does not       *)
(* depend on what comes above hi.                                          *)
(***************************************************************************)
IsCatch(cs, i) == cs[i].kind = "catch"
ResetOf(cs, id, i) == cs[i].kind = "reset" /\ cs[i].id = id
CatchOf(cs, id, i) == IsCatch(cs, i) /\ cs[i].id = id

(* s are the catches whose goals were running when the choice points of    *)
(* the stretch were these: each of s has a choice point, has not exited,   *)
(* and was entered when the ones before it were running; every other catch *)
(* that left a choice point has exited, and left what resets its SWIG.     *)
Scopes(cs, s, lo, hi) ==
  /\ \A m \in 1 .. Len(s) : \E k \in lo + 1 .. hi - 1 : CatchOf(cs, s[m], k)
  /\ s # << >> =>
       \E k \in lo + 1 .. hi - 1 : CatchOf(cs, Last(s), k) /\ cs[k].cont = Front(s)
  /\ \A m \in 1 .. Len(s) : \A j \in lo + 1 .. hi : ~ ResetOf(cs, s[m], j)
  /\ \A k \in lo + 1 .. hi : IsCatch(cs, k) =>
       \/ \E m \in 1 .. Len(s) : s[m] = cs[k].id
       \/ \E j \in k + 1 .. hi : ResetOf(cs, cs[k].id, j)

(* catch0/4 leaves two choice points, the second for (Module:Goal ; !,     *)
(* fail), and a reset comes above those of its catch.  A choice point that *)
(* is gone back to knows the catches that were running.                    *)
LinkedAt(cs, lo, hi, i) ==
  /\ IsCatch(cs, i) /\ i < hi =>
       cs[i + 1].kind = "goal" /\ cs[i + 1].id = cs[i].id /\ cs[i].next = "throw"
  /\ cs[i].kind = "goal" => i - 1 \in lo + 1 .. hi /\ CatchOf(cs, cs[i].id, i - 1)
  /\ cs[i].kind = "reset" => \E k \in lo + 1 .. i - 1 : CatchOf(cs, cs[i].id, k)
  /\ cs[i].kind \in {"clauses", "catch"} => Scopes(cs, cs[i].cont, lo, i - 1)

Linked(cs, lo, hi) == \A i \in lo + 1 .. hi : LinkedAt(cs, lo, hi, i)

(* A run begins with its bottom. *)
Bottomed(cs, r, hi) ==
  /\ r.oldB + Bottoms(r.for) <= hi
  /\ \A i \in 1 .. Bottoms(r.for) : cs[r.oldB + i].kind = "bottom"

(* SWIG tells what the choice points tell. *)
SwigAgrees(cs, sw, lo, hi) ==
  \A i \in lo + 1 .. hi : IsCatch(cs, i) =>
    (sw[cs[i].id] = 2 <=> \E j \in i + 1 .. hi : ResetOf(cs, cs[i].id, j))

(* A run that waits for one that it called *)
Waits(cs, sw, r, above) ==
  /\ Bottomed(cs, r, above.oldB)
  /\ Linked(cs, r.oldB, above.oldB)
  /\ ~ IsCatch(cs, above.oldB)
  /\ Scopes(cs, above.cont, r.oldB, above.oldB)
  /\ SwigAgrees(cs, sw, r.oldB, above.oldB)
  /\ \A i \in r.oldB + 1 .. above.oldB : IsCatch(cs, i) => r.c22

(* No two choice points of one kind are for one catch, and no reset is     *)
(* left of a catch that is gone.                                           *)
Distinct(cs) ==
  /\ \A i \in 1 .. Len(cs) : IsCatch(cs, i) => cs[i].id \in CatchId
  /\ \A i, j \in 1 .. Len(cs) :
       cs[i].kind \in {"catch", "reset"} /\ cs[i].kind = cs[j].kind /\ cs[i].id = cs[j].id => i = j
  /\ \A j \in 1 .. Len(cs) :
       cs[j].kind = "reset" => \E k \in 1 .. j - 1 : CatchOf(cs, cs[j].id, k)

(* A throw is on its way through its run: k is the choice point of the     *)
(* catch that will handle it.  SWIG says so, of the catches above it that  *)
(* they have exited, and of those below what it should.                    *)
Target(cs, sw, k) ==
  /\ k \in OldB + 1 .. Len(cs)
  /\ CatchOf(cs, Last(thrown.scopes), k) /\ cs[k].cont = Front(thrown.scopes)
  /\ cs[k].next = "throw" \/ (k = Len(cs) /\ pc = "fail")
  /\ sw[cs[k].id] = 1
  /\ \A i \in k + 1 .. Len(cs) : IsCatch(cs, i) =>
       /\ sw[cs[i].id] = 2
       /\ cs[i].next = "throw" \/ pc = "throw"
  /\ SwigAgrees(cs, sw, OldB, k - 1)

OnItsWay ==
  /\ unwinding
  /\ IF thrown.scopes = << >>
     THEN /\ thrown.from = Run.for
          /\ \A i \in OldB + 1 .. Len(choices) : IsCatch(choices, i) =>
               /\ swig[choices[i].id] = 2
               /\ \/ choices[i].next = "throw" \/ pc = "throw"
                  \/ Run.for = "rungoal" /\ i = OldB + 2
     ELSE \E k \in OldB + 1 .. Len(choices) : Target(choices, swig, k)

InFlight == pc = "throw" \/ (pc = "fail" /\ IsCatch(choices, Len(choices)))

(* The runs that wait, and the order of all *)
OldRuns(cs, sw, rs) ==
  /\ rs[1].oldB = 0 /\ rs[1].for = "command"
  /\ \A q, r \in 1 .. Len(rs) : q <= r => rs[q].oldB <= rs[r].oldB
  /\ \A r \in 1 .. Len(rs) - 1 : Waits(cs, sw, rs[r], rs[r + 1])

(* The newest run, whatever the emulator is doing *)
NewestRun(cs, r) ==
  /\ Bottomed(cs, r, Len(cs))
  /\ Linked(cs, r.oldB, Len(cs))
  /\ \A i \in r.oldB + 1 .. Len(cs) : IsCatch(cs, i) => r.c22

(* ... and when no throw is on its way *)
Settled ==
  /\ ~ IsCatch(choices, Len(choices))
  /\ SwigAgrees(choices, swig, OldB, Len(choices))
  /\ pc = "run" => Scopes(choices, cont, OldB, Len(choices))
  /\ unwinding /\ Held => pc = "fail" /\ thrown.scopes = << >> /\ Top.kind = "bottom"

Structure ==
  /\ OldRuns(choices, swig, runs)
  /\ NewestRun(choices, Run)
  /\ Distinct(choices)
  /\ IF InFlight THEN OnItsWay ELSE Settled

IInv ==
  /\ TypeOK
  /\ InnermostCatches
  /\ astray => pc = "fail" /\ ~ Held
  /\ ~ astray => Structure

------------------------------------------------------------------------------
(***************************************************************************)
(* Sequences                                                               *)
(***************************************************************************)
LEMMA FrontProperties ==
  ASSUME NEW S, NEW s \in Seq(S), s # << >>
  PROVE  /\ Len(s) \in Nat \ {0}
         /\ Front(s) \in Seq(S)
         /\ Len(Front(s)) = Len(s) - 1
         /\ \A i \in 1 .. Len(s) - 1 : Front(s)[i] = s[i]
         /\ Last(s) = s[Len(s)] /\ Last(s) \in S
  <1>1. Len(s) \in Nat /\ Len(s) # 0
    BY EmptySeq
  <1>2. \A i \in 1 .. Len(s) : s[i] \in S
    BY ElementOfSeq
  <1>3. s[Len(s)] \in S
    BY <1>1, <1>2
  <1>4. ASSUME NEW n \in Nat, n = Len(s) - 1
        PROVE  /\ SubSeq(s, 1, n) \in Seq(S)
               /\ Len(SubSeq(s, 1, n)) = n
               /\ \A i \in 1 .. n : SubSeq(s, 1, n)[i] = s[i]
    BY <1>1, <1>2, <1>4, SubSeqProperties
  <1>5. Len(s) - 1 \in Nat
    BY <1>1
  <1>6. /\ Front(s) \in Seq(S)
        /\ Len(Front(s)) = Len(s) - 1
        /\ \A i \in 1 .. Len(s) - 1 : Front(s)[i] = s[i]
    BY <1>4, <1>5 DEF Front
  <1>. QED BY <1>1, <1>3, <1>6 DEF Last

LEMMA UptoProperties ==
  ASSUME NEW S, NEW s \in Seq(S), NEW n \in 0 .. Len(s)
  PROVE  /\ SubSeq(s, 1, n) \in Seq(S)
         /\ Len(SubSeq(s, 1, n)) = n
         /\ \A i \in 1 .. n : SubSeq(s, 1, n)[i] = s[i]
  <1>1. Len(s) \in Nat /\ n \in Nat /\ n <= Len(s)
    BY LenProperties
  <1>2. \A i \in 1 .. n : s[i] \in S
    BY <1>1, ElementOfSeq
  <1>. QED BY <1>1, <1>2, SubSeqProperties

LEMMA FrontOfAppend ==
  ASSUME NEW S, NEW s \in Seq(S), NEW e \in S
  PROVE  /\ Append(s, e) # << >>
         /\ Front(Append(s, e)) = s
         /\ Last(Append(s, e)) = e
  <1>. DEFINE t == Append(s, e)
  <1>1. /\ t \in Seq(S) /\ t # << >> /\ Len(t) = Len(s) + 1
        /\ \A i \in 1 .. Len(s) : t[i] = s[i]
        /\ t[Len(s) + 1] = e
    BY AppendProperties
  <1>2. Len(s) \in Nat
    BY LenProperties
  <1>. HIDE DEF t
  <1>5. /\ Front(t) \in Seq(S) /\ Len(Front(t)) = Len(t) - 1
        /\ \A i \in 1 .. Len(t) - 1 : Front(t)[i] = t[i]
        /\ Last(t) = t[Len(t)]
    BY <1>1, FrontProperties, Zenon
  <1>3. /\ Front(t) \in Seq(S) /\ Len(Front(t)) = Len(s)
        /\ \A i \in 1 .. Len(s) : Front(t)[i] = s[i]
        /\ Last(t) = e
    BY <1>1, <1>2, <1>5
  <1>4. Front(t) = s
    BY <1>3, SeqEqual
  <1>. QED BY <1>1, <1>3, <1>4 DEF t

------------------------------------------------------------------------------
(***************************************************************************)
(* What is said of a stretch depends on the stretch alone.                 *)
(***************************************************************************)
SameUpto(cs, ds, n) == \A i \in 1 .. n : ds[i] = cs[i]

LEMMA ScopesKept ==
  ASSUME NEW cs, NEW ds, NEW s, NEW lo \in Nat, NEW hi \in Int,
         SameUpto(cs, ds, hi), Scopes(cs, s, lo, hi)
  PROVE  Scopes(ds, s, lo, hi)
  <1>. \A i \in lo + 1 .. hi : ds[i] = cs[i]
    BY DEF SameUpto
  <1>. \A k \in lo + 1 .. hi : \A i \in k + 1 .. hi : i \in lo + 1 .. hi
    OBVIOUS
  <1>. \A k \in lo + 1 .. hi - 1 : k \in lo + 1 .. hi
    OBVIOUS
  <1>1. \A m \in 1 .. Len(s) : \E k \in lo + 1 .. hi - 1 : CatchOf(ds, s[m], k)
    BY DEF Scopes, CatchOf, IsCatch
  <1>2. s # << >> =>
          \E k \in lo + 1 .. hi - 1 : CatchOf(ds, Last(s), k) /\ ds[k].cont = Front(s)
    BY DEF Scopes, CatchOf, IsCatch
  <1>3. \A m \in 1 .. Len(s) : \A j \in lo + 1 .. hi : ~ ResetOf(ds, s[m], j)
    BY DEF Scopes, ResetOf
  <1>4. ASSUME NEW k \in lo + 1 .. hi, IsCatch(ds, k)
        PROVE  \/ \E m \in 1 .. Len(s) : s[m] = ds[k].id
               \/ \E j \in k + 1 .. hi : ResetOf(ds, ds[k].id, j)
    BY <1>4 DEF Scopes, IsCatch, ResetOf
  <1>. QED BY <1>1, <1>2, <1>3, <1>4 DEF Scopes

(* ... and a stretch may end lower. *)
LEMMA LinkedKept ==
  ASSUME NEW cs, NEW ds, NEW lo \in Nat, NEW hi \in Nat, NEW n \in Nat, n <= hi,
         SameUpto(cs, ds, n), Linked(cs, lo, hi)
  PROVE  Linked(ds, lo, n)
  <1>. SUFFICES ASSUME NEW i \in lo + 1 .. n
                PROVE  LinkedAt(ds, lo, n, i)
    BY DEF Linked
  <1>0. i \in lo + 1 .. hi /\ i \in Nat /\ ds[i] = cs[i]
    BY DEF SameUpto
  <1>1. IsCatch(ds, i) /\ i < n =>
          ds[i + 1].kind = "goal" /\ ds[i + 1].id = ds[i].id /\ ds[i].next = "throw"
    BY <1>0 DEF Linked, LinkedAt, SameUpto, IsCatch
  <1>2. ds[i].kind = "goal" => i - 1 \in lo + 1 .. n /\ CatchOf(ds, ds[i].id, i - 1)
    <2>. SUFFICES ASSUME cs[i].kind = "goal"
                  PROVE  i - 1 \in lo + 1 .. n /\ CatchOf(ds, ds[i].id, i - 1)
      BY <1>0
    <2>1. i - 1 \in lo + 1 .. hi /\ CatchOf(cs, cs[i].id, i - 1)
      BY <1>0 DEF Linked, LinkedAt
    <2>2. i - 1 \in 1 .. n
      BY <1>0, <2>1
    <2>. QED BY <1>0, <2>1, <2>2 DEF CatchOf, IsCatch, SameUpto
  <1>3. ds[i].kind = "reset" => \E k \in lo + 1 .. i - 1 : CatchOf(ds, ds[i].id, k)
    <2>. SUFFICES ASSUME cs[i].kind = "reset"
                  PROVE  \E k \in lo + 1 .. i - 1 : CatchOf(ds, ds[i].id, k)
      BY <1>0
    <2>1. PICK k \in lo + 1 .. i - 1 : CatchOf(cs, cs[i].id, k)
      BY <1>0 DEF Linked, LinkedAt
    <2>2. k \in 1 .. n
      BY <1>0
    <2>. QED BY <1>0, <2>1, <2>2 DEF CatchOf, IsCatch, SameUpto
  <1>4. ds[i].kind \in {"clauses", "catch"} => Scopes(ds, ds[i].cont, lo, i - 1)
    <2>. SUFFICES ASSUME cs[i].kind \in {"clauses", "catch"}
                  PROVE  Scopes(ds, cs[i].cont, lo, i - 1)
      BY <1>0
    <2>1. Scopes(cs, cs[i].cont, lo, i - 1)
      BY <1>0 DEF Linked, LinkedAt
    <2>2. SameUpto(cs, ds, i - 1)
      BY <1>0 DEF SameUpto
    <2>. QED BY <1>0, <2>1, <2>2, ScopesKept
  <1>. QED BY <1>1, <1>2, <1>3, <1>4 DEF LinkedAt

(* ... or higher *)
LEMMA LinkedExtended ==
  ASSUME NEW cs, NEW ds, NEW lo \in Nat, NEW hi \in Nat, lo <= hi,
         SameUpto(cs, ds, hi), Linked(cs, lo, hi), LinkedAt(ds, lo, hi + 1, hi + 1),
         hi > lo /\ IsCatch(cs, hi) =>
           ds[hi + 1].kind = "goal" /\ ds[hi + 1].id = cs[hi].id /\ cs[hi].next = "throw"
  PROVE  Linked(ds, lo, hi + 1)
  <1>. SUFFICES ASSUME NEW i \in lo + 1 .. hi
                PROVE  LinkedAt(ds, lo, hi + 1, i)
    BY DEF Linked
  <1>1. Linked(ds, lo, hi)
    BY LinkedKept
  <1>2. LinkedAt(ds, lo, hi, i)
    BY <1>1 DEF Linked
  <1>3. ds[i] = cs[i]
    BY DEF SameUpto
  <1>4. CASE i < hi
    BY <1>2, <1>4 DEF LinkedAt
  <1>5. CASE i = hi
    BY <1>2, <1>3, <1>5 DEF LinkedAt, IsCatch
  <1>. QED BY <1>4, <1>5

LEMMA ScopesExtended ==
  ASSUME NEW cs, NEW ds, NEW s, NEW lo \in Nat, NEW hi \in Nat,
         SameUpto(cs, ds, hi), Scopes(cs, s, lo, hi), ds[hi + 1].kind \notin {"catch", "reset"}
  PROVE  Scopes(ds, s, lo, hi + 1)
  <1>. DEFINE top == hi + 1
  <1>0. Scopes(ds, s, lo, hi) /\ \A k \in lo + 1 .. hi - 1 : k \in lo + 1 .. top - 1
    BY ScopesKept
  <1>1. \A m \in 1 .. Len(s) : \E k \in lo + 1 .. top - 1 : CatchOf(ds, s[m], k)
    BY <1>0 DEF Scopes
  <1>2. s # << >> =>
          \E k \in lo + 1 .. top - 1 : CatchOf(ds, Last(s), k) /\ ds[k].cont = Front(s)
    BY <1>0 DEF Scopes
  <1>3. ASSUME NEW m \in 1 .. Len(s), NEW j \in lo + 1 .. top
        PROVE  ~ ResetOf(ds, s[m], j)
    <2>1. CASE j \in lo + 1 .. hi
      BY <1>0, <2>1 DEF Scopes
    <2>2. CASE j = hi + 1
      BY <2>2 DEF ResetOf
    <2>. QED BY <2>1, <2>2
  <1>4. ASSUME NEW k \in lo + 1 .. top, IsCatch(ds, k)
        PROVE  \/ \E m \in 1 .. Len(s) : s[m] = ds[k].id
               \/ \E j \in k + 1 .. top : ResetOf(ds, ds[k].id, j)
    <2>1. k \in lo + 1 .. hi
      BY <1>4 DEF IsCatch
    <2>. QED BY <1>0, <1>4, <2>1 DEF Scopes
  <1>. HIDE DEF top
  <1>5. Scopes(ds, s, lo, top)
    BY <1>1, <1>2, <1>3, <1>4 DEF Scopes
  <1>. QED BY <1>5 DEF top

LEMMA SwigAgreesExtended ==
  ASSUME NEW cs, NEW ds, NEW sw, NEW lo \in Nat, NEW hi \in Nat,
         SameUpto(cs, ds, hi), SwigAgrees(cs, sw, lo, hi), ds[hi + 1].kind \notin {"catch", "reset"}
  PROVE  SwigAgrees(ds, sw, lo, hi + 1)
  <1>. SUFFICES ASSUME NEW i \in lo + 1 .. hi + 1, IsCatch(ds, i)
                PROVE  sw[ds[i].id] = 2 <=> \E j \in i + 1 .. hi + 1 : ResetOf(ds, ds[i].id, j)
    BY DEF SwigAgrees
  <1>1. i \in lo + 1 .. hi /\ ds[i] = cs[i]
    BY DEF IsCatch, SameUpto
  <1>2. \A j \in i + 1 .. hi : ds[j] = cs[j]
    BY <1>1 DEF SameUpto
  <1>3. sw[ds[i].id] = 2 <=> \E j \in i + 1 .. hi : ResetOf(ds, ds[i].id, j)
    BY <1>1, <1>2 DEF SwigAgrees, IsCatch, ResetOf
  <1>4. ~ ResetOf(ds, ds[i].id, hi + 1)
    BY DEF ResetOf
  <1>5. \A j \in i + 1 .. hi + 1 : j \in i + 1 .. hi \/ j = hi + 1
    BY <1>1
  <1>6. \A j \in i + 1 .. hi : j \in i + 1 .. hi + 1
    BY <1>1
  <1>. QED BY <1>3, <1>4, <1>5, <1>6

(***************************************************************************)
(* The innermost of the running catches: the others had been entered when  *)
(* it was, and those above it have exited.                                 *)
(***************************************************************************)
Innermost(cs, s, lo, hi, k) ==
  /\ CatchOf(cs, Last(s), k) /\ cs[k].cont = Front(s) /\ cs[k].next = "throw"
  /\ cs[k + 1].kind = "goal" /\ cs[k + 1].id = Last(s)
  /\ Scopes(cs, Front(s), lo, k - 1)
  /\ \A m \in 1 .. Len(s) - 1 : Front(s)[m] = s[m] /\ s[m] # Last(s)
  /\ \A i \in k + 1 .. hi : IsCatch(cs, i) => \E j \in i + 1 .. hi : ResetOf(cs, cs[i].id, j)

LEMMA InnermostExists ==
  ASSUME NEW cs, NEW s \in Seq(CatchId), s # << >>, NEW lo \in Nat, NEW hi \in Nat,
         Len(cs) \in Nat, hi <= Len(cs), Distinct(cs), Linked(cs, lo, hi), Scopes(cs, s, lo, hi)
  PROVE  \E k \in lo + 1 .. hi - 1 : Innermost(cs, s, lo, hi, k)
  <1>1. PICK k \in lo + 1 .. hi - 1 : CatchOf(cs, Last(s), k) /\ cs[k].cont = Front(s)
    BY DEF Scopes
  <1>2. k \in lo + 1 .. hi /\ k < hi /\ k \in 1 .. Len(cs)
    BY <1>1
  <1>3. LinkedAt(cs, lo, hi, k)
    BY <1>2 DEF Linked
  <1>4. /\ cs[k].next = "throw" /\ cs[k + 1].kind = "goal" /\ cs[k + 1].id = Last(s)
        /\ Scopes(cs, Front(s), lo, k - 1)
    BY <1>1, <1>2, <1>3 DEF LinkedAt, CatchOf, IsCatch
  <1>5. /\ Len(s) \in Nat /\ Len(Front(s)) = Len(s) - 1
        /\ \A m \in 1 .. Len(s) - 1 : Front(s)[m] = s[m]
        /\ Last(s) = s[Len(s)]
    BY FrontProperties
  <1>6. ASSUME NEW m \in 1 .. Len(s) - 1
        PROVE  \E j \in lo + 1 .. k - 2 : CatchOf(cs, s[m], j)
    BY <1>4, <1>5, <1>6 DEF Scopes
  <1>7. ASSUME NEW i \in 1 .. Len(cs), NEW j \in 1 .. Len(cs), NEW id,
               CatchOf(cs, id, i), CatchOf(cs, id, j)
        PROVE  i = j
    BY <1>7 DEF Distinct, CatchOf, IsCatch
  <1>8. ASSUME NEW m \in 1 .. Len(s) - 1
        PROVE  s[m] # Last(s)
    <2>1. PICK j \in lo + 1 .. k - 2 : CatchOf(cs, s[m], j)
      BY <1>6
    <2>2. j \in 1 .. Len(cs) /\ j # k
      BY <1>2
    <2>. QED BY <1>1, <1>2, <1>7, <2>1, <2>2
  <1>9. ASSUME NEW i \in k + 1 .. hi, IsCatch(cs, i)
        PROVE  \E j \in i + 1 .. hi : ResetOf(cs, cs[i].id, j)
    <2>1. i \in lo + 1 .. hi /\ i \in 1 .. Len(cs) /\ i # k
      BY <1>2
    <2>2. CatchOf(cs, cs[i].id, i)
      BY <1>9 DEF CatchOf
    <2>3. ASSUME NEW m \in 1 .. Len(s), s[m] = cs[i].id
          PROVE  FALSE
      <3>1. CASE m = Len(s)
        BY <1>1, <1>2, <1>5, <1>7, <2>1, <2>2, <2>3, <3>1
      <3>2. CASE m # Len(s)
        <4>1. m \in 1 .. Len(s) - 1
          BY <1>5, <3>2
        <4>2. PICK j \in lo + 1 .. k - 2 : CatchOf(cs, s[m], j)
          BY <1>6, <4>1
        <4>3. j \in 1 .. Len(cs) /\ j # i
          BY <1>2
        <4>. QED BY <1>7, <2>1, <2>2, <2>3, <4>2, <4>3
      <3>. QED BY <3>1, <3>2
    <2>. QED BY <1>9, <2>1, <2>3 DEF Scopes
  <1>. QED BY <1>1, <1>4, <1>5, <1>8, <1>9 DEF Innermost

LEMMA BottomedKept ==
  ASSUME NEW cs, NEW ds, NEW r, r.oldB \in Nat, NEW hi \in Nat, NEW n \in Nat, 
         Bottomed(cs, r, hi), r.oldB + Bottoms(r.for) <= n,
         SameUpto(cs, ds, r.oldB + Bottoms(r.for))
  PROVE  Bottomed(ds, r, n)
  BY DEF Bottomed, SameUpto, Bottoms

LEMMA SwigAgreesKept ==
  ASSUME NEW cs, NEW ds, NEW sw, NEW sv, NEW lo \in Nat, NEW hi \in Nat,
         SameUpto(cs, ds, hi), SwigAgrees(cs, sw, lo, hi),
         \A i \in lo + 1 .. hi : IsCatch(cs, i) => sv[cs[i].id] = sw[cs[i].id]
  PROVE  SwigAgrees(ds, sv, lo, hi)
  <1>. \A i \in lo + 1 .. hi : ds[i] = cs[i]
    BY DEF SameUpto
  <1>. \A k \in lo + 1 .. hi : \A i \in k + 1 .. hi : i \in lo + 1 .. hi
    OBVIOUS
  <1>. QED BY DEF SwigAgrees, IsCatch, ResetOf

LEMMA DistinctKept ==
  ASSUME NEW cs, NEW ds, Len(cs) \in Nat, Len(ds) \in Nat, Len(ds) <= Len(cs),
         SameUpto(cs, ds, Len(ds)), Distinct(cs)
  PROVE  Distinct(ds)
  <1>1. \A i \in 1 .. Len(ds) : i \in 1 .. Len(cs) /\ ds[i] = cs[i]
    BY DEF SameUpto
  <1>2. \A j \in 1 .. Len(ds) : \A k \in 1 .. j - 1 : k \in 1 .. Len(ds)
    OBVIOUS
  <1>3. \A i, j \in 1 .. Len(ds) :
          ds[i].kind \in {"catch", "reset"} /\ ds[i].kind = ds[j].kind /\ ds[i].id = ds[j].id => i = j
    BY <1>1 DEF Distinct
  <1>4. \A j \in 1 .. Len(ds) :
          ds[j].kind = "reset" => \E k \in 1 .. j - 1 : CatchOf(ds, ds[j].id, k)
    BY <1>1, <1>2 DEF Distinct, CatchOf, IsCatch
  <1>5. \A i \in 1 .. Len(ds) : IsCatch(ds, i) => ds[i].id \in CatchId
    BY <1>1 DEF Distinct, IsCatch
  <1>. QED BY <1>3, <1>4, <1>5 DEF Distinct

------------------------------------------------------------------------------
(***************************************************************************)
(* Types, and the runs that wait                                           *)
(***************************************************************************)
ChoiceType == [kind : {"bottom", "clauses", "catch", "goal", "reset"},
               id : CatchId \union {0}, cont : Seq(CatchId),
               next : {"throw", "handler"}]
RunType == [oldB : Nat, for : {"command", "rungoal"}, c22 : BOOLEAN, cont : Seq(CatchId)]

LEMMA TypeFacts ==
  ASSUME TypeOK
  PROVE  /\ choices \in Seq(ChoiceType)
         /\ Len(choices) \in Nat /\ DOMAIN choices = 1 .. Len(choices)
         /\ \A i \in 1 .. Len(choices) : choices[i] \in ChoiceType
         /\ runs \in Seq(RunType) /\ runs # << >>
         /\ Len(runs) \in Nat /\ Len(runs) >= 1 /\ DOMAIN runs = 1 .. Len(runs)
         /\ \A r \in 1 .. Len(runs) : runs[r] \in RunType
         /\ Run \in RunType /\ OldB \in Nat
         /\ cont \in Seq(CatchId) /\ thrown.scopes \in Seq(CatchId)
  <1>1. choices \in Seq(ChoiceType) /\ runs \in Seq(RunType) /\ runs # << >>
    BY DEF TypeOK, ChoiceType, RunType
  <1>2. /\ Len(choices) \in Nat /\ DOMAIN choices = 1 .. Len(choices)
        /\ \A i \in 1 .. Len(choices) : choices[i] \in ChoiceType
    BY <1>1, LenProperties, ElementOfSeq
  <1>3. /\ Len(runs) \in Nat /\ DOMAIN runs = 1 .. Len(runs)
        /\ \A r \in 1 .. Len(runs) : runs[r] \in RunType
    BY <1>1, LenProperties, ElementOfSeq
  <1>4. Len(runs) >= 1
    BY <1>1, <1>3, EmptySeq
  <1>5. Run \in RunType /\ OldB \in Nat
    BY <1>3, <1>4 DEF Run, OldB, RunType
  <1>6. cont \in Seq(CatchId) /\ thrown.scopes \in Seq(CatchId)
    BY DEF TypeOK
  <1>. QED BY <1>1, <1>2, <1>3, <1>4, <1>5, <1>6

LEMMA WaitsKept ==
  ASSUME NEW cs, NEW ds, NEW sw, NEW sv, NEW r \in RunType, NEW above \in RunType,
         r.oldB <= above.oldB, SameUpto(cs, ds, above.oldB), Waits(cs, sw, r, above),
         \A i \in 1 .. above.oldB : IsCatch(cs, i) => sv[cs[i].id] = sw[cs[i].id]
  PROVE  Waits(ds, sv, r, above)
  <1>1. r.oldB \in Nat /\ above.oldB \in Nat
    BY DEF RunType
  <1>2. Bottomed(ds, r, above.oldB)
    <2>1. Bottomed(cs, r, above.oldB)
      BY DEF Waits
    <2>2. Bottoms(r.for) \in Nat
      BY DEF Bottoms
    <2>3. r.oldB + Bottoms(r.for) <= above.oldB
      BY <2>1 DEF Bottomed
    <2>4. \A i \in 1 .. r.oldB + Bottoms(r.for) : i \in 1 .. above.oldB
      BY <1>1, <2>2, <2>3
    <2>5. SameUpto(cs, ds, r.oldB + Bottoms(r.for))
      BY <2>4 DEF SameUpto
    <2>. QED BY <1>1, <2>1, <2>3, <2>5, BottomedKept
  <1>3. Linked(ds, r.oldB, above.oldB)
    BY <1>1, LinkedKept DEF Waits
  <1>4. above.oldB \in 1 .. above.oldB
    BY <1>1 DEF Waits, Bottomed, Bottoms
  <1>5. ~ IsCatch(ds, above.oldB)
    BY <1>4 DEF Waits, IsCatch, SameUpto
  <1>6. Scopes(ds, above.cont, r.oldB, above.oldB)
    BY <1>1, ScopesKept DEF Waits
  <1>7. \A i \in r.oldB + 1 .. above.oldB : i \in 1 .. above.oldB
    BY <1>1
  <1>8. SwigAgrees(ds, sv, r.oldB, above.oldB)
    BY <1>1, <1>7, SwigAgreesKept DEF Waits
  <1>9. \A i \in r.oldB + 1 .. above.oldB : IsCatch(ds, i) => r.c22
    BY <1>7 DEF Waits, IsCatch, SameUpto
  <1>. QED BY <1>2, <1>3, <1>5, <1>6, <1>8, <1>9 DEF Waits

LEMMA OldRunsKept ==
  ASSUME NEW cs, NEW ds, NEW sw, NEW sv, NEW rs \in Seq(RunType), rs # << >>,
         OldRuns(cs, sw, rs), SameUpto(cs, ds, rs[Len(rs)].oldB),
         \A i \in 1 .. rs[Len(rs)].oldB : IsCatch(cs, i) => sv[cs[i].id] = sw[cs[i].id]
  PROVE  OldRuns(ds, sv, rs)
  <1>1. Len(rs) \in Nat /\ Len(rs) # 0
    BY EmptySeq
  <1>2. \A r \in 1 .. Len(rs) : rs[r] \in RunType
    BY ElementOfSeq
  <1>3. ASSUME NEW r \in 1 .. Len(rs) - 1
        PROVE  Waits(ds, sv, rs[r], rs[r + 1])
    <2>1. r \in 1 .. Len(rs) /\ r + 1 \in 1 .. Len(rs) /\ Len(rs) \in 1 .. Len(rs) /\ r <= r + 1 /\ r + 1 <= Len(rs)
      BY <1>1
    <2>2. rs[r].oldB <= rs[r + 1].oldB /\ rs[r + 1].oldB <= rs[Len(rs)].oldB
      BY <2>1 DEF OldRuns
    <2>3. /\ rs[r] \in RunType /\ rs[r + 1] \in RunType
          /\ rs[r + 1].oldB \in Nat /\ rs[Len(rs)].oldB \in Nat
      BY <2>1, <1>2 DEF RunType
    <2>4. \A i \in 1 .. rs[r + 1].oldB : i \in 1 .. rs[Len(rs)].oldB
      BY <2>2, <2>3
    <2>5. SameUpto(cs, ds, rs[r + 1].oldB)
      BY <2>4 DEF SameUpto
    <2>6. Waits(cs, sw, rs[r], rs[r + 1])
      BY DEF OldRuns
    <2>. QED BY <2>2, <2>3, <2>4, <2>5, <2>6, WaitsKept
  <1>. QED BY <1>3 DEF OldRuns

(* Only whether it has executed catch22 changes in a run. *)
LEMMA OldRunsUpdate ==
  ASSUME NEW cs, NEW sw, NEW rs \in Seq(RunType), rs # << >>, NEW c \in BOOLEAN,
         OldRuns(cs, sw, rs)
  PROVE  LET ts == [rs EXCEPT ![Len(rs)].c22 = c]
         IN  /\ ts \in Seq(RunType) /\ ts # << >> /\ Len(ts) = Len(rs)
             /\ ts[Len(ts)] = [rs[Len(rs)] EXCEPT !.c22 = c]
             /\ OldRuns(cs, sw, ts)
  <1>. DEFINE n == Len(rs)
              e == [rs[n] EXCEPT !.c22 = c]
              ts == [rs EXCEPT ![n] = e]
  <1>1. n \in Nat /\ n # 0 /\ rs \in [1 .. n -> RunType]
    BY EmptySeq, LenProperties
  <1>2. n \in 1 .. n /\ rs[n] \in RunType
    BY <1>1
  <1>3. /\ e \in RunType /\ e.oldB = rs[n].oldB /\ e.for = rs[n].for /\ e.cont = rs[n].cont
        /\ e.c22 = c
    BY <1>2 DEF RunType
  <1>4. ts = [rs EXCEPT ![n].c22 = c]
    BY <1>1, <1>2
  <1>. HIDE DEF e
  <1>5. ts \in Seq(RunType) /\ Len(ts) = n /\ \A r \in 1 .. n : ts[r] = IF r = n THEN e ELSE rs[r]
    BY <1>2, <1>3, ExceptSeq
  <1>6. ts # << >>
    BY <1>1, <1>5, EmptySeq
  <1>7. \A r \in 1 .. n : ts[r].oldB = rs[r].oldB /\ ts[r].for = rs[r].for /\ ts[r].cont = rs[r].cont
    BY <1>3, <1>5
  <1>8. ASSUME NEW r \in 1 .. n - 1
        PROVE  Waits(cs, sw, ts[r], ts[r + 1])
    <2>1. Waits(cs, sw, rs[r], rs[r + 1])
      BY DEF OldRuns
    <2>0. n \in Nat
      BY <1>1
    <2>2. r \in 1 .. n /\ r + 1 \in 1 .. n /\ r # n
      BY <2>0
    <2>3. ts[r] = rs[r] /\ ts[r + 1].oldB = rs[r + 1].oldB /\ ts[r + 1].cont = rs[r + 1].cont
      BY <1>5, <1>7, <2>2
    <2>. HIDE DEF ts
    <2>. QED BY <2>1, <2>3 DEF Waits
  <1>9. 1 \in 1 .. n
    BY <1>1
  <1>10. /\ ts[1].oldB = 0 /\ ts[1].for = "command"
         /\ \A q, r \in 1 .. n : q <= r => ts[q].oldB <= ts[r].oldB
    BY <1>7, <1>9 DEF OldRuns
  <1>11. OldRuns(cs, sw, ts)
    <2>. HIDE DEF ts, n
    <2>. QED BY <1>5, <1>8, <1>10 DEF OldRuns
  <1>. QED BY <1>4, <1>5, <1>6, <1>11, <1>2 DEF e

LEMMA OldRunsCall ==
  ASSUME NEW cs, NEW sw, NEW rs \in Seq(RunType), rs # << >>, NEW r \in RunType,
         OldRuns(cs, sw, rs), rs[Len(rs)].oldB <= r.oldB, Waits(cs, sw, rs[Len(rs)], r)
  PROVE  OldRuns(cs, sw, Append(rs, r))
  <1>. DEFINE n == Len(rs)
              ts == Append(rs, r)
  <1>1. n \in Nat /\ n # 0
    BY EmptySeq
  <1>2. \A q \in 1 .. n : rs[q] \in RunType
    BY ElementOfSeq
  <1>3. Len(ts) = n + 1 /\ ts[n + 1] = r /\ \A q \in 1 .. n : ts[q] = rs[q]
    BY AppendProperties
  <1>. HIDE DEF ts
  <1>4. ts[1].oldB = 0 /\ ts[1].for = "command"
    BY <1>1, <1>3 DEF OldRuns
  <1>5. ASSUME NEW q \in 1 .. n
        PROVE  rs[q].oldB <= r.oldB
    <2>1. q \in 1 .. n /\ n \in 1 .. n /\ q <= n
      BY <1>1
    <2>2. rs[q].oldB <= rs[n].oldB
      BY <2>1 DEF OldRuns
    <2>3. rs[q].oldB \in Nat /\ rs[n].oldB \in Nat /\ r.oldB \in Nat
      BY <2>1, <1>2 DEF RunType
    <2>. QED BY <2>2, <2>3
  <1>6. \A p, q \in 1 .. n + 1 : p <= q => ts[p].oldB <= ts[q].oldB
    <2>. SUFFICES ASSUME NEW p \in 1 .. n + 1, NEW q \in 1 .. n + 1, p <= q
                  PROVE  ts[p].oldB <= ts[q].oldB
      OBVIOUS
    <2>1. CASE q \in 1 .. n
      BY <1>1, <1>3, <2>1 DEF OldRuns
    <2>2. CASE p \in 1 .. n /\ q = n + 1
      BY <1>1, <1>3, <1>5, <2>2
    <2>3. CASE p = n + 1 /\ q = n + 1
      BY <1>3, <2>3 DEF RunType
    <2>. QED BY <1>1, <2>1, <2>2, <2>3
  <1>7. ASSUME NEW q \in 1 .. n
        PROVE  Waits(cs, sw, ts[q], ts[q + 1])
    <2>1. CASE q = n
      BY <1>1, <1>3, <2>1
    <2>2. CASE q # n
      BY <1>1, <1>3, <2>2 DEF OldRuns
    <2>. QED BY <2>1, <2>2
  <1>. QED BY <1>1, <1>3, <1>4, <1>6, <1>7 DEF OldRuns, ts

LEMMA OldRunsReturn ==
  ASSUME NEW cs, NEW sw, NEW rs \in Seq(RunType), Len(rs) > 1, OldRuns(cs, sw, rs)
  PROVE  LET ts == Front(rs)
         IN  /\ ts \in Seq(RunType) /\ ts # << >> /\ Len(ts) = Len(rs) - 1
             /\ ts[Len(ts)] = rs[Len(rs) - 1] /\ ts[Len(ts)] \in RunType
             /\ ts[Len(ts)].oldB <= rs[Len(rs)].oldB
             /\ OldRuns(cs, sw, ts)
             /\ Waits(cs, sw, ts[Len(ts)], rs[Len(rs)])
  <1>. DEFINE n == Len(rs)
              ts == Front(rs)
  <1>1. n \in Nat /\ n > 1 /\ rs # << >>
    BY LenProperties, EmptySeq
  <1>2. \A q \in 1 .. n : rs[q] \in RunType
    BY ElementOfSeq
  <1>3. ts \in Seq(RunType) /\ Len(ts) = n - 1 /\ \A q \in 1 .. n - 1 : ts[q] = rs[q]
    BY <1>1, FrontProperties
  <1>. HIDE DEF ts
  <1>4. ts # << >>
    BY <1>1, <1>3, EmptySeq
  <1>5. OldRuns(cs, sw, ts)
    BY <1>1, <1>3 DEF OldRuns
  <1>6. ts[n - 1] = rs[n - 1] /\ rs[n - 1] \in RunType /\ rs[n - 1].oldB <= rs[n].oldB /\ Waits(cs, sw, rs[n - 1], rs[n])
    <2>1. n - 1 \in 1 .. n /\ n \in 1 .. n /\ n - 1 \in 1 .. n - 1 /\ n - 1 <= n /\ (n - 1) + 1 = n
      BY <1>1
    <2>. QED BY <1>2, <1>3, <2>1 DEF OldRuns
  <1>. QED BY <1>3, <1>4, <1>5, <1>6 DEF ts

------------------------------------------------------------------------------
(***************************************************************************)
(* What the invariant says, of a state and of a step                       *)
(***************************************************************************)
LEMMA Facts ==
  ASSUME IInv, ~ astray
  PROVE  /\ choices \in Seq(ChoiceType) /\ Len(choices) \in Nat /\ Len(choices) >= 1
         /\ DOMAIN choices = 1 .. Len(choices)
         /\ \A i \in 1 .. Len(choices) : choices[i] \in ChoiceType
         /\ Top = choices[Len(choices)] /\ Top \in ChoiceType
         /\ runs \in Seq(RunType) /\ runs # << >> /\ Len(runs) \in Nat /\ Len(runs) >= 1
         /\ Run = runs[Len(runs)] /\ Run \in RunType /\ OldB = Run.oldB /\ OldB \in Nat
         /\ Bottoms(Run.for) \in 1 .. 2 /\ OldB + Bottoms(Run.for) <= Len(choices)
         /\ \A i \in 1 .. Bottoms(Run.for) : choices[OldB + i].kind = "bottom"
         /\ Len(runs) = 1 => OldB = 0 /\ Run.for = "command"
         /\ OldRuns(choices, swig, runs) /\ NewestRun(choices, Run) /\ Distinct(choices)
         /\ cont \in Seq(CatchId) /\ swig \in [CatchId -> 1 .. 2]
  <1>1. TypeOK /\ Structure
    BY DEF IInv
  <1>2. /\ choices \in Seq(ChoiceType)
        /\ Len(choices) \in Nat /\ DOMAIN choices = 1 .. Len(choices)
        /\ \A i \in 1 .. Len(choices) : choices[i] \in ChoiceType
        /\ runs \in Seq(RunType) /\ runs # << >>
        /\ Len(runs) \in Nat /\ Len(runs) >= 1
        /\ Run \in RunType /\ OldB \in Nat /\ cont \in Seq(CatchId)
    BY <1>1, TypeFacts
  <1>3. OldRuns(choices, swig, runs) /\ NewestRun(choices, Run) /\ Distinct(choices)
    BY <1>1 DEF Structure
  <1>4. /\ OldB + Bottoms(Run.for) <= Len(choices)
        /\ \A i \in 1 .. Bottoms(Run.for) : choices[OldB + i].kind = "bottom"
    BY <1>3 DEF NewestRun, Bottomed, OldB
  <1>5. Bottoms(Run.for) \in 1 .. 2
    BY DEF Bottoms
  <1>6. Len(choices) >= 1 /\ Top \in ChoiceType
    BY <1>2, <1>4, <1>5 DEF Top
  <1>7. Len(runs) = 1 => OldB = 0 /\ Run.for = "command"
    BY <1>3 DEF OldRuns, OldB, Run
  <1>8. swig \in [CatchId -> 1 .. 2]
    BY <1>1 DEF TypeOK
  <1>. QED BY <1>2, <1>3, <1>4, <1>5, <1>6, <1>7, <1>8 DEF Top, Run, OldB

(* No throw is on its way in a state in which a goal runs, or in which     *)
(* failure finds a choice point that is not of a catch.                    *)
LEMMA NotInFlight ==
  ASSUME IInv, ~ astray, pc = "run" \/ (pc = "fail" /\ Top.kind # "catch")
  PROVE  /\ ~ IsCatch(choices, Len(choices))
         /\ SwigAgrees(choices, swig, OldB, Len(choices))
         /\ pc = "run" => Scopes(choices, cont, OldB, Len(choices))
         /\ Top.kind # "bottom" => ~ (unwinding /\ Held)
         /\ pc = "run" => ~ (unwinding /\ Held)
  BY DEF IInv, Structure, InFlight, Settled, IsCatch, Top

(* The bottom of a run is not the place of any other choice point. *)
LEMMA AboveBottom ==
  ASSUME IInv, ~ astray, NEW i \in OldB + 1 .. Len(choices), choices[i].kind # "bottom"
  PROVE  i > OldB + Bottoms(Run.for)
  <1>1. /\ OldB \in Nat /\ Bottoms(Run.for) \in 1 .. 2
        /\ \A j \in 1 .. Bottoms(Run.for) : choices[OldB + j].kind = "bottom"
    BY Facts
  <1>2. ASSUME i <= OldB + Bottoms(Run.for)
        PROVE  FALSE
    <2>1. i - OldB \in 1 .. Bottoms(Run.for) /\ OldB + (i - OldB) = i
      BY <1>1, <1>2
    <2>. QED BY <1>1, <2>1
  <1>. QED BY <1>1, <1>2

(* Choice points that are cut away *)
LEMMA CutBack ==
  ASSUME IInv, ~ astray, NEW n \in Nat, OldB + Bottoms(Run.for) <= n, n <= Len(choices)
  PROVE  /\ Upto(n) \in Seq(ChoiceType) /\ Len(Upto(n)) = n /\ SameUpto(choices, Upto(n), n)
         /\ OldRuns(Upto(n), swig, runs) /\ NewestRun(Upto(n), Run) /\ Distinct(Upto(n))
  <1>. DEFINE ds == Upto(n)
  <1>1. /\ choices \in Seq(ChoiceType) /\ Len(choices) \in Nat
        /\ runs \in Seq(RunType) /\ runs # << >>
        /\ Run = runs[Len(runs)] /\ Run \in RunType /\ OldB = Run.oldB /\ OldB \in Nat
        /\ Bottoms(Run.for) \in 1 .. 2
        /\ OldRuns(choices, swig, runs) /\ NewestRun(choices, Run) /\ Distinct(choices)
    BY Facts
  <1>2. ds \in Seq(ChoiceType) /\ Len(ds) = n /\ SameUpto(choices, ds, n)
    BY <1>1, UptoProperties DEF Upto, SameUpto
  <1>. HIDE DEF ds
  <1>3. SameUpto(choices, ds, OldB) /\ SameUpto(choices, ds, OldB + Bottoms(Run.for))
    BY <1>1, <1>2 DEF SameUpto
  <1>4. OldRuns(ds, swig, runs)
    BY <1>1, <1>3, OldRunsKept
  <1>5. Bottomed(ds, Run, n)
    BY <1>1, <1>3, BottomedKept DEF NewestRun
  <1>6. Linked(ds, OldB, n)
    BY <1>1, <1>2, LinkedKept DEF NewestRun
  <1>7. \A i \in OldB + 1 .. n : IsCatch(ds, i) => Run.c22
    <2>1. \A i \in OldB + 1 .. n : i \in OldB + 1 .. Len(choices) /\ ds[i] = choices[i]
      BY <1>1, <1>2 DEF SameUpto
    <2>. QED BY <1>1, <2>1 DEF NewestRun, IsCatch
  <1>8. Distinct(ds)
    BY <1>1, <1>2, DistinctKept
  <1>. QED BY <1>1, <1>2, <1>4, <1>5, <1>6, <1>7, <1>8 DEF NewestRun, ds

(* A choice point that is added *)
LEMMA Grown ==
  ASSUME NEW cs \in Seq(ChoiceType), NEW c \in ChoiceType
  PROVE  /\ Append(cs, c) \in Seq(ChoiceType) /\ Len(Append(cs, c)) = Len(cs) + 1
         /\ SameUpto(cs, Append(cs, c), Len(cs)) /\ Append(cs, c)[Len(cs) + 1] = c
  BY AppendProperties DEF SameUpto

LEMMA NewestRunGrown ==
  ASSUME NEW cs \in Seq(ChoiceType), NEW c \in ChoiceType, NEW r \in RunType,
         NewestRun(cs, r), c.kind = "catch" => r.c22,
         LinkedAt(Append(cs, c), r.oldB, Len(cs) + 1, Len(cs) + 1),
         IsCatch(cs, Len(cs)) =>
           c.kind = "goal" /\ c.id = cs[Len(cs)].id /\ cs[Len(cs)].next = "throw"
  PROVE  NewestRun(Append(cs, c), r)
  <1>. DEFINE n == Len(cs)
              ds == Append(cs, c)
  <1>1. ds \in Seq(ChoiceType) /\ Len(ds) = n + 1 /\ SameUpto(cs, ds, n) /\ ds[n + 1] = c
    BY Grown
  <1>2. n \in Nat /\ r.oldB \in Nat /\ Bottoms(r.for) \in 1 .. 2
    BY LenProperties DEF RunType, Bottoms
  <1>. HIDE DEF ds, n
  <1>3. Bottomed(cs, r, n) /\ Linked(cs, r.oldB, n) /\ r.oldB + Bottoms(r.for) <= n
    BY DEF NewestRun, Bottomed, n
  <1>4. Bottomed(ds, r, n + 1)
    <2>1. SameUpto(cs, ds, r.oldB + Bottoms(r.for))
      BY <1>1, <1>2, <1>3 DEF SameUpto
    <2>. QED BY <1>2, <1>3, <2>1, BottomedKept
  <1>5. Linked(ds, r.oldB, n + 1)
    <2>1. r.oldB <= n
      BY <1>2, <1>3
    <2>2. LinkedAt(ds, r.oldB, n + 1, n + 1)
      BY DEF ds, n
    <2>3. IsCatch(cs, n) =>
            ds[n + 1].kind = "goal" /\ ds[n + 1].id = cs[n].id /\ cs[n].next = "throw"
      BY <1>1 DEF n
    <2>. QED BY <1>1, <1>2, <1>3, <2>1, <2>2, <2>3, LinkedExtended
  <1>6. ASSUME NEW i \in r.oldB + 1 .. n + 1, IsCatch(ds, i)
        PROVE  r.c22
    <2>1. CASE i = n + 1
      BY <1>1, <1>6, <2>1 DEF IsCatch
    <2>2. CASE i # n + 1
      <3>1. i \in r.oldB + 1 .. n /\ ds[i] = cs[i]
        BY <1>1, <1>2, <2>2 DEF SameUpto
      <3>. QED BY <1>6, <3>1 DEF NewestRun, IsCatch, n
    <2>. QED BY <2>1, <2>2
  <1>. QED BY <1>1, <1>4, <1>5, <1>6 DEF NewestRun, ds

LEMMA DistinctGrown ==
  ASSUME NEW cs \in Seq(ChoiceType), NEW c \in ChoiceType, Distinct(cs),
         c.kind \in {"catch", "reset"} =>
           \A i \in 1 .. Len(cs) : ~ (cs[i].kind = c.kind /\ cs[i].id = c.id),
         c.kind = "catch" => c.id \in CatchId,
         c.kind = "reset" => \E k \in 1 .. Len(cs) : CatchOf(cs, c.id, k)
  PROVE  Distinct(Append(cs, c))
  <1>. DEFINE n == Len(cs)
              ds == Append(cs, c)
  <1>1. Len(ds) = n + 1 /\ SameUpto(cs, ds, n) /\ ds[n + 1] = c /\ n \in Nat
    BY Grown, LenProperties
  <1>. HIDE DEF ds
  <1>2. \A i \in 1 .. n : ds[i] = cs[i]
    BY <1>1 DEF SameUpto
  <1>3. \A i \in 1 .. n + 1 : i \in 1 .. n \/ i = n + 1
    BY <1>1
  <1>4. \A i, j \in 1 .. n + 1 :
          ds[i].kind \in {"catch", "reset"} /\ ds[i].kind = ds[j].kind /\ ds[i].id = ds[j].id => i = j
    BY <1>1, <1>2, <1>3 DEF Distinct
  <1>5. ASSUME NEW j \in 1 .. n + 1, ds[j].kind = "reset"
        PROVE  \E k \in 1 .. j - 1 : CatchOf(ds, ds[j].id, k)
    <2>1. CASE j \in 1 .. n
      <3>1. PICK k \in 1 .. j - 1 : CatchOf(cs, cs[j].id, k)
        BY <1>2, <1>5, <2>1 DEF Distinct
      <3>2. k \in 1 .. n
        BY <1>1
      <3>. QED BY <1>2, <2>1, <3>1, <3>2 DEF CatchOf, IsCatch
    <2>2. CASE j = n + 1
      <3>1. PICK k \in 1 .. n : CatchOf(cs, c.id, k)
        BY <1>1, <1>5, <2>2
      <3>2. k \in 1 .. j - 1
        BY <1>1, <2>2
      <3>. QED BY <1>1, <1>2, <2>2, <3>1, <3>2 DEF CatchOf, IsCatch
    <2>. QED BY <1>3, <2>1, <2>2
  <1>6. \A i \in 1 .. n + 1 : IsCatch(ds, i) => ds[i].id \in CatchId
    BY <1>1, <1>2, <1>3 DEF Distinct, IsCatch
  <1>. QED BY <1>1, <1>4, <1>5, <1>6 DEF Distinct, ds

(* The end of each step with which no throw is on its way *)
LEMMA SettledStep ==
  ASSUME IInv, ~ astray, ~ (unwinding' /\ Held),
         thrown' = thrown, caught' = caught, astray' = astray,
         TypeOK', pc' \in {"run", "fail"},
         OldRuns(choices', swig', runs'), NewestRun(choices', Run'), Distinct(choices'),
         ~ IsCatch(choices', Len(choices')),
         SwigAgrees(choices', swig', OldB', Len(choices')),
         pc' = "run" => Scopes(choices', cont', OldB', Len(choices'))
  PROVE  IInv'
  <1>1. Held' = Held
    BY DEF Held
  <1>2. InnermostCatches'
    BY <1>1 DEF InnermostCatches, IInv, Held
  <1>3. ~ InFlight'
    BY DEF InFlight, IsCatch
  <1>4. Settled'
    BY <1>1 DEF Settled
  <1>5. Structure'
    BY <1>3, <1>4 DEF Structure
  <1>. QED BY <1>2, <1>5 DEF IInv

------------------------------------------------------------------------------
(***************************************************************************)
(* Types                                                                   *)
(***************************************************************************)
LEMMA ChoiceIsTyped ==
  ASSUME NEW kind \in {"bottom", "clauses", "catch", "goal", "reset"},
         NEW id \in CatchId \union {0}, NEW scopes \in Seq(CatchId)
  PROVE  Choice(kind, id, scopes) \in ChoiceType
  BY DEF Choice, ChoiceType

LEMMA AppendTwo ==
  ASSUME NEW S, NEW s \in Seq(S), NEW a \in S, NEW b \in S
  PROVE  s \o << a, b >> = Append(Append(s, a), b)
  <1>. DEFINE t == << a, b >>
              u == Append(s, a)
              v == Append(u, b)
              w == s \o t
  <1>1. t \in Seq(S) /\ Len(t) = 2 /\ t[1] = a /\ t[2] = b
    OBVIOUS
  <1>2. u \in Seq(S) /\ Len(u) = Len(s) + 1 /\ u[Len(s) + 1] = a /\ \A i \in 1 .. Len(s) : u[i] = s[i]
    BY AppendProperties
  <1>0. Len(s) \in Nat
    BY LenProperties
  <1>. HIDE DEF t, u
  <1>3. v \in Seq(S) /\ Len(v) = Len(u) + 1 /\ v[Len(u) + 1] = b /\ \A i \in 1 .. Len(u) : v[i] = u[i]
    BY <1>2, AppendProperties
  <1>4. /\ w \in Seq(S) /\ Len(w) = Len(s) + Len(t)
        /\ \A i \in 1 .. Len(s) + Len(t) : w[i] = IF i <= Len(s) THEN s[i] ELSE t[i - Len(s)]
    BY <1>1, ConcatProperties
  <1>. HIDE DEF v, w
  <1>5. Len(w) = Len(v)
    BY <1>0, <1>1, <1>2, <1>3, <1>4
  <1>6. ASSUME NEW i \in 1 .. Len(w)
        PROVE  w[i] = v[i]
    <2>1. i \in 1 .. Len(s) \/ i = Len(s) + 1 \/ i = Len(s) + 2
      BY <1>0, <1>1, <1>4
    <2>5. w[i] = IF i <= Len(s) THEN s[i] ELSE t[i - Len(s)]
      BY <1>4, <1>6
    <2>2. CASE i \in 1 .. Len(s)
      <3>1. i <= Len(s) /\ i \in 1 .. Len(u)
        BY <1>0, <1>2, <2>2
      <3>. QED BY <1>2, <1>3, <2>2, <2>5, <3>1
    <2>3. CASE i = Len(s) + 1
      <3>1. ~ (i <= Len(s)) /\ i - Len(s) = 1 /\ i \in 1 .. Len(u) /\ i = Len(s) + 1
        BY <1>0, <1>2, <2>3
      <3>2. v[i] = a
        BY <1>2, <1>3, <3>1
      <3>. QED BY <1>1, <2>5, <3>1, <3>2
    <2>4. CASE i = Len(s) + 2
      <3>1. ~ (i <= Len(s)) /\ i - Len(s) = 2 /\ i = Len(u) + 1
        BY <1>0, <1>2, <2>4
      <3>2. v[i] = b
        BY <1>3, <3>1
      <3>. QED BY <1>1, <2>5, <3>1, <3>2
    <2>. QED BY <2>1, <2>2, <2>3, <2>4
  <1>7. w = v
    BY <1>3, <1>4, <1>5, <1>6, SeqEqual
  <1>. QED BY <1>7 DEF w, v, u, t

LEMMA BottomsTyped ==
  ASSUME NEW for
  PROVE  LET bs == [i \in 1 .. Bottoms(for) |-> Choice("bottom", 0, << >>)]
         IN  bs \in Seq(ChoiceType) /\ Len(bs) = Bottoms(for)
  <1>. DEFINE n == Bottoms(for)
              bs == [i \in 1 .. n |-> Choice("bottom", 0, << >>)]
  <1>1. n \in Nat
    BY DEF Bottoms
  <1>2. Choice("bottom", 0, << >>) \in ChoiceType
    BY ChoiceIsTyped, EmptySeq
  <1>. HIDE DEF n
  <1>3. bs \in [1 .. n -> ChoiceType] /\ DOMAIN bs = 1 .. n
    BY <1>2
  <1>4. bs \in Seq(ChoiceType)
    BY <1>1, <1>3, SeqDef
  <1>. HIDE DEF bs
  <1>5. DOMAIN bs = 1 .. Len(bs) /\ Len(bs) \in Nat
    BY <1>4, LenProperties
  <1>6. Len(bs) = n
    BY <1>1, <1>3, <1>5
  <1>. QED BY <1>4, <1>6 DEF bs, n

LEMMA PartTyped ==
  ASSUME IInv, ~ astray, NEW n \in 0 .. Len(choices)
  PROVE  Upto(n) \in Seq(ChoiceType)
  BY Facts, UptoProperties DEF Upto

LEMMA EndRunTyped ==
  ASSUME IInv, ~ astray, EndRun
  PROVE  /\ choices' \in Seq(ChoiceType) /\ runs' \in Seq(RunType) /\ runs' # << >>
         /\ cont' \in Seq(CatchId) /\ pc' \in {"run", "fail"}
  <1>1. /\ Len(choices) \in Nat /\ OldB \in Nat /\ Bottoms(Run.for) \in 1 .. 2
        /\ OldB + Bottoms(Run.for) <= Len(choices) /\ runs \in Seq(RunType) /\ runs # << >>
        /\ Run \in RunType /\ OldRuns(choices, swig, runs) /\ Len(runs) \in Nat /\ Len(runs) >= 1
        /\ Len(runs) = 1 => OldB = 0 /\ Run.for = "command"
    BY Facts
  <1>2. CASE Len(runs) = 1
    <2>1. 2 \in 0 .. Len(choices)
      BY <1>1, <1>2 DEF Bottoms
    <2>2. choices' \in Seq(ChoiceType)
      BY <1>2, <2>1, PartTyped DEF EndRun
    <2>3. LET ts == [runs EXCEPT ![Len(runs)].c22 = FALSE]
          IN  ts \in Seq(RunType) /\ ts # << >>
      BY <1>1, OldRunsUpdate
    <2>4. runs' \in Seq(RunType) /\ runs' # << >>
      BY <1>2, <2>3 DEF EndRun
    <2>. QED BY <1>2, <2>2, <2>4, EmptySeq DEF EndRun
  <1>3. CASE Len(runs) # 1
    <2>1. OldB \in 0 .. Len(choices)
      BY <1>1
    <2>2. choices' \in Seq(ChoiceType)
      BY <1>3, <2>1, PartTyped DEF EndRun
    <2>3. Len(runs) > 1
      <3>1. \A n \in Nat : n >= 1 /\ n # 1 => n > 1
        OBVIOUS
      <3>. QED BY <1>1, <1>3, <3>1
    <2>4. Front(runs) \in Seq(RunType) /\ Front(runs) # << >>
      BY <1>1, <2>3, OldRunsReturn
    <2>. QED BY <1>1, <1>3, <2>2, <2>4 DEF EndRun, RunType
  <1>. QED BY <1>2, <1>3

(* Init, and each step, keeps the types. *)
LEMMA TypeStep ==
  ASSUME IInv, Next
  PROVE  TypeOK'
  <1>1. ~ astray
    BY DEF Next, Try, Catch, Exit, Cut, Fail, Throw, Call, Return, Running, Resume, Resuming,
           ResumeClauses, ResumeGoal, ResumeReset, SecondClause, ThirdClause, ResumeBottom, Unwind
  <1>2. /\ choices \in Seq(ChoiceType) /\ Len(choices) \in Nat /\ Len(choices) >= 1
        /\ DOMAIN choices = 1 .. Len(choices)
        /\ Top = choices[Len(choices)] /\ Top \in ChoiceType
        /\ runs \in Seq(RunType) /\ runs # << >> /\ Len(runs) \in Nat
        /\ Run \in RunType /\ cont \in Seq(CatchId) /\ swig \in [CatchId -> 1 .. 2]
        /\ Len(choices) - 1 \in 0 .. Len(choices)
    BY <1>1, Facts
  <1>3. /\ pc \in {"run", "fail", "throw"}
        /\ thrown \in [scopes : Seq(CatchId), from : {"command", "rungoal"}]
        /\ unwinding \in BOOLEAN /\ astray \in BOOLEAN /\ caught \in CatchId \union {0}
    BY DEF IInv, TypeOK
  <1>4. ASSUME choices' \in Seq(ChoiceType), runs' \in Seq(RunType), runs' # << >>,
               cont' \in Seq(CatchId), swig' \in [CatchId -> 1 .. 2],
               pc' \in {"run", "fail", "throw"},
               thrown' \in [scopes : Seq(CatchId), from : {"command", "rungoal"}],
               unwinding' \in BOOLEAN, astray' \in BOOLEAN, caught' \in CatchId \union {0}
        PROVE  TypeOK'
    BY <1>4 DEF TypeOK, ChoiceType, RunType
  <1>5. CASE Try
    <2>1. choices' \in Seq(ChoiceType)
      BY <1>2, <1>5, ChoiceIsTyped, AppendProperties DEF Try
    <2>. QED BY <1>2, <1>3, <1>4, <1>5, <2>1 DEF Try, ghosts
  <1>6. ASSUME NEW id \in CatchId, Catch(id)
        PROVE  TypeOK'
    <2>1. Choice("catch", id, cont) \in ChoiceType /\ Choice("goal", id, cont) \in ChoiceType
      BY <1>2, ChoiceIsTyped
    <2>2. choices' \in Seq(ChoiceType)
      <3>1. << Choice("catch", id, cont), Choice("goal", id, cont) >> \in Seq(ChoiceType)
        BY <2>1
      <3>. QED BY <1>2, <1>6, <3>1, ConcatProperties DEF Catch
    <2>3. runs' \in Seq(RunType) /\ runs' # << >>
      <3>1. OldRuns(choices, swig, runs)
        BY <1>1, Facts
      <3>2. LET ts == [runs EXCEPT ![Len(runs)].c22 = TRUE]
            IN  ts \in Seq(RunType) /\ ts # << >>
        <4>1. runs \in Seq(RunType) /\ runs # << >> /\ TRUE \in BOOLEAN
          BY <1>2
        <4>. QED BY Zenon, <3>1, <4>1, OldRunsUpdate
      <3>. QED BY <1>6, <3>2 DEF Catch
    <2>4. cont' \in Seq(CatchId)
      BY <1>2, <1>6, AppendProperties DEF Catch
    <2>5. swig' \in [CatchId -> 1 .. 2]
      BY <1>2, <1>6 DEF Catch
    <2>. QED BY <1>3, <1>4, <1>6, <2>2, <2>3, <2>4, <2>5 DEF Catch, ghosts
  <1>7. CASE Exit
    <2>1. Front(cont) \in Seq(CatchId) /\ Last(cont) \in CatchId
      BY <1>2, <1>7, FrontProperties DEF Exit
    <2>2. choices' \in Seq(ChoiceType)
      BY <1>2, <1>7, <2>1, ChoiceIsTyped, AppendProperties DEF Exit
    <2>3. swig' \in [CatchId -> 1 .. 2]
      <3>1. 2 \in 1 .. 2
        OBVIOUS
      <3>. QED BY <1>2, <1>7, <3>1, Zenon DEF Exit
    <2>. QED BY <1>2, <1>3, <1>4, <1>7, <2>1, <2>2, <2>3 DEF Exit, ghosts
  <1>8. ASSUME NEW n \in DOMAIN choices, Cut(n)
        PROVE  TypeOK'
    <2>1. n \in 0 .. Len(choices)
      BY <1>2
    <2>2. choices' \in Seq(ChoiceType)
      BY <1>1, <1>8, <2>1, PartTyped DEF Cut
    <2>. QED BY <1>2, <1>3, <1>4, <1>8, <2>2 DEF Cut, ghosts
  <1>9. CASE Fail
    BY <1>2, <1>3, <1>4, <1>9 DEF Fail, ghosts
  <1>10. CASE Throw
    <2>1. thrown' \in [scopes : Seq(CatchId), from : {"command", "rungoal"}]
      BY <1>2, <1>10 DEF Throw, RunType
    <2>. QED BY <1>2, <1>3, <1>4, <1>10, <2>1 DEF Throw
  <1>11. ASSUME NEW for \in {"command", "rungoal"}, Call(for)
         PROVE  TypeOK'
    <2>1. choices' \in Seq(ChoiceType)
      BY <1>2, <1>11, BottomsTyped, ConcatProperties DEF Call
    <2>2. NewRun(for) \in RunType
      BY <1>2 DEF NewRun, RunType
    <2>3. runs' \in Seq(RunType) /\ runs' # << >>
      BY <1>2, <1>11, <2>2, AppendProperties DEF Call
    <2>. QED BY <1>2, <1>3, <1>4, <1>11, <2>1, <2>3, EmptySeq DEF Call, ghosts
  <1>12. CASE Return
    <2>1. EndRun
      BY <1>12 DEF Return
    <2>2. /\ choices' \in Seq(ChoiceType) /\ runs' \in Seq(RunType) /\ runs' # << >>
          /\ cont' \in Seq(CatchId) /\ pc' \in {"run", "fail"}
      BY <1>1, <2>1, EndRunTyped
    <2>. QED BY <1>2, <1>3, <1>4, <1>12, <2>2 DEF Return, ghosts
  <1>13. ASSUME Pop
         PROVE  choices' \in Seq(ChoiceType)
    <2>1. choices # << >>
      BY <1>2, EmptySeq
    <2>. QED BY <1>2, <1>13, <2>1, FrontProperties DEF Pop
  <1>14. CASE ResumeClauses
    <2>1. choices' \in Seq(ChoiceType)
      BY <1>2, <1>13, <1>14 DEF ResumeClauses
    <2>2. cont' \in Seq(CatchId)
      BY <1>2, <1>14 DEF ResumeClauses, ChoiceType
    <2>. QED BY <1>2, <1>3, <1>4, <1>14, <2>1, <2>2 DEF ResumeClauses, ghosts
  <1>15. CASE ResumeGoal
    <2>1. PICK i \in Position("catch", Top.id) : choices' = Upto(i - 1)
      BY <1>15 DEF ResumeGoal
    <2>2. i - 1 \in 0 .. Len(choices)
      BY <1>2 DEF Position
    <2>3. choices' \in Seq(ChoiceType)
      BY <1>1, <2>1, <2>2, PartTyped
    <2>. QED BY <1>2, <1>3, <1>4, <1>15, <2>3 DEF ResumeGoal, ghosts
  <1>16. CASE ResumeReset
    <2>1. choices' \in Seq(ChoiceType)
      BY <1>13, <1>16 DEF ResumeReset
    <2>2. swig' \in [CatchId -> 1 .. 2]
      <3>1. 1 \in 1 .. 2
        OBVIOUS
      <3>. QED BY <1>2, <1>16, <3>1, Zenon DEF ResumeReset
    <2>. QED BY <1>2, <1>3, <1>4, <1>16, <2>1, <2>2 DEF ResumeReset, ghosts
  <1>17. CASE SecondClause
    <2>1. [Top EXCEPT !.next = "handler"] \in ChoiceType
      BY <1>2 DEF ChoiceType
    <2>2. choices' = [choices EXCEPT ![Len(choices)] = [Top EXCEPT !.next = "handler"]]
      BY <1>2, <1>17 DEF SecondClause
    <2>3. choices' \in Seq(ChoiceType)
      BY <1>2, <2>1, <2>2, ExceptSeq
    <2>4. pc' \in {"run", "fail", "throw"}
      BY <1>17 DEF SecondClause
    <2>. QED BY <1>2, <1>3, <1>4, <1>17, <2>3, <2>4 DEF SecondClause, ghosts
  <1>18. CASE ThirdClause
    <2>1. choices' \in Seq(ChoiceType)
      BY <1>13, <1>18 DEF ThirdClause
    <2>2. cont' \in Seq(CatchId) /\ caught' \in CatchId \union {0}
      BY <1>2, <1>18 DEF ThirdClause, ChoiceType
    <2>. QED BY <1>2, <1>3, <1>4, <1>18, <2>1, <2>2 DEF ThirdClause
  <1>19. CASE ResumeBottom
    <2>1. EndRun
      BY <1>19 DEF ResumeBottom
    <2>2. /\ choices' \in Seq(ChoiceType) /\ runs' \in Seq(RunType) /\ runs' # << >>
          /\ cont' \in Seq(CatchId) /\ pc' \in {"run", "fail"}
      BY <1>1, <2>1, EndRunTyped
    <2>. QED BY <1>2, <1>3, <1>4, <1>19, <2>2 DEF ResumeBottom
  <1>20. CASE Unwind
    <2>1. choices' = choices \/ \E i \in DOMAIN choices : choices' = Upto(i)
      BY <1>20 DEF Unwind
    <2>2. choices' \in Seq(ChoiceType)
      <3>1. ASSUME NEW i \in DOMAIN choices, choices' = Upto(i)
            PROVE  choices' \in Seq(ChoiceType)
        <4>1. i \in 0 .. Len(choices)
          BY <1>2
        <4>. QED BY <1>1, <3>1, <4>1, PartTyped
      <3>. QED BY <1>2, <2>1, <3>1
    <2>3. astray' \in BOOLEAN
      BY <1>3, <1>20 DEF Unwind
    <2>. QED BY <1>2, <1>3, <1>4, <1>20, <2>2, <2>3 DEF Unwind
  <1>. QED BY <1>5, <1>6, <1>7, <1>8, <1>9, <1>10, <1>11, <1>12, <1>14, <1>15, <1>16, <1>17,
              <1>18, <1>19, <1>20 DEF Next, Resume

------------------------------------------------------------------------------
(***************************************************************************)
(* The goals of the program                                                *)
(***************************************************************************)
LEMMA TryStep ==
  ASSUME IInv, TypeOK', Try
  PROVE  IInv'
  <1>. DEFINE n == Len(choices)
              c == Choice("clauses", 0, cont)
  <1>1. ~ astray /\ pc = "run"
    BY DEF Try, Running
  <1>2. /\ choices \in Seq(ChoiceType) /\ n \in Nat /\ runs \in Seq(RunType) /\ runs # << >>
        /\ Run = runs[Len(runs)] /\ Run \in RunType /\ OldB = Run.oldB /\ OldB \in Nat
        /\ OldB <= n /\ OldRuns(choices, swig, runs)
        /\ NewestRun(choices, Run) /\ Distinct(choices)
    <2>1. OldB + Bottoms(Run.for) <= n /\ Bottoms(Run.for) \in 1 .. 2
      BY <1>1, Facts
    <2>. QED BY <1>1, <2>1, Facts
  <1>3. /\ ~ IsCatch(choices, n) /\ SwigAgrees(choices, swig, OldB, n)
        /\ Scopes(choices, cont, OldB, n) /\ ~ (unwinding /\ Held)
    BY <1>1, NotInFlight
  <1>4. /\ c \in ChoiceType /\ c.kind = "clauses" /\ c.cont = cont
    BY <1>1, Facts, ChoiceIsTyped DEF Choice
  <1>5. /\ choices' = Append(choices, c) /\ runs' = runs /\ swig' = swig /\ cont' = cont /\ pc' = pc
        /\ unwinding' = unwinding /\ thrown' = thrown /\ caught' = caught /\ astray' = astray
        /\ Run' = Run /\ OldB' = OldB
    BY DEF Try, ghosts, Run, OldB
  <1>. HIDE DEF c
  <1>6. Len(choices') = n + 1 /\ SameUpto(choices, choices', n) /\ choices'[n + 1] = c
    BY <1>2, <1>4, <1>5, Grown
  <1>7. SameUpto(choices, choices', OldB)
    BY <1>2, <1>6 DEF SameUpto
  <1>8. OldRuns(choices', swig', runs')
    BY <1>2, <1>5, <1>7, OldRunsKept
  <1>9. Scopes(choices', cont, OldB, n)
    BY <1>2, <1>3, <1>6, ScopesKept
  <1>10. LinkedAt(choices', OldB, n + 1, n + 1)
    BY <1>2, <1>4, <1>6, <1>9 DEF LinkedAt, IsCatch
  <1>11. NewestRun(choices', Run')
    BY <1>2, <1>3, <1>4, <1>5, <1>10, NewestRunGrown
  <1>12. Distinct(choices')
    BY <1>2, <1>4, <1>5, DistinctGrown
  <1>13. choices'[n + 1].kind \notin {"catch", "reset"}
    BY <1>4, <1>6
  <1>14. SwigAgrees(choices', swig', OldB', n + 1) /\ Scopes(choices', cont', OldB', n + 1)
    BY <1>2, <1>3, <1>5, <1>6, <1>13, ScopesExtended, SwigAgreesExtended
  <1>15. ~ IsCatch(choices', n + 1)
    BY <1>13 DEF IsCatch
  <1>. HIDE DEF n
  <1>. QED BY <1>1, <1>3, <1>5, <1>6, <1>8, <1>11, <1>12, <1>14, <1>15, SettledStep

LEMMA FailStep ==
  ASSUME IInv, TypeOK', Fail
  PROVE  IInv'
  <1>1. ~ astray /\ pc = "run"
    BY DEF Fail, Running
  <1>2. OldRuns(choices, swig, runs) /\ NewestRun(choices, Run) /\ Distinct(choices)
    BY <1>1, Facts
  <1>3. /\ ~ IsCatch(choices, Len(choices)) /\ SwigAgrees(choices, swig, OldB, Len(choices))
        /\ ~ (unwinding /\ Held)
    BY <1>1, NotInFlight
  <1>4. /\ choices' = choices /\ runs' = runs /\ swig' = swig /\ pc' = "fail"
        /\ unwinding' = unwinding /\ thrown' = thrown /\ caught' = caught /\ astray' = astray
        /\ Run' = Run /\ OldB' = OldB
    BY DEF Fail, ghosts, Run, OldB
  <1>. QED BY <1>1, <1>2, <1>3, <1>4, SettledStep

(* The catch that is the first to see a throw was running, and those above *)
(* it have exited: with the next lemmas, Throw puts its Target in place.   *)
LEMMA ThrowStep ==
  ASSUME IInv, TypeOK', Throw
  PROVE  IInv'
  <1>. DEFINE n == Len(choices)
  <1>1. ~ astray /\ pc = "run"
    BY DEF Throw, Running
  <1>2. /\ choices \in Seq(ChoiceType) /\ n \in Nat
        /\ \A i \in 1 .. n : choices[i] \in ChoiceType
        /\ OldB = Run.oldB /\ OldB \in Nat /\ OldRuns(choices, swig, runs)
        /\ NewestRun(choices, Run) /\ Distinct(choices)
        /\ cont \in Seq(CatchId) /\ swig \in [CatchId -> 1 .. 2]
    BY <1>1, Facts
  <1>3. SwigAgrees(choices, swig, OldB, n) /\ Scopes(choices, cont, OldB, n)
    BY <1>1, NotInFlight
  <1>4. /\ choices' = choices /\ runs' = runs /\ swig' = swig /\ pc' = "throw"
        /\ unwinding' = TRUE /\ caught' = 0 /\ astray' = astray
        /\ thrown' = [scopes |-> cont, from |-> Run.for]
        /\ Run' = Run /\ OldB' = OldB
    BY DEF Throw, Run, OldB
  <1>5. ASSUME cont = << >>
        PROVE  OnItsWay'
    <2>1. ASSUME NEW i \in OldB + 1 .. n, IsCatch(choices, i)
          PROVE  swig[choices[i].id] = 2
      <3>1. Len(cont) = 0
        BY <1>5, EmptySeq
      <3>2. \E j \in i + 1 .. n : ResetOf(choices, choices[i].id, j)
        BY <1>3, <2>1, <3>1 DEF Scopes
      <3>. QED BY <1>3, <2>1, <3>2 DEF SwigAgrees
    <2>. QED BY <1>4, <1>5, <2>1 DEF OnItsWay
  <1>6. ASSUME cont # << >>
        PROVE  OnItsWay'
    <2>1. PICK k \in OldB + 1 .. n - 1 : Innermost(choices, cont, OldB, n, k)
      <3>1. Linked(choices, OldB, n)
        BY <1>2 DEF NewestRun
      <3>2. n <= Len(choices)
        BY <1>2
      <3>. QED BY <1>2, <1>3, <1>6, <3>1, <3>2, InnermostExists, Zenon
    <2>2. k \in OldB + 1 .. n /\ k \in 1 .. n /\ k + 1 \in OldB + 1 .. n
      BY <1>2
    <2>3. /\ CatchOf(choices, Last(cont), k) /\ choices[k].cont = Front(cont)
          /\ choices[k].next = "throw" /\ choices[k].id = Last(cont)
      BY <2>1 DEF Innermost, CatchOf
    <2>4. /\ Len(cont) \in Nat /\ Len(cont) # 0 /\ Len(Front(cont)) = Len(cont) - 1
          /\ \A m \in 1 .. Len(cont) - 1 : Front(cont)[m] = cont[m]
          /\ Last(cont) = cont[Len(cont)] /\ Last(cont) \in CatchId
      BY <1>2, <1>6, FrontProperties
    <2>5. ASSUME NEW m \in 1 .. Len(cont), NEW j \in OldB + 1 .. n
          PROVE  ~ ResetOf(choices, cont[m], j)
      BY <1>3 DEF Scopes
    <2>6. swig[choices[k].id] = 1
      <3>1. Len(cont) \in 1 .. Len(cont)
        BY <2>4
      <3>2. \A j \in k + 1 .. n : j \in OldB + 1 .. n
        BY <1>2
      <3>3. ~ \E j \in k + 1 .. n : ResetOf(choices, choices[k].id, j)
        BY <2>3, <2>4, <2>5, <3>1, <3>2
      <3>4. swig[choices[k].id] # 2
        BY <1>3, <2>2, <2>3, <3>3 DEF SwigAgrees, CatchOf
      <3>5. swig[choices[k].id] \in 1 .. 2
        BY <1>2, <2>3, <2>4
      <3>. QED BY <3>4, <3>5
    <2>7. ASSUME NEW i \in k + 1 .. n, IsCatch(choices, i)
          PROVE  swig[choices[i].id] = 2
      <3>1. \E j \in i + 1 .. n : ResetOf(choices, choices[i].id, j)
        BY <2>1, <2>7 DEF Innermost
      <3>2. i \in OldB + 1 .. n
        BY <1>2
      <3>. QED BY <1>3, <2>7, <3>1, <3>2 DEF SwigAgrees
    <2>8. ASSUME NEW i \in OldB + 1 .. k - 1, IsCatch(choices, i)
          PROVE  swig[choices[i].id] = 2 <=>
                   \E j \in i + 1 .. k - 1 : ResetOf(choices, choices[i].id, j)
      <3>1. i \in OldB + 1 .. n /\ \A j \in i + 1 .. k - 1 : j \in i + 1 .. n
        BY <1>2
      <3>2. swig[choices[i].id] = 2 <=> \E j \in i + 1 .. n : ResetOf(choices, choices[i].id, j)
        BY <1>3, <2>8, <3>1 DEF SwigAgrees
      <3>3. \/ \E m \in 1 .. Len(Front(cont)) : Front(cont)[m] = choices[i].id
            \/ \E j \in i + 1 .. k - 1 : ResetOf(choices, choices[i].id, j)
        BY <2>1, <2>8 DEF Innermost, Scopes
      <3>4. ASSUME NEW m \in 1 .. Len(Front(cont)), Front(cont)[m] = choices[i].id
            PROVE  ~ \E j \in i + 1 .. n : ResetOf(choices, choices[i].id, j)
        <4>1. m \in 1 .. Len(cont) /\ cont[m] = choices[i].id
          BY <2>4, <3>4
        <4>2. \A j \in i + 1 .. n : j \in OldB + 1 .. n
          BY <1>2
        <4>. QED BY <2>5, <4>1, <4>2
      <3>. QED BY <3>1, <3>2, <3>3, <3>4
    <2>9. SwigAgrees(choices, swig, OldB, k - 1)
      BY <2>8 DEF SwigAgrees
    <2>10. Target(choices, swig, k)'
      BY <1>4, <2>2, <2>3, <2>6, <2>7, <2>9 DEF Target
    <2>. QED BY <1>4, <1>6, <2>2, <2>10 DEF OnItsWay
  <1>7. OnItsWay'
    BY <1>5, <1>6
  <1>8. Structure'
    BY <1>2, <1>4, <1>7 DEF Structure, InFlight
  <1>9. InnermostCatches'
    BY <1>4 DEF InnermostCatches
  <1>. QED BY <1>1, <1>4, <1>8, <1>9 DEF IInv

LEMMA OneOf ==
  ASSUME NEW cs, Distinct(cs), NEW i \in 1 .. Len(cs), NEW j \in 1 .. Len(cs), NEW id
  PROVE  /\ CatchOf(cs, id, i) /\ CatchOf(cs, id, j) => i = j
         /\ ResetOf(cs, id, i) /\ ResetOf(cs, id, j) => i = j
  BY DEF Distinct, CatchOf, IsCatch, ResetOf

LEMMA ResetAboveCatch ==
  ASSUME NEW cs, Len(cs) \in Nat, Distinct(cs),
         NEW i \in 1 .. Len(cs), NEW j \in 1 .. Len(cs), NEW id,
         CatchOf(cs, id, i), ResetOf(cs, id, j)
  PROVE  i < j
  <1>1. PICK k \in 1 .. j - 1 : CatchOf(cs, id, k)
    BY DEF Distinct, ResetOf
  <1>2. k \in 1 .. Len(cs) /\ k < j
    BY <1>1
  <1>3. i = k
    BY <1>1, <1>2, OneOf
  <1>. QED BY <1>2, <1>3

LEMMA CatchStep ==
  ASSUME IInv, TypeOK', NEW id \in CatchId, Catch(id)
  PROVE  IInv'
  <1>. DEFINE n == Len(choices)
              c == Choice("catch", id, cont)
              g == Choice("goal", id, cont)
              cs == Append(choices, c)
              ds == Append(cs, g)
              r == [Run EXCEPT !.c22 = TRUE]
  <1>1. ~ astray /\ pc = "run"
    BY DEF Catch, Running
  <1>2. /\ choices \in Seq(ChoiceType) /\ n \in Nat /\ runs \in Seq(RunType) /\ runs # << >>
        /\ Run = runs[Len(runs)] /\ Run \in RunType /\ OldB = Run.oldB /\ OldB \in Nat
        /\ OldB <= n /\ OldRuns(choices, swig, runs)
        /\ NewestRun(choices, Run) /\ Distinct(choices)
        /\ DOMAIN choices = 1 .. n /\ cont \in Seq(CatchId) /\ swig \in [CatchId -> 1 .. 2]
    <2>1. OldB + Bottoms(Run.for) <= n /\ Bottoms(Run.for) \in 1 .. 2
      BY <1>1, Facts
    <2>. QED BY <1>1, <2>1, Facts
  <1>0. n \in Nat /\ OldB \in Nat /\ OldB <= n
    BY <1>2
  <1>3. /\ ~ IsCatch(choices, n) /\ SwigAgrees(choices, swig, OldB, n)
        /\ Scopes(choices, cont, OldB, n) /\ ~ (unwinding /\ Held)
    BY <1>1, NotInFlight
  <1>4. /\ c \in ChoiceType /\ c.kind = "catch" /\ c.id = id /\ c.cont = cont /\ c.next = "throw"
        /\ g \in ChoiceType /\ g.kind = "goal" /\ g.id = id /\ g.cont = cont
    BY <1>1, Facts, ChoiceIsTyped DEF Choice
  <1>. HIDE DEF c, g
  <1>5. /\ cs \in Seq(ChoiceType) /\ Len(cs) = n + 1 /\ SameUpto(choices, cs, n) /\ cs[n + 1] = c
    BY <1>2, <1>4, Grown
  <1>6. /\ ds \in Seq(ChoiceType) /\ Len(ds) = Len(cs) + 1 /\ SameUpto(cs, ds, Len(cs))
        /\ ds[Len(cs) + 1] = g
    <2>. HIDE DEF cs
    <2>. QED BY <1>4, <1>5, Grown
  <1>7. /\ Len(ds) = n + 2 /\ ds[n + 1] = c /\ ds[n + 2] = g /\ SameUpto(choices, ds, n)
    <2>. HIDE DEF cs, ds
    <2>1. Len(ds) = n + 2 /\ Len(cs) + 1 = n + 2 /\ n + 1 \in 1 .. Len(cs)
      BY <1>2, <1>5, <1>6
    <2>2. \A i \in 1 .. n : i \in 1 .. Len(cs)
      BY <1>2, <1>5
    <2>. QED BY <1>5, <1>6, <2>1, <2>2 DEF SameUpto
  <1>8. /\ choices' = ds /\ runs' = [runs EXCEPT ![Len(runs)].c22 = TRUE]
        /\ swig' = [swig EXCEPT ![id] = 1] /\ cont' = Append(cont, id) /\ pc' = pc
        /\ unwinding' = unwinding /\ thrown' = thrown /\ caught' = caught /\ astray' = astray
    <2>1. choices \o << c, g >> = ds
      BY <1>2, <1>4, AppendTwo
    <2>. QED BY <2>1 DEF Catch, ghosts, c, g
  <1>9. \A i \in 1 .. n : ~ CatchOf(choices, id, i)
    BY <1>2 DEF Catch, Position, CatchOf, IsCatch
  <1>10. \A i \in 1 .. n : ~ ResetOf(choices, id, i)
    <2>1. ASSUME NEW i \in 1 .. n, ResetOf(choices, id, i)
          PROVE  FALSE
      <3>1. PICK k \in 1 .. i - 1 : CatchOf(choices, id, k)
        BY <1>2, <2>1 DEF Distinct, ResetOf
      <3>2. k \in 1 .. n
        BY <1>2
      <3>. QED BY <1>9, <3>1, <3>2
    <2>. QED BY <2>1
  <1>. HIDE DEF cs, ds
  <1>11. /\ runs' \in Seq(RunType) /\ runs' # << >> /\ Run' = r /\ OldB' = OldB
         /\ r \in RunType /\ r.oldB = OldB /\ r.for = Run.for /\ r.c22
         /\ OldRuns(choices, swig, runs') /\ runs'[Len(runs')].oldB = OldB
    <2>1. LET ts == [runs EXCEPT ![Len(runs)].c22 = TRUE]
          IN  /\ ts \in Seq(RunType) /\ ts # << >>
              /\ ts[Len(ts)] = [runs[Len(runs)] EXCEPT !.c22 = TRUE]
              /\ OldRuns(choices, swig, ts)
      <3>1. runs \in Seq(RunType) /\ runs # << >> /\ TRUE \in BOOLEAN /\ OldRuns(choices, swig, runs)
        BY <1>2
      <3>. QED BY Zenon, <3>1, OldRunsUpdate
    <2>2. /\ runs' \in Seq(RunType) /\ runs' # << >> /\ runs'[Len(runs')] = r
          /\ OldRuns(choices, swig, runs')
      BY <1>2, <1>8, <2>1
    <2>3. r \in RunType /\ r.oldB = OldB /\ r.for = Run.for /\ r.c22
      BY <1>2 DEF RunType
    <2>4. Run' = r /\ OldB' = r.oldB
      BY <2>2 DEF Run, OldB
    <2>. QED BY <2>2, <2>3, <2>4
  <1>. HIDE DEF r
  <1>12. \A i \in 1 .. n : IsCatch(choices, i) => swig'[choices[i].id] = swig[choices[i].id]
    BY <1>8, <1>2, <1>9 DEF CatchOf
  <1>13. OldRuns(choices', swig', runs')
    <2>. DEFINE b == runs'[Len(runs')].oldB
    <2>1. \A i \in 1 .. b : i \in 1 .. n
      BY <1>0, <1>11
    <2>2. SameUpto(choices, choices', b)
      BY <1>7, <1>8, <2>1 DEF SameUpto
    <2>3. \A i \in 1 .. b : IsCatch(choices, i) => swig'[choices[i].id] = swig[choices[i].id]
      BY <1>12, <2>1
    <2>. QED BY <1>11, <2>2, <2>3, OldRunsKept
  <1>14. NewestRun(choices, r)
    BY <1>2, <1>11 DEF NewestRun, Bottomed
  <1>15. NewestRun(cs, r)
    <2>1. Scopes(cs, cont, OldB, n)
      BY <1>2, <1>3, <1>5, ScopesKept
    <2>2. LinkedAt(cs, OldB, n + 1, n + 1)
      BY <1>2, <1>4, <1>5, <2>1 DEF LinkedAt, IsCatch
    <2>. QED BY <1>2, <1>3, <1>4, <1>11, <1>14, <2>2, NewestRunGrown DEF cs
  <1>16. NewestRun(choices', Run')
    <2>1. n + 1 \in OldB + 1 .. n + 2 /\ (n + 2) - 1 = n + 1 /\ Len(cs) + 1 = n + 2
      BY <1>2, <1>5
    <2>2. LinkedAt(ds, OldB, n + 2, n + 2)
      BY <1>2, <1>4, <1>7, <2>1 DEF LinkedAt, IsCatch, CatchOf
    <2>3. g.kind = "goal" /\ g.id = cs[Len(cs)].id /\ cs[Len(cs)].next = "throw"
      BY <1>4, <1>5
    <2>4. LinkedAt(Append(cs, g), r.oldB, Len(cs) + 1, Len(cs) + 1)
      BY <2>1, <2>2, <1>11 DEF ds
    <2>5. NewestRun(Append(cs, g), r)
      BY <1>4, <1>5, <1>11, <1>15, <2>3, <2>4, NewestRunGrown
    <2>. QED BY <1>8, <1>11, <2>5 DEF ds
  <1>17. Distinct(choices')
    <2>1. Distinct(cs)
      <3>1. \A i \in 1 .. n : ~ (choices[i].kind = c.kind /\ choices[i].id = c.id)
        BY <1>4, <1>9 DEF CatchOf, IsCatch
      <3>. QED BY <1>2, <1>4, <3>1, DistinctGrown DEF cs
    <2>. QED BY <1>4, <1>5, <1>8, <2>1, DistinctGrown DEF ds
  <1>18. SwigAgrees(choices', swig', OldB', n + 2)
    <2>. SUFFICES ASSUME NEW i \in OldB + 1 .. n + 2, IsCatch(ds, i)
                  PROVE  swig'[ds[i].id] = 2 <=> \E j \in i + 1 .. n + 2 : ResetOf(ds, ds[i].id, j)
      BY <1>8, <1>11 DEF SwigAgrees
    <2>1. ~ ResetOf(ds, ds[i].id, n + 1) /\ ~ ResetOf(ds, ds[i].id, n + 2)
      BY <1>4, <1>7 DEF ResetOf
    <2>2. \A j \in i + 1 .. n + 2 : j \in i + 1 .. n \/ j = n + 1 \/ j = n + 2
      BY <1>2
    <2>3. CASE i \in OldB + 1 .. n
      <3>0. i \in 1 .. n /\ \A j \in i + 1 .. n : j \in 1 .. n /\ j \in i + 1 .. n + 2
        BY <1>0, <2>3
      <3>1. ds[i] = choices[i] /\ \A j \in i + 1 .. n : ds[j] = choices[j] /\ j \in i + 1 .. n + 2
        BY <1>7, <3>0 DEF SameUpto
      <3>2. swig[choices[i].id] = 2 <=> \E j \in i + 1 .. n : ResetOf(choices, choices[i].id, j)
        BY <1>3, <2>3, <3>1 DEF SwigAgrees, IsCatch
      <3>3. swig'[choices[i].id] = swig[choices[i].id]
        BY <1>12, <3>0, <3>1 DEF IsCatch
      <3>. QED BY <2>1, <2>2, <3>1, <3>2, <3>3 DEF ResetOf
    <2>4. CASE i = n + 1
      <3>1. swig'[ds[i].id] = 1
        BY <1>2, <1>4, <1>7, <1>8, <2>4
      <3>2. i + 1 .. n = {}
        BY <1>2, <2>4
      <3>. QED BY <2>1, <2>2, <3>1, <3>2
    <2>5. CASE i = n + 2
      BY <1>4, <1>7, <2>5 DEF IsCatch
    <2>. QED BY <1>2, <2>3, <2>4, <2>5
  <1>19. Scopes(choices', cont', OldB', n + 2)
    <2>. DEFINE s == Append(cont, id)
    <2>1. /\ s # << >> /\ Front(s) = cont /\ Last(s) = id
      BY <1>2, FrontOfAppend
    <2>2. /\ Len(s) = Len(cont) + 1 /\ s[Len(cont) + 1] = id
          /\ \A m \in 1 .. Len(cont) : s[m] = cont[m] /\ m \in 1 .. Len(s)
          /\ Len(cont) \in Nat /\ Len(s) \in 1 .. Len(s)
      BY <1>2, AppendProperties, LenProperties
    <2>. HIDE DEF s
    <2>3. \A m \in 1 .. Len(s) : m \in 1 .. Len(cont) \/ m = Len(cont) + 1
      BY <2>2
    <2>4. CatchOf(ds, id, n + 1) /\ ds[n + 1].cont = cont
      BY <1>4, <1>7 DEF CatchOf, IsCatch
    <2>5. Scopes(ds, cont, OldB, n)
      BY <1>2, <1>3, <1>7, ScopesKept
    <2>6. /\ n + 1 \in OldB + 1 .. (n + 2) - 1
          /\ \A k \in OldB + 1 .. n - 1 : k \in OldB + 1 .. (n + 2) - 1
          /\ \A j \in OldB + 1 .. n + 2 : j \in OldB + 1 .. n \/ j = n + 1 \/ j = n + 2
          /\ \A i \in OldB + 1 .. n : \A j \in i + 1 .. n : j \in i + 1 .. n + 2
          /\ \A i \in OldB + 1 .. n : i \in 1 .. n
      <3>. HIDE DEF n
      <3>. QED BY <1>0
    <2>7. \A m \in 1 .. Len(s) : \E k \in OldB + 1 .. (n + 2) - 1 : CatchOf(ds, s[m], k)
      BY <2>2, <2>3, <2>4, <2>5, <2>6 DEF Scopes
    <2>8. \E k \in OldB + 1 .. (n + 2) - 1 : CatchOf(ds, Last(s), k) /\ ds[k].cont = Front(s)
      BY <2>1, <2>4, <2>6
    <2>9. ASSUME NEW m \in 1 .. Len(s), NEW j \in OldB + 1 .. n + 2
          PROVE  ~ ResetOf(ds, s[m], j)
      <3>1. CASE j = n + 1 \/ j = n + 2
        BY <1>4, <1>7, <3>1 DEF ResetOf
      <3>2. CASE j \in OldB + 1 .. n /\ m \in 1 .. Len(cont)
        BY <2>2, <2>5, <3>2 DEF Scopes
      <3>3. CASE j \in OldB + 1 .. n /\ m = Len(cont) + 1
        BY <1>7, <1>10, <2>2, <2>6, <3>3 DEF ResetOf, SameUpto
      <3>. QED BY <2>3, <2>6, <3>1, <3>2, <3>3
    <2>10. ASSUME NEW k \in OldB + 1 .. n + 2, IsCatch(ds, k)
           PROVE  \/ \E m \in 1 .. Len(s) : s[m] = ds[k].id
                  \/ \E j \in k + 1 .. n + 2 : ResetOf(ds, ds[k].id, j)
      <3>1. CASE k \in OldB + 1 .. n
        BY <2>2, <2>5, <2>6, <2>10, <3>1 DEF Scopes
      <3>2. CASE k = n + 1
        <4>1. Len(cont) + 1 \in 1 .. Len(s) /\ s[Len(cont) + 1] = ds[k].id
          BY <1>4, <1>7, <2>2, <3>2
        <4>. QED BY <4>1
      <3>3. CASE k = n + 2
        BY <1>4, <1>7, <2>10, <3>3 DEF IsCatch
      <3>. QED BY <2>6, <3>1, <3>2, <3>3
    <2>11. Scopes(ds, s, OldB, n + 2)
      BY <2>7, <2>8, <2>9, <2>10 DEF Scopes
    <2>. QED BY <1>8, <1>11, <2>11 DEF s
  <1>20. ~ IsCatch(choices', n + 2) /\ Len(choices') = n + 2
    BY <1>4, <1>7, <1>8 DEF IsCatch
  <1>. HIDE DEF n
  <1>. QED BY <1>1, <1>3, <1>8, <1>13, <1>16, <1>17, <1>18, <1>19, <1>20, SettledStep

LEMMA ExitStep ==
  ASSUME IInv, TypeOK', Exit
  PROVE  IInv'
  <1>. DEFINE n == Len(choices)
              id == Last(cont)
              c == Choice("reset", id, Front(cont))
              ds == Append(choices, c)
  <1>1. ~ astray /\ pc = "run" /\ cont # << >>
    BY DEF Exit, Running
  <1>2. /\ choices \in Seq(ChoiceType) /\ runs \in Seq(RunType) /\ runs # << >>
        /\ Run = runs[Len(runs)] /\ Run \in RunType /\ OldB = Run.oldB
        /\ OldRuns(choices, swig, runs) /\ NewestRun(choices, Run) /\ Distinct(choices)
        /\ cont \in Seq(CatchId) /\ swig \in [CatchId -> 1 .. 2]
    BY <1>1, Facts
  <1>0. n \in Nat /\ OldB \in Nat /\ OldB <= n
    <2>1. /\ OldB + Bottoms(Run.for) <= n /\ Bottoms(Run.for) \in 1 .. 2
          /\ n \in Nat /\ OldB \in Nat
      BY <1>1, Facts
    <2>. QED BY <2>1
  <1>3. /\ ~ IsCatch(choices, n) /\ SwigAgrees(choices, swig, OldB, n)
        /\ Scopes(choices, cont, OldB, n) /\ ~ (unwinding /\ Held)
    BY <1>1, NotInFlight
  <1>4. /\ Len(cont) \in Nat /\ Len(cont) # 0 /\ Len(Front(cont)) = Len(cont) - 1
        /\ \A m \in 1 .. Len(cont) - 1 : Front(cont)[m] = cont[m]
        /\ id = cont[Len(cont)] /\ id \in CatchId /\ Front(cont) \in Seq(CatchId)
    BY <1>1, <1>2, FrontProperties
  <1>5. c \in ChoiceType /\ c.kind = "reset" /\ c.id = id
    BY <1>4, ChoiceIsTyped DEF Choice
  <1>6. /\ choices' = ds /\ runs' = runs /\ swig' = [swig EXCEPT ![id] = 2]
        /\ cont' = Front(cont) /\ pc' = pc
        /\ unwinding' = unwinding /\ thrown' = thrown /\ caught' = caught /\ astray' = astray
        /\ Run' = Run /\ OldB' = OldB
    BY DEF Exit, ghosts, Run, OldB
  <1>7. PICK k \in OldB + 1 .. n - 1 : Innermost(choices, cont, OldB, n, k)
    <2>1. Linked(choices, OldB, n) /\ n <= Len(choices)
      BY <1>0, <1>2 DEF NewestRun
    <2>. QED BY <1>0, <1>1, <1>2, <1>3, <2>1, InnermostExists, Zenon
  <1>. HIDE DEF id, c
  <1>8. Len(ds) = n + 1 /\ SameUpto(choices, ds, n) /\ ds[n + 1] = c
    BY <1>2, <1>5, Grown
  <1>. HIDE DEF n, ds
  <1>9. /\ k \in 1 .. n /\ k \in OldB + 1 .. n /\ OldB < k /\ k < n
        /\ \A i \in OldB + 1 .. n : i \in 1 .. n
        /\ \A i \in 1 .. OldB : i \in 1 .. n /\ i # k
    BY <1>0
  <1>10. /\ CatchOf(choices, id, k) /\ choices[k].cont = Front(cont)
         /\ Scopes(choices, Front(cont), OldB, k - 1)
         /\ \A m \in 1 .. Len(cont) - 1 : cont[m] # id
         /\ \A i \in k + 1 .. n : IsCatch(choices, i) => \E j \in i + 1 .. n : ResetOf(choices, choices[i].id, j)
    BY <1>7 DEF Innermost, id
  <1>11. \A i \in 1 .. n : CatchOf(choices, id, i) => i = k
    BY <1>2, <1>9, <1>10, OneOf DEF n
  <1>12. \A i \in 1 .. n : ~ ResetOf(choices, id, i)
    <2>1. ASSUME NEW i \in 1 .. n, ResetOf(choices, id, i)
          PROVE  FALSE
      <3>1. k < i
        <4>1. i \in 1 .. Len(choices) /\ k \in 1 .. Len(choices) /\ Len(choices) \in Nat
          BY <1>0, <1>9 DEF n
        <4>. QED BY <1>2, <1>10, <2>1, <4>1, ResetAboveCatch
      <3>2. i \in OldB + 1 .. n /\ Len(cont) \in 1 .. Len(cont)
        BY <1>0, <1>4, <3>1
      <3>. QED BY <1>3, <1>4, <2>1, <3>2 DEF Scopes
    <2>. QED BY <2>1
  <1>13. \A i \in 1 .. n : IsCatch(choices, i) /\ i # k => swig'[choices[i].id] = swig[choices[i].id]
    BY <1>2, <1>6, <1>11 DEF CatchOf
  <1>14. OldRuns(choices', swig', runs')
    <2>1. SameUpto(choices, ds, OldB)
      BY <1>8, <1>9 DEF SameUpto
    <2>2. \A i \in 1 .. OldB : IsCatch(choices, i) => swig'[choices[i].id] = swig[choices[i].id]
      BY <1>9, <1>13
    <2>. DEFINE b == runs[Len(runs)].oldB
    <2>3. SameUpto(choices, choices', b)
      BY <1>2, <1>6, <2>1
    <2>4. \A i \in 1 .. b : IsCatch(choices, i) => swig'[choices[i].id] = swig[choices[i].id]
      BY <1>2, <2>2
    <2>5. OldRuns(choices', swig', runs)
      BY <1>2, <2>3, <2>4, OldRunsKept
    <2>. QED BY <1>6, <2>5
  <1>15. NewestRun(choices', Run')
    <2>1. k \in OldB + 1 .. (n + 1) - 1
      BY <1>0
    <2>2. CatchOf(ds, id, k)
      BY <1>8, <1>9, <1>10 DEF CatchOf, IsCatch, SameUpto
    <2>3. LinkedAt(ds, OldB, n + 1, n + 1)
      BY <1>5, <1>8, <2>1, <2>2 DEF LinkedAt, IsCatch
    <2>. QED BY <1>2, <1>3, <1>5, <1>6, <2>3, NewestRunGrown DEF ds, n
  <1>16. Distinct(choices')
    <2>1. \A i \in 1 .. n : ~ (choices[i].kind = c.kind /\ choices[i].id = c.id)
      BY <1>5, <1>12 DEF ResetOf
    <2>2. \E i \in 1 .. n : CatchOf(choices, c.id, i)
      BY <1>5, <1>9, <1>10
    <2>. QED BY <1>2, <1>5, <1>6, <2>1, <2>2, DistinctGrown DEF ds, n
  <1>17. ResetOf(ds, id, n + 1)
    BY <1>5, <1>8 DEF ResetOf
  <1>18. ASSUME NEW i \in OldB + 1 .. n
         PROVE  /\ i \in 1 .. n /\ ds[i] = choices[i]
                /\ n + 1 \in i + 1 .. n + 1
                /\ \A j \in i + 1 .. n : j \in i + 1 .. n + 1 /\ ds[j] = choices[j]
                /\ \A j \in i + 1 .. n + 1 : j \in i + 1 .. n \/ j = n + 1
    <2>1. /\ i \in 1 .. n /\ n + 1 \in i + 1 .. n + 1
          /\ \A j \in i + 1 .. n : j \in i + 1 .. n + 1 /\ j \in 1 .. n
          /\ \A j \in i + 1 .. n + 1 : j \in i + 1 .. n \/ j = n + 1
      BY <1>0
    <2>. QED BY <1>8, <2>1 DEF SameUpto
  <1>19. SwigAgrees(choices', swig', OldB', n + 1)
    <2>. SUFFICES ASSUME NEW i \in OldB + 1 .. n + 1, IsCatch(ds, i)
                  PROVE  swig'[ds[i].id] = 2 <=> \E j \in i + 1 .. n + 1 : ResetOf(ds, ds[i].id, j)
      BY <1>6 DEF SwigAgrees
    <2>1. i \in OldB + 1 .. n
      <3>1. i # n + 1
        BY <1>5, <1>8 DEF IsCatch
      <3>. QED BY <1>0, <3>1
    <2>2. CASE i = k
      <3>1. ds[i].id = id /\ swig'[id] = 2
        BY <1>2, <1>4, <1>6, <1>10, <1>18, <2>1, <2>2 DEF CatchOf
      <3>. QED BY <1>17, <1>18, <2>1, <3>1
    <2>3. CASE i # k
      <3>1. ds[i].id # id
        BY <1>11, <1>18, <2>1, <2>3 DEF CatchOf, IsCatch
      <3>2. ~ ResetOf(ds, ds[i].id, n + 1)
        BY <1>5, <1>8, <3>1 DEF ResetOf
      <3>3. swig'[ds[i].id] = swig[choices[i].id]
        BY <1>13, <1>18, <2>1, <2>3 DEF IsCatch
      <3>4. swig[choices[i].id] = 2 <=> \E j \in i + 1 .. n : ResetOf(choices, choices[i].id, j)
        BY <1>3, <1>18, <2>1 DEF SwigAgrees, IsCatch
      <3>. QED BY <1>18, <2>1, <3>2, <3>3, <3>4 DEF ResetOf
    <2>. QED BY <2>2, <2>3
  <1>20. Scopes(choices', cont', OldB', n + 1)
    <2>. DEFINE s == Front(cont)
    <2>0. /\ \A i \in OldB + 1 .. (k - 1) - 1 : i \in OldB + 1 .. (n + 1) - 1 /\ i \in OldB + 1 .. n
          /\ \A i \in OldB + 1 .. n + 1 : i \in OldB + 1 .. n \/ i = n + 1
          /\ \A i \in OldB + 1 .. n : i \in OldB + 1 .. k - 1 \/ i = k \/ i \in k + 1 .. n
          /\ \A i \in OldB + 1 .. k - 1 : \A j \in i + 1 .. k - 1 : j \in i + 1 .. n
      BY <1>0
    <2>1. \A m \in 1 .. Len(s) : m \in 1 .. Len(cont) /\ s[m] = cont[m] /\ s[m] # id
      BY <1>4, <1>10
    <2>. HIDE DEF s
    <2>2. Scopes(choices, s, OldB, k - 1)
      BY <1>10 DEF s
    <2>3. \A m \in 1 .. Len(s) : \E i \in OldB + 1 .. (n + 1) - 1 : CatchOf(ds, s[m], i)
      BY <1>18, <2>0, <2>2 DEF Scopes, CatchOf, IsCatch
    <2>4. s # << >> =>
            \E i \in OldB + 1 .. (n + 1) - 1 : CatchOf(ds, Last(s), i) /\ ds[i].cont = Front(s)
      BY <1>18, <2>0, <2>2 DEF Scopes, CatchOf, IsCatch
    <2>5. ASSUME NEW m \in 1 .. Len(s), NEW j \in OldB + 1 .. n + 1
          PROVE  ~ ResetOf(ds, s[m], j)
      <3>1. CASE j \in OldB + 1 .. n
        <4>1. ~ ResetOf(choices, cont[m], j)
          BY <1>3, <2>1, <3>1 DEF Scopes
        <4>. QED BY <1>18, <2>1, <3>1, <4>1 DEF ResetOf
      <3>2. CASE j = n + 1
        BY <1>5, <1>8, <2>1, <3>2 DEF ResetOf
      <3>. QED BY <2>0, <3>1, <3>2
    <2>6. ASSUME NEW i \in OldB + 1 .. n + 1, IsCatch(ds, i)
          PROVE  \/ \E m \in 1 .. Len(s) : s[m] = ds[i].id
                 \/ \E j \in i + 1 .. n + 1 : ResetOf(ds, ds[i].id, j)
      <3>1. i \in OldB + 1 .. n
        <4>1. i # n + 1
          BY <1>5, <1>8, <2>6 DEF IsCatch
        <4>. QED BY <2>0, <4>1
      <3>2. CASE i \in OldB + 1 .. k - 1
        <4>1. \/ \E m \in 1 .. Len(s) : s[m] = choices[i].id
              \/ \E j \in i + 1 .. k - 1 : ResetOf(choices, choices[i].id, j)
          BY <1>18, <2>2, <2>6, <3>1, <3>2 DEF Scopes, IsCatch
        <4>. QED BY <1>18, <2>0, <3>1, <3>2, <4>1 DEF ResetOf
      <3>3. CASE i = k
        <4>1. ds[i].id = id
          BY <1>10, <1>18, <3>1, <3>3 DEF CatchOf
        <4>. QED BY <1>17, <1>18, <3>1, <4>1
      <3>4. CASE i \in k + 1 .. n
        <4>1. \E j \in i + 1 .. n : ResetOf(choices, choices[i].id, j)
          BY <1>10, <1>18, <2>6, <3>1, <3>4 DEF IsCatch
        <4>. QED BY <1>18, <3>1, <4>1 DEF ResetOf
      <3>. QED BY <2>0, <3>1, <3>2, <3>3, <3>4
    <2>7. Scopes(ds, s, OldB, n + 1)
      BY <2>3, <2>4, <2>5, <2>6 DEF Scopes
    <2>. QED BY <1>6, <2>7 DEF s
  <1>21. ~ IsCatch(choices', n + 1) /\ Len(choices') = n + 1
    BY <1>5, <1>6, <1>8 DEF IsCatch
  <1>. QED BY <1>1, <1>3, <1>6, <1>14, <1>15, <1>16, <1>19, <1>20, <1>21, SettledStep

LEMMA CutStep ==
  ASSUME IInv, TypeOK', NEW n \in DOMAIN choices, Cut(n)
  PROVE  IInv'
  <1>. DEFINE top == Len(choices)
              ds == Upto(n)
  <1>1. ~ astray /\ pc = "run"
    BY DEF Cut, Running
  <1>2. /\ NewestRun(choices, Run) /\ Distinct(choices) /\ cont \in Seq(CatchId)
        /\ DOMAIN choices = 1 .. top /\ OldB = Run.oldB
    BY <1>1, Facts
  <1>0. top \in Nat /\ OldB \in Nat /\ n \in 1 .. top /\ n < top
    BY <1>1, <1>2, Facts DEF Cut
  <1>3. /\ SwigAgrees(choices, swig, OldB, top)
        /\ Scopes(choices, cont, OldB, top) /\ ~ (unwinding /\ Held)
    BY <1>1, NotInFlight
  <1>4. /\ choices' = ds /\ runs' = runs /\ swig' = swig /\ cont' = cont /\ pc' = pc
        /\ unwinding' = unwinding /\ thrown' = thrown /\ caught' = caught /\ astray' = astray
        /\ Run' = Run /\ OldB' = OldB
    BY DEF Cut, ghosts, Run, OldB
  <1>5. ASSUME NEW i \in OldB + 1 .. n, IsCatch(choices, i)
        PROVE  \/ \E m \in 1 .. Len(cont) : cont[m] = choices[i].id
               \/ \E j \in i + 1 .. n : ResetOf(choices, choices[i].id, j)
    <2>1. i \in 1 .. n /\ ~ (i <= OldB) /\ i \in 1 .. top
      BY <1>0
    <2>2. CASE choices[i].id \in ToSet(cont)
      <3>1. DOMAIN cont = 1 .. Len(cont)
        BY <1>2, LenProperties
      <3>. QED BY <2>2, <3>1 DEF ToSet
    <2>3. CASE \E j \in Position("reset", choices[i].id) : j <= n
      <3>1. PICK j \in Position("reset", choices[i].id) : j <= n
        BY <2>3
      <3>2. j \in 1 .. top /\ ResetOf(choices, choices[i].id, j)
        BY <1>2, <3>1 DEF Position, ResetOf
      <3>3. CatchOf(choices, choices[i].id, i)
        BY <1>5 DEF CatchOf
      <3>4. i < j
        BY <1>0, <1>2, <2>1, <3>2, <3>3, ResetAboveCatch
      <3>5. j \in i + 1 .. n
        BY <1>0, <2>1, <3>1, <3>2, <3>4
      <3>. QED BY <3>2, <3>5
    <2>4. \/ choices[i].id \in ToSet(cont) \/ i <= OldB
          \/ \E j \in Position("reset", choices[i].id) : j <= n
      BY <1>5, <2>1 DEF Cut, IsCatch
    <2>. QED BY <2>1, <2>2, <2>3, <2>4
  <1>6. ASSUME cont # << >>
        PROVE  \E k \in OldB + 1 .. n - 1 : Innermost(choices, cont, OldB, top, k)
    <2>1. Linked(choices, OldB, top) /\ top <= Len(choices)
      BY <1>0, <1>2 DEF NewestRun
    <2>2. PICK k \in OldB + 1 .. top - 1 : Innermost(choices, cont, OldB, top, k)
      BY <1>0, <1>2, <1>3, <1>6, <2>1, InnermostExists, Zenon
    <2>3. k + 1 \in 1 .. top
      BY <1>0
    <2>4. k + 1 \in Position("goal", Last(cont))
      BY <1>2, <2>2, <2>3 DEF Innermost, Position
    <2>5. k + 1 <= n
      BY <1>6, <2>4 DEF Cut
    <2>6. k \in OldB + 1 .. n - 1
      BY <1>0, <2>5
    <2>. QED BY <2>2, <2>6
  <1>7. OldB + Bottoms(Run.for) <= n
    <2>1. CASE cont = << >>
      BY <2>1 DEF Cut
    <2>2. CASE cont # << >>
      <3>1. PICK k \in OldB + 1 .. n - 1 : Innermost(choices, cont, OldB, top, k)
        BY <1>6, <2>2
      <3>2. k \in OldB + 1 .. top
        BY <1>0
      <3>3. choices[k].kind # "bottom"
        BY <3>1 DEF Innermost, CatchOf, IsCatch
      <3>4. k > OldB + Bottoms(Run.for) /\ Bottoms(Run.for) \in 1 .. 2
        BY <1>1, <3>2, <3>3, AboveBottom, Facts
      <3>. QED BY <1>0, <3>4
    <2>. QED BY <2>1, <2>2
  <1>8. /\ Len(ds) = n /\ SameUpto(choices, ds, n)
        /\ OldRuns(ds, swig, runs) /\ NewestRun(ds, Run) /\ Distinct(ds)
    BY <1>0, <1>1, <1>7, CutBack
  <1>. HIDE DEF top, ds
  <1>9. ASSUME NEW i \in OldB + 1 .. n
        PROVE  /\ i \in OldB + 1 .. top /\ ds[i] = choices[i]
               /\ \A j \in i + 1 .. n : j \in i + 1 .. top /\ ds[j] = choices[j]
    <2>1. /\ i \in OldB + 1 .. top /\ i \in 1 .. n
          /\ \A j \in i + 1 .. n : j \in i + 1 .. top /\ j \in 1 .. n
      BY <1>0
    <2>. QED BY <1>8, <2>1 DEF SameUpto
  <1>10. ~ IsCatch(choices', Len(choices'))
    <2>1. ASSUME IsCatch(choices, n), n > OldB
          PROVE  FALSE
      <3>1. n \in OldB + 1 .. n /\ n + 1 .. n = {} /\ n \in OldB + 1 .. top
        BY <1>0, <2>1
      <3>2. PICK m \in 1 .. Len(cont) : cont[m] = choices[n].id
        BY <1>5, <2>1, <3>1
      <3>3. Len(cont) \in Nat /\ cont # << >>
        <4>1. Len(cont) \in Nat
          BY <1>2, LenProperties
        <4>. QED BY <3>2, <4>1, EmptySeq
      <3>4. PICK k \in OldB + 1 .. n - 1 : Innermost(choices, cont, OldB, top, k)
        BY <1>6, <3>3
      <3>5. /\ Len(Front(cont)) = Len(cont) - 1 /\ Last(cont) = cont[Len(cont)]
            /\ \A l \in 1 .. Len(cont) - 1 : Front(cont)[l] = cont[l]
        BY <1>2, <3>3, FrontProperties
      <3>6. \E j \in OldB + 1 .. n - 1 : CatchOf(choices, cont[m], j)
        <4>1. CASE m = Len(cont)
          BY <3>4, <3>5, <4>1 DEF Innermost
        <4>2. CASE m # Len(cont)
          <5>1. m \in 1 .. Len(Front(cont)) /\ Front(cont)[m] = cont[m]
            BY <3>3, <3>5, <4>2
          <5>2. PICK j \in OldB + 1 .. (k - 1) - 1 : CatchOf(choices, cont[m], j)
            BY <3>4, <5>1 DEF Innermost, Scopes
          <5>3. j \in OldB + 1 .. n - 1
            BY <1>0
          <5>. QED BY <5>2, <5>3
        <4>. QED BY <4>1, <4>2
      <3>7. PICK j \in OldB + 1 .. n - 1 : CatchOf(choices, cont[m], j)
        BY <3>6
      <3>8. j \in 1 .. top /\ n \in 1 .. top /\ j # n
        BY <1>0
      <3>9. CatchOf(choices, cont[m], n)
        BY <2>1, <3>2 DEF CatchOf
      <3>. QED BY <1>2, <3>7, <3>8, <3>9, OneOf DEF top
    <2>2. n > OldB
      <3>1. Bottoms(Run.for) \in 1 .. 2
        BY DEF Bottoms
      <3>. QED BY <1>0, <1>7, <3>1
    <2>3. n \in OldB + 1 .. n
      BY <1>0, <2>2
    <2>. QED BY <1>4, <1>8, <1>9, <2>1, <2>2, <2>3 DEF IsCatch
  <1>11. SwigAgrees(choices', swig', OldB', n)
    <2>. SUFFICES ASSUME NEW i \in OldB + 1 .. n, IsCatch(ds, i)
                  PROVE  swig[ds[i].id] = 2 <=> \E j \in i + 1 .. n : ResetOf(ds, ds[i].id, j)
      BY <1>4 DEF SwigAgrees
    <2>1. IsCatch(choices, i)
      BY <1>9 DEF IsCatch
    <2>2. swig[ds[i].id] = 2 <=> \E j \in i + 1 .. top : ResetOf(choices, choices[i].id, j)
      BY <1>3, <1>9, <2>1 DEF SwigAgrees
    <2>3. CASE \E j \in i + 1 .. n : ResetOf(choices, choices[i].id, j)
      BY <1>9, <2>2, <2>3 DEF ResetOf
    <2>4. CASE \E m \in 1 .. Len(cont) : cont[m] = choices[i].id
      <3>1. \A j \in i + 1 .. top : j \in OldB + 1 .. top
        BY <1>0
      <3>2. \A j \in i + 1 .. top : ~ ResetOf(choices, choices[i].id, j)
        BY <1>3, <2>4, <3>1 DEF Scopes
      <3>. QED BY <1>9, <2>2, <3>2 DEF ResetOf
    <2>. QED BY <1>5, <2>1, <2>3, <2>4
  <1>12. Scopes(choices', cont', OldB', n)
    <2>1. ASSUME NEW m \in 1 .. Len(cont)
          PROVE  \E i \in OldB + 1 .. n - 1 : CatchOf(ds, cont[m], i)
      <3>1. Len(cont) \in Nat /\ cont # << >>
        <4>1. Len(cont) \in Nat
          BY <1>2, LenProperties
        <4>. QED BY <4>1, EmptySeq
      <3>2. PICK k \in OldB + 1 .. n - 1 : Innermost(choices, cont, OldB, top, k)
        BY <1>6, <3>1
      <3>3. /\ Len(Front(cont)) = Len(cont) - 1 /\ Last(cont) = cont[Len(cont)]
            /\ \A l \in 1 .. Len(cont) - 1 : Front(cont)[l] = cont[l]
        BY <1>2, <3>1, FrontProperties
      <3>4. CASE m = Len(cont)
        <4>1. k \in OldB + 1 .. n
          BY <1>0
        <4>. QED BY <1>9, <3>2, <3>3, <3>4, <4>1 DEF Innermost, CatchOf, IsCatch
      <3>5. CASE m # Len(cont)
        <4>1. m \in 1 .. Len(Front(cont)) /\ Front(cont)[m] = cont[m]
          BY <3>1, <3>3, <3>5
        <4>2. PICK j \in OldB + 1 .. (k - 1) - 1 : CatchOf(choices, cont[m], j)
          BY <3>2, <4>1 DEF Innermost, Scopes
        <4>3. j \in OldB + 1 .. n - 1 /\ j \in OldB + 1 .. n
          BY <1>0
        <4>. QED BY <1>9, <4>2, <4>3 DEF CatchOf, IsCatch
      <3>. QED BY <3>4, <3>5
    <2>2. ASSUME cont # << >>
          PROVE  \E i \in OldB + 1 .. n - 1 : CatchOf(ds, Last(cont), i) /\ ds[i].cont = Front(cont)
      <3>1. PICK k \in OldB + 1 .. n - 1 : Innermost(choices, cont, OldB, top, k)
        BY <1>6, <2>2
      <3>2. k \in OldB + 1 .. n
        BY <1>0
      <3>. QED BY <1>9, <3>1, <3>2 DEF Innermost, CatchOf, IsCatch
    <2>3. \A m \in 1 .. Len(cont) : \A j \in OldB + 1 .. n : ~ ResetOf(ds, cont[m], j)
      BY <1>3, <1>9 DEF Scopes, ResetOf
    <2>4. ASSUME NEW i \in OldB + 1 .. n, IsCatch(ds, i)
          PROVE  \/ \E m \in 1 .. Len(cont) : cont[m] = ds[i].id
                 \/ \E j \in i + 1 .. n : ResetOf(ds, ds[i].id, j)
      <3>1. IsCatch(choices, i)
        BY <1>9, <2>4 DEF IsCatch
      <3>. QED BY <1>5, <1>9, <3>1 DEF ResetOf
    <2>. QED BY <1>4, <2>1, <2>2, <2>3, <2>4 DEF Scopes
  <1>. QED BY <1>1, <1>3, <1>4, <1>8, <1>10, <1>11, <1>12, SettledStep

LEMMA CallStep ==
  ASSUME IInv, TypeOK', NEW for \in {"command", "rungoal"}, Call(for)
  PROVE  IInv'
  <1>. DEFINE n == Len(choices)
              b == Bottoms(for)
              bs == [i \in 1 .. b |-> Choice("bottom", 0, << >>)]
              ds == choices \o bs
              r == NewRun(for)
  <1>1. ~ astray /\ pc = "run"
    BY DEF Call, Running
  <1>2. /\ choices \in Seq(ChoiceType) /\ runs \in Seq(RunType) /\ runs # << >>
        /\ Len(runs) \in Nat
        /\ Run = runs[Len(runs)] /\ Run \in RunType /\ OldB = Run.oldB
        /\ OldRuns(choices, swig, runs) /\ NewestRun(choices, Run) /\ Distinct(choices)
        /\ cont \in Seq(CatchId)
    BY <1>1, Facts
  <1>0. n \in Nat /\ OldB \in Nat /\ OldB <= n /\ b \in 1 .. 2
    <2>1. /\ OldB + Bottoms(Run.for) <= n /\ Bottoms(Run.for) \in 1 .. 2
          /\ n \in Nat /\ OldB \in Nat
      BY <1>1, Facts
    <2>. QED BY <2>1 DEF Bottoms
  <1>3. /\ ~ IsCatch(choices, n) /\ SwigAgrees(choices, swig, OldB, n)
        /\ Scopes(choices, cont, OldB, n) /\ ~ (unwinding /\ Held)
    BY <1>1, NotInFlight
  <1>4. /\ choices' = ds /\ runs' = Append(runs, r) /\ swig' = swig /\ cont' = << >> /\ pc' = pc
        /\ unwinding' = unwinding /\ thrown' = thrown /\ caught' = caught /\ astray' = astray
    BY DEF Call, ghosts
  <1>5. bs \in Seq(ChoiceType) /\ Len(bs) = b /\ \A i \in 1 .. b : bs[i].kind = "bottom"
    <2>1. \A i \in 1 .. b : bs[i].kind = "bottom"
      BY DEF Choice
    <2>. QED BY <2>1, BottomsTyped
  <1>6. /\ r \in RunType /\ r.oldB = n /\ r.for = for /\ r.cont = cont
    BY <1>0, <1>2 DEF NewRun, RunType
  <1>. HIDE DEF bs, r
  <1>7. /\ Len(ds) = n + b
        /\ \A i \in 1 .. n + b : ds[i] = IF i <= n THEN choices[i] ELSE bs[i - n]
    <2>1. Len(choices \o bs) = Len(choices) + Len(bs)
      BY <1>2, <1>5, ConcatProperties
    <2>2. \A i \in 1 .. Len(choices) + Len(bs) :
            (choices \o bs)[i] = IF i <= Len(choices) THEN choices[i] ELSE bs[i - Len(choices)]
      BY <1>2, <1>5, ConcatProperties
    <2>. QED BY <2>1, <2>2, <1>5
  <1>. HIDE DEF n, b, ds
  <1>8. SameUpto(choices, ds, n)
    <2>1. \A i \in 1 .. n : i \in 1 .. n + b /\ i <= n
      BY <1>0
    <2>. QED BY <1>7, <2>1 DEF SameUpto
  <1>9. \A i \in 1 .. b : ds[n + i].kind = "bottom"
    <2>1. \A i \in 1 .. b : n + i \in 1 .. n + b /\ ~ (n + i <= n) /\ (n + i) - n = i
      BY <1>0
    <2>. QED BY <1>5, <1>7, <2>1
  <1>10. \A i \in n + 1 .. n + b : ds[i].kind = "bottom"
    <2>1. \A i \in n + 1 .. n + b : i - n \in 1 .. b /\ n + (i - n) = i
      BY <1>0
    <2>. QED BY <1>9, <2>1
  <1>11. Run' = r /\ OldB' = n
    <2>1. Len(runs') = Len(runs) + 1 /\ runs'[Len(runs) + 1] = r
      BY <1>2, <1>4, <1>6, AppendProperties
    <2>. QED BY <1>6, <2>1 DEF Run, OldB
  <1>12. OldRuns(choices', swig', runs')
    <2>1. Waits(choices, swig, Run, r)
      BY <1>2, <1>3, <1>6 DEF Waits, NewestRun, n
    <2>2. OldRuns(choices, swig, runs')
      BY <1>0, <1>2, <1>4, <1>6, <2>1, OldRunsCall
    <2>3. /\ runs' \in Seq(RunType) /\ Len(runs') = Len(runs) + 1 /\ runs'[Len(runs) + 1] = r
      BY <1>2, <1>4, <1>6, AppendProperties
    <2>4. runs' # << >>
      BY <1>2, <2>3, EmptySeq
    <2>. DEFINE m == runs'[Len(runs')].oldB
    <2>5. SameUpto(choices, choices', m)
      BY <1>4, <1>6, <1>8, <2>3
    <2>6. \A i \in 1 .. m : IsCatch(choices, i) => swig'[choices[i].id] = swig[choices[i].id]
      BY <1>4
    <2>. QED BY <2>2, <2>3, <2>4, <2>5, <2>6, OldRunsKept
  <1>13. ~ \E i \in n + 1 .. n + b : IsCatch(ds, i) \/ ds[i].kind # "bottom"
    BY <1>10 DEF IsCatch
  <1>14. NewestRun(choices', Run')
    <2>1. Bottomed(ds, r, n + b)
      BY <1>0, <1>6, <1>9 DEF Bottomed, b
    <2>2. Linked(ds, n, n + b)
      BY <1>13 DEF Linked, LinkedAt
    <2>. QED BY <1>4, <1>6, <1>7, <1>11, <1>13, <2>1, <2>2 DEF NewestRun
  <1>15. Distinct(choices')
    <2>1. \A i \in 1 .. n + b : i \in 1 .. n \/ i \in n + 1 .. n + b
      BY <1>0
    <2>2. \A i, j \in 1 .. n + b :
            ds[i].kind \in {"catch", "reset"} /\ ds[i].kind = ds[j].kind /\ ds[i].id = ds[j].id => i = j
      BY <1>2, <1>8, <1>13, <2>1 DEF SameUpto, Distinct, n
    <2>3. ASSUME NEW j \in 1 .. n + b, ds[j].kind = "reset"
          PROVE  \E k \in 1 .. j - 1 : CatchOf(ds, ds[j].id, k)
      <3>1. j \in 1 .. n /\ ds[j] = choices[j]
        BY <1>8, <1>13, <2>1, <2>3 DEF SameUpto
      <3>2. \A k \in 1 .. j - 1 : k \in 1 .. n
        BY <1>0, <3>1
      <3>3. PICK k \in 1 .. j - 1 : CatchOf(choices, choices[j].id, k)
        BY <1>2, <2>3, <3>1 DEF Distinct, n
      <3>4. ds[k] = choices[k]
        BY <1>8, <3>2 DEF SameUpto
      <3>. QED BY <3>1, <3>3, <3>4 DEF CatchOf, IsCatch
    <2>4. \A i \in 1 .. n + b : IsCatch(ds, i) => ds[i].id \in CatchId
      BY <1>2, <1>8, <1>13, <2>1 DEF SameUpto, Distinct, IsCatch, n
    <2>. QED BY <1>4, <1>7, <2>2, <2>3, <2>4 DEF Distinct
  <1>16. ~ IsCatch(choices', n + b)
    <2>1. n + b \in n + 1 .. n + b
      BY <1>0
    <2>. QED BY <1>4, <1>13, <2>1
  <1>17. SwigAgrees(choices', swig', OldB', n + b)
    BY <1>4, <1>11, <1>13 DEF SwigAgrees
  <1>18. Scopes(choices', cont', OldB', n + b)
    <2>1. Len(cont') = 0 /\ 1 .. 0 = {}
      BY <1>4, EmptySeq
    <2>. QED BY <1>4, <1>11, <1>13, <2>1 DEF Scopes
  <1>. QED BY <1>1, <1>3, <1>4, <1>7, <1>12, <1>14, <1>15, <1>16, <1>17, <1>18, SettledStep

------------------------------------------------------------------------------
(***************************************************************************)
(* A run that ends                                                         *)
(***************************************************************************)
LEMMA EndRunStep ==
  ASSUME IInv, TypeOK', ~ astray, EndRun, swig' = swig,
         thrown' = thrown, caught' = caught, astray' = astray, ~ (unwinding' /\ Held)
  PROVE  IInv'
  <1>2. /\ choices \in Seq(ChoiceType) /\ runs \in Seq(RunType) /\ runs # << >>
        /\ Len(runs) \in Nat /\ Len(runs) >= 1
        /\ Run = runs[Len(runs)] /\ Run \in RunType /\ OldB = Run.oldB
        /\ OldRuns(choices, swig, runs) /\ NewestRun(choices, Run) /\ Distinct(choices)
        /\ \A i \in 1 .. Bottoms(Run.for) : choices[OldB + i].kind = "bottom"
    BY Facts
  <1>0. /\ Len(choices) \in Nat /\ OldB \in Nat /\ OldB <= Len(choices)
        /\ OldB + Bottoms(Run.for) <= Len(choices)
        /\ Len(runs) = 1 => OldB = 0 /\ Run.for = "command"
    <2>1. /\ OldB + Bottoms(Run.for) <= Len(choices) /\ Bottoms(Run.for) \in 1 .. 2
          /\ Len(choices) \in Nat /\ OldB \in Nat
          /\ Len(runs) = 1 => OldB = 0 /\ Run.for = "command"
      BY Facts
    <2>. QED BY <2>1
  <1>1. CASE Len(runs) = 1
    <2>. DEFINE ds == Upto(2)
                r == [Run EXCEPT !.c22 = FALSE]
    <2>1. OldB = 0 /\ Run.for = "command" /\ Bottoms(Run.for) = 2
      BY <1>0, <1>1 DEF Bottoms
    <2>2. /\ Len(ds) = 2 /\ SameUpto(choices, ds, 2)
          /\ OldRuns(ds, swig, runs) /\ NewestRun(ds, Run) /\ Distinct(ds)
      <3>1. 2 \in Nat /\ OldB + Bottoms(Run.for) <= 2 /\ 2 <= Len(choices)
        BY <1>0, <2>1
      <3>. QED BY <3>1, CutBack
    <2>3. /\ choices' = ds /\ cont' = << >> /\ pc' = "run"
          /\ runs' = [runs EXCEPT ![Len(runs)].c22 = FALSE]
      BY <1>1 DEF EndRun
    <2>4. \A i \in 1 .. 2 : ds[i].kind = "bottom"
      BY <1>2, <2>1, <2>2 DEF SameUpto
    <2>. HIDE DEF ds
    <2>5. /\ runs' \in Seq(RunType) /\ runs' # << >> /\ runs'[Len(runs')] = r
          /\ OldRuns(ds, swig, runs')
      <3>1. LET ts == [runs EXCEPT ![Len(runs)].c22 = FALSE]
            IN  /\ ts \in Seq(RunType) /\ ts # << >>
                /\ ts[Len(ts)] = [runs[Len(runs)] EXCEPT !.c22 = FALSE]
                /\ OldRuns(ds, swig, ts)
        BY <1>2, <2>2, OldRunsUpdate
      <3>. QED BY <1>2, <2>3, <3>1
    <2>6. r \in RunType /\ r.oldB = 0 /\ r.for = Run.for
      BY <1>2, <2>1 DEF RunType
    <2>. HIDE DEF r
    <2>7. Run' = r /\ OldB' = 0
      BY <2>5, <2>6 DEF Run, OldB
    <2>8. ~ \E i \in 1 .. 2 : IsCatch(ds, i)
      BY <2>4 DEF IsCatch
    <2>9. NewestRun(choices', Run')
      <3>1. Bottomed(ds, r, 2)
        BY <1>2, <2>1, <2>2, <2>6 DEF NewestRun, Bottomed
      <3>2. Linked(ds, 0, 2)
        BY <1>2, <2>1, <2>2 DEF NewestRun
      <3>3. 0 + 1 = 1
        OBVIOUS
      <3>. QED BY <2>2, <2>3, <2>6, <2>7, <2>8, <3>1, <3>2, <3>3 DEF NewestRun
    <2>10. ~ IsCatch(choices', 2)
      BY <2>3, <2>8
    <2>11. SwigAgrees(choices', swig', OldB', 2)
      BY <2>3, <2>7, <2>8 DEF SwigAgrees
    <2>12. Scopes(choices', cont', OldB', 2)
      <3>1. Len(cont') = 0 /\ 1 .. 0 = {} /\ 0 + 1 = 1
        BY <2>3, EmptySeq
      <3>. QED BY <2>3, <2>7, <2>8, <3>1 DEF Scopes
    <2>. QED BY <2>2, <2>3, <2>5, <2>9, <2>10, <2>11, <2>12, SettledStep
  <1>3. CASE Len(runs) # 1
    <2>. DEFINE n == OldB
                ds == Upto(n)
                ts == Front(runs)
                r == ts[Len(ts)]
    <2>1. Len(runs) > 1
      <3>1. \A k \in Nat : k >= 1 /\ k # 1 => k > 1
        OBVIOUS
      <3>. QED BY <1>2, <1>3, <3>1
    <2>2. /\ choices' = ds /\ cont' = Run.cont /\ pc' \in {"run", "fail"} /\ runs' = ts
      BY <1>3 DEF EndRun
    <2>3. /\ ts \in Seq(RunType) /\ ts # << >> /\ r \in RunType /\ r.oldB <= n
          /\ OldRuns(choices, swig, ts) /\ Waits(choices, swig, r, Run)
      BY <1>2, <2>1, OldRunsReturn
    <2>4. Run' = r /\ OldB' = r.oldB
      BY <2>2 DEF Run, OldB
    <2>5. Len(ds) = n /\ SameUpto(choices, ds, n)
      BY <1>0, <1>2, UptoProperties DEF Upto, SameUpto
    <2>. HIDE DEF ds, ts, r, n
    <2>6. r.oldB \in Nat /\ n \in Nat /\ \A i \in 1 .. r.oldB : i \in 1 .. n
      BY <1>0, <2>3 DEF RunType, n
    <2>7. OldRuns(choices', swig', runs')
      <3>. DEFINE m == ts[Len(ts)].oldB
      <3>1. SameUpto(choices, ds, m)
        BY <2>5, <2>6 DEF SameUpto, r
      <3>2. \A i \in 1 .. m : IsCatch(choices, i) => swig'[choices[i].id] = swig[choices[i].id]
        OBVIOUS
      <3>3. OldRuns(ds, swig', ts)
        BY <2>3, <3>1, <3>2, OldRunsKept
      <3>. QED BY <2>2, <3>3
    <2>8. Waits(ds, swig, r, Run)
      <3>1. \A i \in 1 .. Run.oldB : IsCatch(choices, i) => swig[choices[i].id] = swig[choices[i].id]
        OBVIOUS
      <3>2. SameUpto(choices, ds, Run.oldB) /\ r.oldB <= Run.oldB
        BY <1>2, <2>3, <2>5 DEF n
      <3>. QED BY <1>2, <2>3, <3>1, <3>2, WaitsKept
    <2>9. NewestRun(choices', Run')
      BY <1>2, <2>2, <2>4, <2>5, <2>8 DEF Waits, NewestRun, n
    <2>10. Distinct(choices')
      <3>1. Len(choices) \in Nat /\ Len(ds) \in Nat /\ Len(ds) <= Len(choices)
        BY <1>0, <2>5 DEF n
      <3>. QED BY <1>2, <2>2, <2>5, <3>1, DistinctKept
    <2>11. /\ ~ IsCatch(choices', Len(choices'))
           /\ SwigAgrees(choices', swig', OldB', Len(choices'))
           /\ Scopes(choices', cont', OldB', Len(choices'))
      BY <1>2, <2>2, <2>4, <2>5, <2>8 DEF Waits, n
    <2>. QED BY <2>2, <2>7, <2>9, <2>10, <2>11, SettledStep
  <1>. QED BY <1>1, <1>3

LEMMA ReturnStep ==
  ASSUME IInv, TypeOK', Return
  PROVE  IInv'
  <1>1. /\ ~ astray /\ pc = "run" /\ EndRun /\ swig' = swig
        /\ unwinding' = unwinding /\ thrown' = thrown /\ caught' = caught /\ astray' = astray
    BY DEF Return, Running, ghosts
  <1>2. ~ (unwinding /\ Held)
    BY <1>1, NotInFlight
  <1>. QED BY <1>1, <1>2, EndRunStep

LEMMA ResumeBottomStep ==
  ASSUME IInv, TypeOK', ResumeBottom
  PROVE  IInv'
  <1>1. /\ ~ astray /\ EndRun /\ swig' = swig
        /\ unwinding' = FALSE /\ thrown' = thrown /\ caught' = caught /\ astray' = astray
    BY DEF ResumeBottom, Resuming
  <1>. QED BY <1>1, EndRunStep

------------------------------------------------------------------------------
(***************************************************************************)
(* Failure                                                                 *)
(***************************************************************************)
(* What the choice point on top does not say anything about *)
LEMMA SwigAgreesCut ==
  ASSUME NEW cs, NEW sw, NEW lo \in Nat, NEW hi \in Nat, NEW n \in Nat, n <= hi,
         SwigAgrees(cs, sw, lo, hi), \A j \in n + 1 .. hi : cs[j].kind # "reset"
  PROVE  SwigAgrees(cs, sw, lo, n)
  <1>. SUFFICES ASSUME NEW i \in lo + 1 .. n, IsCatch(cs, i)
                PROVE  sw[cs[i].id] = 2 <=> \E j \in i + 1 .. n : ResetOf(cs, cs[i].id, j)
    BY DEF SwigAgrees
  <1>1. /\ i \in lo + 1 .. hi
        /\ \A j \in i + 1 .. n : j \in i + 1 .. hi
        /\ \A j \in i + 1 .. hi : j \in i + 1 .. n \/ j \in n + 1 .. hi
    OBVIOUS
  <1>2. sw[cs[i].id] = 2 <=> \E j \in i + 1 .. hi : ResetOf(cs, cs[i].id, j)
    BY <1>1 DEF SwigAgrees
  <1>. QED BY <1>1, <1>2 DEF ResetOf

(* A choice point of a catch is on top only of what a throw leaves. *)
LEMMA NotBelow ==
  ASSUME IInv, ~ astray, NEW n \in Nat, OldB < n, n < Len(choices), choices[n + 1].kind # "goal"
  PROVE  ~ IsCatch(choices, n)
  <1>1. OldB \in Nat /\ Len(choices) \in Nat /\ OldB = Run.oldB /\ NewestRun(choices, Run)
    BY Facts
  <1>2. n \in OldB + 1 .. Len(choices)
    BY <1>1
  <1>. QED BY <1>1, <1>2 DEF NewestRun, Linked, LinkedAt

(* The choice point that failure finds, when it is not the bottom of a run *)
LEMMA TopAbove ==
  ASSUME IInv, ~ astray, Top.kind # "bottom"
  PROVE  LET n == Len(choices) - 1
         IN  /\ n \in Nat /\ Len(choices) = n + 1 /\ OldB < n /\ OldB \in Nat
             /\ OldB + Bottoms(Run.for) <= n /\ n <= Len(choices) /\ n < Len(choices)
             /\ n + 1 \in OldB + 1 .. Len(choices) /\ Top = choices[n + 1]
             /\ LinkedAt(choices, OldB, Len(choices), n + 1)
  <1>. DEFINE top == Len(choices)
  <1>1. /\ top \in Nat /\ OldB \in Nat /\ Bottoms(Run.for) \in 1 .. 2
        /\ OldB + Bottoms(Run.for) <= top /\ Top = choices[top]
    BY Facts
  <1>2. top \in OldB + 1 .. top
    BY <1>1
  <1>3. top > OldB + Bottoms(Run.for)
    BY <1>1, <1>2, AboveBottom
  <1>4. Linked(choices, OldB, top)
    BY Facts DEF NewestRun
  <1>5. LinkedAt(choices, OldB, top, top)
    BY <1>2, <1>4 DEF Linked
  <1>. HIDE DEF top
  <1>6. /\ top - 1 \in Nat /\ top = (top - 1) + 1 /\ OldB < top - 1
        /\ OldB + Bottoms(Run.for) <= top - 1 /\ top - 1 <= top /\ top - 1 < top
    BY <1>1, <1>3
  <1>. QED BY <1>1, <1>2, <1>5, <1>6 DEF top

LEMMA ResumeClausesStep ==
  ASSUME IInv, TypeOK', ResumeClauses
  PROVE  IInv'
  <1>. DEFINE n == Len(choices) - 1
  <1>1. ~ astray /\ pc = "fail" /\ Top.kind = "clauses"
    BY DEF ResumeClauses, Resuming
  <1>2. /\ n \in Nat /\ Len(choices) = n + 1 /\ OldB < n /\ OldB \in Nat
        /\ OldB + Bottoms(Run.for) <= n /\ n <= Len(choices) /\ n < Len(choices)
        /\ n + 1 \in OldB + 1 .. Len(choices) /\ Top = choices[n + 1]
        /\ LinkedAt(choices, OldB, Len(choices), n + 1)
    BY <1>1, TopAbove
  <1>3. /\ ~ IsCatch(choices, Len(choices)) /\ SwigAgrees(choices, swig, OldB, Len(choices))
        /\ ~ (unwinding /\ Held)
    BY <1>1, NotInFlight
  <1>4. /\ runs' = runs /\ swig' = swig /\ cont' = Top.cont /\ pc' = "run"
        /\ unwinding' = unwinding /\ thrown' = thrown /\ caught' = caught /\ astray' = astray
        /\ Run' = Run /\ OldB' = OldB
    BY DEF ResumeClauses, ghosts, Run, OldB
  <1>5. Scopes(choices, Top.cont, OldB, n)
    <2>1. (n + 1) - 1 = n
      BY <1>2
    <2>. QED BY <1>1, <1>2, <2>1 DEF LinkedAt
  <1>6. CASE choices' = choices
    <2>1. Scopes(choices, Top.cont, OldB, n + 1)
      <3>1. SameUpto(choices, choices, n)
        BY DEF SameUpto
      <3>. QED BY <1>1, <1>2, <1>5, <3>1, ScopesExtended
    <2>2. OldRuns(choices, swig, runs) /\ NewestRun(choices, Run) /\ Distinct(choices)
      BY <1>1, Facts
    <2>. HIDE DEF n
    <2>. QED BY <1>1, <1>2, <1>3, <1>4, <1>6, <2>1, <2>2, SettledStep
  <1>7. CASE Pop
    <2>1. choices' = Upto(n)
      BY <1>7 DEF Pop, Front, Upto
    <2>2. /\ Len(Upto(n)) = n /\ SameUpto(choices, Upto(n), n)
          /\ OldRuns(Upto(n), swig, runs) /\ NewestRun(Upto(n), Run) /\ Distinct(Upto(n))
      BY <1>1, <1>2, CutBack
    <2>3. ~ IsCatch(choices, n)
      BY <1>1, <1>2, NotBelow
    <2>. HIDE DEF n
    <2>4. ~ IsCatch(Upto(n), n)
      <3>1. n \in 1 .. n
        BY <1>2
      <3>. QED BY <2>2, <2>3, <3>1 DEF IsCatch, SameUpto
    <2>5. SwigAgrees(Upto(n), swig, OldB, n)
      <3>1. \A j \in n + 1 .. Len(choices) : choices[j].kind # "reset"
        BY <1>1, <1>2
      <3>2. SwigAgrees(choices, swig, OldB, n)
        BY <1>2, <1>3, <3>1, SwigAgreesCut
      <3>. QED BY <1>2, <2>2, <3>2, SwigAgreesKept
    <2>6. Scopes(Upto(n), Top.cont, OldB, n)
      BY <1>2, <1>5, <2>2, ScopesKept
    <2>. QED BY <1>1, <1>3, <1>4, <2>1, <2>2, <2>4, <2>5, <2>6, SettledStep
  <1>. QED BY <1>6, <1>7 DEF ResumeClauses

LEMMA ResumeGoalStep ==
  ASSUME IInv, TypeOK', ResumeGoal
  PROVE  IInv'
  <1>. DEFINE n == Len(choices) - 1
              m == n - 1
  <1>1. ~ astray /\ pc = "fail" /\ Top.kind = "goal"
    BY DEF ResumeGoal, Resuming
  <1>2. /\ n \in Nat /\ Len(choices) = n + 1 /\ OldB < n /\ OldB \in Nat
        /\ n + 1 \in OldB + 1 .. Len(choices) /\ Top = choices[n + 1]
        /\ LinkedAt(choices, OldB, Len(choices), n + 1)
    BY <1>1, TopAbove
  <1>3. /\ SwigAgrees(choices, swig, OldB, Len(choices)) /\ ~ (unwinding /\ Held)
    BY <1>1, NotInFlight
  <1>4. /\ runs' = runs /\ swig' = swig /\ pc' = "fail"
        /\ unwinding' = unwinding /\ thrown' = thrown /\ caught' = caught /\ astray' = astray
        /\ Run' = Run /\ OldB' = OldB
    BY <1>1 DEF ResumeGoal, ghosts, Run, OldB
  <1>5. n \in OldB + 1 .. Len(choices) /\ CatchOf(choices, Top.id, n)
    <2>1. (n + 1) - 1 = n
      BY <1>2
    <2>. QED BY <1>1, <1>2, <2>1 DEF LinkedAt
  <1>6. choices' = Upto(m)
    <2>1. PICK i \in Position("catch", Top.id) : choices' = Upto(i - 1)
      BY DEF ResumeGoal
    <2>2. i \in 1 .. Len(choices) /\ CatchOf(choices, Top.id, i)
      BY <1>1, Facts DEF Position, CatchOf, IsCatch
    <2>3. n \in 1 .. Len(choices) /\ Distinct(choices)
      BY <1>1, <1>2, <1>5, Facts
    <2>4. i = n
      BY <1>5, <2>2, <2>3, OneOf
    <2>. QED BY <2>1, <2>4
  <1>7. OldB + Bottoms(Run.for) < n /\ Bottoms(Run.for) \in 1 .. 2
    <2>1. choices[n].kind # "bottom"
      BY <1>5 DEF CatchOf, IsCatch
    <2>2. Bottoms(Run.for) \in 1 .. 2
      BY DEF Bottoms
    <2>3. n > OldB + Bottoms(Run.for)
      BY <1>1, <1>5, <2>1, AboveBottom
    <2>. QED BY <1>2, <2>2, <2>3
  <1>. HIDE DEF n, m
  <1>8. /\ m \in Nat /\ n = m + 1 /\ Len(choices) = m + 2 /\ OldB + Bottoms(Run.for) <= m /\ OldB < m
        /\ m <= Len(choices) /\ m < Len(choices)
    BY <1>2, <1>7 DEF m
  <1>9. /\ Len(Upto(m)) = m /\ SameUpto(choices, Upto(m), m)
        /\ OldRuns(Upto(m), swig, runs) /\ NewestRun(Upto(m), Run) /\ Distinct(Upto(m))
    BY <1>1, <1>8, CutBack
  <1>10. ~ IsCatch(Upto(m), m)
    <2>1. choices[m + 1].kind # "goal"
      BY <1>5, <1>8 DEF CatchOf, IsCatch
    <2>2. ~ IsCatch(choices, m) /\ m \in 1 .. m
      BY <1>1, <1>2, <1>8, <2>1, NotBelow
    <2>. QED BY <1>9, <2>2 DEF IsCatch, SameUpto
  <1>11. SwigAgrees(Upto(m), swig, OldB, m)
    <2>1. ASSUME NEW j \in m + 1 .. Len(choices)
          PROVE  choices[j].kind # "reset"
      <3>1. j = n \/ j = n + 1
        BY <1>8
      <3>. QED BY <1>1, <1>2, <1>5, <3>1 DEF CatchOf, IsCatch
    <2>2. SwigAgrees(choices, swig, OldB, m)
      <3>1. Len(choices) \in Nat
        BY <1>8
      <3>. QED BY <1>2, <1>3, <1>8, <2>1, <3>1, SwigAgreesCut
    <2>. QED BY <1>2, <1>8, <1>9, <2>2, SwigAgreesKept
  <1>. QED BY <1>1, <1>3, <1>4, <1>6, <1>9, <1>10, <1>11, SettledStep

LEMMA ResumeResetStep ==
  ASSUME IInv, TypeOK', ResumeReset
  PROVE  IInv'
  <1>. DEFINE n == Len(choices) - 1
              ds == Upto(n)
              id == Top.id
  <1>1. ~ astray /\ pc = "fail" /\ Top.kind = "reset"
    BY DEF ResumeReset, Resuming
  <1>2. /\ n \in Nat /\ Len(choices) = n + 1 /\ OldB < n /\ OldB \in Nat
        /\ OldB + Bottoms(Run.for) <= n /\ n <= Len(choices) /\ n < Len(choices)
        /\ n + 1 \in OldB + 1 .. Len(choices) /\ Top = choices[n + 1]
        /\ LinkedAt(choices, OldB, Len(choices), n + 1)
    BY <1>1, TopAbove
  <1>3. /\ SwigAgrees(choices, swig, OldB, Len(choices)) /\ ~ (unwinding /\ Held)
    BY <1>1, NotInFlight
  <1>4. /\ runs' = runs /\ swig' = [swig EXCEPT ![id] = 1] /\ pc' = "fail" /\ choices' = ds
        /\ unwinding' = unwinding /\ thrown' = thrown /\ caught' = caught /\ astray' = astray
        /\ Run' = Run /\ OldB' = OldB
    BY <1>1 DEF ResumeReset, ghosts, Run, OldB, Pop, Front, Upto
  <1>5. /\ Distinct(choices) /\ runs \in Seq(RunType) /\ runs # << >>
        /\ Run = runs[Len(runs)] /\ OldB = Run.oldB /\ swig \in [CatchId -> 1 .. 2]
        /\ \A i \in 1 .. Len(choices) : choices[i] \in ChoiceType
    BY <1>1, Facts
  <1>6. /\ Len(ds) = n /\ SameUpto(choices, ds, n)
        /\ OldRuns(ds, swig, runs) /\ NewestRun(ds, Run) /\ Distinct(ds)
    BY <1>1, <1>2, CutBack
  <1>7. ~ IsCatch(choices, n)
    BY <1>1, <1>2, NotBelow
  <1>8. PICK k \in OldB + 1 .. (n + 1) - 1 : CatchOf(choices, id, k)
    BY <1>1, <1>2 DEF LinkedAt
  <1>. HIDE DEF n, ds, id
  <1>9. k \in OldB + 1 .. n /\ k \in 1 .. Len(choices) /\ n + 1 \in 1 .. Len(choices)
    BY <1>2
  <1>10. ResetOf(choices, id, n + 1)
    BY <1>1, <1>2 DEF ResetOf, id
  <1>11. ASSUME NEW i \in 1 .. n
         PROVE  /\ ds[i] = choices[i] /\ ~ ResetOf(choices, id, i)
                /\ IsCatch(choices, i) /\ i # k =>
                     choices[i].id # id /\ swig'[choices[i].id] = swig[choices[i].id]
    <2>1. i \in 1 .. Len(choices) /\ i # n + 1
      BY <1>2
    <2>2. ds[i] = choices[i]
      BY <1>6 DEF SameUpto
    <2>3. ~ ResetOf(choices, id, i)
      BY <1>5, <1>9, <1>10, <2>1, OneOf
    <2>4. IsCatch(choices, i) /\ i # k => choices[i].id # id
      BY <1>5, <1>8, <1>9, <2>1, OneOf DEF CatchOf
    <2>5. IsCatch(choices, i) /\ choices[i].id # id => swig'[choices[i].id] = swig[choices[i].id]
      BY <1>4, <1>5, <2>1 DEF Distinct
    <2>. QED BY <2>2, <2>3, <2>4, <2>5
  <1>12. OldRuns(choices', swig', runs')
    <2>. DEFINE b == runs[Len(runs)].oldB
    <2>1. \A i \in 1 .. b : i \in 1 .. n /\ i # k
      BY <1>2, <1>5, <1>9
    <2>2. SameUpto(ds, ds, b)
      BY DEF SameUpto
    <2>3. \A i \in 1 .. b : IsCatch(ds, i) => swig'[ds[i].id] = swig[ds[i].id]
      BY <1>11, <2>1 DEF IsCatch
    <2>4. OldRuns(ds, swig', runs)
      BY <1>5, <1>6, <2>2, <2>3, OldRunsKept
    <2>. QED BY <1>4, <2>4
  <1>13. ~ IsCatch(choices', n)
    <2>1. n \in 1 .. n
      BY <1>2
    <2>. QED BY <1>4, <1>7, <1>11, <2>1 DEF IsCatch
  <1>14. SwigAgrees(choices', swig', OldB', n)
    <2>. SUFFICES ASSUME NEW i \in OldB + 1 .. n, IsCatch(ds, i)
                  PROVE  swig'[ds[i].id] = 2 <=> \E j \in i + 1 .. n : ResetOf(ds, ds[i].id, j)
      BY <1>4 DEF SwigAgrees
    <2>1. /\ i \in 1 .. n /\ i \in OldB + 1 .. Len(choices)
          /\ \A j \in i + 1 .. n : j \in 1 .. n /\ j \in i + 1 .. Len(choices)
          /\ \A j \in i + 1 .. Len(choices) : j \in i + 1 .. n \/ j = n + 1
      BY <1>2
    <2>2. ds[i] = choices[i] /\ IsCatch(choices, i)
      BY <1>11, <2>1 DEF IsCatch
    <2>3. CASE i = k
      <3>1. ds[i].id = id /\ ~ \E j \in i + 1 .. n : ResetOf(ds, id, j)
        BY <1>8, <1>11, <2>1, <2>2, <2>3 DEF CatchOf, ResetOf
      <3>2. swig'[id] # 2
        <4>1. id \in CatchId
          BY <1>5, <1>8, <1>9 DEF Distinct, CatchOf
        <4>2. swig'[id] = 1
          BY <1>4, <1>5, <4>1
        <4>. QED BY <4>2
      <3>. QED BY <3>1, <3>2
    <2>4. CASE i # k
      <3>1. swig'[ds[i].id] = swig[choices[i].id] /\ choices[i].id # id
        BY <1>11, <2>1, <2>2, <2>4
      <3>2. swig[choices[i].id] = 2 <=> \E j \in i + 1 .. Len(choices) : ResetOf(choices, choices[i].id, j)
        BY <1>3, <2>1, <2>2 DEF SwigAgrees
      <3>3. ~ ResetOf(choices, choices[i].id, n + 1)
        BY <1>10, <3>1 DEF ResetOf
      <3>. QED BY <1>11, <2>1, <2>2, <3>1, <3>2, <3>3 DEF ResetOf
    <2>. QED BY <2>3, <2>4
  <1>. QED BY <1>1, <1>3, <1>4, <1>6, <1>12, <1>13, <1>14, SettledStep

------------------------------------------------------------------------------
(***************************************************************************)
(* A throw on its way                                                      *)
(***************************************************************************)
LEMMA SecondClauseStep ==
  ASSUME IInv, TypeOK', SecondClause
  PROVE  IInv'
  <1>. DEFINE n == Len(choices) - 1
              e == [Top EXCEPT !.next = "handler"]
  <1>1. ~ astray /\ pc = "fail" /\ Top.kind = "catch" /\ Top.next = "throw"
    BY DEF SecondClause, Resuming
  <1>2. /\ n \in Nat /\ Len(choices) = n + 1 /\ OldB < n /\ OldB \in Nat
        /\ OldB + Bottoms(Run.for) <= n
        /\ n + 1 \in OldB + 1 .. Len(choices) /\ Top = choices[n + 1]
        /\ LinkedAt(choices, OldB, Len(choices), n + 1)
    BY <1>1, TopAbove
  <1>3. /\ choices \in Seq(ChoiceType) /\ Top \in ChoiceType /\ runs \in Seq(RunType) /\ runs # << >>
        /\ Run = runs[Len(runs)] /\ Run \in RunType /\ OldB = Run.oldB
        /\ swig \in [CatchId -> 1 .. 2]
        /\ OldRuns(choices, swig, runs) /\ NewestRun(choices, Run) /\ Distinct(choices)
    BY <1>1, Facts
  <1>4. OnItsWay
    BY <1>1, <1>2 DEF IInv, Structure, InFlight, IsCatch
  <1>5. e \in ChoiceType /\ e.kind = "catch" /\ e.id = Top.id /\ e.cont = Top.cont
    BY <1>1, <1>3 DEF ChoiceType
  <1>6. /\ choices' = [choices EXCEPT ![Len(choices)] = e]
        /\ pc' = IF swig[Top.id] = 2 THEN "throw" ELSE "fail"
        /\ runs' = runs /\ swig' = swig
        /\ unwinding' = unwinding /\ thrown' = thrown /\ caught' = caught /\ astray' = astray
        /\ Run' = Run /\ OldB' = OldB
    BY <1>2, <1>3 DEF SecondClause, ghosts, Run, OldB, Top
  <1>. HIDE DEF e
  <1>7. /\ Len(choices') = n + 1 /\ choices'[n + 1] = e
        /\ \A i \in 1 .. n : choices'[i] = choices[i]
    <2>0. Len(choices) \in 1 .. Len(choices) /\ n + 1 \in 1 .. Len(choices)
      BY <1>2
    <2>1. /\ Len(choices') = Len(choices)
          /\ \A i \in 1 .. Len(choices) : choices'[i] = IF i = Len(choices) THEN e ELSE choices[i]
      BY <1>3, <1>5, <1>6, <2>0, ExceptSeq
    <2>. HIDE DEF n
    <2>2. \A i \in 1 .. n : i \in 1 .. Len(choices) /\ i # Len(choices)
      BY <1>2
    <2>. QED BY <1>2, <2>0, <2>1, <2>2
  <1>. HIDE DEF n
  <1>8. /\ \A i \in 1 .. n + 1 : /\ choices'[i].kind = choices[i].kind
                                 /\ choices'[i].id = choices[i].id
                                 /\ choices'[i].cont = choices[i].cont
        /\ \A i \in OldB + 1 .. n + 1 : i \in 1 .. n + 1
        /\ \A i \in 1 .. n + 1 : i \in 1 .. n \/ i = n + 1
        /\ SameUpto(choices, choices', n)
    <2>1. /\ \A i \in OldB + 1 .. n + 1 : i \in 1 .. n + 1
          /\ \A i \in 1 .. n + 1 : i \in 1 .. n \/ i = n + 1
      BY <1>2
    <2>. QED BY <1>1, <1>2, <1>5, <1>7, <2>1 DEF SameUpto
  <1>9. OldRuns(choices', swig', runs')
    <2>. DEFINE b == runs[Len(runs)].oldB
    <2>1. SameUpto(choices, choices', b)
      <3>1. \A i \in 1 .. b : i \in 1 .. n
        BY <1>2, <1>3
      <3>. QED BY <1>7, <3>1 DEF SameUpto
    <2>2. \A i \in 1 .. b : IsCatch(choices, i) => swig'[choices[i].id] = swig[choices[i].id]
      BY <1>6
    <2>3. OldRuns(choices', swig', runs)
      BY <1>3, <2>1, <2>2, OldRunsKept
    <2>. QED BY <1>6, <2>3
  <1>10. NewestRun(choices', Run')
    <2>0. n + 1 \in Nat /\ n <= n + 1 /\ OldB <= n
      BY <1>2
    <2>1. Bottomed(choices', Run, n + 1)
      <3>1. \A i \in 1 .. Bottoms(Run.for) : OldB + i \in 1 .. n + 1
        BY <1>2 DEF Bottoms
      <3>. QED BY <1>2, <1>3, <1>8, <3>1 DEF NewestRun, Bottomed
    <2>2. Linked(choices', OldB, n + 1)
      <3>1. Linked(choices, OldB, n + 1)
        BY <1>2, <1>3 DEF NewestRun
      <3>2. Linked(choices, OldB, n)
        <4>1. SameUpto(choices, choices, n)
          BY DEF SameUpto
        <4>. QED BY <1>2, <2>0, <3>1, <4>1, LinkedKept
      <3>3. ~ IsCatch(choices, n)
        <4>1. n < Len(choices) /\ choices[n + 1].kind # "goal"
          BY <1>1, <1>2
        <4>. QED BY <1>1, <1>2, <4>1, NotBelow
      <3>4. LinkedAt(choices', OldB, n + 1, n + 1)
        <4>1. (n + 1) - 1 = n /\ ~ (n + 1 < n + 1)
          BY <1>2
        <4>2. Scopes(choices, e.cont, OldB, n)
          BY <1>1, <1>2, <1>5, <4>1 DEF LinkedAt
        <4>3. Scopes(choices', e.cont, OldB, n)
          BY <1>2, <1>8, <4>2, ScopesKept
        <4>. QED BY <1>5, <1>7, <4>1, <4>3 DEF LinkedAt
      <3>. QED BY <1>2, <1>8, <2>0, <3>2, <3>3, <3>4, LinkedExtended
    <2>3. \A i \in OldB + 1 .. n + 1 : IsCatch(choices', i) => Run.c22
      BY <1>2, <1>3, <1>8 DEF NewestRun, IsCatch
    <2>. QED BY <1>3, <1>6, <1>7, <2>1, <2>2, <2>3 DEF NewestRun
  <1>11. Distinct(choices')
    <2>1. \A i \in 1 .. n + 1 : IsCatch(choices', i) => choices'[i].id \in CatchId
      BY <1>2, <1>3, <1>8 DEF Distinct, IsCatch
    <2>2. \A i, j \in 1 .. n + 1 :
            choices'[i].kind \in {"catch", "reset"} /\ choices'[i].kind = choices'[j].kind
            /\ choices'[i].id = choices'[j].id => i = j
      BY <1>2, <1>3, <1>8 DEF Distinct
    <2>3. ASSUME NEW j \in 1 .. n + 1, choices'[j].kind = "reset"
          PROVE  \E k \in 1 .. j - 1 : CatchOf(choices', choices'[j].id, k)
      <3>1. PICK k \in 1 .. j - 1 : CatchOf(choices, choices[j].id, k)
        BY <1>2, <1>3, <1>8, <2>3 DEF Distinct
      <3>2. k \in 1 .. n + 1
        BY <1>2
      <3>. QED BY <1>8, <3>1, <3>2 DEF CatchOf, IsCatch
    <2>. QED BY <1>7, <2>1, <2>2, <2>3 DEF Distinct
  <1>12. OnItsWay'
    <2>1. ASSUME thrown.scopes = << >>
          PROVE  OnItsWay'
      <3>1. IsCatch(choices, n + 1) /\ choices[n + 1].id = Top.id
        BY <1>1, <1>2 DEF IsCatch
      <3>2. swig[Top.id] = 2
        BY <1>2, <1>4, <2>1, <3>1 DEF OnItsWay
      <3>3. pc' = "throw"
        BY <1>6, <3>2
      <3>4. ASSUME NEW i \in OldB + 1 .. n + 1, IsCatch(choices', i)
            PROVE  swig[choices'[i].id] = 2
        BY <1>2, <1>4, <1>8, <2>1, <3>4 DEF OnItsWay, IsCatch
      <3>. QED BY <1>4, <1>6, <1>7, <2>1, <3>3, <3>4 DEF OnItsWay
    <2>2. ASSUME thrown.scopes # << >>
          PROVE  OnItsWay'
      <3>1. PICK k \in OldB + 1 .. n + 1 : Target(choices, swig, k)
        BY <1>2, <1>4, <2>2 DEF OnItsWay
      <3>2. k \in 1 .. n + 1 /\ k \in Nat
        BY <1>2
      <3>3. CatchOf(choices', Last(thrown.scopes), k) /\ choices'[k].cont = Front(thrown.scopes)
        BY <1>8, <3>1, <3>2 DEF Target, CatchOf, IsCatch
      <3>4. swig[choices'[k].id] = 1
        BY <1>8, <3>1, <3>2 DEF Target
      <3>5. SwigAgrees(choices', swig, OldB, k - 1)
        <4>. DEFINE h == k - 1
        <4>1. h \in Nat /\ \A i \in 1 .. h : i \in 1 .. n
          BY <1>2
        <4>2. SameUpto(choices, choices', h)
          BY <1>7, <4>1 DEF SameUpto
        <4>3. SwigAgrees(choices, swig, OldB, h)
          BY <3>1 DEF Target
        <4>. HIDE DEF h
        <4>4. SwigAgrees(choices', swig, OldB, h)
          BY <1>2, <4>1, <4>2, <4>3, SwigAgreesKept
        <4>. QED BY <4>4 DEF h
      <3>6. ASSUME NEW i \in k + 1 .. n + 1, IsCatch(choices', i)
            PROVE  swig[choices'[i].id] = 2
        <4>1. i \in 1 .. n + 1
          BY <1>2
        <4>. QED BY <1>2, <1>8, <3>1, <3>6, <4>1 DEF Target, IsCatch
      <3>7. CASE k = n + 1
        <4>1. pc' = "fail"
          BY <1>2, <1>6, <3>1, <3>7 DEF Target
        <4>2. k + 1 .. n + 1 = {}
          BY <1>2, <3>7
        <4>3. Target(choices, swig, k)'
          BY <1>6, <1>7, <3>1, <3>3, <3>4, <3>5, <3>7, <4>1, <4>2 DEF Target
        <4>. QED BY <1>4, <1>6, <1>7, <2>2, <4>3 DEF OnItsWay
      <3>8. CASE k # n + 1
        <4>1. n + 1 \in k + 1 .. n + 1 /\ k \in 1 .. n
          BY <1>2, <3>8
        <4>2. IsCatch(choices', n + 1) /\ choices'[n + 1].id = Top.id
          BY <1>5, <1>7 DEF IsCatch
        <4>3. swig[Top.id] = 2 /\ pc' = "throw"
          BY <1>6, <3>6, <4>1, <4>2
        <4>4. choices'[k].next = "throw"
          BY <1>2, <1>7, <3>1, <3>8, <4>1 DEF Target
        <4>5. Target(choices, swig, k)'
          BY <1>6, <1>7, <3>1, <3>3, <3>4, <3>5, <3>6, <4>3, <4>4 DEF Target
        <4>. QED BY <1>4, <1>6, <1>7, <2>2, <4>5 DEF OnItsWay
      <3>. QED BY <3>7, <3>8
    <2>. QED BY <2>1, <2>2
  <1>13. InFlight'
    BY <1>5, <1>6, <1>7 DEF InFlight, IsCatch
  <1>14. InnermostCatches' /\ (astray' => pc' = "fail" /\ ~ Held')
    BY <1>1, <1>6 DEF IInv, InnermostCatches, Held
  <1>. QED BY <1>9, <1>10, <1>11, <1>12, <1>13, <1>14 DEF IInv, Structure

LEMMA ThirdClauseStep ==
  ASSUME IInv, TypeOK', ThirdClause
  PROVE  IInv'
  <1>. DEFINE n == Len(choices) - 1
              ds == Upto(n)
  <1>1. ~ astray /\ pc = "fail" /\ Top.kind = "catch" /\ Top.next = "handler"
    BY DEF ThirdClause, Resuming
  <1>2. /\ n \in Nat /\ Len(choices) = n + 1 /\ OldB < n /\ OldB \in Nat
        /\ OldB + Bottoms(Run.for) <= n /\ n <= Len(choices) /\ n < Len(choices)
        /\ n + 1 \in OldB + 1 .. Len(choices) /\ Top = choices[n + 1]
        /\ LinkedAt(choices, OldB, Len(choices), n + 1)
    BY <1>1, TopAbove
  <1>3. OnItsWay
    BY <1>1, <1>2 DEF IInv, Structure, InFlight, IsCatch
  <1>4. /\ choices' = ds /\ runs' = runs /\ swig' = swig /\ cont' = Top.cont /\ pc' = "run"
        /\ unwinding' = FALSE /\ thrown' = thrown /\ caught' = Top.id /\ astray' = astray
        /\ Run' = Run /\ OldB' = OldB
    BY DEF ThirdClause, Run, OldB, Pop, Front, Upto
  <1>5. /\ Len(ds) = n /\ SameUpto(choices, ds, n)
        /\ OldRuns(ds, swig, runs) /\ NewestRun(ds, Run) /\ Distinct(ds)
    BY <1>1, <1>2, CutBack
  <1>6. ~ IsCatch(choices, n)
    BY <1>1, <1>2, NotBelow
  <1>7. OldB + 1 \in 1 .. Len(choices) /\ choices[OldB + 1].kind = "bottom"
    <2>1. 1 \in 1 .. Bottoms(Run.for)
      BY DEF Bottoms
    <2>2. choices[OldB + 1].kind = "bottom"
      BY <1>1, <2>1, Facts
    <2>. QED BY <1>2, <2>2
  <1>. HIDE DEF n, ds
  <1>8. IsCatch(choices, n + 1)
    BY <1>1, <1>2 DEF IsCatch
  <1>9. Scopes(ds, Top.cont, OldB, n)
    <2>1. Scopes(choices, Top.cont, OldB, n)
      <3>1. (n + 1) - 1 = n
        BY <1>2
      <3>. QED BY <1>1, <1>2, <3>1 DEF LinkedAt
    <2>. QED BY <1>2, <1>5, <2>1, ScopesKept
  <1>10. SwigAgrees(choices, swig, OldB, n) /\ InnermostCatches'
    <2>1. ASSUME thrown.scopes = << >>
          PROVE  SwigAgrees(choices, swig, OldB, n) /\ InnermostCatches'
      <3>1. Run.for = "rungoal" /\ n + 1 = OldB + 2 /\ thrown.from = Run.for
        BY <1>1, <1>2, <1>3, <1>8, <2>1 DEF OnItsWay
      <3>2. \A i \in OldB + 1 .. n : i = OldB + 1
        BY <1>2, <3>1
      <3>3. SwigAgrees(choices, swig, OldB, n)
        BY <1>7, <3>2 DEF SwigAgrees, IsCatch
      <3>4. ~ Held'
        BY <1>4, <2>1, <3>1 DEF Held
      <3>. QED BY <3>3, <3>4 DEF InnermostCatches
    <2>2. ASSUME thrown.scopes # << >>
          PROVE  SwigAgrees(choices, swig, OldB, n) /\ InnermostCatches'
      <3>1. PICK k \in OldB + 1 .. n + 1 : Target(choices, swig, k)
        BY <1>2, <1>3, <2>2 DEF OnItsWay
      <3>2. k = n + 1
        <4>1. ASSUME k # n + 1
              PROVE  FALSE
          <5>1. n + 1 \in k + 1 .. n + 1
            BY <1>2, <4>1
          <5>. QED BY <1>1, <1>2, <1>8, <3>1, <5>1 DEF Target
        <4>. QED BY <4>1
      <3>3. (n + 1) - 1 = n
        BY <1>2
      <3>4. SwigAgrees(choices, swig, OldB, n) /\ Top.id = Last(thrown.scopes)
        BY <1>2, <3>1, <3>2, <3>3 DEF Target, CatchOf
      <3>. QED BY <1>4, <2>2, <3>4 DEF InnermostCatches
    <2>. QED BY <2>1, <2>2
  <1>11. SwigAgrees(ds, swig, OldB, n)
    BY <1>2, <1>5, <1>10, SwigAgreesKept
  <1>12. ~ IsCatch(ds, n)
    <2>1. n \in 1 .. n
      BY <1>2
    <2>. QED BY <1>5, <1>6, <2>1 DEF IsCatch, SameUpto
  <1>13. ~ InFlight' /\ Settled'
    BY <1>4, <1>5, <1>9, <1>11, <1>12 DEF InFlight, Settled, IsCatch
  <1>14. Structure'
    BY <1>4, <1>5, <1>13 DEF Structure
  <1>. QED BY <1>1, <1>4, <1>10, <1>14 DEF IInv

LEMMA UnwindStep ==
  ASSUME IInv, TypeOK', Unwind
  PROVE  IInv'
  <1>. DEFINE top == Len(choices)
              stops == {i \in DOMAIN choices : StopsAt(i) /\ i > OldB}
  <1>1. ~ astray /\ pc = "throw"
    BY DEF Unwind
  <1>2. /\ DOMAIN choices = 1 .. top /\ OldB = Run.oldB
        /\ NewestRun(choices, Run) /\ Bottoms(Run.for) \in 1 .. 2
        /\ OldB + Bottoms(Run.for) <= top
        /\ \A i \in 1 .. Bottoms(Run.for) : choices[OldB + i].kind = "bottom"
    BY <1>1, Facts
  <1>0. top \in Nat /\ OldB \in Nat
    BY <1>1, Facts
  <1>3. OnItsWay
    BY <1>1 DEF IInv, Structure, InFlight
  <1>4. /\ pc' = "fail" /\ runs' = runs /\ swig' = swig
        /\ unwinding' = unwinding /\ thrown' = thrown /\ caught' = caught
        /\ Run' = Run /\ OldB' = OldB /\ Held' = Held
    BY DEF Unwind, Run, OldB, Held
  <1>5. InnermostCatches'
    BY <1>4 DEF IInv, InnermostCatches, Held
  <1>6. OldB + 1 \in 1 .. top /\ choices[OldB + 1].kind = "bottom"
    <2>1. 1 \in 1 .. Bottoms(Run.for)
      BY DEF Bottoms
    <2>2. choices[OldB + 1].kind = "bottom"
      BY <1>2, <2>1
    <2>. QED BY <1>0, <1>2, <2>2
  <1>7. ASSUME NEW k \in OldB + 1 .. top, Target(choices, swig, k)
        PROVE  k \in stops /\ k > OldB + Bottoms(Run.for)
    <2>1. IsCatch(choices, k) /\ choices[k].next = "throw"
      BY <1>1, <1>7 DEF Target, CatchOf
    <2>2. Run.c22
      BY <1>2, <2>1 DEF NewestRun
    <2>3. k \in 1 .. top /\ k > OldB
      BY <1>0
    <2>4. k \in stops
      BY <1>2, <2>1, <2>2, <2>3 DEF StopsAt, IsCatch
    <2>5. choices[k].kind # "bottom"
      BY <2>1 DEF IsCatch
    <2>. QED BY <1>1, <2>4, <2>5, AboveBottom
  <1>8. CASE stops = {}
    <2>1. astray' = TRUE /\ choices' = choices
      BY <1>8 DEF Unwind
    <2>2. ASSUME Held
          PROVE  FALSE
      <3>1. CASE thrown.scopes # << >>
        BY <1>3, <1>7, <1>8, <3>1 DEF OnItsWay
      <3>2. CASE thrown.scopes = << >>
        <4>1. Run.for = "command"
          BY <1>3, <2>2, <3>2 DEF OnItsWay, Held
        <4>2. OldB + 2 \in 1 .. top /\ OldB + 2 > OldB
          BY <1>0, <1>2, <4>1 DEF Bottoms
        <4>3. OldB + 2 \in stops
          BY <1>2, <4>2 DEF StopsAt
        <4>. QED BY <1>8, <4>3
      <3>. QED BY <3>1, <3>2
    <2>. QED BY <1>4, <1>5, <2>1, <2>2 DEF IInv
  <1>9. CASE stops # {}
    <2>1. /\ astray' = astray
          /\ \E i \in stops : (\A j \in stops : j <= i) /\ choices' = Upto(i)
      BY <1>9 DEF Unwind
    <2>2. PICK n \in stops : (\A j \in stops : j <= n) /\ choices' = Upto(n)
      BY <2>1
    <2>. DEFINE ds == Upto(n)
    <2>3. /\ n \in 1 .. top /\ n > OldB /\ n \in OldB + 1 .. top
          /\ \/ IsCatch(choices, n) /\ choices[n].next = "throw"
             \/ n = OldB + 2
      <3>1. n \in 1 .. top /\ n > OldB
        BY <1>2
      <3>2. n \in OldB + 1 .. top
        BY <1>0, <3>1
      <3>. QED BY <3>1, <3>2 DEF StopsAt, IsCatch
    <2>4. OldB + Bottoms(Run.for) <= n
      <3>1. CASE IsCatch(choices, n)
        <4>1. choices[n].kind # "bottom"
          BY <3>1 DEF IsCatch
        <4>2. n > OldB + Bottoms(Run.for)
          BY <1>1, <2>3, <4>1, AboveBottom
        <4>. QED BY <1>0, <1>2, <2>3, <4>2
      <3>2. CASE n = OldB + 2
        BY <1>0, <1>2, <3>2
      <3>. QED BY <2>3, <3>1, <3>2
    <2>5. /\ Len(ds) = n /\ SameUpto(choices, ds, n)
          /\ OldRuns(ds, swig, runs) /\ NewestRun(ds, Run) /\ Distinct(ds)
      <3>1. n \in Nat /\ n <= Len(choices)
        BY <1>0, <2>3
      <3>. QED BY <1>1, <2>4, <3>1, CutBack
    <2>. HIDE DEF ds, stops, top
    <2>6. n \in Nat /\ top \in Nat /\ n <= top /\ OldB \in Nat /\ OldB < n
      BY <1>0, <2>3
    <2>7. ASSUME NEW i \in OldB + 1 .. n
          PROVE  ds[i] = choices[i] /\ i \in OldB + 1 .. top
      <3>1. i \in 1 .. n /\ i \in OldB + 1 .. top
        BY <2>6
      <3>. QED BY <2>5, <3>1 DEF SameUpto
    <2>8. ASSUME NEW i \in OldB + 1 .. n, IsCatch(choices, i), i # n
          PROVE  choices[i].next = "throw"
      <3>1. i \in OldB + 1 .. top /\ i < top
        BY <2>6, <2>8
      <3>. QED BY <1>2, <2>8, <3>1 DEF NewestRun, Linked, LinkedAt, top
    <2>9. n \in OldB + 1 .. n /\ ds[n] = choices[n]
      <3>1. n \in OldB + 1 .. n
        BY <2>6
      <3>. QED BY <2>7, <3>1
    <2>10. ASSUME thrown.scopes # << >>
           PROVE  InFlight' /\ OnItsWay'
      <3>1. PICK k \in OldB + 1 .. top : Target(choices, swig, k)
        BY <1>3, <2>10 DEF OnItsWay, top
      <3>2. k \in stops /\ k > OldB + Bottoms(Run.for) /\ k <= n
        BY <1>7, <2>2, <3>1
      <3>3. k \in OldB + 1 .. n /\ k \in Nat /\ k <= n /\ k # OldB + 1
        BY <1>2, <2>6, <3>2
      <3>4. IsCatch(choices, n) /\ choices[n].next = "throw"
        <4>1. CASE n = k
          BY <1>1, <3>1, <4>1 DEF Target, CatchOf
        <4>2. CASE n # k /\ n = OldB + 2
          BY <2>6, <3>3, <4>2
        <4>. QED BY <2>3, <4>1, <4>2
      <3>5. InFlight'
        BY <1>4, <2>2, <2>5, <2>9, <3>4 DEF InFlight, IsCatch, ds
      <3>6. CatchOf(ds, Last(thrown.scopes), k) /\ ds[k].cont = Front(thrown.scopes)
            /\ ds[k].next = "throw" /\ swig[ds[k].id] = 1
        BY <1>1, <2>7, <3>1, <3>3 DEF Target, CatchOf, IsCatch
      <3>7. ASSUME NEW i \in k + 1 .. n, IsCatch(ds, i)
            PROVE  swig[ds[i].id] = 2 /\ ds[i].next = "throw"
        <4>1. i \in OldB + 1 .. n /\ i \in k + 1 .. top
          BY <2>6, <3>3
        <4>2. ds[i] = choices[i] /\ IsCatch(choices, i)
          BY <2>7, <3>7, <4>1 DEF IsCatch
        <4>3. choices[i].next = "throw"
          BY <2>8, <3>4, <4>1, <4>2
        <4>. QED BY <3>1, <4>1, <4>2, <4>3 DEF Target, top
      <3>8. SwigAgrees(ds, swig, OldB, k - 1)
        <4>. DEFINE h == k - 1
        <4>1. h \in Nat /\ \A i \in 1 .. h : i \in 1 .. n
          BY <2>6, <3>3
        <4>2. SameUpto(choices, ds, h)
          BY <2>5, <4>1 DEF SameUpto
        <4>3. SwigAgrees(choices, swig, OldB, h)
          BY <3>1 DEF Target
        <4>. HIDE DEF h
        <4>4. SwigAgrees(ds, swig, OldB, h)
          BY <1>0, <4>1, <4>2, <4>3, SwigAgreesKept
        <4>. QED BY <4>4 DEF h
      <3>9. Target(choices, swig, k)'
        BY <1>4, <2>2, <2>5, <3>3, <3>6, <3>7, <3>8 DEF Target, ds
      <3>10. OnItsWay'
        BY <1>3, <1>4, <2>2, <2>5, <2>10, <3>3, <3>9 DEF OnItsWay, ds
      <3>. QED BY <3>5, <3>10
    <2>11. ASSUME thrown.scopes = << >>
           PROVE  IF InFlight' THEN OnItsWay' ELSE Settled'
      <3>1. thrown.from = Run.for
        BY <1>3, <2>11 DEF OnItsWay
      <3>2. ASSUME NEW i \in OldB + 1 .. n, IsCatch(ds, i)
            PROVE  swig[ds[i].id] = 2
        <4>1. ds[i] = choices[i] /\ i \in OldB + 1 .. Len(choices) /\ IsCatch(choices, i)
          BY <2>7, <3>2 DEF top, IsCatch
        <4>. QED BY <1>3, <2>11, <4>1 DEF OnItsWay
      <3>3. CASE IsCatch(choices, n)
        <4>1. InFlight'
          BY <1>4, <2>2, <2>5, <2>9, <3>3 DEF InFlight, IsCatch, ds
        <4>2. ASSUME NEW i \in OldB + 1 .. n, IsCatch(ds, i)
              PROVE  ds[i].next = "throw" \/ (Run.for = "rungoal" /\ i = OldB + 2)
          <5>1. ds[i] = choices[i] /\ IsCatch(choices, i)
            BY <2>7, <4>2 DEF IsCatch
          <5>2. CASE i # n
            BY <2>8, <5>1, <5>2
          <5>3. CASE i = n /\ choices[n].next = "throw"
            BY <5>1, <5>3
          <5>4. CASE i = n /\ n = OldB + 2
            <6>1. Run.for # "command"
              <7>1. ASSUME Run.for = "command"
                    PROVE  FALSE
                <8>1. 2 \in 1 .. Bottoms(Run.for)
                  BY <7>1 DEF Bottoms
                <8>. QED BY <1>2, <3>3, <5>4, <8>1 DEF IsCatch
              <7>. QED BY <7>1
            <6>2. Run \in RunType
              BY <1>1, Facts
            <6>3. Run.for = "rungoal"
              BY <6>1, <6>2 DEF RunType
            <6>. QED BY <5>4, <6>3
          <5>. QED BY <2>3, <5>2, <5>3, <5>4
        <4>3. OnItsWay'
          BY <1>3, <1>4, <2>2, <2>5, <2>11, <3>1, <3>2, <4>2 DEF OnItsWay, ds
        <4>. QED BY <4>1, <4>3
      <3>4. CASE ~ IsCatch(choices, n)
        <4>1. n = OldB + 2
          BY <2>3, <3>4
        <4>2. \A i \in OldB + 1 .. n : ~ IsCatch(ds, i)
          <5>1. \A i \in OldB + 1 .. n : i = OldB + 1 \/ i = n
            BY <1>0, <4>1
          <5>. QED BY <1>6, <2>7, <3>4, <5>1 DEF IsCatch
        <4>3. SwigAgrees(ds, swig, OldB, n)
          BY <4>2 DEF SwigAgrees
        <4>4. Held => ds[n].kind = "bottom"
          <5>1. ASSUME Held
                PROVE  choices[n].kind = "bottom"
            <6>1. Run.for = "command"
              BY <2>11, <3>1, <5>1 DEF Held
            <6>2. 2 \in 1 .. Bottoms(Run.for)
              BY <6>1 DEF Bottoms
            <6>. QED BY <1>2, <4>1, <6>2
          <5>. QED BY <2>9, <5>1
        <4>5. ~ InFlight'
          BY <1>4, <2>2, <2>5, <2>9, <4>2 DEF InFlight, ds
        <4>6. ~ IsCatch(ds, n)
          BY <2>9, <4>2
        <4>7. Settled'
          BY <1>4, <2>2, <2>5, <2>11, <4>3, <4>4, <4>6 DEF Settled, Top, ds
        <4>. QED BY <4>5, <4>7
      <3>. QED BY <3>3, <3>4
    <2>12. Structure'
      BY <1>4, <2>2, <2>5, <2>10, <2>11 DEF Structure, ds
    <2>. QED BY <1>1, <1>5, <2>1, <2>12 DEF IInv
  <1>. QED BY <1>8, <1>9

------------------------------------------------------------------------------
(***************************************************************************)
(* The theorems                                                            *)
(***************************************************************************)
LEMMA InitInv ==
  ASSUME Init
  PROVE  IInv
  <1>. DEFINE r == [oldB |-> 0, for |-> "command", c22 |-> FALSE, cont |-> << >>]
              bs == [i \in 1 .. 2 |-> Choice("bottom", 0, << >>)]
  <1>1. /\ runs = << r >> /\ choices = bs /\ cont = << >> /\ swig = [id \in CatchId |-> 1]
        /\ pc = "run" /\ thrown = [scopes |-> << >>, from |-> "command"]
        /\ unwinding = FALSE /\ caught = 0 /\ astray = FALSE
    BY DEF Init
  <1>2. bs \in Seq(ChoiceType) /\ Len(bs) = 2
    <2>1. Bottoms("command") = 2
      BY DEF Bottoms
    <2>2. LET cs == [i \in 1 .. Bottoms("command") |-> Choice("bottom", 0, << >>)]
          IN  cs \in Seq(ChoiceType) /\ Len(cs) = Bottoms("command")
      BY BottomsTyped
    <2>. QED BY <2>1, <2>2
  <1>3. << >> \in Seq(CatchId) /\ Len(<< >>) = 0
    BY EmptySeq
  <1>4. r \in RunType /\ r.oldB = 0 /\ r.for = "command" /\ r.cont = << >> /\ ~ r.c22
    BY <1>3 DEF RunType
  <1>5. \A i \in 1 .. 2 : choices[i].kind = "bottom"
    BY <1>1 DEF Choice
  <1>. HIDE DEF r, bs
  <1>6. runs \in Seq(RunType) /\ runs # << >> /\ Len(runs) = 1 /\ runs[1] = r /\ Run = r /\ OldB = 0
    BY <1>1, <1>4 DEF Run, OldB
  <1>7. TypeOK
    <2>1. swig \in [CatchId -> 1 .. 2]
      BY <1>1
    <2>2. thrown \in [scopes : Seq(CatchId), from : {"command", "rungoal"}]
      BY <1>1, <1>3
    <2>. QED BY <1>1, <1>2, <1>3, <1>6, <2>1, <2>2 DEF TypeOK, ChoiceType, RunType
  <1>8. Len(choices) = 2 /\ ~ \E i \in 1 .. 2 : IsCatch(choices, i) \/ choices[i].kind # "bottom"
    BY <1>1, <1>2, <1>5 DEF IsCatch
  <1>9. OldRuns(choices, swig, runs)
    <2>1. \A q, k \in 1 .. 1 : q = k /\ q = 1
      OBVIOUS
    <2>2. 1 .. 1 - 1 = {} /\ 0 <= 0
      OBVIOUS
    <2>. QED BY <1>4, <1>6, <2>1, <2>2 DEF OldRuns
  <1>10. 0 + 1 = 1 /\ \A i \in 1 .. 2 : 0 + i = i
    OBVIOUS
  <1>11. NewestRun(choices, Run)
    <2>1. Bottomed(choices, r, 2)
      BY <1>4, <1>8, <1>10 DEF Bottomed, Bottoms
    <2>2. Linked(choices, 0, 2)
      BY <1>8, <1>10 DEF Linked, LinkedAt
    <2>. QED BY <1>4, <1>6, <1>8, <1>10, <2>1, <2>2 DEF NewestRun
  <1>12. Distinct(choices)
    BY <1>8 DEF Distinct
  <1>13. ~ IsCatch(choices, 2)
    BY <1>8
  <1>14. SwigAgrees(choices, swig, 0, 2)
    BY <1>8, <1>10 DEF SwigAgrees
  <1>15. Scopes(choices, << >>, 0, 2)
    <2>1. 1 .. 0 = {}
      OBVIOUS
    <2>. QED BY <1>3, <1>8, <1>10, <2>1 DEF Scopes
  <1>16. Structure
    BY <1>1, <1>6, <1>8, <1>9, <1>11, <1>12, <1>13, <1>14, <1>15 DEF Structure, InFlight, Settled
  <1>17. InnermostCatches
    BY <1>1 DEF InnermostCatches
  <1>. QED BY <1>1, <1>7, <1>16, <1>17 DEF IInv

(* The catches that a goal is in can be read off the choice points of its  *)
(* run, in every run that waits and, unless a throw is on its way, in the  *)
(* newest; while a throw is on its way, the choice point that it looks for *)
(* is there and the SWIG of each catch above it says that it has exited.   *)
(* (builtins.pro catch0/4, wam.c W_THROW)                                  *)
THEOREM Invariant == Spec => []IInv
  <1>1. Init => IInv
    BY InitInv
  <1>2. IInv /\ [Next]_vars => IInv'
    <2>. SUFFICES ASSUME IInv, [Next]_vars
                  PROVE  IInv'
      OBVIOUS
    <2>1. CASE Next
      <3>0. TypeOK'
        BY <2>1, TypeStep
      <3>1. CASE Try
        BY <3>0, <3>1, TryStep
      <3>2. CASE \E id \in CatchId : Catch(id)
        BY <3>0, <3>2, CatchStep
      <3>3. CASE Exit
        BY <3>0, <3>3, ExitStep
      <3>4. CASE \E n \in DOMAIN choices : Cut(n)
        BY <3>0, <3>4, CutStep
      <3>5. CASE Fail
        BY <3>0, <3>5, FailStep
      <3>6. CASE Throw
        BY <3>0, <3>6, ThrowStep
      <3>7. CASE \E for \in {"command", "rungoal"} : Call(for)
        BY <3>0, <3>7, CallStep
      <3>8. CASE Return
        BY <3>0, <3>8, ReturnStep
      <3>9. CASE Resume
        BY <3>0, <3>9, ResumeClausesStep, ResumeGoalStep, ResumeResetStep, SecondClauseStep,
           ThirdClauseStep, ResumeBottomStep DEF Resume
      <3>10. CASE Unwind
        BY <3>0, <3>10, UnwindStep
      <3>. QED BY <2>1, <3>1, <3>2, <3>3, <3>4, <3>5, <3>6, <3>7, <3>8, <3>9, <3>10 DEF Next
    <2>2. CASE UNCHANGED vars
      BY <2>2 DEF vars, IInv, TypeOK, InnermostCatches, Held, Structure, InFlight, OnItsWay,
         Target, Settled, Run, OldB, Top
    <2>. QED BY <2>1, <2>2
  <1>. QED BY <1>1, <1>2, PTL DEF Spec

(* Every variable keeps its type. *)
THEOREM TypeCorrect == Spec => []TypeOK
  <1>1. IInv => TypeOK
    BY DEF IInv
  <1>. QED BY <1>1, Invariant, PTL

(* The handler that runs is that of the innermost catch whose goal was     *)
(* running when the throw was made.  (builtins.pro catch0/4, wam.c W_THROW) *)
THEOREM CaughtByInnermost == Spec => []InnermostCatches
  <1>1. IInv => InnermostCatches
    BY DEF IInv
  <1>. QED BY <1>1, Invariant, PTL

(* No goal that a throw leaves is resumed before its handler is called.    *)
(* (wam.c W_THROW)                                                         *)
THEOREM NothingResumed == Spec => []ThrowNotResumed
  <1>1. IInv => ThrowNotResumed
    BY DEF IInv, ThrowNotResumed, Structure, InFlight, Settled
  <1>. QED BY <1>1, Invariant, PTL

(* A throw does not leave the run_wam that it was made in: what is at the  *)
(* bottom of each run stays until the run returns.  (wam.c:2091)           *)
THEOREM StaysInRun == Spec => []ThrowStaysInRun
  <1>1. ASSUME IInv
        PROVE  ThrowStaysInRun
    <2>1. Held => ~ astray
      BY <1>1 DEF IInv
    <2>2. ASSUME ~ astray, NEW r \in DOMAIN runs, NEW i \in 1 .. Bottoms(runs[r].for)
          PROVE  /\ runs[r].oldB + i \in DOMAIN choices
                 /\ choices[runs[r].oldB + i].kind = "bottom"
      <3>1. /\ DOMAIN choices = 1 .. Len(choices) /\ Len(choices) \in Nat /\ Len(runs) \in Nat
            /\ OldRuns(choices, swig, runs) /\ NewestRun(choices, Run) /\ Run = runs[Len(runs)]
            /\ OldB = Run.oldB /\ OldB \in Nat /\ OldB <= Len(choices)
        <4>1. /\ OldB + Bottoms(Run.for) <= Len(choices) /\ Bottoms(Run.for) \in 1 .. 2
              /\ Len(choices) \in Nat /\ OldB \in Nat
          BY <1>1, <2>2, Facts
        <4>. QED BY <1>1, <2>2, <4>1, Facts
      <3>2. DOMAIN runs = 1 .. Len(runs) /\ \A q \in 1 .. Len(runs) : runs[q] \in RunType
        BY <1>1, TypeFacts DEF IInv
      <3>3. runs[r].oldB \in Nat /\ Bottoms(runs[r].for) \in 1 .. 2
        BY <3>2 DEF RunType, Bottoms
      <3>4. \E hi \in 0 .. Len(choices) : Bottomed(choices, runs[r], hi)
        <4>1. CASE r = Len(runs)
          <5>1. Len(choices) \in 0 .. Len(choices)
            BY <3>1
          <5>. QED BY <3>1, <4>1, <5>1 DEF NewestRun
        <4>2. CASE r # Len(runs)
          <5>1. r \in 1 .. Len(runs) - 1 /\ r + 1 \in 1 .. Len(runs) /\ r + 1 <= Len(runs) /\ Len(runs) \in 1 .. Len(runs)
            BY <3>1, <3>2, <4>2
          <5>2. Waits(choices, swig, runs[r], runs[r + 1]) /\ runs[r + 1].oldB <= OldB
            BY <3>1, <5>1 DEF OldRuns
          <5>3. runs[r + 1].oldB \in Nat
            BY <3>2, <5>1 DEF RunType
          <5>4. runs[r + 1].oldB \in 0 .. Len(choices)
            BY <3>1, <5>2, <5>3
          <5>. QED BY <5>2, <5>4 DEF Waits
        <4>. QED BY <4>1, <4>2
      <3>5. PICK hi \in 0 .. Len(choices) : Bottomed(choices, runs[r], hi)
        BY <3>4
      <3>6. runs[r].oldB + Bottoms(runs[r].for) <= hi /\ choices[runs[r].oldB + i].kind = "bottom"
        BY <3>5 DEF Bottomed
      <3>7. runs[r].oldB + i \in 1 .. Len(choices)
        BY <3>1, <3>3, <3>6
      <3>. QED BY <3>1, <3>6, <3>7
    <2>. QED BY <2>1, <2>2 DEF ThrowStaysInRun
  <1>. QED BY <1>1, Invariant, PTL

(* While a goal runs, SWIG tells of each catch whose choice point is left  *)
(* whether its goal is running or has exited.  (builtins.pro:635, catch0/3) *)
THEOREM SwigTellsAlways == Spec => []SwigTells
  <1>1. ASSUME NEW s, NEW lo, NEW hi, Scopes(choices, s, lo, hi), SwigAgrees(choices, swig, lo, hi),
               DOMAIN s = 1 .. Len(s), lo \in Nat, hi \in Nat, Distinct(choices),
               swig \in [CatchId -> 1 .. 2], hi <= Len(choices), Len(choices) \in Nat,
               NEW i \in lo + 1 .. hi, choices[i].kind = "catch"
        PROVE  swig[choices[i].id] = 1 <=> choices[i].id \in ToSet(s)
    <2>1. i \in 1 .. Len(choices) /\ \A j \in i + 1 .. hi : j \in lo + 1 .. hi
      BY <1>1
    <2>2. swig[choices[i].id] \in 1 .. 2
      BY <1>1, <2>1 DEF Distinct, IsCatch
    <2>3. swig[choices[i].id] = 2 <=> \E j \in i + 1 .. hi : ResetOf(choices, choices[i].id, j)
      BY <1>1 DEF SwigAgrees, IsCatch
    <2>4. \/ \E m \in 1 .. Len(s) : s[m] = choices[i].id
          \/ \E j \in i + 1 .. hi : ResetOf(choices, choices[i].id, j)
      BY <1>1 DEF Scopes, IsCatch
    <2>5. \A m \in 1 .. Len(s) : \A j \in i + 1 .. hi : ~ ResetOf(choices, s[m], j)
      BY <1>1, <2>1 DEF Scopes
    <2>6. choices[i].id \in ToSet(s) <=> \E m \in 1 .. Len(s) : s[m] = choices[i].id
      BY <1>1 DEF ToSet
    <2>7. swig[choices[i].id] = 1 <=> swig[choices[i].id] # 2
      BY <2>2
    <2>. QED BY <2>3, <2>4, <2>5, <2>6, <2>7
  <1>2. ASSUME IInv
        PROVE  SwigTells
    <2>. SUFFICES ASSUME pc = "run", ~ astray, NEW r \in DOMAIN runs,
                         NEW i \in runs[r].oldB + 1 .. EndOf(r), choices[i].kind = "catch"
                  PROVE  swig[choices[i].id] = 1 <=> choices[i].id \in ToSet(ScopesIn(r))
      BY DEF SwigTells
    <2>1. /\ Len(choices) \in Nat /\ Len(runs) \in Nat /\ Distinct(choices)
          /\ OldRuns(choices, swig, runs) /\ Run = runs[Len(runs)]
          /\ OldB = Run.oldB /\ OldB \in Nat /\ OldB <= Len(choices)
          /\ cont \in Seq(CatchId) /\ swig \in [CatchId -> 1 .. 2]
      <3>1. /\ OldB + Bottoms(Run.for) <= Len(choices) /\ Bottoms(Run.for) \in 1 .. 2
            /\ Len(choices) \in Nat /\ OldB \in Nat
        BY <1>2, Facts
      <3>. QED BY <1>2, <3>1, Facts
    <2>2. DOMAIN runs = 1 .. Len(runs) /\ \A q \in 1 .. Len(runs) : runs[q] \in RunType
      BY <1>2, TypeFacts DEF IInv
    <2>3. CASE r = Len(runs)
      <3>1. Scopes(choices, cont, OldB, Len(choices)) /\ SwigAgrees(choices, swig, OldB, Len(choices))
        BY <1>2, NotInFlight
      <3>2. ScopesIn(r) = cont /\ EndOf(r) = Len(choices) /\ runs[r].oldB = OldB
        BY <2>1, <2>3 DEF ScopesIn, EndOf
      <3>3. DOMAIN cont = 1 .. Len(cont) /\ Len(choices) <= Len(choices)
        BY <2>1, LenProperties
      <3>. QED BY <1>1, <2>1, <3>1, <3>2, <3>3
    <2>4. CASE r # Len(runs)
      <3>1. r \in 1 .. Len(runs) - 1 /\ r + 1 \in 1 .. Len(runs) /\ r + 1 <= Len(runs)
            /\ Len(runs) \in 1 .. Len(runs)
        BY <2>1, <2>2, <2>4
      <3>2. Waits(choices, swig, runs[r], runs[r + 1]) /\ runs[r + 1].oldB <= OldB
        BY <2>1, <3>1 DEF OldRuns
      <3>3. /\ runs[r + 1].oldB \in Nat /\ runs[r].oldB \in Nat
            /\ runs[r + 1].cont \in Seq(CatchId)
        BY <2>2, <3>1 DEF RunType
      <3>4. ScopesIn(r) = runs[r + 1].cont /\ EndOf(r) = runs[r + 1].oldB
        BY <2>4 DEF ScopesIn, EndOf
      <3>5. DOMAIN runs[r + 1].cont = 1 .. Len(runs[r + 1].cont) /\ runs[r + 1].oldB <= Len(choices)
        BY <2>1, <3>2, <3>3, LenProperties
      <3>6. /\ Scopes(choices, runs[r + 1].cont, runs[r].oldB, runs[r + 1].oldB)
            /\ SwigAgrees(choices, swig, runs[r].oldB, runs[r + 1].oldB)
        BY <3>2 DEF Waits
      <3>. QED BY <1>1, <2>1, <3>3, <3>4, <3>5, <3>6
    <2>. QED BY <2>3, <2>4
  <1>. QED BY <1>2, Invariant, PTL

===============================================================================
