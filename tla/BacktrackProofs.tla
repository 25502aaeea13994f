--------------------------- MODULE BacktrackProofs ---------------------------
(***************************************************************************)
(* Proofs about Backtrack, for every size of the stack, of the heap and of *)
(* the choice point stack and every set of global variables.               *)
(***************************************************************************)
EXTENDS Backtrack, SequenceTheorems, TLAPS

LEMMA TrailedFromDef ==
  ASSUME NEW i, NEW a
  PROVE  a \in TrailedFrom(i) <=> \E j \in i .. B : a \in cps[j].trail
  BY DEF TrailedFrom

LEMMA PutProperties ==
  ASSUME NEW m, NEW a, NEW w
  PROVE  /\ DOMAIN Put(m, a, w) = DOMAIN m \cup {a}
         /\ Put(m, a, w)[a] = w
         /\ \A c \in DOMAIN m : c # a => Put(m, a, w)[c] = m[c]
  BY DEF Put

LEMMA RegsType ==
  ASSUME TypeOK
  PROVE  /\ HeapBase \in Nat /\ HeapEnd \in Nat /\ HeapBase <= HeapEnd
         /\ sp \in Nat /\ h \in Nat /\ hb \in Nat /\ spb \in Nat
         /\ sp <= HeapBase /\ HeapBase <= h /\ h <= HeapEnd
         /\ HeapBase <= hb /\ hb <= HeapEnd /\ spb <= HeapBase
         /\ Live \subseteq Nat
         /\ \A a \in Live : a >= sp /\ a < h /\ a \in Addr
         /\ DOMAIN store = Live
         /\ \A a \in Live : store[a] \in Word /\ store[a].p \in Nat
  <1>1. /\ HeapBase \in Nat /\ HeapEnd \in Nat /\ HeapBase <= HeapEnd
        /\ sp \in 0 .. HeapBase /\ h \in HeapBase .. HeapEnd
        /\ hb \in HeapBase .. HeapEnd /\ spb \in 0 .. HeapBase
    BY HeapBaseAssumption, HeapEndAssumption DEF TypeOK
  <1>2. store \in [Live -> Word]
    BY DEF TypeOK
  <1>3. \A w \in Word : w.p \in Nat
    BY DEF Word
  <1>4. \A a \in Live : a \in Nat /\ a >= sp /\ a < h /\ a \in Addr
    BY <1>1 DEF Live, Addr
  <1>. QED BY <1>1, <1>2, <1>3, <1>4

LEMMA CpsType ==
  ASSUME TypeOK
  PROVE  /\ B \in Nat /\ B >= 1 /\ B <= MaxChoice
         /\ DOMAIN cps = 1 .. B
         /\ \A i \in 1 .. B : /\ cps[i] \in Choice
                              /\ cps[i].hb \in Nat /\ cps[i].spb \in Nat
                              /\ cps[i].trail \subseteq Addr
  <1>1. cps \in Seq(Choice) /\ B \in 1 .. MaxChoice
    BY DEF TypeOK
  <1>2. Len(cps) \in Nat /\ DOMAIN cps = 1 .. Len(cps)
    BY <1>1, LenProperties
  <1>3. \A i \in 1 .. B : cps[i] \in Choice
    BY <1>1, ElementOfSeq DEF B
  <1>4. \A c \in Choice : c.hb \in Nat /\ c.spb \in Nat /\ c.trail \subseteq Addr
    BY DEF Choice
  <1>. QED BY <1>1, <1>2, <1>3, <1>4, MaxChoiceAssumption DEF B

(* TRAIL adds at most r to what the newest choice point has trailed. *)
LEMMA TrailProperties ==
  ASSUME TypeOK, NEW r \in Addr
  PROVE  /\ Trail(r) \in Seq(Choice)
         /\ Len(Trail(r)) = B
         /\ \A i \in 1 .. B :
              /\ Trail(r)[i].hb = cps[i].hb
              /\ Trail(r)[i].spb = cps[i].spb
              /\ i # B => Trail(r)[i].trail = cps[i].trail
         /\ Trail(r)[B].trail = IF MustTrail(r) THEN cps[B].trail \cup {r} ELSE cps[B].trail
  <1>. DEFINE new == [cps[B] EXCEPT !.trail = @ \cup {r}]
  <1>1. B \in 1 .. Len(cps) /\ cps[B] \in Choice /\ cps \in Seq(Choice)
    BY CpsType DEF TypeOK, B
  <1>2. new \in Choice /\ new.hb = cps[B].hb /\ new.spb = cps[B].spb
          /\ new.trail = cps[B].trail \cup {r}
    BY <1>1 DEF Choice
  <1>3. [cps EXCEPT ![B].trail = @ \cup {r}] = [cps EXCEPT ![B] = new]
    BY <1>1
  <1>. HIDE DEF new
  <1>4. /\ [cps EXCEPT ![B] = new] \in Seq(Choice)
        /\ Len([cps EXCEPT ![B] = new]) = B
        /\ \A j \in 1 .. B : [cps EXCEPT ![B] = new][j] = IF j = B THEN new ELSE cps[j]
    BY <1>1, <1>2, ExceptSeq DEF B
  <1>5. CASE MustTrail(r)
    <2>1. Trail(r) = [cps EXCEPT ![B] = new]
      BY <1>3, <1>5 DEF Trail
    <2>. QED BY <2>1, <1>1, <1>2, <1>4, <1>5 DEF B
  <1>6. CASE ~ MustTrail(r)
    BY <1>1, <1>6 DEF Trail, B
  <1>. QED BY <1>5, <1>6

(* An operand is a word, and what it points to is live. *)
LEMMA OperandProperties ==
  ASSUME TypeOK, NoDangling, NEW w \in Operands
  PROVE  /\ w \in Word
         /\ w.tag = "ref" => w.p \in UnboundVars /\ w.p \in Live /\ w = Ref(w.p)
         /\ w.tag = "str" => w.p >= HeapBase /\ w.p < h
  <1>1. CASE w \in {Ref(a) : a \in UnboundVars}
    <2>1. PICK a \in UnboundVars : w = Ref(a)
      BY <1>1
    <2>2. a \in Live /\ a \in Nat
      BY <2>1, RegsType DEF UnboundVars
    <2>. QED BY <2>1, <2>2 DEF Ref, Word
  <1>2. ASSUME NEW a \in Live, w = store[a], w.tag # "ref"
        PROVE  /\ w \in Word
               /\ w.tag = "str" => w.p >= HeapBase /\ w.p < h
    BY <1>2, HeapBaseAssumption DEF TypeOK, NoDangling, ClosedOn, MayHold, IsPointer, Word, Live
  <1>3. ASSUME NEW g \in GVars, w = gv[g], w.tag # "ref"
        PROVE  /\ w \in Word
               /\ w.tag = "str" => w.p >= HeapBase /\ w.p < h
    BY <1>3, HeapBaseAssumption DEF TypeOK, NoDangling, MayHold, IsPointer, Word
  <1>4. CASE w = Con
    BY <1>4 DEF Con, Word
  <1>. QED BY <1>1, <1>2, <1>3, <1>4 DEF Operands
------------------------------------------------------------------------------
(***************************************************************************)
(* The inductive invariant.  NoDangling alone is not inductive: what       *)
(* failure leaves behind is safe only because FailureSafe says so of every *)
(* choice point beforehand, and FailureSafe needs the order of the choice  *)
(* points, since cut and gv_set hand the fields of one to another.         *)
(***************************************************************************)
IInv == TypeOK /\ ChoicesOrdered /\ NoDangling /\ FailureSafe

(* Cell a as failing back to choice point i would leave it *)
ViewAt(i, a) == IF a \in TrailedFrom(i) THEN Ref(a) ELSE store[a]

LEMMA ViewIsViewAt ==
  ASSUME NEW i, NEW a \in cps[i].spb .. cps[i].hb - 1
  PROVE  View(i)[a] = ViewAt(i, a)
  BY DEF View, ViewAt

(* Whatever choice point i protects, every newer one protects too. *)
LEMMA ProtectedNested ==
  ASSUME TypeOK, ChoicesOrdered, NEW i \in 1 .. B, NEW j \in i .. B
  PROVE  /\ j \in 1 .. B
         /\ cps[i].hb <= cps[j].hb /\ cps[j].spb <= cps[i].spb
         /\ cps[j].hb <= hb /\ spb <= cps[j].spb
         /\ sp <= cps[j].spb /\ cps[j].hb <= h
         /\ cps[i].spb .. cps[i].hb - 1 \subseteq cps[j].spb .. cps[j].hb - 1
         /\ cps[i].spb .. cps[i].hb - 1 \subseteq spb .. hb - 1
  <1>1. B \in Nat /\ j \in 1 .. B /\ B \in 1 .. B
    BY CpsType
  <1>2. /\ cps[i].hb \in Nat /\ cps[i].spb \in Nat
        /\ cps[j].hb \in Nat /\ cps[j].spb \in Nat
        /\ cps[B].hb \in Nat /\ cps[B].spb \in Nat
    BY <1>1, CpsType
  <1>3. /\ cps[i].hb <= cps[j].hb /\ cps[i].spb >= cps[j].spb
        /\ cps[j].hb <= cps[B].hb /\ cps[j].spb >= cps[B].spb
        /\ hb = cps[B].hb /\ hb <= h /\ spb = cps[B].spb /\ spb >= sp
    BY <1>1 DEF ChoicesOrdered
  <1>4. sp \in Nat /\ h \in Nat /\ hb \in Nat /\ spb \in Nat
    BY RegsType
  <1>. QED BY <1>1, <1>2, <1>3, <1>4

(***************************************************************************)
(* A step that trails the unbound cells it changes, if they need it, keeps *)
(* the view of every choice point.                                         *)
(***************************************************************************)
Trails ==
  /\ Len(cps') = B
  /\ \A i \in 1 .. B : i # B => cps'[i].trail = cps[i].trail
  /\ cps[B].trail \subseteq cps'[B].trail
  /\ \A a \in cps'[B].trail :
       a \in cps[B].trail \/ (a \in spb .. hb - 1 /\ Unbound(store, a))
  /\ \A a \in spb .. hb - 1 : store'[a] = store[a] \/ a \in cps'[B].trail

LEMMA ViewsKept ==
  ASSUME TypeOK, ChoicesOrdered, Trails,
         NEW i \in 1 .. B, NEW a \in cps[i].spb .. cps[i].hb - 1
  PROVE  ViewAt(i, a)' = ViewAt(i, a)
  <1>1. a \in spb .. hb - 1 /\ B \in i .. B /\ B \in Nat
    BY ProtectedNested, CpsType
  <1>2. a \in TrailedFrom(i)' <=> \E j \in i .. B : a \in cps'[j].trail
    BY DEF TrailedFrom, Trails, B
  <1>3. a \in TrailedFrom(i) <=> \E j \in i .. B : a \in cps[j].trail
    BY TrailedFromDef
  <1>4. \A j \in i .. B : j \in 1 .. B
    BY <1>1
  <1>5. a \in TrailedFrom(i)' <=> a \in TrailedFrom(i) \/ a \in cps'[B].trail
    BY <1>1, <1>2, <1>3, <1>4 DEF Trails
  <1>6. CASE a \in TrailedFrom(i)
    BY <1>5, <1>6 DEF ViewAt
  <1>7. CASE a \notin TrailedFrom(i) /\ a \in cps'[B].trail
    <2>1. store[a] = Ref(a)
      BY <1>1, <1>3, <1>7 DEF Trails, Unbound
    <2>. QED BY <1>5, <1>7, <2>1 DEF ViewAt
  <1>8. CASE a \notin TrailedFrom(i) /\ a \notin cps'[B].trail
    <2>1. store'[a] = store[a]
      BY <1>1, <1>8 DEF Trails
    <2>. QED BY <1>5, <1>8, <2>1 DEF ViewAt
  <1>. QED BY <1>6, <1>7, <1>8

LEMMA MayHoldMonotonic ==
  ASSUME NEW w \in Word, NEW a, NEW lo \in Nat, NEW hi \in Nat, lo <= hi, MayHold(w, a, lo)
  PROVE  MayHold(w, a, hi)
  BY DEF MayHold, Word

(* A cell may always be unbound. *)
LEMMA MayHoldUnbound ==
  ASSUME NEW a \in Nat, NEW hi \in Nat, a < hi
  PROVE  MayHold(Ref(a), a, hi)
  BY HeapBaseAssumption DEF MayHold, Ref

(***************************************************************************)
(* One lemma for every step that goes forward, those of gv_set included:   *)
(* the HB of the n oldest choice points is raised (n = 0 when none is).    *)
(***************************************************************************)
Raised(n, hbl) ==
  /\ hbl = IF n = B THEN h' ELSE cps[n + 1].hb
  /\ \A i \in 1 .. B : /\ cps'[i].spb = cps[i].spb
                       /\ cps'[i].hb = IF i <= n THEN hbl ELSE cps[i].hb
  /\ hb' = cps'[B].hb

LEMMA ForwardStep ==
  ASSUME IInv, Trails,
         sp' \in 0 .. spb, h' \in h .. HeapEnd, spb' = spb,
         store' \in [sp' .. h' - 1 -> Word], ClosedOn(store', sp', h'),
         cps' \in Seq(Choice),
         NEW n \in 0 .. B, NEW hbl, Raised(n, hbl),
         gv' \in [GVars -> Word],
         \A g \in GVars : /\ MayHold(gv'[g], HeapBase, h')
                          /\ \A i \in 1 .. B : MayHold(gv'[g], HeapBase, cps'[i].hb)
  PROVE  IInv'
  <1>. USE DEF IInv
  <1>1. /\ B \in Nat /\ B >= 1 /\ B <= MaxChoice /\ B' = B
        /\ B \in 1 .. B /\ n \in Nat
        /\ \A i \in 1 .. B : cps[i].hb \in Nat /\ cps[i].spb \in Nat
    BY CpsType DEF Trails, B
  <1>2. /\ sp' \in Nat /\ h' \in Nat /\ spb \in Nat /\ spb <= HeapBase
        /\ hb \in Nat /\ h \in Nat /\ hb = cps[B].hb /\ hb <= h /\ h <= h'
        /\ HeapBase \in Nat /\ HeapEnd \in Nat /\ h' <= HeapEnd /\ HeapBase <= h
        /\ HeapBase <= hb
    BY RegsType DEF ChoicesOrdered
  <1>3. \A i, j \in 1 .. B : i <= j =>
            cps[i].hb <= cps[j].hb /\ cps[i].spb >= cps[j].spb
    BY DEF ChoicesOrdered
  <1>4. hbl \in Nat /\ hbl <= h' /\ \A i \in 1 .. B : i <= n => cps[i].hb <= hbl
    <2>1. CASE n = B
      <3>1. hbl = h'
        BY <2>1 DEF Raised
      <3>2. \A i \in 1 .. B : i <= B /\ cps[i].hb <= cps[B].hb
        BY <1>1, <1>3
      <3>. QED BY <1>1, <1>2, <3>1, <3>2
    <2>2. CASE n # B
      <3>1. n + 1 \in 1 .. B /\ hbl = cps[n + 1].hb
        BY <1>1, <2>2 DEF Raised
      <3>2. cps[n + 1].hb <= cps[B].hb
        BY <1>1, <1>3, <3>1
      <3>3. hbl \in Nat /\ hbl <= h'
        BY <1>1, <1>2, <3>1, <3>2
      <3>4. ASSUME NEW i \in 1 .. B, i <= n PROVE cps[i].hb <= hbl
        <4>1. i <= n + 1
          BY <1>1, <3>4
        <4>. QED BY <1>3, <3>1, <4>1
      <3>. QED BY <3>3, <3>4
    <2>. QED BY <2>1, <2>2
  <1>5. \A i \in 1 .. B : /\ cps'[i].hb \in Nat /\ cps'[i].spb \in Nat
                          /\ cps[i].hb <= cps'[i].hb /\ cps'[i].hb <= h'
                          /\ cps'[i].spb = cps[i].spb
    <2>. SUFFICES ASSUME NEW i \in 1 .. B
                  PROVE  /\ cps'[i].hb \in Nat /\ cps'[i].spb \in Nat
                         /\ cps[i].hb <= cps'[i].hb /\ cps'[i].hb <= h'
                         /\ cps'[i].spb = cps[i].spb
      OBVIOUS
    <2>1. cps[i].hb \in Nat /\ cps[i].spb \in Nat /\ cps[i].hb <= cps[B].hb
      BY <1>1, <1>3
    <2>2. cps'[i].spb = cps[i].spb /\ cps'[i].hb = IF i <= n THEN hbl ELSE cps[i].hb
      BY DEF Raised
    <2>. QED BY <1>2, <1>4, <2>1, <2>2
  <1>6. TypeOK'
    <2>1. hb' \in HeapBase .. HeapEnd
      BY <1>1, <1>2, <1>5 DEF Raised
    <2>2. /\ sp' \in 0 .. HeapBase /\ h' \in HeapBase .. HeapEnd
          /\ spb' \in 0 .. HeapBase /\ B' \in 1 .. MaxChoice
      BY <1>1, <1>2, MaxChoiceAssumption
    <2>. QED BY <2>1, <2>2 DEF TypeOK, Live
  <1>7. ChoicesOrdered'
    <2>1. hb' = cps'[B].hb /\ hb' <= h' /\ spb' = cps'[B].spb /\ spb' >= sp'
      BY <1>1, <1>2, <1>5 DEF Raised, ChoicesOrdered
    <2>2. \A i, j \in 1 .. B : i <= j =>
              cps'[i].hb <= cps'[j].hb /\ cps'[i].spb >= cps'[j].spb
      <3>. SUFFICES ASSUME NEW i \in 1 .. B, NEW j \in 1 .. B, i <= j
                    PROVE  cps'[i].hb <= cps'[j].hb /\ cps'[i].spb >= cps'[j].spb
        OBVIOUS
      <3>1. CASE i <= n /\ j > n
        <4>1. n + 1 \in 1 .. B /\ n + 1 <= j /\ n # B
          BY <1>1, <3>1
        <4>. QED BY <1>1, <1>3, <1>5, <3>1, <4>1 DEF Raised
      <3>2. CASE j <= n
        BY <1>1, <1>3, <1>4, <1>5, <3>2 DEF Raised
      <3>3. CASE i > n
        <4>1. i \in 1 .. B /\ j \in 1 .. B /\ ~ (i <= n) /\ ~ (j <= n)
          BY <1>1, <3>3
        <4>2. /\ cps'[i].hb = cps[i].hb /\ cps'[i].spb = cps[i].spb
              /\ cps'[j].hb = cps[j].hb /\ cps'[j].spb = cps[j].spb
          BY Zenon, <4>1 DEF Raised
        <4>. QED BY <1>3, <4>2
      <3>. QED BY <1>1, <3>1, <3>2, <3>3
    <2>3. \A i \in 1 .. B :
            /\ cps'[i].hb >= HeapBase /\ cps'[i].spb <= HeapBase
            /\ cps'[i].trail \subseteq cps'[i].spb .. cps'[i].hb - 1
      <3>. SUFFICES ASSUME NEW i \in 1 .. B
                    PROVE  /\ cps'[i].hb >= HeapBase /\ cps'[i].spb <= HeapBase
                           /\ cps'[i].trail \subseteq cps'[i].spb .. cps'[i].hb - 1
        OBVIOUS
      <3>1. /\ cps[i].hb >= HeapBase /\ cps[i].spb <= HeapBase
            /\ cps[i].trail \subseteq cps[i].spb .. cps[i].hb - 1
            /\ cps[B].trail \subseteq cps[B].spb .. cps[B].hb - 1
            /\ cps[B].hb = hb /\ cps[B].spb = spb
        BY <1>1 DEF ChoicesOrdered
      <3>2. cps'[i].trail \subseteq cps[i].spb .. cps[i].hb - 1
        BY <3>1 DEF Trails
      <3>3. /\ cps[i].hb \in Nat /\ cps[i].spb \in Nat /\ cps'[i].hb \in Nat
            /\ cps[i].hb <= cps'[i].hb /\ cps'[i].spb = cps[i].spb
        BY <1>1, <1>5
      <3>4. cps[i].spb .. cps[i].hb - 1 \subseteq cps'[i].spb .. cps'[i].hb - 1
        BY <3>3
      <3>5. cps'[i].trail \subseteq cps'[i].spb .. cps'[i].hb - 1
        BY <3>2, <3>4
      <3>6. cps'[i].hb >= HeapBase /\ cps'[i].spb <= HeapBase
        <4>. DEFINE old == cps[i].hb
                    new == cps'[i].hb
        <4>1. old \in Nat /\ new \in Nat /\ HeapBase \in Nat /\ old >= HeapBase /\ old <= new
          BY <1>2, <3>1, <3>3
        <4>2. new >= HeapBase
          <5>. HIDE DEF old, new
          <5>. QED BY <4>1
        <4>. QED BY <3>1, <3>3, <4>2
      <3>. QED BY <3>5, <3>6
    <2>. QED BY <1>1, <2>1, <2>2, <2>3 DEF ChoicesOrdered
  <1>8. NoDangling'
    BY DEF NoDangling
  <1>9. FailureSafe'
    <2>. SUFFICES ASSUME NEW i \in 1 .. B, NEW a \in cps'[i].spb .. cps'[i].hb - 1
                  PROVE  MayHold(ViewAt(i, a)', a, cps'[i].hb)
      BY <1>1, ViewIsViewAt DEF FailureSafe, ClosedOn, View, ViewAt
    <2>1. a \in Nat /\ a < cps'[i].hb /\ cps'[i].hb \in Nat
      BY <1>5
    <2>2. CASE a \in TrailedFrom(i)'
      BY <2>1, <2>2, MayHoldUnbound DEF ViewAt
    <2>3. CASE a \notin TrailedFrom(i)'
      (* j is the choice point whose HB choice point i now has, if there is one *)
      <3>1. CASE i <= n /\ n = B
        <4>1. cps'[i].hb = h'
          BY <3>1 DEF Raised
        <4>2. sp' <= cps'[i].spb /\ cps'[i].spb \in Nat
          <5>1. cps[i].spb >= cps[B].spb /\ cps[B].spb = spb
            BY <1>1, <1>3 DEF ChoicesOrdered
          <5>. QED BY SMTT(30), <1>1, <1>2, <1>5, <5>1
        <4>3. a \in sp' .. h' - 1
          BY <1>2, <4>1, <4>2
        <4>. QED BY <2>3, <4>1, <4>3 DEF ViewAt, ClosedOn
      <3>2. ASSUME NEW j \in i .. B, cps'[i].hb = cps[j].hb
            PROVE  MayHold(ViewAt(i, a)', a, cps'[i].hb)
        <4>1. j \in 1 .. B /\ a \in cps[j].spb .. cps[j].hb - 1
          BY SMTT(30), <1>1, <1>3, <1>5, <3>2
        <4>2. a \notin TrailedFrom(j)'
          BY <1>1, <2>3, <3>2 DEF TrailedFrom
        <4>3. ViewAt(i, a)' = ViewAt(j, a)'
          BY <2>3, <4>2 DEF ViewAt
        <4>4. ViewAt(j, a)' = ViewAt(j, a)
          BY <4>1, ViewsKept
        <4>5. MayHold(View(j)[a], a, cps[j].hb)
          BY <4>1 DEF FailureSafe, ClosedOn
        <4>. QED BY <3>2, <4>1, <4>3, <4>4, <4>5, ViewIsViewAt
      <3>3. CASE i <= n /\ n # B
        <4>1. n + 1 \in i .. B /\ cps'[i].hb = cps[n + 1].hb
          BY <1>1, <3>3 DEF Raised
        <4>. QED BY <3>2, <4>1
      <3>4. CASE i > n
        <4>1. i \in i .. B /\ cps'[i].hb = cps[i].hb
          BY <1>1, <3>4 DEF Raised
        <4>. QED BY <3>2, <4>1
      <3>. QED BY <1>1, <3>1, <3>3, <3>4
    <2>. QED BY <2>2, <2>3
  <1>. QED BY <1>6, <1>7, <1>8, <1>9

(* A step that only builds and binds: no HB and no global variable moves. *)
KeepsChoices ==
  /\ cps' \in Seq(Choice)
  /\ \A i \in 1 .. B : cps'[i].hb = cps[i].hb /\ cps'[i].spb = cps[i].spb
  /\ hb' = hb /\ spb' = spb /\ gv' = gv

LEMMA PlainStep ==
  ASSUME IInv, Trails, KeepsChoices,
         sp' \in 0 .. spb, h' \in h .. HeapEnd,
         store' \in [sp' .. h' - 1 -> Word], ClosedOn(store', sp', h')
  PROVE  IInv'
  <1>. DEFINE hbl == IF 0 = B THEN h' ELSE cps[1].hb
  <1>1. B \in Nat /\ B >= 1 /\ 0 \in 0 .. B /\ 0 + 1 = 1 /\ B \in 1 .. B
    BY CpsType DEF IInv
  <1>2. Raised(0, hbl)
    BY <1>1 DEF Raised, KeepsChoices, IInv, ChoicesOrdered
  <1>3. gv' \in [GVars -> Word]
    BY DEF KeepsChoices, IInv, TypeOK
  <1>4. \A g \in GVars : /\ MayHold(gv'[g], HeapBase, h')
                         /\ \A i \in 1 .. B : MayHold(gv'[g], HeapBase, cps'[i].hb)
    <2>. SUFFICES ASSUME NEW g \in GVars
                  PROVE  /\ MayHold(gv[g], HeapBase, h')
                         /\ \A i \in 1 .. B : MayHold(gv[g], HeapBase, cps[i].hb)
      BY DEF KeepsChoices
    <2>1. /\ MayHold(gv[g], HeapBase, h)
          /\ \A i \in 1 .. B : MayHold(gv[g], HeapBase, cps[i].hb)
      BY DEF IInv, NoDangling, FailureSafe
    <2>2. gv[g] \in Word /\ h \in Nat /\ h' \in Nat /\ h <= h'
      BY <1>3, RegsType DEF IInv, KeepsChoices
    <2>. QED BY <2>1, <2>2, MayHoldMonotonic
  <1>. HIDE DEF hbl
  <1>. QED BY <1>1, <1>2, <1>3, <1>4, ForwardStep DEF KeepsChoices

(* Binding the unbound variable r, with TRAIL *)
LEMMA BindTrails ==
  ASSUME IInv, NEW r \in UnboundVars, cps' = Trail(r), hb' = hb, spb' = spb, gv' = gv,
         \A a \in spb .. hb - 1 : a # r => store'[a] = store[a]
  PROVE  Trails /\ KeepsChoices
  <1>1. r \in Live /\ r \in Addr /\ r \in Nat /\ Unbound(store, r)
    BY RegsType DEF UnboundVars, IInv
  <1>2. /\ cps' \in Seq(Choice)
        /\ Len(cps') = B
        /\ \A i \in 1 .. B :
              /\ cps'[i].hb = cps[i].hb
              /\ cps'[i].spb = cps[i].spb
              /\ i # B => cps'[i].trail = cps[i].trail
        /\ cps'[B].trail = IF MustTrail(r) THEN cps[B].trail \cup {r} ELSE cps[B].trail
    BY <1>1, TrailProperties DEF IInv
  <1>3. MustTrail(r) <=> r \in spb .. hb - 1
    BY <1>1, RegsType DEF MustTrail, IInv
  <1>4. cps[B].trail \subseteq cps'[B].trail
    BY <1>2
  <1>5. \A a \in cps'[B].trail :
          a \in cps[B].trail \/ (a \in spb .. hb - 1 /\ Unbound(store, a))
    BY <1>1, <1>2, <1>3
  <1>6. \A a \in spb .. hb - 1 : store'[a] = store[a] \/ a \in cps'[B].trail
    BY <1>2, <1>3
  <1>7. Trails
    BY <1>2, <1>4, <1>5, <1>6 DEF Trails
  <1>. QED BY <1>2, <1>7 DEF KeepsChoices

(* Binding nothing *)
LEMMA NoBindTrails ==
  ASSUME IInv, cps' = cps, hb' = hb, spb' = spb, gv' = gv,
         \A a \in spb .. hb - 1 : store'[a] = store[a]
  PROVE  Trails /\ KeepsChoices
  <1>1. cps \in Seq(Choice)
    BY DEF IInv, TypeOK
  <1>2. KeepsChoices
    BY <1>1 DEF KeepsChoices
  <1>3. /\ Len(cps') = B
        /\ \A a \in cps'[B].trail : a \in cps[B].trail
    BY DEF B
  <1>4. Trails
    BY <1>3 DEF Trails
  <1>. QED BY <1>2, <1>4

(***************************************************************************)
(* Stores are built by Put: one cell changes, or appears at either end.    *)
(***************************************************************************)
Memory(m, lo, hi) == m \in [lo .. hi - 1 -> Word] /\ ClosedOn(m, lo, hi)

LEMMA PutMemory ==
  ASSUME NEW m, NEW lo \in Nat, NEW hi \in Nat, Memory(m, lo, hi),
         NEW lo2 \in Nat, NEW hi2 \in Nat, lo2 <= lo, hi <= hi2,
         NEW a, lo2 .. hi2 - 1 = (lo .. hi - 1) \cup {a},
         NEW w \in Word, MayHold(w, a, hi2)
  PROVE  Memory(Put(m, a, w), lo2, hi2)
  <1>1. DOMAIN m = lo .. hi - 1 /\ \A c \in lo .. hi - 1 : m[c] \in Word /\ MayHold(m[c], c, hi)
    BY DEF Memory, ClosedOn
  <1>2. Put(m, a, w) \in [lo2 .. hi2 - 1 -> Word]
    BY <1>1 DEF Put
  <1>3. ASSUME NEW c \in lo2 .. hi2 - 1
        PROVE  MayHold(Put(m, a, w)[c], c, hi2)
    <2>1. CASE c = a
      <3>1. Put(m, a, w)[c] = w
        BY <2>1 DEF Put
      <3>. QED BY <2>1, <3>1
    <2>2. CASE c # a
      <3>1. c \in lo .. hi - 1 /\ Put(m, a, w)[c] = m[c]
        BY <1>1, <2>2 DEF Put
      <3>. QED BY <1>1, <3>1, MayHoldMonotonic
    <2>. QED BY <2>1, <2>2
  <1>. QED BY <1>2, <1>3 DEF Memory, ClosedOn

LEMMA RestrictMemory ==
  ASSUME NEW m, NEW lo \in Nat, NEW hi \in Nat, Memory(m, lo, hi),
         NEW lo2 \in lo .. hi
  PROVE  /\ Memory(Restrict(m, lo2 .. hi - 1), lo2, hi)
         /\ \A c \in lo2 .. hi - 1 : Restrict(m, lo2 .. hi - 1)[c] = m[c]
  <1>1. lo2 .. hi - 1 \subseteq lo .. hi - 1
    OBVIOUS
  <1>. QED BY <1>1 DEF Memory, ClosedOn, Restrict

(* The three uses of PutMemory *)
LEMMA ChangeMemory ==
  ASSUME NEW m, NEW lo \in Nat, NEW hi \in Nat, Memory(m, lo, hi),
         NEW a \in lo .. hi - 1, NEW w \in Word, MayHold(w, a, hi)
  PROVE  Memory(Put(m, a, w), lo, hi)
  <1>1. lo .. hi - 1 = (lo .. hi - 1) \cup {a}
    OBVIOUS
  <1>. QED BY <1>1, PutMemory

LEMMA GrowHeap ==
  ASSUME NEW m, NEW lo \in Nat, NEW hi \in Nat, Memory(m, lo, hi), lo <= hi,
         NEW w \in Word, MayHold(w, hi, hi + 1)
  PROVE  Memory(Put(m, hi, w), lo, hi + 1)
  <1>1. lo .. (hi + 1) - 1 = (lo .. hi - 1) \cup {hi} /\ hi + 1 \in Nat
    OBVIOUS
  <1>. QED BY <1>1, PutMemory

LEMMA GrowStack ==
  ASSUME NEW m, NEW lo \in Nat, NEW hi \in Nat, Memory(m, lo, hi), 0 < lo, lo <= hi,
         NEW w \in Word, MayHold(w, lo - 1, hi)
  PROVE  Memory(Put(m, lo - 1, w), lo - 1, hi)
  <1>1. lo - 1 .. hi - 1 = (lo .. hi - 1) \cup {lo - 1} /\ lo - 1 \in Nat
    OBVIOUS
  <1>. QED BY <1>1, PutMemory

(* A fresh heap variable, and references to it *)
LEMMA FreshHeapVar ==
  ASSUME NEW p \in Nat, HeapBase <= p, NEW hi \in Nat, p < hi
  PROVE  /\ Ref(p) \in Word /\ Str(p) \in Word
         /\ \A a \in Nat : a <= p => MayHold(Ref(p), a, hi) /\ MayHold(Str(p), a, hi)
  BY HeapBaseAssumption DEF MayHold, Ref, Str, Word

(* What the steps below use of the invariant *)
LEMMA InvFacts ==
  ASSUME IInv
  PROVE  /\ HeapBase \in Nat /\ HeapEnd \in Nat /\ sp \in Nat /\ h \in Nat
         /\ hb \in Nat /\ spb \in Nat
         /\ sp <= spb /\ spb <= HeapBase /\ HeapBase <= hb /\ hb <= h /\ h <= HeapEnd
         /\ DOMAIN store = sp .. h - 1 /\ Live = sp .. h - 1
         /\ Memory(store, sp, h)
         /\ spb .. hb - 1 \subseteq sp .. h - 1
         /\ UnboundVars \subseteq sp .. h - 1
  <1>1. /\ HeapBase \in Nat /\ HeapEnd \in Nat /\ sp \in Nat /\ h \in Nat
        /\ hb \in Nat /\ spb \in Nat
        /\ spb <= HeapBase /\ HeapBase <= hb /\ h <= HeapEnd
        /\ DOMAIN store = Live
    BY RegsType DEF IInv
  <1>2. hb <= h /\ sp <= spb
    BY <1>1 DEF IInv, ChoicesOrdered
  <1>3. Memory(store, sp, h)
    BY DEF IInv, NoDangling, TypeOK, Live, Memory
  <1>4. UnboundVars \subseteq Live
    BY DEF UnboundVars
  <1>. QED BY <1>1, <1>2, <1>3, <1>4 DEF Live

(***************************************************************************)
(* What a step of forward execution does, all told: a cell that stays      *)
(* changes only if it is unbound or a stack cell newer than every choice   *)
(* point.                                                                  *)
(***************************************************************************)
Builds ==
  /\ Trails /\ KeepsChoices
  /\ sp' \in 0 .. spb /\ h' \in h .. HeapEnd
  /\ Memory(store', sp', h')
  /\ \A a \in sp .. h - 1 :
       a >= sp' => store'[a] = store[a] \/ Unbound(store, a) \/ a < spb

(* PlainStep in these terms *)
LEMMA BuildStep ==
  ASSUME IInv, Builds
  PROVE  IInv'
  BY PlainStep DEF Builds, Memory

LEMMA BindBuilds ==
  ASSUME IInv, NEW r \in UnboundVars, cps' = Trail(r), hb' = hb, spb' = spb, gv' = gv,
         sp' \in 0 .. spb, h' \in h .. HeapEnd, Memory(store', sp', h'),
         \A a \in sp .. h - 1 : a >= sp' /\ a # r => store'[a] = store[a] \/ a < spb
  PROVE  Builds
  <1>1. \A a \in spb .. hb - 1 : a \in sp .. h - 1 /\ a >= sp' /\ ~ (a < spb)
    BY InvFacts
  <1>2. Trails /\ KeepsChoices
    <2>1. \A a \in spb .. hb - 1 : a # r => store'[a] = store[a]
      BY <1>1
    <2>. QED BY <2>1, BindTrails
  <1>3. Unbound(store, r)
    BY DEF UnboundVars
  <1>. QED BY <1>2, <1>3 DEF Builds

LEMMA NoBindBuilds ==
  ASSUME IInv, cps' = cps, hb' = hb, spb' = spb, gv' = gv,
         sp' \in 0 .. spb, h' \in h .. HeapEnd, Memory(store', sp', h'),
         \A a \in sp .. h - 1 : a >= sp' => store'[a] = store[a] \/ a < spb
  PROVE  Builds
  <1>1. \A a \in spb .. hb - 1 : a \in sp .. h - 1 /\ a >= sp' /\ ~ (a < spb)
    BY InvFacts
  <1>2. Trails /\ KeepsChoices
    <2>1. \A a \in spb .. hb - 1 : store'[a] = store[a]
      BY <1>1
    <2>. QED BY <2>1, NoBindTrails
  <1>. QED BY <1>2 DEF Builds
------------------------------------------------------------------------------
LEMMA BindValueBuilds ==
  ASSUME IInv, NEW r \in Live, NEW w \in Operands, BindValue(r, w)
  PROVE  Builds
  <1>1. /\ r \in UnboundVars /\ w \in Word /\ w.tag # "ref"
        /\ w.tag = "str" => w.p >= HeapBase /\ w.p < h
    BY OperandProperties DEF BindValue, IInv
  <1>2. /\ sp' = sp /\ h' = h /\ hb' = hb /\ spb' = spb /\ gv' = gv /\ cps' = Trail(r)
        /\ store' = Put(store, r, w)
    BY DEF BindValue, regs
  <1>3. \A a \in sp .. h - 1 : a # r => store'[a] = store[a]
    BY <1>2, InvFacts DEF Put
  <1>4. Memory(store', sp', h')
    <2>1. MayHold(w, r, h)
      BY <1>1 DEF MayHold, IsPointer, Word
    <2>2. sp .. h - 1 = (sp .. h - 1) \cup {r}
      BY <1>1, InvFacts
    <2>. QED BY <1>1, <1>2, <2>1, <2>2, InvFacts, PutMemory
  <1>5. sp' \in 0 .. spb /\ h' \in h .. HeapEnd
    BY <1>2, InvFacts
  <1>. QED BY <1>1, <1>2, <1>3, <1>4, <1>5, BindBuilds

LEMMA UnifyVarsBuilds ==
  ASSUME IInv, NEW f1 \in Live, NEW f2 \in Live, UnifyVars(f1, f2)
  PROVE  Builds
  <1>. DEFINE b == VarVar(f1, f2)
  <1>1. /\ f1 \in sp .. h - 1 /\ f2 \in sp .. h - 1
        /\ f1 \in UnboundVars /\ f2 \in UnboundVars
    BY InvFacts DEF UnifyVars
  <1>2. /\ b.from \in UnboundVars /\ b.to \in sp .. h - 1
        /\ IF b.from < HeapBase THEN b.to >= b.from ELSE b.to >= HeapBase
    BY <1>1, InvFacts DEF VarVar
  <1>3. /\ sp' = sp /\ h' = h /\ hb' = hb /\ spb' = spb /\ gv' = gv /\ cps' = Trail(b.from)
        /\ store' = Put(store, b.from, Ref(b.to))
    BY DEF UnifyVars, regs
  <1>. HIDE DEF b
  <1>4. \A a \in sp .. h - 1 : a # b.from => store'[a] = store[a]
    BY <1>3, InvFacts DEF Put
  <1>5. Memory(store', sp', h')
    <2>1. b.to \in Nat /\ b.to < h
      BY <1>2, InvFacts
    <2>2. Ref(b.to) \in Word /\ MayHold(Ref(b.to), b.from, h)
      BY <1>2, <2>1 DEF Ref, Word, MayHold
    <2>3. sp .. h - 1 = (sp .. h - 1) \cup {b.from}
      BY <1>2, InvFacts
    <2>. QED BY <1>3, <2>2, <2>3, InvFacts, PutMemory
  <1>6. sp' \in 0 .. spb /\ h' \in h .. HeapEnd
    BY <1>3, InvFacts
  <1>. QED BY <1>2, <1>3, <1>4, <1>5, <1>6, BindBuilds

LEMMA InitYVarBuilds ==
  ASSUME IInv, InitYVar
  PROVE  Builds
  <1>1. /\ sp' = sp - 1 /\ h' = h /\ hb' = hb /\ spb' = spb /\ gv' = gv /\ cps' = cps
        /\ store' = Put(store, sp - 1, Ref(sp - 1)) /\ sp > 0
    BY DEF InitYVar
  <1>2. \A a \in sp .. h - 1 : store'[a] = store[a]
    BY <1>1, InvFacts DEF Put
  <1>3. Memory(store', sp', h')
    <2>1. sp - 1 \in Nat /\ sp - 1 < h
      BY <1>1, InvFacts
    <2>2. Ref(sp - 1) \in Word /\ MayHold(Ref(sp - 1), sp - 1, h)
      BY <2>1, InvFacts, MayHoldUnbound DEF Ref, Word
    <2>. QED BY <1>1, <2>2, InvFacts, GrowStack
  <1>4. sp' \in 0 .. spb /\ h' \in h .. HeapEnd
    BY <1>1, InvFacts
  <1>. QED BY <1>1, <1>2, <1>3, <1>4, NoBindBuilds

LEMMA MoveBuilds ==
  ASSUME IInv, NEW c \in Live, Move(c)
  PROVE  Builds
  <1>1. /\ sp' = sp - 1 /\ h' = h /\ hb' = hb /\ spb' = spb /\ gv' = gv /\ cps' = cps
        /\ store' = Put(store, sp - 1, store[c]) /\ sp > 0
    BY DEF Move
  <1>2. \A a \in sp .. h - 1 : store'[a] = store[a]
    BY <1>1, InvFacts DEF Put
  <1>3. Memory(store', sp', h')
    <2>1. c \in sp .. h - 1 /\ store[c] \in Word /\ MayHold(store[c], c, h)
      BY InvFacts DEF Memory, ClosedOn
    <2>2. MayHold(store[c], sp - 1, h)
      BY <1>1, <2>1, InvFacts DEF MayHold, Word
    <2>. QED BY <1>1, <2>1, <2>2, InvFacts, GrowStack
  <1>4. sp' \in 0 .. spb /\ h' \in h .. HeapEnd
    BY <1>1, InvFacts
  <1>. QED BY <1>1, <1>2, <1>3, <1>4, NoBindBuilds

LEMMA PutXVarBuilds ==
  ASSUME IInv, PutXVar
  PROVE  Builds
  <1>. DEFINE m1 == Put(store, h, Ref(h))
  <1>1. /\ sp' = sp - 1 /\ h' = h + 1 /\ hb' = hb /\ spb' = spb /\ gv' = gv /\ cps' = cps
        /\ store' = Put(m1, sp - 1, Ref(h)) /\ sp > 0 /\ h < HeapEnd
    BY DEF PutXVar
  <1>2. \A a \in sp .. h - 1 : store'[a] = store[a]
    BY <1>1, InvFacts DEF Put
  <1>3. Memory(store', sp', h')
    <2>1. /\ Ref(h) \in Word /\ MayHold(Ref(h), h, h + 1)
          /\ MayHold(Ref(h), sp - 1, h + 1)
      BY <1>1, InvFacts, FreshHeapVar
    <2>2. Memory(m1, sp, h + 1)
      BY <2>1, InvFacts, GrowHeap
    <2>. HIDE DEF m1
    <2>. QED BY <1>1, <2>1, <2>2, InvFacts, GrowStack
  <1>4. sp' \in 0 .. spb /\ h' \in h .. HeapEnd
    BY <1>1, InvFacts
  <1>. QED BY <1>1, <1>2, <1>3, <1>4, NoBindBuilds

(* The stack variable w is made to refer to the new heap variable h. *)
LEMMA Globalized ==
  ASSUME IInv, NEW w \in Operands, IsStackVar(w)
  PROVE  /\ w.p \in UnboundVars /\ w.p \in sp .. h - 1 /\ w.p \in Nat /\ w.p < HeapBase
         /\ Memory(Put(Put(store, h, Ref(h)), w.p, Ref(h)), sp, h + 1)
         /\ \A a \in sp .. h - 1 :
              a # w.p => Put(Put(store, h, Ref(h)), w.p, Ref(h))[a] = store[a]
  <1>1. w.p \in UnboundVars /\ w.p \in sp .. h - 1 /\ w.p \in Nat /\ w.p < HeapBase
    BY OperandProperties, InvFacts DEF IInv, IsStackVar
  <1>2. /\ Ref(h) \in Word /\ MayHold(Ref(h), h, h + 1)
        /\ MayHold(Ref(h), w.p, h + 1)
    BY <1>1, InvFacts, FreshHeapVar
  <1>3. Memory(Put(store, h, Ref(h)), sp, h + 1)
    BY <1>2, InvFacts, GrowHeap
  <1>4. w.p \in sp .. (h + 1) - 1 /\ h + 1 \in Nat
    BY <1>1, InvFacts
  <1>5. Memory(Put(Put(store, h, Ref(h)), w.p, Ref(h)), sp, h + 1)
    BY <1>2, <1>3, <1>4, InvFacts, ChangeMemory
  <1>. QED BY <1>1, <1>5, InvFacts DEF Put

(* An operand that is not a stack variable may go on the heap. *)
LEMMA GlobalOperand ==
  ASSUME IInv, NEW w \in Operands, ~ IsStackVar(w)
  PROVE  w \in Word /\ \A a \in 0 .. h : MayHold(w, a, h)
  <1>1. /\ w \in Word
        /\ w.tag = "ref" => w.p \in sp .. h - 1
        /\ w.tag = "str" => w.p >= HeapBase /\ w.p < h
    BY OperandProperties, InvFacts DEF IInv
  <1>2. w.tag \in {"ref", "str", "con"} /\ w.p \in Nat
    BY <1>1 DEF Word
  <1>3. IsPointer(w) => w.p >= HeapBase /\ w.p < h
    BY <1>1, <1>2, InvFacts DEF IsStackVar, IsPointer
  <1>4. ASSUME NEW a \in 0 .. h
        PROVE  MayHold(w, a, h)
    <2>1. CASE w.tag = "ref"
      (* an unbound heap variable *)
      BY <1>2, <1>3, <2>1, InvFacts DEF MayHold
    <2>2. CASE w.tag # "ref"
      BY <1>2, <1>3, <2>2, InvFacts DEF MayHold
    <2>. QED BY <2>1, <2>2
  <1>. QED BY <1>1, <1>4

LEMMA PutStructureBuilds ==
  ASSUME IInv, NEW w \in Operands, PutStructure(w)
  PROVE  Builds
  <1>1. /\ sp' = sp - 1 /\ h' = h + 1 /\ hb' = hb /\ spb' = spb /\ gv' = gv
        /\ sp > 0 /\ h < HeapEnd
    BY DEF PutStructure
  <1>2. sp' \in 0 .. spb /\ h' \in h .. HeapEnd
    BY <1>1, InvFacts
  <1>3. /\ Ref(h) \in Word /\ Str(h) \in Word
        /\ MayHold(Ref(h), h, h + 1) /\ MayHold(Str(h), sp - 1, h + 1)
    BY <1>1, InvFacts, FreshHeapVar
  <1>4. CASE IsStackVar(w)
    <2>. DEFINE m2 == Put(Put(store, h, Ref(h)), w.p, Ref(h))
    <2>1. cps' = Trail(w.p) /\ store' = Put(m2, sp - 1, Str(h))
      BY <1>4 DEF PutStructure
    <2>2. /\ w.p \in UnboundVars /\ Memory(m2, sp, h + 1)
          /\ \A a \in sp .. h - 1 : a # w.p => m2[a] = store[a]
      BY <1>4, Globalized
    <2>. HIDE DEF m2
    <2>3. DOMAIN m2 = sp .. h
      BY <2>2, InvFacts DEF Memory
    <2>4. \A a \in sp .. h - 1 : a # w.p => store'[a] = store[a]
      BY <2>1, <2>2, <2>3, InvFacts DEF Put
    <2>5. Memory(store', sp', h')
      BY <1>1, <1>3, <2>1, <2>2, InvFacts, GrowStack
    <2>. QED BY <1>1, <1>2, <2>1, <2>2, <2>4, <2>5, BindBuilds
  <1>5. CASE ~ IsStackVar(w)
    <2>. DEFINE m1 == Put(store, h, w)
    <2>1. cps' = cps /\ store' = Put(m1, sp - 1, Str(h))
      BY <1>5 DEF PutStructure
    <2>2. w \in Word /\ MayHold(w, h, h)
      BY <1>5, GlobalOperand, InvFacts
    <2>3. MayHold(w, h, h + 1)
      BY <2>2, InvFacts, MayHoldMonotonic
    <2>4. Memory(m1, sp, h + 1)
      BY <2>2, <2>3, InvFacts, GrowHeap
    <2>5. \A a \in sp .. h - 1 : store'[a] = store[a]
      BY <1>1, <2>1, InvFacts DEF Put
    <2>. HIDE DEF m1
    <2>6. Memory(store', sp', h')
      BY <1>1, <1>3, <2>1, <2>4, InvFacts, GrowStack
    <2>. QED BY <1>1, <1>2, <2>1, <2>5, <2>6, NoBindBuilds
  <1>. QED BY <1>4, <1>5

(* The argument of a last call may be left just below the choice point: a  *)
(* stack variable that is not unsafe is in its protection.                 *)
LEMMA LastCallBuilds ==
  ASSUME IInv, NEW w \in Operands, NEW s \in sp + 1 .. spb, LastCall(w, s)
  PROVE  Builds
  <1>1. /\ sp' = s - 1 /\ hb' = hb /\ spb' = spb /\ gv' = gv
        /\ s - 1 \in sp .. h - 1 /\ s - 1 \in Nat /\ s - 1 < spb /\ s \in Nat
        /\ s - 1 >= sp /\ s - 1 < HeapBase
    BY InvFacts DEF LastCall
  <1>2. sp' \in 0 .. spb
    BY <1>1, InvFacts
  <1>3. CASE UnsafeVar(w)
    <2>. DEFINE m2 == Put(Put(store, h, Ref(h)), w.p, Ref(h))
                m3 == Put(m2, s - 1, Ref(h))
    <2>1. /\ h < HeapEnd /\ h' = h + 1 /\ cps' = Trail(w.p)
          /\ store' = Restrict(m3, s - 1 .. h)
      BY <1>3 DEF LastCall
    <2>2. /\ w.p \in UnboundVars /\ Memory(m2, sp, h + 1)
          /\ \A a \in sp .. h - 1 : a # w.p => m2[a] = store[a]
      BY <1>3, Globalized DEF UnsafeVar
    <2>. HIDE DEF m2
    <2>3. /\ Ref(h) \in Word /\ MayHold(Ref(h), s - 1, h + 1)
      BY <1>1, InvFacts, FreshHeapVar
    <2>4. s - 1 \in sp .. (h + 1) - 1 /\ h + 1 \in Nat /\ s - 1 \in sp .. h + 1
      BY <1>1, InvFacts
    <2>5. Memory(m3, sp, h + 1)
      BY <2>2, <2>3, <2>4, InvFacts, ChangeMemory
    <2>6. DOMAIN m2 = sp .. h
      BY <2>2, InvFacts DEF Memory
    <2>7. \A a \in sp .. h - 1 : a # w.p => m3[a] = store[a] \/ a = s - 1
      BY <1>1, <2>2, <2>6, InvFacts DEF Put
    <2>. HIDE DEF m3
    <2>8. s - 1 .. (h + 1) - 1 = s - 1 .. h
      BY InvFacts
    <2>9. /\ Memory(store', s - 1, h + 1)
          /\ \A a \in s - 1 .. h : store'[a] = m3[a]
      <3>1. /\ Memory(Restrict(m3, s - 1 .. (h + 1) - 1), s - 1, h + 1)
            /\ \A a \in s - 1 .. (h + 1) - 1 : Restrict(m3, s - 1 .. (h + 1) - 1)[a] = m3[a]
        <4>. DEFINE top == h + 1
        <4>1. sp \in Nat /\ top \in Nat /\ Memory(m3, sp, top) /\ s - 1 \in sp .. top
          BY <2>4, <2>5, InvFacts
        <4>. HIDE DEF top
        <4>2. /\ Memory(Restrict(m3, s - 1 .. top - 1), s - 1, top)
              /\ \A a \in s - 1 .. top - 1 : Restrict(m3, s - 1 .. top - 1)[a] = m3[a]
          BY Zenon, <4>1, RestrictMemory
        <4>. QED BY <4>2 DEF top
      <3>. QED BY <2>1, <2>8, <3>1
    <2>10. \A a \in sp .. h - 1 : a >= sp' /\ a # w.p => store'[a] = store[a] \/ a < spb
      <3>1. /\ h \in Nat /\ sp \in Nat /\ sp' = s - 1 /\ s \in Nat /\ s - 1 < spb
        BY <1>1, InvFacts
      <3>2. \A a \in sp .. h - 1 : a >= sp' => a \in s - 1 .. h
        BY <3>1
      <3>. QED BY <2>7, <2>9, <3>1, <3>2
    <2>11. h' \in h .. HeapEnd
      BY <2>1, InvFacts
    <2>. QED BY <1>1, <1>2, <2>1, <2>2, <2>9, <2>10, <2>11, BindBuilds
  <1>4. CASE ~ UnsafeVar(w)
    <2>. DEFINE m1 == Put(store, s - 1, w)
    <2>1. h' = h /\ cps' = cps /\ store' = Restrict(m1, s - 1 .. h - 1)
      BY <1>4 DEF LastCall
    <2>2. w \in Word /\ MayHold(w, s - 1, h)
      <3>1. CASE IsStackVar(w)
        <4>1. w \in Word /\ w.tag = "ref" /\ w.p \in Nat /\ w.p < h /\ w.p >= spb
          BY <1>4, <3>1, Globalized, OperandProperties, InvFacts
          DEF UnsafeVar, IsStackVar, IInv
        <4>. QED BY <1>1, <4>1, InvFacts DEF MayHold
      <3>2. CASE ~ IsStackVar(w)
        BY <1>1, <3>2, GlobalOperand, InvFacts
      <3>. QED BY <3>1, <3>2
    <2>3. Memory(m1, sp, h)
      BY <1>1, <2>2, InvFacts, ChangeMemory
    <2>4. \A a \in sp .. h - 1 : m1[a] = store[a] \/ a = s - 1
      BY <1>1, InvFacts DEF Put
    <2>. HIDE DEF m1
    <2>5. s - 1 \in sp .. h
      BY <1>1, InvFacts
    <2>6. /\ Memory(store', s - 1, h)
          /\ \A a \in s - 1 .. h - 1 : store'[a] = m1[a]
      <3>1. sp \in Nat /\ h \in Nat
        BY InvFacts
      <3>2. /\ Memory(Restrict(m1, s - 1 .. h - 1), s - 1, h)
            /\ \A a \in s - 1 .. h - 1 : Restrict(m1, s - 1 .. h - 1)[a] = m1[a]
        BY Zenon, <2>3, <2>5, <3>1, RestrictMemory
      <3>. QED BY <2>1, <3>2
    <2>7. \A a \in sp .. h - 1 : a >= sp' => store'[a] = store[a] \/ a < spb
      BY <1>1, <2>4, <2>6, InvFacts
    <2>8. h' \in h .. HeapEnd
      BY <2>1, InvFacts
    <2>. QED BY <1>1, <1>2, <2>1, <2>6, <2>7, <2>8, NoBindBuilds
  <1>. QED BY <1>3, <1>4
------------------------------------------------------------------------------
(* What RaiseHB does to choice points cs *)
LEMMA RaiseHBProperties ==
  ASSUME NEW cs \in Seq(Choice), NEW n \in 0 .. Len(cs), NEW top \in Nat
  PROVE  /\ RaiseHB(cs, n, top) \in Seq(Choice)
         /\ Len(RaiseHB(cs, n, top)) = Len(cs)
         /\ \A i \in 1 .. Len(cs) :
              /\ RaiseHB(cs, n, top)[i].trail = cs[i].trail
              /\ RaiseHB(cs, n, top)[i].spb = cs[i].spb
              /\ RaiseHB(cs, n, top)[i].hb =
                    IF i <= n THEN IF n = Len(cs) THEN top ELSE cs[n + 1].hb ELSE cs[i].hb
  <1>. DEFINE hbl == IF n = Len(cs) THEN top ELSE cs[n + 1].hb
              raised == RaiseHB(cs, n, top)
  <1>1. Len(cs) \in Nat /\ \A i \in 1 .. Len(cs) : cs[i] \in Choice
    BY ElementOfSeq, LenProperties
  <1>2. hbl \in Nat
    <2>1. CASE n = Len(cs)
      BY <2>1
    <2>2. CASE n # Len(cs)
      <3>1. n + 1 \in 1 .. Len(cs)
        BY <1>1, <2>2
      <3>. QED BY <1>1, <2>2, <3>1 DEF Choice
    <2>. QED BY <2>1, <2>2
  <1>3. raised = [i \in 1 .. Len(cs) |-> IF i <= n THEN [cs[i] EXCEPT !.hb = hbl] ELSE cs[i]]
    BY DEF RaiseHB
  <1>. HIDE DEF hbl
  <1>4. \A i \in 1 .. Len(cs) :
          /\ raised[i] \in Choice
          /\ raised[i].trail = cs[i].trail /\ raised[i].spb = cs[i].spb
          /\ raised[i].hb = IF i <= n THEN hbl ELSE cs[i].hb
    BY <1>1, <1>2, <1>3 DEF Choice
  <1>5. raised \in [1 .. Len(cs) -> Choice]
    BY <1>3, <1>4
  <1>6. raised \in Seq(Choice) /\ Len(raised) = Len(cs)
    BY <1>1, <1>5, LenProperties, SeqDef
  <1>. QED BY <1>4, <1>6 DEF hbl

(* gv_set, once the stack variable, if it was one, is out of the way *)
HBLast(n) == IF n = B THEN h' ELSE cps[n + 1].hb

(***************************************************************************)
(* What gv_set does to everything else: one global variable changes, the   *)
(* HB of some of the choice points is raised, and a cell changes only if   *)
(* it is unbound.                                                          *)
(***************************************************************************)
Sets ==
  /\ Trails
  /\ \E n \in 0 .. B : Raised(n, HBLast(n))
  /\ sp' = sp /\ spb' = spb /\ h' \in h .. HeapEnd
  /\ Memory(store', sp', h')
  /\ \A a \in sp .. h - 1 : store'[a] = store[a] \/ Unbound(store, a)
  /\ gv' \in [GVars -> Word]
  /\ \E g \in GVars : \A f \in GVars : f # g => gv'[f] = gv[f]

LEMMA RaiseStep ==
  ASSUME IInv, h' \in Nat, NEW cs \in Seq(Choice), Len(cs) = B,
         \A i \in 1 .. B : cs[i].hb = cps[i].hb /\ cs[i].spb = cps[i].spb,
         NEW n \in 0 .. B, cps' = RaiseHB(cs, n, h'), hb' = cps'[B].hb
  PROVE  /\ cps' \in Seq(Choice) /\ Len(cps') = B
         /\ \A i \in 1 .. B : cps'[i].trail = cs[i].trail
         /\ Raised(n, HBLast(n))
  <1>1. B \in Nat /\ (n # B => n + 1 \in 1 .. B)
    BY CpsType DEF IInv
  <1>2. /\ cps' \in Seq(Choice) /\ Len(cps') = B
        /\ \A i \in 1 .. B :
             /\ cps'[i].trail = cs[i].trail
             /\ cps'[i].spb = cs[i].spb
             /\ cps'[i].hb =
                   IF i <= n THEN IF n = B THEN h' ELSE cs[n + 1].hb ELSE cs[i].hb
    BY RaiseHBProperties
  <1>. QED BY <1>1, <1>2 DEF Raised, HBLast

(* Once the HBs are raised, they are all above w.p, and so w may be kept. *)
LEMMA Protected ==
  ASSUME IInv, NEW w \in Word, IsPointer(w) => w.p >= HeapBase,
         h' \in Nat, w.p < h', NEW n \in 0 .. B, WalkStopsAt(n, w.p), Raised(n, HBLast(n))
  PROVE  /\ MayHold(w, HeapBase, h')
         /\ \A i \in 1 .. B : MayHold(w, HeapBase, cps'[i].hb)
  <1>1. B \in Nat /\ \A i \in 1 .. B : cps[i].hb \in Nat
    BY CpsType DEF IInv
  <1>2. w.p \in Nat /\ HeapBase \in Nat
    BY HeapBaseAssumption DEF Word
  <1>3. w.p < HBLast(n)
    BY <1>1 DEF HBLast, WalkStopsAt
  <1>4. \A i \in 1 .. B : w.p < cps'[i].hb
    BY <1>1, <1>3 DEF Raised, WalkStopsAt
  <1>. QED BY <1>2, <1>4 DEF MayHold

(* The other global variables stay protected. *)
LEMMA StillProtected ==
  ASSUME IInv, h' \in h .. HeapEnd, NEW n \in 0 .. B, Raised(n, HBLast(n)), NEW g \in GVars
  PROVE  /\ MayHold(gv[g], HeapBase, h')
         /\ \A i \in 1 .. B : MayHold(gv[g], HeapBase, cps'[i].hb)
  <1>1. /\ B \in Nat /\ B \in 1 .. B
        /\ \A i \in 1 .. B : cps[i].hb \in Nat
        /\ h \in Nat /\ h' \in Nat /\ h <= h'
    BY CpsType, InvFacts DEF IInv
  <1>2. \A i, j \in 1 .. B : i <= j => cps[i].hb <= cps[j].hb
    BY DEF IInv, ChoicesOrdered
  <1>3. \A i \in 1 .. B : cps[i].hb <= h
    <2>1. cps[B].hb <= h
      BY DEF IInv, ChoicesOrdered
    <2>. QED BY <1>1, <1>2, <2>1
  <1>4. \A i \in 1 .. B : cps'[i].hb \in Nat /\ cps[i].hb <= cps'[i].hb
    <2>. SUFFICES ASSUME NEW i \in 1 .. B
                  PROVE  cps'[i].hb \in Nat /\ cps[i].hb <= cps'[i].hb
      OBVIOUS
    <2>1. CASE i <= n /\ n = B
      BY <1>1, <1>3, <2>1 DEF Raised, HBLast
    <2>2. CASE i <= n /\ n # B
      <3>1. n + 1 \in 1 .. B /\ i <= n + 1
        BY <1>1, <2>2
      <3>. QED BY <1>1, <1>2, <2>2, <3>1 DEF Raised, HBLast
    <2>3. CASE ~ (i <= n)
      BY <1>1, <2>3 DEF Raised
    <2>. QED BY <2>1, <2>2, <2>3
  <1>5. /\ gv[g] \in Word /\ MayHold(gv[g], HeapBase, h)
        /\ \A i \in 1 .. B : MayHold(gv[g], HeapBase, cps[i].hb)
    BY DEF IInv, TypeOK, NoDangling, FailureSafe
  <1>. QED BY <1>1, <1>4, <1>5, MayHoldMonotonic

LEMMA GvSetConstantInv ==
  ASSUME IInv, NEW g \in GVars, NEW w \in Operands, GvSetConstant(g, w)
  PROVE  IInv' /\ Sets
  <1>1. /\ sp' = sp /\ h' = h /\ hb' = hb /\ spb' = spb /\ cps' = cps /\ store' = store
        /\ gv' = [gv EXCEPT ![g] = w] /\ ~ IsPointer(w) /\ w \in Word
    BY OperandProperties DEF GvSetConstant, regs, IInv
  <1>2. gv \in [GVars -> Word]
    BY DEF IInv, TypeOK
  <1>3. \A f \in GVars : gv'[f] = gv[f] \/ gv'[f] = w
    BY <1>1, <1>2
  <1>4. TypeOK'
    <2>1. gv' \in [GVars -> Word]
      BY <1>1, <1>2
    <2>. QED BY <1>1, <2>1 DEF IInv, TypeOK, Live, B
  <1>5. ChoicesOrdered'
    BY <1>1 DEF IInv, ChoicesOrdered, B
  <1>6. \A a, hi : MayHold(w, a, hi)
    BY <1>1 DEF MayHold
  <1>7. NoDangling'
    BY <1>1, <1>3, <1>6 DEF IInv, NoDangling
  <1>8. FailureSafe'
    <2>1. B' = B /\ \A i : View(i)' = View(i)
      BY <1>1 DEF B, View, TrailedFrom
    <2>2. \A i \in 1 .. B : ClosedOn(View(i)', cps'[i].spb, cps'[i].hb)
      BY <1>1, <2>1 DEF IInv, FailureSafe
    <2>3. \A i \in 1 .. B : \A f \in GVars : MayHold(gv'[f], HeapBase, cps'[i].hb)
      BY <1>1, <1>3, <1>6 DEF IInv, FailureSafe
    <2>. QED BY <2>1, <2>2, <2>3 DEF FailureSafe
  <1>9. Sets
    <2>1. B \in Nat /\ B >= 1 /\ 0 \in 0 .. B /\ \A i \in 1 .. B : ~ (i <= 0)
      BY CpsType DEF IInv
    <2>2. Raised(0, HBLast(0))
      <3>1. hb' = cps'[B].hb
        BY <1>1 DEF IInv, ChoicesOrdered
      <3>. QED BY <1>1, <2>1, <3>1 DEF Raised, HBLast
    <2>3. Trails
      BY <1>1 DEF Trails, B
    <2>4. Memory(store', sp', h') /\ h' \in h .. HeapEnd
      BY <1>1, InvFacts
    <2>5. gv' \in [GVars -> Word] /\ \A f \in GVars : f # g => gv'[f] = gv[f]
      BY <1>1, <1>2
    <2>. QED BY <1>1, <2>1, <2>2, <2>3, <2>4, <2>5 DEF Sets
  <1>. QED BY <1>4, <1>5, <1>7, <1>8, <1>9 DEF IInv

LEMMA GvSetHeapInv ==
  ASSUME IInv, NEW g \in GVars, NEW w \in Operands, GvSetHeap(g, w)
  PROVE  IInv' /\ Sets
  <1>1. /\ sp' = sp /\ h' = h /\ spb' = spb /\ store' = store /\ hb' = cps'[B].hb
        /\ gv' = [gv EXCEPT ![g] = w] /\ IsPointer(w) /\ w.p >= HeapBase
        /\ \E n \in 0 .. B : WalkStopsAt(n, w.p) /\ cps' = RaiseHB(cps, n, h)
    BY DEF GvSetHeap
  <1>2. PICK n \in 0 .. B : WalkStopsAt(n, w.p) /\ cps' = RaiseHB(cps, n, h')
    BY <1>1
  <1>3. w \in Word /\ w.p < h'
    <2>1. /\ w \in Word
          /\ w.tag = "ref" => w.p \in sp .. h - 1
          /\ w.tag = "str" => w.p >= HeapBase /\ w.p < h
      BY OperandProperties, InvFacts DEF IInv
    <2>. QED BY <1>1, <2>1, InvFacts DEF IsPointer, Word
  <1>4. cps \in Seq(Choice) /\ Len(cps) = B /\ B \in 1 .. B /\ gv \in [GVars -> Word]
    BY CpsType DEF IInv, TypeOK, B
  <1>5. /\ cps' \in Seq(Choice) /\ Len(cps') = B
        /\ \A i \in 1 .. B : cps'[i].trail = cps[i].trail
        /\ Raised(n, HBLast(n))
    BY <1>1, <1>2, <1>4, InvFacts, RaiseStep
  <1>6. Trails
    BY <1>1, <1>4, <1>5 DEF Trails
  <1>7. /\ sp' \in 0 .. spb /\ h' \in h .. HeapEnd
        /\ store' \in [sp' .. h' - 1 -> Word] /\ ClosedOn(store', sp', h')
    BY <1>1, InvFacts DEF Memory
  <1>8. gv' \in [GVars -> Word]
    BY <1>1, <1>3, <1>4
  <1>9. ASSUME NEW f \in GVars
        PROVE  /\ MayHold(gv'[f], HeapBase, h')
               /\ \A i \in 1 .. B : MayHold(gv'[f], HeapBase, cps'[i].hb)
    <2>1. CASE f = g
      <3>1. gv'[f] = w /\ h' \in Nat
        BY <1>1, <1>4, <2>1, InvFacts
      <3>. QED BY <1>1, <1>2, <1>3, <1>5, <3>1, Protected
    <2>2. CASE f # g
      <3>1. gv'[f] = gv[f]
        BY <1>1, <1>4, <2>2
      <3>. QED BY <1>5, <1>7, <3>1, StillProtected
    <2>. QED BY <2>1, <2>2
  <1>10. Sets
    <2>1. \A f \in GVars : f # g => gv'[f] = gv[f]
      BY <1>1, <1>4
    <2>. QED BY <1>1, <1>5, <1>6, <1>7, <1>8, <2>1 DEF Sets, Memory
  <1>. QED BY <1>1, <1>5, <1>6, <1>7, <1>8, <1>9, <1>10, ForwardStep

LEMMA GvSetStackVarInv ==
  ASSUME IInv, NEW g \in GVars, NEW w \in Operands, GvSetStackVar(g, w)
  PROVE  IInv' /\ Sets
  <1>. DEFINE m2 == Put(Put(store, h, Ref(h)), w.p, Ref(h))
  <1>1. /\ sp' = sp /\ h' = h + 1 /\ spb' = spb /\ store' = m2 /\ hb' = cps'[B].hb
        /\ gv' = [gv EXCEPT ![g] = Ref(h)] /\ IsStackVar(w) /\ h < HeapEnd
        /\ \E n \in 0 .. B : WalkStopsAt(n, h) /\ cps' = RaiseHB(Trail(w.p), n, h')
    BY DEF GvSetStackVar
  <1>2. /\ w.p \in UnboundVars /\ w.p \in sp .. h - 1 /\ w.p \in Nat
        /\ Memory(m2, sp, h + 1)
        /\ \A a \in sp .. h - 1 : a # w.p => m2[a] = store[a]
    BY <1>1, Globalized
  <1>. HIDE DEF m2
  <1>3. PICK n \in 0 .. B : WalkStopsAt(n, h) /\ cps' = RaiseHB(Trail(w.p), n, h')
    BY <1>1
  <1>4. w.p \in Addr /\ Unbound(store, w.p) /\ h' \in Nat /\ h < h'
    BY <1>1, <1>2, InvFacts DEF Addr, UnboundVars
  <1>5. /\ Trail(w.p) \in Seq(Choice) /\ Len(Trail(w.p)) = B
        /\ \A i \in 1 .. B :
              /\ Trail(w.p)[i].hb = cps[i].hb
              /\ Trail(w.p)[i].spb = cps[i].spb
              /\ i # B => Trail(w.p)[i].trail = cps[i].trail
        /\ Trail(w.p)[B].trail =
             IF MustTrail(w.p) THEN cps[B].trail \cup {w.p} ELSE cps[B].trail
    BY <1>4, TrailProperties DEF IInv
  <1>6. /\ cps' \in Seq(Choice) /\ Len(cps') = B
        /\ \A i \in 1 .. B : cps'[i].trail = Trail(w.p)[i].trail
        /\ Raised(n, HBLast(n))
    BY <1>1, <1>3, <1>4, <1>5, RaiseStep
  <1>7. Trails
    <2>1. B \in 1 .. B
      BY CpsType DEF IInv
    <2>2. MustTrail(w.p) <=> w.p \in spb .. hb - 1
      BY <1>2, InvFacts DEF MustTrail
    <2>3. cps'[B].trail = IF MustTrail(w.p) THEN cps[B].trail \cup {w.p} ELSE cps[B].trail
      BY <1>5, <1>6, <2>1
    <2>4. /\ cps[B].trail \subseteq cps'[B].trail
          /\ \A a \in cps'[B].trail :
               a \in cps[B].trail \/ (a \in spb .. hb - 1 /\ Unbound(store, a))
      BY <1>4, <2>2, <2>3
    <2>5. \A a \in spb .. hb - 1 : store'[a] = store[a] \/ a \in cps'[B].trail
      BY <1>1, <1>2, <2>2, <2>3, InvFacts
    <2>. QED BY <1>5, <1>6, <2>4, <2>5 DEF Trails
  <1>8. /\ sp' \in 0 .. spb /\ h' \in h .. HeapEnd
        /\ store' \in [sp' .. h' - 1 -> Word] /\ ClosedOn(store', sp', h')
    BY <1>1, <1>2, InvFacts DEF Memory
  <1>9. Ref(h) \in Word /\ Ref(h).p = h /\ h >= HeapBase
    BY InvFacts DEF Ref, Word
  <1>10. gv \in [GVars -> Word]
    BY DEF IInv, TypeOK
  <1>11. gv' \in [GVars -> Word]
    BY <1>1, <1>9, <1>10
  <1>12. ASSUME NEW f \in GVars
         PROVE  /\ MayHold(gv'[f], HeapBase, h')
                /\ \A i \in 1 .. B : MayHold(gv'[f], HeapBase, cps'[i].hb)
    <2>1. CASE f = g
      <3>1. gv'[f] = Ref(h)
        BY <1>1, <1>10, <2>1
      <3>2. WalkStopsAt(n, Ref(h).p)
        BY <1>3, <1>9
      <3>. QED BY <1>4, <1>6, <1>9, <3>1, <3>2, Protected
    <2>2. CASE f # g
      <3>1. gv'[f] = gv[f]
        BY <1>1, <1>10, <2>2
      <3>. QED BY <1>6, <1>8, <3>1, StillProtected
    <2>. QED BY <2>1, <2>2
  <1>13. Sets
    <2>1. \A f \in GVars : f # g => gv'[f] = gv[f]
      BY <1>1, <1>10
    <2>2. \A a \in sp .. h - 1 : store'[a] = store[a] \/ Unbound(store, a)
      BY <1>1, <1>2, <1>4
    <2>. QED BY <1>1, <1>6, <1>7, <1>8, <1>11, <2>1, <2>2 DEF Sets, Memory
  <1>. QED BY <1>1, <1>6, <1>7, <1>8, <1>11, <1>12, <1>13, ForwardStep
------------------------------------------------------------------------------
LEMMA TryInv ==
  ASSUME IInv, Try
  PROVE  IInv'
  <1>. DEFINE new == [hb |-> h, spb |-> sp, trail |-> {}]
  <1>1. /\ sp' = sp /\ h' = h /\ hb' = h /\ spb' = sp /\ gv' = gv /\ store' = store
        /\ cps' = Append(cps, new) /\ B < MaxChoice
    BY DEF Try
  <1>2. cps \in Seq(Choice) /\ Len(cps) = B /\ B \in 1 .. B /\ B \in Nat
    BY CpsType DEF IInv, TypeOK, B
  <1>3. new \in Choice
    BY InvFacts DEF Choice
  <1>4. new.hb = h /\ new.spb = sp /\ new.trail = {}
    OBVIOUS
  <1>. HIDE DEF new
  <1>5. /\ cps' \in Seq(Choice) /\ Len(cps') = B + 1
        /\ \A i \in 1 .. B : cps'[i] = cps[i]
        /\ cps'[B + 1] = new
    BY <1>1, <1>2, <1>3, AppendProperties
  <1>6. B' = B + 1 /\ B + 1 \in 1 .. B + 1
    BY <1>2, <1>5 DEF B
  <1>7. TypeOK'
    <2>1. B' \in 1 .. MaxChoice
      BY <1>1, <1>2, <1>6, MaxChoiceAssumption
    <2>2. hb' \in HeapBase .. HeapEnd /\ spb' \in 0 .. HeapBase
      BY <1>1, InvFacts
    <2>. QED BY <1>1, <1>5, <2>1, <2>2 DEF IInv, TypeOK, Live
  <1>8. \A i \in 1 .. B : /\ cps[i].hb \in Nat /\ cps[i].spb \in Nat
                          /\ cps[i].hb <= h /\ cps[i].spb >= sp
    BY <1>2, ProtectedNested, CpsType DEF IInv
  <1>9. ChoicesOrdered'
    <2>1. hb' = cps'[B + 1].hb /\ hb' <= h' /\ spb' = cps'[B + 1].spb /\ spb' >= sp'
      BY <1>1, <1>4, <1>5, InvFacts
    <2>2. \A i, j \in 1 .. B + 1 : i <= j =>
              cps'[i].hb <= cps'[j].hb /\ cps'[i].spb >= cps'[j].spb
      <3>. SUFFICES ASSUME NEW i \in 1 .. B + 1, NEW j \in 1 .. B + 1, i <= j
                    PROVE  cps'[i].hb <= cps'[j].hb /\ cps'[i].spb >= cps'[j].spb
        OBVIOUS
      <3>1. CASE j \in 1 .. B
        <4>1. i \in 1 .. B
          BY <1>2, <3>1
        <4>. QED BY <1>5, <3>1, <4>1 DEF IInv, ChoicesOrdered
      <3>2. CASE j = B + 1 /\ i \in 1 .. B
        BY <1>4, <1>5, <1>8, <3>2
      <3>3. CASE j = B + 1 /\ i = B + 1
        BY <1>4, <1>5, <3>3, InvFacts
      <3>. QED BY <1>2, <3>1, <3>2, <3>3
    <2>3. \A i \in 1 .. B + 1 :
            /\ cps'[i].hb >= HeapBase /\ cps'[i].spb <= HeapBase
            /\ cps'[i].trail \subseteq cps'[i].spb .. cps'[i].hb - 1
      <3>. SUFFICES ASSUME NEW i \in 1 .. B + 1
                    PROVE  /\ cps'[i].hb >= HeapBase /\ cps'[i].spb <= HeapBase
                           /\ cps'[i].trail \subseteq cps'[i].spb .. cps'[i].hb - 1
        OBVIOUS
      <3>1. CASE i \in 1 .. B
        BY <1>5, <3>1 DEF IInv, ChoicesOrdered
      <3>2. CASE i = B + 1
        BY <1>4, <1>5, <3>2, InvFacts
      <3>. QED BY <1>2, <3>1, <3>2
    <2>. QED BY <1>6, <2>1, <2>2, <2>3 DEF ChoicesOrdered
  <1>10. NoDangling'
    BY <1>1 DEF IInv, NoDangling
  <1>11. FailureSafe'
    <2>1. ASSUME NEW i \in 1 .. B + 1, NEW a \in cps'[i].spb .. cps'[i].hb - 1
          PROVE  MayHold(ViewAt(i, a)', a, cps'[i].hb)
      <3>1. CASE i \in 1 .. B
        <4>1. a \in cps[i].spb .. cps[i].hb - 1 /\ cps'[i].hb = cps[i].hb
          BY <1>5, <3>1
        <4>2. a \in TrailedFrom(i)' <=> a \in TrailedFrom(i)
          <5>1. a \in TrailedFrom(i)' <=> \E j \in i .. B + 1 : a \in cps'[j].trail
            BY <1>6 DEF TrailedFrom
          <5>2. a \in TrailedFrom(i) <=> \E j \in i .. B : a \in cps[j].trail
            BY TrailedFromDef
          <5>. QED BY <1>2, <1>4, <1>5, <3>1, <5>1, <5>2
        <4>3. ViewAt(i, a)' = View(i)[a]
          BY <1>1, <4>1, <4>2, ViewIsViewAt DEF ViewAt
        <4>. QED BY <3>1, <4>1, <4>3 DEF IInv, FailureSafe, ClosedOn
      <3>2. CASE i = B + 1
        <4>1. a \in sp .. h - 1 /\ cps'[i].hb = h
          BY <1>4, <1>5, <3>2
        <4>2. a \notin TrailedFrom(i)'
          BY <1>2, <1>4, <1>5, <1>6, <3>2 DEF TrailedFrom
        <4>. QED BY <1>1, <4>1, <4>2 DEF IInv, NoDangling, ClosedOn, ViewAt
      <3>. QED BY <1>2, <3>1, <3>2
    <2>2. ASSUME NEW i \in 1 .. B + 1, NEW g \in GVars
          PROVE  MayHold(gv'[g], HeapBase, cps'[i].hb)
      <3>1. CASE i \in 1 .. B
        BY <1>1, <1>5, <3>1 DEF IInv, FailureSafe
      <3>2. CASE i = B + 1
        BY <1>1, <1>4, <1>5, <3>2 DEF IInv, NoDangling
      <3>. QED BY <1>2, <3>1, <3>2
    <2>. QED BY <1>6, <2>1, <2>2, ViewIsViewAt DEF FailureSafe, ClosedOn, View, ViewAt
  <1>. QED BY <1>7, <1>9, <1>10, <1>11 DEF IInv

(***************************************************************************)
(* One lemma for retry, trust and cut: they leave the n oldest choice      *)
(* points, and the view of each.                                           *)
(***************************************************************************)
KeepsViews(n) ==
  /\ cps' \in Seq(Choice) /\ Len(cps') = n
  /\ \A i \in 1 .. n :
       /\ cps'[i].hb = cps[i].hb /\ cps'[i].spb = cps[i].spb
       /\ cps'[i].trail \subseteq cps[i].spb .. cps[i].hb - 1
       /\ \A a \in cps[i].spb .. cps[i].hb - 1 : ViewAt(i, a)' = ViewAt(i, a)
  /\ hb' = cps[n].hb /\ spb' = cps[n].spb /\ gv' = gv

LEMMA KeepsViewsStep ==
  ASSUME IInv, NEW n \in 1 .. B, KeepsViews(n),
         sp' \in 0 .. spb', h' \in hb' .. HeapEnd, Memory(store', sp', h'),
         \A g \in GVars : MayHold(gv[g], HeapBase, h')
  PROVE  IInv'
  <1>1. /\ B \in Nat /\ B <= MaxChoice /\ n \in 1 .. n /\ B' = n
        /\ \A i \in 1 .. n : i \in 1 .. B
        /\ \A i \in 1 .. B : cps[i].hb \in Nat /\ cps[i].spb \in Nat
    BY CpsType DEF IInv, B, KeepsViews
  <1>2. \A i \in 1 .. B :
          /\ cps[i].hb >= HeapBase /\ cps[i].spb <= HeapBase
          /\ cps[i].trail \subseteq cps[i].spb .. cps[i].hb - 1
    BY DEF IInv, ChoicesOrdered
  <1>3. /\ hb' \in Nat /\ spb' \in Nat /\ HeapBase <= hb' /\ spb' <= HeapBase
        /\ hb' = cps'[n].hb /\ spb' = cps'[n].spb
        /\ HeapBase \in Nat /\ HeapEnd \in Nat
    BY <1>1, <1>2, InvFacts DEF KeepsViews
  <1>4. TypeOK'
    <2>1. /\ sp' \in 0 .. HeapBase /\ h' \in HeapBase .. HeapEnd
          /\ hb' \in HeapBase .. HeapEnd /\ spb' \in 0 .. HeapBase
          /\ B' \in 1 .. MaxChoice
      BY <1>1, <1>3, MaxChoiceAssumption
    <2>2. gv' \in [GVars -> Word]
      BY DEF IInv, TypeOK, KeepsViews
    <2>. QED BY <2>1, <2>2 DEF TypeOK, KeepsViews, Memory, Live
  <1>5. ChoicesOrdered'
    <2>1. \A i, j \in 1 .. n : i <= j =>
              cps'[i].hb <= cps'[j].hb /\ cps'[i].spb >= cps'[j].spb
      BY <1>1 DEF IInv, ChoicesOrdered, KeepsViews
    <2>2. \A i \in 1 .. n :
            /\ cps'[i].hb >= HeapBase /\ cps'[i].spb <= HeapBase
            /\ cps'[i].trail \subseteq cps'[i].spb .. cps'[i].hb - 1
      BY <1>1, <1>2 DEF KeepsViews
    <2>. QED BY <1>1, <1>3, <2>1, <2>2 DEF ChoicesOrdered
  <1>6. NoDangling'
    BY DEF NoDangling, Memory, KeepsViews
  <1>7. FailureSafe'
    <2>1. ASSUME NEW i \in 1 .. n, NEW a \in cps'[i].spb .. cps'[i].hb - 1
          PROVE  MayHold(ViewAt(i, a)', a, cps'[i].hb)
      <3>1. a \in cps[i].spb .. cps[i].hb - 1 /\ cps'[i].hb = cps[i].hb
            /\ ViewAt(i, a)' = View(i)[a] /\ i \in 1 .. B
        BY <1>1, ViewIsViewAt DEF KeepsViews
      <3>. QED BY <3>1 DEF IInv, FailureSafe, ClosedOn
    <2>2. ASSUME NEW i \in 1 .. n, NEW g \in GVars
          PROVE  MayHold(gv'[g], HeapBase, cps'[i].hb)
      BY <1>1 DEF IInv, FailureSafe, KeepsViews
    <2>. QED BY <1>1, <2>1, <2>2, ViewIsViewAt DEF FailureSafe, ClosedOn, View, ViewAt
  <1>. QED BY <1>4, <1>5, <1>6, <1>7 DEF IInv

(* What UNWINDTRAIL leaves is what the newest choice point saw. *)
LEMMA UnwoundMemory ==
  ASSUME IInv
  PROVE  /\ Memory(Unwound, spb, hb)
         /\ \A a \in spb .. hb - 1 :
              Unwound[a] = IF a \in cps[B].trail THEN Ref(a) ELSE store[a]
         /\ \A g \in GVars : MayHold(gv[g], HeapBase, hb)
  <1>1. B \in Nat /\ B \in 1 .. B /\ hb = cps[B].hb /\ spb = cps[B].spb
    BY CpsType DEF IInv, ChoicesOrdered
  <1>2. \A a \in spb .. hb - 1 :
          Unwound[a] = IF a \in cps[B].trail THEN Ref(a) ELSE store[a]
    BY DEF Unwound
  <1>3. \A a : a \in TrailedFrom(B) <=> a \in cps[B].trail
    BY <1>1, TrailedFromDef
  <1>4. \A a \in spb .. hb - 1 : Unwound[a] = View(B)[a]
    BY <1>1, <1>2, <1>3, ViewIsViewAt DEF ViewAt
  <1>5. ClosedOn(Unwound, spb, hb) /\ \A g \in GVars : MayHold(gv[g], HeapBase, hb)
    BY <1>1, <1>4 DEF IInv, FailureSafe, ClosedOn
  <1>6. \A a \in spb .. hb - 1 : Ref(a) \in Word /\ store[a] \in Word
    BY InvFacts DEF Ref, Word, Memory
  <1>7. Unwound \in [spb .. hb - 1 -> Word]
    BY <1>6 DEF Unwound
  <1>. QED BY <1>2, <1>5, <1>7 DEF Memory

(* UNWINDTRAIL has done what the entries it drops said. *)
LEMMA UnwoundView ==
  ASSUME IInv, store' = Unwound, NEW n \in 1 .. B, B' = n, n = B \/ n = B - 1,
         \A j \in 1 .. n : cps'[j].trail = IF j = B THEN {} ELSE cps[j].trail,
         NEW i \in 1 .. n, NEW a \in cps[i].spb .. cps[i].hb - 1
  PROVE  ViewAt(i, a)' = ViewAt(i, a)
  <1>1. /\ B \in Nat /\ i \in 1 .. B /\ a \in spb .. hb - 1
    <2>1. B \in Nat /\ i \in 1 .. B /\ B \in i .. B
      BY CpsType DEF IInv
    <2>. QED BY <2>1, ProtectedNested DEF IInv
  <1>2. a \in TrailedFrom(i)' <=> \E j \in i .. n : a \in cps'[j].trail
    BY DEF TrailedFrom
  <1>3. a \in TrailedFrom(i) <=> \E j \in i .. B : a \in cps[j].trail
    BY TrailedFromDef
  <1>4. a \in TrailedFrom(i) <=> a \in TrailedFrom(i)' \/ a \in cps[B].trail
    BY <1>1, <1>2, <1>3
  <1>5. store'[a] = IF a \in cps[B].trail THEN Ref(a) ELSE store[a]
    BY <1>1, UnwoundMemory
  <1>. QED BY <1>4, <1>5 DEF ViewAt

LEMMA RetryInv ==
  ASSUME IInv, Retry
  PROVE  IInv' /\ KeepsViews(B)
  <1>1. /\ store' = Unwound /\ h' = hb /\ sp' = spb /\ hb' = hb /\ spb' = spb /\ gv' = gv
        /\ cps' = [cps EXCEPT ![B].trail = {}]
    BY DEF Retry
  <1>2. /\ cps \in Seq(Choice) /\ B \in 1 .. B /\ B \in Nat /\ cps[B] \in Choice
        /\ DOMAIN cps = 1 .. B
    BY CpsType DEF IInv, TypeOK
  <1>3. [cps[B] EXCEPT !.trail = {}] \in Choice
    BY <1>2 DEF Choice
  <1>4. /\ cps' \in Seq(Choice) /\ Len(cps') = B
        /\ \A j \in 1 .. B :
             cps'[j] = IF j = B THEN [cps[B] EXCEPT !.trail = {}] ELSE cps[j]
    BY <1>1, <1>2, <1>3, ExceptSeq DEF B
  <1>5. \A j \in 1 .. B : /\ cps'[j].hb = cps[j].hb /\ cps'[j].spb = cps[j].spb
                          /\ cps'[j].trail = IF j = B THEN {} ELSE cps[j].trail
    BY <1>2, <1>4 DEF Choice
  <1>6. B' = B
    BY <1>4 DEF B
  <1>7. KeepsViews(B)
    <2>1. \A i \in 1 .. B : \A a \in cps[i].spb .. cps[i].hb - 1 :
            ViewAt(i, a)' = ViewAt(i, a)
      BY <1>1, <1>2, <1>5, <1>6, UnwoundView
    <2>2. \A i \in 1 .. B : cps'[i].trail \subseteq cps[i].spb .. cps[i].hb - 1
      BY <1>5 DEF IInv, ChoicesOrdered
    <2>3. hb' = cps[B].hb /\ spb' = cps[B].spb
      BY <1>1 DEF IInv, ChoicesOrdered
    <2>. QED BY <1>1, <1>4, <1>5, <2>1, <2>2, <2>3 DEF KeepsViews
  <1>8. sp' \in 0 .. spb' /\ h' \in hb' .. HeapEnd /\ Memory(store', sp', h')
    BY <1>1, InvFacts, UnwoundMemory
  <1>9. \A g \in GVars : MayHold(gv[g], HeapBase, h')
    BY <1>1, UnwoundMemory
  <1>. QED BY <1>2, <1>7, <1>8, <1>9, KeepsViewsStep

LEMMA TrustInv ==
  ASSUME IInv, Trust
  PROVE  IInv' /\ KeepsViews(B - 1)
  <1>1. /\ store' = Unwound /\ h' = hb /\ sp' = spb /\ gv' = gv /\ B > 1
        /\ cps' = SubSeq(cps, 1, B - 1)
        /\ hb' = cps[B - 1].hb /\ spb' = cps[B - 1].spb
    BY DEF Trust
  <1>2. cps \in Seq(Choice) /\ B \in Nat /\ B - 1 \in 1 .. B /\ B - 1 \in Nat
        /\ \A j \in 1 .. B : cps[j] \in Choice
    BY <1>1, CpsType DEF IInv, TypeOK
  <1>3. /\ Len(cps') = B - 1
        /\ \A j \in 1 .. B - 1 : cps'[j] = cps[j]
        /\ cps' \in Seq(Choice)
    <2>1. \A j \in 1 .. B - 1 : cps[j] \in Choice
      BY <1>2
    <2>. QED BY <1>1, <1>2, <2>1, SubSeqProperties DEF B
  <1>4. B' = B - 1 /\ \A j \in 1 .. B - 1 : j # B /\ j \in 1 .. B
    BY <1>2, <1>3 DEF B
  <1>5. KeepsViews(B - 1)
    <2>1. \A i \in 1 .. B - 1 : \A a \in cps[i].spb .. cps[i].hb - 1 :
            ViewAt(i, a)' = ViewAt(i, a)
      BY <1>1, <1>2, <1>3, <1>4, UnwoundView
    <2>2. \A i \in 1 .. B - 1 : cps'[i].trail \subseteq cps[i].spb .. cps[i].hb - 1
      BY <1>3, <1>4 DEF IInv, ChoicesOrdered
    <2>. QED BY <1>1, <1>3, <2>1, <2>2 DEF KeepsViews
  <1>6. /\ hb' <= hb /\ spb' >= spb /\ hb' \in Nat /\ spb' \in Nat
    BY <1>1, <1>2, ProtectedNested, CpsType DEF IInv
  <1>7. sp' \in 0 .. spb' /\ h' \in hb' .. HeapEnd /\ Memory(store', sp', h')
    BY <1>1, <1>6, InvFacts, UnwoundMemory
  <1>8. \A g \in GVars : MayHold(gv[g], HeapBase, h')
    BY <1>1, UnwoundMemory
  <1>. QED BY <1>2, <1>5, <1>7, <1>8, KeepsViewsStep

(* The sweep keeps what the choice point it cuts to needs. *)
Kept(k) == cps[k].trail \cup {r \in TrailedFrom(k + 1) : r < cps[k].hb /\ r >= cps[k].spb}

LEMMA CutInv ==
  ASSUME IInv, NEW e \in StackAddr, Cut(e)
  PROVE  IInv' /\ \E k \in 1 .. B : KeepsViews(k)
  <1>1. PICK k \in 1 .. B :
          /\ cps' = [i \in 1 .. k |->
                      IF i < k THEN cps[i] ELSE [cps[k] EXCEPT !.trail = Kept(k)]]
          /\ hb' = cps[k].hb /\ spb' = cps[k].spb
    BY DEF Cut, Kept
  <1>2. store' = store /\ sp' = sp /\ h' = h /\ gv' = gv
    BY DEF Cut
  <1>3. /\ B \in Nat /\ k \in Nat /\ k \in 1 .. k
        /\ \A i \in 1 .. k : i \in 1 .. B /\ k \in i .. B
        /\ \A i \in 1 .. B : /\ cps[i] \in Choice
                              /\ cps[i].hb \in Nat /\ cps[i].spb \in Nat
                              /\ cps[i].trail \subseteq Addr
    BY CpsType DEF IInv
  <1>4. \A i \in 1 .. B : cps[i].trail \subseteq cps[i].spb .. cps[i].hb - 1
    BY DEF IInv, ChoicesOrdered
  <1>5. \A a : a \in TrailedFrom(k + 1) <=> \E j \in k + 1 .. B : a \in cps[j].trail
    BY TrailedFromDef
  <1>6. TrailedFrom(k + 1) \subseteq Addr /\ Addr \subseteq Int
    <2>1. \A j \in k + 1 .. B : j \in 1 .. B
      BY <1>3
    <2>2. \A j \in k + 1 .. B : cps[j].trail \subseteq Addr
      BY <1>3, <2>1
    <2>. QED BY <1>5, <2>2 DEF Addr
  <1>7. Kept(k) \subseteq Addr /\ Kept(k) \subseteq cps[k].spb .. cps[k].hb - 1
    <2>1. cps[k].trail \subseteq Addr /\ cps[k].trail \subseteq cps[k].spb .. cps[k].hb - 1
      BY <1>3, <1>4
    <2>2. ASSUME NEW r \in TrailedFrom(k + 1), r < cps[k].hb, r >= cps[k].spb
          PROVE  r \in Addr /\ r \in cps[k].spb .. cps[k].hb - 1
      <3>1. r \in Addr /\ r \in Int /\ cps[k].hb \in Nat /\ cps[k].spb \in Nat
        BY <1>3, <1>6
      <3>. QED BY <2>2, <3>1
    <2>. QED BY <2>1, <2>2 DEF Kept
  <1>8. \A i \in 1 .. k : /\ cps'[i] \in Choice
                          /\ cps'[i].hb = cps[i].hb /\ cps'[i].spb = cps[i].spb
                          /\ cps'[i].trail = IF i = k THEN Kept(k) ELSE cps[i].trail
    <2>. SUFFICES ASSUME NEW i \in 1 .. k
                  PROVE  /\ cps'[i] \in Choice
                         /\ cps'[i].hb = cps[i].hb /\ cps'[i].spb = cps[i].spb
                         /\ cps'[i].trail = IF i = k THEN Kept(k) ELSE cps[i].trail
      OBVIOUS
    <2>1. CASE i < k
      <3>1. cps'[i] = cps[i] /\ i # k
        BY <1>1, <1>3, <2>1
      <3>. QED BY <1>3, <3>1
    <2>2. CASE i = k
      <3>1. cps'[i] = [cps[k] EXCEPT !.trail = Kept(k)]
        BY <1>1, <1>3, <2>2
      <3>. QED BY <1>3, <1>7, <2>2, <3>1 DEF Choice
    <2>. QED BY <1>3, <2>1, <2>2
  <1>9. cps' \in Seq(Choice) /\ Len(cps') = k
    <2>1. cps' \in [1 .. k -> Choice]
      BY <1>1, <1>8
    <2>. QED BY <1>3, <2>1, LenProperties, SeqDef
  <1>10. B' = k
    BY <1>9 DEF B
  <1>11. ASSUME NEW i \in 1 .. k, NEW a \in cps[i].spb .. cps[i].hb - 1
         PROVE  ViewAt(i, a)' = ViewAt(i, a)
    <2>1. a \in cps[k].spb .. cps[k].hb - 1
      BY <1>3, ProtectedNested DEF IInv
    <2>2. a \in TrailedFrom(i)' <=> \E j \in i .. k : a \in cps'[j].trail
      BY <1>10 DEF TrailedFrom
    <2>3. a \in TrailedFrom(i) <=> \E j \in i .. B : a \in cps[j].trail
      BY TrailedFromDef
    <2>4. a \in Kept(k) <=> a \in cps[k].trail \/ \E j \in k + 1 .. B : a \in cps[j].trail
      BY <1>3, <1>5, <2>1 DEF Kept
    <2>5. a \in TrailedFrom(i)' <=> a \in TrailedFrom(i)
      <3>1. \A j \in i .. k : j \in 1 .. k /\ j \in i .. B
        BY <1>3
      <3>2. ASSUME NEW j \in i .. k, a \in cps'[j].trail
            PROVE  \E l \in i .. B : a \in cps[l].trail
        <4>1. CASE j = k
          BY <1>3, <1>8, <2>4, <3>2, <4>1
        <4>2. CASE j # k
          BY <1>8, <3>1, <3>2, <4>2
        <4>. QED BY <4>1, <4>2
      <3>3. ASSUME NEW l \in i .. B, a \in cps[l].trail
            PROVE  \E j \in i .. k : a \in cps'[j].trail
        <4>1. CASE l < k
          BY <1>3, <1>8, <3>3, <4>1
        <4>2. CASE l >= k
          <5>1. a \in Kept(k)
            BY <1>3, <2>4, <3>3, <4>2
          <5>. QED BY <1>3, <1>8, <5>1
        <4>. QED BY <1>3, <4>1, <4>2
      <3>. QED BY <2>2, <2>3, <3>2, <3>3
    <2>. QED BY <1>2, <2>5 DEF ViewAt
  <1>12. KeepsViews(k)
    <2>1. \A i \in 1 .. k : cps'[i].trail \subseteq cps[i].spb .. cps[i].hb - 1
      BY <1>3, <1>4, <1>7, <1>8
    <2>. QED BY <1>1, <1>2, <1>8, <1>9, <1>11, <2>1 DEF KeepsViews
  <1>13. hb' <= h /\ sp <= spb' /\ hb' \in Nat /\ spb' \in Nat
    BY <1>1, <1>3, ProtectedNested DEF IInv
  <1>14. sp' \in 0 .. spb' /\ h' \in hb' .. HeapEnd /\ Memory(store', sp', h')
    BY <1>2, <1>13, InvFacts
  <1>15. \A g \in GVars : MayHold(gv[g], HeapBase, h')
    BY <1>2 DEF IInv, NoDangling
  <1>. QED BY <1>12, <1>14, <1>15, KeepsViewsStep
------------------------------------------------------------------------------
LEMMA InitInv ==
  Init => IInv
  <1>. SUFFICES ASSUME Init PROVE IInv
    OBVIOUS
  <1>. DEFINE new == [hb |-> HeapBase, spb |-> HeapBase, trail |-> {}]
  <1>1. /\ sp = HeapBase /\ h = HeapBase /\ hb = HeapBase /\ spb = HeapBase
        /\ store = << >> /\ cps = << new >> /\ gv = [g \in GVars |-> Con]
        /\ HeapBase \in Nat /\ HeapEnd \in Nat /\ HeapBase <= HeapEnd
        /\ MaxChoice \in Nat /\ MaxChoice >= 1
    BY HeapBaseAssumption, HeapEndAssumption, MaxChoiceAssumption DEF Init
  <1>2. new \in Choice /\ new.hb = HeapBase /\ new.spb = HeapBase /\ new.trail = {}
    BY <1>1 DEF Choice
  <1>. HIDE DEF new
  <1>3. cps \in Seq(Choice) /\ Len(cps) = 1 /\ cps[1] = new
    BY <1>1, <1>2
  <1>4. HeapBase .. HeapBase - 1 = {} /\ 1 .. 1 = {1}
    BY <1>1
  <1>5. Con \in Word /\ \A a, hi : MayHold(Con, a, hi)
    BY DEF Con, Word, MayHold, IsPointer
  <1>6. store \in [Live -> Word]
    BY <1>1, <1>4 DEF Live
  <1>7. TypeOK
    BY <1>1, <1>3, <1>5, <1>6 DEF TypeOK, B
  <1>8. ChoicesOrdered
    BY <1>1, <1>2, <1>3, <1>4 DEF ChoicesOrdered, B
  <1>9. NoDangling
    BY <1>1, <1>4, <1>5 DEF NoDangling, ClosedOn
  <1>10. FailureSafe
    BY <1>1, <1>2, <1>3, <1>4, <1>5 DEF FailureSafe, ClosedOn, B
  <1>. QED BY <1>7, <1>8, <1>9, <1>10 DEF IInv

LEMMA NextInv ==
  IInv /\ [Next]_vars => IInv'
  <1>. SUFFICES ASSUME IInv, [Next]_vars PROVE IInv'
    OBVIOUS
  <1>1. CASE \E r \in Live, w \in Operands : BindValue(r, w)
    BY <1>1, BindValueBuilds, BuildStep
  <1>2. CASE \E f1, f2 \in Live : UnifyVars(f1, f2)
    BY <1>2, UnifyVarsBuilds, BuildStep
  <1>3. CASE InitYVar
    BY <1>3, InitYVarBuilds, BuildStep
  <1>4. CASE \E c \in Live : Move(c)
    BY <1>4, MoveBuilds, BuildStep
  <1>5. CASE PutXVar
    BY <1>5, PutXVarBuilds, BuildStep
  <1>6. CASE \E w \in Operands : PutStructure(w)
    BY <1>6, PutStructureBuilds, BuildStep
  <1>7. CASE \E w \in Operands, s \in sp + 1 .. spb : LastCall(w, s)
    BY <1>7, LastCallBuilds, BuildStep
  <1>8. CASE Try
    BY <1>8, TryInv
  <1>9. CASE Retry
    BY <1>9, RetryInv
  <1>10. CASE Trust
    BY <1>10, TrustInv
  <1>11. CASE \E e \in StackAddr : Cut(e)
    BY <1>11, CutInv
  <1>12. CASE \E g \in GVars, w \in Operands : GvSet(g, w)
    BY <1>12, GvSetConstantInv, GvSetHeapInv, GvSetStackVarInv DEF GvSet
  <1>13. CASE UNCHANGED vars
    <2>1. /\ store' = store /\ sp' = sp /\ h' = h /\ hb' = hb /\ spb' = spb
          /\ cps' = cps /\ gv' = gv
      BY <1>13 DEF vars
    <2>2. B' = B /\ Live' = Live
      BY <2>1 DEF B, Live
    <2>3. \A i : View(i)' = View(i)
      BY <2>1, <2>2 DEF View, TrailedFrom
    <2>4. TypeOK'
      BY <2>1, <2>2 DEF IInv, TypeOK
    <2>5. ChoicesOrdered'
      BY <2>1, <2>2 DEF IInv, ChoicesOrdered
    <2>6. NoDangling'
      BY <2>1 DEF IInv, NoDangling
    <2>7. FailureSafe'
      BY <2>1, <2>2, <2>3 DEF IInv, FailureSafe
    <2>. QED BY <2>4, <2>5, <2>6, <2>7 DEF IInv
  <1>. QED BY <1>1, <1>2, <1>3, <1>4, <1>5, <1>6, <1>7, <1>8, <1>9, <1>10, <1>11,
              <1>12, <1>13 DEF Next

(***************************************************************************)
(* The invariant holds of every reachable state.                           *)
(***************************************************************************)
THEOREM Invariant == Spec => []IInv
  BY InitInv, NextInv, PTL DEF Spec

(***************************************************************************)
(* The registers, the store and the choice points of wam.c always have     *)
(* their types: nothing is trailed, pointed to or cut back to that is not  *)
(* an address of the region it should be in.                               *)
(***************************************************************************)
THEOREM TypeCorrect == Spec => []TypeOK
  BY Invariant, PTL DEF IInv

(***************************************************************************)
(* The choice points stay ordered, and the HB and SPB registers stay those *)
(* of the newest one, through TRY, TRUST, cut and gv_set.                  *)
(***************************************************************************)
THEOREM ChoicesStayOrdered == Spec => []ChoicesOrdered
  BY Invariant, PTL DEF IInv

(***************************************************************************)
(* No cell and no global variable ever leads to a cell that is gone or     *)
(* will go first: the direction of VVBIND, P_UNSAFE and U_LVAL are enough. *)
(***************************************************************************)
THEOREM NothingDangles == Spec => []NoDangling
  BY Invariant, PTL DEF IInv

(***************************************************************************)
(* The same after failure to any choice point: the TRAIL test, the sweep   *)
(* of cut and the walk of gv_set over the HBs keep enough.                 *)
(***************************************************************************)
THEOREM FailureIsSafe == Spec => []FailureSafe
  BY Invariant, PTL DEF IInv
==============================================================================
