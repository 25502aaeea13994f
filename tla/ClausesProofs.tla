---------------------------- MODULE ClausesProofs ----------------------------
(***************************************************************************)
(* Proofs about Clauses, second part: the invariant IInv of                *)
(* ClauseChainProofs is kept by every edit, failure, call and enumeration, *)
(* and what follows from it.                                               *)
(***************************************************************************)
EXTENDS ClauseChainProofs

(***************************************************************************)
(* The choice points leave the index block.                                *)
(***************************************************************************)
NewerHasIt(c, k) ==
  \E j \in k + 1 .. Len(c) :
    InBlock(c[j]) /\ c[j].call = c[k].call /\ \A i \in k + 1 .. j - 1 : ~ InBlock(c[i])

(* Choice point new is cp, out of the index block. *)
Straightened(d, cp, new, newer) ==
  /\ new \in ChoicePoints /\ ~ InBlock(new)
  /\ new.call = cp.call /\ new.astray = cp.astray /\ new.todo = cp.todo /\ new.ran = cp.ran
  /\ ~ InBlock(cp) => new.next = cp.next
  /\ InBlock(cp) /\ newer => new.next = <<"fail">>
  /\ InBlock(cp) /\ ~ newer => new.next = <<"clause", Place(d, cp)>>

LEMMA NextReplaced ==
  ASSUME NEW cp \in ChoicePoints, NEW x \in Goals
  PROVE  LET new == [cp EXCEPT !.next = x]
         IN  /\ new \in ChoicePoints /\ new.next = x /\ new.call = cp.call /\ new.key = cp.key
             /\ new.astray = cp.astray /\ new.todo = cp.todo /\ new.ran = cp.ran
  BY DEF ChoicePoints, Goals

LEMMA FixedIs ==
  ASSUME NEW d \in Databases, NEW w, Links(d, w), Coded(d, w),
         NEW k, k \in 1 .. Len(d.c), InBlock(d.c[k]) => InIndex(d, w, d.c[k])
  PROVE  Straightened(d, d.c[k],
           CASE ~ InBlock(d.c[k]) -> d.c[k]
             [] InBlock(d.c[k]) /\ NewerHasIt(d.c, k) -> [d.c[k] EXCEPT !.next = <<"fail">>]
             [] OTHER -> [d.c[k] EXCEPT !.next = NextInChain(d, d.c[k])], NewerHasIt(d.c, k))
  <1>. DEFINE cp == d.c[k]
              newer == NewerHasIt(d.c, k)
              new == CASE ~ InBlock(cp) -> cp
                       [] InBlock(cp) /\ newer -> [cp EXCEPT !.next = <<"fail">>]
                       [] OTHER -> [cp EXCEPT !.next = NextInChain(d, cp)]
  <1>0. cp \in ChoicePoints
    BY DatabaseFacts
  <1>5. InBlock(cp) => InIndex(d, w, cp)
    OBVIOUS
  <1>. HIDE DEF cp, newer
  <1>1. CASE ~ InBlock(cp)
    <2>1. new = cp
      BY <1>1
    <2>. HIDE DEF new
    <2>. QED BY <1>0, <1>1, <2>1 DEF Straightened, cp, newer, new
  <1>2. CASE InBlock(cp) /\ newer
    <2>1. new = [cp EXCEPT !.next = <<"fail">>]
      BY <1>2
    <2>. HIDE DEF new
    <2>2. new \in ChoicePoints /\ new.next = <<"fail">> /\ new.call = cp.call /\ new.astray = cp.astray
          /\ new.todo = cp.todo /\ new.ran = cp.ran
      BY <1>0, <2>1, NextReplaced DEF Goals
    <2>3. ~ InBlock(new)
      BY <2>2, ChoicePointFacts
    <2>4. Straightened(d, cp, new, newer)
      BY <1>2, <2>2, <2>3 DEF Straightened
    <2>. QED BY <2>4 DEF cp, newer, new
  <1>3. CASE InBlock(cp) /\ ~ newer
    <2>1. new = [cp EXCEPT !.next = NextInChain(d, cp)]
      BY <1>3
    <2>. HIDE DEF new
    <2>2. NextInChain(d, cp) = <<"clause", Place(d, cp)>> /\ Place(d, cp) \in Blocks
      BY <1>0, <1>3, <1>5, NextInChainIs
    <2>. DEFINE x == <<"clause", Place(d, cp)>>
    <2>5. x \in Goals /\ x[1] = "clause"
      BY <2>2 DEF Goals
    <2>. HIDE DEF x
    <2>3. new \in ChoicePoints /\ new.next = x /\ new.call = cp.call /\ new.astray = cp.astray
          /\ new.todo = cp.todo /\ new.ran = cp.ran
      BY <1>0, <2>1, <2>2, <2>5, NextReplaced DEF x
    <2>4. ~ InBlock(new)
      BY <2>3, <2>5 DEF InBlock
    <2>6. Straightened(d, cp, new, newer)
      BY <1>3, <2>3, <2>4 DEF Straightened, x
    <2>. QED BY <2>6 DEF cp, newer, new
  <1>. QED BY <1>1, <1>2, <1>3

FixedAll(d, r) ==
  /\ r \in Databases /\ r.p = d.p /\ r.b = d.b /\ Len(r.c) = Len(d.c)
  /\ \A k \in 1 .. Len(d.c) : Straightened(d, d.c[k], r.c[k], NewerHasIt(d.c, k))

LEMMA FixChoicePointsIs ==
  ASSUME NEW d \in Databases, NEW w, Links(d, w), Coded(d, w),
         \A k \in 1 .. Len(d.c) : InBlock(d.c[k]) => InIndex(d, w, d.c[k])
  PROVE  FixedAll(d, FixChoicePoints(d))
  <1>. DEFINE n == Len(d.c)
              fixed(k) ==
                CASE ~ InBlock(d.c[k]) -> d.c[k]
                  [] InBlock(d.c[k]) /\ NewerHasIt(d.c, k) -> [d.c[k] EXCEPT !.next = <<"fail">>]
                  [] OTHER -> [d.c[k] EXCEPT !.next = NextInChain(d, d.c[k])]
              f == [k \in 1 .. n |-> fixed(k)]
              r == FixChoicePoints(d)
  <1>1. d.c \in Seq(ChoicePoints) /\ n \in Nat /\ DOMAIN d.c = 1 .. n
    BY DatabaseFacts
  <1>2. \A k \in 1 .. n : Straightened(d, d.c[k], fixed(k), NewerHasIt(d.c, k))
    BY FixedIs
  <1>3. r = [d EXCEPT !.c = f]
    BY <1>1 DEF FixChoicePoints, NewerHasIt
  <1>. HIDE DEF fixed
  <1>4. \A k \in 1 .. n : f[k] = fixed(k) /\ f[k] \in ChoicePoints
    BY <1>2 DEF Straightened
  <1>5. f \in Seq(ChoicePoints) /\ Len(f) = n
    <2>1. f \in [1 .. n -> ChoicePoints]
      BY <1>4
    <2>. HIDE DEF f, n
    <2>. QED BY <1>1, <2>1
  <1>. HIDE DEF f
  <1>6. r \in Databases /\ r.p = d.p /\ r.b = d.b /\ r.c = f
    BY <1>3, <1>5 DEF Databases
  <1>. HIDE DEF r
  <1>7. FixedAll(d, r)
    BY <1>2, <1>4, <1>5, <1>6 DEF FixedAll
  <1>. QED BY <1>7 DEF r

(* Every block keeps its id, and no block becomes free or is filled. *)
Alike(d, r) ==
  \A b \in Blocks : r.b[b].id = d.b[b].id /\ (r.b[b].code = Free <=> d.b[b].code = Free)

(* Both sequences of choice points without and with the index block *)
StraightenedAll(d, c) ==
  /\ c \in Seq(ChoicePoints) /\ Len(c) = Len(d.c)
  /\ \A k \in 1 .. Len(d.c) : Straightened(d, d.c[k], c[k], NewerHasIt(d.c, k))

LEMMA SoundStraightened ==
  ASSUME NEW d \in Databases, NEW w, Links(d, w), Coded(d, w),
         NEW r, Alike(d, r), NEW c, StraightenedAll(d, c), NEW q, Sound(d, w, d.c, q)
  PROVE  Sound(r, w, c, q)
  <1>0. /\ d.c \in Seq(ChoicePoints) /\ Len(d.c) \in Nat /\ Len(c) = Len(d.c) /\ In(w) \subseteq Blocks
        /\ \A k \in 1 .. Len(d.c) : d.c[k] \in ChoicePoints
    BY DatabaseFacts, LinksFacts DEF StraightenedAll
  <1>1. \A k \in 1 .. Len(d.c) : Straightened(d, d.c[k], c[k], NewerHasIt(d.c, k))
    BY DEF StraightenedAll
  <1>2. Of(c, q) = Of(d.c, q) /\ \A k \in Of(d.c, q) : k \in 1 .. Len(d.c)
    BY <1>0, <1>1 DEF Of, Straightened
  <1>3. \A k \in Of(d.c, q) :
          /\ ~ InBlock(c[k]) /\ c[k].astray = d.c[k].astray /\ c[k].todo = d.c[k].todo /\ c[k].ran = d.c[k].ran
          /\ c[k] \in ChoicePoints
    BY <1>1, <1>2 DEF Straightened
  <1>4. \A k \in Of(d.c, q) : ~ d.c[k].astray =>
          /\ InBlock(d.c[k]) => /\ InIndex(d, w, d.c[k]) /\ Place(d, d.c[k]) \in In(w)
                                /\ Place(d, d.c[k]) = w[d.c[k].next[2]] /\ d.c[k].next[2] \in 1 .. Len(w)
          /\ Goes(d, w, d.c[k])
    <2>. SUFFICES ASSUME NEW k \in Of(d.c, q), ~ d.c[k].astray
                  PROVE  /\ InBlock(d.c[k]) => /\ InIndex(d, w, d.c[k]) /\ Place(d, d.c[k]) \in In(w)
                                               /\ Place(d, d.c[k]) = w[d.c[k].next[2]] /\ d.c[k].next[2] \in 1 .. Len(w)
                         /\ Goes(d, w, d.c[k])
      OBVIOUS
    <2>1. Goes(d, w, d.c[k]) /\ d.c[k] \in ChoicePoints
      BY <1>0, <1>2 DEF Sound
    <2>2. InBlock(d.c[k]) => InIndex(d, w, d.c[k])
      BY <2>1 DEF Goes
    <2>. QED BY <2>1, <2>2, NextInChainIs
  <1>5. \A k \in Of(d.c, q) : d.c[k].astray => ~ InBlock(d.c[k])
    BY DEF Sound
  <1>6. \A j, k \in Of(d.c, q) : j < k /\ ~ d.c[j].astray => k = j + 1 /\ Pair(d, d.c[j], d.c[k])
    BY DEF Sound
  <1>7. \A b \in Blocks : From(r, w, b) = From(d, w, b)
    BY <1>0 DEF From, Alike
  (* Of a pair in the index block the newer goes on. *)
  <1>8. ASSUME NEW k, k \in Of(d.c, q), InBlock(d.c[k]), ~ d.c[k].astray, NewerHasIt(d.c, k)
        PROVE  \E m \in Of(d.c, q) :
                 /\ m = k + 1 /\ InBlock(d.c[m]) /\ Pair(d, d.c[k], d.c[m]) /\ ~ d.c[m].astray
    <2>1. PICK m \in k + 1 .. Len(d.c) : InBlock(d.c[m]) /\ d.c[m].call = d.c[k].call
      BY <1>8 DEF NewerHasIt
    <2>2. k \in 1 .. Len(d.c) /\ m \in 1 .. Len(d.c) /\ k < m
      BY <1>0, <1>2, <1>8, <2>1
    <2>3. m \in Of(d.c, q)
      BY <1>8, <2>1, <2>2 DEF Of
    <2>. QED BY <1>5, <1>6, <1>8, <2>1, <2>2, <2>3
  <1>9. ASSUME NEW j, j \in Of(d.c, q), NEW k, k \in Of(d.c, q), j < k, ~ d.c[j].astray,
               InBlock(d.c[k])
        PROVE  ~ NewerHasIt(d.c, k)
    <2>. SUFFICES ASSUME NewerHasIt(d.c, k) PROVE FALSE
      OBVIOUS
    <2>0. ~ d.c[k].astray
      BY <1>5, <1>9
    <2>1. PICK m \in Of(d.c, q) : m = k + 1
      BY <1>8, <1>9, <2>0
    <2>2. j \in Nat /\ k \in Nat /\ j < m
      BY <1>0, <1>2, <1>9, <2>1
    <2>3. k = j + 1 /\ m = j + 1
      BY <1>6, <1>9, <2>1, <2>2
    <2>. QED BY <2>1, <2>2, <2>3
  <1>10. ASSUME NEW k, k \in Of(d.c, q), ~ d.c[k].astray
         PROVE  Goes(r, w, c[k])
    <2>1. Goes(d, w, d.c[k])
      BY <1>4, <1>10
    <2>2. c[k].ran \subseteq In(w) /\ c[k].todo \subseteq In(w) /\ ~ InBlock(c[k])
      BY <1>3, <1>10, <2>1 DEF Goes
    <2>3. \/ c[k].next[1] = "fail"
          \/ /\ c[k].next[1] = "clause" /\ c[k].next[2] = Place(d, d.c[k]) /\ d.c[k].next[1] # "fail"
             /\ Place(d, d.c[k]) \in Blocks /\ d.b[Place(d, d.c[k])].code # Free
      <3>1. Straightened(d, d.c[k], c[k], NewerHasIt(d.c, k)) /\ d.c[k] \in ChoicePoints /\ c[k] \in ChoicePoints
        BY <1>0, <1>1, <1>2, <1>3, <1>10
      <3>2. CASE ~ InBlock(d.c[k])
        <4>1. c[k].next = d.c[k].next
          BY <3>1, <3>2 DEF Straightened
        <4>2. c[k].next[1] = "fail" \/ c[k].next[1] = "clause"
          BY <2>2, <3>1, ChoicePointFacts
        <4>3. c[k].next[1] = "clause" => d.c[k].next[2] \in Blocks /\ d.b[d.c[k].next[2]].code # Free
          BY <2>1, <4>1 DEF Goes
        <4>4. Place(d, d.c[k]) = d.c[k].next[2]
          BY <3>2 DEF Place
        <4>5. c[k].next[1] = "clause" => d.c[k].next[1] # "fail"
          BY <4>1
        <4>. QED BY <4>1, <4>2, <4>3, <4>4, <4>5
      <3>3. CASE InBlock(d.c[k])
        <4>1. c[k].next = <<"fail">> \/ c[k].next = <<"clause", Place(d, d.c[k])>>
          BY <3>1, <3>3 DEF Straightened
        <4>2. Place(d, d.c[k]) \in In(w) /\ d.c[k].next[1] # "fail"
          BY <1>4, <1>10, <3>1, <3>3, ChoicePointFacts
        <4>3. d.b[Place(d, d.c[k])].code # Free /\ Place(d, d.c[k]) \in Blocks
          BY SMTT(30), <1>0, <4>2, CodeFacts DEF In
        <4>. QED BY <4>1, <4>2, <4>3
      <3>. QED BY <3>2, <3>3
    <2>4. c[k].next[1] = "clause" => c[k].next[2] \in Blocks /\ r.b[c[k].next[2]].code # Free
      BY <2>3 DEF Alike
    <2>5. c[k].next[1] # "fail" => \A a \in c[k].ran : r.b[a].id < r.b[Place(r, c[k])].id
      <3>. SUFFICES ASSUME c[k].next[1] # "fail", NEW a \in c[k].ran
                    PROVE  r.b[a].id < r.b[Place(r, c[k])].id
        OBVIOUS
      <3>1. Place(r, c[k]) = Place(d, d.c[k]) /\ Place(d, d.c[k]) \in Blocks /\ d.c[k].next[1] # "fail"
        BY <2>2, <2>3 DEF Place
      <3>2. d.b[a].id < d.b[Place(d, d.c[k])].id
        BY <1>3, <1>10, <2>1, <3>1 DEF Goes
      <3>. QED BY <1>0, <2>2, <3>1, <3>2 DEF Alike
    <2>. QED BY <2>2, <2>4, <2>5 DEF Goes
  <1>11. ASSUME NEW j, j \in Of(d.c, q), NEW k, k \in Of(d.c, q), j < k, ~ d.c[j].astray
         PROVE  k = j + 1 /\ Pair(r, c[j], c[k])
    <2>1. k = j + 1 /\ Pair(d, d.c[j], d.c[k])
      BY <1>6, <1>11
    <2>2. Straightened(d, d.c[j], c[j], NewerHasIt(d.c, j)) /\ Straightened(d, d.c[k], c[k], NewerHasIt(d.c, k))
      BY <1>1, <1>2, <1>11
    <2>3. c[j].todo = c[k].todo /\ c[j].ran = c[k].ran
      BY <1>3, <1>11, <2>1 DEF Pair
    <2>4. CASE d.c[j].next = <<"fail">> /\ d.c[k].next[1] = "clause"
      <3>1. ~ InBlock(d.c[j]) /\ ~ InBlock(d.c[k])
        BY <2>4 DEF InBlock
      <3>2. c[j].next = d.c[j].next /\ c[k].next = d.c[k].next
        BY <2>2, <3>1 DEF Straightened
      <3>. QED BY <2>1, <2>3, <2>4, <3>2 DEF Pair
    <2>5. CASE d.c[j].next[1] = "top" /\ d.c[k].next[1] = "bottom"
      <3>1. InBlock(d.c[j]) /\ InBlock(d.c[k])
        BY <2>5 DEF InBlock
      <3>2. j \in 1 .. Len(d.c) /\ k \in j + 1 .. Len(d.c)
        <4>1. j \in 1 .. Len(d.c) /\ k \in 1 .. Len(d.c) /\ k = j + 1
          BY <1>2, <1>11, <2>1
        <4>2. Len(d.c) \in Nat
          BY <1>0
        <4>. QED BY <4>1, <4>2
      <3>3. NewerHasIt(d.c, j)
        <4>1. d.c[k].call = d.c[j].call
          BY <1>11 DEF Of
        <4>2. \A i \in j + 1 .. k - 1 : FALSE
          BY <2>1, <3>2
        <4>. QED BY <3>1, <3>2, <4>1, <4>2 DEF NewerHasIt
      <3>4. ~ NewerHasIt(d.c, k)
        BY <1>9, <1>11, <3>1
      <3>5. c[j].next = <<"fail">> /\ c[k].next = <<"clause", Place(d, d.c[k])>>
        BY <2>2, <3>1, <3>3, <3>4 DEF Straightened
      <3>6. c[k].next[1] = "clause"
        BY <3>5
      <3>. QED BY <2>1, <2>3, <3>5, <3>6 DEF Pair
    <2>. QED BY <2>1, <2>4, <2>5 DEF Pair
  <1>12. ASSUME NEW k, k \in Of(d.c, q), ~ d.c[k].astray, NEW a, a \in d.c[k].todo
         PROVE  \E j \in Of(d.c, q) : a \in Ahead(r, w, c[j])
    <2>1. PICK j \in Of(d.c, q) : a \in Ahead(d, w, d.c[j])
      BY <1>12 DEF Sound
    <2>2. d.c[j] \in ChoicePoints /\ c[j] \in ChoicePoints /\ ~ InBlock(c[j]) /\ ~ d.c[j].astray
          /\ Straightened(d, d.c[j], c[j], NewerHasIt(d.c, j))
      <3>1. d.c[j].astray => d.c[k].astray
        BY <1>12 DEF Sound
      <3>. QED BY <1>0, <1>1, <1>2, <1>3, <1>12, <3>1
    <2>3. CASE ~ InBlock(d.c[j])
      <3>1. c[j].next = d.c[j].next
        BY <2>2, <2>3 DEF Straightened
      <3>2. d.c[j].next[1] = "clause" /\ a \in From(d, w, d.c[j].next[2]) /\ d.c[j].next[2] \in Blocks
        <4>1. d.c[j].next[1] = "fail" \/ d.c[j].next[1] = "clause"
          BY <2>2, <2>3, ChoicePointFacts
        <4>2. d.c[j].next[1] # "fail"
          BY <2>1 DEF Ahead
        <4>. QED BY <2>1, <2>2, <4>1, <4>2, ChoicePointFacts DEF Ahead
      <3>3. a \in Ahead(r, w, c[j])
        BY <1>7, <3>1, <3>2 DEF Ahead
      <3>. QED BY <3>3
    <2>4. CASE InBlock(d.c[j])
      <3>1. a \in From(d, w, Place(d, d.c[j])) /\ InIndex(d, w, d.c[j]) /\ Place(d, d.c[j]) \in Blocks
            /\ Place(d, d.c[j]) = w[d.c[j].next[2]] /\ d.c[j].next[2] \in 1 .. Len(w)
        BY <1>0, <1>4, <2>1, <2>2, <2>4, AheadFrom
      <3>2. CASE ~ NewerHasIt(d.c, j)
        <4>1. c[j].next = <<"clause", Place(d, d.c[j])>>
          BY <2>2, <2>4, <3>2 DEF Straightened
        <4>2. c[j].next[1] = "clause" /\ c[j].next[2] = Place(d, d.c[j])
          BY <4>1
        <4>3. a \in Ahead(r, w, c[j])
          BY <1>7, <3>1, <4>2 DEF Ahead
        <4>. QED BY <4>3
      <3>3. CASE NewerHasIt(d.c, j)
        <4>1. PICK m \in Of(d.c, q) :
                 m = j + 1 /\ InBlock(d.c[m]) /\ Pair(d, d.c[j], d.c[m]) /\ ~ d.c[m].astray
          BY <1>8, <2>2, <2>4, <3>3
        <4>2. j < m
          <5>1. j \in 1 .. Len(d.c)
            BY <1>2
          <5>2. j < j + 1
            BY <5>1
          <5>. QED BY <4>1, <5>2
        <4>3. ~ NewerHasIt(d.c, m)
          BY <1>9, <2>2, <4>1, <4>2
        <4>4. c[m].next = <<"clause", Place(d, d.c[m])>>
          BY <1>1, <1>2, <4>1, <4>3 DEF Straightened
        <4>5. d.c[m].next[2] < d.c[j].next[2]
          <5>1. d.c[j].next # <<"fail">>
            BY <2>2, <2>4, ChoicePointFacts
          <5>. QED BY <4>1, <5>1 DEF Pair
        <4>6. Place(d, d.c[m]) = w[d.c[m].next[2]] /\ d.c[m].next[2] \in 1 .. Len(w) /\ Place(d, d.c[m]) \in Blocks
          BY <1>0, <1>4, <4>1
        <4>7. d.b[Place(d, d.c[m])].id < d.b[Place(d, d.c[j])].id
          BY <3>1, <4>5, <4>6 DEF Links
        <4>8. a \in From(d, w, Place(d, d.c[m]))
          <5>1. a \in In(w) /\ a \in Blocks /\ d.b[Place(d, d.c[j])].id <= d.b[a].id
            BY <1>0, <3>1 DEF From
          <5>2. d.b[a].id \in Int /\ d.b[Place(d, d.c[j])].id \in Int /\ d.b[Place(d, d.c[m])].id \in Int
            BY <3>1, <4>6, <5>1, CodeTypes
          <5>. QED BY <4>7, <5>1, <5>2 DEF From
        <4>9. c[m].next[1] = "clause" /\ c[m].next[2] = Place(d, d.c[m])
          BY <4>4
        <4>10. a \in Ahead(r, w, c[m])
          BY <1>7, <4>6, <4>8, <4>9 DEF Ahead
        <4>. QED BY <4>10
      <3>. QED BY <3>2, <3>3
    <2>. QED BY <2>3, <2>4
  <1>13. \A j, k \in Of(d.c, q) : d.c[j].astray => d.c[k].astray
    BY DEF Sound
  <1>. QED BY <1>2, <1>3, <1>10, <1>11, <1>12, <1>13 DEF Sound

(***************************************************************************)
(* The index is gone.                                                      *)
(***************************************************************************)
(* r is d without an index block. *)
Nuked(d, r, w) ==
  /\ r \in Databases /\ Chained(r, w) /\ r.p.usage # "switch" /\ Alike(d, r)
  /\ Len(r.c) = Len(d.c) /\ Awaited(r, w, r.c)
  /\ \A k \in 1 .. Len(d.c) :
       /\ ~ InBlock(r.c[k]) /\ r.c[k].call = d.c[k].call /\ r.c[k].astray = d.c[k].astray
       /\ r.c[k].todo = d.c[k].todo /\ r.c[k].ran = d.c[k].ran

LEMMA InBlockIndexed ==
  ASSUME NEW d \in Databases, NEW w, Awaited(d, w, d.c), NEW k, k \in 1 .. Len(d.c), InBlock(d.c[k])
  PROVE  InIndex(d, w, d.c[k])
  <1>1. d.c[k] \in ChoicePoints
    BY DatabaseFacts
  <1>2. d.c[k].call \in 1 .. MaxChoice
    BY <1>1, ChoicePointFacts
  <1>3. Sound(d, w, d.c, d.c[k].call) /\ k \in Of(d.c, d.c[k].call)
    BY <1>2 DEF Awaited, Of
  <1>4. Goes(d, w, d.c[k])
    BY <1>3 DEF Sound
  <1>. QED BY <1>4 DEF Goes

LEMMA NumbersApart ==
  \A h \in Nat : h # 0 /\ h # 1 => h > 1 /\ 1 \in 1 .. h /\ 2 \in 1 .. h
  OBVIOUS

(* Only a procedure of several clauses is indexed. *)
LEMMA SwitchSeveral ==
  ASSUME NEW d, NEW w, Links(d, w), Coded(d, w), d.p.usage = "switch"
  PROVE  /\ Len(w) \in Nat /\ Len(w) > 1 /\ 1 \in 1 .. Len(w) /\ 2 \in 1 .. Len(w)
         /\ 1 # Len(w) /\ Len(w) # 0 /\ w # << >> /\ ~ LeftOver(d, w)
  <1>. DEFINE n == Len(w)
  <1>1. n \in Nat
    BY LinksFacts
  <1>2. n # 0 /\ n # 1 /\ w # << >>
    BY DEF Coded
  <1>3. ~ LeftOver(d, w)
    BY <1>2 DEF LeftOver
  <1>. HIDE DEF n
  <1>4. n > 1 /\ 1 \in 1 .. n /\ 2 \in 1 .. n
    BY <1>1, <1>2, NumbersApart
  <1>. QED BY <1>1, <1>2, <1>3, <1>4 DEF n

(* The blocks and the procedure after the index is gone *)
Unindexed(d, r, w) ==
  /\ r \in Databases /\ r.p.usage = "multiple" /\ r.p.index = << >>
  /\ r.p.entry = TryMeJump(w[1], w[2], TRUE)
  /\ r.p.first = d.p.first /\ r.p.last = d.p.last /\ r.p.lo = d.p.lo /\ r.p.hi = d.p.hi
  /\ r.b[w[1]] = [d.b[w[1]] EXCEPT !.code = RetryMe(w[2])]
  /\ \A b \in Blocks \ {w[1]} : r.b[b] = d.b[b]

LEMMA UnindexedChained ==
  ASSUME NEW d \in Databases, NEW w, Chained(d, w), d.p.usage = "switch", NEW r, Unindexed(d, r, w)
  PROVE  Chained(r, w) /\ Alike(d, r)
  <1>1. Links(d, w) /\ Coded(d, w) /\ Numbered(d, w)
    BY DEF Chained
  <1>2. Len(w) \in Nat /\ Len(w) > 1 /\ ~ LeftOver(d, w)
    BY <1>1, SwitchSeveral
  <1>3. 1 \in 1 .. Len(w) /\ 2 \in 1 .. Len(w) /\ 1 # Len(w) /\ Len(w) # 0
    BY <1>1, SwitchSeveral
  <1>4. \A i \in 1 .. Len(w) : w[i] \in Blocks /\ w[i] \in In(w)
    BY <1>1, LinksFacts
  <1>5. \A b \in Blocks : r.b[b].id = d.b[b].id /\ r.b[b].next = d.b[b].next
    <2>1. d.b[w[1]] \in ClauseBlocks
      BY <1>3, <1>4, CodeTypes
    <2>2. r.b[w[1]].id = d.b[w[1]].id /\ r.b[w[1]].next = d.b[w[1]].next
      BY <2>1 DEF Unindexed, ClauseBlocks
    <2>. QED BY <2>2 DEF Unindexed
  <1>6. r.b[w[1]].code = RetryMe(w[2]) /\ \A b \in Blocks \ {w[1]} : r.b[b].code = d.b[b].code
    <2>1. d.b[w[1]] \in ClauseBlocks
      BY <1>3, <1>4, CodeTypes
    <2>2. r.b[w[1]].code = RetryMe(w[2])
      BY <2>1 DEF Unindexed, ClauseBlocks
    <2>. QED BY <2>2 DEF Unindexed
  <1>7. Links(r, w)
    <2>1. \A i, j \in 1 .. Len(w) : i < j => r.b[w[i]].id < r.b[w[j]].id
      BY <1>1, <1>4, <1>5 DEF Links
    <2>2. \A i \in 1 .. Len(w) : r.b[w[i]].next = IF i = Len(w) THEN None ELSE w[i + 1]
      BY <1>1, <1>4, <1>5 DEF Links
    <2>3. \A b \in Blocks \ In(w) : r.b[b].next = None /\ r.b[b].code \in {Deleted, Free}
      BY <1>1, <1>3, <1>4, <1>5, <1>6 DEF Links
    <2>4. r.p.first = d.p.first /\ r.p.last = d.p.last
      BY DEF Unindexed
    <2>. QED BY <1>1, <2>1, <2>2, <2>3, <2>4 DEF Links
  <1>8. \A i \in 1 .. Len(w) : r.b[w[i]].code = CodeOf(r, w, i)
    <2>. SUFFICES ASSUME NEW i \in 1 .. Len(w) PROVE r.b[w[i]].code = CodeOf(r, w, i)
      OBVIOUS
    <2>0. r.p.usage = "multiple"
      BY DEF Unindexed
    <2>1. CASE i = 1
      <3>1. CodeOf(r, w, i) = RetryMe(w[1 + 1])
        BY <1>3, <2>0, <2>1 DEF CodeOf
      <3>2. 1 + 1 = 2
        OBVIOUS
      <3>. QED BY <1>6, <2>1, <3>1, <3>2
    <2>2. CASE i # 1
      <3>1. w[i] # w[1]
        BY <1>1, <1>3, <2>2, IdsApart
      <3>2. r.b[w[i]].code = d.b[w[i]].code
        BY <1>4, <1>6, <3>1
      <3>3. ~ LeftOver(d, w)
        BY <1>2
      <3>4. d.b[w[i]].code = CodeOf(d, w, i)
        BY <1>1, <3>3 DEF Coded
      <3>5. CodeOf(r, w, i) = CodeOf(d, w, i)
        BY <2>0, <2>2 DEF CodeOf
      <3>. QED BY <3>2, <3>4, <3>5
    <2>. QED BY <2>1, <2>2
  <1>9. Coded(r, w)
    <2>1. /\ r.p.usage = "multiple" /\ r.p.entry.op = "try_me_jump" /\ r.p.entry.first = w[1]
          /\ r.p.entry.second \in Blocks /\ r.p.index = << >>
      BY <1>3, <1>4 DEF Unindexed, TryMeJump, Empty
    <2>. QED BY <1>3, <1>8, <2>1 DEF Coded
  <1>10. Numbered(r, w)
    BY <1>1, <1>4, <1>5 DEF Numbered, Unindexed
  <1>11. Alike(d, r)
    <2>1. d.b[w[1]].code # Free /\ r.b[w[1]].code # Free
      <3>1. d.b[w[1]].code # Free
        BY <1>1, <1>3, CodeInside
      <3>2. RetryMe(w[2]) # Free
        BY CodesApart
      <3>. QED BY <1>6, <3>1, <3>2
    <2>. QED BY <1>5, <1>6, <2>1 DEF Alike
  <1>. QED BY <1>7, <1>9, <1>10, <1>11 DEF Chained

LEMMA NukeIndexingIs ==
  ASSUME NEW d \in Databases, NEW w, Chained(d, w), Awaited(d, w, d.c)
  PROVE  Nuked(d, NukeIndexing(d), w)
  <1>1. Links(d, w) /\ Coded(d, w) /\ Numbered(d, w)
    BY DEF Chained
  <1>2. \A k \in 1 .. Len(d.c) : InBlock(d.c[k]) => InIndex(d, w, d.c[k])
    BY InBlockIndexed
  <1>3. CASE d.p.usage # "switch"
    <2>1. NukeIndexing(d) = d
      BY <1>3 DEF NukeIndexing
    <2>2. \A k \in 1 .. Len(d.c) : ~ InBlock(d.c[k])
      BY <1>2, <1>3 DEF InIndex
    <2>. QED BY <1>3, <2>1, <2>2 DEF Nuked, Alike
  <1>4. CASE d.p.usage = "switch"
    <2>1. Len(w) \in Nat /\ w # << >>
      BY <1>1, <1>4, SwitchSeveral
    <2>2. 1 \in 1 .. Len(w) /\ 2 \in 1 .. Len(w) /\ 1 # Len(w)
      BY <1>1, <1>4, SwitchSeveral
    <2>3. w[1] \in Blocks /\ w[2] \in Blocks /\ d.p.first = w[1] /\ d.b[w[1]].next = w[2] /\ w[2] # None
      <3>1. w # << >>
        BY <2>1
      <3>2. d.b[w[1]].next = w[1 + 1] /\ d.p.first = w[1]
        BY <1>1, <2>2, <3>1 DEF Links
      <3>3. 1 + 1 = 2
        OBVIOUS
      <3>. QED BY <1>1, <2>2, <3>2, <3>3, LinksFacts
    <2>. DEFINE f == FixChoicePoints(d)
                d1 == [f EXCEPT !.p.index = << >>]
                e == InstallEntry(d1, TryMeJump(w[1], w[2], TRUE))
                g == InstallChoice(e, w[1], RetryMe(w[2]))
                r == [g EXCEPT !.p.usage = "multiple"]
    <2>4. NukeIndexing(d) = r
      BY <1>4, <2>3 DEF NukeIndexing
    <2>5. FixedAll(d, f)
      BY <1>1, <1>2, FixChoicePointsIs
    <2>. HIDE DEF f
    <2>6. /\ f \in Databases /\ f.p = d.p /\ f.b = d.b /\ Len(f.c) = Len(d.c) /\ StraightenedAll(d, f.c)
      BY <2>5, DatabaseFacts DEF FixedAll, StraightenedAll
    <2>7. d1 \in Databases /\ d1.p = [d.p EXCEPT !.index = << >>] /\ d1.b = d.b /\ d1.c = f.c
      <3>1. << >> \in Seq(Blocks)
        OBVIOUS
      <3>. QED BY <2>6, <3>1, IndexSetIs
    <2>. HIDE DEF d1
    <2>8. TryMeJump(w[1], w[2], TRUE) \in Entries
      BY <2>3, EntriesTyped
    <2>9. Becoming(d1, e, d1.p.first, d1.p.last, d1.p.usage, TryMeJump(w[1], w[2], TRUE))
      BY <2>7, <2>8, InstalledIs
    <2>. HIDE DEF e
    <2>10. e \in Databases /\ e.c = f.c /\ e.b = d.b
      BY <2>7, <2>9 DEF Becoming
    <2>11. Rewritten(e, g, w[1], [e.b[w[1]] EXCEPT !.code = RetryMe(w[2])])
      BY <2>3, <2>10, CodesTyped, InstallChoiceIs
    <2>. HIDE DEF g
    <2>12. g \in Databases /\ g.p = e.p /\ g.c = f.c /\ g.b[w[1]] = [d.b[w[1]] EXCEPT !.code = RetryMe(w[2])]
           /\ \A b \in Blocks \ {w[1]} : g.b[b] = d.b[b]
      BY <2>10, <2>11 DEF Rewritten
    <2>13. r \in Databases /\ r.p = [g.p EXCEPT !.usage = "multiple"] /\ r.b = g.b /\ r.c = g.c
      BY <2>12, UsageIs
    <2>. HIDE DEF r
    <2>14. /\ e.p.first = d.p.first /\ e.p.last = d.p.last /\ e.p.lo = d.p.lo /\ e.p.hi = d.p.hi
           /\ e.p.index = << >> /\ e.p.entry = TryMeJump(w[1], w[2], TRUE)
      <3>1. d.p \in Procedures
        BY DatabaseFacts
      <3>2. /\ d1.p.first = d.p.first /\ d1.p.last = d.p.last /\ d1.p.lo = d.p.lo /\ d1.p.hi = d.p.hi
            /\ d1.p.index = << >>
        BY <2>7, <3>1 DEF Procedures
      <3>. QED BY <2>9, <3>2 DEF Becoming
    <2>15. Unindexed(d, r, w)
      <3>1. g.p \in Procedures
        BY <2>12, DatabaseFacts
      <3>2. /\ r.p.usage = "multiple" /\ r.p.first = e.p.first /\ r.p.last = e.p.last /\ r.p.lo = e.p.lo
            /\ r.p.hi = e.p.hi /\ r.p.index = e.p.index /\ r.p.entry = e.p.entry
        BY <2>12, <2>13, <3>1 DEF Procedures
      <3>. QED BY <2>12, <2>13, <2>14, <3>2 DEF Unindexed
    <2>16. Chained(r, w) /\ Alike(d, r)
      BY <1>4, <2>15, UnindexedChained
    <2>17. Awaited(r, w, r.c)
      <3>1. r.c = f.c
        BY <2>12, <2>13
      <3>2. \A q \in 1 .. MaxChoice : Sound(d, w, d.c, q)
        BY DEF Awaited
      <3>. QED BY <1>1, <2>6, <2>16, <3>1, <3>2, SoundStraightened DEF Awaited
    <2>18. \A k \in 1 .. Len(d.c) :
             /\ ~ InBlock(r.c[k]) /\ r.c[k].call = d.c[k].call /\ r.c[k].astray = d.c[k].astray
             /\ r.c[k].todo = d.c[k].todo /\ r.c[k].ran = d.c[k].ran
      BY <2>6, <2>12, <2>13 DEF StraightenedAll, Straightened
    <2>19. Nuked(d, r, w)
      <3>1. r.p.usage # "switch"
        BY <2>15 DEF Unindexed
      <3>. QED BY <2>6, <2>12, <2>13, <2>16, <2>17, <2>18, <3>1 DEF Nuked
    <2>. QED BY <2>4, <2>19
  <1>. QED BY <1>3, <1>4

(***************************************************************************)
(* The state, and what an edit makes of it                                 *)
(***************************************************************************)
LEMMA KeyForgottenIs ==
  ASSUME NEW c \in Seq(ChoicePoints)
  PROVE  LET r == KeyForgotten(c)
         IN  /\ r \in Seq(ChoicePoints) /\ Len(r) = Len(c)
             /\ \A k \in 1 .. Len(c) :
                  /\ r[k].call = c[k].call /\ r[k].next = c[k].next /\ r[k].astray = c[k].astray
                  /\ r[k].todo = c[k].todo /\ r[k].ran = c[k].ran
                  /\ InBlock(c[k]) => r[k] = c[k]
  <1>. DEFINE n == Len(c)
              y(k) == IF InBlock(c[k]) THEN c[k] ELSE [c[k] EXCEPT !.key = "var"]
              r == KeyForgotten(c)
  <1>1. n \in Nat /\ DOMAIN c = 1 .. n /\ \A k \in 1 .. n : c[k] \in ChoicePoints
    OBVIOUS
  <1>2. r = [k \in 1 .. n |-> y(k)]
    BY <1>1 DEF KeyForgotten
  <1>3. \A k \in 1 .. n :
          /\ y(k) \in ChoicePoints /\ y(k).call = c[k].call /\ y(k).next = c[k].next
          /\ y(k).astray = c[k].astray /\ y(k).todo = c[k].todo /\ y(k).ran = c[k].ran
          /\ InBlock(c[k]) => y(k) = c[k]
    BY <1>1 DEF ChoicePoints, CallKeys, Keys
  <1>. HIDE DEF y, r
  <1>4. \A k \in 1 .. n : r[k] = y(k)
    BY <1>2
  <1>5. r \in [1 .. n -> ChoicePoints]
    BY <1>2, <1>3
  <1>6. r \in Seq(ChoicePoints) /\ Len(r) = n
    <2>. HIDE DEF n
    <2>. QED BY <1>1, <1>2, <1>5
  <1>. QED BY <1>3, <1>4, <1>6 DEF r

LEMMA StateTyped ==
  ASSUME TypeOK
  PROVE  /\ db \in Databases /\ db.p = proc /\ db.b = block /\ db.c = cps
         /\ walk.next \in Blocks \cup {None} /\ walk.id \in Int /\ walk.todo \in SUBSET Blocks
         /\ Len(cps) <= MaxChoice
  <1>1. db.p = proc /\ db.b = block /\ db.c = cps /\ db = [p |-> proc, b |-> block, c |-> cps]
    BY DEF db
  <1>2. walk.next \in Blocks \cup {None} /\ walk.id \in Int /\ walk.todo \in SUBSET Blocks
    BY DEF TypeOK, Enumerations
  <1>. QED BY <1>1, <1>2 DEF TypeOK, Databases

LEMMA BecomesIs ==
  ASSUME NEW r \in Databases, Becomes(r), Len(r.c) <= MaxChoice,
         walk' \in Enumerations
  PROVE  /\ TypeOK' /\ db' \in Databases
         /\ db'.p = r.p /\ db'.b = r.b /\ db'.c = cps' /\ Len(cps') = Len(r.c)
         /\ \A k \in 1 .. Len(r.c) :
              /\ cps'[k].call = r.c[k].call /\ cps'[k].next = r.c[k].next
              /\ cps'[k].astray = r.c[k].astray
              /\ cps'[k].todo = r.c[k].todo /\ cps'[k].ran = r.c[k].ran
              /\ InBlock(r.c[k]) => cps'[k] = r.c[k]
  <1>1. proc' = r.p /\ block' = r.b /\ cps' = KeyForgotten(r.c)
    BY DEF Becomes
  <1>2. r.p \in Procedures /\ r.b \in [Blocks -> ClauseBlocks] /\ r.c \in Seq(ChoicePoints)
    BY DatabaseFacts
  <1>3. /\ cps' \in Seq(ChoicePoints) /\ Len(cps') = Len(r.c)
        /\ \A k \in 1 .. Len(r.c) :
              /\ cps'[k].call = r.c[k].call /\ cps'[k].next = r.c[k].next
              /\ cps'[k].astray = r.c[k].astray
              /\ cps'[k].todo = r.c[k].todo /\ cps'[k].ran = r.c[k].ran
              /\ InBlock(r.c[k]) => cps'[k] = r.c[k]
    BY <1>1, <1>2, KeyForgottenIs
  <1>4. TypeOK'
    <2>1. proc' \in Procedures /\ block' \in [Blocks -> ClauseBlocks]
      BY <1>1, <1>2
    <2>. QED BY <1>3, <2>1 DEF TypeOK
  <1>5. db' = [p |-> proc', b |-> block', c |-> cps']
    BY DEF db
  <1>6. db'.p = r.p /\ db'.b = r.b /\ db'.c = cps' /\ db' \in Databases
    BY <1>1, <1>2, <1>3, <1>5 DEF Databases
  <1>. QED BY <1>3, <1>4, <1>6

(* No choice point is in the index block. *)
Outside(d) == \A k \in 1 .. Len(d.c) : ~ InBlock(d.c[k])

LEMMA AwaitedEdit ==
  ASSUME NEW d \in Databases, NEW w, Links(d, w), Awaited(d, w, d.c), Outside(d),
         NEW r, NEW gone, Carries(d, r, gone), NEW w2, Stays(d, r, w, w2, gone)
  PROVE  Awaited(r, w2, r.c)
  <1>. SUFFICES ASSUME NEW q \in 1 .. MaxChoice PROVE Sound(r, w2, r.c, q)
    BY DEF Awaited
  <1>0. /\ \A k \in 1 .. Len(d.c) : d.c[k] \in ChoicePoints /\ ~ InBlock(d.c[k])
        /\ In(w) \subseteq Blocks /\ Sound(d, w, d.c, q) /\ Len(r.c) = Len(d.c)
    <2>1. \A k \in 1 .. Len(d.c) : d.c[k] \in ChoicePoints
      BY DatabaseFacts
    <2>2. In(w) \subseteq Blocks
      BY LinksFacts
    <2>3. Sound(d, w, d.c, q)
      BY DEF Awaited
    <2>4. Len(r.c) = Len(d.c)
      BY DEF Carries
    <2>5. \A k \in 1 .. Len(d.c) : ~ InBlock(d.c[k])
      BY DEF Outside
    <2>. QED BY <2>1, <2>2, <2>3, <2>4, <2>5
  <1>1. \A k \in 1 .. Len(d.c) :
          /\ r.c[k].call = d.c[k].call /\ r.c[k].next = d.c[k].next /\ r.c[k].astray = d.c[k].astray
          /\ r.c[k].todo = d.c[k].todo \ gone /\ r.c[k].ran = d.c[k].ran \ gone
    BY DEF Carries
  <1>2. Of(r.c, q) = Of(d.c, q) /\ \A k \in Of(d.c, q) : k \in 1 .. Len(d.c)
    BY <1>0, <1>1 DEF Of
  <1>3. \A k \in Of(d.c, q) :
          /\ ~ InBlock(r.c[k]) /\ ~ InBlock(d.c[k]) /\ d.c[k] \in ChoicePoints
          /\ r.c[k].astray = d.c[k].astray /\ r.c[k].next = d.c[k].next
          /\ r.c[k].todo = d.c[k].todo \ gone /\ r.c[k].ran = d.c[k].ran \ gone
    BY <1>0, <1>1, <1>2 DEF InBlock
  <1>4. \A a \in In(w) \ gone : a \in In(w2) /\ r.b[a].id = d.b[a].id
    BY DEF Stays
  <1>5. ASSUME NEW k \in Of(d.c, q), ~ d.c[k].astray, d.c[k].next[1] = "clause"
        PROVE  /\ d.c[k].next[2] \in Blocks /\ r.b[d.c[k].next[2]].code # Free
               /\ r.b[d.c[k].next[2]].id = d.b[d.c[k].next[2]].id
    <2>. DEFINE b == d.c[k].next[2]
    <2>1. b \in Blocks /\ d.b[b].code # Free
      BY <1>0, <1>5 DEF Sound, Goes
    <2>2. d.c[k].next = <<"clause", b>>
      BY <1>3, <1>5, ChoicePointFacts
    <2>3. k \in DOMAIN d.c
      <3>1. d.c \in Seq(ChoicePoints)
        BY DatabaseFacts
      <3>2. DOMAIN d.c = 1 .. Len(d.c)
        BY <3>1
      <3>. QED BY <1>2, <3>2
    <2>. HIDE DEF b
    <2>4. b \in Blocks \cap Marked(d)
      BY <2>1, <2>2, <2>3 DEF Marked
    <2>5. r.b[b].code # Free /\ r.b[b].id = d.b[b].id
      BY <2>1, <2>4 DEF Carries
    <2>. QED BY <2>1, <2>5 DEF b
  <1>6. ASSUME NEW k \in Of(d.c, q), ~ d.c[k].astray
        PROVE  Goes(r, w2, r.c[k])
    <2>1. Goes(d, w, d.c[k])
      BY <1>0, <1>6 DEF Sound
    <2>2. r.c[k].ran \subseteq In(w2) /\ r.c[k].todo \subseteq In(w2) /\ ~ InBlock(r.c[k])
      BY <1>3, <1>4, <2>1 DEF Goes
    <2>3. r.c[k].next[1] = "clause" => r.c[k].next[2] \in Blocks /\ r.b[r.c[k].next[2]].code # Free
      BY <1>3, <1>5, <1>6
    <2>4. r.c[k].next[1] # "fail" => \A a \in r.c[k].ran : r.b[a].id < r.b[Place(r, r.c[k])].id
      <3>. SUFFICES ASSUME r.c[k].next[1] # "fail", NEW a \in r.c[k].ran
                    PROVE  r.b[a].id < r.b[Place(r, r.c[k])].id
        OBVIOUS
      <3>1. d.c[k].next[1] = "clause" /\ a \in d.c[k].ran /\ a \notin gone
        BY <1>3, ChoicePointFacts
      <3>2. Place(r, r.c[k]) = d.c[k].next[2] /\ Place(d, d.c[k]) = d.c[k].next[2]
        BY <1>3 DEF Place
      <3>3. a \in In(w) /\ d.b[a].id < d.b[d.c[k].next[2]].id
        BY <2>1, <3>1, <3>2 DEF Goes
      <3>4. r.b[d.c[k].next[2]].id = d.b[d.c[k].next[2]].id
        BY <1>5, <1>6, <3>1
      <3>. QED BY <1>4, <3>1, <3>2, <3>3, <3>4
    <2>. QED BY <2>2, <2>3, <2>4 DEF Goes
  <1>7. ASSUME NEW j \in Of(d.c, q), NEW k \in Of(d.c, q), j < k, ~ d.c[j].astray
        PROVE  k = j + 1 /\ Pair(r, r.c[j], r.c[k])
    <2>1. k = j + 1 /\ Pair(d, d.c[j], d.c[k])
      BY <1>0, <1>7 DEF Sound
    <2>2. d.c[j].next = <<"fail">> /\ d.c[k].next[1] = "clause"
      BY <1>3, <2>1 DEF Pair, InBlock
    <2>3. r.c[j].todo = r.c[k].todo /\ r.c[j].ran = r.c[k].ran
      BY <1>3, <2>1 DEF Pair
    <2>. QED BY <1>3, <2>1, <2>2, <2>3 DEF Pair
  <1>8. ASSUME NEW k \in Of(d.c, q), ~ d.c[k].astray, NEW a \in r.c[k].todo
        PROVE  \E j \in Of(d.c, q) : a \in Ahead(r, w2, r.c[j])
    <2>1. a \in d.c[k].todo /\ a \notin gone
      BY <1>3
    <2>2. PICK j \in Of(d.c, q) : a \in Ahead(d, w, d.c[j])
      BY <1>0, <1>8, <2>1 DEF Sound
    <2>3. ~ d.c[j].astray
      BY <1>0, <1>8 DEF Sound
    <2>4. d.c[j].next[1] = "clause" /\ a \in From(d, w, d.c[j].next[2])
      <3>1. d.c[j].next[1] = "clause" \/ d.c[j].next[1] = "fail"
        BY <1>3, ChoicePointFacts
      <3>2. d.c[j].next[1] # "fail"
        BY <2>2 DEF Ahead
      <3>. QED BY <2>2, <3>1, <3>2 DEF Ahead
    <2>5. a \in In(w) /\ d.b[d.c[j].next[2]].id <= d.b[a].id
      BY <2>4 DEF From
    <2>6. a \in In(w2) /\ r.b[a].id = d.b[a].id /\ r.b[d.c[j].next[2]].id = d.b[d.c[j].next[2]].id
      BY <1>4, <1>5, <2>1, <2>3, <2>4, <2>5
    <2>7. a \in From(r, w2, d.c[j].next[2])
      BY <2>5, <2>6 DEF From
    <2>8. a \in Ahead(r, w2, r.c[j])
      BY <1>3, <2>4, <2>7 DEF Ahead
    <2>. QED BY <2>8
  <1>9. \A j, k \in Of(d.c, q) : d.c[j].astray => d.c[k].astray
    BY <1>0 DEF Sound
  <1>. QED BY <1>2, <1>3, <1>6, <1>7, <1>8, <1>9 DEF Sound

LEMMA WalkedEdit ==
  ASSUME NEW d \in Databases, NEW w, Links(d, w), Walked(d, w, walk), walk.next \in Blocks \cup {None},
         NEW r, NEW gone, Carries(d, r, gone), NEW w2, Stays(d, r, w, w2, gone),
         NEW wk, wk.next = walk.next, wk.id = walk.id, wk.todo = walk.todo \ gone
  PROVE  Walked(r, w2, wk)
  <1>1. wk.next = None => wk.todo = {}
    BY DEF Walked
  <1>2. wk.todo \subseteq Later(r, w2, wk.id)
    BY DEF Walked, Later, Stays
  <1>3. ASSUME wk.next # None, IsPrologInteger(wk.id)
        PROVE  r.b[wk.next].code # Free /\ r.b[wk.next].id = wk.id
    <2>1. d.b[walk.next].code # Free /\ d.b[walk.next].id = walk.id
      BY <1>3 DEF Walked
    <2>2. walk.next \in Blocks \cap Marked(d)
      BY <1>3, <2>1 DEF Marked, ReferenceGood
    <2>. QED BY <2>1, <2>2 DEF Carries
  <1>. QED BY <1>1, <1>2, <1>3 DEF Walked

LEMMA EditStep ==
  ASSUME TypeOK, NEW d \in Databases, NEW w, Chained(d, w), Awaited(d, w, d.c), Walked(d, w, walk),
         Outside(d), Len(d.c) <= MaxChoice,
         NEW r, NEW gone, Carries(d, r, gone), NEW w2, Chained(r, w2), Stays(d, r, w, w2, gone),
         Becomes(r), walk' \in Enumerations,
         walk'.next = walk.next, walk'.id = walk.id, walk'.todo = walk.todo \ gone
  PROVE  IInv'
  <1>1. r \in Databases /\ Len(r.c) = Len(d.c)
    BY DEF Carries
  <1>2. /\ TypeOK' /\ db' \in Databases
        /\ db'.p = r.p /\ db'.b = r.b /\ db'.c = cps' /\ Len(cps') = Len(r.c)
        /\ \A k \in 1 .. Len(r.c) :
             /\ cps'[k].call = r.c[k].call /\ cps'[k].next = r.c[k].next
             /\ cps'[k].astray = r.c[k].astray
             /\ cps'[k].todo = r.c[k].todo /\ cps'[k].ran = r.c[k].ran
             /\ InBlock(r.c[k]) => cps'[k] = r.c[k]
    <2>1. Len(r.c) <= MaxChoice
      BY <1>1
    <2>. QED BY <1>1, <2>1, BecomesIs
  <1>. DEFINE e == db'
              wk == walk'
  <1>3. Carries(d, e, gone)
    BY SMTT(30), <1>1, <1>2 DEF Carries
  <1>4. Stays(d, e, w, w2, gone)
    BY <1>2 DEF Stays
  <1>5. Chained(e, w2)
    <2>1. SameChain(r, e, w2)
      BY <1>2 DEF SameChain, SameProcedure
    <2>. QED BY <1>1, <2>1, ChainKept
  <1>6. Links(d, w) /\ walk.next \in Blocks \cup {None}
    BY StateTyped DEF Chained
  <1>. HIDE DEF e, wk
  <1>7. Awaited(e, w2, e.c)
    BY <1>3, <1>4, <1>6, AwaitedEdit
  <1>8. Walked(e, w2, wk)
    <2>1. wk.next = walk.next /\ wk.id = walk.id /\ wk.todo = walk.todo \ gone
      BY DEF wk
    <2>. QED BY <1>3, <1>4, <1>6, <2>1, WalkedEdit
  <1>9. Chain(e) = w2
    <2>1. e \in Databases /\ Links(e, w2)
      BY <1>3, <1>5 DEF Carries, Chained
    <2>. QED BY <2>1, ChainIs
  <1>10. /\ TypeOK' /\ Chained(db', Chain(db')) /\ Awaited(db', Chain(db'), cps')
         /\ Walked(db', Chain(db'), walk')
    BY <1>2, <1>5, <1>7, <1>8, <1>9 DEF e, wk
  <1>. QED BY <1>10 DEF IInv

Inv(w) == TypeOK /\ Chained(db, w) /\ Awaited(db, w, cps) /\ Walked(db, w, walk)

(* What every edit begins with *)
Nuke(d, w) ==
  /\ d \in Databases /\ Chained(d, w) /\ Awaited(d, w, d.c) /\ Walked(d, w, walk)
  /\ Outside(d) /\ Len(d.c) <= MaxChoice /\ d.p.usage # "switch" /\ Alike(db, d)

LEMMA WalkedAlike ==
  ASSUME NEW d, NEW r, NEW w, NEW wk, Alike(d, r), In(w) \subseteq Blocks, wk.next \in Blocks \cup {None},
         Walked(d, w, wk)
  PROVE  Walked(r, w, wk)
  <1>1. \A b \in Blocks : r.b[b].id = d.b[b].id /\ (r.b[b].code = Free <=> d.b[b].code = Free)
    BY DEF Alike
  <1>2. Later(r, w, wk.id) = Later(d, w, wk.id)
    BY <1>1 DEF Later
  <1>. QED BY <1>1, <1>2 DEF Walked

LEMMA NukeState ==
  ASSUME NEW w, Inv(w)
  PROVE  Nuke(NukeIndexing(db), w)
  <1>. DEFINE d == NukeIndexing(db)
  <1>0. /\ db \in Databases /\ db.c = cps /\ walk.next \in Blocks \cup {None} /\ Len(cps) <= MaxChoice
        /\ Chained(db, w) /\ Awaited(db, w, db.c) /\ Walked(db, w, walk)
    BY StateTyped DEF Inv
  <1>1. Nuked(db, d, w)
    BY <1>0, NukeIndexingIs
  <1>. HIDE DEF d
  <1>2. /\ d \in Databases /\ Chained(d, w) /\ d.p.usage # "switch" /\ Alike(db, d)
        /\ Len(d.c) = Len(db.c) /\ Awaited(d, w, d.c) /\ Outside(d)
    BY <1>1 DEF Nuked, Outside
  <1>3. Walked(d, w, walk)
    <2>1. In(w) \subseteq Blocks
      BY <1>0, LinksFacts DEF Chained
    <2>. QED BY <1>0, <1>2, <2>1, WalkedAlike
  <1>4. Nuke(d, w)
    BY <1>0, <1>2, <1>3 DEF Nuke
  <1>. QED BY <1>4 DEF d

(***************************************************************************)
(* Every edit keeps the invariant.                                         *)
(***************************************************************************)
(* r is as far as d was, without the clauses in gone. *)
Edited(d, r, w, w2, gone) ==
  Chained(r, w2) /\ Carries(d, r, gone) /\ Stays(d, r, w, w2, gone)

LEMMA StillMarked ==
  ASSUME NEW d \in Databases, NEW r, NEW gone, Carries(d, r, gone), NEW b \in Blocks, b \in Marked(d)
  PROVE  b \in Marked(r)
  <1>1. d.c \in Seq(ChoicePoints) /\ r.c \in Seq(ChoicePoints) /\ Len(r.c) = Len(d.c)
    BY DatabaseFacts DEF Carries
  <1>2. DOMAIN d.c = 1 .. Len(d.c) /\ DOMAIN r.c = 1 .. Len(d.c)
    BY <1>1
  <1>3. \A k \in 1 .. Len(d.c) : r.c[k].next = d.c[k].next
    BY DEF Carries
  <1>4. d.b[b].code # Free => r.b[b].code # Free /\ r.b[b].id = d.b[b].id
    BY DEF Carries
  <1>. QED BY <1>2, <1>3, <1>4, MarkedOn

LEMMA EditedOn ==
  ASSUME NEW d \in Databases, NEW r, NEW w, NEW w2, NEW gone, Edited(d, r, w, w2, gone),
         NEW s, SameChain(r, s, w2), Carries(r, s, {})
  PROVE  Edited(d, s, w, w2, gone)
  <1>1. Chained(s, w2)
    <2>1. r \in Databases /\ Chained(r, w2)
      BY DEF Edited, Carries
    <2>. QED BY <2>1, ChainKept
  <1>2. Carries(d, s, gone)
    <2>1. /\ Len(r.c) = Len(d.c) /\ Len(s.c) = Len(r.c) /\ s \in Databases
          /\ \A k \in 1 .. Len(d.c) :
               /\ r.c[k].call = d.c[k].call /\ r.c[k].next = d.c[k].next /\ r.c[k].astray = d.c[k].astray
               /\ r.c[k].todo = d.c[k].todo \ gone /\ r.c[k].ran = d.c[k].ran \ gone
          /\ \A k \in 1 .. Len(r.c) :
               /\ s.c[k].call = r.c[k].call /\ s.c[k].next = r.c[k].next /\ s.c[k].astray = r.c[k].astray
               /\ s.c[k].todo = r.c[k].todo \ {} /\ s.c[k].ran = r.c[k].ran \ {}
      BY DEF Edited, Carries
    <2>2. \A b \in Blocks \cap Marked(d) :
            d.b[b].code # Free => s.b[b].code # Free /\ s.b[b].id = d.b[b].id
      <3>. SUFFICES ASSUME NEW b \in Blocks, b \in Marked(d), d.b[b].code # Free
                    PROVE  s.b[b].code # Free /\ s.b[b].id = d.b[b].id
        OBVIOUS
      <3>1. b \in Marked(r)
        BY StillMarked DEF Edited
      <3>2. r.b[b].code # Free /\ r.b[b].id = d.b[b].id
        BY DEF Edited, Carries
      <3>. QED BY <3>1, <3>2 DEF Carries
    <2>3. \A k \in 1 .. Len(d.c) :
            /\ s.c[k].call = d.c[k].call /\ s.c[k].next = d.c[k].next /\ s.c[k].astray = d.c[k].astray
            /\ s.c[k].todo = d.c[k].todo \ gone /\ s.c[k].ran = d.c[k].ran \ gone
      BY <2>1
    <2>. QED BY <2>1, <2>2, <2>3 DEF Carries
  <1>3. Stays(d, s, w, w2, gone)
    <2>1. \A b \in In(w) \ gone : b \in In(w2) /\ r.b[b].id = d.b[b].id
      BY DEF Edited, Stays
    <2>2. \A b \in In(w2) : s.b[b] = r.b[b]
      BY DEF SameChain
    <2>. QED BY <2>1, <2>2 DEF Stays
  <1>. QED BY <1>1, <1>2, <1>3 DEF Edited

LEMMA EditedCollected ==
  ASSUME NEW d \in Databases, NEW r, NEW w, NEW w2, NEW gone, Edited(d, r, w, w2, gone)
  PROVE  Edited(d, Collected(r), w, w2, gone)
  <1>1. r \in Databases /\ Links(r, w2) /\ Coded(r, w2)
    BY DEF Edited, Carries, Chained
  <1>2. SameChain(r, Collected(r), w2) /\ Carries(r, Collected(r), {})
    BY <1>1, CollectedChain
  <1>. QED BY <1>2, EditedOn

LEMMA EditedCounting ==
  ASSUME NEW d \in Databases, NEW r, NEW w, NEW w2, NEW gone, Edited(d, r, w, w2, gone)
  PROVE  Edited(d, SetICount(r), w, w2, gone)
  <1>1. r \in Databases
    BY DEF Edited, Carries
  <1>. DEFINE s == SetICount(r)
  <1>2. s \in Databases /\ SameProcedure(r, s) /\ s.b = r.b /\ s.c = r.c
    BY <1>1, SetICountIs
  <1>. HIDE DEF s
  <1>3. SameChain(r, s, w2)
    BY <1>2 DEF SameChain
  <1>4. Carries(r, s, {})
    BY <1>2 DEF Carries
  <1>5. Edited(d, s, w, w2, gone)
    BY <1>3, <1>4, EditedOn
  <1>. QED BY <1>5 DEF s

Forgets(d, r, gone) ==
  /\ r \in Databases /\ r.p = d.p /\ r.b = d.b /\ Len(r.c) = Len(d.c)
  /\ \A k \in 1 .. Len(d.c) :
       /\ r.c[k].call = d.c[k].call /\ r.c[k].next = d.c[k].next /\ r.c[k].astray = d.c[k].astray
       /\ r.c[k].todo = d.c[k].todo \ gone /\ r.c[k].ran = d.c[k].ran \ gone

LEMMA ForgetIs ==
  ASSUME NEW d \in Databases, NEW gone
  PROVE  Forgets(d, Forget(d, gone), gone)
  <1>. DEFINE n == Len(d.c)
              y(k) == [d.c[k] EXCEPT !.todo = @ \ gone, !.ran = @ \ gone]
              f == [k \in 1 .. n |-> y(k)]
              r == Forget(d, gone)
  <1>1. d.c \in Seq(ChoicePoints) /\ n \in Nat /\ DOMAIN d.c = 1 .. n /\ \A k \in 1 .. n : d.c[k] \in ChoicePoints
    BY DatabaseFacts
  <1>2. r = [d EXCEPT !.c = f]
    BY <1>1 DEF Forget
  <1>3. \A k \in 1 .. n :
          /\ y(k) \in ChoicePoints /\ y(k).call = d.c[k].call /\ y(k).next = d.c[k].next
          /\ y(k).astray = d.c[k].astray /\ y(k).todo = d.c[k].todo \ gone /\ y(k).ran = d.c[k].ran \ gone
    BY <1>1 DEF ChoicePoints
  <1>. HIDE DEF y
  <1>4. \A k \in 1 .. n : f[k] = y(k)
    OBVIOUS
  <1>5. f \in [1 .. n -> ChoicePoints]
    BY <1>3
  <1>6. f \in Seq(ChoicePoints) /\ Len(f) = n
    <2>. HIDE DEF n, f
    <2>. QED BY <1>1, <1>5
  <1>. HIDE DEF f
  <1>7. r \in Databases /\ r.p = d.p /\ r.b = d.b /\ r.c = f
    BY <1>2, <1>6 DEF Databases
  <1>. HIDE DEF r
  <1>8. Forgets(d, r, gone)
    BY <1>3, <1>4, <1>6, <1>7 DEF Forgets
  <1>. QED BY <1>8 DEF r

(* The clauses in places i to j of w go. *)
LEMMA RemovedEdits ==
  ASSUME NEW d \in Databases, NEW w, Chained(d, w), d.p.usage # "switch",
         NEW i, i \in 1 .. Len(w), NEW j, j \in i .. Len(w),
         NEW r, Shrinks(d, r, w, i, j), r.c = d.c,
         \A b \in Blocks \cap Marked(d) :
           d.b[b].code # Free => r.b[b].code # Free /\ r.b[b].id = d.b[b].id
  PROVE  Edited(d, Forget(r, Between(w, i, j)), w, Without(w, i, j), Between(w, i, j))
  <1>. DEFINE gone == Between(w, i, j)
              w2 == Without(w, i, j)
              s == Forget(r, gone)
  <1>1. r \in Databases
    BY DEF Shrinks
  <1>2. Forgets(r, s, gone)
    BY <1>1, ForgetIs
  <1>3. Chained(r, w2)
    BY ChainRemove
  <1>4. Reduced(w, w2, i, j)
    <2>1. w \in Seq(Blocks)
      BY LinksFacts DEF Chained
    <2>. QED BY <2>1, WithoutIs
  <1>5. Len(w) \in Nat
    BY LinksFacts DEF Chained
  <1>. HIDE DEF w2, s
  <1>6. Chained(s, w2)
    <2>1. SameChain(r, s, w2)
      BY <1>2 DEF SameChain, Forgets, SameProcedure
    <2>. QED BY <1>1, <1>3, <2>1, ChainKept
  <1>7. ASSUME NEW b \in In(w) \ gone
        PROVE  b \in In(w2) /\ s.b[b].id = d.b[b].id
    <2>1. PICK k \in 1 .. Len(w) : b = w[k]
      BY DEF In
    <2>2. k \notin i .. j
      BY <1>7, <2>1 DEF Between
    <2>3. k < i \/ j < k
      BY <1>5, <2>2
    <2>4. r.b[b].id = d.b[b].id
      BY <2>1, <2>3 DEF Shrinks
    <2>5. b \in In(w2)
      BY <1>4, <2>1, <2>3 DEF Reduced
    <2>6. s.b = r.b
      BY <1>2 DEF Forgets
    <2>. QED BY <2>4, <2>5, <2>6
  <1>8. Carries(d, s, gone)
    BY <1>2 DEF Forgets, Carries
  <1>9. Edited(d, s, w, w2, gone)
    BY <1>6, <1>7, <1>8 DEF Edited, Stays
  <1>. QED BY <1>9 DEF w2, s

LEMMA EditedStep ==
  ASSUME NEW w, Inv(w), NEW d, d = NukeIndexing(db),
         NEW r, NEW gone, NEW w2, Edited(d, r, w, w2, gone), Becomes(r),
         walk' = [walk EXCEPT !.todo = @ \ gone]
  PROVE  IInv'
  <1>1. Nuke(d, w)
    BY NukeState
  <1>2. walk \in Enumerations /\ TypeOK
    BY DEF Inv, TypeOK
  <1>3. /\ walk' \in Enumerations
        /\ walk'.next = walk.next /\ walk'.id = walk.id /\ walk'.todo = walk.todo \ gone
    BY <1>2 DEF Enumerations
  <1>4. Carries(d, r, gone) /\ Chained(r, w2) /\ Stays(d, r, w, w2, gone)
    BY DEF Edited
  <1>5. /\ d \in Databases /\ Chained(d, w) /\ Awaited(d, w, d.c) /\ Walked(d, w, walk)
        /\ Outside(d) /\ Len(d.c) <= MaxChoice
    BY <1>1 DEF Nuke
  <1>. QED BY <1>2, <1>3, <1>4, <1>5, EditStep

(* The walk stays as it is where no clause goes. *)
LEMMA WalkStays ==
  ASSUME TypeOK, UNCHANGED walk
  PROVE  walk' = [walk EXCEPT !.todo = @ \ {}]
  <1>1. walk \in [next: Blocks \cup {None}, id: Int, todo: SUBSET Blocks]
    BY DEF TypeOK, Enumerations
  <1>2. walk.todo \ {} = walk.todo
    OBVIOUS
  <1>. QED BY <1>1, <1>2

LEMMA AddClauseStep ==
  ASSUME NEW w, Inv(w), NEW cg \in Files \cup {Asserta, Assertz}, NEW key \in Keys, AddClause(cg, key)
  PROVE  IInv'
  <1>. DEFINE d == NukeIndexing(db)
              free == {b \in Blocks : block[b].code = Free}
              n == Min(free)
              added == Added(d, n, cg, key)
              r == SetICount(added)
  <1>1. Nuke(d, w)
    BY NukeState
  <1>2. /\ free # {} /\ added.b[n].id \in cg * IdSpan - MaxId .. cg * IdSpan + MaxId
        /\ added.p.hi - added.p.lo <= MaxId /\ Becomes(r) /\ UNCHANGED walk
    BY DEF AddClause
  <1>3. n \in Blocks /\ block[n].code = Free
    <2>1. free \subseteq Nat
      BY DEF Blocks
    <2>2. n \in free
      BY <1>2, <2>1, MinOf
    <2>. QED BY <2>2
  <1>4. d = NukeIndexing(db) /\ r = SetICount(Added(d, n, cg, key)) /\ Counted(Added(d, n, cg, key), n, cg)
    BY <1>2 DEF Counted
  <1>. HIDE DEF d, free, n, added, r
  <1>5. db.b = block
    BY StateTyped DEF Inv
  <1>6. d \in Databases /\ Chained(d, w) /\ d.p.usage # "switch" /\ d.b[n].code = Free
    BY <1>1, <1>3, <1>5 DEF Nuke, Alike
  <1>7. PICK w2 :
          /\ Chained(r, w2) /\ Stays(d, r, w, w2, {}) /\ r.p.usage # "switch" /\ r \in Databases /\ r.c = d.c
          /\ \A b \in Blocks : d.b[b].code # Free => r.b[b].code # Free /\ r.b[b].id = d.b[b].id
    BY <1>3, <1>4, <1>6, AddedGrows
  <1>8. Edited(d, r, w, w2, {})
    BY <1>7 DEF Edited, Carries
  <1>9. walk' = [walk EXCEPT !.todo = @ \ {}]
    BY <1>2, WalkStays DEF Inv
  <1>10. Becomes(r)
    BY <1>2
  <1>. QED BY <1>4, <1>8, <1>9, <1>10, EditedStep

Erases(d, r, w, i) ==
  /\ Shrinks(d, r, w, i, i) /\ r.c = d.c
  /\ \A b \in Blocks : r.b[b].id = d.b[b].id /\ (d.b[b].code # Free => r.b[b].code # Free)

LEMMA ErasedAt ==
  ASSUME NEW d \in Databases, NEW w, Links(d, w), Coded(d, w), d.p.usage # "switch",
         NEW i, i \in 1 .. Len(w)
  PROVE  Erases(d, ErasedFrom(d, w[i]), w, i)
  <1>1. ASSUME NEW r, r = ErasedFrom(d, w[i]) PROVE Erases(d, r, w, i)
    <2>1. /\ Shrinks(d, r, w, i, i) /\ r.c = d.c
          /\ \A b \in Blocks : r.b[b].id = d.b[b].id /\ (d.b[b].code # Free => r.b[b].code # Free)
      BY <1>1, ErasedIs
    <2>. QED BY <2>1 DEF Erases
  <1>. QED BY <1>1

LEMMA ErasedEdits ==
  ASSUME NEW d \in Databases, NEW w, Chained(d, w), d.p.usage # "switch", NEW a \in In(w)
  PROVE  \E w2 : Edited(d, Forget(ErasedFrom(d, a), {a}), w, w2, {a})
  <1>1. Links(d, w) /\ Coded(d, w) /\ Len(w) \in Nat
    BY LinksFacts DEF Chained
  <1>2. PICK i : i \in 1 .. Len(w) /\ a = w[i]
    BY DEF In
  <1>. DEFINE f == ErasedFrom(d, a)
              w2 == Without(w, i, i)
  <1>3. Erases(d, f, w, i)
    BY <1>1, <1>2, ErasedAt
  <1>. HIDE DEF f
  <1>4. Between(w, i, i) = {a} /\ i \in i .. Len(w)
    <2>1. i .. i = {i}
      BY <1>2
    <2>2. i \in i .. Len(w)
      BY <1>1, <1>2
    <2>. QED BY <1>2, <2>1, <2>2 DEF Between
  <1>5. \A b \in Blocks \cap Marked(d) :
          d.b[b].code # Free => f.b[b].code # Free /\ f.b[b].id = d.b[b].id
    BY <1>3 DEF Erases
  <1>6. Shrinks(d, f, w, i, i) /\ f.c = d.c
    BY <1>3 DEF Erases
  <1>7. Edited(d, Forget(f, Between(w, i, i)), w, w2, Between(w, i, i))
    BY <1>2, <1>4, <1>5, <1>6, RemovedEdits
  <1>. HIDE DEF w2
  <1>8. Edited(d, Forget(f, {a}), w, w2, {a})
    BY <1>4, <1>7
  <1>. QED BY <1>8 DEF f

LEMMA EraseStep ==
  ASSUME NEW w, Inv(w), NEW a \in Blocks, Erase(a)
  PROVE  IInv'
  <1>. DEFINE d == NukeIndexing(db)
              s == Forget(ErasedFrom(d, a), {a})
  <1>1. Nuke(d, w)
    BY NukeState
  <1>2. PICK collect \in BOOLEAN : Becomes(SetICount(IF collect THEN Collected(s) ELSE s))
    BY DEF Erase, ErasedFrom
  <1>3. a \in ToSet(Chain(db)) /\ walk' = [walk EXCEPT !.todo = @ \ {a}]
    BY DEF Erase
  <1>4. a \in In(w)
    <2>1. db \in Databases /\ Links(db, w)
      BY StateTyped DEF Inv, Chained
    <2>. QED BY <1>3, <2>1, ChainSet
  <1>5. d = NukeIndexing(db) /\ s = Forget(ErasedFrom(d, a), {a})
    OBVIOUS
  <1>. HIDE DEF d, s
  <1>6. d \in Databases /\ Chained(d, w) /\ d.p.usage # "switch"
    BY <1>1 DEF Nuke
  <1>7. PICK w2 : Edited(d, s, w, w2, {a})
    BY <1>4, <1>5, <1>6, ErasedEdits
  <1>10. Edited(d, Collected(s), w, w2, {a})
    BY <1>6, <1>7, EditedCollected
  <1>. DEFINE x == IF collect THEN Collected(s) ELSE s
  <1>11. Edited(d, x, w, w2, {a}) /\ Becomes(SetICount(x))
    BY <1>2, <1>7, <1>10
  <1>. HIDE DEF x
  <1>12. Edited(d, SetICount(x), w, w2, {a})
    BY <1>6, <1>11, EditedCounting
  <1>. QED BY <1>3, <1>5, <1>11, <1>12, EditedStep

LEMMA NukeStep ==
  ASSUME NEW w, Inv(w), Becomes(NukeIndexing(db)), walk' = [walk EXCEPT !.todo = @ \ {}]
  PROVE  IInv'
  <1>. DEFINE d == NukeIndexing(db)
  <1>1. Nuke(d, w)
    BY NukeState
  <1>2. d = NukeIndexing(db)
    OBVIOUS
  <1>. HIDE DEF d
  <1>3. Edited(d, d, w, w, {})
    BY <1>1 DEF Nuke, Edited, Carries, Stays
  <1>. QED BY <1>2, <1>3, EditedStep

LEMMA EraseAgainStep ==
  ASSUME NEW w, Inv(w), NEW a \in Blocks, EraseAgain(a)
  PROVE  IInv'
  <1>1. Becomes(NukeIndexing(db)) /\ UNCHANGED walk
    BY DEF EraseAgain
  <1>. QED BY <1>1, WalkStays, NukeStep DEF Inv

LEMMA AbolishStep ==
  ASSUME NEW w, Inv(w), NEW gone, IsInterval(w, gone), Abolish(gone)
  PROVE  IInv'
  <1>. DEFINE d == NukeIndexing(db)
  <1>1. Nuke(d, w)
    BY NukeState
  <1>2. PICK collect \in 0 .. Cardinality(gone) : Becomes(AbolishGroup(db, gone, collect))
    BY DEF Abolish
  <1>3. walk' = [walk EXCEPT !.todo = @ \ gone]
    BY DEF Abolish
  <1>4. CASE gone = {}
    <2>1. AbolishGroup(db, gone, collect) = NukeIndexing(db)
      BY <1>4 DEF AbolishGroup
    <2>. QED BY <1>2, <1>3, <1>4, <2>1, NukeStep
  <1>5. CASE gone # {}
    <2>1. PICK i \in 1 .. Len(w) : \E j \in i .. Len(w) : gone = Between(w, i, j)
      BY <1>5 DEF IsInterval
    <2>2. PICK j \in i .. Len(w) : gone = Between(w, i, j)
      BY <2>1
    <2>. DEFINE r == Abolished(d, Between(w, i, j), collect)
                s == Forget(r, Between(w, i, j))
    <2>3. AbolishGroup(db, gone, collect) = s /\ d = NukeIndexing(db)
      BY <1>5, <2>2 DEF AbolishGroup
    <2>4. r = Abolished(d, Between(w, i, j), collect) /\ s = Forget(r, Between(w, i, j))
      OBVIOUS
    <2>. HIDE DEF d, r, s
    <2>5. d \in Databases /\ Chained(d, w) /\ Links(d, w) /\ Coded(d, w) /\ d.p.usage # "switch"
      BY <1>1 DEF Nuke, Chained
    <2>6. /\ Shrinks(d, r, w, i, j) /\ r.c = d.c
          /\ \A b \in Blocks \cap Marked(d) :
               d.b[b].code # Free => r.b[b].code # Free /\ r.b[b].id = d.b[b].id
      BY <2>1, <2>2, <2>4, <2>5, AbolishedIs
    <2>7. Edited(d, s, w, Without(w, i, j), Between(w, i, j))
      BY <2>1, <2>2, <2>4, <2>5, <2>6, RemovedEdits
    <2>. QED BY <1>2, <1>3, <2>2, <2>3, <2>7, EditedStep
  <1>. QED BY <1>4, <1>5

LEMMA AbolishAnyStep ==
  ASSUME NEW w, Inv(w), AbolishAny
  PROVE  IInv'
  <1>1. db \in Databases /\ Links(db, w)
    BY StateTyped DEF Inv, Chained
  <1>2. CASE Abolish(ToSet(Chain(db)))
    <2>1. IsInterval(w, ToSet(Chain(db)))
      BY <1>1, ChainSet, WholeChain
    <2>. QED BY <1>2, <2>1, AbolishStep
  <1>3. ASSUME NEW cg \in Files, Abolish(InGroup(db, cg)) PROVE IInv'
    <2>1. IsInterval(w, InGroup(db, cg))
      BY <1>1, GroupIsInterval
    <2>. QED BY <1>3, <2>1, AbolishStep
  <1>. QED BY <1>2, <1>3 DEF AbolishAny

(***************************************************************************)
(* Two databases with the same index                                       *)
(***************************************************************************)
SameIndex(d, r) ==
  r.p.index = d.p.index /\ \A i \in DOMAIN d.p.index : KeyAt(r, i) = KeyAt(d, i)

LEMMA IndexFacts ==
  ASSUME NEW d \in Databases
  PROVE  /\ Len(d.p.index) \in Nat /\ DOMAIN d.p.index = 1 .. Len(d.p.index)
         /\ \A i \in DOMAIN d.p.index : d.p.index[i] \in Blocks
  <1>1. d.p.index \in Seq(Blocks)
    BY DatabaseFacts DEF Procedures
  <1>. QED BY <1>1

LEMMA IndexSame ==
  ASSUME NEW d \in Databases, NEW r, SameIndex(d, r)
  PROVE  /\ \A key : Nodes(r, key) = Nodes(d, key)
         /\ \A i \in DOMAIN d.p.index : \A key : Matches(r, i, key) = Matches(d, i, key)
         /\ \A i \in DOMAIN d.p.index : Node(r, i) = Node(d, i)
  <1>. DEFINE D == DOMAIN d.p.index
  <1>1. DOMAIN r.p.index = D /\ \A i \in D : KeyAt(r, i) = KeyAt(d, i)
    BY DEF SameIndex
  <1>2. Len(d.p.index) \in Nat /\ D = 1 .. Len(d.p.index)
    BY IndexFacts
  <1>3. \A i \in D : i = 1 \/ i - 1 \in D
    BY <1>2
  <1>4. \A i, j \in D : \A k \in i .. j : k \in D
    BY <1>2
  <1>5. ASSUME NEW key PROVE Nodes(r, key) = Nodes(d, key)
    BY <1>1, <1>3 DEF Nodes
  <1>6. ASSUME NEW i \in D PROVE Node(r, i) = Node(d, i)
    BY <1>1, <1>4 DEF Node
  <1>7. \A i \in D : Node(d, i) \subseteq D
    BY DEF Node
  <1>8. ASSUME NEW i \in D, NEW key PROVE Matches(r, i, key) = Matches(d, i, key)
    <2>1. IsTable(r, i) <=> IsTable(d, i)
      BY <1>6 DEF IsTable
    <2>2. {j \in Node(r, i) : KeyAt(r, j) = key} = {j \in Node(d, i) : KeyAt(d, j) = key}
      BY <1>1, <1>6, <1>7
    <2>. QED BY <2>1, <2>2 DEF Matches
  <1>. QED BY <1>5, <1>6, <1>8

AsBefore(cp, new) ==
  /\ new.call = cp.call /\ new.next = cp.next /\ new.astray = cp.astray
  /\ new.todo = cp.todo /\ new.ran = cp.ran
  /\ InBlock(cp) => new.key = cp.key

LEMMA PendingSame ==
  ASSUME NEW d \in Databases, NEW r, SameIndex(d, r), NEW w, Links(d, w), Coded(d, w),
         NEW cp \in ChoicePoints, InBlock(cp), InIndex(d, w, cp), NEW new, AsBefore(cp, new)
  PROVE  Pending(r, new) = Pending(d, cp)
  <1>. DEFINE i == cp.next[2]
  <1>1. /\ new.next = cp.next /\ new.key = cp.key /\ r.p.index = d.p.index
        /\ i \in DOMAIN d.p.index /\ cp.next[1] # "clause"
    <2>1. DOMAIN w = 1 .. Len(w) /\ d.p.index = w
      BY LinksFacts DEF Coded, InIndex
    <2>2. new.next = cp.next /\ new.key = cp.key /\ r.p.index = d.p.index
      BY DEF AsBefore, SameIndex
    <2>3. i \in DOMAIN d.p.index
      BY <2>1 DEF InIndex
    <2>4. cp.next[1] # "clause"
      BY ChoicePointFacts
    <2>. QED BY <2>2, <2>3, <2>4
  <1>2. \A key : Nodes(r, key) = Nodes(d, key) /\ Nodes(d, key) \subseteq DOMAIN d.p.index
    <2>1. \A key : Nodes(r, key) = Nodes(d, key)
      BY IndexSame
    <2>2. \A key : Nodes(d, key) \subseteq DOMAIN d.p.index
      BY DEF Nodes
    <2>. QED BY <2>1, <2>2
  <1>3. \A j \in DOMAIN d.p.index : \A key : Matches(r, j, key) = Matches(d, j, key)
    BY IndexSame
  <1>4. ASSUME cp.next[1] = "top"
        PROVE  UNION {Matches(r, j, new.key) : j \in {k \in Nodes(r, new.key) : k >= i}}
                 = UNION {Matches(d, j, cp.key) : j \in {k \in Nodes(d, cp.key) : k >= i}}
    <2>. DEFINE X == {k \in Nodes(d, cp.key) : k >= i}
    <2>1. {k \in Nodes(r, new.key) : k >= i} = X
      BY <1>1, <1>2
    <2>2. \A j \in X : Matches(r, j, new.key) = Matches(d, j, cp.key)
      BY <1>1, <1>2, <1>3
    <2>. HIDE DEF X
    <2>3. {Matches(r, j, new.key) : j \in X} = {Matches(d, j, cp.key) : j \in X}
      BY <2>2
    <2>. QED BY <2>1, <2>3 DEF X
  <1>5. Matches(r, i, new.key) = Matches(d, i, cp.key)
    BY <1>1, <1>3
  <1>. DEFINE at == CASE cp.next[1] = "top" ->
                           UNION {Matches(d, j, cp.key) : j \in {k \in Nodes(d, cp.key) : k >= i}}
                      [] cp.next[1] = "bottom" -> Matches(d, i, cp.key)
                      [] OTHER -> {}
              at2 == CASE new.next[1] = "top" ->
                           UNION {Matches(r, j, new.key) : j \in {k \in Nodes(r, new.key) : k >= new.next[2]}}
                      [] new.next[1] = "bottom" -> Matches(r, new.next[2], new.key)
                      [] OTHER -> {}
  <1>6. new.next[1] = cp.next[1] /\ new.next[2] = i
    BY <1>1
  <1>7. cp.next[1] = "top" \/ cp.next[1] = "bottom"
    BY ChoicePointFacts
  <1>8. at2 = at
    <2>1. CASE cp.next[1] = "top"
      BY <1>4, <1>6, <2>1
    <2>2. CASE cp.next[1] = "bottom"
      BY <1>5, <1>6, <2>2
    <2>. QED BY <1>7, <2>1, <2>2
  <1>9. Pending(r, new) = {r.p.index[j] : j \in at2}
    BY <1>1, <1>6 DEF Pending
  <1>10. Pending(d, cp) = {d.p.index[j] : j \in at}
    BY <1>1 DEF Pending
  <1>. HIDE DEF at, at2
  <1>. QED BY <1>1, <1>8, <1>9, <1>10

LEMMA IndexKept ==
  ASSUME NEW d \in Databases, NEW r, SameIndex(d, r), r.p.usage = d.p.usage,
         NEW w, Links(d, w), Coded(d, w),
         NEW cp \in ChoicePoints, InBlock(cp), InIndex(d, w, cp), NEW new, AsBefore(cp, new)
  PROVE  InIndex(r, w, new) /\ Place(r, new) = Place(d, cp) /\ InBlock(new)
  <1>. DEFINE i == cp.next[2]
  <1>1. /\ new.next = cp.next /\ new.key = cp.key /\ r.p.index = d.p.index /\ d.p.index = w
        /\ i \in DOMAIN d.p.index
    <2>1. DOMAIN w = 1 .. Len(w) /\ d.p.index = w
      BY LinksFacts DEF Coded, InIndex
    <2>. QED BY <2>1 DEF AsBefore, SameIndex, InIndex
  <1>2. Nodes(r, cp.key) = Nodes(d, cp.key) /\ Matches(r, i, cp.key) = Matches(d, i, cp.key)
    BY <1>1, IndexSame
  <1>3. InIndex(r, w, new)
    BY <1>1, <1>2 DEF InIndex
  <1>. QED BY <1>1, <1>3 DEF Place, InBlock

LEMMA PairEnds ==
  ASSUME NEW d, NEW older, NEW newer, Pair(d, older, newer)
  PROVE  older.next # <<"fail">> \/ newer.next[1] = "clause"
  BY DEF Pair

LEMMA SoundKept ==
  ASSUME NEW d \in Databases, NEW w, Links(d, w), Coded(d, w),
         NEW c \in Seq(ChoicePoints), NEW q, Sound(d, w, c, q),
         NEW r, SameIndex(d, r), r.p.usage = d.p.usage,
         NEW c2, Of(c2, q) = Of(c, q), \A k \in Of(c, q) : AsBefore(c[k], c2[k]),
         \A x \in In(w) : r.b[x].id = d.b[x].id,
         \A k \in Of(c, q) : c[k].next[1] = "clause" /\ d.b[c[k].next[2]].code # Free =>
           r.b[c[k].next[2]].code # Free /\ r.b[c[k].next[2]].id = d.b[c[k].next[2]].id
  PROVE  Sound(r, w, c2, q)
  <1>1. \A k \in Of(c, q) : c[k] \in ChoicePoints /\ k \in 1 .. Len(c)
    BY SMTT(30) DEF Of
  <1>2. \A k \in Of(c, q) :
          /\ c2[k].next = c[k].next /\ c2[k].astray = c[k].astray
          /\ c2[k].todo = c[k].todo /\ c2[k].ran = c[k].ran
          /\ InBlock(c2[k]) <=> InBlock(c[k])
          /\ InBlock(c[k]) => c2[k].key = c[k].key
    BY DEF AsBefore, InBlock
  <1>3. ASSUME NEW k \in Of(c, q), ~ c[k].astray
        PROVE  /\ Goes(r, w, c2[k]) /\ Ahead(r, w, c2[k]) = Ahead(d, w, c[k])
    <2>1. Goes(d, w, c[k])
      BY <1>3 DEF Sound
    <2>2. CASE InBlock(c[k])
      <3>1. InIndex(d, w, c[k])
        BY <2>1, <2>2 DEF Goes
      <3>2. InIndex(r, w, c2[k]) /\ Place(r, c2[k]) = Place(d, c[k]) /\ Pending(r, c2[k]) = Pending(d, c[k])
        <4>1. c[k] \in ChoicePoints /\ AsBefore(c[k], c2[k])
          BY <1>1
        <4>2. InIndex(r, w, c2[k]) /\ Place(r, c2[k]) = Place(d, c[k])
          BY <2>2, <3>1, <4>1, IndexKept
        <4>3. Pending(r, c2[k]) = Pending(d, c[k])
          BY <2>2, <3>1, <4>1, PendingSame
        <4>. QED BY <4>2, <4>3
      <3>3. Place(d, c[k]) \in In(w) /\ c[k].next[1] # "fail" /\ c[k].next[1] # "clause"
        BY <1>1, <2>2, <3>1, NextInChainIs, ChoicePointFacts
      <3>4. Ahead(r, w, c2[k]) = Ahead(d, w, c[k])
        BY <1>2, <3>2, <3>3 DEF Ahead
      <3>5. \A a \in c[k].ran : a \in In(w) /\ d.b[a].id < d.b[Place(d, c[k])].id
        BY <2>1, <3>3 DEF Goes
      <3>6. \A a \in c2[k].ran : r.b[a].id < r.b[Place(r, c2[k])].id
        BY <1>2, <3>2, <3>3, <3>5
      <3>7. Goes(r, w, c2[k])
        BY <1>2, <2>1, <3>2, <3>3, <3>6 DEF Goes
      <3>. QED BY <3>4, <3>7
    <2>3. CASE c[k].next[1] = "clause"
      <3>1. c[k].next[2] \in Blocks /\ d.b[c[k].next[2]].code # Free
        BY <2>1, <2>3 DEF Goes
      <3>2. r.b[c[k].next[2]].code # Free /\ r.b[c[k].next[2]].id = d.b[c[k].next[2]].id
        BY <2>3, <3>1
      <3>3. Ahead(r, w, c2[k]) = Ahead(d, w, c[k])
        <4>1. From(r, w, c[k].next[2]) = From(d, w, c[k].next[2])
          BY <3>2 DEF From
        <4>. QED BY <1>2, <2>3, <4>1 DEF Ahead
      <3>4. ~ InBlock(c[k]) /\ ~ InBlock(c2[k]) /\ Place(d, c[k]) = c[k].next[2] /\ Place(r, c2[k]) = c[k].next[2]
        BY <1>2, <2>3 DEF InBlock, Place
      <3>5. \A a \in c[k].ran : a \in In(w) /\ d.b[a].id < d.b[c[k].next[2]].id
        BY <2>1, <2>3, <3>4 DEF Goes
      <3>6. \A a \in c2[k].ran : r.b[a].id < r.b[Place(r, c2[k])].id
        BY <1>2, <3>2, <3>4, <3>5
      <3>7. Goes(r, w, c2[k])
        BY <1>2, <2>1, <3>1, <3>2, <3>4, <3>6 DEF Goes
      <3>. QED BY <3>3, <3>7
    <2>4. CASE c[k].next[1] = "fail"
      <3>1. ~ InBlock(c[k]) /\ ~ InBlock(c2[k]) /\ c2[k].next[1] = "fail"
        BY <1>2, <2>4 DEF InBlock
      <3>. QED BY <1>2, <2>1, <2>4, <3>1 DEF Goes, Ahead
    <2>. QED BY <1>1, <2>2, <2>3, <2>4, ChoicePointFacts
  <1>4. ASSUME NEW j \in Of(c, q), NEW k \in Of(c, q), j < k, ~ c[j].astray
        PROVE  k = j + 1 /\ Pair(r, c2[j], c2[k])
    <2>1. k = j + 1 /\ Pair(d, c[j], c[k])
      BY <1>4 DEF Sound
    <2>2. c2[j].next = c[j].next /\ c2[k].next = c[k].next /\ c2[j].todo = c2[k].todo /\ c2[j].ran = c2[k].ran
      BY <1>2, <2>1 DEF Pair
    <2>3. CASE c[j].next = <<"fail">> /\ c[k].next[1] = "clause"
      BY <2>1, <2>2, <2>3 DEF Pair
    <2>4. CASE c[j].next # <<"fail">>
      <3>1. /\ c[j].next[1] = "top" /\ c[k].next[1] = "bottom" /\ c[j].key = c[k].key
            /\ c[k].next[2] < c[j].next[2] /\ \A i \in Matches(d, c[k].next[2], c[k].key) : i < c[j].next[2]
        BY <2>1, <2>4 DEF Pair
      <3>2. InBlock(c[j]) /\ InBlock(c[k])
        BY <3>1 DEF InBlock
      <3>3. c2[j].key = c[j].key /\ c2[k].key = c[k].key
        BY <1>2, <3>2
      <3>4. Matches(r, c[k].next[2], c[k].key) = Matches(d, c[k].next[2], c[k].key)
        <4>1. ~ c[k].astray
          BY <3>2 DEF Sound
        <4>2. InIndex(d, w, c[k])
          BY <3>2, <4>1 DEF Sound, Goes
        <4>3. c[k].next[2] \in DOMAIN d.p.index
          <5>1. c[k].next[2] \in 1 .. Len(w) /\ d.p.usage = "switch"
            BY <4>2 DEF InIndex
          <5>2. d.p.index = w
            BY <5>1 DEF Coded
          <5>3. DOMAIN w = 1 .. Len(w)
            BY LinksFacts
          <5>. QED BY <5>1, <5>2, <5>3
        <4>4. \A i \in DOMAIN d.p.index : \A key : Matches(r, i, key) = Matches(d, i, key)
          BY IndexSame
        <4>. QED BY <4>3, <4>4
      <3>. QED BY <2>1, <2>2, <3>1, <3>3, <3>4 DEF Pair
    <2>5. c[j].next # <<"fail">> \/ c[k].next[1] = "clause"
      BY <2>1, PairEnds
    <2>. QED BY <2>3, <2>4, <2>5
  <1>5. ASSUME NEW k \in Of(c, q), ~ c[k].astray, NEW a \in c[k].todo
        PROVE  \E j \in Of(c, q) : a \in Ahead(r, w, c2[j])
    <2>1. PICK j \in Of(c, q) : a \in Ahead(d, w, c[j])
      BY <1>5 DEF Sound
    <2>2. ~ c[j].astray
      BY <1>5 DEF Sound
    <2>. QED BY <1>3, <2>1, <2>2
  <1>6. \A j, k \in Of(c, q) : c[j].astray => c[k].astray
    BY DEF Sound
  <1>7. \A k \in Of(c, q) : c[k].astray => ~ InBlock(c[k])
    BY DEF Sound
  <1>. QED BY <1>2, <1>3, <1>4, <1>5, <1>6, <1>7 DEF Sound

(***************************************************************************)
(* The choice points of one call change, those of the others stay.         *)
(***************************************************************************)
(* Of the choice points of other calls nothing changes. *)
Leaves(c, c2, q) ==
  \A p : p # q => Of(c2, p) = Of(c, p) /\ \A k \in Of(c, p) : c2[k] = c[k]

LEMMA LeavesItself ==
  ASSUME NEW c, NEW q
  PROVE  Leaves(c, c, q)
  BY DEF Leaves

LEMMA LeavesOn ==
  ASSUME NEW c, NEW c2, NEW c3, NEW q, Leaves(c, c2, q), Leaves(c2, c3, q)
  PROVE  Leaves(c, c3, q)
  BY DEF Leaves

(* One more choice point *)
Pushes(c, r, x) ==
  /\ r \in Seq(ChoicePoints) /\ Len(r) = Len(c) + 1 /\ r[Len(c) + 1] = x /\ Len(c) \in Nat
  /\ \A k \in 1 .. Len(c) : r[k] = c[k]
  /\ Of(r, x.call) = Of(c, x.call) \cup {Len(c) + 1}
  /\ Leaves(c, r, x.call)

LEMMA PushIs ==
  ASSUME NEW c \in Seq(ChoicePoints), NEW x \in ChoicePoints
  PROVE  Pushes(c, Append(c, x), x)
  <1>. DEFINE r == Append(c, x)
              n == Len(c)
  <1>1. r \in Seq(ChoicePoints) /\ Len(r) = n + 1 /\ n \in Nat /\ r[n + 1] = x /\ \A k \in 1 .. n : r[k] = c[k]
    BY AppendProperties, LenProperties
  <1>2. 1 .. n + 1 = (1 .. n) \cup {n + 1} /\ n + 1 \notin 1 .. n
    BY <1>1
  <1>. HIDE DEF r
  <1>3. \A k \in 1 .. n + 1 : r[k] = IF k = n + 1 THEN x ELSE c[k]
    BY <1>1, <1>2
  <1>4. \A p : p # x.call => Of(r, p) = Of(c, p)
    BY <1>1, <1>2, <1>3 DEF Of
  <1>5. \A p : \A k \in Of(c, p) : r[k] = c[k]
    BY <1>1 DEF Of
  <1>6. Of(r, x.call) = Of(c, x.call) \cup {n + 1}
    BY <1>1, <1>2, <1>3 DEF Of
  <1>7. Leaves(c, r, x.call)
    BY <1>4, <1>5 DEF Leaves
  <1>8. Pushes(c, r, x)
    BY <1>1, <1>6, <1>7 DEF Pushes
  <1>. QED BY <1>8 DEF r

(* The newest choice point goes. *)
Pops(c, r, n, q) ==
  /\ r \in Seq(ChoicePoints) /\ Len(r) = n - 1 /\ n \in Nat /\ n \in 1 .. n /\ c[n] \in ChoicePoints
  /\ \A k \in 1 .. n - 1 : r[k] = c[k]
  /\ Of(r, q) = Of(c, q) \ {n} /\ n \in Of(c, q)
  /\ Leaves(c, r, q)

LEMMA PopIs ==
  ASSUME NEW c \in Seq(ChoicePoints), NEW n, n = Len(c), n > 0, NEW q, q = c[n].call
  PROVE  Pops(c, Front(c), n, q)
  <1>. DEFINE r == Front(c)
  <1>0. n \in Nat /\ \A k \in 1 .. n : c[k] \in ChoicePoints
    BY LenProperties, ElementOfSeq
  <1>1. r \in Seq(ChoicePoints) /\ Len(r) = n - 1 /\ \A k \in 1 .. n - 1 : r[k] = c[k]
    <2>1. r = [k \in 1 .. n - 1 |-> c[k]]
      BY DEF Front
    <2>2. n - 1 \in Nat
      BY <1>0
    <2>3. \A k \in 1 .. n - 1 : k \in 1 .. n
      BY <1>0
    <2>4. r \in [1 .. n - 1 -> ChoicePoints]
      BY <1>0, <2>1, <2>3
    <2>. DEFINE m == n - 1
    <2>. HIDE DEF m, r
    <2>5. r \in [1 .. m -> ChoicePoints] /\ m \in Nat /\ r = [k \in 1 .. m |-> c[k]]
      BY <2>1, <2>2, <2>4 DEF m
    <2>6. r \in Seq(ChoicePoints) /\ Len(r) = m /\ \A k \in 1 .. m : r[k] = c[k]
      BY <2>5
    <2>. QED BY <2>6 DEF m
  <1>2. n \in 1 .. n /\ 1 .. n = (1 .. n - 1) \cup {n} /\ n \notin 1 .. n - 1
    BY <1>0
  <1>. HIDE DEF r
  <1>3. n \in Of(c, q) /\ c[n] \in ChoicePoints
    BY <1>0, <1>2 DEF Of
  <1>4. \A p : Of(r, p) = Of(c, p) \ {n}
    BY <1>1, <1>2 DEF Of
  <1>5. \A p : p # q => n \notin Of(c, p)
    BY DEF Of
  <1>6. \A p : \A k \in Of(c, p) : k # n => r[k] = c[k]
    BY <1>1, <1>2 DEF Of
  <1>7. Leaves(c, r, q)
    BY <1>4, <1>5, <1>6 DEF Leaves
  <1>8. Pops(c, r, n, q)
    BY <1>0, <1>1, <1>2, <1>3, <1>4, <1>7 DEF Pops
  <1>. QED BY <1>8 DEF r

(* The newest choice point goes on to somewhere else. *)
Turns(c, r, n, q, next) ==
  /\ r \in Seq(ChoicePoints) /\ Len(r) = n /\ n \in Nat /\ n \in 1 .. n /\ c[n] \in ChoicePoints
  /\ r[n] = [c[n] EXCEPT !.next = next] /\ r[n] \in ChoicePoints
  /\ \A k \in 1 .. n : k # n => r[k] = c[k]
  /\ Of(r, q) = Of(c, q) /\ n \in Of(c, q)
  /\ Leaves(c, r, q)

LEMMA TurnIs ==
  ASSUME NEW c \in Seq(ChoicePoints), NEW n, n = Len(c), n > 0, NEW q, q = c[n].call, NEW next \in Goals
  PROVE  Turns(c, [c EXCEPT ![n].next = next], n, q, next)
  <1>. DEFINE x == [c[n] EXCEPT !.next = next]
              r == [c EXCEPT ![n] = x]
  <1>0. n \in Nat /\ DOMAIN c = 1 .. n /\ n \in 1 .. n /\ \A k \in 1 .. n : c[k] \in ChoicePoints
    BY LenProperties, ElementOfSeq
  <1>1. x \in ChoicePoints /\ x.call = c[n].call
    BY <1>0, NextReplaced
  <1>2. r = [c EXCEPT ![n].next = next]
    OBVIOUS
  <1>3. r \in Seq(ChoicePoints) /\ Len(r) = n /\ r[n] = x /\ \A k \in 1 .. n : k # n => r[k] = c[k]
    BY <1>0, <1>1, ExceptSeq
  <1>4. x = [c[n] EXCEPT !.next = next]
    OBVIOUS
  <1>. HIDE DEF r, x
  <1>5. \A k \in 1 .. n : r[k].call = c[k].call
    BY <1>1, <1>3
  <1>6. \A p : Of(r, p) = Of(c, p)
    BY <1>3, <1>5 DEF Of
  <1>7. n \in Of(c, q) /\ \A p : p # q => n \notin Of(c, p)
    BY <1>0 DEF Of
  <1>8. Leaves(c, r, q)
    <2>1. \A p : \A k \in Of(c, p) : k \in 1 .. n
      BY DEF Of
    <2>. QED BY <1>3, <1>6, <1>7, <2>1 DEF Leaves
  <1>9. Turns(c, r, n, q, next)
    BY <1>0, <1>1, <1>3, <1>4, <1>6, <1>7, <1>8 DEF Turns
  <1>. QED BY <1>2, <1>9

(* Call q is followed no further. *)
Loses(c, r, q) ==
  /\ r \in Seq(ChoicePoints) /\ Len(r) = Len(c) /\ Of(r, q) = Of(c, q) /\ Leaves(c, r, q)
  /\ \A k \in 1 .. Len(c) : r[k].call = c[k].call /\ r[k].next = c[k].next
  /\ \A k \in Of(c, q) : r[k].astray

LEMMA LostIs ==
  ASSUME NEW c \in Seq(ChoicePoints), NEW q
  PROVE  Loses(c, Lost(c, q), q)
  <1>. DEFINE y(k) == IF c[k].call = q THEN [c[k] EXCEPT !.astray = TRUE] ELSE c[k]
              n == Len(c)
              r == Lost(c, q)
  <1>0. n \in Nat /\ DOMAIN c = 1 .. n /\ \A k \in 1 .. n : c[k] \in ChoicePoints
    OBVIOUS
  <1>1. r = [k \in 1 .. n |-> y(k)]
    BY <1>0 DEF Lost
  <1>2. \A k \in 1 .. n :
          /\ y(k) \in ChoicePoints /\ y(k).call = c[k].call /\ y(k).next = c[k].next
          /\ c[k].call = q => y(k).astray = TRUE
          /\ c[k].call # q => y(k) = c[k]
    BY <1>0 DEF ChoicePoints
  <1>. HIDE DEF y, r
  <1>3. \A k \in 1 .. n : r[k] = y(k)
    BY <1>1
  <1>4. r \in [1 .. n -> ChoicePoints]
    BY <1>1, <1>2
  <1>5. r \in Seq(ChoicePoints) /\ Len(r) = n
    <2>. HIDE DEF n
    <2>. QED BY <1>0, <1>1, <1>4
  <1>6. \A p : Of(r, p) = Of(c, p)
    BY <1>2, <1>3, <1>5 DEF Of
  <1>7. \A p : \A k \in Of(c, p) : k \in 1 .. n /\ c[k].call = p
    BY DEF Of
  <1>8. Leaves(c, r, q)
    BY <1>2, <1>3, <1>6, <1>7 DEF Leaves
  <1>9. Loses(c, r, q)
    BY <1>2, <1>3, <1>5, <1>6, <1>7, <1>8 DEF Loses
  <1>. QED BY <1>9 DEF r

Having(cp, b) == [cp EXCEPT !.todo = @ \ {b}, !.ran = @ \cup ({b} \ {None})]

LEMMA HavingIs ==
  ASSUME NEW cp \in ChoicePoints, NEW b \in Blocks \cup {None}
  PROVE  /\ Having(cp, b) \in ChoicePoints
         /\ Having(cp, b).next = cp.next /\ Having(cp, b).call = cp.call /\ Having(cp, b).key = cp.key
         /\ Having(cp, b).astray = cp.astray /\ Having(cp, b).todo = cp.todo \ {b}
         /\ Having(cp, b).ran = cp.ran \cup ({b} \ {None})
  <1>1. {b} \ {None} \subseteq Blocks
    OBVIOUS
  <1>. QED BY <1>1 DEF Having, ChoicePoints

(* Clause b runs. *)
Runs(c, r, q, b) ==
  /\ r \in Seq(ChoicePoints) /\ Len(r) = Len(c) /\ Of(r, q) = Of(c, q) /\ Leaves(c, r, q)
  /\ \A k \in Of(c, q) : c[k] \in ChoicePoints /\ r[k] = Having(c[k], b)

LEMMA RanIs ==
  ASSUME NEW c \in Seq(ChoicePoints), NEW q, NEW b \in Blocks \cup {None}
  PROVE  Runs(c, Ran(c, q, b), q, b)
  <1>. DEFINE y(k) == IF c[k].call = q THEN Having(c[k], b) ELSE c[k]
              n == Len(c)
              r == Ran(c, q, b)
  <1>0. n \in Nat /\ DOMAIN c = 1 .. n /\ \A k \in 1 .. n : c[k] \in ChoicePoints
    OBVIOUS
  <1>1. r = [k \in 1 .. n |-> y(k)]
    BY <1>0 DEF Ran, Having
  <1>2. \A k \in 1 .. n :
          /\ y(k) \in ChoicePoints /\ y(k).call = c[k].call
          /\ c[k].call = q => y(k) = Having(c[k], b)
          /\ c[k].call # q => y(k) = c[k]
    BY <1>0, HavingIs
  <1>. HIDE DEF y, r
  <1>3. \A k \in 1 .. n : r[k] = y(k)
    BY <1>1
  <1>4. r \in [1 .. n -> ChoicePoints]
    BY <1>1, <1>2
  <1>5. r \in Seq(ChoicePoints) /\ Len(r) = n
    <2>. HIDE DEF n
    <2>. QED BY <1>0, <1>1, <1>4
  <1>6. \A p : Of(r, p) = Of(c, p)
    BY <1>2, <1>3, <1>5 DEF Of
  <1>7. \A p : \A k \in Of(c, p) : k \in 1 .. n /\ c[k].call = p
    BY DEF Of
  <1>8. Leaves(c, r, q)
    BY <1>2, <1>3, <1>6, <1>7 DEF Leaves
  <1>9. Runs(c, r, q, b)
    BY <1>0, <1>2, <1>3, <1>5, <1>6, <1>7, <1>8 DEF Runs
  <1>. QED BY <1>9 DEF r

LEMMA HavingAhead ==
  ASSUME NEW d, NEW w, NEW cp \in ChoicePoints, NEW b \in Blocks \cup {None}
  PROVE  Ahead(d, w, Having(cp, b)) = Ahead(d, w, cp)
  <1>1. Having(cp, b).next = cp.next /\ Having(cp, b).key = cp.key
    BY HavingIs
  <1>2. Pending(d, Having(cp, b)) = Pending(d, cp)
    BY <1>1 DEF Pending
  <1>. QED BY <1>1, <1>2 DEF Ahead

LEMMA SoundNone ==
  ASSUME NEW d, NEW w, NEW c \in Seq(ChoicePoints), NEW q, NEW b \in Blocks \cup {None}, Of(c, q) = {}
  PROVE  Sound(d, w, Ran(c, q, b), q)
  <1>1. Of(Ran(c, q, b), q) = {}
    BY RanIs DEF Runs
  <1>. QED BY <1>1 DEF Sound

LEMMA SoundAstray ==
  ASSUME NEW d, NEW w, NEW c \in Seq(ChoicePoints), NEW q, NEW b \in Blocks \cup {None},
         \A k \in Of(c, q) : c[k].astray /\ ~ InBlock(c[k])
  PROVE  Sound(d, w, Ran(c, q, b), q)
  <1>. DEFINE r == Ran(c, q, b)
  <1>1. Runs(c, r, q, b)
    BY RanIs
  <1>. HIDE DEF r
  <1>2. Of(r, q) = Of(c, q) /\ \A k \in Of(c, q) : r[k].next = c[k].next /\ r[k].astray = c[k].astray
    BY <1>1, HavingIs DEF Runs
  <1>3. \A k \in Of(r, q) : r[k].astray /\ ~ InBlock(r[k])
    BY <1>2 DEF InBlock
  <1>4. Sound(d, w, r, q)
    BY <1>3 DEF Sound
  <1>. QED BY <1>4 DEF r

LEMMA SoundAlone ==
  ASSUME NEW d, NEW w, NEW c \in Seq(ChoicePoints), NEW q, NEW b \in Blocks \cup {None},
         NEW k, Of(c, q) = {k}, ~ c[k].astray, Goes(d, w, Having(c[k], b)),
         c[k].todo \ {b} \subseteq Ahead(d, w, c[k])
  PROVE  Sound(d, w, Ran(c, q, b), q)
  <1>. DEFINE r == Ran(c, q, b)
  <1>1. Runs(c, r, q, b)
    BY RanIs
  <1>. HIDE DEF r
  <1>2. Of(r, q) = {k} /\ r[k] = Having(c[k], b) /\ c[k] \in ChoicePoints
    BY <1>1 DEF Runs
  <1>3. ~ r[k].astray /\ r[k].todo = c[k].todo \ {b} /\ Ahead(d, w, r[k]) = Ahead(d, w, c[k])
    BY <1>2, HavingIs, HavingAhead
  <1>4. \A j, h \in Of(r, q) : ~ (j < h) \/ (j = k /\ h = k /\ k < k)
    BY <1>2
  <1>5. k \in Int
    <2>1. k \in Of(c, q)
      OBVIOUS
    <2>. QED BY <2>1 DEF Of
  <1>6. \A j, h \in Of(r, q) : ~ (j < h)
    BY <1>4, <1>5
  <1>7. Goes(d, w, r[k])
    BY <1>2
  <1>8. Sound(d, w, r, q)
    BY <1>2, <1>3, <1>6, <1>7 DEF Sound
  <1>. QED BY <1>8 DEF r

LEMMA SoundTwo ==
  ASSUME NEW d, NEW w, NEW c \in Seq(ChoicePoints), NEW q, NEW b \in Blocks \cup {None},
         NEW m, NEW n, n = m + 1, Of(c, q) = {m, n}, ~ c[m].astray, ~ c[n].astray,
         Goes(d, w, Having(c[m], b)), Goes(d, w, Having(c[n], b)), Pair(d, c[m], c[n]),
         c[n].todo \ {b} \subseteq Ahead(d, w, c[m]) \cup Ahead(d, w, c[n])
  PROVE  Sound(d, w, Ran(c, q, b), q)
  <1>. DEFINE r == Ran(c, q, b)
  <1>1. Runs(c, r, q, b)
    BY RanIs
  <1>. HIDE DEF r
  <1>2. /\ Of(r, q) = {m, n} /\ r[m] = Having(c[m], b) /\ r[n] = Having(c[n], b)
        /\ c[m] \in ChoicePoints /\ c[n] \in ChoicePoints
    BY <1>1 DEF Runs
  <1>3. /\ ~ r[m].astray /\ ~ r[n].astray /\ r[m].todo = c[m].todo \ {b} /\ r[n].todo = c[n].todo \ {b}
        /\ r[m].ran = c[m].ran \cup ({b} \ {None}) /\ r[n].ran = c[n].ran \cup ({b} \ {None})
        /\ r[m].next = c[m].next /\ r[n].next = c[n].next /\ r[m].key = c[m].key /\ r[n].key = c[n].key
        /\ Ahead(d, w, r[m]) = Ahead(d, w, c[m]) /\ Ahead(d, w, r[n]) = Ahead(d, w, c[n])
    BY <1>2, HavingIs, HavingAhead
  <1>4. m \in Int /\ n \in Int
    <2>1. m \in Of(c, q) /\ n \in Of(c, q)
      OBVIOUS
    <2>. QED BY <2>1 DEF Of
  <1>5. \A j, h \in Of(r, q) : j < h => j = m /\ h = n
    BY <1>2, <1>4
  <1>6. c[m].todo = c[n].todo /\ c[m].ran = c[n].ran
    BY DEF Pair
  <1>7. Pair(d, r[m], r[n])
    BY <1>3 DEF Pair
  <1>8. Goes(d, w, r[m]) /\ Goes(d, w, r[n])
    BY <1>2
  <1>9. \A k \in Of(r, q) : ~ r[k].astray /\ Goes(d, w, r[k])
    BY <1>2, <1>3, <1>8
  <1>10. \A k \in Of(r, q) : \A a \in r[k].todo : \E j \in Of(r, q) : a \in Ahead(d, w, r[j])
    <2>1. \A k \in Of(r, q) : r[k].todo = c[n].todo \ {b}
      BY <1>2, <1>3, <1>6
    <2>2. \A a \in c[n].todo \ {b} : a \in Ahead(d, w, r[m]) \/ a \in Ahead(d, w, r[n])
      BY <1>3
    <2>. QED BY <1>2, <2>1, <2>2
  <1>11. \A k \in Of(r, q) : InBlock(r[k]) => ~ r[k].astray
    BY <1>9
  <1>12. Sound(d, w, r, q)
    BY <1>5, <1>7, <1>9, <1>10, <1>11 DEF Sound
  <1>. QED BY <1>12 DEF r

(***************************************************************************)
(* The blocks change and the clauses stay, or a clause runs.               *)
(***************************************************************************)
(* Whatever is not free in d and named by a choice point in c or by the    *)
(* enumeration, if its id is an integer, is not free in r.                 *)
Keeps(d, r, c) ==
  /\ \A k \in 1 .. Len(c) : c[k].next[1] = "clause" /\ d.b[c[k].next[2]].code # Free =>
       r.b[c[k].next[2]].code # Free /\ r.b[c[k].next[2]].id = d.b[c[k].next[2]].id
  /\ ReferenceGood(d) /\ IsPrologInteger(walk.id) => ReferenceGood(r)

LEMMA KeptStep ==
  ASSUME TypeOK, NEW w, NEW d \in Databases, Chained(d, w), Walked(d, w, walk),
         NEW c \in Seq(ChoicePoints), Awaited(d, w, c), Len(c) <= MaxChoice,
         NEW r, SameChain(d, r, w), r.c = c, Keeps(d, r, c), Becomes(r), UNCHANGED walk
  PROVE  IInv'
  <1>0. /\ r \in Databases /\ SameProcedure(d, r) /\ \A b \in In(w) : r.b[b] = d.b[b]
        /\ Links(d, w) /\ Coded(d, w) /\ In(w) \subseteq Blocks
    BY LinksFacts DEF SameChain, Chained
  <1>1. Chained(r, w)
    BY ChainKept
  <1>2. /\ TypeOK' /\ db' \in Databases
        /\ db'.p = r.p /\ db'.b = r.b /\ db'.c = cps' /\ Len(cps') = Len(r.c)
        /\ \A k \in 1 .. Len(r.c) :
              /\ cps'[k].call = r.c[k].call /\ cps'[k].next = r.c[k].next
              /\ cps'[k].astray = r.c[k].astray
              /\ cps'[k].todo = r.c[k].todo /\ cps'[k].ran = r.c[k].ran
              /\ InBlock(r.c[k]) => cps'[k] = r.c[k]
    <2>1. walk' \in Enumerations /\ Len(r.c) <= MaxChoice
      BY DEF TypeOK
    <2>. QED BY <1>0, <2>1, BecomesIs
  <1>. DEFINE e == db'
              c2 == cps'
              wk == walk'
  <1>3. /\ e \in Databases /\ e.p = r.p /\ e.b = r.b /\ e.c = c2 /\ wk = walk /\ Len(c2) = Len(c)
        /\ \A k \in 1 .. Len(c) : /\ AsBefore(c[k], c2[k])
    BY <1>2 DEF AsBefore
  <1>. HIDE DEF e, c2, wk
  <1>4. Chained(e, w)
    <2>1. SameChain(r, e, w)
      BY <1>3 DEF SameChain, SameProcedure
    <2>. QED BY <1>0, <1>1, <2>1, ChainKept
  <1>5. SameIndex(d, e) /\ e.p.usage = d.p.usage
    <2>1. d.p.index = w \/ d.p.index = << >>
      BY <1>0 DEF Coded
    <2>2. \A i \in DOMAIN d.p.index : d.p.index[i] \in In(w)
      <3>1. DOMAIN w = 1 .. Len(w) /\ \A i \in 1 .. Len(w) : w[i] \in In(w)
        BY <1>0, LinksFacts
      <3>. QED BY <2>1, <3>1
    <2>3. e.p.index = d.p.index /\ e.p.usage = d.p.usage
      BY <1>0, <1>3 DEF SameProcedure
    <2>. QED BY <1>0, <1>3, <2>2, <2>3 DEF SameIndex, KeyAt
  <1>6. Awaited(e, w, c2)
    <2>. SUFFICES ASSUME NEW q \in 1 .. MaxChoice PROVE Sound(e, w, c2, q)
      BY DEF Awaited
    <2>1. Of(c2, q) = Of(c, q) /\ \A k \in Of(c, q) : k \in 1 .. Len(c) /\ AsBefore(c[k], c2[k])
      BY <1>3 DEF Of, AsBefore
    <2>2. Sound(d, w, c, q)
      BY DEF Awaited
    <2>3. \A x \in In(w) : e.b[x].id = d.b[x].id
      BY <1>0, <1>3
    <2>4. \A k \in Of(c, q) : c[k].next[1] = "clause" /\ d.b[c[k].next[2]].code # Free =>
            e.b[c[k].next[2]].code # Free /\ e.b[c[k].next[2]].id = d.b[c[k].next[2]].id
      BY <1>3, <2>1 DEF Keeps
    <2>. QED BY <1>0, <1>5, <2>1, <2>2, <2>3, <2>4, SoundKept
  <1>7. Walked(e, w, wk)
    <2>1. Later(e, w, walk.id) = Later(d, w, walk.id)
      BY <1>0, <1>3 DEF Later
    <2>2. ASSUME walk.next # None, IsPrologInteger(walk.id)
          PROVE  e.b[walk.next].code # Free /\ e.b[walk.next].id = walk.id
      <3>1. ReferenceGood(d)
        BY <2>2 DEF Walked, ReferenceGood
      <3>2. ReferenceGood(r)
        BY <2>2, <3>1 DEF Keeps
      <3>. QED BY <1>3, <3>2 DEF ReferenceGood
    <2>. QED BY <1>3, <2>1, <2>2 DEF Walked
  <1>8. Chain(e) = w
    BY <1>3, <1>4, ChainIs DEF Chained
  <1>9. TypeOK' /\ Chained(db', Chain(db')) /\ Awaited(db', Chain(db'), cps') /\ Walked(db', Chain(db'), walk')
    BY <1>2, <1>4, <1>6, <1>7, <1>8 DEF e, c2, wk
  <1>. QED BY <1>9 DEF IInv

LEMMA CollectOtherStep ==
  ASSUME NEW w, Inv(w), CollectOther
  PROVE  IInv'
  <1>. DEFINE d == db
              r == Collected(db)
  <1>0. /\ d \in Databases /\ d.c = cps /\ walk.next \in Blocks \cup {None} /\ Len(cps) <= MaxChoice /\ TypeOK
        /\ Chained(d, w) /\ Awaited(d, w, cps) /\ Walked(d, w, walk) /\ Links(d, w) /\ Coded(d, w)
    BY StateTyped DEF Inv, Chained
  <1>1. SameChain(d, r, w) /\ Carries(d, r, {})
    BY <1>0, CollectedChain
  <1>2. r.c = d.c
    BY <1>0, CollectedIs
  <1>3. Becomes(r) /\ UNCHANGED walk
    BY DEF CollectOther
  <1>. HIDE DEF d, r
  <1>4. d.c \in Seq(ChoicePoints) /\ DOMAIN d.c = 1 .. Len(d.c) /\ \A k \in 1 .. Len(d.c) : d.c[k] \in ChoicePoints
    BY <1>0, DatabaseFacts
  <1>5. Keeps(d, r, cps)
    <2>1. \A b \in Blocks \cap Marked(d) : d.b[b].code # Free => r.b[b].code # Free /\ r.b[b].id = d.b[b].id
      BY <1>1 DEF Carries
    <2>2. ASSUME NEW k \in 1 .. Len(cps), cps[k].next[1] = "clause"
          PROVE  cps[k].next[2] \in Blocks \cap Marked(d)
      <3>1. k \in DOMAIN d.c /\ d.c[k] \in ChoicePoints /\ d.c[k].next = cps[k].next
        BY <1>0, <1>4
      <3>2. d.c[k].next[2] \in Blocks /\ d.c[k].next = <<"clause", d.c[k].next[2]>>
        BY <2>2, <3>1, ChoicePointFacts
      <3>. QED BY <3>1, <3>2 DEF Marked
    <2>3. ASSUME ReferenceGood(d), IsPrologInteger(walk.id) PROVE ReferenceGood(r)
      <3>1. walk.next \in Blocks \cap Marked(d)
        BY <1>0, <2>3 DEF Marked, ReferenceGood
      <3>. QED BY <2>1, <2>3, <3>1 DEF ReferenceGood
    <2>. QED BY <2>1, <2>2, <2>3 DEF Keeps
  <1>. QED BY <1>0, <1>1, <1>2, <1>3, <1>4, <1>5, KeptStep

LEMMA RunStep ==
  ASSUME TypeOK, NEW w, NEW d \in Databases, Chained(d, w), Awaited(d, w, cps), Walked(d, w, walk),
         NEW c \in Seq(ChoicePoints), Len(c) <= MaxChoice, NEW q, NEW b \in Blocks \cup {None},
         Leaves(cps, c, q), q \in 1 .. MaxChoice => Sound(d, w, Ran(c, q, b), q),
         Becomes([d EXCEPT !.c = Ran(c, q, b)]), UNCHANGED walk
  PROVE  IInv'
  <1>. DEFINE e == Ran(c, q, b)
              s == [d EXCEPT !.c = e]
  <1>1. Runs(c, e, q, b)
    BY RanIs
  <1>2. q \in 1 .. MaxChoice => Sound(d, w, e, q)
    OBVIOUS
  <1>3. Becomes(s)
    OBVIOUS
  <1>. HIDE DEF e
  <1>4. e \in Seq(ChoicePoints) /\ Len(e) = Len(c) /\ Leaves(c, e, q)
    BY <1>1 DEF Runs
  <1>5. s \in Databases /\ s.p = d.p /\ s.b = d.b /\ s.c = e
    BY <1>4 DEF Databases
  <1>. HIDE DEF s
  <1>6. Leaves(cps, e, q)
    BY <1>4, LeavesOn
  <1>7. cps \in Seq(ChoicePoints) /\ Links(d, w) /\ Coded(d, w) /\ SameIndex(d, d)
    BY DEF TypeOK, Chained, SameIndex
  <1>8. ASSUME NEW p \in 1 .. MaxChoice PROVE Sound(d, w, e, p)
    <2>1. CASE p = q
      BY <1>2, <2>1
    <2>2. CASE p # q
      <3>1. Of(e, p) = Of(cps, p) /\ \A k \in Of(cps, p) : AsBefore(cps[k], e[k])
        BY <1>6, <2>2 DEF Leaves, AsBefore
      <3>2. Sound(d, w, cps, p)
        BY DEF Awaited
      <3>. QED BY <1>7, <3>1, <3>2, SoundKept
    <2>. QED BY <2>1, <2>2
  <1>9. Awaited(d, w, e)
    BY <1>8 DEF Awaited
  <1>10. SameChain(d, s, w)
    BY <1>5 DEF SameChain, SameProcedure
  <1>11. Keeps(d, s, e)
    BY <1>5 DEF Keeps, ReferenceGood
  <1>12. Len(e) <= MaxChoice
    BY <1>4
  <1>. QED BY <1>3, <1>4, <1>5, <1>9, <1>10, <1>11, <1>12, KeptStep

(***************************************************************************)
(* The index block: nodes and tables                                       *)
(***************************************************************************)
HasIndex(d, w, key) ==
  /\ d \in Databases /\ Chained(d, w) /\ d.p.usage = "switch" /\ key # "var" /\ key \in CallKeys

LEMMA HasIndexFacts ==
  ASSUME NEW d, NEW w, NEW key, HasIndex(d, w, key)
  PROVE  /\ d \in Databases /\ Links(d, w) /\ Coded(d, w) /\ d.p.index = w
         /\ DOMAIN d.p.index = 1 .. Len(w) /\ Len(w) \in Nat /\ Len(w) > 1
         /\ \A i \in 1 .. Len(w) : w[i] \in Blocks /\ w[i] \in In(w) /\ KeyAt(d, i) = d.b[w[i]].key
                                   /\ KeyAt(d, i) \in Keys /\ i \in Nat
         /\ Nodes(d, key) \subseteq 1 .. Len(w)
  <1>1. d \in Databases /\ Links(d, w) /\ Coded(d, w) /\ d.p.index = w
    BY DEF HasIndex, Chained, Coded
  <1>2. DOMAIN w = 1 .. Len(w) /\ Len(w) \in Nat /\ \A i \in 1 .. Len(w) : w[i] \in Blocks /\ w[i] \in In(w)
    BY <1>1, LinksFacts
  <1>3. \A i \in 1 .. Len(w) : KeyAt(d, i) = d.b[w[i]].key /\ KeyAt(d, i) \in Keys /\ i \in Nat
    BY <1>1, <1>2 DEF KeyAt, Databases, ClauseBlocks
  <1>4. Nodes(d, key) \subseteq 1 .. Len(w)
    BY <1>1, <1>2 DEF Nodes
  <1>5. Len(w) > 1
    <2>1. Len(w) # 0 /\ Len(w) # 1
      BY <1>1 DEF HasIndex, Coded
    <2>. QED BY <1>2, <2>1
  <1>. QED BY <1>1, <1>2, <1>3, <1>4, <1>5

AtOrAfter(d, w, key, i) ==
  {a \in In(w) : \E k \in Nodes(d, key) : k >= i /\ \E j \in Matches(d, k, key) : a = w[j]}

LEMMA TopAhead ==
  ASSUME NEW d, NEW w, NEW cp \in ChoicePoints, HasIndex(d, w, cp.key), cp.next[1] = "top"
  PROVE  Ahead(d, w, cp) = AtOrAfter(d, w, cp.key, cp.next[2])
  <1>. DEFINE i == cp.next[2]
              X == {k \in Nodes(d, cp.key) : k >= i}
              U == UNION {Matches(d, j, cp.key) : j \in X}
  <1>0. /\ d.p.index = w /\ Nodes(d, cp.key) \subseteq 1 .. Len(w) /\ Links(d, w) /\ d \in Databases
        /\ \A j \in 1 .. Len(w) : w[j] \in In(w)
    BY HasIndexFacts
  <1>1. Ahead(d, w, cp) = {w[j] : j \in U}
    BY <1>0 DEF Ahead, Pending
  <1>2. \A k \in X : \A j \in Matches(d, k, cp.key) : w[j] \in In(w)
    BY <1>0, MatchesAfter
  <1>3. \A a : a \in {w[j] : j \in U} <=> \E k \in X : \E j \in Matches(d, k, cp.key) : a = w[j]
    OBVIOUS
  <1>4. \A a : a \in AtOrAfter(d, w, cp.key, i) <=> \E k \in X : \E j \in Matches(d, k, cp.key) : a = w[j]
    BY <1>2 DEF AtOrAfter
  <1>. QED BY <1>1, <1>3, <1>4

LEMMA BottomAhead ==
  ASSUME NEW d, NEW w, NEW cp \in ChoicePoints, HasIndex(d, w, cp.key), cp.next[1] = "bottom"
  PROVE  \A a : a \in Ahead(d, w, cp) <=> \E j \in Matches(d, cp.next[2], cp.key) : a = w[j]
  <1>0. d.p.index = w
    BY HasIndexFacts
  <1>1. Ahead(d, w, cp) = {w[j] : j \in Matches(d, cp.next[2], cp.key)}
    BY <1>0 DEF Ahead, Pending
  <1>. QED BY <1>1

(* The clauses of a node come before the next node. *)
LEMMA NodesApart ==
  ASSUME NEW d, NEW w, NEW key, HasIndex(d, w, key),
         NEW i, i \in Nodes(d, key), NEW j, j \in Nodes(d, key), i < j, NEW m, m \in Matches(d, i, key)
  PROVE  m < j
  <1>0. /\ DOMAIN d.p.index = 1 .. Len(w) /\ Len(w) \in Nat /\ Nodes(d, key) \subseteq 1 .. Len(w)
    BY HasIndexFacts
  <1>1. i \in 1 .. Len(w) /\ j \in 1 .. Len(w)
    BY <1>0
  <1>2. m = i \/ m \in Node(d, i)
    BY DEF Matches
  <1>3. m \in 1 .. Len(w) /\ (m = i \/ (i <= m /\ \A k \in i .. m : KeyAt(d, k) # "var"))
    BY <1>0, <1>1, <1>2 DEF Node
  <1>. SUFFICES ASSUME ~ (m < j) PROVE FALSE
    OBVIOUS
  <1>4. m # i /\ j \in i .. m /\ j - 1 \in i .. m /\ j # 1
    <2>0. i \in Nat /\ j \in Nat /\ m \in Nat /\ 1 <= i
      BY <1>0, <1>1, <1>3
    <2>1. i \in Int /\ j \in Int /\ m \in Int /\ 1 <= i /\ i < j /\ j <= m
      BY <2>0
    <2>2. m # i /\ j # 1 /\ i <= j /\ i <= j - 1 /\ j - 1 <= m /\ j - 1 \in Int
      BY <2>1
    <2>. QED BY <2>1, <2>2
  <1>5. KeyAt(d, j) # "var" /\ KeyAt(d, j - 1) # "var"
    BY <1>3, <1>4
  <1>. QED BY <1>4, <1>5 DEF Nodes

LEMMA TableFacts ==
  ASSUME NEW d, NEW w, NEW key, HasIndex(d, w, key), NEW i, i \in 1 .. Len(w), IsTable(d, i)
  PROVE  KeyAt(d, i) # "var" /\ (i \in Nodes(d, key) => key # "list")
  <1>0. DOMAIN d.p.index = 1 .. Len(w) /\ Len(w) \in Nat
    BY HasIndexFacts
  <1>1. i \in Node(d, i)
    BY <1>0 DEF Node
  <1>2. PICK j \in Node(d, i) : j # i
    BY <1>1 DEF IsTable
  <1>3. i <= j /\ j \in 1 .. Len(w) /\ \A k \in i .. j : KeyAt(d, k) # "var"
    BY <1>0, <1>2 DEF Node
  <1>4. i \in i .. j
    BY <1>0, <1>3
  <1>5. KeyAt(d, i) # "var"
    BY <1>3, <1>4
  <1>. QED BY <1>5 DEF Nodes

TableLeft(d, w, i, key, more) ==
  /\ more \subseteq 1 .. Len(w) /\ Min(more) \in more /\ Min(more) \in Nat
  /\ Matches(d, Min(more), key) = more /\ IsTable(d, i)

LEMMA TableLeftIs ==
  ASSUME NEW d, NEW w, NEW key, HasIndex(d, w, key), NEW i, i \in 1 .. Len(w),
         NEW first, first \in Matches(d, i, key), \A x \in Matches(d, i, key) : first <= x,
         NEW more, more = After(Matches(d, i, key), first), more # {}
  PROVE  TableLeft(d, w, i, key, more)
  <1>. DEFINE m == Matches(d, i, key)
              j == Min(more)
  <1>0. /\ DOMAIN d.p.index = 1 .. Len(w) /\ Len(w) \in Nat /\ d \in Databases /\ Links(d, w) /\ d.p.index = w
    BY HasIndexFacts
  <1>1. \A x \in m : x \in 1 .. Len(w) /\ i <= x
    BY <1>0, MatchesAfter
  <1>2. more \subseteq m /\ more \subseteq Nat /\ more \subseteq 1 .. Len(w) /\ \A x \in m : x \in more <=> x > first
    BY <1>0, <1>1 DEF After
  <1>3. j \in more /\ j \in Nat /\ \A y \in more : j <= y
    BY <1>2, MinOf
  <1>. HIDE DEF j
  <1>4. IsTable(d, i)
    <2>. SUFFICES ASSUME ~ IsTable(d, i) PROVE FALSE
      OBVIOUS
    <2>1. m = {i}
      BY DEF Matches
    <2>2. j = first
      BY <1>2, <1>3, <2>1
    <2>3. j > first
      BY <1>2, <1>3
    <2>. QED BY <1>3, <2>2, <2>3
  <1>5. m = {x \in Node(d, i) : KeyAt(d, x) = key}
    BY <1>4 DEF Matches
  <1>6. j \in Node(d, i) /\ KeyAt(d, j) = key /\ j > i /\ j \in 1 .. Len(w) /\ i \in Nat
    <2>1. j \in m /\ first \in m /\ j > first
      BY <1>2, <1>3
    <2>2. j \in Node(d, i) /\ KeyAt(d, j) = key
      BY <1>5, <2>1
    <2>3. i <= first /\ first \in 1 .. Len(w)
      BY <1>1, <2>1
    <2>4. j > i
      BY <1>0, <1>3, <2>1, <2>3
    <2>. QED BY <1>0, <1>1, <2>1, <2>2, <2>4
  <1>7. \A k \in i .. j : KeyAt(d, k) # "var"
    BY <1>6 DEF Node
  <1>8. Node(d, j) = {x \in Node(d, i) : j <= x}
    <2>1. ASSUME NEW x \in Node(d, j) PROVE x \in Node(d, i) /\ j <= x
      <3>1. x \in 1 .. Len(w) /\ j <= x /\ (x = j \/ \A k \in j .. x : KeyAt(d, k) # "var")
        BY <1>0, <2>1 DEF Node
      <3>2. i <= x
        BY <1>0, <1>6, <3>1
      <3>3. \A k \in i .. x : k \in i .. j \/ k \in j .. x
        BY <1>0, <1>6, <3>1
      <3>4. x = j \/ \A k \in i .. x : KeyAt(d, k) # "var"
        BY <1>7, <3>1, <3>3
      <3>. QED BY <1>0, <1>6, <3>1, <3>2, <3>4 DEF Node
    <2>2. ASSUME NEW x \in Node(d, i), j <= x PROVE x \in Node(d, j)
      <3>1. x \in 1 .. Len(w) /\ (i = x \/ \A k \in i .. x : KeyAt(d, k) # "var")
        BY <1>0 DEF Node
      <3>2. i # x /\ \A k \in j .. x : k \in i .. x
        BY <1>0, <1>6, <2>2, <3>1
      <3>3. \A k \in j .. x : KeyAt(d, k) # "var"
        BY <3>1, <3>2
      <3>. QED BY <1>0, <2>2, <3>1, <3>3 DEF Node
    <2>. QED BY <2>1, <2>2
  <1>9. more = {x \in Node(d, j) : KeyAt(d, x) = key}
    <2>1. \A x \in m : x > first <=> j <= x
      <3>. SUFFICES ASSUME NEW x \in m PROVE x > first <=> j <= x
        OBVIOUS
      <3>1. x > first => j <= x
        BY <1>2, <1>3
      <3>2. j > first /\ first \in Nat /\ x \in Nat
        <4>1. j \in m
          BY <1>2, <1>3
        <4>2. j > first
          BY <1>2, <1>3, <4>1
        <4>3. first \in m /\ x \in m
          OBVIOUS
        <4>. HIDE DEF m
        <4>4. first \in Nat /\ x \in Nat
          BY <1>0, <1>1, <4>3
        <4>. QED BY <4>2, <4>4
      <3>. QED BY <1>3, <3>1, <3>2
    <2>2. more = {x \in m : j <= x}
      BY <1>2, <2>1
    <2>. QED BY <1>5, <1>8, <2>2
  <1>10. Matches(d, j, key) = more
    <2>1. CASE IsTable(d, j)
      BY <1>9, <2>1 DEF Matches
    <2>2. CASE ~ IsTable(d, j)
      <3>1. Node(d, j) = {j} /\ Matches(d, j, key) = {j}
        BY <2>2 DEF IsTable, Matches
      <3>. QED BY <1>6, <1>9, <3>1
    <2>. QED BY <2>1, <2>2
  <1>11. TableLeft(d, w, i, key, more)
    BY <1>2, <1>3, <1>4, <1>10 DEF TableLeft, j
  <1>. QED BY <1>11

(* Every clause is in a node. *)
LEMMA NodesCover ==
  ASSUME NEW d, NEW w, NEW key, HasIndex(d, w, key), key # "list", NEW x, x \in 1 .. Len(w)
  PROVE  \E k \in Nodes(d, key) : x \in Node(d, k)
  <1>. DEFINE X == {k \in Nodes(d, key) : k <= x}
              k == Max(X)
  <1>0. DOMAIN d.p.index = 1 .. Len(w) /\ Len(w) \in Nat /\ Len(w) > 1 /\ Nodes(d, key) \subseteq 1 .. Len(w)
    BY HasIndexFacts
  <1>1. 1 \in Nodes(d, key)
    BY <1>0 DEF Nodes
  <1>2. X \subseteq 0 .. x /\ X # {} /\ x \in Nat
    BY <1>0, <1>1
  <1>3. k \in X /\ k \in Nat /\ \A y \in X : y <= k
    BY <1>2, MaxOf
  <1>. HIDE DEF k
  <1>4. k \in Nodes(d, key) /\ k <= x /\ k \in 1 .. Len(w)
    BY <1>0, <1>3
  <1>5. x = k \/ \A y \in k .. x : KeyAt(d, y) # "var"
    <2>. SUFFICES ASSUME x # k, NEW y \in k .. x PROVE KeyAt(d, y) # "var"
      OBVIOUS
    <2>1. ASSUME NEW z, z \in k + 1 .. x PROVE KeyAt(d, z) # "var" /\ KeyAt(d, z - 1) # "var"
      <3>1. z \in 1 .. Len(w) /\ z <= x /\ ~ (z <= k)
        BY <1>0, <1>2, <1>4, <2>1
      <3>2. z \notin X
        BY <1>3, <3>1
      <3>3. z \notin Nodes(d, key)
        BY <3>1, <3>2
      <3>. QED BY <1>0, <3>1, <3>3 DEF Nodes
    <2>2. CASE y = k
      <3>1. k + 1 \in k + 1 .. x /\ (k + 1) - 1 = k
        BY <1>2, <1>4
      <3>. QED BY <2>1, <2>2, <3>1
    <2>3. CASE y # k
      <3>1. y \in k + 1 .. x
        BY <1>2, <1>4, <2>3
      <3>. QED BY <2>1, <3>1
    <2>. QED BY <2>2, <2>3
  <1>6. x \in Node(d, k)
    BY <1>0, <1>4, <1>5 DEF Node
  <1>. QED BY <1>4, <1>6

(* The nodes lead to every clause whose first argument fits. *)
LEMMA NodesFit ==
  ASSUME NEW d, NEW w, NEW key, HasIndex(d, w, key), NEW a \in Fitting(d, key)
  PROVE  \E k \in Nodes(d, key) : \E x \in Matches(d, k, key) : a = w[x]
  <1>0. /\ DOMAIN d.p.index = 1 .. Len(w) /\ Len(w) \in Nat /\ d \in Databases /\ Links(d, w) /\ key # "var"
        /\ \A i \in 1 .. Len(w) : KeyAt(d, i) = d.b[w[i]].key /\ KeyAt(d, i) \in Keys
    BY HasIndexFacts DEF HasIndex
  <1>1. a \in In(w) /\ (key = d.b[a].key \/ d.b[a].key = "var")
    BY <1>0, ChainSet DEF Fitting
  <1>2. PICK x : x \in 1 .. Len(w) /\ a = w[x]
    BY <1>1 DEF In
  <1>3. KeyAt(d, x) = key \/ KeyAt(d, x) = "var"
    BY <1>0, <1>1, <1>2
  <1>4. CASE key = "list"
    <2>1. "list" \notin Keys
      BY KeyAssumption DEF Keys
    <2>2. KeyAt(d, x) = "var"
      BY <1>0, <1>2, <1>3, <1>4, <2>1
    <2>3. x \in Nodes(d, key)
      BY <1>0, <1>2, <1>4, <2>2 DEF Nodes
    <2>4. ~ IsTable(d, x)
      BY <1>2, <2>2, TableFacts
    <2>5. x \in Matches(d, x, key)
      BY <2>4 DEF Matches
    <2>. QED BY <1>2, <2>3, <2>5
  <1>5. CASE key # "list"
    <2>1. PICK k \in Nodes(d, key) : x \in Node(d, k)
      BY <1>2, <1>5, NodesCover
    <2>2. k \in 1 .. Len(w)
      BY HasIndexFacts
    <2>3. CASE IsTable(d, k)
      <3>1. KeyAt(d, k) # "var"
        BY <2>2, <2>3, TableFacts
      <3>2. KeyAt(d, x) # "var"
        <4>1. k <= x /\ (k = x \/ \A y \in k .. x : KeyAt(d, y) # "var")
          BY <2>1 DEF Node
        <4>2. x \in k .. x
          BY <1>0, <1>2, <2>2, <4>1
        <4>. QED BY <3>1, <4>1, <4>2
      <3>3. x \in Matches(d, k, key)
        BY <1>3, <2>1, <2>3, <3>2 DEF Matches
      <3>. QED BY <1>2, <3>3
    <2>4. CASE ~ IsTable(d, k)
      <3>1. x = k /\ x \in Matches(d, k, key)
        BY <2>1, <2>4 DEF IsTable, Matches
      <3>. QED BY <1>2, <3>1
    <2>. QED BY <2>3, <2>4
  <1>. QED BY <1>4, <1>5

(***************************************************************************)
(* A node is entered.                                                      *)
(***************************************************************************)
LEMMA HavingGoes ==
  ASSUME NEW d, NEW w, NEW x \in ChoicePoints, Goes(d, w, x), In(w) \subseteq Blocks,
         NEW b, b \in In(w) \cup {None},
         b # None /\ x.next[1] # "fail" => d.b[b].id < d.b[Place(d, x)].id
  PROVE  Goes(d, w, Having(x, b))
  <1>. DEFINE y == Having(x, b)
  <1>0. b \in Blocks \cup {None}
    OBVIOUS
  <1>1. /\ y.next = x.next /\ y.key = x.key /\ y.todo = x.todo \ {b}
        /\ y.ran = x.ran \cup ({b} \ {None})
    BY <1>0, HavingIs
  <1>. HIDE DEF y
  <1>2. (InBlock(y) <=> InBlock(x)) /\ Place(d, y) = Place(d, x)
    BY <1>1 DEF InBlock, Place
  <1>3. InIndex(d, w, x) <=> InIndex(d, w, y)
    BY <1>1 DEF InIndex
  <1>4. y.ran \subseteq In(w) /\ y.todo \subseteq In(w)
    BY <1>1 DEF Goes
  <1>5. x.next[1] # "fail" => \A a \in y.ran : d.b[a].id < d.b[Place(d, x)].id
    BY <1>1 DEF Goes
  <1>6. Goes(d, w, y)
    BY <1>1, <1>2, <1>3, <1>4, <1>5 DEF Goes
  <1>. QED BY <1>6 DEF y

(* The positions in the index are few enough for a choice point. *)
LEMMA ChainFits ==
  ASSUME NEW d \in Databases, NEW w, Links(d, w)
  PROVE  Len(w) <= MaxBlocks /\ \A i \in 1 .. Len(w) : i \in Blocks
  <1>. DEFINE n == Len(w)
              S == 1 .. n
  <1>0. /\ n \in Nat /\ MaxBlocks \in Nat /\ MaxBlocks # 0 /\ DOMAIN w = S /\ w \in Seq(Blocks)
        /\ \A i \in S : w[i] \in Blocks
    BY LinksFacts, BoundAssumption
  <1>1. IsFiniteSet(S) /\ Cardinality(S) = IF 1 > n THEN 0 ELSE n - 1 + 1
    BY <1>0, FS_Interval
  <1>2. IsFiniteSet(Blocks) /\ Cardinality(Blocks) = IF 1 > MaxBlocks THEN 0 ELSE MaxBlocks - 1 + 1
    BY <1>0, FS_Interval DEF Blocks
  <1>3. \A i, j \in S : w[i] = w[j] => i = j
    BY IdsApart
  <1>4. w \in [S -> Blocks]
    BY <1>0
  <1>. HIDE DEF S
  <1>5. ~ (Cardinality(Blocks) < Cardinality(S))
    BY <1>1, <1>2, <1>3, <1>4, FS_PigeonHole
  <1>. HIDE DEF n
  <1>6. Cardinality(S) = n /\ Cardinality(Blocks) = MaxBlocks
    BY <1>0, <1>1, <1>2
  <1>7. n <= MaxBlocks
    BY <1>0, <1>5, <1>6
  <1>8. \A i \in 1 .. n : i \in Blocks
    BY <1>0, <1>7 DEF Blocks
  <1>. QED BY <1>7, <1>8 DEF n

Continues(d, w, c, q, r) ==
  /\ r.cps \in Seq(ChoicePoints) /\ r.clause \in Blocks \cup {None}
  /\ Leaves(c, r.cps, q) /\ Sound(d, w, Ran(r.cps, q, r.clause), q)

(* The call of cp goes on and is not lost. *)
Enters(d, w, c, cp, r) ==
  /\ Continues(d, w, c, cp.call, r)
  /\ \A k \in Of(r.cps, cp.call) : r.cps[k].todo = cp.todo /\ ~ r.cps[k].astray
  /\ Of(r.cps, cp.call) = {} => cp.todo \subseteq {r.clause}

(* Node i is entered, and c holds a choice point for the nodes after it if *)
(* there are any.                                                          *)
Top(d, i, cp) == [cp EXCEPT !.next = <<"top", Min(After(Nodes(d, cp.key), i))>>]

NodeReady(d, w, c, i, cp) ==
  /\ HasIndex(d, w, cp.key) /\ i \in Nodes(d, cp.key)
  /\ c \in Seq(ChoicePoints) /\ cp \in ChoicePoints /\ ~ cp.astray
  /\ cp.todo \subseteq AtOrAfter(d, w, cp.key, i)
  /\ cp.ran \subseteq In(w) /\ \A a \in cp.ran : d.b[a].id < d.b[w[i]].id
  /\ IF After(Nodes(d, cp.key), i) = {} THEN Of(c, cp.call) = {}
     ELSE Of(c, cp.call) = {Len(c)} /\ c[Len(c)] = Top(d, i, cp)

NodeParts(d, w, i, cp) ==
  /\ i \in 1 .. Len(w) /\ cp.todo \subseteq In(w) /\ In(w) \subseteq Blocks
  /\ \A x \in Matches(d, i, cp.key) : x \in 1 .. Len(w) /\ i <= x
  /\ \A a \in cp.todo : \/ \E x \in Matches(d, i, cp.key) : a = w[x]
                        \/ After(Nodes(d, cp.key), i) # {} /\ a \in Ahead(d, w, Top(d, i, cp))
  /\ After(Nodes(d, cp.key), i) # {} =>
       LET j == Min(After(Nodes(d, cp.key), i))
       IN  /\ Top(d, i, cp) \in ChoicePoints /\ j \in 1 .. Len(w)
           /\ j \in Nodes(d, cp.key) /\ i < j
           /\ Goes(d, w, Top(d, i, cp))

LEMMA NodePartsAre ==
  ASSUME NEW d, NEW w, NEW c, NEW i, NEW cp, NodeReady(d, w, c, i, cp)
  PROVE  NodeParts(d, w, i, cp)
  <1>. DEFINE key == cp.key
              m == Matches(d, i, key)
              nodes == After(Nodes(d, key), i)
              j == Min(nodes)
              top == Top(d, i, cp)
  <1>0. /\ HasIndex(d, w, key) /\ i \in Nodes(d, key) /\ cp \in ChoicePoints
        /\ cp.todo \subseteq AtOrAfter(d, w, key, i) /\ cp.ran \subseteq In(w)
        /\ \A a \in cp.ran : d.b[a].id < d.b[w[i]].id
    BY DEF NodeReady
  <1>1. /\ d \in Databases /\ Links(d, w) /\ d.p.index = w /\ Len(w) \in Nat
        /\ \A h \in 1 .. Len(w) : w[h] \in Blocks /\ w[h] \in In(w) /\ h \in Nat
        /\ Nodes(d, key) \subseteq 1 .. Len(w) /\ i \in 1 .. Len(w) /\ i \in Nat
    BY <1>0, HasIndexFacts
  <1>2. \A x \in m : x \in 1 .. Len(w) /\ i <= x
    BY <1>1, MatchesAfter
  <1>3. cp.todo \subseteq In(w) /\ In(w) \subseteq Blocks
    BY <1>0, <1>1 DEF AtOrAfter, In
  <1>4. ASSUME nodes # {}
        PROVE  /\ j \in nodes /\ j \in Nat /\ \A y \in nodes : j <= y
               /\ j \in Nodes(d, key) /\ j \in 1 .. Len(w) /\ i < j
    <2>1. nodes \subseteq Nat /\ \A y \in nodes : y \in Nodes(d, key) /\ y > i /\ y \in 1 .. Len(w)
      BY <1>1 DEF After
    <2>2. j \in nodes /\ j \in Nat /\ \A y \in nodes : j <= y
      BY <1>4, <2>1, MinOf
    <2>. HIDE DEF j, nodes
    <2>. QED BY <1>1, <2>1, <2>2
  <1>5. ASSUME nodes # {}
        PROVE  top \in ChoicePoints /\ top.next = <<"top", j>> /\ top.key = key
               /\ top.ran = cp.ran /\ top.todo = cp.todo
    <2>1. <<"top", j>> \in Goals
      <3>1. j \in Blocks
        BY <1>1, <1>4, <1>5, ChainFits
      <3>. HIDE DEF j
      <3>. QED BY <3>1 DEF Goals
    <2>. HIDE DEF j
    <2>. QED BY <1>0, <2>1, NextReplaced DEF Top, j
  <1>6. ASSUME nodes # {}
        PROVE  Goes(d, w, top)
    <2>1. InIndex(d, w, top)
      <3>1. d.p.usage = "switch" /\ key # "var"
        BY <1>0 DEF HasIndex
      <3>2. j > 1
        BY <1>1, <1>4, <1>6
      <3>. HIDE DEF j, top
      <3>. QED BY <1>4, <1>5, <1>6, <3>1, <3>2 DEF InIndex
    <2>. HIDE DEF j, top
    <2>2. InBlock(top) /\ Place(d, top) = w[j]
      BY <1>1, <1>5, <1>6 DEF InBlock, Place
    <2>3. \A a \in top.ran : d.b[a].id < d.b[w[j]].id
      <3>. SUFFICES ASSUME NEW a \in cp.ran PROVE d.b[a].id < d.b[w[j]].id
        BY <1>5, <1>6
      <3>1. d.b[a].id < d.b[w[i]].id /\ a \in In(w)
        BY <1>0
      <3>2. d.b[w[i]].id < d.b[w[j]].id
        BY <1>1, <1>4, <1>6 DEF Links
      <3>3. d.b[a].id \in Int /\ d.b[w[i]].id \in Int /\ d.b[w[j]].id \in Int
        BY <1>1, <1>3, <1>4, <1>6, <3>1, CodeTypes
      <3>. QED BY <3>1, <3>2, <3>3
    <2>4. top.next[1] = "top" /\ top.ran \subseteq In(w) /\ top.todo \subseteq In(w)
      BY <1>0, <1>3, <1>5, <1>6
    <2>. QED BY <2>1, <2>2, <2>3, <2>4 DEF Goes
  <1>7. ASSUME NEW a \in cp.todo
        PROVE  (\E x \in m : a = w[x]) \/ (nodes # {} /\ a \in Ahead(d, w, top))
    <2>1. PICK k \in Nodes(d, key) : k >= i /\ \E x \in Matches(d, k, key) : a = w[x]
      BY <1>0 DEF AtOrAfter
    <2>2. CASE k = i
      BY <2>1, <2>2
    <2>3. CASE k # i
      <3>1. k \in nodes
        BY <1>1, <2>1, <2>3 DEF After
      <3>2. k >= j
        BY <1>1, <1>4, <3>1
      <3>3. a \in In(w)
        BY <1>3
      <3>4. a \in AtOrAfter(d, w, key, j)
        <4>. HIDE DEF j, nodes
        <4>. QED BY <2>1, <3>2, <3>3 DEF AtOrAfter
      <3>5. top \in ChoicePoints /\ top.next[1] = "top" /\ top.next[2] = j /\ top.key = key
        BY <1>5, <3>1
      <3>6. Ahead(d, w, top) = AtOrAfter(d, w, key, j)
        <4>. HIDE DEF j, nodes, top
        <4>. QED BY <1>0, <3>5, TopAhead
      <3>. QED BY <3>1, <3>4, <3>6
    <2>. QED BY <2>2, <2>3
  <1>. HIDE DEF m, nodes, j, top
  <1>. QED BY <1>1, <1>2, <1>3, <1>4, <1>5, <1>6, <1>7 DEF NodeParts, m, nodes, j, top

(* What is named by an entry of a node is before the next node. *)
LEMMA TopHaving ==
  ASSUME NEW d, NEW w, NEW c, NEW i, NEW cp, NodeReady(d, w, c, i, cp),
         NEW b, b = None \/ \E x \in Matches(d, i, cp.key) : b = w[x],
         After(Nodes(d, cp.key), i) # {}
  PROVE  Goes(d, w, Having(Top(d, i, cp), b))
  <1>. DEFINE key == cp.key
              j == Min(After(Nodes(d, key), i))
              top == Top(d, i, cp)
  <1>0. HasIndex(d, w, key) /\ i \in Nodes(d, key) /\ NodeParts(d, w, i, cp)
    BY NodePartsAre DEF NodeReady
  <1>1. /\ top \in ChoicePoints /\ j \in 1 .. Len(w) /\ j \in Nodes(d, key) /\ i < j
        /\ Goes(d, w, top) /\ In(w) \subseteq Blocks
        /\ \A x \in Matches(d, i, key) : x \in 1 .. Len(w)
    BY <1>0 DEF NodeParts
  <1>2. d \in Databases /\ Links(d, w) /\ d.p.index = w /\ \A h \in 1 .. Len(w) : w[h] \in In(w)
    BY <1>0, HasIndexFacts
  <1>3. top.next = <<"top", j>>
    <2>1. cp \in ChoicePoints
      BY DEF NodeReady
    <2>. HIDE DEF j
    <2>. QED BY <2>1 DEF Top, ChoicePoints, j
  <1>. HIDE DEF top, j
  <1>4. Place(d, top) = w[j]
    BY <1>2, <1>3 DEF Place, InBlock
  <1>5. b \in In(w) \cup {None}
    BY <1>1, <1>2
  <1>6. ASSUME b # None PROVE d.b[b].id < d.b[w[j]].id
    <2>1. PICK x : x \in Matches(d, i, key) /\ b = w[x]
      BY <1>6
    <2>2. x < j
      BY <1>0, <1>1, <2>1, NodesApart
    <2>3. x \in 1 .. Len(w)
      BY <1>1, <2>1
    <2>. QED BY <1>1, <1>2, <2>1, <2>2, <2>3 DEF Links
  <1>7. Goes(d, w, Having(top, b))
    BY <1>1, <1>4, <1>5, <1>6, HavingGoes
  <1>. QED BY <1>7 DEF top

LEMMA EnteredOne ==
  ASSUME NEW d, NEW w, NEW c, NEW i, NEW cp, NodeReady(d, w, c, i, cp),
         NEW b, b = None \/ \E x \in Matches(d, i, cp.key) : b = w[x],
         \A x \in Matches(d, i, cp.key) : b = w[x]
  PROVE  Enters(d, w, c, cp, Enter(c, b))
  <1>. DEFINE key == cp.key
              q == cp.call
              nodes == After(Nodes(d, key), i)
              top == Top(d, i, cp)
              n == Len(c)
  <1>0. HasIndex(d, w, key) /\ i \in Nodes(d, key) /\ NodeParts(d, w, i, cp)
        /\ c \in Seq(ChoicePoints) /\ cp \in ChoicePoints /\ ~ cp.astray
    BY NodePartsAre DEF NodeReady
  <1>1. \A a \in cp.todo : a = b \/ (nodes # {} /\ a \in Ahead(d, w, top))
    BY <1>0 DEF NodeParts
  <1>2. b \in Blocks \cup {None}
    <2>1. \A x \in Matches(d, i, key) : x \in 1 .. Len(w)
      BY <1>0 DEF NodeParts
    <2>2. \A h \in 1 .. Len(w) : w[h] \in Blocks
      BY <1>0, HasIndexFacts
    <2>. QED BY <2>1, <2>2
  <1>3. Leaves(c, c, q)
    BY LeavesItself
  <1>4. CASE nodes = {}
    <2>1. Of(c, q) = {}
      BY <1>4 DEF NodeReady
    <2>2. Sound(d, w, Ran(c, q, b), q)
      BY <1>0, <1>2, <2>1, SoundNone
    <2>3. cp.todo \subseteq {b}
      BY <1>1, <1>4
    <2>. HIDE DEF q
    <2>4. Continues(d, w, c, q, Enter(c, b))
      BY <1>0, <1>2, <1>3, <2>2 DEF Continues, Enter
    <2>. QED BY <2>1, <2>3, <2>4 DEF Enters, Enter, q
  <1>5. CASE nodes # {}
    <2>1. Of(c, q) = {n} /\ c[n] = top
      BY <1>5 DEF NodeReady
    <2>2. top.todo = cp.todo /\ ~ top.astray
      BY <1>0 DEF Top, ChoicePoints
    <2>3. Goes(d, w, Having(top, b))
      BY <1>5, TopHaving
    <2>4. cp.todo \ {b} \subseteq Ahead(d, w, top)
      BY <1>1
    <2>. HIDE DEF q, top, n, nodes
    <2>5. Goes(d, w, Having(c[n], b)) /\ c[n].todo \ {b} \subseteq Ahead(d, w, c[n]) /\ ~ c[n].astray
      BY <2>1, <2>2, <2>3, <2>4
    <2>6. Sound(d, w, Ran(c, q, b), q)
      BY <1>0, <1>2, <2>1, <2>5, SoundAlone
    <2>7. Continues(d, w, c, q, Enter(c, b))
      BY <1>0, <1>2, <1>3, <2>6 DEF Continues, Enter
    <2>. QED BY <2>1, <2>2, <2>7 DEF Enters, Enter, q
  <1>. QED BY <1>4, <1>5

Bottom(cp, more) == [cp EXCEPT !.next = <<"bottom", Min(more)>>]

LEMMA BottomIs ==
  ASSUME NEW d, NEW w, NEW key, HasIndex(d, w, key), NEW x \in ChoicePoints, x.key = key,
         NEW j, x.next[1] = "bottom", x.next[2] = j, NEW more, Matches(d, j, key) = more
  PROVE  \A a : a \in Ahead(d, w, x) <=> \E h \in more : a = w[h]
  <1>1. HasIndex(d, w, x.key)
    OBVIOUS
  <1>. QED BY <1>1, BottomAhead

(* A table with several matching clauses has a choice point of its own. *)
LEMMA EnteredMore ==
  ASSUME NEW d, NEW w, NEW c, NEW i, NEW cp, NodeReady(d, w, c, i, cp),
         NEW first, first \in Matches(d, i, cp.key), \A x \in Matches(d, i, cp.key) : first <= x,
         NEW more, more = After(Matches(d, i, cp.key), first), more # {},
         NEW b, b = w[first], NEW new, new = Bottom(cp, more)
  PROVE  Enters(d, w, c, cp, Enter(Append(c, new), b))
  <1>. DEFINE key == cp.key
              q == cp.call
              m == Matches(d, i, key)
              nodes == After(Nodes(d, key), i)
              top == Top(d, i, cp)
              n == Len(c)
              j == Min(more)
              r == Append(c, new)
  <1>0. /\ HasIndex(d, w, key) /\ i \in Nodes(d, key) /\ NodeParts(d, w, i, cp)
        /\ c \in Seq(ChoicePoints) /\ cp \in ChoicePoints /\ ~ cp.astray
        /\ cp.ran \subseteq In(w) /\ \A a \in cp.ran : d.b[a].id < d.b[w[i]].id
    BY NodePartsAre DEF NodeReady
  <1>1. /\ d \in Databases /\ Links(d, w) /\ d.p.index = w /\ Len(w) \in Nat
        /\ \A h \in 1 .. Len(w) : w[h] \in Blocks /\ w[h] \in In(w) /\ h \in Nat
        /\ d.p.usage = "switch" /\ key # "var"
    BY <1>0, HasIndexFacts DEF HasIndex
  <1>2. /\ i \in 1 .. Len(w) /\ cp.todo \subseteq In(w) /\ In(w) \subseteq Blocks
        /\ \A x \in m : x \in 1 .. Len(w) /\ i <= x
        /\ \A a \in cp.todo : (\E x \in m : a = w[x]) \/ (nodes # {} /\ a \in Ahead(d, w, top))
    BY <1>0 DEF NodeParts
  <1>3. TableLeft(d, w, i, key, more)
    BY <1>0, <1>2, TableLeftIs
  <1>4. more \subseteq 1 .. Len(w) /\ j \in more /\ Matches(d, j, key) = more /\ key # "list"
    BY <1>0, <1>2, <1>3, TableFacts DEF TableLeft
  <1>5. more \subseteq m /\ (\A x \in m : x = first \/ x \in more) /\ \A x \in more : first < x
    <2>1. \A x \in m : x \in Nat
      BY <1>1, <1>2
    <2>2. \A x : x \in more <=> x \in m /\ x > first
      BY DEF After
    <2>3. first \in m /\ \A x \in m : first <= x
      OBVIOUS
    <2>. HIDE DEF m
    <2>4. \A x \in m : x = first \/ x > first
      BY <2>1, <2>3
    <2>5. \A x \in more : first < x
      BY <2>1, <2>2, <2>3
    <2>. QED BY <2>2, <2>4, <2>5
  <1>. HIDE DEF j
  <1>6. j \in 1 .. Len(w) /\ first \in 1 .. Len(w) /\ first < j /\ i < j /\ j \in m
    <2>1. j \in 1 .. Len(w) /\ first \in 1 .. Len(w) /\ first < j /\ i <= first /\ j \in m
      BY <1>2, <1>4, <1>5
    <2>2. i \in Nat /\ j \in Nat /\ first \in Nat
      BY <1>1, <1>2, <2>1
    <2>3. i < j
      BY <2>1, <2>2
    <2>. QED BY <2>1, <2>3
  <1>7. new \in ChoicePoints /\ new.next = <<"bottom", j>> /\ new.key = key /\ new.call = q
        /\ new.ran = cp.ran /\ new.todo = cp.todo /\ ~ new.astray
    <2>1. j \in Blocks
      BY <1>1, <1>6, ChainFits
    <2>2. <<"bottom", j>> \in Goals
      BY <2>1 DEF Goals
    <2>. QED BY <1>0, <2>2, NextReplaced DEF j, Bottom
  <1>8. InBlock(new) /\ Place(d, new) = w[j] /\ new.next[1] = "bottom" /\ new.next[2] = j
    BY <1>1, <1>7 DEF InBlock, Place
  <1>9. d.b[w[i]].id < d.b[w[j]].id /\ d.b[w[first]].id < d.b[w[j]].id
    BY <1>1, <1>2, <1>6 DEF Links
  <1>10. Goes(d, w, new)
    <2>1. InIndex(d, w, new)
      BY <1>1, <1>4, <1>6, <1>7, <1>8 DEF InIndex
    <2>2. \A a \in new.ran : d.b[a].id < d.b[w[j]].id
      <3>. SUFFICES ASSUME NEW a \in cp.ran PROVE d.b[a].id < d.b[w[j]].id
        BY <1>7
      <3>1. d.b[a].id < d.b[w[i]].id /\ a \in In(w)
        BY <1>0
      <3>2. d.b[a].id \in Int /\ d.b[w[i]].id \in Int /\ d.b[w[j]].id \in Int
        BY <1>1, <1>2, <1>6, <3>1, CodeTypes
      <3>. QED BY <1>9, <3>1, <3>2
    <2>. QED BY <1>0, <1>2, <1>7, <1>8, <2>1, <2>2 DEF Goes
  <1>11. b \in In(w) /\ b \in Blocks \cup {None} /\ d.b[b].id < d.b[Place(d, new)].id
    BY <1>1, <1>2, <1>6, <1>8, <1>9
  <1>12. Goes(d, w, Having(new, b))
    BY <1>2, <1>7, <1>10, <1>11, HavingGoes
  <1>13. \A a : a \in Ahead(d, w, new) <=> \E x \in more : a = w[x]
    BY <1>0, <1>4, <1>7, <1>8, BottomIs
  <1>14. Pushes(c, r, new)
    BY <1>0, <1>7, PushIs
  <1>15. \A a \in cp.todo : a = b \/ a \in Ahead(d, w, new) \/ (nodes # {} /\ a \in Ahead(d, w, top))
    BY <1>2, <1>5, <1>13
  <1>. HIDE DEF r, m, q
  <1>16. /\ r \in Seq(ChoicePoints) /\ r[n + 1] = new /\ n \in Nat /\ Leaves(c, r, q)
         /\ \A k \in 1 .. n : r[k] = c[k]
         /\ Of(r, q) = Of(c, q) \cup {n + 1}
    BY <1>7, <1>14 DEF Pushes
  <1>17. CASE nodes = {}
    <2>1. Of(r, q) = {n + 1}
      BY <1>16, <1>17 DEF NodeReady, q
    <2>2. cp.todo \ {b} \subseteq Ahead(d, w, new)
      BY <1>15, <1>17
    <2>. DEFINE k == n + 1
    <2>3. Of(r, q) = {k} /\ r[k] = new
      BY <1>16, <2>1
    <2>. HIDE DEF k
    <2>4. ~ r[k].astray /\ Goes(d, w, Having(r[k], b)) /\ r[k].todo \ {b} \subseteq Ahead(d, w, r[k])
      BY <1>7, <1>12, <2>2, <2>3
    <2>5. Sound(d, w, Ran(r, q, b), q)
      BY <1>11, <1>16, <2>3, <2>4, SoundAlone
    <2>6. Continues(d, w, c, q, Enter(r, b))
      BY <1>11, <1>16, <2>5 DEF Continues, Enter
    <2>. QED BY <1>7, <2>3, <2>6 DEF Enters, Enter, q, r
  <1>18. CASE nodes # {}
    <2>1. Of(c, q) = {n} /\ c[n] = top
      BY <1>18 DEF NodeReady, q
    <2>2. top.todo = cp.todo /\ top.ran = cp.ran /\ ~ top.astray /\ top.key = key /\ top.call = q
          /\ top.next = <<"top", Min(nodes)>>
      BY <1>0 DEF Top, ChoicePoints, q
    <2>3. Goes(d, w, Having(top, b))
      BY <1>18, TopHaving DEF m
    <2>4. Min(nodes) \in Nodes(d, key) /\ i < Min(nodes)
      BY <1>0, <1>18 DEF NodeParts
    <2>5. \A x \in m : x < Min(nodes)
      BY <1>0, <2>4, NodesApart DEF m
    <2>. DEFINE h == Min(nodes)
    <2>6. top.next = <<"top", h>> /\ \A x \in m : x < h
      BY <2>2, <2>5
    <2>. HIDE DEF h, top, nodes
    <2>7. Pair(d, top, new)
      <3>1. top.next[1] = "top" /\ top.next[2] = h
        BY <2>6
      <3>2. new.next[2] < top.next[2]
        BY <1>6, <1>8, <2>6, <3>1
      <3>3. \A x \in Matches(d, new.next[2], new.key) : x < top.next[2]
        BY <1>4, <1>5, <1>7, <1>8, <2>6, <3>1
      <3>. QED BY <1>7, <1>8, <2>2, <3>1, <3>2, <3>3 DEF Pair
    <2>8. n \in 1 .. n
      BY <1>16, <2>1 DEF Of
    <2>. DEFINE k == n + 1
    <2>9. Of(r, q) = {n, k} /\ r[k] = new /\ r[n] = top /\ k = n + 1
      BY <1>16, <2>1, <2>8
    <2>. HIDE DEF k, n
    <2>10. /\ ~ r[n].astray /\ ~ r[k].astray /\ Goes(d, w, Having(r[n], b)) /\ Goes(d, w, Having(r[k], b))
           /\ Pair(d, r[n], r[k]) /\ r[k].todo \ {b} \subseteq Ahead(d, w, r[n]) \cup Ahead(d, w, r[k])
      BY <1>7, <1>12, <1>15, <2>2, <2>3, <2>7, <2>9
    <2>11. Sound(d, w, Ran(r, q, b), q)
      BY <1>11, <1>16, <2>9, <2>10, SoundTwo
    <2>12. Continues(d, w, c, q, Enter(r, b))
      BY <1>11, <1>16, <2>11 DEF Continues, Enter
    <2>13. Of(r, q) # {} /\ \A h1 \in Of(r, q) : r[h1].todo = cp.todo /\ ~ r[h1].astray
      BY <1>7, <2>2, <2>9
    <2>14. Enter(r, b).cps = r /\ Enter(r, b).clause = b
      BY DEF Enter
    <2>15. Enters(d, w, c, cp, Enter(r, b))
      BY <2>12, <2>13, <2>14 DEF Enters, q
    <2>. QED BY <2>15 DEF r
  <1>. QED BY <1>17, <1>18

LEMMA EnteredNode ==
  ASSUME NEW d, NEW w, NEW c, NEW i, NEW cp, NodeReady(d, w, c, i, cp)
  PROVE  Enters(d, w, c, cp, EnterNode(d, c, i, cp))
  <1>. DEFINE m == Matches(d, i, cp.key)
              first == Min(m)
              more == After(m, first)
  <1>0. HasIndex(d, w, cp.key) /\ NodeParts(d, w, i, cp) /\ d.p.index = w
    BY NodePartsAre, HasIndexFacts DEF NodeReady
  <1>1. m \subseteq Nat
    BY <1>0 DEF NodeParts
  <1>2. CASE m = {}
    <2>1. EnterNode(d, c, i, cp) = Enter(c, None)
      BY <1>2 DEF EnterNode
    <2>. QED BY <1>2, <2>1, EnteredOne
  <1>3. CASE m # {}
    <2>1. first \in m /\ \A x \in m : first <= x
      BY <1>1, <1>3, MinOf
    <2>2. CASE more = {}
      <3>1. EnterNode(d, c, i, cp) = Enter(c, w[first])
        BY <1>0, <1>3, <2>2 DEF EnterNode
      <3>2. \A x \in m : ~ (x > first)
        BY <2>2 DEF After
      <3>. HIDE DEF first
      <3>3. \A x \in m : x = first
        BY <1>1, <2>1, <3>2
      <3>. DEFINE b == w[first]
      <3>4. (\E x \in m : b = w[x]) /\ \A x \in m : b = w[x]
        BY <2>1, <3>3
      <3>. HIDE DEF b
      <3>5. Enters(d, w, c, cp, Enter(c, b))
        BY <3>4, EnteredOne
      <3>. QED BY <3>1, <3>5 DEF b
    <2>3. CASE more # {}
      <3>. DEFINE new == Bottom(cp, more)
      <3>1. EnterNode(d, c, i, cp) = Enter(Append(c, new), w[first])
        BY <1>0, <1>3, <2>3 DEF EnterNode, Bottom
      <3>2. new = Bottom(cp, more)
        OBVIOUS
      <3>3. more = After(m, first)
        OBVIOUS
      <3>. HIDE DEF new, more, first
      <3>4. Enters(d, w, c, cp, Enter(Append(c, new), w[first]))
        BY <2>1, <2>3, <3>2, <3>3, EnteredMore
      <3>. QED BY <3>1, <3>4
    <2>. QED BY <2>2, <2>3
  <1>. QED BY <1>2, <1>3

(***************************************************************************)
(* A failure: the call has left its way, or its newest choice point goes or *)
(* goes on.                                                                *)
(***************************************************************************)
LEMMA NotAfter ==
  ASSUME NEW o \in Int, NEW p \in Int, NEW e \in Int, o <= p, p < e
  PROVE  o <= e
  OBVIOUS

LEMMA LessAtMost ==
  ASSUME NEW o \in Int, NEW p \in Int, o < p
  PROVE  o <= p
  OBVIOUS

LEMMA IntervalInt ==
  ASSUME NEW n, NEW o \in 1 .. n
  PROVE  o \in Int
  OBVIOUS

LEMMA AfterOrSame ==
  ASSUME NEW o \in Int, NEW p \in Int, o <= p
  PROVE  p = o \/ p > o
  OBVIOUS

LEMMA GoesOn ==
  ASSUME NEW d \in Databases, NEW w, In(w) \subseteq Blocks, NEW cp, Goes(d, w, cp),
         cp.next[1] # "fail", Place(d, cp) \in Blocks,
         NEW x, x.ran = cp.ran, x.todo = cp.todo,
         Place(d, x) \in Blocks, d.b[Place(d, cp)].id <= d.b[Place(d, x)].id,
         InBlock(x) => InIndex(d, w, x),
         x.next[1] = "clause" => x.next[2] \in Blocks /\ d.b[x.next[2]].code # Free
  PROVE  Goes(d, w, x)
  <1>1. x.ran \subseteq In(w) /\ x.todo \subseteq In(w)
    BY DEF Goes
  <1>2. ASSUME NEW a \in x.ran PROVE d.b[a].id < d.b[Place(d, x)].id
    <2>1. d.b[a].id < d.b[Place(d, cp)].id /\ a \in Blocks
      BY <1>1 DEF Goes
    <2>2. d.b[a].id \in Int /\ d.b[Place(d, cp)].id \in Int /\ d.b[Place(d, x)].id \in Int
      BY <2>1, CodeTypes
    <2>. QED BY <2>1, <2>2
  <1>. QED BY <1>1, <1>2 DEF Goes

(* The call has left its way. *)
Strays(c, r, q) ==
  /\ r \in Seq(ChoicePoints) /\ Leaves(c, r, q)
  /\ \A k \in Of(r, q) : r[k].astray /\ ~ InBlock(r[k])

LEMMA StrayContinues ==
  ASSUME NEW d, NEW w, NEW c, NEW q, NEW r, Strays(c, r, q), NEW b, b \in Blocks \cup {None}
  PROVE  Continues(d, w, c, q, Enter(r, b))
  <1>1. r \in Seq(ChoicePoints) /\ Leaves(c, r, q)
        /\ \A k \in Of(r, q) : r[k].astray /\ ~ InBlock(r[k])
    BY DEF Strays
  <1>2. Sound(d, w, Ran(r, q, b), q)
    BY <1>1, SoundAstray
  <1>. QED BY <1>1, <1>2 DEF Continues, Enter

LEMMA GoesToBlock ==
  ASSUME NEW d \in Databases, NEW w, Chained(d, w), NEW b \in Blocks,
         d.b[b].code.op \in {"retry", "try"}
  PROVE  d.b[b].code.to \in Blocks /\ b \in In(w)
  <1>0. Links(d, w) /\ Coded(d, w) /\ Len(w) \in Nat /\ \A i \in 1 .. Len(w) : w[i] \in Blocks
    BY LinksFacts DEF Chained
  <1>1. b \in In(w)
    BY <1>0 DEF Links, Deleted, Free
  <1>2. PICK i : i \in 1 .. Len(w) /\ b = w[i]
    BY <1>1 DEF In
  <1>3. CASE LeftOver(d, w)
    <2>1. i = 1
      BY SMTT(30), <1>2, <1>3 DEF LeftOver
    <2>. QED BY <1>1, <1>2, <1>3, <2>1 DEF LeftOver
  <1>4. CASE ~ LeftOver(d, w)
    <2>1. d.b[b].code = CodeOf(d, w, i)
      BY <1>0, <1>2, <1>4 DEF Coded
    <2>2. i # Len(w)
      BY <2>1 DEF CodeOf, TrustMe
    <2>3. i + 1 \in 1 .. Len(w) /\ (i = 1 => 2 \in 1 .. Len(w))
      BY <1>0, <1>2, <2>2
    <2>. QED BY <1>0, <1>1, <2>1, <2>2, <2>3 DEF CodeOf, TryMe, RetryMe
  <1>. QED BY <1>3, <1>4

LEMMA ResumedStray ==
  ASSUME NEW d \in Databases, NEW w, Chained(d, w), NEW n, n = Len(d.c), n > 0,
         NEW b, b \in Blocks, NEW q, q = d.c[n].call, \A k \in Of(d.c, q) : ~ InBlock(d.c[k]),
         \/ \A k \in Of(d.c, q) : d.c[k].astray
         \/ d.b[b].code.op # "trust" /\ (d.b[b].code.op = "retry" => d.b[b].code.to # d.b[b].next)
  PROVE  Continues(d, w, d.c, q, Resumed(d, b))
  <1>. DEFINE c == d.c
              to == d.b[b].code.to
              op == d.b[b].code.op
              lost == Lost(c, q)
              kept == IF to = d.b[b].next THEN c ELSE lost
              x == [lost[n] EXCEPT !.next = <<"clause", to>>]
              turned == [kept EXCEPT ![n].next = <<"clause", to>>]
              pushed == Append(lost, x)
              popped == Front(c)
              r == Resumed(d, b)
  <1>0. c \in Seq(ChoicePoints) /\ n \in Nat /\ n \in 1 .. n /\ DOMAIN c = 1 .. n
        /\ \A k \in 1 .. n : c[k] \in ChoicePoints
    BY DatabaseFacts, LenProperties, ElementOfSeq
  <1>1. r = CASE op = "retry" -> Enter(turned, b)
              [] op = "trust" -> Enter(popped, b)
              [] op = "try" -> Enter(pushed, b)
              [] OTHER -> Enter(lost, None)
    BY DEF Resumed
  <1>2. Loses(c, lost, q)
    BY <1>0, LostIs
  <1>3. c = d.c /\ n = Len(c) /\ q = c[n].call /\ n \in Of(c, q)
    BY <1>0 DEF Of
  <1>4. /\ \A k \in Of(c, q) : ~ InBlock(c[k])
        /\ \/ \A k \in Of(c, q) : c[k].astray
           \/ op # "trust" /\ (op = "retry" => kept = lost)
    OBVIOUS
  <1>5. kept = c \/ kept = lost
    OBVIOUS
  <1>6. op \in {"retry", "try"} => <<"clause", to>> \in Goals
    <2>1. op \in {"retry", "try"} => to \in Blocks
      BY GoesToBlock
    <2>. HIDE DEF op, to
    <2>. QED BY <2>1 DEF Goals
  <1>7. /\ x = [lost[n] EXCEPT !.next = <<"clause", to>>]
        /\ turned = [kept EXCEPT ![n].next = <<"clause", to>>]
        /\ pushed = Append(lost, x) /\ popped = Front(c)
    OBVIOUS
  <1>. DEFINE goal == <<"clause", to>>
  <1>8. goal[1] = "clause" /\ goal = <<"clause", to>> /\ (op \in {"retry", "try"} => goal \in Goals)
    BY <1>6
  <1>. HIDE DEF c, to, op, lost, kept, x, turned, pushed, popped, r, goal
  <1>9. /\ lost \in Seq(ChoicePoints) /\ Len(lost) = n /\ Leaves(c, lost, q) /\ Of(lost, q) = Of(c, q)
        /\ \A k \in 1 .. n : lost[k].call = c[k].call /\ lost[k].next = c[k].next /\ lost[k] \in ChoicePoints
        /\ \A k \in Of(lost, q) : lost[k].astray /\ ~ InBlock(lost[k])
    <2>1. /\ lost \in Seq(ChoicePoints) /\ Len(lost) = n /\ Leaves(c, lost, q) /\ Of(lost, q) = Of(c, q)
          /\ \A k \in 1 .. n : lost[k].call = c[k].call /\ lost[k].next = c[k].next
          /\ \A k \in Of(lost, q) : lost[k].astray
      BY <1>2, <1>3 DEF Loses
    <2>2. \A k \in Of(c, q) : lost[k].next = c[k].next
      BY <1>3, <2>1 DEF Of
    <2>3. \A k \in Of(lost, q) : ~ InBlock(lost[k])
      BY <1>4, <2>1, <2>2 DEF InBlock
    <2>4. \A k \in 1 .. n : lost[k] \in ChoicePoints
      BY <2>1, ElementOfSeq
    <2>. QED BY <2>1, <2>3, <2>4
  <1>10. CASE op = "retry"
    <2>1. /\ kept \in Seq(ChoicePoints) /\ n = Len(kept) /\ q = kept[n].call /\ Leaves(c, kept, q)
          /\ \A k \in Of(kept, q) : kept[k].astray /\ ~ InBlock(kept[k])
      <3>1. CASE kept = lost
        BY <1>0, <1>3, <1>9, <3>1
      <3>2. CASE kept # lost
        <4>1. kept = c /\ \A k \in Of(c, q) : c[k].astray
          BY <1>4, <1>5, <1>10, <3>2
        <4>. QED BY <1>0, <1>3, <1>4, <4>1, LeavesItself
      <3>. QED BY <3>1, <3>2
    <2>2. Turns(kept, turned, n, q, goal)
      BY <1>7, <1>8, <1>10, <2>1, TurnIs
    <2>3. /\ turned \in Seq(ChoicePoints) /\ Leaves(kept, turned, q) /\ Of(turned, q) = Of(kept, q)
          /\ \A k \in 1 .. n : k # n => turned[k] = kept[k]
          /\ turned[n] = [kept[n] EXCEPT !.next = goal] /\ kept[n] \in ChoicePoints /\ n \in Of(kept, q)
      BY <2>2 DEF Turns
    <2>4. turned[n].astray /\ ~ InBlock(turned[n])
      <3>1. turned[n].next = goal /\ turned[n].astray = kept[n].astray
        BY <2>3 DEF ChoicePoints
      <3>. QED BY <1>8, <2>1, <2>3, <3>1 DEF InBlock
    <2>5. \A k \in Of(turned, q) : turned[k].astray /\ ~ InBlock(turned[k])
      <3>1. \A k \in Of(turned, q) : k \in Of(kept, q) /\ k \in 1 .. n
        BY <2>1, <2>3 DEF Of
      <3>. QED BY <2>1, <2>3, <2>4, <3>1
    <2>6. Leaves(c, turned, q)
      BY <2>1, <2>3, LeavesOn
    <2>7. Strays(c, turned, q)
      BY <2>3, <2>5, <2>6 DEF Strays
    <2>8. Continues(d, w, c, q, Enter(turned, b))
      BY <2>7, StrayContinues
    <2>. QED BY <1>1, <1>10, <2>8 DEF r, c
  <1>11. CASE op = "trust"
    <2>1. \A k \in Of(c, q) : c[k].astray
      BY <1>4, <1>11
    <2>2. Pops(c, popped, n, q)
      BY <1>0, <1>3, <1>7, PopIs
    <2>3. /\ popped \in Seq(ChoicePoints) /\ Leaves(c, popped, q) /\ Of(popped, q) = Of(c, q) \ {n}
          /\ \A k \in 1 .. n - 1 : popped[k] = c[k]
      BY <2>2 DEF Pops
    <2>4. \A k \in Of(popped, q) : popped[k].astray /\ ~ InBlock(popped[k])
      <3>1. \A k \in Of(popped, q) : k \in Of(c, q) /\ k \in 1 .. n - 1
        <4>1. \A k \in Of(c, q) : k \in 1 .. n
          BY <1>3 DEF Of
        <4>. QED BY SMTT(30), <1>0, <2>3, <4>1
      <3>. QED BY <1>4, <2>1, <2>3, <3>1
    <2>5. Strays(c, popped, q)
      BY <2>3, <2>4 DEF Strays
    <2>6. Continues(d, w, c, q, Enter(popped, b))
      BY <2>5, StrayContinues
    <2>. QED BY <1>1, <1>11, <2>6 DEF r, c
  <1>12. CASE op = "try"
    <2>1. x \in ChoicePoints /\ x.next = goal /\ x.call = lost[n].call /\ x.astray = lost[n].astray
      <3>1. lost[n] \in ChoicePoints
        BY <1>0, <1>9
      <3>2. x = [lost[n] EXCEPT !.next = goal] /\ goal \in Goals
        BY <1>7, <1>8, <1>12
      <3>. QED BY <3>1, <3>2, NextReplaced
    <2>2. x.call = q /\ lost[n].astray
      BY <1>0, <1>3, <1>9, <2>1
    <2>3. Pushes(lost, pushed, x)
      BY <1>7, <1>9, <2>1, PushIs
    <2>4. /\ pushed \in Seq(ChoicePoints) /\ pushed[n + 1] = x /\ Leaves(lost, pushed, q)
          /\ Of(pushed, q) = Of(lost, q) \cup {n + 1} /\ \A k \in 1 .. n : pushed[k] = lost[k]
      BY <1>9, <2>2, <2>3 DEF Pushes
    <2>5. x.astray /\ ~ InBlock(x)
      BY <1>8, <2>1, <2>2 DEF InBlock
    <2>6. \A k \in Of(pushed, q) : pushed[k].astray /\ ~ InBlock(pushed[k])
      <3>1. \A k \in Of(lost, q) : k \in 1 .. n
        BY <1>9 DEF Of
      <3>. QED BY <1>9, <2>4, <2>5, <3>1
    <2>7. Strays(c, pushed, q)
      BY <1>9, <2>4, <2>6, LeavesOn DEF Strays
    <2>8. Continues(d, w, c, q, Enter(pushed, b))
      BY <2>7, StrayContinues
    <2>. QED BY <1>1, <1>12, <2>8 DEF r, c
  <1>13. CASE op \notin {"retry", "trust", "try"}
    <2>1. Strays(c, lost, q)
      BY <1>9 DEF Strays
    <2>2. Continues(d, w, c, q, Enter(lost, None))
      BY <2>1, StrayContinues
    <2>. QED BY <1>1, <1>13, <2>2 DEF r, c
  <1>. QED BY <1>10, <1>11, <1>12, <1>13


(* A failure comes to the newest choice point, n, of call q. *)
Newest(d, w, n, q) ==
  /\ d \in Databases /\ Chained(d, w) /\ n = Len(d.c) /\ n > 0 /\ q = d.c[n].call
  /\ Sound(d, w, d.c, q)

LEMMA NewestFacts ==
  ASSUME NEW d, NEW w, NEW n, NEW q, Newest(d, w, n, q)
  PROVE  /\ d \in Databases /\ Links(d, w) /\ Coded(d, w) /\ Chained(d, w)
         /\ In(w) \subseteq Blocks /\ Len(w) \in Nat
         /\ \A i \in 1 .. Len(w) : w[i] \in Blocks /\ w[i] \in In(w)
         /\ d.c \in Seq(ChoicePoints) /\ n \in Nat /\ n = Len(d.c) /\ n \in 1 .. n /\ n > 0
         /\ d.c[n] \in ChoicePoints /\ n \in Of(d.c, q) /\ q = d.c[n].call /\ Sound(d, w, d.c, q)
         /\ \A k \in Of(d.c, q) : k \in 1 .. n /\ d.c[k] \in ChoicePoints
  <1>1. /\ d \in Databases /\ Links(d, w) /\ Coded(d, w) /\ Chained(d, w) /\ n = Len(d.c) /\ n > 0
        /\ q = d.c[n].call /\ Sound(d, w, d.c, q)
    BY DEF Newest, Chained
  <1>2. In(w) \subseteq Blocks /\ Len(w) \in Nat /\ \A i \in 1 .. Len(w) : w[i] \in Blocks /\ w[i] \in In(w)
    BY <1>1, LinksFacts
  <1>3. d.c \in Seq(ChoicePoints)
    BY <1>1, DatabaseFacts
  <1>4. n \in Nat /\ n \in 1 .. n /\ \A k \in 1 .. n : d.c[k] \in ChoicePoints
    BY <1>1, <1>3, LenProperties, ElementOfSeq
  <1>5. n \in Of(d.c, q) /\ \A k \in Of(d.c, q) : k \in 1 .. n /\ d.c[k] \in ChoicePoints
    BY <1>1, <1>4 DEF Of
  <1>. QED BY <1>1, <1>2, <1>3, <1>4, <1>5

(* The older one alone can go on. *)
LEMMA PopContinues ==
  ASSUME NEW d, NEW w, NEW n, NEW q, Newest(d, w, n, q), NEW b, b \in Blocks \cup {None},
         NEW m, m = n - 1,
         \/ Of(d.c, q) = {n}
         \/ m \in 1 .. n /\ Of(d.c, q) = {m, n} /\ ~ d.c[m].astray
            /\ Goes(d, w, Having(d.c[m], b)) /\ d.c[m].todo \ {b} \subseteq Ahead(d, w, d.c[m])
  PROVE  Continues(d, w, d.c, q, Enter(Front(d.c), b))
  <1>. DEFINE r == Front(d.c)
  <1>0. /\ d.c \in Seq(ChoicePoints) /\ n \in Nat /\ n = Len(d.c) /\ n > 0 /\ q = d.c[n].call
    BY NewestFacts
  <1>1. Pops(d.c, r, n, q)
    BY <1>0, PopIs
  <1>. HIDE DEF r
  <1>2. /\ r \in Seq(ChoicePoints) /\ Leaves(d.c, r, q) /\ Of(r, q) = Of(d.c, q) \ {n}
        /\ \A k \in 1 .. n - 1 : r[k] = d.c[k]
    BY <1>1 DEF Pops
  <1>3. CASE Of(d.c, q) = {n}
    <2>1. Of(r, q) = {}
      BY <1>2, <1>3
    <2>2. Sound(d, w, Ran(r, q, b), q)
      BY <1>2, <2>1, SoundNone
    <2>3. Continues(d, w, d.c, q, Enter(r, b))
      BY <1>2, <2>2 DEF Continues, Enter
    <2>. QED BY <2>3 DEF r
  <1>4. CASE ~ (Of(d.c, q) = {n})
    <2>1. /\ m \in 1 .. n /\ Of(d.c, q) = {m, n} /\ ~ d.c[m].astray
          /\ Goes(d, w, Having(d.c[m], b)) /\ d.c[m].todo \ {b} \subseteq Ahead(d, w, d.c[m])
      BY <1>4
    <2>2. m # n /\ m \in 1 .. n - 1
      BY <1>0, <2>1
    <2>3. Of(r, q) = {m} /\ r[m] = d.c[m]
      BY <1>2, <2>1, <2>2
    <2>4. Sound(d, w, Ran(r, q, b), q)
      BY <1>2, <2>1, <2>3, SoundAlone
    <2>5. Continues(d, w, d.c, q, Enter(r, b))
      BY <1>2, <2>4 DEF Continues, Enter
    <2>. QED BY <2>5 DEF r
  <1>. QED BY <1>3, <1>4

(* The newest goes on to somewhere else. *)
LEMMA TurnContinues ==
  ASSUME NEW d, NEW w, NEW n, NEW q, Newest(d, w, n, q), NEW b, b \in Blocks \cup {None},
         NEW next, next \in Goals, ~ d.c[n].astray,
         NEW x, x = [d.c[n] EXCEPT !.next = next], Goes(d, w, Having(x, b)),
         NEW m, m = n - 1,
         \/ Of(d.c, q) = {n} /\ d.c[n].todo \ {b} \subseteq Ahead(d, w, x)
         \/ m \in 1 .. n /\ Of(d.c, q) = {m, n} /\ ~ d.c[m].astray
            /\ Pair(d, d.c[m], x) /\ Goes(d, w, Having(d.c[m], b))
            /\ d.c[n].todo \ {b} \subseteq Ahead(d, w, d.c[m]) \cup Ahead(d, w, x)
  PROVE  Continues(d, w, d.c, q, Enter([d.c EXCEPT ![n].next = next], b))
  <1>. DEFINE r == [d.c EXCEPT ![n].next = next]
  <1>0. /\ d.c \in Seq(ChoicePoints) /\ n \in Nat /\ n = Len(d.c) /\ n > 0 /\ q = d.c[n].call
        /\ d.c[n] \in ChoicePoints
    BY NewestFacts
  <1>1. Turns(d.c, r, n, q, next)
    BY <1>0, TurnIs
  <1>2. x.todo = d.c[n].todo /\ x.astray = d.c[n].astray
    BY <1>0, NextReplaced
  <1>. HIDE DEF r
  <1>3. /\ r \in Seq(ChoicePoints) /\ Leaves(d.c, r, q) /\ Of(r, q) = Of(d.c, q)
        /\ (\A k \in 1 .. n : k # n => r[k] = d.c[k]) /\ r[n] = x
    BY <1>1 DEF Turns
  <1>4. CASE Of(d.c, q) = {n} /\ d.c[n].todo \ {b} \subseteq Ahead(d, w, x)
    <2>1. Of(r, q) = {n}
      BY <1>3, <1>4
    <2>2. ~ r[n].astray /\ Goes(d, w, Having(r[n], b)) /\ r[n].todo \ {b} \subseteq Ahead(d, w, r[n])
      BY <1>2, <1>3, <1>4
    <2>3. Sound(d, w, Ran(r, q, b), q)
      BY <1>3, <2>1, <2>2, SoundAlone
    <2>4. Continues(d, w, d.c, q, Enter(r, b))
      BY <1>3, <2>3 DEF Continues, Enter
    <2>. QED BY <2>4 DEF r
  <1>5. CASE ~ (Of(d.c, q) = {n} /\ d.c[n].todo \ {b} \subseteq Ahead(d, w, x))
    <2>1. /\ m \in 1 .. n /\ Of(d.c, q) = {m, n} /\ ~ d.c[m].astray
          /\ Pair(d, d.c[m], x) /\ Goes(d, w, Having(d.c[m], b))
          /\ d.c[n].todo \ {b} \subseteq Ahead(d, w, d.c[m]) \cup Ahead(d, w, x)
      BY <1>5
    <2>2. m # n /\ m \in 1 .. n /\ n = m + 1
      BY SMTT(30), <1>0, <2>1
    <2>3. Of(r, q) = {m, n} /\ r[m] = d.c[m] /\ r[n] = x
      BY <1>3, <2>1, <2>2
    <2>4. /\ ~ r[m].astray /\ ~ r[n].astray /\ Goes(d, w, Having(r[m], b)) /\ Goes(d, w, Having(r[n], b))
          /\ Pair(d, r[m], r[n]) /\ r[n].todo \ {b} \subseteq Ahead(d, w, r[m]) \cup Ahead(d, w, r[n])
      BY <1>2, <2>1, <2>3
    <2>5. Sound(d, w, Ran(r, q, b), q)
      BY <1>3, <2>2, <2>3, <2>4, SoundTwo
    <2>6. Continues(d, w, d.c, q, Enter(r, b))
      BY <1>3, <2>5 DEF Continues, Enter
    <2>. QED BY <2>6 DEF r
  <1>. QED BY <1>4, <1>5

LEMMA NewestAre ==
  ASSUME NEW d, NEW w, NEW n, NEW q, Newest(d, w, n, q), ~ d.c[n].astray, NEW m, m = n - 1
  PROVE  /\ \A k \in Of(d.c, q) : ~ d.c[k].astray /\ Goes(d, w, d.c[k])
         /\ \/ Of(d.c, q) = {n} /\ d.c[n].todo \subseteq Ahead(d, w, d.c[n])
            \/ /\ m \in 1 .. n /\ Of(d.c, q) = {m, n} /\ Pair(d, d.c[m], d.c[n])
               /\ d.c[n].todo \subseteq Ahead(d, w, d.c[m]) \cup Ahead(d, w, d.c[n])
  <1>. DEFINE c == d.c
  <1>1. c \in Seq(ChoicePoints) /\ n = Len(c) /\ n > 0 /\ q = c[n].call /\ Sound(d, w, c, q) /\ ~ c[n].astray
    BY NewestFacts
  <1>. HIDE DEF c
  <1>2. n \in Nat /\ n \in 1 .. n /\ n \in Of(c, q)
    BY <1>1 DEF Of
  <1>3. \A k \in Of(c, q) : ~ c[k].astray /\ Goes(d, w, c[k]) /\ k \in 1 .. n
    BY <1>1, <1>2 DEF Sound, Of
  <1>4. \A j \in Of(c, q) : j = n \/ (j = m /\ Pair(d, c[j], c[n]))
    <2>. SUFFICES ASSUME NEW j \in Of(c, q), j # n PROVE j = m /\ Pair(d, c[j], c[n])
      OBVIOUS
    <2>0. j \in 1 .. n /\ n \in Nat
      BY <1>2, <1>3
    <2>1. j < n
      BY <2>0
    <2>2. n = j + 1 /\ Pair(d, c[j], c[n])
      BY <1>1, <1>2, <1>3, <2>1 DEF Sound
    <2>3. j = m
      BY <2>0, <2>2
    <2>. QED BY <2>2, <2>3
  <1>5. \A a \in c[n].todo : \E j \in Of(c, q) : a \in Ahead(d, w, c[j])
    BY <1>1, <1>2 DEF Sound
  <1>6. CASE Of(c, q) = {n}
    <2>1. \A k \in Of(c, q) : ~ c[k].astray /\ Goes(d, w, c[k])
      BY <1>3
    <2>2. c[n].todo \subseteq Ahead(d, w, c[n])
      BY <1>5, <1>6
    <2>. QED BY <1>6, <2>1, <2>2 DEF c
  <1>7. CASE Of(c, q) # {n}
    <2>1. PICK j \in Of(c, q) : j # n
      BY <1>2, <1>7
    <2>2. j = m /\ Pair(d, c[m], c[n]) /\ m \in 1 .. n
      BY <1>3, <1>4, <2>1
    <2>3. Of(c, q) = {m, n}
      BY <1>2, <1>4, <2>1, <2>2
    <2>4. \A k \in Of(c, q) : ~ c[k].astray /\ Goes(d, w, c[k])
      BY <1>3
    <2>5. c[n].todo \subseteq Ahead(d, w, c[m]) \cup Ahead(d, w, c[n])
      BY <1>5, <2>3
    <2>. QED BY <2>2, <2>3, <2>4, <2>5 DEF c
  <1>. QED BY <1>6, <1>7

(***************************************************************************)
(* A failure to the choice entry of a clause                               *)
(***************************************************************************)
(* The clause that a failure to block a comes to *)
Target(d, a) == IF IsDeleted(d, a) THEN NextClause(d, a) ELSE a

LEMMA TargetTyped ==
  ASSUME NEW d \in Databases, NEW w, Chained(d, w), NEW a, a \in Blocks
  PROVE  Target(d, a) \in Blocks \cup {None}
  <1>0. Links(d, w) /\ Coded(d, w) /\ In(w) \subseteq Blocks
    BY LinksFacts DEF Chained
  <1>1. CASE IsDeleted(d, a)
    <2>1. a # None /\ NextClause(d, a) = FirstFrom(d, d.b[a].id)
      BY <1>0, <1>1, LinksFacts DEF NextClause
    <2>2. d.b[a].id \in Int
      BY CodeTypes
    <2>3. NextClause(d, a) \in In(w) \cup {None}
      BY <1>0, <2>1, <2>2, FirstFromIn
    <2>. QED BY <1>0, <1>1, <2>3 DEF Target
  <1>2. CASE ~ IsDeleted(d, a)
    BY <1>2 DEF Target
  <1>. QED BY <1>1, <1>2

LEMMA FromFirst ==
  ASSUME NEW d \in Databases, NEW w, Links(d, w), NEW a, a \in Blocks, NEW i, i \in 1 .. Len(w),
         d.b[a].id <= d.b[w[i]].id, \A j \in 1 .. Len(w) : j < i => d.b[w[j]].id < d.b[a].id
  PROVE  From(d, w, a) \subseteq From(d, w, w[i])
  <1>. SUFFICES ASSUME NEW x \in From(d, w, a) PROVE x \in From(d, w, w[i])
    OBVIOUS
  <1>1. x \in In(w) /\ d.b[a].id <= d.b[x].id
    BY DEF From
  <1>2. PICK j : j \in 1 .. Len(w) /\ x = w[j]
    BY <1>1 DEF In
  <1>3. d.b[a].id \in Int /\ d.b[w[j]].id \in Int /\ Len(w) \in Nat
    BY <1>2, CodeTypes, LinksFacts
  <1>4. ~ (j < i)
    BY <1>1, <1>2, <1>3
  <1>5. i <= j
    BY <1>2, <1>3, <1>4
  <1>6. d.b[w[i]].id <= d.b[w[j]].id
    BY <1>2, <1>5, IdsApart
  <1>. QED BY <1>1, <1>2, <1>6 DEF From

LEMMA TargetIs ==
  ASSUME NEW d \in Databases, NEW w, Chained(d, w), NEW a, a \in Blocks, d.b[a].code # Free
  PROVE  \/ Target(d, a) = None /\ From(d, w, a) = {}
         \/ \E i \in 1 .. Len(w) : /\ Target(d, a) = w[i] /\ d.b[a].id <= d.b[w[i]].id
                                   /\ From(d, w, a) \subseteq From(d, w, w[i])
  <1>0. Links(d, w) /\ Coded(d, w) /\ In(w) \subseteq Blocks
    BY LinksFacts DEF Chained
  <1>1. CASE a \in In(w)
    <2>1. PICK i : i \in 1 .. Len(w) /\ a = w[i]
      BY <1>1 DEF In
    <2>2. Target(d, a) = w[i]
      BY <1>0, <2>1, CodeFacts DEF Target
    <2>3. d.b[a].id <= d.b[w[i]].id
      BY <1>0, <2>1, IdsApart
    <2>. QED BY <2>1, <2>2, <2>3
  <1>2. CASE a \notin In(w)
    <2>1. IsDeleted(d, a) /\ NextClause(d, a) = FirstFrom(d, d.b[a].id)
      BY SMTT(30), <1>0, <1>2, CodeFacts, NextClauseIs
    <2>2. Target(d, a) = FirstFrom(d, d.b[a].id)
      BY <2>1 DEF Target
    <2>. DEFINE id == d.b[a].id
    <2>3. id \in Int
      BY CodeTypes
    <2>4. CASE FirstFrom(d, id) = None /\ \A x \in In(w) : d.b[x].id < id
      <3>1. ASSUME NEW x \in In(w) PROVE ~ (id <= d.b[x].id)
        <4>1. d.b[x].id < id /\ d.b[x].id \in Int
          BY <1>0, <2>4, CodeTypes
        <4>. HIDE DEF id
        <4>. QED BY <2>3, <4>1
      <3>2. From(d, w, a) = {}
        BY <3>1 DEF From
      <3>. QED BY <2>2, <2>4, <3>2
    <2>5. CASE \E i \in 1 .. Len(w) : /\ FirstFrom(d, id) = w[i] /\ id <= d.b[w[i]].id
                                      /\ \A j \in 1 .. Len(w) : j < i => d.b[w[j]].id < id
      <3>1. PICK i : i \in 1 .. Len(w) /\ FirstFrom(d, id) = w[i] /\ id <= d.b[w[i]].id
                     /\ \A j \in 1 .. Len(w) : j < i => d.b[w[j]].id < id
        BY <2>5
      <3>2. From(d, w, a) \subseteq From(d, w, w[i])
        BY <1>0, <3>1, FromFirst
      <3>. QED BY <2>2, <3>1, <3>2
    <2>. HIDE DEF id
    <2>6. \/ FirstFrom(d, id) = None /\ \A x \in In(w) : d.b[x].id < id
          \/ \E i \in 1 .. Len(w) : /\ FirstFrom(d, id) = w[i] /\ id <= d.b[w[i]].id
                                    /\ \A j \in 1 .. Len(w) : j < i => d.b[w[j]].id < id
      BY <1>0, <2>3, FirstFromIs
    <2>. QED BY <2>4, <2>5, <2>6
  <1>. QED BY <1>1, <1>2

LEMMA FailToFail ==
  ASSUME NEW d, NEW w, NEW n, NEW q, Newest(d, w, n, q), ~ d.c[n].astray, d.c[n].next[1] = "fail"
  PROVE  Continues(d, w, d.c, q, Enter(Front(d.c), None))
  <1>. DEFINE m == n - 1
  <1>1. m = n - 1
    OBVIOUS
  <1>. HIDE DEF m
  <1>2. /\ d.c[n] \in ChoicePoints /\ d.c[n].next = <<"fail">>
    BY NewestFacts, ChoicePointFacts
  <1>3. CASE Of(d.c, q) = {n}
    BY <1>1, <1>3, PopContinues
  <1>4. CASE Of(d.c, q) # {n}
    <2>1. Pair(d, d.c[m], d.c[n])
      BY <1>1, <1>4, NewestAre
    <2>. QED BY <1>2, <2>1 DEF Pair
  <1>. QED BY <1>3, <1>4

(* What is beside a choice point that goes on along the chain: none of the *)
(* call or one that has nothing left to try *)
Beside(d, w, n, q, m) ==
  \/ Of(d.c, q) = {n}
  \/ /\ m \in 1 .. n /\ Of(d.c, q) = {m, n} /\ ~ d.c[m].astray /\ d.c[m] \in ChoicePoints
     /\ d.c[m].next = <<"fail">> /\ d.c[m].todo = d.c[n].todo /\ d.c[m].ran = d.c[n].ran
     /\ Goes(d, w, d.c[m])

LEMMA BesideClause ==
  ASSUME NEW d, NEW w, NEW n, NEW q, Newest(d, w, n, q), ~ d.c[n].astray, d.c[n].next[1] = "clause",
         NEW m, m = n - 1
  PROVE  /\ Beside(d, w, n, q, m) /\ \A k \in Of(d.c, q) : ~ InBlock(d.c[k])
         /\ Goes(d, w, d.c[n]) /\ d.c[n].todo \subseteq From(d, w, d.c[n].next[2])
         /\ d.c[n].next[2] \in Blocks /\ d.b[d.c[n].next[2]].code # Free
  <1>1. /\ \A k \in Of(d.c, q) : ~ d.c[k].astray /\ Goes(d, w, d.c[k])
        /\ \/ Of(d.c, q) = {n} /\ d.c[n].todo \subseteq Ahead(d, w, d.c[n])
           \/ /\ m \in 1 .. n /\ Of(d.c, q) = {m, n} /\ Pair(d, d.c[m], d.c[n])
              /\ d.c[n].todo \subseteq Ahead(d, w, d.c[m]) \cup Ahead(d, w, d.c[n])
    BY NewestAre
  <1>2. n \in Of(d.c, q) /\ \A k \in Of(d.c, q) : d.c[k] \in ChoicePoints
    BY NewestFacts
  <1>3. Ahead(d, w, d.c[n]) = From(d, w, d.c[n].next[2]) /\ ~ InBlock(d.c[n])
    BY DEF Ahead, InBlock
  <1>4. Goes(d, w, d.c[n]) /\ d.c[n].next[2] \in Blocks /\ d.b[d.c[n].next[2]].code # Free
    <2>1. Goes(d, w, d.c[n])
      BY <1>1, <1>2
    <2>. QED BY <2>1 DEF Goes
  <1>5. CASE Of(d.c, q) = {n}
    <2>1. d.c[n].todo \subseteq Ahead(d, w, d.c[n])
      <3>1. Pair(d, d.c[m], d.c[n]) => d.c[m].todo = d.c[n].todo
        BY DEF Pair
      <3>2. m \in 1 .. n /\ Of(d.c, q) = {m, n} => m = n
        BY <1>5
      <3>3. n \in Nat
        BY NewestFacts
      <3>4. m # n
        BY <3>3
      <3>. QED BY <1>1, <3>2, <3>4
    <2>. QED BY <1>3, <1>4, <1>5, <2>1 DEF Beside
  <1>6. CASE Of(d.c, q) # {n}
    <2>1. /\ m \in 1 .. n /\ Of(d.c, q) = {m, n} /\ Pair(d, d.c[m], d.c[n])
          /\ d.c[n].todo \subseteq Ahead(d, w, d.c[m]) \cup Ahead(d, w, d.c[n])
      BY <1>1, <1>6
    <2>2. /\ d.c[m].next = <<"fail">> /\ d.c[m].todo = d.c[n].todo /\ d.c[m].ran = d.c[n].ran
      BY <2>1 DEF Pair
    <2>3. Ahead(d, w, d.c[m]) = {} /\ ~ InBlock(d.c[m])
      BY <2>2 DEF Ahead, InBlock
    <2>4. ~ d.c[m].astray /\ d.c[m] \in ChoicePoints /\ Goes(d, w, d.c[m])
      BY <1>1, <1>2, <2>1
    <2>5. \A k \in Of(d.c, q) : ~ InBlock(d.c[k])
      BY <1>3, <2>1, <2>3
    <2>6. d.c[n].todo \subseteq From(d, w, d.c[n].next[2])
      BY <1>3, <2>1, <2>3
    <2>. QED BY <1>4, <2>1, <2>2, <2>4, <2>5, <2>6 DEF Beside
  <1>. QED BY <1>5, <1>6

(* The one beside it runs b as well. *)
LEMMA BesideHaving ==
  ASSUME NEW d, NEW w, NEW n, NEW q, NEW m, Beside(d, w, n, q, m), Of(d.c, q) # {n},
         In(w) \subseteq Blocks, NEW b, b \in In(w)
  PROVE  Goes(d, w, Having(d.c[m], b)) /\ Ahead(d, w, d.c[m]) = {}
  <1>1. d.c[m] \in ChoicePoints /\ d.c[m].next = <<"fail">> /\ Goes(d, w, d.c[m])
    BY DEF Beside
  <1>2. Goes(d, w, Having(d.c[m], b))
    BY <1>1, HavingGoes
  <1>3. Ahead(d, w, d.c[m]) = {}
    BY <1>1 DEF Ahead
  <1>. QED BY <1>2, <1>3

(* RETRY_ME of clause w[i] that goes on to the next clause of the chain *)
LEMMA RetryOnWay ==
  ASSUME NEW d, NEW w, NEW n, NEW q, Newest(d, w, n, q), ~ d.c[n].astray, d.c[n].next[1] = "clause",
         NEW i, i \in 1 .. Len(w), i + 1 \in 1 .. Len(w),
         From(d, w, d.c[n].next[2]) \subseteq From(d, w, w[i]),
         d.b[d.c[n].next[2]].id <= d.b[w[i]].id,
         NEW b, b = w[i], NEW to, to = w[i + 1], NEW goal, goal = <<"clause", to>>
  PROVE  Continues(d, w, d.c, q, Enter([d.c EXCEPT ![n].next = goal], b))
  <1>. DEFINE m == n - 1
              cp == d.c[n]
              x == [cp EXCEPT !.next = goal]
  <1>0. m = n - 1 /\ x = [d.c[n] EXCEPT !.next = goal]
    OBVIOUS
  <1>1. /\ d \in Databases /\ Links(d, w) /\ Coded(d, w) /\ In(w) \subseteq Blocks /\ Len(w) \in Nat
        /\ (\A j \in 1 .. Len(w) : w[j] \in Blocks /\ w[j] \in In(w)) /\ cp \in ChoicePoints
    BY NewestFacts
  <1>2. /\ Beside(d, w, n, q, m) /\ Goes(d, w, cp) /\ cp.todo \subseteq From(d, w, cp.next[2])
        /\ cp.next[2] \in Blocks
    BY BesideClause
  <1>3. b \in In(w) /\ b \in Blocks /\ to \in In(w) /\ to \in Blocks /\ d.b[to].code # Free
        /\ b \in Blocks \cup {None}
    <2>1. b \in In(w) /\ b \in Blocks /\ to \in In(w) /\ to \in Blocks
      BY <1>1
    <2>2. d.b[to].code # Free
      BY <1>1, CodeInside
    <2>. QED BY <2>1, <2>2
  <1>4. goal \in Goals /\ goal[1] = "clause" /\ goal[2] = to
    BY <1>3 DEF Goals
  <1>5. x \in ChoicePoints /\ x.next = goal /\ x.todo = cp.todo /\ x.ran = cp.ran /\ x.astray = cp.astray
    BY <1>1, <1>4, NextReplaced
  <1>6. d.b[b].id < d.b[to].id
    <2>1. i < i + 1
      BY <1>1
    <2>. QED BY <1>1, <2>1 DEF Links
  <1>. HIDE DEF x, m
  <1>7. ~ InBlock(x) /\ Place(d, x) = to
    BY <1>4, <1>5 DEF InBlock, Place
  <1>8. Goes(d, w, x)
    <2>1. cp.next[1] # "fail" /\ Place(d, cp) = cp.next[2]
      BY DEF Place, InBlock
    <2>2. d.b[cp.next[2]].id <= d.b[to].id
      <3>1. d.b[cp.next[2]].id \in Int /\ d.b[b].id \in Int /\ d.b[to].id \in Int
        BY <1>1, <1>2, <1>3, CodeTypes
      <3>2. d.b[cp.next[2]].id <= d.b[b].id
        OBVIOUS
      <3>. QED BY Zenon, <1>6, <3>1, <3>2, NotAfter
    <2>3. x.next[1] = "clause" /\ x.next[2] = to
      BY <1>4, <1>5
    <2>. HIDE DEF cp
    <2>. QED BY <1>1, <1>2, <1>3, <1>5, <1>7, <2>1, <2>2, <2>3, GoesOn
  <1>9. Goes(d, w, Having(x, b))
    BY <1>1, <1>3, <1>5, <1>6, <1>7, <1>8, HavingGoes
  <1>10. cp.todo \ {b} \subseteq Ahead(d, w, x)
    <2>1. Ahead(d, w, x) = From(d, w, to)
      BY <1>4, <1>5 DEF Ahead
    <2>2. ASSUME NEW a \in cp.todo, a # b PROVE a \in From(d, w, to)
      <3>1. a \in In(w) /\ d.b[b].id <= d.b[a].id
        BY <1>2, <2>2 DEF From
      <3>2. PICK j : j \in 1 .. Len(w) /\ a = w[j]
        BY <3>1 DEF In
      <3>3. i <= j /\ i # j
        BY <1>1, <2>2, <3>1, <3>2, IdsApart
      <3>4. i + 1 <= j
        BY <3>2, <3>3
      <3>5. d.b[w[i + 1]].id <= d.b[w[j]].id
        BY <1>1, <3>2, <3>4, IdsApart
      <3>. QED BY <3>1, <3>2, <3>5 DEF From
    <2>. QED BY <2>1, <2>2
  <1>11. CASE Of(d.c, q) = {n}
    BY <1>0, <1>3, <1>4, <1>9, <1>10, <1>11, TurnContinues
  <1>12. CASE Of(d.c, q) # {n}
    <2>1. /\ m \in 1 .. n /\ Of(d.c, q) = {m, n} /\ ~ d.c[m].astray
          /\ d.c[m].next = <<"fail">> /\ d.c[m].todo = cp.todo /\ d.c[m].ran = cp.ran
      BY <1>2, <1>12 DEF Beside
    <2>2. Goes(d, w, Having(d.c[m], b))
      BY <1>1, <1>2, <1>3, <1>12, BesideHaving
    <2>3. Pair(d, d.c[m], x)
      BY <1>4, <1>5, <2>1 DEF Pair
    <2>4. cp.todo \ {b} \subseteq Ahead(d, w, d.c[m]) \cup Ahead(d, w, x)
      BY <1>10
    <2>. QED BY <1>0, <1>3, <1>4, <1>9, <2>1, <2>2, <2>3, <2>4, TurnContinues
  <1>. QED BY <1>11, <1>12

(* TRUST_ME of the last clause *)
LEMMA TrustOnWay ==
  ASSUME NEW d, NEW w, NEW n, NEW q, Newest(d, w, n, q), ~ d.c[n].astray, d.c[n].next[1] = "clause",
         NEW i, i \in 1 .. Len(w), i = Len(w),
         From(d, w, d.c[n].next[2]) \subseteq From(d, w, w[i]),
         NEW b, b = w[i]
  PROVE  Continues(d, w, d.c, q, Enter(Front(d.c), b))
  <1>. DEFINE m == n - 1
              cp == d.c[n]
  <1>0. m = n - 1
    OBVIOUS
  <1>1. /\ d \in Databases /\ Links(d, w) /\ In(w) \subseteq Blocks /\ Len(w) \in Nat
        /\ (\A j \in 1 .. Len(w) : w[j] \in Blocks /\ w[j] \in In(w))
    BY NewestFacts
  <1>2. Beside(d, w, n, q, m) /\ cp.todo \subseteq From(d, w, cp.next[2])
    BY BesideClause
  <1>3. b \in In(w) /\ b \in Blocks \cup {None}
    BY <1>1
  <1>4. cp.todo \subseteq {b}
    <2>. SUFFICES ASSUME NEW a \in cp.todo PROVE a = b
      OBVIOUS
    <2>1. a \in In(w) /\ d.b[b].id <= d.b[a].id
      BY <1>2 DEF From
    <2>2. PICK j : j \in 1 .. Len(w) /\ a = w[j]
      BY <2>1 DEF In
    <2>3. i <= j
      BY <1>1, <2>1, <2>2, IdsApart
    <2>4. j = i
      BY <1>1, <2>2, <2>3
    <2>. QED BY <2>2, <2>4
  <1>. HIDE DEF m
  <1>5. CASE Of(d.c, q) = {n}
    BY <1>0, <1>3, <1>5, PopContinues
  <1>6. CASE Of(d.c, q) # {n}
    <2>1. m \in 1 .. n /\ Of(d.c, q) = {m, n} /\ ~ d.c[m].astray /\ d.c[m].todo = cp.todo
      BY <1>2, <1>6 DEF Beside
    <2>2. Goes(d, w, Having(d.c[m], b))
      BY <1>1, <1>2, <1>3, <1>6, BesideHaving
    <2>3. d.c[m].todo \ {b} \subseteq Ahead(d, w, d.c[m])
      BY <1>4, <2>1
    <2>. QED BY <1>0, <1>3, <2>1, <2>2, <2>3, PopContinues
  <1>. QED BY <1>5, <1>6

LEMMA ResumedOnWay ==
  ASSUME NEW d, NEW w, NEW n, NEW q, Newest(d, w, n, q), ~ d.c[n].astray, d.c[n].next[1] = "clause",
         NEW i, i \in 1 .. Len(w),
         From(d, w, d.c[n].next[2]) \subseteq From(d, w, w[i]),
         d.b[d.c[n].next[2]].id <= d.b[w[i]].id
  PROVE  Continues(d, w, d.c, q, Resumed(d, w[i]))
  <1>. DEFINE b == w[i]
              op == d.b[b].code.op
              to == d.b[b].code.to
              goal == <<"clause", to>>
  <1>1. /\ d \in Databases /\ Links(d, w) /\ Coded(d, w) /\ Chained(d, w) /\ Len(w) \in Nat /\ b \in Blocks
        /\ n = Len(d.c) /\ n > 0 /\ q = d.c[n].call
        /\ \A j \in 1 .. Len(w) : w[j] \in Blocks
    BY NewestFacts
  <1>2. b = w[i] /\ to = d.b[b].code.to /\ op = d.b[b].code.op /\ goal = <<"clause", to>>
    OBVIOUS
  <1>. HIDE DEF b, op, to, goal
  <1>3. CASE op = "retry" /\ to = d.b[b].next
    <2>1. to \in Blocks
      BY <1>1, <1>2, <1>3, GoesToBlock
    <2>2. i # Len(w)
      BY <1>1, <1>2, <1>3, <2>1, LinksFacts DEF Links
    <2>3. i + 1 \in 1 .. Len(w) /\ to = w[i + 1]
      BY SMTT(30), <1>1, <1>2, <1>3, <2>2 DEF Links
    <2>4. Resumed(d, b) = Enter([d.c EXCEPT ![n].next = goal], b)
      BY <1>1, <1>2, <1>3 DEF Resumed
    <2>5. Continues(d, w, d.c, q, Enter([d.c EXCEPT ![n].next = goal], b))
      BY <1>2, <2>3, RetryOnWay
    <2>. QED BY <1>2, <2>4, <2>5
  <1>4. CASE op = "trust"
    <2>1. i = Len(w)
      <3>. SUFFICES ASSUME i # Len(w) PROVE FALSE
        OBVIOUS
      <3>1. i \in 1 .. Len(w) - 1
        BY SMTT(30), <1>1
      <3>. QED BY <1>1, <1>2, <1>4, <3>1, CodeFacts
    <2>2. Resumed(d, b) = Enter(Front(d.c), b)
      BY <1>2, <1>4 DEF Resumed
    <2>3. Continues(d, w, d.c, q, Enter(Front(d.c), b))
      BY <1>2, <2>1, TrustOnWay
    <2>. QED BY <1>2, <2>2, <2>3
  <1>5. CASE op # "trust" /\ (op = "retry" => to # d.b[b].next)
    <2>. DEFINE m == n - 1
    <2>1. m = n - 1
      OBVIOUS
    <2>. HIDE DEF m
    <2>2. \A k \in Of(d.c, q) : ~ InBlock(d.c[k])
      BY <2>1, BesideClause
    <2>3. Continues(d, w, d.c, q, Resumed(d, b))
      BY <1>1, <1>2, <1>5, <2>2, ResumedStray
    <2>. QED BY <1>2, <2>3
  <1>. QED BY <1>3, <1>4, <1>5

LEMMA FailToClause ==
  ASSUME NEW d, NEW w, NEW n, NEW q, Newest(d, w, n, q), ~ d.c[n].astray, d.c[n].next[1] = "clause",
         NEW t, t = Target(d, d.c[n].next[2])
  PROVE  Continues(d, w, d.c, q, IF t = None THEN Enter(Front(d.c), None) ELSE Resumed(d, t))
  <1>. DEFINE m == n - 1
              a == d.c[n].next[2]
  <1>0. m = n - 1 /\ a = d.c[n].next[2]
    OBVIOUS
  <1>. HIDE DEF m
  <1>1. d \in Databases /\ Links(d, w) /\ Chained(d, w)
    BY NewestFacts
  <1>2. Beside(d, w, n, q, m) /\ d.c[n].todo \subseteq From(d, w, a) /\ a \in Blocks /\ d.b[a].code # Free
    BY <1>0, BesideClause
  <1>3. CASE t = None
    <2>1. \A i \in 1 .. Len(w) : w[i] # None
      BY <1>1, LinksFacts
    <2>. HIDE DEF a
    <2>2. t = Target(d, a)
      BY <1>0
    <2>3. From(d, w, a) = {}
      BY <1>1, <1>2, <1>3, <2>1, <2>2, TargetIs
    <2>4. d.c[n].todo = {}
      BY <1>2, <2>3
    <2>5. CASE Of(d.c, q) # {n}
      <3>1. /\ m \in 1 .. n /\ Of(d.c, q) = {m, n} /\ ~ d.c[m].astray /\ d.c[m].todo = {}
            /\ d.c[m] \in ChoicePoints /\ Goes(d, w, d.c[m])
        BY <1>2, <2>4, <2>5 DEF Beside
      <3>. DEFINE x == d.c[m]
                  z == None
      <3>2. x \in ChoicePoints /\ Goes(d, w, x) /\ In(w) \subseteq Blocks /\ z = None
        BY <1>1, <3>1, LinksFacts
      <3>. HIDE DEF x, z
      <3>3. Goes(d, w, Having(x, z))
        BY <3>2, HavingGoes
      <3>4. Goes(d, w, Having(d.c[m], None))
        BY <3>2, <3>3 DEF x
      <3>5. d.c[m].todo \ {None} \subseteq Ahead(d, w, d.c[m])
        BY <3>1
      <3>6. Continues(d, w, d.c, q, Enter(Front(d.c), None))
        BY <1>0, <3>1, <3>4, <3>5, PopContinues
      <3>. QED BY <1>3, <3>6
    <2>6. CASE Of(d.c, q) = {n}
      <3>1. Continues(d, w, d.c, q, Enter(Front(d.c), None))
        BY <1>0, <2>6, PopContinues
      <3>. QED BY <1>3, <3>1
    <2>. QED BY <2>5, <2>6
  <1>4. CASE t # None
    <2>1. PICK i : i \in 1 .. Len(w) /\ t = w[i] /\ d.b[a].id <= d.b[w[i]].id
                   /\ From(d, w, a) \subseteq From(d, w, w[i])
      <3>1. t = Target(d, a)
        BY <1>0
      <3>. HIDE DEF a
      <3>. QED BY <1>1, <1>2, <1>4, <3>1, TargetIs
    <2>2. Continues(d, w, d.c, q, Resumed(d, w[i]))
      BY <2>1, ResumedOnWay
    <2>. QED BY <1>4, <2>1, <2>2
  <1>. QED BY <1>3, <1>4

LEMMA FailStray ==
  ASSUME NEW d, NEW w, NEW n, NEW q, Newest(d, w, n, q), d.c[n].astray,
         NEW t, t = Target(d, d.c[n].next[2])
  PROVE  /\ d.c[n].next[1] = "fail" \/ d.c[n].next[1] = "clause"
         /\ Continues(d, w, d.c, q, Enter(Front(d.c), None))
         /\ d.c[n].next[1] = "clause" =>
              Continues(d, w, d.c, q, IF t = None THEN Enter(Front(d.c), None) ELSE Resumed(d, t))
  <1>1. /\ d \in Databases /\ Chained(d, w) /\ d.c \in Seq(ChoicePoints) /\ n \in Nat /\ n = Len(d.c) /\ n > 0
        /\ q = d.c[n].call /\ Sound(d, w, d.c, q) /\ n \in Of(d.c, q) /\ d.c[n] \in ChoicePoints
        /\ \A k \in Of(d.c, q) : k \in 1 .. n
    BY NewestFacts
  <1>2. \A k \in Of(d.c, q) : d.c[k].astray /\ ~ InBlock(d.c[k])
    BY <1>1 DEF Sound
  <1>3. d.c[n].next[1] = "fail" \/ d.c[n].next[1] = "clause"
    BY <1>1, <1>2, ChoicePointFacts
  <1>. DEFINE c == d.c
              r == Front(c)
  <1>4. Continues(d, w, c, q, Enter(r, None))
    <2>1. c \in Seq(ChoicePoints) /\ n = Len(c) /\ n > 0 /\ q = c[n].call
      BY <1>1
    <2>2. Pops(c, r, n, q)
      BY <2>1, PopIs
    <2>3. \A k \in Of(c, q) : c[k].astray /\ ~ InBlock(c[k]) /\ k \in 1 .. n
      BY <1>1, <1>2
    <2>. HIDE DEF c, r
    <2>4. /\ r \in Seq(ChoicePoints) /\ Leaves(c, r, q) /\ Of(r, q) = Of(c, q) \ {n}
          /\ \A k \in 1 .. n - 1 : r[k] = c[k]
      BY <2>2 DEF Pops
    <2>5. \A k \in Of(r, q) : k \in Of(c, q) /\ k \in 1 .. n - 1
      BY SMTT(30), <1>1, <2>3, <2>4
    <2>6. \A k \in Of(r, q) : r[k].astray /\ ~ InBlock(r[k])
      BY <2>3, <2>4, <2>5
    <2>7. Strays(c, r, q)
      BY <2>4, <2>6 DEF Strays
    <2>. QED BY <2>7, StrayContinues
  <1>5. ASSUME d.c[n].next[1] = "clause", t # None
        PROVE  Continues(d, w, d.c, q, Resumed(d, t))
    <2>1. d.c[n].next[2] \in Blocks
      BY <1>1, <1>5, ChoicePointFacts
    <2>2. t \in Blocks
      BY <1>1, <1>5, <2>1, TargetTyped
    <2>. QED BY <1>1, <1>2, <2>2, ResumedStray
  <1>. QED BY <1>3, <1>4, <1>5

(***************************************************************************)
(* A failure to the index block                                            *)
(***************************************************************************)
(* The choice point of the nodes is alone. *)
LEMMA FailToTop ==
  ASSUME NEW d, NEW w, NEW n, NEW q, Newest(d, w, n, q), NEW cp, cp = d.c[n], ~ cp.astray,
         cp.next[1] = "top", NEW i, i = cp.next[2],
         NEW nodes, nodes = After(Nodes(d, cp.key), i),
         NEW c2, c2 = IF nodes = {} THEN Front(d.c) ELSE [d.c EXCEPT ![n].next = <<"top", Min(nodes)>>]
  PROVE  Continues(d, w, d.c, q, EnterNode(d, c2, i, cp))
  <1>. DEFINE m == n - 1
  <1>0. m = n - 1
    OBVIOUS
  <1>. HIDE DEF m
  <1>1. /\ d \in Databases /\ Links(d, w) /\ Coded(d, w) /\ Chained(d, w) /\ Len(w) \in Nat
        /\ d.c \in Seq(ChoicePoints) /\ n = Len(d.c) /\ n > 0 /\ n \in Nat /\ cp \in ChoicePoints
        /\ cp.call = q /\ n \in Of(d.c, q) /\ In(w) \subseteq Blocks
    BY NewestFacts
  <1>2. ~ d.c[n].astray /\ cp = d.c[n]
    OBVIOUS
  <1>3. /\ Goes(d, w, cp)
        /\ \/ Of(d.c, q) = {n} /\ cp.todo \subseteq Ahead(d, w, cp)
           \/ /\ m \in 1 .. n /\ Of(d.c, q) = {m, n} /\ Pair(d, d.c[m], cp)
    <2>1. /\ \A k \in Of(d.c, q) : ~ d.c[k].astray /\ Goes(d, w, d.c[k])
          /\ \/ Of(d.c, q) = {n} /\ d.c[n].todo \subseteq Ahead(d, w, d.c[n])
             \/ /\ m \in 1 .. n /\ Of(d.c, q) = {m, n} /\ Pair(d, d.c[m], d.c[n])
                /\ d.c[n].todo \subseteq Ahead(d, w, d.c[m]) \cup Ahead(d, w, d.c[n])
      BY <1>0, <1>2, NewestAre
    <2>. QED BY <1>1, <1>2, <2>1
  <1>4. ~ Pair(d, d.c[m], cp)
    BY DEF Pair
  <1>5. Of(d.c, q) = {n} /\ cp.todo \subseteq Ahead(d, w, cp)
    BY <1>3, <1>4
  <1>6. InBlock(cp) /\ InIndex(d, w, cp) /\ cp.key \in CallKeys
    BY <1>1, <1>3, ChoicePointFacts DEF Goes
  <1>7. HasIndex(d, w, cp.key) /\ i \in Nodes(d, cp.key) /\ i \in 1 .. Len(w)
    BY <1>1, <1>6 DEF InIndex, HasIndex
  <1>8. d.p.index = w
    BY <1>7, HasIndexFacts
  <1>9. Place(d, cp) = w[i]
    BY <1>6, <1>8 DEF Place
  <1>10. cp.ran \subseteq In(w) /\ \A a \in cp.ran : d.b[a].id < d.b[w[i]].id
    BY <1>3, <1>9 DEF Goes
  <1>11. cp.todo \subseteq AtOrAfter(d, w, cp.key, i)
    BY <1>1, <1>5, <1>7, TopAhead
  <1>12. /\ c2 \in Seq(ChoicePoints) /\ Leaves(d.c, c2, q)
         /\ IF nodes = {} THEN Of(c2, q) = {} ELSE Of(c2, q) = {Len(c2)} /\ c2[Len(c2)] = Top(d, i, cp)
    <2>1. CASE nodes = {}
      <3>1. c2 = Front(d.c)
        BY <2>1
      <3>2. Pops(d.c, c2, n, q)
        BY SMTT(30), <1>1, <3>1, PopIs
      <3>3. c2 \in Seq(ChoicePoints) /\ Leaves(d.c, c2, q) /\ Of(c2, q) = Of(d.c, q) \ {n}
        BY <3>2 DEF Pops
      <3>. QED BY <1>5, <2>1, <3>3
    <2>2. CASE nodes # {}
      <3>. DEFINE goal == <<"top", Min(nodes)>>
      <3>1. Min(nodes) \in nodes
        <4>1. nodes \subseteq Nat
          BY <1>7, HasIndexFacts DEF After
        <4>. QED BY <2>2, <4>1, MinOf
      <3>2. Min(nodes) \in Blocks
        <4>1. nodes \subseteq 1 .. Len(w)
          BY <1>7, HasIndexFacts DEF After
        <4>. QED BY <1>1, <3>1, <4>1, ChainFits
      <3>3. goal \in Goals
        BY <3>2 DEF Goals
      <3>4. c2 = [d.c EXCEPT ![n].next = goal] /\ goal = <<"top", Min(nodes)>>
        BY <2>2
      <3>5. [cp EXCEPT !.next = goal] = Top(d, i, cp)
        BY <3>4 DEF Top
      <3>. HIDE DEF goal
      <3>6. Turns(d.c, c2, n, q, goal)
        <4>1. q = d.c[n].call
          BY NewestFacts
        <4>2. Turns(d.c, [d.c EXCEPT ![n].next = goal], n, q, goal)
          BY <1>1, <3>3, <4>1, TurnIs
        <4>. QED BY <3>4, <4>2
      <3>7. /\ c2 \in Seq(ChoicePoints) /\ Leaves(d.c, c2, q) /\ Of(c2, q) = Of(d.c, q) /\ Len(c2) = n
            /\ c2[n] = [d.c[n] EXCEPT !.next = goal]
        BY <3>6 DEF Turns
      <3>8. c2[n] = Top(d, i, cp)
        BY <3>5, <3>7
      <3>. QED BY <1>5, <2>2, <3>7, <3>8
    <2>. QED BY <2>1, <2>2
  <1>13. NodeReady(d, w, c2, i, cp)
    BY <1>1, <1>7, <1>10, <1>11, <1>12 DEF NodeReady
  <1>. DEFINE r == EnterNode(d, c2, i, cp)
  <1>14. Enters(d, w, c2, cp, r)
    BY <1>13, EnteredNode
  <1>. HIDE DEF r
  <1>15. Continues(d, w, c2, q, r)
    BY <1>1, <1>14 DEF Enters
  <1>16. Leaves(c2, r.cps, q)
    BY <1>15 DEF Continues
  <1>17. Leaves(d.c, r.cps, q)
    BY <1>12, <1>16, LeavesOn
  <1>18. Continues(d, w, d.c, q, r)
    BY <1>15, <1>17 DEF Continues
  <1>. QED BY <1>18 DEF r

(* What is beside a choice point in a table *)
Above(d, w, n, q, m, cp, i) ==
  \/ Of(d.c, q) = {n} /\ cp.todo \subseteq Ahead(d, w, cp)
  \/ /\ m \in 1 .. n /\ Of(d.c, q) = {m, n} /\ ~ d.c[m].astray /\ d.c[m] \in ChoicePoints
     /\ Goes(d, w, d.c[m]) /\ d.c[m].next[1] = "top" /\ d.c[m].key = cp.key
     /\ d.c[m].todo = cp.todo /\ d.c[m].ran = cp.ran
     /\ \A x \in Matches(d, i, cp.key) : x < d.c[m].next[2]
     /\ Goes(d, w, Having(d.c[m], w[i]))
     /\ cp.todo \subseteq Ahead(d, w, d.c[m]) \cup Ahead(d, w, cp)

LEMMA AboveBottom ==
  ASSUME NEW d, NEW w, NEW n, NEW q, Newest(d, w, n, q), NEW cp, cp = d.c[n], ~ cp.astray,
         cp.next[1] = "bottom", NEW i, i = cp.next[2], NEW m, m = n - 1
  PROVE  /\ Above(d, w, n, q, m, cp, i) /\ Goes(d, w, cp) /\ InIndex(d, w, cp)
         /\ HasIndex(d, w, cp.key) /\ i \in 1 .. Len(w) /\ i \in Matches(d, i, cp.key) /\ cp.key # "list"
         /\ Place(d, cp) = w[i]
  <1>1. /\ d \in Databases /\ Links(d, w) /\ Coded(d, w) /\ Chained(d, w) /\ Len(w) \in Nat
        /\ cp \in ChoicePoints /\ n \in Of(d.c, q) /\ In(w) \subseteq Blocks
        /\ \A k \in Of(d.c, q) : d.c[k] \in ChoicePoints
    BY NewestFacts
  <1>2. ~ d.c[n].astray /\ cp = d.c[n]
    OBVIOUS
  <1>3. /\ \A k \in Of(d.c, q) : ~ d.c[k].astray /\ Goes(d, w, d.c[k])
        /\ \/ Of(d.c, q) = {n} /\ cp.todo \subseteq Ahead(d, w, cp)
           \/ /\ m \in 1 .. n /\ Of(d.c, q) = {m, n} /\ Pair(d, d.c[m], cp)
              /\ cp.todo \subseteq Ahead(d, w, d.c[m]) \cup Ahead(d, w, cp)
    <2>1. /\ \A k \in Of(d.c, q) : ~ d.c[k].astray /\ Goes(d, w, d.c[k])
          /\ \/ Of(d.c, q) = {n} /\ d.c[n].todo \subseteq Ahead(d, w, d.c[n])
             \/ /\ m \in 1 .. n /\ Of(d.c, q) = {m, n} /\ Pair(d, d.c[m], d.c[n])
                /\ d.c[n].todo \subseteq Ahead(d, w, d.c[m]) \cup Ahead(d, w, d.c[n])
      BY <1>2, NewestAre
    <2>. QED BY <1>2, <2>1
  <1>4. Goes(d, w, cp)
    BY <1>1, <1>3
  <1>5. InBlock(cp) /\ InIndex(d, w, cp) /\ cp.key \in CallKeys
    BY <1>1, <1>4, ChoicePointFacts DEF Goes
  <1>6. HasIndex(d, w, cp.key) /\ i \in 1 .. Len(w) /\ i \in Matches(d, i, cp.key) /\ cp.key # "list"
    BY <1>1, <1>5 DEF InIndex, HasIndex
  <1>7. d.p.index = w /\ w[i] \in In(w)
    BY <1>6, HasIndexFacts
  <1>8. Place(d, cp) = w[i]
    BY <1>5, <1>7 DEF Place
  <1>9. ASSUME m \in 1 .. n, Of(d.c, q) = {m, n}, Pair(d, d.c[m], cp),
               cp.todo \subseteq Ahead(d, w, d.c[m]) \cup Ahead(d, w, cp)
        PROVE  Above(d, w, n, q, m, cp, i)
    <2>. DEFINE x == d.c[m]
    <2>1. /\ ~ x.astray /\ x \in ChoicePoints /\ Goes(d, w, x)
      BY <1>1, <1>3, <1>9
    <2>2. /\ x.next[1] = "top" /\ x.key = cp.key /\ x.todo = cp.todo /\ x.ran = cp.ran
          /\ i < x.next[2] /\ \A y \in Matches(d, i, cp.key) : y < x.next[2]
      BY <1>9 DEF Pair
    <2>. DEFINE j == x.next[2]
                b == w[i]
    <2>3. j = x.next[2] /\ b = w[i]
      OBVIOUS
    <2>4. InBlock(x) /\ InIndex(d, w, x)
      BY <2>1, <2>2, ChoicePointFacts DEF Goes
    <2>5. j \in 1 .. Len(w) /\ Place(d, x) = w[j]
      BY <1>7, <2>4 DEF InIndex, Place
    <2>6. i < j
      BY <2>2
    <2>. HIDE DEF x, j, b
    <2>7. d.b[b].id < d.b[Place(d, x)].id
      BY <1>1, <1>6, <2>3, <2>5, <2>6 DEF Links
    <2>8. b \in In(w) \cup {None}
      BY <1>7, <2>3
    <2>9. Goes(d, w, Having(x, b))
      BY <1>1, <2>1, <2>7, <2>8, HavingGoes
    <2>. QED BY <1>9, <2>1, <2>2, <2>3, <2>9 DEF Above, x
  <1>10. Above(d, w, n, q, m, cp, i)
    BY <1>3, <1>9 DEF Above
  <1>. QED BY <1>4, <1>5, <1>6, <1>8, <1>10

(* The last matching clause of a table *)
LEMMA BottomEnds ==
  ASSUME NEW d, NEW w, NEW n, NEW q, Newest(d, w, n, q), NEW cp, cp = d.c[n], ~ cp.astray,
         cp.next[1] = "bottom", NEW i, i = cp.next[2], NEW b, b = w[i],
         After(Matches(d, i, cp.key), i) = {}
  PROVE  Continues(d, w, d.c, q, Enter(Front(d.c), b))
  <1>. DEFINE m == n - 1
              M == Matches(d, i, cp.key)
  <1>0. m = n - 1
    OBVIOUS
  <1>. HIDE DEF m
  <1>1. /\ d \in Databases /\ Links(d, w) /\ Len(w) \in Nat /\ cp \in ChoicePoints
    BY NewestFacts
  <1>2. /\ Above(d, w, n, q, m, cp, i) /\ HasIndex(d, w, cp.key) /\ i \in 1 .. Len(w) /\ i \in M
    BY <1>0, AboveBottom
  <1>3. d.p.index = w /\ b \in Blocks \cup {None}
    BY <1>2, HasIndexFacts
  <1>4. \A x \in M : x = i
    <2>. SUFFICES ASSUME NEW x \in M PROVE x = i
      OBVIOUS
    <2>1. x \in 1 .. Len(w) /\ i <= x
      BY <1>1, <1>2, <1>3, MatchesAfter
    <2>2. ~ (x > i)
      BY DEF After
    <2>. QED BY SMTT(30), <1>1, <1>2, <2>1, <2>2
  <1>5. Ahead(d, w, cp) \subseteq {b}
    <2>1. \A a : a \in Ahead(d, w, cp) <=> \E j \in Matches(d, cp.next[2], cp.key) : a = w[j]
      BY SMTT(30), <1>1, <1>2, BottomAhead
    <2>. QED BY <1>4, <2>1
  <1>6. CASE Of(d.c, q) = {n}
    BY <1>0, <1>3, <1>6, PopContinues
  <1>7. CASE Of(d.c, q) # {n}
    <2>1. /\ m \in 1 .. n /\ Of(d.c, q) = {m, n} /\ ~ d.c[m].astray /\ Goes(d, w, Having(d.c[m], w[i]))
          /\ d.c[m].todo \subseteq Ahead(d, w, d.c[m]) \cup Ahead(d, w, cp)
      BY <1>2, <1>7 DEF Above
    <2>2. d.c[m].todo \ {b} \subseteq Ahead(d, w, d.c[m])
      BY <1>5, <2>1
    <2>3. Goes(d, w, Having(d.c[m], b))
      BY <2>1
    <2>. QED BY <1>0, <1>3, <2>1, <2>2, <2>3, PopContinues
  <1>. QED BY <1>6, <1>7

(* One with others after it *)
LEMMA BottomTurns ==
  ASSUME NEW d, NEW w, NEW n, NEW q, Newest(d, w, n, q), NEW cp, cp = d.c[n], ~ cp.astray,
         cp.next[1] = "bottom", NEW i, i = cp.next[2], NEW b, b = w[i],
         NEW more, more = After(Matches(d, i, cp.key), i), more # {},
         NEW goal, goal = <<"bottom", Min(more)>>
  PROVE  Continues(d, w, d.c, q, Enter([d.c EXCEPT ![n].next = goal], b))
  <1>. DEFINE m == n - 1
              M == Matches(d, i, cp.key)
              j == Min(more)
              x == [cp EXCEPT !.next = goal]
  <1>0. m = n - 1 /\ x = [d.c[n] EXCEPT !.next = goal]
    OBVIOUS
  <1>. HIDE DEF m
  <1>1. /\ d \in Databases /\ Links(d, w) /\ Len(w) \in Nat /\ cp \in ChoicePoints /\ In(w) \subseteq Blocks
        /\ \A h \in 1 .. Len(w) : w[h] \in Blocks /\ w[h] \in In(w)
    BY NewestFacts
  <1>2. /\ Above(d, w, n, q, m, cp, i) /\ HasIndex(d, w, cp.key) /\ i \in 1 .. Len(w) /\ i \in M
        /\ Goes(d, w, cp) /\ InIndex(d, w, cp) /\ cp.key # "list" /\ Place(d, cp) = w[i]
    <2>1. m = n - 1
      BY <1>0
    <2>. HIDE DEF x, j
    <2>. QED BY SMTT(60), <2>1, AboveBottom
  <1>3. d.p.index = w /\ b \in Blocks /\ b \in In(w) /\ d.p.usage = "switch" /\ cp.key # "var"
    <2>1. HasIndex(d, w, cp.key) /\ cp.key # "list"
      BY <1>2
    <2>2. d.p.usage = "switch" /\ cp.key # "var"
      BY <2>1 DEF HasIndex
    <2>3. d.p.index = w
      BY Zenon, <2>1, HasIndexFacts
    <2>4. b \in Blocks /\ b \in In(w)
      BY <1>1, <1>2
    <2>. QED BY <2>2, <2>3, <2>4
  <1>4. \A y \in M : y \in 1 .. Len(w) /\ i <= y
    BY <1>1, <1>2, <1>3, MatchesAfter
  <1>5. TableLeft(d, w, i, cp.key, more)
    BY <1>2, <1>4, TableLeftIs
  <1>6. more \subseteq 1 .. Len(w) /\ j \in more /\ Matches(d, j, cp.key) = more
    BY <1>5 DEF TableLeft
  <1>7. \A y : y \in more <=> y \in M /\ y > i
    BY DEF After
  <1>. HIDE DEF j, x, M
  <1>8. j \in 1 .. Len(w) /\ j \in M /\ i < j
    <2>1. j \in 1 .. Len(w) /\ j \in M /\ j > i
      BY <1>6, <1>7
    <2>. QED BY <1>1, <1>2, <2>1
  <1>9. goal \in Goals /\ goal[1] = "bottom" /\ goal[2] = j
    <2>1. j \in Blocks
      BY <1>1, <1>8, ChainFits
    <2>. QED BY <2>1 DEF Goals, j
  <1>10. x \in ChoicePoints /\ x.next = goal /\ x.key = cp.key /\ x.todo = cp.todo /\ x.ran = cp.ran
         /\ x.astray = cp.astray
    BY SMTT(30), <1>1, <1>9, NextReplaced DEF x
  <1>11. InBlock(x) /\ Place(d, x) = w[j] /\ x.next[1] = "bottom" /\ x.next[2] = j
    BY <1>3, <1>9, <1>10 DEF InBlock, Place
  <1>12. InIndex(d, w, x)
    BY <1>2, <1>3, <1>6, <1>8, <1>10, <1>11 DEF InIndex
  <1>13. d.b[w[i]].id < d.b[w[j]].id
    BY <1>1, <1>2, <1>8 DEF Links
  <1>14. Goes(d, w, x)
    <2>1. cp.next[1] # "fail" /\ Place(d, cp) \in Blocks /\ Place(d, x) \in Blocks /\ x.next[1] # "clause"
      BY <1>1, <1>2, <1>8, <1>11
    <2>2. d.b[Place(d, cp)].id <= d.b[Place(d, x)].id
      <3>1. d.b[w[i]].id \in Int /\ d.b[w[j]].id \in Int
        BY <1>1, <1>2, <1>8, CodeTypes
      <3>2. d.b[w[i]].id <= d.b[w[j]].id
        BY Zenon, <1>13, <3>1, LessAtMost
      <3>. QED BY <1>2, <1>11, <3>2
    <2>. QED BY <1>1, <1>2, <1>10, <1>12, <2>1, <2>2, GoesOn
  <1>15. Goes(d, w, Having(x, b))
    <2>1. b \in In(w) \cup {None} /\ d.b[b].id < d.b[Place(d, x)].id
      BY <1>3, <1>11, <1>13
    <2>. QED BY <1>1, <1>10, <1>14, <2>1, HavingGoes
  <1>16. \A a : a \in Ahead(d, w, x) <=> \E h \in more : a = w[h]
    <2>1. HasIndex(d, w, cp.key)
      BY <1>2
    <2>2. Matches(d, j, cp.key) = more
      BY <1>6
    <2>3. x \in ChoicePoints /\ x.key = cp.key /\ x.next[1] = "bottom" /\ x.next[2] = j
      BY <1>10, <1>11
    <2>4. HasIndex(d, w, x.key) /\ Matches(d, x.next[2], x.key) = more
      BY <2>1, <2>2, <2>3
    <2>5. \A a : a \in Ahead(d, w, x) <=> \E h \in Matches(d, x.next[2], x.key) : a = w[h]
      BY <2>3, <2>4, BottomAhead
    <2>. QED BY <2>4, <2>5
  <1>17. \A a \in Ahead(d, w, cp) : a = b \/ a \in Ahead(d, w, x)
    <2>1. \A a : a \in Ahead(d, w, cp) <=> \E h \in Matches(d, cp.next[2], cp.key) : a = w[h]
      <3>1. HasIndex(d, w, cp.key) /\ cp \in ChoicePoints
        BY <1>1, <1>2
      <3>. QED BY <3>1, BottomAhead
    <2>2. \A h \in M : h = i \/ h \in more
      <3>. SUFFICES ASSUME NEW h, h \in M PROVE h = i \/ h > i
        BY <1>7
      <3>1. h \in 1 .. Len(w) /\ i <= h
        BY <1>4
      <3>2. i \in 1 .. Len(w)
        BY <1>2
      <3>3. h \in Int /\ i \in Int
        BY Zenon, <3>1, <3>2, IntervalInt
      <3>. QED BY Zenon, <3>1, <3>3, AfterOrSame
    <2>. SUFFICES ASSUME NEW a \in Ahead(d, w, cp) PROVE a = b \/ a \in Ahead(d, w, x)
      OBVIOUS
    <2>3. PICK h \in Matches(d, cp.next[2], cp.key) : a = w[h]
      BY <2>1
    <2>4. h \in M
      BY DEF M
    <2>5. CASE h = i
      BY <2>3, <2>5
    <2>6. CASE h \in more
      BY <1>16, <2>3, <2>6
    <2>. QED BY <2>2, <2>4, <2>5, <2>6
  <1>18. b \in Blocks \cup {None} /\ ~ d.c[n].astray
    BY <1>3
  <1>19. CASE Of(d.c, q) = {n}
    <2>1. cp.todo \subseteq Ahead(d, w, cp)
      <3>1. m # n
        <4>1. n \in Nat
          BY NewestFacts
        <4>. QED BY SMTT(30), <1>0, <4>1
      <3>2. Of(d.c, q) # {m, n}
        BY <1>19, <3>1
      <3>. QED BY <1>2, <3>2 DEF Above
    <2>2. d.c[n].todo \ {b} \subseteq Ahead(d, w, x)
      BY <1>17, <2>1
    <2>. QED BY <1>0, <1>9, <1>15, <1>18, <1>19, <2>2, TurnContinues
  <1>20. CASE Of(d.c, q) # {n}
    <2>1. /\ m \in 1 .. n /\ Of(d.c, q) = {m, n} /\ ~ d.c[m].astray /\ Goes(d, w, Having(d.c[m], w[i]))
          /\ cp.todo \subseteq Ahead(d, w, d.c[m]) \cup Ahead(d, w, cp)
          /\ d.c[m].next[1] = "top" /\ d.c[m].key = cp.key
          /\ d.c[m].todo = cp.todo /\ d.c[m].ran = cp.ran
          /\ \A y \in M : y < d.c[m].next[2]
      BY <1>2, <1>20 DEF Above, M
    <2>2. d.c[n].todo \ {b} \subseteq Ahead(d, w, d.c[m]) \cup Ahead(d, w, x)
      BY <1>17, <2>1
    <2>3. Goes(d, w, Having(d.c[m], b))
      BY <2>1
    <2>4. Pair(d, d.c[m], x)
      <3>1. x.next[2] < d.c[m].next[2]
        BY <1>8, <1>11, <2>1
      <3>2. \A y \in Matches(d, x.next[2], x.key) : y < d.c[m].next[2]
        BY <1>6, <1>7, <1>10, <1>11, <2>1
      <3>. QED BY <1>10, <1>11, <2>1, <3>1, <3>2 DEF Pair
    <2>. QED BY <1>0, <1>9, <1>15, <1>18, <2>1, <2>2, <2>3, <2>4, TurnContinues
  <1>. QED BY <1>19, <1>20

LEMMA FailedIs ==
  ASSUME NEW d, NEW w, NEW n, NEW q, Newest(d, w, n, q)
  PROVE  Continues(d, w, d.c, q, Failed(d))
  <1>. DEFINE cp == d.c[n]
              i == cp.next[2]
              t == Target(d, i)
              nodes == After(Nodes(d, cp.key), i)
              more == After(Matches(d, i, cp.key), i)
              r == Failed(d)
  <1>1. /\ n = Len(d.c) /\ n > 0 /\ q = cp.call /\ cp \in ChoicePoints
    BY NewestFacts
  <1>2. cp.next[1] \in {"fail", "clause", "top", "bottom"}
    BY <1>1, ChoicePointFacts
  <1>3. cp = d.c[n] /\ i = cp.next[2] /\ t = Target(d, d.c[n].next[2])
    OBVIOUS
  <1>4. CASE cp.next[1] = "fail"
    <2>1. r = Enter(Front(d.c), None)
      BY <1>1, <1>4 DEF Failed
    <2>. HIDE DEF r, t
    <2>2. Continues(d, w, d.c, q, Enter(Front(d.c), None))
      BY <1>3, <1>4, FailToFail, FailStray
    <2>. QED BY <2>1, <2>2 DEF r
  <1>5. CASE cp.next[1] = "clause"
    <2>1. r = IF t = None THEN Enter(Front(d.c), None) ELSE Resumed(d, t)
      BY <1>1, <1>5 DEF Failed, Target
    <2>. HIDE DEF r, t
    <2>2. Continues(d, w, d.c, q, IF t = None THEN Enter(Front(d.c), None) ELSE Resumed(d, t))
      BY <1>3, <1>5, FailToClause, FailStray
    <2>. QED BY <2>1, <2>2 DEF r
  <1>6. CASE cp.next[1] = "top"
    <2>. DEFINE c2 == IF nodes = {} THEN Front(d.c) ELSE [d.c EXCEPT ![n].next = <<"top", Min(nodes)>>]
    <2>1. r = EnterNode(d, c2, i, cp)
      BY <1>1, <1>6 DEF Failed
    <2>2. /\ nodes = After(Nodes(d, cp.key), i)
          /\ c2 = IF nodes = {} THEN Front(d.c) ELSE [d.c EXCEPT ![n].next = <<"top", Min(nodes)>>]
      OBVIOUS
    <2>3. ~ cp.astray
      BY <1>3, <1>6, FailStray
    <2>. HIDE DEF r, t, nodes, c2, i, cp
    <2>4. Continues(d, w, d.c, q, EnterNode(d, c2, i, cp))
      BY <1>3, <1>6, <2>2, <2>3, FailToTop
    <2>. QED BY <2>1, <2>4 DEF r
  <1>7. CASE cp.next[1] = "bottom"
    <2>1. ~ cp.astray
      BY <1>3, <1>7, FailStray
    <2>. DEFINE m == n - 1
    <2>2. m = n - 1
      OBVIOUS
    <2>3. d.p.index = w
      <3>. HIDE DEF m, i, cp, r, t
      <3>1. HasIndex(d, w, cp.key)
        BY <1>3, <1>7, <2>1, <2>2, AboveBottom
      <3>. QED BY <3>1, HasIndexFacts
    <2>4. CASE more = {}
      <3>1. r = Enter(Front(d.c), w[i])
        BY <1>1, <1>7, <2>3, <2>4 DEF Failed
      <3>. HIDE DEF i, cp, r, t
      <3>2. Continues(d, w, d.c, q, Enter(Front(d.c), w[i]))
        BY <1>3, <1>7, <2>1, <2>4, BottomEnds
      <3>. QED BY <3>1, <3>2 DEF r
    <2>5. CASE more # {}
      <3>. DEFINE goal == <<"bottom", Min(more)>>
      <3>1. r = Enter([d.c EXCEPT ![n].next = goal], w[i])
        BY <1>1, <1>7, <2>3, <2>5 DEF Failed
      <3>2. goal = <<"bottom", Min(more)>> /\ more = After(Matches(d, i, cp.key), i)
        OBVIOUS
      <3>. HIDE DEF i, cp, r, t, more, goal
      <3>3. Continues(d, w, d.c, q, Enter([d.c EXCEPT ![n].next = goal], w[i]))
        BY <1>3, <1>7, <2>1, <2>5, <3>2, BottomTurns
      <3>. QED BY <3>1, <3>3 DEF r
    <2>. QED BY <2>4, <2>5
  <1>. QED BY <1>2, <1>4, <1>5, <1>6, <1>7

LEMMA FailStep ==
  ASSUME NEW w, Inv(w), Fail
  PROVE  IInv'
  <1>. DEFINE d == db
              n == Len(cps)
              q == cps[n].call
              r == Failed(db)
  <1>0. /\ d \in Databases /\ d.c = cps /\ walk.next \in Blocks \cup {None} /\ Len(cps) <= MaxChoice /\ TypeOK
        /\ Chained(d, w) /\ Awaited(d, w, cps) /\ Walked(d, w, walk)
    BY StateTyped DEF Inv
  <1>1. /\ cps # << >> /\ Len(r.cps) <= MaxChoice /\ UNCHANGED walk
        /\ Becomes([d EXCEPT !.c = Ran(r.cps, q, r.clause)])
    BY DEF Fail, Last
  <1>2. cps \in Seq(ChoicePoints) /\ n \in Nat /\ n > 0
    BY <1>1 DEF TypeOK, Inv
  <1>3. n \in 1 .. n /\ cps[n] \in ChoicePoints
    BY <1>2, ElementOfSeq
  <1>4. q \in 1 .. MaxChoice
    BY <1>3, ChoicePointFacts
  <1>5. Sound(d, w, cps, q)
    BY <1>0, <1>4 DEF Awaited
  <1>. HIDE DEF n, d
  <1>6. Newest(d, w, n, q)
    BY <1>0, <1>2, <1>5 DEF Newest, n
  <1>7. Continues(d, w, cps, q, r)
    BY <1>0, <1>6, FailedIs DEF d
  <1>. HIDE DEF r, q
  <1>8. /\ r.cps \in Seq(ChoicePoints) /\ r.clause \in Blocks \cup {None} /\ Leaves(cps, r.cps, q)
        /\ Sound(d, w, Ran(r.cps, q, r.clause), q)
    BY <1>7 DEF Continues
  <1>. QED BY <1>0, <1>1, <1>8, RunStep

(***************************************************************************)
(* A call.  The index is made first.                                       *)
(***************************************************************************)
Indexed(d, r, w) ==
  /\ r \in Databases /\ r.p.usage = "switch" /\ r.p.index = w /\ r.p.entry = SwitchOnTerm
  /\ r.p.first = d.p.first /\ r.p.last = d.p.last /\ r.p.lo = d.p.lo /\ r.p.hi = d.p.hi
  /\ r.b[w[1]] = [d.b[w[1]] EXCEPT !.code = TryMe(w[2])]
  /\ \A b \in Blocks \ {w[1]} : r.b[b] = d.b[b]

LEMMA MultipleSeveral ==
  ASSUME NEW d, NEW w, Links(d, w), Coded(d, w), d.p.usage = "multiple"
  PROVE  /\ Len(w) \in Nat /\ Len(w) > 1 /\ 1 \in 1 .. Len(w) /\ 2 \in 1 .. Len(w)
         /\ 1 # Len(w) /\ Len(w) # 0 /\ w # << >> /\ ~ LeftOver(d, w)
         /\ w[1] \in Blocks /\ w[2] \in Blocks /\ d.p.first = w[1] /\ d.b[w[1]].next = w[2]
  <1>. DEFINE n == Len(w)
  <1>1. n \in Nat
    BY LinksFacts
  <1>2. n # 0 /\ n # 1 /\ w # << >>
    BY DEF Coded
  <1>3. ~ LeftOver(d, w)
    BY <1>2 DEF LeftOver
  <1>4. n > 1 /\ 1 \in 1 .. n /\ 2 \in 1 .. n
    <2>. HIDE DEF n
    <2>. QED BY <1>1, <1>2, NumbersApart
  <1>5. d.b[w[1]].next = w[1 + 1] /\ d.p.first = w[1]
    BY <1>2, <1>4 DEF Links
  <1>6. 1 + 1 = 2
    OBVIOUS
  <1>. QED BY <1>1, <1>2, <1>3, <1>4, <1>5, <1>6, LinksFacts

LEMMA IndexedChained ==
  ASSUME NEW d \in Databases, NEW w, Chained(d, w), d.p.usage = "multiple", NEW r, Indexed(d, r, w)
  PROVE  Chained(r, w) /\ Alike(d, r)
  <1>1. Links(d, w) /\ Coded(d, w) /\ Numbered(d, w)
    BY DEF Chained
  <1>2. Len(w) \in Nat /\ Len(w) > 1 /\ ~ LeftOver(d, w)
    BY <1>1, MultipleSeveral
  <1>3. 1 \in 1 .. Len(w) /\ 2 \in 1 .. Len(w) /\ 1 # Len(w) /\ Len(w) # 0
    BY <1>1, MultipleSeveral
  <1>4. \A i \in 1 .. Len(w) : w[i] \in Blocks /\ w[i] \in In(w)
    BY <1>1, LinksFacts
  <1>5. \A b \in Blocks : r.b[b].id = d.b[b].id /\ r.b[b].next = d.b[b].next
    <2>1. d.b[w[1]] \in ClauseBlocks
      BY <1>3, <1>4, CodeTypes
    <2>2. r.b[w[1]].id = d.b[w[1]].id /\ r.b[w[1]].next = d.b[w[1]].next
      BY <2>1 DEF Indexed, ClauseBlocks
    <2>. QED BY <2>2 DEF Indexed
  <1>6. r.b[w[1]].code = TryMe(w[2]) /\ \A b \in Blocks \ {w[1]} : r.b[b].code = d.b[b].code
    <2>1. d.b[w[1]] \in ClauseBlocks
      BY <1>3, <1>4, CodeTypes
    <2>2. r.b[w[1]].code = TryMe(w[2])
      BY <2>1 DEF Indexed, ClauseBlocks
    <2>. QED BY <2>2 DEF Indexed
  <1>7. Links(r, w)
    <2>1. \A i, j \in 1 .. Len(w) : i < j => r.b[w[i]].id < r.b[w[j]].id
      BY <1>1, <1>4, <1>5 DEF Links
    <2>2. \A i \in 1 .. Len(w) : r.b[w[i]].next = IF i = Len(w) THEN None ELSE w[i + 1]
      BY <1>1, <1>4, <1>5 DEF Links
    <2>3. \A b \in Blocks \ In(w) : r.b[b].next = None /\ r.b[b].code \in {Deleted, Free}
      BY <1>1, <1>3, <1>4, <1>5, <1>6 DEF Links
    <2>4. r.p.first = d.p.first /\ r.p.last = d.p.last
      BY DEF Indexed
    <2>. QED BY <1>1, <2>1, <2>2, <2>3, <2>4 DEF Links
  <1>8. \A i \in 1 .. Len(w) : r.b[w[i]].code = CodeOf(r, w, i)
    <2>. SUFFICES ASSUME NEW i \in 1 .. Len(w) PROVE r.b[w[i]].code = CodeOf(r, w, i)
      OBVIOUS
    <2>0. r.p.usage = "switch"
      BY DEF Indexed
    <2>1. CASE i = 1
      <3>1. CodeOf(r, w, i) = TryMe(w[2])
        BY <1>3, <2>0, <2>1 DEF CodeOf
      <3>. QED BY <1>6, <2>1, <3>1
    <2>2. CASE i # 1
      <3>1. w[i] # w[1]
        BY <1>1, <1>3, <2>2, IdsApart
      <3>2. r.b[w[i]].code = d.b[w[i]].code
        BY <1>4, <1>6, <3>1
      <3>3. ~ LeftOver(d, w)
        BY <1>2
      <3>4. d.b[w[i]].code = CodeOf(d, w, i)
        BY <1>1, <3>3 DEF Coded
      <3>5. CodeOf(r, w, i) = CodeOf(d, w, i)
        BY <2>0, <2>2 DEF CodeOf
      <3>. QED BY <3>2, <3>4, <3>5
    <2>. QED BY <2>1, <2>2
  <1>9. Coded(r, w)
    <2>1. r.p.usage = "switch" /\ r.p.entry = SwitchOnTerm /\ r.p.index = w
      BY DEF Indexed
    <2>. QED BY <1>3, <1>8, <2>1 DEF Coded
  <1>10. Numbered(r, w)
    BY <1>1, <1>4, <1>5 DEF Numbered, Indexed
  <1>11. Alike(d, r)
    <2>1. d.b[w[1]].code # Free /\ r.b[w[1]].code # Free
      <3>1. d.b[w[1]].code # Free
        BY <1>1, <1>3, CodeInside
      <3>2. TryMe(w[2]) # Free
        BY CodesApart
      <3>. QED BY <1>6, <3>1, <3>2
    <2>. QED BY <1>5, <1>6, <2>1 DEF Alike
  <1>. QED BY <1>7, <1>9, <1>10, <1>11 DEF Chained

LEMMA DoIndexingIs ==
  ASSUME NEW d \in Databases, NEW w, Chained(d, w), d.p.usage = "multiple"
  PROVE  \/ DoIndexing(d) = d
         \/ Indexed(d, DoIndexing(d), w) /\ DoIndexing(d).c = d.c
  <1>1. Links(d, w) /\ Coded(d, w) /\ Chain(d) = w
    BY ChainIs DEF Chained
  <1>2. w[1] \in Blocks /\ w[2] \in Blocks /\ d.p.first = w[1] /\ d.b[w[1]].next = w[2]
    BY <1>1, MultipleSeveral
  <1>. DEFINE d1 == [d EXCEPT !.p.index = w]
              g == InstallChoice(d1, w[1], TryMe(w[2]))
              e == InstallEntry(g, SwitchOnTerm)
              r == [e EXCEPT !.p.usage = "switch"]
  <1>3. DoIndexing(d) = d \/ DoIndexing(d) = r
    BY <1>1, <1>2 DEF DoIndexing
  <1>4. d1 \in Databases /\ d1.p = [d.p EXCEPT !.index = w] /\ d1.b = d.b /\ d1.c = d.c
    <2>1. w \in Seq(Blocks)
      BY <1>1, LinksFacts
    <2>. QED BY <2>1, IndexSetIs
  <1>. HIDE DEF d1
  <1>5. Rewritten(d1, g, w[1], [d1.b[w[1]] EXCEPT !.code = TryMe(w[2])])
    BY <1>2, <1>4, CodesTyped, InstallChoiceIs
  <1>. HIDE DEF g
  <1>6. g \in Databases /\ g.p = d1.p /\ g.c = d.c /\ g.b[w[1]] = [d.b[w[1]] EXCEPT !.code = TryMe(w[2])]
        /\ \A b \in Blocks \ {w[1]} : g.b[b] = d.b[b]
    BY <1>4, <1>5 DEF Rewritten
  <1>7. SwitchOnTerm \in Entries
    BY EntriesTyped
  <1>8. e \in Databases /\ e.b = g.b /\ e.c = g.c /\ e.p = [g.p EXCEPT !.entry = SwitchOnTerm, !.counting = FALSE]
    BY <1>6, <1>7, InstallEntryIs
  <1>. HIDE DEF e
  <1>9. r \in Databases /\ r.p = [e.p EXCEPT !.usage = "switch"] /\ r.b = e.b /\ r.c = e.c
    BY <1>8, UsageIs
  <1>. HIDE DEF r
  <1>10. /\ r.p.usage = "switch" /\ r.p.index = w /\ r.p.entry = SwitchOnTerm
         /\ r.p.first = d.p.first /\ r.p.last = d.p.last /\ r.p.lo = d.p.lo /\ r.p.hi = d.p.hi
    <2>1. d.p \in Procedures /\ g.p \in Procedures /\ e.p \in Procedures
      BY <1>6, <1>8, DatabaseFacts
    <2>2. /\ g.p.index = w /\ g.p.first = d.p.first /\ g.p.last = d.p.last
          /\ g.p.lo = d.p.lo /\ g.p.hi = d.p.hi
      BY <1>4, <1>6, <2>1 DEF Procedures
    <2>3. /\ e.p.index = w /\ e.p.first = d.p.first /\ e.p.last = d.p.last
          /\ e.p.lo = d.p.lo /\ e.p.hi = d.p.hi /\ e.p.entry = SwitchOnTerm
      BY <1>8, <2>1, <2>2 DEF Procedures
    <2>. QED BY <1>9, <2>1, <2>3 DEF Procedures
  <1>11. Indexed(d, r, w) /\ r.c = d.c
    BY <1>6, <1>8, <1>9, <1>10 DEF Indexed
  <1>. QED BY <1>3, <1>11

(* What a call begins with *)
Ready(d) == IF d.p.counting THEN [DoIndexing(d) EXCEPT !.p.counting = FALSE] ELSE d

Reindexed(d, r, w) ==
  r \in Databases /\ r.c = d.c /\ Chained(r, w) /\ Awaited(r, w, r.c) /\ Alike(d, r)

LEMMA IndexingIs ==
  ASSUME NEW d \in Databases, NEW w, Chained(d, w), Awaited(d, w, d.c)
  PROVE  Reindexed(d, DoIndexing(d), w)
  <1>1. Links(d, w) /\ Coded(d, w)
    BY DEF Chained
  <1>2. CASE DoIndexing(d) = d
    BY <1>2 DEF Reindexed, Alike
  <1>3. CASE DoIndexing(d) # d
    <2>1. d.p.usage = "multiple"
      BY <1>3 DEF DoIndexing
    <2>. DEFINE r == DoIndexing(d)
    <2>2. Indexed(d, r, w) /\ r.c = d.c
      BY <1>3, <2>1, DoIndexingIs
    <2>. HIDE DEF r
    <2>3. Chained(r, w) /\ Alike(d, r) /\ r \in Databases
      BY <2>1, <2>2, IndexedChained DEF Indexed
    <2>4. StraightenedAll(d, d.c)
      <3>1. d.c \in Seq(ChoicePoints) /\ \A k \in 1 .. Len(d.c) : d.c[k] \in ChoicePoints
        BY DatabaseFacts
      <3>2. \A k \in 1 .. Len(d.c) : ~ InBlock(d.c[k])
        BY <2>1, InBlockIndexed DEF InIndex
      <3>3. \A k \in 1 .. Len(d.c) : Straightened(d, d.c[k], d.c[k], NewerHasIt(d.c, k))
        BY <3>1, <3>2 DEF Straightened
      <3>. QED BY <3>1, <3>3 DEF StraightenedAll
    <2>5. Awaited(r, w, d.c)
      <3>1. \A q \in 1 .. MaxChoice : Sound(d, w, d.c, q)
        BY DEF Awaited
      <3>. QED BY <1>1, <2>3, <2>4, <3>1, SoundStraightened DEF Awaited
    <2>6. Reindexed(d, r, w)
      BY <2>2, <2>3, <2>5 DEF Reindexed
    <2>. QED BY <2>6 DEF r
  <1>. QED BY <1>2, <1>3

LEMMA ReadyIs ==
  ASSUME NEW d \in Databases, NEW w, Chained(d, w), Awaited(d, w, d.c)
  PROVE  Reindexed(d, Ready(d), w)
  <1>1. CASE ~ d.p.counting
    <2>1. Ready(d) = d
      BY <1>1 DEF Ready
    <2>. QED BY <2>1 DEF Reindexed, Alike
  <1>2. CASE d.p.counting
    <2>. DEFINE e == DoIndexing(d)
                r == [e EXCEPT !.p.counting = FALSE]
    <2>1. Reindexed(d, e, w)
      BY IndexingIs
    <2>2. Ready(d) = r
      BY <1>2 DEF Ready
    <2>. HIDE DEF e
    <2>3. e \in Databases /\ e.c = d.c /\ Chained(e, w) /\ Awaited(e, w, e.c) /\ Alike(d, e)
      BY <2>1 DEF Reindexed
    <2>4. r \in Databases /\ r.p = [e.p EXCEPT !.counting = FALSE] /\ r.b = e.b /\ r.c = e.c
      <3>1. FALSE \in BOOLEAN
        OBVIOUS
      <3>. QED BY <2>3, <3>1, CountingIs
    <2>. HIDE DEF r
    <2>5. SameProcedure(e, r)
      <3>1. e.p \in Procedures
        BY <2>3, DatabaseFacts
      <3>. QED BY <2>4, <3>1 DEF SameProcedure, Procedures
    <2>6. Chained(r, w)
      BY <2>3, <2>4, <2>5, ChainKept DEF SameChain
    <2>7. Awaited(r, w, e.c)
      <3>1. Links(e, w) /\ Coded(e, w) /\ e.c \in Seq(ChoicePoints) /\ In(w) \subseteq Blocks
        BY <2>3, LinksFacts, DatabaseFacts DEF Chained
      <3>2. SameIndex(e, r) /\ r.p.usage = e.p.usage
        BY <2>4, <2>5 DEF SameIndex, SameProcedure, KeyAt
      <3>3. ASSUME NEW q \in 1 .. MaxChoice PROVE Sound(r, w, e.c, q)
        <4>1. Sound(e, w, e.c, q)
          BY <2>3 DEF Awaited
        <4>2. \A k \in Of(e.c, q) : AsBefore(e.c[k], e.c[k])
          BY DEF AsBefore
        <4>. QED BY <2>3, <2>4, <3>1, <3>2, <4>1, <4>2, SoundKept
      <3>. QED BY <3>3 DEF Awaited
    <2>8. Alike(d, r)
      BY <2>3, <2>4 DEF Alike
    <2>9. Reindexed(d, r, w)
      BY <2>3, <2>4, <2>6, <2>7, <2>8 DEF Reindexed
    <2>. QED BY <2>2, <2>9
  <1>. QED BY <1>1, <1>2

(***************************************************************************)
(* What a call begins with                                                 *)
(***************************************************************************)
(* The second clause that the entry code names is the second one. *)
EntryHolds(d) ==
  d.p.entry.op = "try_me_jump" => d.p.entry.second = d.b[d.p.entry.first].next

(* The call of cp begins. *)
Begins(d, w, c, cp, r) ==
  /\ Continues(d, w, c, cp.call, r)
  /\ \A k \in Of(r.cps, cp.call) : r.cps[k].todo = cp.todo /\ (EntryHolds(d) => ~ r.cps[k].astray)
  /\ Of(r.cps, cp.call) = {} => cp.todo \subseteq {r.clause}

LEMMA EntersBegins ==
  ASSUME NEW d, NEW w, NEW c, NEW c2, NEW cp, NEW r,
         Enters(d, w, c, cp, r), Continues(d, w, c2, cp.call, r)
  PROVE  Begins(d, w, c2, cp, r)
  BY DEF Enters, Begins

(* There was no choice point of this call. *)
Fresh(d, w, cp) ==
  /\ d \in Databases /\ Chained(d, w) /\ cp \in ChoicePoints /\ Of(d.c, cp.call) = {}
  /\ ~ cp.astray /\ cp.ran = {} /\ cp.todo \subseteq In(w)

LEMMA BeginsAlone ==
  ASSUME NEW d, NEW w, NEW cp, Fresh(d, w, cp),
         NEW b, b \in Blocks \cup {None}, cp.todo \subseteq {b}
  PROVE  Begins(d, w, d.c, cp, Enter(d.c, b))
  <1>. DEFINE r == Enter(d.c, b)
  <1>1. r.cps = d.c /\ r.clause = b
    BY DEF Enter
  <1>. HIDE DEF r
  <1>2. d.c \in Seq(ChoicePoints) /\ Of(d.c, cp.call) = {}
    BY DatabaseFacts DEF Fresh
  <1>3. Sound(d, w, Ran(d.c, cp.call, b), cp.call)
    BY <1>2, SoundNone
  <1>4. Continues(d, w, d.c, cp.call, r)
    BY <1>1, <1>2, <1>3, LeavesItself DEF Continues
  <1>5. Begins(d, w, d.c, cp, r)
    BY <1>1, <1>2, <1>4 DEF Begins
  <1>. QED BY <1>5 DEF r

(* One choice point is pushed. *)
LEMMA BeginsPushed ==
  ASSUME NEW d, NEW w, NEW cp, Fresh(d, w, cp), NEW x \in ChoicePoints, x.call = cp.call,
         x.todo = cp.todo, NEW b, b \in Blocks,
         \/ x.astray /\ ~ InBlock(x) /\ ~ EntryHolds(d)
         \/ ~ x.astray /\ Goes(d, w, Having(x, b)) /\ x.todo \ {b} \subseteq Ahead(d, w, x)
  PROVE  Begins(d, w, d.c, cp, Enter(Append(d.c, x), b))
  <1>. DEFINE c == Append(d.c, x)
              r == Enter(c, b)
              q == cp.call
              n == Len(d.c) + 1
  <1>1. r.cps = c /\ r.clause = b
    BY DEF Enter
  <1>2. d.c \in Seq(ChoicePoints) /\ Of(d.c, q) = {}
    BY DatabaseFacts DEF Fresh
  <1>3. Pushes(d.c, c, x)
    BY <1>2, PushIs
  <1>. HIDE DEF c, r, q
  <1>4. c \in Seq(ChoicePoints) /\ c[n] = x /\ Of(c, q) = {n} /\ Leaves(d.c, c, q)
    BY <1>2, <1>3 DEF Pushes, q
  <1>. HIDE DEF n
  <1>5. Sound(d, w, Ran(c, q, b), q)
    <2>1. CASE x.astray
      <3>1. \A k \in Of(c, q) : c[k].astray /\ ~ InBlock(c[k])
        BY <1>4, <2>1
      <3>. QED BY <1>4, <3>1, SoundAstray
    <2>2. CASE ~ x.astray
      <3>1. ~ c[n].astray /\ Goes(d, w, Having(c[n], b)) /\ c[n].todo \ {b} \subseteq Ahead(d, w, c[n])
        BY <1>4, <2>2
      <3>. QED BY <1>4, <3>1, SoundAlone
    <2>. QED BY <2>1, <2>2
  <1>6. Continues(d, w, d.c, q, r)
    BY <1>1, <1>4, <1>5 DEF Continues
  <1>7. Begins(d, w, d.c, cp, r)
    <2>1. \A k \in Of(c, q) : c[k].todo = cp.todo /\ (EntryHolds(d) => ~ c[k].astray)
      BY <1>4
    <2>2. Of(c, q) # {}
      BY <1>4
    <2>. QED BY <1>1, <1>6, <2>1, <2>2 DEF Begins, q
  <1>. QED BY <1>7 DEF r, c

(* The clauses are tried one after the other from the first. *)
LEMMA BeginsChain ==
  ASSUME NEW d, NEW w, NEW cp, Fresh(d, w, cp), 1 \in 1 .. Len(w), 2 \in 1 .. Len(w),
         NEW b, b = w[1], NEW to, to = w[2],
         NEW x \in ChoicePoints, x.call = cp.call, x.todo = cp.todo, x.ran = {}, ~ x.astray,
         x.next = <<"clause", to>>
  PROVE  Begins(d, w, d.c, cp, Enter(Append(d.c, x), b))
  <1>0. d \in Databases /\ Links(d, w) /\ Coded(d, w) /\ cp.todo \subseteq In(w)
    BY DEF Fresh, Chained
  <1>1. b \in Blocks /\ b \in In(w) /\ to \in Blocks /\ to \in In(w) /\ In(w) \subseteq Blocks /\ b # None
    BY <1>0, LinksFacts
  <1>2. d.b[to].code # Free
    BY SMTT(30), <1>0, CodeFacts
  <1>3. d.b[b].id < d.b[to].id
    BY <1>0 DEF Links
  <1>4. x.next[1] = "clause" /\ x.next[2] = to /\ ~ InBlock(x)
    BY DEF InBlock
  <1>5. Place(d, x) = to
    BY <1>4 DEF Place
  <1>6. Goes(d, w, x)
    BY <1>0, <1>1, <1>2, <1>4 DEF Goes
  <1>7. Goes(d, w, Having(x, b))
    BY <1>1, <1>3, <1>5, <1>6, HavingGoes
  <1>8. x.todo \ {b} \subseteq Ahead(d, w, x)
    <2>1. Ahead(d, w, x) = From(d, w, to)
      BY <1>4 DEF Ahead
    <2>2. ASSUME NEW a \in In(w), a # b PROVE a \in From(d, w, to)
      <3>1. PICK i : i \in 1 .. Len(w) /\ a = w[i]
        BY DEF In
      <3>2. i # 1
        BY <2>2, <3>1
      <3>3. 2 <= i
        BY <3>1, <3>2
      <3>4. d.b[to].id <= d.b[a].id
        BY <1>0, <3>1, <3>3, IdsApart
      <3>. QED BY <3>4 DEF From
    <2>. QED BY <1>0, <2>1, <2>2
  <1>. QED BY <1>1, <1>7, <1>8, BeginsPushed

(* The index leads to the first node. *)
LEMMA BeginsIndex ==
  ASSUME NEW d, NEW w, NEW cp, Fresh(d, w, cp), HasIndex(d, w, cp.key), cp.todo \subseteq Fitting(d, cp.key),
         NEW nodes, nodes = Nodes(d, cp.key),
         NEW i, i = Min(nodes), NEW more, more = After(nodes, i),
         NEW r, r = IF nodes = {} THEN Enter(d.c, None)
                    ELSE IF more = {} THEN EnterNode(d, d.c, i, cp)
                    ELSE EnterNode(d, Append(d.c, [cp EXCEPT !.next = <<"top", Min(more)>>]), i, cp)
  PROVE  Begins(d, w, d.c, cp, r)
  <1>0. /\ d.c \in Seq(ChoicePoints) /\ Of(d.c, cp.call) = {} /\ cp \in ChoicePoints /\ d \in Databases
        /\ nodes \subseteq 1 .. Len(w) /\ Len(w) \in Nat /\ Links(d, w)
    BY HasIndexFacts, DatabaseFacts DEF Fresh
  <1>1. CASE nodes = {}
    <2>1. cp.todo = {}
      BY <1>1, NodesFit
    <2>2. cp.todo \subseteq {None}
      BY <2>1
    <2>3. Begins(d, w, d.c, cp, Enter(d.c, None))
      BY <2>2, BeginsAlone
    <2>. QED BY <1>1, <2>3
  <1>2. CASE nodes # {}
    <2>1. i \in nodes /\ \A k \in nodes : i <= k
      <3>1. nodes \subseteq Nat
        BY <1>0
      <3>. QED BY <1>2, <3>1, MinOf
    <2>2. cp.todo \subseteq AtOrAfter(d, w, cp.key, i)
      <3>. SUFFICES ASSUME NEW a \in cp.todo PROVE a \in AtOrAfter(d, w, cp.key, i)
        OBVIOUS
      <3>1. PICK k : k \in Nodes(d, cp.key) /\ \E x \in Matches(d, k, cp.key) : a = w[x]
        BY NodesFit
      <3>2. i \in Nat /\ k \in Nat /\ i <= k
        BY <1>0, <2>1, <3>1
      <3>3. k >= i
        BY <3>2
      <3>4. a \in In(w)
        BY DEF Fresh
      <3>. QED BY <3>1, <3>3, <3>4 DEF AtOrAfter
    <2>. DEFINE c == IF more = {} THEN d.c ELSE Append(d.c, Top(d, i, cp))
    <2>3. r = EnterNode(d, c, i, cp)
      BY <1>2 DEF Top
    <2>4. more = After(Nodes(d, cp.key), i)
      OBVIOUS
    <2>5. /\ c \in Seq(ChoicePoints) /\ Leaves(d.c, c, cp.call)
          /\ IF more = {} THEN Of(c, cp.call) = {} ELSE Of(c, cp.call) = {Len(c)} /\ c[Len(c)] = Top(d, i, cp)
      <3>1. CASE more = {}
        BY <1>0, <3>1, LeavesItself
      <3>2. CASE more # {}
        <4>. DEFINE x == Top(d, i, cp)
        <4>1. c = Append(d.c, x)
          BY <3>2
        <4>2. x \in ChoicePoints /\ x.call = cp.call
          <5>1. more \subseteq 1 .. Len(w) /\ more \subseteq Nat
            BY <1>0 DEF After
          <5>2. Min(more) \in more
            BY <3>2, <5>1, MinOf
          <5>3. Min(more) \in Blocks
            BY <1>0, <5>1, <5>2, ChainFits
          <5>. DEFINE goal == <<"top", Min(more)>>
          <5>4. goal \in Goals
            BY <5>3 DEF Goals
          <5>5. x = [cp EXCEPT !.next = goal]
            BY DEF Top
          <5>. HIDE DEF goal, x
          <5>. QED BY <1>0, <5>4, <5>5, NextReplaced
        <4>. HIDE DEF x, c
        <4>3. Pushes(d.c, c, x)
          BY <1>0, <4>1, <4>2, PushIs
        <4>4. c \in Seq(ChoicePoints) /\ Len(c) = Len(d.c) + 1 /\ c[Len(c)] = x /\ Leaves(d.c, c, cp.call)
              /\ Of(c, cp.call) = {Len(c)}
          BY <1>0, <4>2, <4>3 DEF Pushes
        <4>. QED BY <3>2, <4>4 DEF x
      <3>. QED BY <3>1, <3>2
    <2>. HIDE DEF c
    <2>6. NodeReady(d, w, c, i, cp)
      <3>1. cp.ran = {} /\ ~ cp.astray
        BY DEF Fresh
      <3>2. IF After(Nodes(d, cp.key), i) = {} THEN Of(c, cp.call) = {}
            ELSE Of(c, cp.call) = {Len(c)} /\ c[Len(c)] = Top(d, i, cp)
        BY <2>5
      <3>. QED BY <1>0, <2>1, <2>2, <2>5, <3>1, <3>2 DEF NodeReady
    <2>7. Enters(d, w, c, cp, r)
      BY <2>3, <2>6, EnteredNode
    <2>8. Continues(d, w, c, cp.call, r)
      BY <2>7 DEF Enters
    <2>9. Leaves(d.c, r.cps, cp.call)
      <3>1. Leaves(c, r.cps, cp.call)
        BY <2>8 DEF Continues
      <3>. QED BY <2>5, <3>1, LeavesOn
    <2>10. Continues(d, w, d.c, cp.call, r)
      BY <2>8, <2>9 DEF Continues
    <2>. QED BY <2>7, <2>10, EntersBegins
  <1>. QED BY <1>1, <1>2

(***************************************************************************)
(* A call begins.                                                          *)
(***************************************************************************)
LEMMA NewChoiceIs ==
  ASSUME NEW next, NEW q, NEW key, NEW todo, NEW astray
  PROVE  LET cp == NewChoice(next, q, key, todo, astray)
         IN  /\ cp.next = next /\ cp.call = q /\ cp.key = key /\ cp.todo = todo /\ cp.ran = {}
             /\ cp.astray = astray
             /\ cp = [next |-> next, call |-> q, key |-> key, todo |-> todo, ran |-> {}, astray |-> astray]
  BY DEF NewChoice

(* The choice point that a call of d has for the clauses that fit key *)
Asked(d, q, key) == NewChoice(<<"fail">>, q, key, Fitting(d, key), FALSE)

(* A call can be made of any database. *)
LEMMA FreshIs ==
  ASSUME NEW d \in Databases, NEW w, Chained(d, w), NEW q, q \in 1 .. MaxChoice, NEW key \in CallKeys,
         Of(d.c, q) = {}, NEW cp, cp = Asked(d, q, key)
  PROVE  Fresh(d, w, cp) /\ cp.call = q /\ cp.key = key /\ cp.todo = Fitting(d, key)
  <1>1. Links(d, w) /\ Fitting(d, key) \subseteq In(w) /\ In(w) \subseteq Blocks
    BY ChainSet, LinksFacts DEF Chained, Fitting
  <1>2. /\ cp.call = q /\ cp.key = key /\ cp.todo = Fitting(d, key) /\ cp.ran = {} /\ ~ cp.astray
        /\ cp = [next |-> <<"fail">>, call |-> q, key |-> key, todo |-> Fitting(d, key), ran |-> {},
                 astray |-> FALSE]
    BY DEF NewChoice, Asked
  <1>. DEFINE F == Fitting(d, key)
  <1>3. F \in SUBSET Blocks
    BY <1>1
  <1>. HIDE DEF F
  <1>4. [next |-> <<"fail">>, call |-> q, key |-> key, todo |-> F, ran |-> {}, astray |-> FALSE] \in ChoicePoints
    BY <1>3 DEF ChoicePoints
  <1>5. cp \in ChoicePoints
    BY <1>2, <1>4 DEF F
  <1>. QED BY <1>1, <1>2, <1>5 DEF Fresh

Along(cp, b, s) == [cp EXCEPT !.next = <<"clause", b>>, !.astray = s]

(* The choice point of TRY_ME or of the entry code *)
LEMMA AlongIs ==
  ASSUME NEW cp \in ChoicePoints, NEW b, b \in Blocks, NEW s, s \in BOOLEAN, NEW new,
         new = Along(cp, b, s)
  PROVE  /\ new \in ChoicePoints /\ new.next = <<"clause", b>> /\ new.call = cp.call
         /\ new.todo = cp.todo /\ new.ran = cp.ran /\ new.astray = s /\ ~ InBlock(new)
  <1>. DEFINE goal == <<"clause", b>>
              y == [cp EXCEPT !.next = goal]
              x == [y EXCEPT !.astray = s]
  <1>1. goal \in Goals /\ goal[1] = "clause"
    BY DEF Goals
  <1>2. new = x
    BY DEF Along
  <1>. HIDE DEF goal
  <1>3. y \in ChoicePoints /\ y.next = goal /\ y.call = cp.call /\ y.todo = cp.todo /\ y.ran = cp.ran
    BY <1>1, NextReplaced
  <1>. HIDE DEF y
  <1>4. /\ x \in ChoicePoints /\ x.next = y.next /\ x.call = y.call /\ x.todo = y.todo /\ x.ran = y.ran
        /\ x.astray = s
    BY <1>3 DEF ChoicePoints
  <1>. HIDE DEF x
  <1>5. ~ InBlock(x)
    BY <1>1, <1>3, <1>4 DEF InBlock
  <1>. QED BY <1>2, <1>3, <1>4, <1>5 DEF goal

LEMMA CalledIs ==
  ASSUME NEW d \in Databases, NEW w, Chained(d, w), NEW q, q \in 1 .. MaxChoice, NEW key \in CallKeys,
         Of(d.c, q) = {}, NEW cp, cp = Asked(d, q, key)
  PROVE  Begins(d, w, d.c, cp, Called(d, cp))
  <1>. DEFINE r == Called(d, cp)
              e == d.p.entry
  <1>a. Fresh(d, w, cp) /\ cp.call = q /\ cp.key = key /\ cp.todo = Fitting(d, key)
    BY FreshIs
  <1>0. /\ Links(d, w) /\ Coded(d, w) /\ Fresh(d, w, cp) /\ cp \in ChoicePoints /\ cp.todo \subseteq In(w)
        /\ cp.key = key /\ cp.todo = Fitting(d, key) /\ ~ cp.astray /\ cp.ran = {}
    BY <1>a DEF Chained, Fresh
  <1>1. \A i \in 1 .. Len(w) : w[i] \in Blocks /\ w[i] # None
    BY <1>0, LinksFacts
  <1>2. Len(w) \in Nat
    BY <1>0, LinksFacts
  <1>3. CASE Len(w) = 0
    <2>1. e.op = "empty"
      BY <1>0, <1>3 DEF Coded, Empty
    <2>2. r = Enter(d.c, None)
      BY <2>1 DEF Called
    <2>3. cp.todo \subseteq {None}
      <3>1. In(w) = {}
        BY <1>3 DEF In
      <3>. QED BY <1>0, <3>1
    <2>. HIDE DEF r
    <2>4. Begins(d, w, d.c, cp, Enter(d.c, None))
      BY <1>0, <2>3, BeginsAlone
    <2>. QED BY <2>2, <2>4 DEF r
  <1>4. CASE Len(w) = 1
    <2>. DEFINE b == w[1]
    <2>1. e.op = "jump" /\ e.first = b
      BY <1>0, <1>4 DEF Coded, Jump, Empty
    <2>2. r = Enter(d.c, b)
      BY <2>1 DEF Called
    <2>3. b \in Blocks
      BY <1>1, <1>4
    <2>4. cp.todo \subseteq {b}
      <3>1. In(w) = {w[1]}
        BY <1>4 DEF In
      <3>. QED BY <1>0, <3>1
    <2>. HIDE DEF r, b
    <2>5. Begins(d, w, d.c, cp, Enter(d.c, b))
      BY <1>0, <2>3, <2>4, BeginsAlone
    <2>. QED BY <2>2, <2>5 DEF r
  <1>5. CASE Len(w) # 0 /\ Len(w) # 1
    <2>. DEFINE b == w[1]
                to == w[2]
    <2>1. 1 \in 1 .. Len(w) /\ 2 \in 1 .. Len(w) /\ Len(w) > 1
      BY <1>2, <1>5, NumbersApart
    <2>2. b \in Blocks /\ to \in Blocks /\ d.b[b].next = to /\ d.p.first = b
      <3>1. 1 # Len(w) /\ w # << >>
        BY <1>5
      <3>2. d.b[w[1]].next = w[1 + 1] /\ d.p.first = w[1]
        BY <1>0, <2>1, <3>1 DEF Links
      <3>3. 1 + 1 = 2
        OBVIOUS
      <3>. QED BY <1>1, <2>1, <3>2, <3>3
    <2>3. \/ d.p.usage = "multiple" /\ e.op = "try_me_jump" /\ e.first = w[1] /\ e.second \in Blocks
          \/ d.p.usage = "switch" /\ e = SwitchOnTerm
      BY <1>0, <2>1 DEF Coded
    <2>4. CASE e.op = "try_me_jump" /\ e.first = w[1] /\ e.second \in Blocks
      <3>. DEFINE s == e.second # d.b[e.first].next
                  c2 == e.second
                  x == [cp EXCEPT !.next = <<"clause", c2>>, !.astray = s]
      <3>1. r = Enter(Append(d.c, x), b)
        BY <2>4 DEF Called
      <3>2. s \in BOOLEAN /\ c2 \in Blocks /\ (s <=> c2 # to) /\ (s => ~ EntryHolds(d))
        BY <2>2, <2>4 DEF EntryHolds
      <3>0. x = Along(cp, c2, s)
        BY DEF Along
      <3>. HIDE DEF r, s, c2, e, x
      <3>3. /\ x \in ChoicePoints /\ x.next = <<"clause", c2>> /\ x.call = cp.call /\ x.todo = cp.todo
            /\ x.ran = {} /\ x.astray = s /\ ~ InBlock(x)
        BY <1>0, <3>0, <3>2, AlongIs
      <3>4. b = w[1] /\ to = w[2]
        OBVIOUS
      <3>. HIDE DEF b, to
      <3>5. CASE s
        <4>1. Begins(d, w, d.c, cp, Enter(Append(d.c, x), b))
          BY <1>0, <2>2, <3>2, <3>3, <3>5, BeginsPushed
        <4>. QED BY <3>1, <4>1 DEF r
      <3>6. CASE ~ s
        <4>1. x.next = <<"clause", to>>
          BY <3>2, <3>3, <3>6
        <4>2. Begins(d, w, d.c, cp, Enter(Append(d.c, x), b))
          BY <1>0, <2>1, <3>3, <3>4, <3>6, <4>1, BeginsChain
        <4>. QED BY <3>1, <4>2 DEF r
      <3>. QED BY <3>5, <3>6
    <2>5. CASE d.p.usage = "switch" /\ e = SwitchOnTerm
      <3>0. e.op = "switch"
        BY <2>5 DEF SwitchOnTerm, Empty
      <3>1. CASE LookedUp(d, cp.key) = "var"
        <4>. DEFINE x == [cp EXCEPT !.next = <<"clause", to>>]
        <4>1. d.b[b].code.to = to
          <5>1. ~ LeftOver(d, w)
            BY <1>5 DEF LeftOver
          <5>2. d.b[w[1]].code = TryMe(w[2])
            BY <1>0, <1>5, <2>1, <2>5, <5>1 DEF Coded, CodeOf
          <5>. QED BY <5>2, CodesApart
        <4>2. r = Enter(Append(d.c, x), b)
          BY <2>2, <3>0, <3>1, <4>1 DEF Called, EnterFirst
        <4>3. <<"clause", to>> \in Goals
          BY <2>2 DEF Goals
        <4>4. b = w[1] /\ to = w[2]
          OBVIOUS
        <4>. HIDE DEF r, b, to, e
        <4>5. /\ x \in ChoicePoints /\ x.next = <<"clause", to>> /\ x.call = cp.call /\ x.todo = cp.todo
              /\ x.ran = {} /\ ~ x.astray
          BY <1>0, <4>3, NextReplaced
        <4>. HIDE DEF x
        <4>6. Begins(d, w, d.c, cp, Enter(Append(d.c, x), b))
          BY <1>0, <2>1, <4>4, <4>5, BeginsChain
        <4>. QED BY <4>2, <4>6 DEF r
      <3>2. CASE LookedUp(d, cp.key) # "var"
        <4>. DEFINE nodes == Nodes(d, cp.key)
                    i == Min(nodes)
                    more == After(nodes, i)
        <4>1. r = IF nodes = {} THEN Enter(d.c, None)
                  ELSE IF more = {} THEN EnterNode(d, d.c, i, cp)
                  ELSE EnterNode(d, Append(d.c, [cp EXCEPT !.next = <<"top", Min(more)>>]), i, cp)
          BY <3>0, <3>2 DEF Called
        <4>2. HasIndex(d, w, cp.key)
          <5>1. key # "var"
            BY <1>0, <3>2 DEF LookedUp
          <5>. QED BY <1>0, <2>5, <5>1 DEF HasIndex
        <4>3. nodes = Nodes(d, cp.key) /\ i = Min(nodes) /\ more = After(nodes, i)
          OBVIOUS
        <4>. HIDE DEF r, nodes, i, more, e
        <4>4. Begins(d, w, d.c, cp, r)
          BY <1>0, <4>1, <4>2, <4>3, BeginsIndex
        <4>. QED BY <4>4 DEF r
      <3>. QED BY <3>1, <3>2
    <2>. QED BY <2>3, <2>4, <2>5
  <1>. QED BY <1>3, <1>4, <1>5

(* Where there is no number for a choice point left, what is entered is    *)
(* still a clause.                                                         *)
AtMostMore(c, r) == r.clause \in Blocks \cup {None} /\ (r.cps = c \/ Len(r.cps) > Len(c))

LEMMA AppendedMore ==
  ASSUME NEW c \in Seq(ChoicePoints), NEW b \in Blocks \cup {None}, NEW x
  PROVE  /\ AtMostMore(c, Enter(c, b)) /\ AtMostMore(c, Enter(Append(c, x), b))
         /\ Len(Append(c, x)) = Len(c) + 1
  <1>1. Len(c) \in Nat /\ c \in Seq(ChoicePoints \cup {x}) /\ x \in ChoicePoints \cup {x}
    OBVIOUS
  <1>2. Len(Append(c, x)) = Len(c) + 1
    BY <1>1
  <1>. QED BY <1>1, <1>2 DEF AtMostMore, Enter

LEMMA EnterNodeShape ==
  ASSUME NEW d, NEW w, NEW cp, HasIndex(d, w, cp.key), NEW i, i \in 1 .. Len(w), NEW c, Len(c) \in Nat,
         NEW S, c \in Seq(S)
  PROVE  LET r == EnterNode(d, c, i, cp)
         IN  r.clause \in Blocks \cup {None} /\ (r.cps = c \/ Len(r.cps) = Len(c) + 1)
  <1>. DEFINE m == Matches(d, i, cp.key)
              first == Min(m)
              more == After(m, first)
              x == [cp EXCEPT !.next = <<"bottom", Min(more)>>]
              r == EnterNode(d, c, i, cp)
  <1>0. d.p.index = w /\ d \in Databases /\ Links(d, w) /\ \A j \in 1 .. Len(w) : w[j] \in Blocks
    BY HasIndexFacts
  <1>1. m \subseteq 1 .. Len(w) /\ m \subseteq Nat
    BY <1>0, MatchesAfter
  <1>2. r = Enter(c, None) \/ (m # {} /\ (r = Enter(c, w[first]) \/ r = Enter(Append(c, x), w[first])))
    BY <1>0 DEF EnterNode
  <1>3. m # {} => w[first] \in Blocks
    BY <1>0, <1>1, MinOf
  <1>4. Len(Append(c, x)) = Len(c) + 1
    <2>. HIDE DEF x
    <2>1. c \in Seq(S \cup {x}) /\ x \in S \cup {x}
      OBVIOUS
    <2>. QED BY <2>1
  <1>. HIDE DEF r, x, first, m
  <1>5. r.clause \in Blocks \cup {None} /\ (r.cps = c \/ Len(r.cps) = Len(c) + 1)
    BY <1>2, <1>3, <1>4 DEF Enter
  <1>. QED BY <1>5 DEF r

LEMMA CalledShape ==
  ASSUME NEW d \in Databases, NEW w, Chained(d, w), NEW cp, cp.key \in CallKeys
  PROVE  AtMostMore(d.c, Called(d, cp))
  <1>. DEFINE r == Called(d, cp)
              e == d.p.entry
              nodes == Nodes(d, cp.key)
              i == Min(nodes)
              more == After(nodes, i)
  <1>0. /\ Links(d, w) /\ Coded(d, w) /\ d.c \in Seq(ChoicePoints) /\ Len(d.c) \in Nat
        /\ d.p \in Procedures
    BY DatabaseFacts DEF Chained
  <1>1. e.op \in {"empty", "jump", "try_me_jump", "switch"} /\ e.first \in Blocks \cup {None}
        /\ d.p.first \in Blocks \cup {None}
    BY <1>0 DEF Procedures
  <1>2. CASE e.op = "empty"
    <2>1. r = Enter(d.c, None)
      BY <1>2 DEF Called
    <2>. HIDE DEF r
    <2>. QED BY <1>0, <2>1, AppendedMore DEF r
  <1>3. CASE e.op = "jump"
    <2>1. r = Enter(d.c, e.first)
      BY <1>3 DEF Called
    <2>. HIDE DEF r, e
    <2>. QED BY <1>0, <1>1, <2>1, AppendedMore DEF r
  <1>4. CASE e.op = "try_me_jump"
    <2>. DEFINE x == [cp EXCEPT !.next = <<"clause", e.second>>, !.astray = e.second # d.b[e.first].next]
    <2>1. r = Enter(Append(d.c, x), e.first)
      BY <1>4 DEF Called
    <2>. HIDE DEF r, e, x
    <2>. QED BY <1>0, <1>1, <2>1, AppendedMore DEF r
  <1>5. CASE e.op = "switch" /\ LookedUp(d, cp.key) = "var"
    <2>. DEFINE x == [cp EXCEPT !.next = <<"clause", d.b[d.p.first].code.to>>]
    <2>1. r = Enter(Append(d.c, x), d.p.first)
      BY <1>5 DEF Called, EnterFirst
    <2>. HIDE DEF r, e, x
    <2>. QED BY <1>0, <1>1, <2>1, AppendedMore DEF r
  <1>6. CASE e.op = "switch" /\ LookedUp(d, cp.key) # "var"
    <2>. DEFINE x == [cp EXCEPT !.next = <<"top", Min(more)>>]
                c == IF more = {} THEN d.c ELSE Append(d.c, x)
    <2>1. r = IF nodes = {} THEN Enter(d.c, None) ELSE EnterNode(d, c, i, cp)
      BY <1>6 DEF Called
    <2>2. HasIndex(d, w, cp.key)
      BY <1>6 DEF HasIndex, LookedUp
    <2>3. (c = d.c \/ Len(c) = Len(d.c) + 1) /\ c \in Seq(ChoicePoints \cup {x}) /\ Len(c) \in Nat
      <3>. HIDE DEF x
      <3>1. d.c \in Seq(ChoicePoints \cup {x}) /\ x \in ChoicePoints \cup {x}
        BY <1>0
      <3>2. Append(d.c, x) \in Seq(ChoicePoints \cup {x}) /\ Len(Append(d.c, x)) = Len(d.c) + 1
        BY <3>1
      <3>. QED BY <1>0, <3>1, <3>2
    <2>4. CASE nodes = {}
      <3>. HIDE DEF r
      <3>. QED BY <1>0, <2>1, <2>4, AppendedMore DEF r
    <2>5. CASE nodes # {}
      <3>1. nodes \subseteq 1 .. Len(w) /\ nodes \subseteq Nat
        BY <2>2, HasIndexFacts
      <3>2. i \in 1 .. Len(w)
        BY <2>5, <3>1, MinOf
      <3>. DEFINE S == ChoicePoints \cup {x}
      <3>3. c \in Seq(S)
        BY <2>3
      <3>4. r = EnterNode(d, c, i, cp)
        BY <2>1, <2>5
      <3>. HIDE DEF r, c, i, x, S, e, nodes
      <3>5. r.clause \in Blocks \cup {None} /\ (r.cps = c \/ Len(r.cps) = Len(c) + 1)
        BY <2>2, <2>3, <3>2, <3>3, <3>4, EnterNodeShape
      <3>6. AtMostMore(d.c, r)
        BY <1>0, <2>3, <3>5 DEF AtMostMore
      <3>. QED BY <3>6 DEF r
    <2>. QED BY <2>4, <2>5
  <1>. QED BY <1>1, <1>2, <1>3, <1>4, <1>5, <1>6

(***************************************************************************)
(* A number for the call is left as long as there is room for one more     *)
(* choice point.                                                           *)
(***************************************************************************)
CallsOf(c) == {c[k].call : k \in DOMAIN c}

LEMMA CallsFew ==
  ASSUME NEW c \in Seq(ChoicePoints), NEW n, n \in Nat, 1 .. n \subseteq CallsOf(c)
  PROVE  n <= Len(c)
  <1>. DEFINE f == [k \in 1 .. Len(c) |-> c[k].call]
              T == CallsOf(c)
              m == Len(c)
  <1>1. m \in Nat /\ DOMAIN c = 1 .. m
    OBVIOUS
  <1>2. f \in Surjection(1 .. m, T)
    BY <1>1 DEF Surjection, CallsOf
  <1>. HIDE DEF f, T
  <1>3. IsFiniteSet(1 .. m) /\ Cardinality(1 .. m) = m /\ IsFiniteSet(1 .. n) /\ Cardinality(1 .. n) = n
    <2>1. \A h \in Nat : IsFiniteSet(1 .. h) /\ Cardinality(1 .. h) = h
      <3>. SUFFICES ASSUME NEW h \in Nat PROVE IsFiniteSet(1 .. h) /\ Cardinality(1 .. h) = h
        OBVIOUS
      <3>1. IsFiniteSet(1 .. h) /\ Cardinality(1 .. h) = IF 1 > h THEN 0 ELSE h - 1 + 1
        BY FS_Interval
      <3>. QED BY <3>1
    <2>. QED BY <1>1, <2>1
  <1>4. IsFiniteSet(T) /\ Cardinality(T) <= m
    BY <1>2, <1>3, FS_Surjection
  <1>5. Cardinality(1 .. n) <= Cardinality(T)
    <2>1. 1 .. n \in SUBSET T
      BY DEF T
    <2>. QED BY <1>4, <2>1, FS_Subset
  <1>6. Cardinality(T) \in Nat
    BY <1>4, FS_CardinalityType
  <1>. QED BY <1>1, <1>3, <1>4, <1>5, <1>6

LEMMA NumberIs ==
  ASSUME NEW c \in Seq(ChoicePoints), Len(c) <= MaxChoice,
         NEW q, q = Min(1 .. MaxChoice + 1 \ CallsOf(c))
  PROVE  q \in Nat /\ Of(c, q) = {} /\ (q \notin 1 .. MaxChoice => Len(c) = MaxChoice)
  <1>. DEFINE X == 1 .. MaxChoice + 1 \ CallsOf(c)
  <1>0. MaxChoice \in Nat /\ Len(c) \in Nat /\ DOMAIN c = 1 .. Len(c)
    BY BoundAssumption
  <1>1. \A k \in 1 .. Len(c) : c[k].call \in 1 .. MaxChoice
    BY ChoicePointFacts
  <1>2. MaxChoice + 1 \in X
    BY <1>0, <1>1 DEF CallsOf
  <1>3. X \subseteq Nat
    BY <1>0
  <1>4. q \in X /\ q \in Nat /\ \A y \in X : q <= y
    BY <1>2, <1>3, MinOf
  <1>5. Of(c, q) = {}
    BY <1>0, <1>4 DEF Of, CallsOf
  <1>6. ASSUME q \notin 1 .. MaxChoice PROVE Len(c) = MaxChoice
    <2>1. q = MaxChoice + 1
      BY <1>0, <1>4, <1>6
    <2>2. 1 .. MaxChoice \subseteq CallsOf(c)
      <3>. SUFFICES ASSUME NEW y \in 1 .. MaxChoice, y \notin CallsOf(c) PROVE FALSE
        OBVIOUS
      <3>1. y \in X
        BY <1>0
      <3>2. q <= y
        BY <1>4, <3>1
      <3>. QED BY <1>0, <2>1, <3>2
    <2>3. MaxChoice <= Len(c)
      BY <1>0, <2>2, CallsFew
    <2>4. \A a, b \in Nat : a <= b /\ b <= a => a = b
      OBVIOUS
    <2>5. Len(c) <= MaxChoice
      OBVIOUS
    <2>. QED BY <1>0, <2>3, <2>4, <2>5
  <1>. QED BY <1>4, <1>5, <1>6

LEMMA CallStep ==
  ASSUME NEW w, Inv(w), NEW key \in CallKeys, Call(key)
  PROVE  IInv'
  <1>. DEFINE d == Ready(db)
              q == Min(1 .. MaxChoice + 1 \ CallsOf(cps))
              k == LookedUp(d, key)
              cp == Asked(d, q, k)
              r == Called(d, cp)
  <1>0. /\ db \in Databases /\ db.p = proc /\ db.c = cps /\ walk.next \in Blocks \cup {None} /\ TypeOK
        /\ Chained(db, w) /\ Awaited(db, w, db.c) /\ Walked(db, w, walk)
        /\ cps \in Seq(ChoicePoints) /\ Len(cps) <= MaxChoice
    BY StateTyped DEF Inv, TypeOK
  <1>1. Reindexed(db, d, w)
    BY <1>0, ReadyIs
  <1>2. Len(r.cps) <= MaxChoice /\ Becomes([d EXCEPT !.c = Ran(r.cps, q, r.clause)]) /\ UNCHANGED walk
    BY <1>0 DEF Call, Ready, Asked, CallsOf
  <1>3. k \in CallKeys
    BY DEF LookedUp, CallKeys, Keys
  <1>. HIDE DEF d
  <1>4. d \in Databases /\ d.c = cps /\ Chained(d, w) /\ Awaited(d, w, cps)
    BY <1>0, <1>1 DEF Reindexed
  <1>5. Walked(d, w, walk)
    <2>1. In(w) \subseteq Blocks /\ Alike(db, d)
      BY <1>1, <1>4, LinksFacts DEF Chained, Reindexed
    <2>. QED BY <1>0, <2>1, WalkedAlike
  <1>6. q = Min(1 .. MaxChoice + 1 \ CallsOf(cps)) /\ Len(cps) \in Nat /\ MaxChoice \in Nat
    BY <1>0, BoundAssumption
  <1>. HIDE DEF q, k
  <1>7. q \in Nat /\ Of(cps, q) = {} /\ (q \notin 1 .. MaxChoice => Len(cps) = MaxChoice)
    BY <1>0, <1>6, NumberIs
  <1>8. cp.call = q /\ cp.key = k /\ cp = Asked(d, q, k)
    BY DEF Asked, NewChoice
  <1>. HIDE DEF cp
  <1>9. CASE q \in 1 .. MaxChoice
    <2>1. Begins(d, w, d.c, cp, r)
      BY <1>3, <1>4, <1>7, <1>8, <1>9, CalledIs
    <2>. HIDE DEF r
    <2>2. Continues(d, w, cps, q, r)
      BY <1>4, <1>8, <2>1 DEF Begins
    <2>3. /\ r.cps \in Seq(ChoicePoints) /\ r.clause \in Blocks \cup {None} /\ Leaves(cps, r.cps, q)
          /\ Sound(d, w, Ran(r.cps, q, r.clause), q)
      BY <2>2 DEF Continues
    <2>. QED BY <1>0, <1>2, <1>4, <1>5, <2>3, RunStep
  <1>10. CASE q \notin 1 .. MaxChoice
    <2>1. AtMostMore(d.c, r)
      BY <1>3, <1>4, <1>8, CalledShape
    <2>. HIDE DEF r
    <2>2. r.cps = cps /\ r.clause \in Blocks \cup {None}
      <3>1. Len(cps) = MaxChoice
        BY <1>7, <1>10
      <3>2. ~ (Len(r.cps) > Len(cps))
        <4>. DEFINE n == Len(r.cps)
        <4>. SUFFICES ASSUME n > Len(cps) PROVE FALSE
          OBVIOUS
        <4>. HIDE DEF n
        <4>. QED BY <1>2, <1>6, <3>1 DEF n
      <3>. QED BY <1>4, <2>1, <3>2 DEF AtMostMore
    <2>3. Leaves(cps, r.cps, q)
      BY <2>2, LeavesItself
    <2>4. r.cps \in Seq(ChoicePoints)
      BY <1>0, <2>2
    <2>. QED BY <1>0, <1>2, <1>4, <1>5, <1>10, <2>2, <2>3, <2>4, RunStep
  <1>. QED BY <1>9, <1>10

(***************************************************************************)
(* The enumeration goes on.                                                *)
(***************************************************************************)
WalksTo(d, w, a, m) ==
  /\ m \in In(w) \cup {None} /\ m \in Blocks \cup {None}
  /\ m = None => From(d, w, a) \subseteq {a}
  /\ m # None => d.b[m].code # Free /\ From(d, w, a) \subseteq {a} \cup From(d, w, m)
  /\ m # None => From(d, w, m) \subseteq ToSet(ChainFrom(d, m))

LEMMA FromIsOnward ==
  ASSUME NEW d \in Databases, NEW w, Links(d, w), NEW i, i \in 1 .. Len(w)
  PROVE  From(d, w, w[i]) \subseteq ToSet(ChainFrom(d, w[i]))
  <1>1. ChainFrom(d, w[i]) = Onward(w, w[i])
    BY ChainIs, OnwardIs
  <1>2. ToSet(ChainFrom(d, w[i])) = {w[j] : j \in i .. Len(w)}
    BY <1>1, OnwardGoes
  <1>3. ASSUME NEW a \in From(d, w, w[i]) PROVE \E j \in i .. Len(w) : a = w[j]
    <2>1. PICK j : j \in 1 .. Len(w) /\ a = w[j]
      BY DEF From, In
    <2>2. i <= j
      BY <2>1, IdsApart DEF From
    <2>3. Len(w) \in Nat
      BY LinksFacts
    <2>4. j \in i .. Len(w)
      BY <2>1, <2>2, <2>3
    <2>. QED BY <2>1, <2>4
  <1>. QED BY <1>2, <1>3

LEMMA WalkOn ==
  ASSUME NEW d \in Databases, NEW w, Links(d, w), Coded(d, w), NEW a, a \in Blocks, d.b[a].code # Free
  PROVE  WalksTo(d, w, a, NextClause(d, a))
  <1>. DEFINE m == NextClause(d, a)
  <1>0. In(w) \subseteq Blocks /\ Len(w) \in Nat /\ \A i \in 1 .. Len(w) : w[i] \in In(w) /\ w[i] # None
    BY LinksFacts
  <1>1. CASE a \in In(w)
    <2>1. PICK i : i \in 1 .. Len(w) /\ a = w[i]
      BY <1>1 DEF In
    <2>2. m = IF i = Len(w) THEN None ELSE w[i + 1]
      BY <2>1, NextClauseIs DEF Links
    <2>. HIDE DEF m
    <2>3. \A x \in From(d, w, a) : \E j \in 1 .. Len(w) : x = w[j] /\ i <= j
      <3>. SUFFICES ASSUME NEW x \in From(d, w, a) PROVE \E j \in 1 .. Len(w) : x = w[j] /\ i <= j
        OBVIOUS
      <3>1. PICK j : j \in 1 .. Len(w) /\ x = w[j]
        BY DEF From, In
      <3>2. i <= j
        BY <2>1, <3>1, IdsApart DEF From
      <3>. QED BY <3>1, <3>2
    <2>4. CASE i = Len(w)
      <3>1. m = None
        BY <2>2, <2>4
      <3>2. \A j \in 1 .. Len(w) : i <= j => j = i
        BY <1>0, <2>4
      <3>3. From(d, w, a) \subseteq {a}
        BY <2>1, <2>3, <3>2
      <3>4. WalksTo(d, w, a, m)
        BY <3>1, <3>3 DEF WalksTo
      <3>. QED BY <3>4 DEF m
    <2>5. CASE i # Len(w)
      <3>. DEFINE k == i + 1
      <3>1. k \in 1 .. Len(w) /\ m = w[k]
        BY <1>0, <2>1, <2>2, <2>5
      <3>2. \A j \in 1 .. Len(w) : i <= j => j = i \/ k <= j
        BY <1>0, <2>1
      <3>. HIDE DEF k
      <3>3. m \in In(w) /\ m # None /\ d.b[m].code # Free
        BY SMTT(30), <1>0, <3>1, CodeFacts
      <3>4. From(d, w, a) \subseteq {a} \cup From(d, w, m)
        <4>. SUFFICES ASSUME NEW x \in From(d, w, a) PROVE x = a \/ x \in From(d, w, m)
          OBVIOUS
        <4>1. PICK j : j \in 1 .. Len(w) /\ x = w[j] /\ i <= j
          BY <2>3
        <4>2. CASE j = i
          BY <2>1, <4>1, <4>2
        <4>3. CASE k <= j
          <5>1. d.b[w[k]].id <= d.b[w[j]].id
            BY <3>1, <4>1, <4>3, IdsApart
          <5>. QED BY <1>0, <3>1, <4>1, <5>1 DEF From
        <4>. QED BY <3>2, <4>1, <4>2, <4>3
      <3>5. From(d, w, m) \subseteq ToSet(ChainFrom(d, m))
        BY <3>1, FromIsOnward
      <3>6. WalksTo(d, w, a, m)
        BY <1>0, <3>3, <3>4, <3>5 DEF WalksTo
      <3>. QED BY <3>6 DEF m
    <2>. QED BY <2>4, <2>5
  <1>2. CASE a \notin In(w)
    <2>1. m = FirstFrom(d, d.b[a].id)
      BY <1>2, NextClauseIs
    <2>2. d.b[a].id \in Int
      BY CodeTypes
    <2>. HIDE DEF m
    <2>3. CASE m = None /\ \A x \in In(w) : d.b[x].id < d.b[a].id
      <3>1. \A x \in In(w) : d.b[x].id \in Int
        BY <1>0, CodeTypes
      <3>2. From(d, w, a) = {}
        BY <2>2, <2>3, <3>1 DEF From
      <3>3. WalksTo(d, w, a, m)
        BY <2>3, <3>2 DEF WalksTo
      <3>. QED BY <3>3 DEF m
    <2>4. CASE \E i \in 1 .. Len(w) :
                 /\ m = w[i] /\ d.b[a].id <= d.b[w[i]].id
                 /\ \A j \in 1 .. Len(w) : j < i => d.b[w[j]].id < d.b[a].id
      <3>1. PICK i : /\ i \in 1 .. Len(w) /\ m = w[i] /\ d.b[a].id <= d.b[w[i]].id
                     /\ \A j \in 1 .. Len(w) : j < i => d.b[w[j]].id < d.b[a].id
        BY <2>4
      <3>2. From(d, w, a) \subseteq From(d, w, m)
        BY <3>1, FromFirst
      <3>3. m \in In(w) /\ m # None /\ d.b[m].code # Free
        BY SMTT(30), <1>0, <3>1, CodeFacts
      <3>4. From(d, w, m) \subseteq ToSet(ChainFrom(d, m))
        BY <3>1, FromIsOnward
      <3>5. WalksTo(d, w, a, m)
        BY <1>0, <3>2, <3>3, <3>4 DEF WalksTo
      <3>. QED BY <3>5 DEF m
    <2>. QED BY <2>1, <2>2, <2>3, <2>4, FirstFromIs
  <1>. QED BY <1>1, <1>2

(* The enumeration comes to m, after a. *)
LEMMA WalkedOn ==
  ASSUME NEW d \in Databases, NEW w, Links(d, w), Coded(d, w), NEW a, a \in Blocks, d.b[a].code # Free,
         NEW todo, todo \subseteq From(d, w, a), NEW wk,
         wk = ReferTo(NextClause(d, a), todo \ {a}), d.b = block
  PROVE  Walked(d, w, wk) /\ wk \in Enumerations
  <1>. DEFINE m == NextClause(d, a)
              id == IF m = None THEN 0 ELSE d.b[m].id
  <1>1. WalksTo(d, w, a, m) /\ In(w) \subseteq Blocks
    BY WalkOn, LinksFacts
  <1>2. wk = [next |-> m, id |-> id, todo |-> todo \ {a}]
    BY DEF ReferTo
  <1>3. todo \subseteq Blocks
    BY <1>1 DEF From
  <1>. HIDE DEF m
  <1>4. m \in Blocks \cup {None} /\ id \in Int
    <2>1. m \in Blocks \cup {None}
      BY <1>1 DEF WalksTo
    <2>2. m # None => d.b[m].id \in Int
      BY <2>1, CodeTypes
    <2>. QED BY <2>1, <2>2
  <1>5. /\ m = None => todo \subseteq {a}
        /\ m # None => d.b[m].code # Free /\ todo \subseteq {a} \cup Later(d, w, d.b[m].id)
    BY <1>1 DEF WalksTo, From, Later
  <1>6. Walked(d, w, wk)
    <2>1. wk.next = m /\ wk.id = id /\ wk.todo = todo \ {a}
      BY <1>2
    <2>. QED BY <1>5, <2>1 DEF Walked
  <1>7. wk \in Enumerations
    <2>. HIDE DEF id
    <2>. QED BY <1>2, <1>3, <1>4 DEF Enumerations
  <1>. QED BY <1>6, <1>7

LEMMA StoreKept ==
  ASSUME NEW w, Inv(w), UNCHANGED <<proc, block, cps>>,
         walk' \in Enumerations, Walked(db, w, walk')
  PROVE  IInv'
  <1>1. db' = db /\ cps' = cps /\ proc' = proc /\ block' = block
    BY DEF db
  <1>2. TypeOK'
    BY <1>1 DEF Inv, TypeOK
  <1>3. Chained(db', w) /\ Awaited(db', w, cps') /\ Walked(db', w, walk')
    BY <1>1 DEF Inv
  <1>4. Chain(db') = w
    <2>1. db \in Databases
      BY StateTyped DEF Inv
    <2>. QED BY <1>1, <2>1, ChainIs DEF Inv, Chained
  <1>. QED BY <1>2, <1>3, <1>4 DEF IInv

LEMMA WalkStep ==
  ASSUME NEW w, Inv(w), Walk
  PROVE  IInv'
  <1>0. /\ db \in Databases /\ db.p = proc /\ db.b = block /\ Links(db, w) /\ Coded(db, w) /\ Walked(db, w, walk)
        /\ walk.next \in Blocks \cup {None} /\ walk.todo \in SUBSET Blocks
    BY StateTyped DEF Inv, Chained
  <1>1. CASE WalkFirst
    <2>. DEFINE a == proc.first
                todo == ToSet(Chain(db))
    <2>1. a # None /\ UNCHANGED <<proc, block, cps>> /\ walk' = ReferTo(NextClause(db, a), todo \ {a})
      BY <1>1 DEF WalkFirst
    <2>2. a = w[1] /\ 1 \in 1 .. Len(w) /\ a \in Blocks
      BY <1>0, <2>1, EndsOf
    <2>3. db.b[a].code # Free
      BY SMTT(30), <1>0, <2>2, CodeFacts
    <2>4. todo \subseteq From(db, w, a)
      <3>1. todo = In(w)
        BY <1>0, ChainSet
      <3>2. \A i \in 1 .. Len(w) : 1 <= i
        BY <1>0, LinksFacts
      <3>3. \A i \in 1 .. Len(w) : db.b[w[1]].id <= db.b[w[i]].id
        BY <1>0, <2>2, <3>2, IdsApart
      <3>. QED BY <2>2, <3>1, <3>3 DEF From, In
    <2>. HIDE DEF a, todo
    <2>5. Walked(db, w, walk') /\ walk' \in Enumerations
      BY <1>0, <2>1, <2>2, <2>3, <2>4, WalkedOn
    <2>. QED BY <2>1, <2>5, StoreKept
  <1>2. CASE WalkNext
    <2>. DEFINE a == walk.next
                todo == walk.todo
    <2>1. a # None /\ UNCHANGED <<proc, block, cps>> /\ walk' = ReferTo(NextClause(db, a), todo \ {a})
      BY <1>2 DEF WalkNext, ReferenceGood
    <2>2. a \in Blocks /\ db.b[a].code # Free /\ todo \subseteq From(db, w, a)
      BY <1>0, <1>2 DEF Walked, WalkNext, ReferenceGood, From, Later
    <2>. HIDE DEF a, todo
    <2>3. Walked(db, w, walk') /\ walk' \in Enumerations
      BY <1>0, <2>1, <2>2, WalkedOn
    <2>. QED BY <2>1, <2>3, StoreKept
  <1>3. CASE WalkEnds
    <2>1. UNCHANGED <<proc, block, cps>> /\ walk' = NoWalk
      BY <1>3 DEF WalkEnds
    <2>2. Walked(db, w, walk') /\ walk' \in Enumerations
      BY <2>1 DEF NoWalk, Walked, Enumerations
    <2>. QED BY <2>1, <2>2, StoreKept
  <1>. QED BY <1>1, <1>2, <1>3 DEF Walk

LEMMA Initially ==
  ASSUME Init
  PROVE  IInv
  <1>. DEFINE w == << >>
  <1>0. /\ db.p = proc /\ db.b = block /\ db.c = cps /\ cps = << >> /\ walk = NoWalk
        /\ None \notin Blocks /\ MaxChoice \in Nat /\ MaxId \in Nat
    BY BoundAssumption DEF Init, db, Blocks, None
  <1>1. /\ proc.first = None /\ proc.last = None /\ proc.usage = "undefined" /\ proc.entry = Empty
        /\ proc.index = << >> /\ proc.lo = 0 /\ proc.hi = 0 /\ proc \in Procedures
    <2>1. Empty \in Entries
      BY EntriesTyped
    <2>2. << >> \in Seq(Blocks)
      OBVIOUS
    <2>. QED BY <2>1, <2>2 DEF Init, Procedures, Entries
  <1>2. /\ block \in [Blocks -> ClauseBlocks]
        /\ \A b \in Blocks : block[b].next = None /\ block[b].code = Free
    <2>1. [code |-> Free, next |-> None, id |-> 0, key |-> "var"] \in ClauseBlocks
      BY CodesTyped DEF ClauseBlocks, Codes, Keys
    <2>. QED BY <2>1 DEF Init
  <1>3. TypeOK
    <2>1. walk \in Enumerations
      BY <1>0 DEF NoWalk, Enumerations
    <2>2. cps \in Seq(ChoicePoints) /\ Len(cps) <= MaxChoice
      BY <1>0
    <2>. QED BY <1>1, <1>2, <2>1, <2>2 DEF TypeOK
  <1>4. Len(w) = 0 /\ w \in Seq(Blocks) /\ In(w) = {} /\ 1 .. Len(w) = {}
    BY DEF In
  <1>5. Links(db, w)
    BY <1>0, <1>1, <1>2, <1>4 DEF Links
  <1>6. Coded(db, w)
    BY <1>0, <1>1, <1>4 DEF Coded
  <1>7. Numbered(db, w)
    BY <1>0, <1>1, <1>4 DEF Numbered
  <1>8. Chain(db) = w
    <2>1. db \in Databases
      BY <1>3, StateTyped
    <2>. QED BY <1>5, <2>1, ChainIs
  <1>. HIDE DEF w
  <1>9. Awaited(db, w, cps)
    <2>1. \A q : Of(cps, q) = {}
      BY <1>0 DEF Of
    <2>. QED BY <2>1 DEF Awaited, Sound
  <1>10. Walked(db, w, walk)
    BY <1>0 DEF Walked, NoWalk
  <1>. QED BY <1>3, <1>5, <1>6, <1>7, <1>8, <1>9, <1>10 DEF IInv, Chained

LEMMA InvIs ==
  ASSUME IInv
  PROVE  Inv(Chain(db))
  BY DEF IInv, Inv

LEMMA EachStep ==
  ASSUME IInv, [Next]_vars
  PROVE  IInv'
  <1>. DEFINE w == Chain(db)
  <1>1. Inv(w)
    BY InvIs
  <1>. HIDE DEF w
  <1>2. ASSUME NEW cg \in Files \cup {Asserta, Assertz}, NEW key \in Keys, AddClause(cg, key)
        PROVE  IInv'
    BY <1>1, <1>2, AddClauseStep
  <1>3. ASSUME NEW a \in Blocks, Erase(a) PROVE IInv'
    BY <1>1, <1>3, EraseStep
  <1>4. ASSUME NEW a \in Blocks, EraseAgain(a) PROVE IInv'
    BY <1>1, <1>4, EraseAgainStep
  <1>5. CASE CollectOther
    BY <1>1, <1>5, CollectOtherStep
  <1>6. CASE AbolishAny
    BY <1>1, <1>6, AbolishAnyStep
  <1>7. CASE Fail
    BY <1>1, <1>7, FailStep
  <1>8. ASSUME NEW key \in CallKeys, Call(key) PROVE IInv'
    BY <1>1, <1>8, CallStep
  <1>9. CASE Walk
    BY <1>1, <1>9, WalkStep
  <1>10. CASE UNCHANGED vars
    <2>1. db' = db /\ proc' = proc /\ block' = block /\ cps' = cps /\ walk' = walk
      BY <1>10 DEF vars, db
    <2>2. Walked(db, w, walk') /\ walk' \in Enumerations
      BY <1>1, <2>1 DEF Inv, TypeOK
    <2>. QED BY <1>1, <2>1, <2>2, StoreKept
  <1>. QED BY <1>2, <1>3, <1>4, <1>5, <1>6, <1>7, <1>8, <1>9, <1>10 DEF Next, Edit, Run

(***************************************************************************)
(* IInv holds in every state, whatever is added, erased, abolished,        *)
(* indexed, called or enumerated (wintcode.c, index.c): the chain is       *)
(* linked and coded, each choice point still goes over what its call has   *)
(* to run, and nothing the enumeration has to return comes before the      *)
(* clause it refers to; w_collect leaves that clause alone if its id is an *)
(* integer of Prolog.                                                      *)
(***************************************************************************)
THEOREM Invariant == Spec => []IInv
  <1>1. Init => IInv
    BY Initially
  <1>2. IInv /\ [Next]_vars => IInv'
    BY EachStep
  <1>. QED BY <1>1, <1>2, PTL DEF Spec

(***************************************************************************)
(* What follows from the invariant                                         *)
(***************************************************************************)
LEMMA InvChain ==
  ASSUME IInv
  PROVE  ChainLinked
  <1>. DEFINE w == Chain(db)
              n == Len(w)
              code(i) == IF i = n THEN TrustMe
                         ELSE IF i = 1 /\ proc.usage = "switch" THEN TryMe(w[2]) ELSE RetryMe(w[i + 1])
              leftOver == n = 1 /\ block[w[1]].code.op = "retry" /\ block[w[1]].code.to \notin ToSet(w)
  <1>0. /\ db \in Databases /\ db.p = proc /\ db.b = block /\ Links(db, w) /\ Coded(db, w)
    BY StateTyped DEF IInv, Chained
  <1>1. ToSet(w) = In(w)
    BY <1>0, ChainSet
  <1>. HIDE DEF w
  <1>2. n \in Nat /\ (w = << >> <=> n = 0)
    BY <1>0, LinksFacts, EndsOf
  <1>3. leftOver \/ \A i \in 1 .. n : block[w[i]].code = code(i)
    <2>1. LeftOver(db, w) => leftOver
      BY <1>0, <1>1 DEF LeftOver
    <2>2. \A i \in 1 .. n : CodeOf(db, w, i) = code(i)
      BY <1>0 DEF CodeOf
    <2>. HIDE DEF leftOver, code
    <2>. QED BY <1>0, <2>1, <2>2 DEF Coded
  <1>4. \A i \in 1 .. n - 1 : block[w[i]].id < block[w[i + 1]].id
    <2>. SUFFICES ASSUME NEW i \in 1 .. n - 1 PROVE block[w[i]].id < block[w[i + 1]].id
      OBVIOUS
    <2>1. i \in 1 .. n /\ i + 1 \in 1 .. n /\ i < i + 1
      BY <1>2
    <2>. QED BY <1>0, <2>1 DEF Links
  <1>5. \A b \in Blocks \ ToSet(w) : block[b].code \in {Deleted, Free}
    BY <1>0, <1>1 DEF Links
  <1>6. proc.last = IF n = 0 THEN None ELSE w[n]
    BY <1>0, <1>2 DEF Links
  <1>7. CASE n = 0
    <2>1. proc.usage = "undefined" /\ proc.entry = Empty
      BY <1>0, <1>7 DEF Coded
    <2>2. proc.index = IF proc.usage = "switch" THEN w ELSE << >>
      BY <1>0 DEF Coded
    <2>. HIDE DEF code, leftOver
    <2>. QED BY <1>3, <1>4, <1>5, <1>6, <1>7, <2>1, <2>2 DEF ChainLinked, w, code, leftOver
  <1>8. CASE n = 1
    <2>1. proc.usage = "single" /\ proc.entry = Jump(w[1])
      BY <1>0, <1>8 DEF Coded
    <2>2. proc.index = IF proc.usage = "switch" THEN w ELSE << >>
      BY <1>0 DEF Coded
    <2>. HIDE DEF code, leftOver
    <2>. QED BY <1>3, <1>4, <1>5, <1>6, <1>8, <2>1, <2>2 DEF ChainLinked, w, code, leftOver
  <1>9. CASE n # 0 /\ n # 1
    <2>0. n > 1
      BY <1>2, <1>9, NumbersApart
    <2>1. \/ proc.usage = "multiple" /\ proc.entry.op = "try_me_jump" /\ proc.entry.first = w[1]
          \/ proc.usage = "switch" /\ proc.entry = SwitchOnTerm
      BY <1>0, <2>0 DEF Coded
    <2>2. proc.index = IF proc.usage = "switch" THEN w ELSE << >>
      BY <1>0 DEF Coded
    <2>. HIDE DEF code, leftOver
    <2>. QED BY <1>3, <1>4, <1>5, <1>6, <1>9, <2>1, <2>2 DEF ChainLinked, w, code, leftOver
  <1>. QED BY <1>7, <1>8, <1>9

(* What Pending says of a choice point on its way.  The database that it   *)
(* is asked of may have other choice points.                               *)
LEMMA PendingIs ==
  ASSUME NEW d \in Databases, NEW w, Chained(d, w), NEW x \in ChoicePoints,
         x.next[1] = "clause" => d.b[x.next[2]].code # Free,
         NEW r \in Databases, r.p = d.p, r.b = d.b
  PROVE  Pending(r, x) = Ahead(d, w, x)
  <1>0. x.next[1] \in {"fail", "clause", "top", "bottom"} /\ (x.next[1] # "fail" => x.next[2] \in Blocks)
    BY ChoicePointFacts
  <1>1. CASE x.next[1] = "clause"
    <2>. DEFINE b == x.next[2]
    <2>1. Pending(r, x) = ToSet(PathFrom(r, b)) /\ Ahead(d, w, x) = From(d, w, b)
      BY <1>1 DEF Pending, Ahead
    <2>2. From(r, w, b) = From(d, w, b)
      BY DEF From
    <2>3. b \in Blocks /\ r.b[b].code # Free
      BY <1>0, <1>1
    <2>4. Links(r, w) /\ Coded(r, w)
      <3>1. SameChain(d, r, w)
        BY DEF SameChain, SameProcedure
      <3>2. Chained(r, w)
        BY <3>1, ChainKept
      <3>. QED BY <3>2 DEF Chained
    <2>. HIDE DEF b
    <2>. QED BY <2>1, <2>2, <2>3, <2>4, PathGoes
  <1>2. CASE x.next[1] = "fail"
    BY <1>2 DEF Pending, Ahead
  <1>3. CASE x.next[1] = "top" \/ x.next[1] = "bottom"
    <2>1. Ahead(d, w, x) = Pending(d, x)
      BY <1>3 DEF Ahead
    <2>2. \A i : KeyAt(r, i) = KeyAt(d, i)
      BY DEF KeyAt
    <2>3. Nodes(r, x.key) = Nodes(d, x.key) /\ \A i : Node(r, i) = Node(d, i)
      BY <2>2 DEF Nodes, Node
    <2>4. \A i : Matches(r, i, x.key) = Matches(d, i, x.key)
      BY <2>2, <2>3 DEF Matches, IsTable
    <2>5. Pending(r, x) = Pending(d, x)
      BY <1>3, <2>3, <2>4 DEF Pending
    <2>. QED BY <2>1, <2>5
  <1>. QED BY <1>0, <1>1, <1>2, <1>3

(* A choice point on its way, its call and those of the same call *)
Track(w, k, q) ==
  /\ db \in Databases /\ db.c = cps /\ db.b = block /\ Chained(db, w)
  /\ k \in 1 .. Len(cps) /\ k \in Of(cps, q) /\ q = cps[k].call /\ ~ cps[k].astray
  /\ Sound(db, w, cps, q)
  /\ \A j \in Of(cps, q) :
       /\ cps[j] \in ChoicePoints /\ ~ cps[j].astray /\ Goes(db, w, cps[j])
       /\ Pending(db, cps[j]) = Ahead(db, w, cps[j])

LEMMA TrackIs ==
  ASSUME NEW w, Inv(w), NEW k, k \in OnTrack, NEW q, q = cps[k].call
  PROVE  Track(w, k, q)
  <1>0. /\ db \in Databases /\ db.c = cps /\ db.b = block /\ Chained(db, w) /\ Awaited(db, w, cps)
        /\ cps \in Seq(ChoicePoints)
    BY StateTyped DEF Inv, TypeOK
  <1>1. k \in 1 .. Len(cps) /\ ~ cps[k].astray /\ \A j \in 1 .. Len(cps) : cps[j] \in ChoicePoints
    BY <1>0 DEF OnTrack
  <1>2. q \in 1 .. MaxChoice
    BY <1>1, ChoicePointFacts
  <1>3. Sound(db, w, cps, q) /\ k \in Of(cps, q)
    BY <1>0, <1>1, <1>2 DEF Awaited, Of
  <1>4. ASSUME NEW j, j \in Of(cps, q)
        PROVE  /\ cps[j] \in ChoicePoints /\ ~ cps[j].astray /\ Goes(db, w, cps[j])
               /\ Pending(db, cps[j]) = Ahead(db, w, cps[j])
    <2>1. ~ cps[j].astray
      BY <1>1, <1>3, <1>4 DEF Sound
    <2>2. Goes(db, w, cps[j]) /\ cps[j] \in ChoicePoints
      BY <1>1, <1>3, <1>4, <2>1 DEF Sound, Of
    <2>3. cps[j].next[1] = "clause" => db.b[cps[j].next[2]].code # Free
      BY <2>2 DEF Goes
    <2>4. Pending(db, cps[j]) = Ahead(db, w, cps[j])
      BY <1>0, <2>2, <2>3, PendingIs
    <2>. QED BY <2>1, <2>2, <2>4
  <1>. QED BY <1>0, <1>1, <1>3, <1>4 DEF Track

(* Nothing comes before the block that a choice point names. *)
LEMMA PlaceIs ==
  ASSUME NEW d \in Databases, NEW w, Chained(d, w), NEW cp \in ChoicePoints, Goes(d, w, cp),
         NEW b, b \in Ahead(d, w, cp)
  PROVE  /\ b \in In(w) /\ b \in Blocks /\ cp.next[1] # "fail" /\ Place(d, cp) \in Blocks
         /\ d.b[Place(d, cp)].id <= d.b[b].id
  <1>0. Links(d, w) /\ Coded(d, w) /\ In(w) \subseteq Blocks
    BY LinksFacts DEF Chained
  <1>1. cp.next[1] # "fail"
    BY DEF Ahead
  <1>2. CASE cp.next[1] = "clause"
    <2>1. Place(d, cp) = cp.next[2] /\ Ahead(d, w, cp) = From(d, w, cp.next[2]) /\ cp.next[2] \in Blocks
      BY <1>2, ChoicePointFacts DEF Place, InBlock, Ahead
    <2>. QED BY <1>0, <1>1, <2>1 DEF From
  <1>3. CASE InBlock(cp)
    <2>1. InIndex(d, w, cp)
      BY <1>3 DEF Goes
    <2>2. Place(d, cp) \in Blocks /\ Ahead(d, w, cp) \subseteq From(d, w, Place(d, cp))
      BY <1>0, <1>3, <2>1, NextInChainIs, AheadFrom
    <2>. QED BY <1>0, <1>1, <2>2 DEF From
  <1>. QED BY <1>1, <1>2, <1>3, ChoicePointFacts

LEMMA InvRunning ==
  ASSUME NEW w, Inv(w), NEW k, k \in OnTrack
  PROVE  cps[k].todo \subseteq Rest(db, cps[k].call)
  <1>. DEFINE q == cps[k].call
  <1>1. Track(w, k, q)
    BY TrackIs
  <1>. HIDE DEF q
  <1>. SUFFICES ASSUME NEW a \in cps[k].todo PROVE a \in Rest(db, q)
    BY DEF q
  <1>2. PICK j : j \in Of(cps, q) /\ a \in Ahead(db, w, cps[j])
    BY <1>1 DEF Track, Sound
  <1>3. a \in Pending(db, cps[j])
    BY <1>1, <1>2 DEF Track
  <1>4. j \in DOMAIN db.c /\ db.c = cps /\ cps[j].call = q
    <2>1. db.c = cps /\ cps \in Seq(ChoicePoints)
      BY <1>1, StateTyped DEF Track, Inv, TypeOK
    <2>. QED BY <1>2, <2>1 DEF Of
  <1>. QED BY <1>3, <1>4 DEF Rest

LEMMA InvCalled ==
  ASSUME NEW w, Inv(w), cps = << >>, EntryIntact, NEW key \in CallKeys
  PROVE  LET r == Called(db, NewChoice(<<"fail">>, 1, key, Fitting(db, key), FALSE))
         IN  Fitting(db, key) \subseteq {r.clause} \cup Rest([db EXCEPT !.c = r.cps], 1)
  <1>. DEFINE cp == Asked(db, 1, key)
              r == Called(db, cp)
              c == r.cps
              b == r.clause
              e == [db EXCEPT !.c = c]
              F == Fitting(db, key)
              q == 1
  <1>0. db \in Databases /\ db.c = << >> /\ Chained(db, w) /\ EntryHolds(db)
    BY StateTyped DEF Inv, EntryIntact, EntryHolds
  <1>1. q \in 1 .. MaxChoice /\ Of(db.c, q) = {}
    BY <1>0, BoundAssumption DEF Of
  <1>2. cp = Asked(db, q, key)
    OBVIOUS
  <1>3. cp.call = q /\ cp.todo = F
    BY DEF Asked, NewChoice
  <1>. HIDE DEF q, cp, F
  <1>4. Begins(db, w, db.c, cp, r)
    BY <1>0, <1>1, <1>2, CalledIs
  <1>. HIDE DEF r
  <1>5. /\ c \in Seq(ChoicePoints) /\ b \in Blocks \cup {None} /\ Sound(db, w, Ran(c, q, b), q)
        /\ \A k \in Of(c, q) : c[k].todo = F /\ ~ c[k].astray
        /\ Of(c, q) = {} => F \subseteq {b}
    BY <1>0, <1>3, <1>4 DEF Begins, Continues
  <1>6. e \in Databases /\ e.p = db.p /\ e.b = db.b /\ e.c = c
    BY <1>0, <1>5 DEF Databases
  <1>. HIDE DEF c, b, e
  <1>7. F \subseteq {b} \cup Rest(e, q)
    <2>. SUFFICES ASSUME NEW a \in F, a # b PROVE a \in Rest(e, q)
      OBVIOUS
    <2>1. PICK k : k \in Of(c, q)
      BY <1>5
    <2>. DEFINE h == Ran(c, q, b)
    <2>2. Runs(c, h, q, b)
      BY <1>5, RanIs
    <2>. HIDE DEF h
    <2>3. Of(h, q) = Of(c, q) /\ \A j \in Of(c, q) : c[j] \in ChoicePoints /\ h[j] = Having(c[j], b)
      BY <2>2 DEF Runs
    <2>4. \A j \in Of(c, q) : /\ h[j].next = c[j].next /\ ~ h[j].astray /\ h[j].todo = c[j].todo \ {b}
                              /\ Ahead(db, w, h[j]) = Ahead(db, w, c[j])
      BY <1>5, <2>3, HavingIs, HavingAhead
    <2>5. a \in h[k].todo /\ ~ h[k].astray /\ k \in Of(h, q)
      BY <1>5, <2>1, <2>3, <2>4
    <2>6. PICK j : j \in Of(h, q) /\ a \in Ahead(db, w, h[j])
      BY <1>5, <2>5 DEF Sound, h
    <2>7. Goes(db, w, h[j])
      BY <1>5, <2>3, <2>4, <2>6 DEF Sound, h
    <2>8. c[j] \in ChoicePoints /\ (c[j].next[1] = "clause" => db.b[c[j].next[2]].code # Free)
      BY <2>3, <2>4, <2>6, <2>7 DEF Goes
    <2>9. Pending(e, c[j]) = Ahead(db, w, c[j])
      BY <1>0, <1>6, <2>8, PendingIs
    <2>10. a \in Pending(e, e.c[j])
      BY <1>6, <2>3, <2>4, <2>6, <2>9
    <2>11. j \in DOMAIN e.c /\ e.c[j].call = q
      BY <1>5, <1>6, <2>3, <2>6 DEF Of
    <2>. QED BY <2>10, <2>11 DEF Rest
  <1>. QED BY <1>7 DEF F, q, e, c, b, r, cp, Asked

LEMMA InvWalk ==
  ASSUME NEW w, Inv(w)
  PROVE  ReferenceGood(db) =>
           walk.todo \subseteq {walk.next} \cup ToSet(ChainFrom(db, NextClause(db, walk.next)))
  <1>. SUFFICES ASSUME ReferenceGood(db)
                PROVE  walk.todo \subseteq {walk.next} \cup ToSet(ChainFrom(db, NextClause(db, walk.next)))
    OBVIOUS
  <1>0. /\ db \in Databases /\ Links(db, w) /\ Coded(db, w) /\ Walked(db, w, walk)
        /\ walk.next \in Blocks \cup {None}
    BY StateTyped DEF Inv, Chained
  <1>1. walk.next \in Blocks /\ db.b[walk.next].code # Free /\ walk.todo \subseteq From(db, w, walk.next)
    BY <1>0 DEF ReferenceGood, Walked, From, Later
  <1>2. WalksTo(db, w, walk.next, NextClause(db, walk.next))
    BY <1>0, <1>1, WalkOn
  <1>. QED BY <1>1, <1>2 DEF WalksTo

LEMMA InvNoneSkipped ==
  ASSUME IInv
  PROVE  NoneSkipped
  <1>. DEFINE w == Chain(db)
  <1>1. Inv(w)
    BY InvIs
  <1>. HIDE DEF w
  <1>2. \A k \in OnTrack : cps[k].todo \subseteq Rest(db, cps[k].call)
    BY <1>1, InvRunning
  <1>3. cps = << >> /\ EntryIntact => \A key \in CallKeys :
       LET r == Called(db, NewChoice(<<"fail">>, 1, key, Fitting(db, key), FALSE))
       IN  Fitting(db, key) \subseteq {r.clause} \cup Rest([db EXCEPT !.c = r.cps], 1)
    BY <1>1, InvCalled
  <1>4. ReferenceGood(db) =>
          walk.todo \subseteq {walk.next} \cup ToSet(ChainFrom(db, NextClause(db, walk.next)))
    BY <1>1, InvWalk
  <1>. QED BY <1>2, <1>3, <1>4 DEF NoneSkipped

(* Of two choice points of a call the newer one runs its clauses first. *)
LEMMA PairBefore ==
  ASSUME NEW w, NEW k, NEW q, Track(w, k, q), NEW j, j \in Of(cps, q), k < j,
         NEW b, b \in Ahead(db, w, cps[k]), NEW a, a \in Ahead(db, w, cps[j])
  PROVE  db.b[a].id < db.b[b].id
  <1>. DEFINE old == cps[k]
              new == cps[j]
  <1>1. /\ Pair(db, old, new) /\ Goes(db, w, old) /\ Goes(db, w, new) /\ db \in Databases /\ Chained(db, w)
        /\ old \in ChoicePoints /\ new \in ChoicePoints
    BY DEF Track, Sound
  <1>. HIDE DEF old, new
  <1>2. old.next # <<"fail">>
    <2>1. old.next[1] # "fail"
      BY <1>1, PlaceIs DEF old
    <2>. QED BY <1>1, <2>1, ChoicePointFacts
  <1>3. /\ old.next[1] = "top" /\ new.next[1] = "bottom" /\ old.key = new.key
        /\ \A i \in Matches(db, new.next[2], new.key) : i < old.next[2]
    BY <1>1, <1>2 DEF Pair
  <1>4. InBlock(old) /\ InIndex(db, w, old)
    BY <1>1, <1>3 DEF InBlock, Goes
  <1>5. HasIndex(db, w, old.key) /\ HasIndex(db, w, new.key)
    BY <1>1, <1>3, <1>4, ChoicePointFacts DEF InIndex, HasIndex
  <1>6. PICK x : x \in Matches(db, new.next[2], new.key) /\ a = w[x]
    BY <1>1, <1>3, <1>5, BottomAhead DEF new
  <1>7. b \in AtOrAfter(db, w, old.key, old.next[2])
    BY <1>1, <1>3, <1>5, TopAhead DEF old
  <1>8. PICK y, z : /\ y \in Nodes(db, old.key) /\ y >= old.next[2]
                    /\ z \in Matches(db, y, old.key) /\ b = w[z]
    BY <1>7 DEF AtOrAfter
  <1>9. /\ Links(db, w) /\ db.p.index = w /\ Len(w) \in Nat /\ Nodes(db, old.key) \subseteq 1 .. Len(w)
    BY <1>5, HasIndexFacts
  <1>10. z \in 1 .. Len(w) /\ y <= z /\ y \in 1 .. Len(w)
    BY <1>1, <1>8, <1>9, MatchesAfter
  <1>11. x \in 1 .. Len(w) /\ x < old.next[2]
    <2>1. InIndex(db, w, new)
      BY <1>1, <1>3 DEF InBlock, Goes
    <2>2. new.next[2] \in 1 .. Len(w)
      BY <2>1 DEF InIndex
    <2>. QED BY <1>1, <1>3, <1>6, <1>9, <2>2, MatchesAfter
  <1>12. old.next[2] \in Nat
    BY <1>4, <1>9 DEF InIndex
  <1>13. x < z
    BY <1>8, <1>9, <1>10, <1>11, <1>12
  <1>. QED BY <1>1, <1>6, <1>8, <1>9, <1>10, <1>11, <1>13, IdsApart

LEMMA InvInOrder ==
  ASSUME IInv
  PROVE  InOrder
  <1>. DEFINE w == Chain(db)
  <1>1. Inv(w)
    BY InvIs
  <1>. HIDE DEF w
  <1>. SUFFICES ASSUME NEW k, k \in OnTrack
                PROVE  /\ cps[k].next[1] = "clause" =>
                            LET path == PathFrom(db, cps[k].next[2])
                            IN  \A i \in 1 .. Len(path) - 1 : Before(path[i], path[i + 1])
                       /\ \A b \in Pending(db, cps[k]) :
                            /\ \A a \in cps[k].ran : Before(a, b)
                            /\ \A j \in k + 1 .. Len(cps) :
                                 cps[j].call = cps[k].call => \A a \in Pending(db, cps[j]) : Before(a, b)
    BY DEF InOrder
  <1>. DEFINE q == cps[k].call
  <1>2. Track(w, k, q)
    BY <1>1, TrackIs
  <1>3. q = cps[k].call
    OBVIOUS
  <1>. HIDE DEF q
  <1>4. /\ db \in Databases /\ db.b = block /\ Chained(db, w) /\ cps[k] \in ChoicePoints
        /\ Goes(db, w, cps[k]) /\ Pending(db, cps[k]) = Ahead(db, w, cps[k]) /\ k \in 1 .. Len(cps)
    BY <1>2 DEF Track
  <1>5. ASSUME cps[k].next[1] = "clause"
        PROVE  \A i \in 1 .. Len(PathFrom(db, cps[k].next[2])) - 1 :
                 Before(PathFrom(db, cps[k].next[2])[i], PathFrom(db, cps[k].next[2])[i + 1])
    <2>. DEFINE b == cps[k].next[2]
    <2>1. b \in Blocks /\ db.b[b].code # Free
      BY <1>4, <1>5 DEF Goes
    <2>. HIDE DEF b
    <2>2. \A i \in 1 .. Len(PathFrom(db, b)) - 1 :
            db.b[PathFrom(db, b)[i]].id < db.b[PathFrom(db, b)[i + 1]].id
      BY <1>4, <2>1, PathGoes DEF Chained
    <2>. QED BY <1>4, <2>2 DEF Before, b
  <1>6. ASSUME NEW b, b \in Pending(db, cps[k]), NEW a, a \in cps[k].ran
        PROVE  Before(a, b)
    <2>1. /\ cps[k].next[1] # "fail" /\ Place(db, cps[k]) \in Blocks /\ b \in Blocks
          /\ db.b[Place(db, cps[k])].id <= db.b[b].id
      BY <1>4, <1>6, PlaceIs
    <2>2. db.b[a].id < db.b[Place(db, cps[k])].id
      BY <1>4, <1>6, <2>1 DEF Goes
    <2>3. a \in Blocks
      BY <1>4, <1>6, ChoicePointFacts
    <2>. DEFINE x == db.b[a].id
                y == db.b[Place(db, cps[k])].id
                z == db.b[b].id
    <2>4. x \in Int /\ y \in Int /\ z \in Int
      BY <1>4, <2>1, <2>3, CodeTypes
    <2>5. x < z
      <3>1. x < y /\ y <= z
        BY <2>1, <2>2
      <3>. HIDE DEF x, y, z
      <3>. QED BY <2>4, <3>1
    <2>. QED BY <1>4, <2>5 DEF Before
  <1>7. ASSUME NEW b, b \in Pending(db, cps[k]), NEW j, j \in k + 1 .. Len(cps), cps[j].call = q,
               NEW a, a \in Pending(db, cps[j])
        PROVE  Before(a, b)
    <2>1. j \in 1 .. Len(cps) /\ k < j
      <3>1. Len(cps) \in Nat
        <4>1. cps \in Seq(ChoicePoints)
          BY <1>1 DEF Inv, TypeOK
        <4>. QED BY <4>1
      <3>. QED BY <1>4, <1>7, <3>1
    <2>2. j \in Of(cps, q)
      BY <1>7, <2>1 DEF Of
    <2>3. Pending(db, cps[j]) = Ahead(db, w, cps[j])
      BY <1>2, <2>2 DEF Track
    <2>4. db.b[a].id < db.b[b].id
      BY <1>2, <1>4, <1>7, <2>1, <2>2, <2>3, PairBefore
    <2>. QED BY <1>4, <2>4 DEF Before
  <1>. QED BY <1>3, <1>5, <1>6, <1>7

LEMMA InvNoFreedClause ==
  ASSUME IInv
  PROVE  NoFreedClause
  <1>. DEFINE w == Chain(db)
  <1>1. Inv(w)
    BY InvIs
  <1>. HIDE DEF w
  <1>2. ASSUME NEW k, k \in OnTrack, cps[k].next[1] = "clause" PROVE block[cps[k].next[2]].code # Free
    <2>. DEFINE q == cps[k].call
    <2>1. Track(w, k, q)
      BY <1>1, <1>2, TrackIs
    <2>. QED BY <1>2, <2>1 DEF Track, Goes
  <1>3. ASSUME walk.next # None, IsPrologInteger(walk.id) PROVE ReferenceGood(db)
    <2>1. Walked(db, w, walk)
      BY <1>1 DEF Inv
    <2>. QED BY <1>3, <2>1 DEF Walked, ReferenceGood
  <1>. QED BY <1>2, <1>3 DEF NoFreedClause

(***************************************************************************)
(* The procedure's entry, its blocks, the choice points and the            *)
(* enumeration stay of their types: every link and every operand of choice *)
(* code is a block or none.                                                *)
(***************************************************************************)
THEOREM TypeCorrect == Spec => []TypeOK
  <1>1. IInv => TypeOK
    BY DEF IInv
  <1>. QED BY <1>1, Invariant, PTL

(***************************************************************************)
(* Links, ids, choice code, entry code, flags and index agree after each   *)
(* of w_addclause, w_erase, w_abolish, do_indexing and w_nukeindexing, for *)
(* any number of clauses (wintcode.c, index.c).                            *)
(***************************************************************************)
THEOREM ChainStaysLinked == Spec => []ChainLinked
  <1>1. IInv => ChainLinked
    BY InvChain
  <1>. QED BY <1>1, Invariant, PTL

(***************************************************************************)
(* Whatever is asserted, retracted, abolished or indexed while a call runs *)
(* or an enumeration goes on, every clause it began with and that fits is  *)
(* still ahead of it, unless it is erased (w_fixchoicepoints of wintcode.c *)
(* and the choice code of the clauses); of an enumeration while its        *)
(* reference is good (w_validate_dbref), even to a clause put in the place *)
(* of the one it was made for.                                             *)
(***************************************************************************)
THEOREM NoClauseSkipped == Spec => []NoneSkipped
  <1>1. IInv => NoneSkipped
    BY InvNoneSkipped
  <1>. QED BY <1>1, Invariant, PTL

(***************************************************************************)
(* No call runs a clause twice or goes back in the chain, also when its    *)
(* choice points leave the index block for the chain or enter a clause     *)
(* added meanwhile (w_nukeindexing and w_fixchoicepoints of wintcode.c).   *)
(***************************************************************************)
THEOREM ClausesInOrder == Spec => []InOrder
  <1>1. IInv => InOrder
    BY InvInOrder
  <1>. QED BY <1>1, Invariant, PTL

(***************************************************************************)
(* w_collect never frees the block that a choice point on its way goes on  *)
(* to, nor makes a reference bad whose id is an integer, however erasures  *)
(* and collections mix (mark_clause and w_collect of wintcode.c).          *)
(***************************************************************************)
THEOREM NothingFreedEarly == Spec => []NoFreedClause
  <1>1. IInv => NoFreedClause
    BY InvNoFreedClause
  <1>. QED BY <1>1, Invariant, PTL

================================================================================
