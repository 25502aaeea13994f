-------------------------- MODULE ClauseChainProofs --------------------------
(***************************************************************************)
(* Proofs about Clauses, first part: the chain of the clauses and what     *)
(* adding, erasing and abolishing make of it, for every number of blocks   *)
(* and choice points, all groups and all first arguments.                  *)
(*                                                                         *)
(* IInv, the inductive invariant, says of the chain w that ids ascend and  *)
(* choice code, entry code, flags and index follow it (Chained), of the    *)
(* choice points of each call that what they go on to holds what the call  *)
(* has still to run (Awaited), and of an enumeration that its reference is *)
(* to a clause no later than what it has still to return, and good as long *)
(* as its id is an integer (Walked).                                       *)
(***************************************************************************)
EXTENDS Clauses, FiniteSetTheorems, SequenceTheorems, WellFoundedInduction, TLAPS

(***************************************************************************)
(* The chain of a database d is w.                                         *)
(***************************************************************************)
In(w) == {w[i] : i \in 1 .. Len(w)}

Links(d, w) ==
  /\ w \in Seq(Blocks)
  /\ \A i, j \in 1 .. Len(w) : i < j => d.b[w[i]].id < d.b[w[j]].id
  /\ \A i \in 1 .. Len(w) : d.b[w[i]].next = IF i = Len(w) THEN None ELSE w[i + 1]
  /\ \A b \in Blocks \ In(w) : d.b[b].next = None /\ d.b[b].code \in {Deleted, Free}
  /\ d.p.first = IF w = << >> THEN None ELSE w[1]
  /\ d.p.last = IF w = << >> THEN None ELSE w[Len(w)]

(* What abolish leaves in the first clause if it abolishes all others: the *)
(* code goes on to a block that is not in the chain, and from there to     *)
(* nothing.                                                                *)
LeftOver(d, w) ==
  /\ Len(w) = 1 /\ d.b[w[1]].code.op = "retry" /\ d.b[w[1]].code.to \in Blocks \ In(w)
  /\ \/ d.b[d.b[w[1]].code.to].code = Free
     \/ d.b[w[1]].id < d.b[d.b[w[1]].code.to].id

CodeOf(d, w, i) ==
  IF i = Len(w) THEN TrustMe
  ELSE IF i = 1 /\ d.p.usage = "switch" THEN TryMe(w[2]) ELSE RetryMe(w[i + 1])

Coded(d, w) ==
  /\ LeftOver(d, w) \/ \A i \in 1 .. Len(w) : d.b[w[i]].code = CodeOf(d, w, i)
  /\ Len(w) = 0 => d.p.usage = "undefined" /\ d.p.entry = Empty
  /\ Len(w) = 1 => d.p.usage = "single" /\ d.p.entry = Jump(w[1])
  /\ Len(w) > 1 =>
       \/ d.p.usage = "multiple" /\ d.p.entry.op = "try_me_jump" /\ d.p.entry.first = w[1]
                                 /\ d.p.entry.second \in Blocks
       \/ d.p.usage = "switch" /\ d.p.entry = SwitchOnTerm
  /\ d.p.index = IF d.p.usage = "switch" THEN w ELSE << >>

(* Where the ids of the groups of assert begin and end *)
Numbered(d, w) ==
  /\ d.p.lo <= 0 /\ 0 <= d.p.hi /\ d.p.hi - d.p.lo <= MaxId
  /\ \A i \in 1 .. Len(w) :
       Asserta * IdSpan + d.p.lo <= d.b[w[i]].id /\ d.b[w[i]].id <= Assertz * IdSpan + d.p.hi

Chained(d, w) == Links(d, w) /\ Coded(d, w) /\ Numbered(d, w)

(***************************************************************************)
(* The choice points of call q in c, as far as they are on their way.  The *)
(* block that one names, and the clauses it is going to run                *)
(***************************************************************************)
Of(c, q) == {k \in 1 .. Len(c) : c[k].call = q}

Place(d, cp) == IF InBlock(cp) THEN d.p.index[cp.next[2]] ELSE cp.next[2]

From(d, w, b) == {x \in In(w) : d.b[b].id <= d.b[x].id}

Ahead(d, w, cp) ==
  CASE cp.next[1] = "clause" -> From(d, w, cp.next[2])
    [] cp.next[1] = "fail" -> {}
    [] OTHER -> Pending(d, cp)

(* What can be the address in the index block: the first entry of a node   *)
(* is never one, as the call begins with it.                               *)
InIndex(d, w, cp) ==
  LET i == cp.next[2]
  IN  /\ d.p.usage = "switch" /\ i \in 1 .. Len(w) /\ cp.key # "var"
      /\ cp.next[1] = "top" => i > 1 /\ i \in Nodes(d, cp.key)
      /\ cp.next[1] = "bottom" => cp.key # "list" /\ i \in Matches(d, i, cp.key)

(* Two choice points of one call are neighbours: the older is one of the   *)
(* nodes or what became of it.                                             *)
Pair(d, older, newer) ==
  /\ older.todo = newer.todo /\ older.ran = newer.ran
  /\ \/ older.next = <<"fail">> /\ newer.next[1] = "clause"
     \/ /\ older.next[1] = "top" /\ newer.next[1] = "bottom"
        /\ older.key = newer.key
        /\ newer.next[2] < older.next[2]
        /\ \A i \in Matches(d, newer.next[2], newer.key) : i < older.next[2]

(* Where a choice point goes on *)
Goes(d, w, cp) ==
  /\ cp.ran \subseteq In(w) /\ cp.todo \subseteq In(w)
  /\ InBlock(cp) => InIndex(d, w, cp)
  /\ cp.next[1] = "clause" => cp.next[2] \in Blocks /\ d.b[cp.next[2]].code # Free
  /\ cp.next[1] # "fail" => \A a \in cp.ran : d.b[a].id < d.b[Place(d, cp)].id

Sound(d, w, c, q) ==
  /\ \A k \in Of(c, q) : c[k].astray => ~ InBlock(c[k])
  /\ \A k \in Of(c, q) : ~ c[k].astray => Goes(d, w, c[k])
  /\ \A j, k \in Of(c, q) : c[j].astray => c[k].astray
  /\ \A j, k \in Of(c, q) : j < k /\ ~ c[j].astray => k = j + 1 /\ Pair(d, c[j], c[k])
  /\ \A k \in Of(c, q) : ~ c[k].astray =>
       \A a \in c[k].todo : \E j \in Of(c, q) : a \in Ahead(d, w, c[j])

Awaited(d, w, c) == \A q \in 1 .. MaxChoice : Sound(d, w, c, q)

Later(d, w, id) == {x \in In(w) : id <= d.b[x].id}

Walked(d, w, wk) ==
  /\ wk.next = None => wk.todo = {}
  /\ wk.todo \subseteq Later(d, w, wk.id)
  /\ wk.next # None /\ IsPrologInteger(wk.id) =>
       d.b[wk.next].code # Free /\ d.b[wk.next].id = wk.id

IInv == TypeOK /\ \E w \in {Chain(db)} : Chained(db, w) /\ Awaited(db, w, cps) /\ Walked(db, w, walk)

Databases == [p : Procedures, b : [Blocks -> ClauseBlocks], c : Seq(ChoicePoints)]

------------------------------------------------------------------------------
(***************************************************************************)
(* Sets of numbers                                                         *)
(***************************************************************************)
LEMMA LeastOf ==
  ASSUME NEW X, X \subseteq Nat, X # {}
  PROVE  \E x \in X : \A y \in X : x <= y
  <1>1. IsWellFoundedOn(OpToRel(<, Nat), Nat)
    BY NatLessThanWellFounded
  <1>2. PICK x \in X : \A y \in X : ~ (<<y, x>> \in OpToRel(<, Nat))
    BY <1>1, WFMin
  <1>3. \A y \in X : ~ (y < x)
    BY <1>2 DEF OpToRel
  <1>. QED BY <1>3

LEMMA MinOf ==
  ASSUME NEW X, X \subseteq Nat, X # {}
  PROVE  Min(X) \in X /\ Min(X) \in Nat /\ \A y \in X : Min(X) <= y
  BY LeastOf DEF Min

LEMMA MaxOf ==
  ASSUME NEW n \in Nat, NEW X, X \subseteq 0 .. n, X # {}
  PROVE  Max(X) \in X /\ Max(X) \in Nat /\ \A y \in X : y <= Max(X)
  <1>. DEFINE Y == {n - x : x \in X}
  <1>1. Y \subseteq Nat /\ Y # {}
    <2>1. \A x \in X : n - x \in Nat
      OBVIOUS
    <2>. QED BY <2>1
  <1>2. PICK z \in Y : \A y \in Y : z <= y
    BY <1>1, LeastOf
  <1>3. PICK x \in X : z = n - x
    BY <1>2
  <1>4. \A y \in X : y <= x
    <2>. SUFFICES ASSUME NEW y \in X PROVE y <= x
      OBVIOUS
    <2>1. n - x <= n - y
      BY <1>2, <1>3
    <2>. QED BY <2>1
  <1>5. x \in X /\ \A y \in X : x >= y
    BY <1>4
  <1>6. Max(X) \in X /\ \A y \in X : Max(X) >= y
    BY <1>5 DEF Max
  <1>7. \A y \in X : y \in Nat
    OBVIOUS
  <1>8. Max(X) \in Nat /\ \A y \in X : Max(X) >= y => y <= Max(X)
    BY <1>6, <1>7
  <1>. QED BY <1>6, <1>8

LEMMA Downward ==
  ASSUME NEW n \in Nat, NEW S, \A i \in 1 .. n : i = n \/ i + 1 \in S => i \in S
  PROVE  1 .. n \subseteq S
  <1>. SUFFICES ASSUME (1 .. n) \ S # {} PROVE FALSE
    OBVIOUS
  <1>1. (1 .. n) \ S \subseteq 0 .. n
    OBVIOUS
  <1>. DEFINE m == Max((1 .. n) \ S)
  <1>2. m \in (1 .. n) \ S /\ \A y \in (1 .. n) \ S : y <= m
    BY <1>1, MaxOf
  <1>. HIDE DEF m
  <1>3. m # n /\ m + 1 \notin S
    BY <1>2
  <1>. QED BY <1>2, <1>3

(***************************************************************************)
(* The chain                                                               *)
(***************************************************************************)
LEMMA SuffixProperties ==
  ASSUME NEW S, NEW w \in Seq(S), NEW i \in 1 .. Len(w)
  PROVE  /\ SubSeq(w, i, Len(w)) = <<w[i]>> \o SubSeq(w, i + 1, Len(w))
         /\ SubSeq(w, Len(w) + 1, Len(w)) = << >>
         /\ SubSeq(w, i, Len(w)) \in Seq(S)
         /\ Len(SubSeq(w, i, Len(w))) = Len(w) - i + 1
         /\ \A j \in 1 .. Len(w) - i + 1 : SubSeq(w, i, Len(w))[j] = w[i + j - 1]
  <1>1. Len(w) \in Nat /\ \A j \in 1 .. Len(w) : w[j] \in S
    BY LenProperties, ElementOfSeq
  <1>2. SubSeq(w, Len(w) + 1, Len(w)) = << >>
    BY <1>1, SubSeqEmpty
  <1>3. SubSeq(w, i, Len(w)) = <<w[i]>> \o SubSeq(w, i + 1, Len(w))
    BY <1>1, SubSeqRecursiveFirst
  <1>4. i \in Int /\ Len(w) \in Int /\ \A j \in i .. Len(w) : w[j] \in S
    BY <1>1
  <1>5. /\ SubSeq(w, i, Len(w)) \in Seq(S)
        /\ Len(SubSeq(w, i, Len(w))) = IF i <= Len(w) THEN Len(w) - i + 1 ELSE 0
        /\ \A j \in 1 .. Len(w) - i + 1 : SubSeq(w, i, Len(w))[j] = w[i + j - 1]
    BY <1>4, SubSeqProperties
  <1>. QED BY <1>1, <1>2, <1>3, <1>5

LEMMA LinksFacts ==
  ASSUME NEW d, NEW w, Links(d, w)
  PROVE  /\ w \in Seq(Blocks) /\ Len(w) \in Nat /\ DOMAIN w = 1 .. Len(w)
         /\ None \notin Blocks /\ In(w) \subseteq Blocks /\ None \notin In(w)
         /\ \A i \in 1 .. Len(w) : w[i] \in Blocks /\ w[i] \in In(w) /\ w[i] # None
  <1>1. w \in Seq(Blocks)
    BY DEF Links
  <1>2. Len(w) \in Nat /\ DOMAIN w = 1 .. Len(w) /\ \A i \in 1 .. Len(w) : w[i] \in Blocks
    BY <1>1, LenProperties, ElementOfSeq
  <1>3. None \notin Blocks
    BY BoundAssumption DEF None, Blocks
  <1>. QED BY <1>1, <1>2, <1>3 DEF In

LEMMA CodeTypes ==
  ASSUME NEW d \in Databases, NEW b \in Blocks
  PROVE  /\ d.b[b] \in ClauseBlocks /\ d.b[b].id \in Int /\ d.b[b].key \in Keys
         /\ d.b[b].next \in Blocks \cup {None} /\ d.b[b].code.to \in Blocks \cup {None}
         /\ d.b[b].code.op \in {"retry", "trust", "try", "deleted", "free"}
         /\ d.b[b].code = [op |-> d.b[b].code.op, to |-> d.b[b].code.to]
  <1>1. d.b[b] \in ClauseBlocks
    BY DEF Databases
  <1>. QED BY <1>1 DEF ClauseBlocks

LEMMA IdsApart ==
  ASSUME NEW d \in Databases, NEW w, Links(d, w)
  PROVE  /\ \A i \in 1 .. Len(w) : d.b[w[i]].id \in Int
         /\ \A i, j \in 1 .. Len(w) : w[i] = w[j] => i = j
         /\ \A i, j \in 1 .. Len(w) : d.b[w[i]].id <= d.b[w[j]].id <=> i <= j
         /\ \A i, j \in 1 .. Len(w) : d.b[w[i]].id < d.b[w[j]].id <=> i < j
         /\ \A a, b \in In(w) : d.b[a].id = d.b[b].id => a = b
  <1>1. \A i \in 1 .. Len(w) : d.b[w[i]].id \in Int
    BY LinksFacts, CodeTypes
  <1>2. \A i, j \in 1 .. Len(w) : i < j => d.b[w[i]].id < d.b[w[j]].id
    BY DEF Links
  <1>3. Len(w) \in Nat
    BY LinksFacts
  <1>4. \A i, j \in 1 .. Len(w) : i < j \/ j < i \/ i = j
    BY <1>3
  <1>5. \A i, j \in 1 .. Len(w) : w[i] = w[j] => i = j
    BY <1>1, <1>2, <1>4
  <1>6. \A i, j \in 1 .. Len(w) : d.b[w[i]].id < d.b[w[j]].id <=> i < j
    <2>. SUFFICES ASSUME NEW i \in 1 .. Len(w), NEW j \in 1 .. Len(w)
                  PROVE  d.b[w[i]].id < d.b[w[j]].id <=> i < j
      OBVIOUS
    <2>1. CASE i < j
      BY <1>2, <2>1
    <2>2. CASE j < i
      BY <1>1, <1>2, <1>3, <2>2
    <2>3. CASE i = j
      BY <1>1, <1>3, <2>3
    <2>. QED BY <1>4, <2>1, <2>2, <2>3
  <1>7. \A i, j \in 1 .. Len(w) : d.b[w[i]].id <= d.b[w[j]].id <=> i <= j
    <2>. SUFFICES ASSUME NEW i \in 1 .. Len(w), NEW j \in 1 .. Len(w)
                  PROVE  d.b[w[i]].id <= d.b[w[j]].id <=> i <= j
      OBVIOUS
    <2>1. d.b[w[j]].id < d.b[w[i]].id <=> j < i
      BY <1>6
    <2>. QED BY <1>1, <1>3, <2>1
  <1>8. \A i, j \in 1 .. Len(w) : d.b[w[i]].id = d.b[w[j]].id => i = j
    <2>. SUFFICES ASSUME NEW i \in 1 .. Len(w), NEW j \in 1 .. Len(w), d.b[w[i]].id = d.b[w[j]].id
                  PROVE  i = j
      OBVIOUS
    <2>1. ~ (d.b[w[i]].id < d.b[w[j]].id) /\ ~ (d.b[w[j]].id < d.b[w[i]].id)
      BY <1>1
    <2>. QED BY <1>4, <1>6, <2>1
  <1>9. \A a, b \in In(w) : d.b[a].id = d.b[b].id => a = b
    BY <1>8 DEF In
  <1>. QED BY <1>1, <1>5, <1>6, <1>7, <1>9

LEMMA DatabaseFacts ==
  ASSUME NEW d \in Databases
  PROVE  d.p \in Procedures /\ d.b \in [Blocks -> ClauseBlocks] /\ d.c \in Seq(ChoicePoints)
  BY DEF Databases

(* The place of b in w *)
Pos(w, b) == CHOOSE i \in 1 .. Len(w) : w[i] = b

LEMMA PosOf ==
  ASSUME NEW d \in Databases, NEW w, Links(d, w), NEW i \in 1 .. Len(w)
  PROVE  Pos(w, w[i]) = i
  <1>1. Pos(w, w[i]) \in 1 .. Len(w) /\ w[Pos(w, w[i])] = w[i]
    BY DEF Pos
  <1>. QED BY <1>1, IdsApart

IsChainFunction(d, h) ==
  h = [a \in Blocks \cup {None} |-> IF a = None THEN << >> ELSE <<a>> \o h[d.b[a].next]]

LEMMA ChainIs ==
  ASSUME NEW d \in Databases, NEW w, Links(d, w)
  PROVE  /\ Chain(d) = w
         /\ ChainFrom(d, None) = << >>
         /\ \A i \in 1 .. Len(w) : ChainFrom(d, w[i]) = SubSeq(w, i, Len(w))
  <1>. DEFINE n == Len(w)
              g == [a \in Blocks \cup {None} |->
                      IF a = None THEN << >>
                      ELSE IF a \in In(w) THEN SubSeq(w, Pos(w, a), n) ELSE <<a>>]
              f == CHOOSE h : IsChainFunction(d, h)
  <1>0. n \in Nat /\ None \notin Blocks /\ None \notin In(w) /\ w \in Seq(Blocks)
    BY LinksFacts
  <1>1. IsChainFunction(d, g)
    <2>. SUFFICES ASSUME NEW a \in Blocks
                  PROVE  g[a] = <<a>> \o g[d.b[a].next]
      BY <1>0 DEF IsChainFunction
    <2>1. g[None] = << >>
      OBVIOUS
    <2>2. CASE a \notin In(w)
      <3>1. d.b[a].next = None
        BY <2>2 DEF Links
      <3>2. <<a>> \o << >> = <<a>>
        OBVIOUS
      <3>. QED BY <1>0, <2>1, <2>2, <3>1, <3>2
    <2>3. CASE a \in In(w)
      <3>1. PICK i \in 1 .. n : a = w[i]
        BY <2>3 DEF In
      <3>2. Pos(w, a) = i
        BY <3>1, PosOf
      <3>3. g[a] = SubSeq(w, i, n)
        BY <1>0, <2>3, <3>2
      <3>4. SubSeq(w, i, n) = <<w[i]>> \o SubSeq(w, i + 1, n) /\ SubSeq(w, n + 1, n) = << >>
        BY <1>0, SuffixProperties
      <3>5. g[d.b[a].next] = SubSeq(w, i + 1, n)
        <4>1. d.b[w[i]].next = IF i = n THEN None ELSE w[i + 1]
          BY DEF Links
        <4>2. CASE i = n
          BY <2>1, <3>1, <3>4, <4>1, <4>2
        <4>3. CASE i # n
          <5>1. i + 1 \in 1 .. n
            BY <1>0, <4>3
          <5>2. w[i + 1] \in Blocks /\ w[i + 1] \in In(w) /\ w[i + 1] # None /\ Pos(w, w[i + 1]) = i + 1
            BY <5>1, LinksFacts, PosOf
          <5>. QED BY <3>1, <4>1, <4>3, <5>2
        <4>. QED BY <4>2, <4>3
      <3>. QED BY <3>1, <3>3, <3>4, <3>5
    <2>. QED BY <2>2, <2>3
  <1>2. IsChainFunction(d, f)
    <2>. HIDE DEF g
    <2>. QED BY <1>1
  <1>3. \A b : ChainFrom(d, b) = f[b]
    BY DEF ChainFrom, IsChainFunction
  <1>. HIDE DEF f, g
  <1>4. f[None] = << >> /\ \A a \in Blocks : f[a] = <<a>> \o f[d.b[a].next]
    BY <1>0, <1>2 DEF IsChainFunction
  <1>. DEFINE S == {i \in 1 .. n : f[w[i]] = SubSeq(w, i, n)}
  <1>5. ASSUME NEW i \in 1 .. n, i = n \/ i + 1 \in S PROVE i \in S
    <2>1. f[w[i]] = <<w[i]>> \o f[d.b[w[i]].next]
      BY <1>4, LinksFacts
    <2>2. d.b[w[i]].next = IF i = n THEN None ELSE w[i + 1]
      BY DEF Links
    <2>3. SubSeq(w, i, n) = <<w[i]>> \o SubSeq(w, i + 1, n) /\ SubSeq(w, n + 1, n) = << >>
      BY <1>0, SuffixProperties
    <2>4. f[d.b[w[i]].next] = SubSeq(w, i + 1, n)
      <3>1. CASE i = n
        BY <1>4, <2>2, <2>3, <3>1
      <3>2. CASE i # n
        BY <1>5, <2>2, <3>2
      <3>. QED BY <3>1, <3>2
    <2>. QED BY <2>1, <2>3, <2>4
  <1>6. 1 .. n \subseteq S
    <2>1. \A i \in 1 .. n : i = n \/ i + 1 \in S => i \in S
      BY <1>5
    <2>. HIDE DEF S, n
    <2>. QED BY <1>0, <2>1, Downward
  <1>7. \A i \in 1 .. n : ChainFrom(d, w[i]) = SubSeq(w, i, n)
    BY <1>3, <1>6
  <1>8. Chain(d) = w
    <2>1. CASE w = << >>
      BY <1>3, <1>4, <2>1 DEF Chain, Links
    <2>2. CASE w # << >>
      <3>1. d.p.first = w[1]
        BY <2>2 DEF Links
      <3>2. n # 0
        BY <1>0, <2>2, EmptySeq
      <3>3. 1 \in 1 .. n
        BY <1>0, <3>2
      <3>4. Chain(d) = SubSeq(w, 1, n)
        BY <1>7, <3>1, <3>3 DEF Chain
      <3>. QED BY <1>0, <3>4, SubSeqFull
    <2>. QED BY <2>1, <2>2
  <1>. QED BY <1>3, <1>4, <1>7, <1>8

LEMMA ChainSet ==
  ASSUME NEW d \in Databases, NEW w, Links(d, w)
  PROVE  ToSet(Chain(d)) = In(w) /\ DOMAIN Chain(d) = 1 .. Len(w)
  BY ChainIs, LinksFacts DEF ToSet, In

LEMMA FirstFromIs ==
  ASSUME NEW d \in Databases, NEW w, Links(d, w), NEW id \in Int
  PROVE  \/ FirstFrom(d, id) = None /\ \A x \in In(w) : d.b[x].id < id
         \/ \E i \in 1 .. Len(w) :
              /\ FirstFrom(d, id) = w[i] /\ id <= d.b[w[i]].id
              /\ \A j \in 1 .. Len(w) : j < i => d.b[w[j]].id < id
  <1>. DEFINE from == {i \in 1 .. Len(w) : d.b[w[i]].id >= id}
  <1>1. FirstFrom(d, id) = IF from = {} THEN None ELSE w[Min(from)]
    BY ChainIs, LinksFacts DEF FirstFrom
  <1>2. \A i \in 1 .. Len(w) : d.b[w[i]].id \in Int /\ (d.b[w[i]].id >= id <=> ~ (d.b[w[i]].id < id))
    BY IdsApart, LinksFacts
  <1>3. CASE from = {}
    <2>1. \A i \in 1 .. Len(w) : d.b[w[i]].id < id
      BY <1>2, <1>3
    <2>. QED BY <1>1, <1>3, <2>1 DEF In
  <1>4. CASE from # {}
    <2>1. from \subseteq Nat
      BY LinksFacts
    <2>2. Min(from) \in from /\ \A y \in from : Min(from) <= y
      BY <1>4, <2>1, MinOf
    <2>3. \A j \in 1 .. Len(w) : j < Min(from) => d.b[w[j]].id < id
      <3>1. Min(from) \in Nat
        BY <2>1, <2>2
      <3>2. \A j \in 1 .. Len(w) : j < Min(from) => ~ (Min(from) <= j)
        BY <3>1
      <3>. QED BY <1>2, <2>2, <3>2
    <2>4. Min(from) \in 1 .. Len(w) /\ id <= d.b[w[Min(from)]].id
      BY <1>2, <2>2
    <2>. QED BY <1>1, <1>4, <2>3, <2>4
  <1>. QED BY <1>3, <1>4

LEMMA CodesApart ==
  /\ Free.op = "free" /\ Deleted.op = "deleted" /\ TrustMe.op = "trust" /\ Free # Deleted
  /\ \A b : /\ RetryMe(b).op = "retry" /\ RetryMe(b).to = b /\ TryMe(b).op = "try" /\ TryMe(b).to = b
            /\ RetryMe(b) # Free /\ RetryMe(b) # Deleted /\ TryMe(b) # Free /\ TryMe(b) # Deleted
  /\ TrustMe # Free /\ TrustMe # Deleted
  /\ Free.to = None /\ Deleted.to = None /\ TrustMe.to = None
  <1>1. /\ Free.op = "free" /\ Deleted.op = "deleted" /\ TrustMe.op = "trust"
        /\ Free.to = None /\ Deleted.to = None /\ TrustMe.to = None
    BY DEF Free, Deleted, TrustMe
  <1>2. \A b : RetryMe(b).op = "retry" /\ RetryMe(b).to = b /\ TryMe(b).op = "try" /\ TryMe(b).to = b
    BY DEF RetryMe, TryMe
  <1>3. /\ "free" # "deleted" /\ "free" # "trust" /\ "free" # "retry" /\ "free" # "try"
        /\ "deleted" # "trust" /\ "deleted" # "retry" /\ "deleted" # "try"
    OBVIOUS
  <1>. QED BY <1>1, <1>2, <1>3

LEMMA CodeFacts ==
  ASSUME NEW d \in Databases, NEW w, Links(d, w), Coded(d, w)
  PROVE  /\ \A i \in 1 .. Len(w) - 1 : /\ d.b[w[i]].code.op \in {"retry", "try"}
                                       /\ d.b[w[i]].code.to = w[i + 1]
                                       /\ i # 1 \/ d.p.usage # "switch" => d.b[w[i]].code.op = "retry"
         /\ Len(w) # 0 /\ ~ LeftOver(d, w) => d.b[w[Len(w)]].code.op = "trust"
         /\ \A i \in 1 .. Len(w) : d.b[w[i]].code # Free /\ d.b[w[i]].code # Deleted
                                   /\ d.b[w[i]].code.op # "free" /\ ~ IsDeleted(d, w[i])
         /\ \A b \in Blocks \ In(w) :
              /\ d.b[b].code = Free \/ (d.b[b].code = Deleted /\ IsDeleted(d, b))
              /\ d.b[b].code = Free <=> d.b[b].code.op = "free"
  <1>0. Len(w) \in Nat
    BY LinksFacts
  <1>1. ~ LeftOver(d, w) => \A i \in 1 .. Len(w) : d.b[w[i]].code = CodeOf(d, w, i)
    BY DEF Coded
  <1>2. LeftOver(d, w) => Len(w) = 1 /\ d.b[w[1]].code.op = "retry"
    BY DEF LeftOver
  <1>3. \A i \in 1 .. Len(w) - 1 : /\ d.b[w[i]].code.op \in {"retry", "try"}
                                   /\ d.b[w[i]].code.to = w[i + 1]
                                   /\ i # 1 \/ d.p.usage # "switch" => d.b[w[i]].code.op = "retry"
    <2>. SUFFICES ASSUME NEW i \in 1 .. Len(w) - 1
                  PROVE  /\ d.b[w[i]].code.op \in {"retry", "try"}
                         /\ d.b[w[i]].code.to = w[i + 1]
                         /\ i # 1 \/ d.p.usage # "switch" => d.b[w[i]].code.op = "retry"
      OBVIOUS
    <2>1. i \in 1 .. Len(w) /\ i # Len(w) /\ Len(w) # 1
      <3>1. \A n \in Nat : \A k \in 1 .. n - 1 : k \in 1 .. n /\ k # n /\ n # 1
        OBVIOUS
      <3>. QED BY <1>0, <3>1
    <2>3. ~ LeftOver(d, w)
      BY <1>2, <2>1
    <2>2. d.b[w[i]].code = IF i = 1 /\ d.p.usage = "switch" THEN TryMe(w[2]) ELSE RetryMe(w[i + 1])
      BY <1>1, <2>1, <2>3 DEF CodeOf
    <2>. QED BY <2>2, CodesApart
  <1>4. Len(w) # 0 /\ ~ LeftOver(d, w) => d.b[w[Len(w)]].code.op = "trust"
    BY <1>0, <1>1, CodesApart DEF CodeOf
  <1>5. \A i \in 1 .. Len(w) : d.b[w[i]].code.op \in {"retry", "try", "trust"}
    <2>. SUFFICES ASSUME NEW i \in 1 .. Len(w) PROVE d.b[w[i]].code.op \in {"retry", "try", "trust"}
      OBVIOUS
    <2>1. CASE i = Len(w)
      BY <1>2, <1>4, <2>1
    <2>2. CASE i # Len(w)
      <3>1. i \in 1 .. Len(w) - 1
        BY <1>0, <2>2
      <3>. QED BY <1>3, <3>1
    <2>. QED BY <2>1, <2>2
  <1>6. \A i \in 1 .. Len(w) : d.b[w[i]].code # Free /\ d.b[w[i]].code # Deleted
                               /\ d.b[w[i]].code.op # "free" /\ ~ IsDeleted(d, w[i])
    BY <1>5, CodesApart DEF IsDeleted
  <1>7. \A b \in Blocks \ In(w) : d.b[b].code \in {Deleted, Free}
    BY DEF Links
  <1>8. \A b \in Blocks \ In(w) :
              /\ d.b[b].code = Free \/ (d.b[b].code = Deleted /\ IsDeleted(d, b))
              /\ d.b[b].code = Free <=> d.b[b].code.op = "free"
    BY <1>7, CodesApart DEF IsDeleted
  <1>. QED BY <1>3, <1>4, <1>6, <1>8

LEMMA NextClauseIs ==
  ASSUME NEW d \in Databases, NEW w, Links(d, w), Coded(d, w)
  PROVE  /\ NextClause(d, None) = None
         /\ \A i \in 1 .. Len(w) : NextClause(d, w[i]) = d.b[w[i]].next
         /\ \A b \in Blocks \ In(w) : d.b[b].code # Free => NextClause(d, b) = FirstFrom(d, d.b[b].id)
  <1>0. None \notin Blocks
    BY LinksFacts
  <1>1. \A i \in 1 .. Len(w) : w[i] # None /\ ~ IsDeleted(d, w[i])
    BY <1>0, LinksFacts, CodeFacts
  <1>2. \A b \in Blocks \ In(w) : d.b[b].code # Free => b # None /\ IsDeleted(d, b)
    BY <1>0, CodeFacts
  <1>. QED BY <1>1, <1>2 DEF NextClause

(***************************************************************************)
(* The path of a failure                                                   *)
(***************************************************************************)
Onward(w, b) == IF b = None THEN << >> ELSE SubSeq(w, Pos(w, b), Len(w))

PathStep(d, h, a) ==
  IF a = None THEN << >>
  ELSE LET code == d.b[a].code
       IN  CASE code.op \in {"retry", "try"} -> <<a>> \o h[code.to]
             [] code.op = "trust" -> <<a>>
             [] code.op = "deleted" -> h[NextClause(d, a)]
             [] OTHER -> << >>

IsPathFunction(d, h) == h = [a \in Blocks \cup {None} |-> PathStep(d, h, a)]

LEMMA OnwardIs ==
  ASSUME NEW d \in Databases, NEW w, Links(d, w)
  PROVE  /\ Onward(w, None) = << >>
         /\ \A i \in 1 .. Len(w) : Onward(w, w[i]) = SubSeq(w, i, Len(w))
         /\ \A i \in 1 .. Len(w) - 1 : Onward(w, w[i]) = <<w[i]>> \o Onward(w, w[i + 1])
         /\ Len(w) # 0 => Onward(w, w[Len(w)]) = <<w[Len(w)]>>
  <1>0. Len(w) \in Nat /\ w \in Seq(Blocks) /\ \A i \in 1 .. Len(w) : w[i] # None
    BY LinksFacts
  <1>1. \A i \in 1 .. Len(w) : Onward(w, w[i]) = SubSeq(w, i, Len(w))
    BY <1>0, PosOf DEF Onward
  <1>2. \A i \in 1 .. Len(w) : SubSeq(w, i, Len(w)) = <<w[i]>> \o SubSeq(w, i + 1, Len(w))
    BY <1>0, SuffixProperties
  <1>3. \A i \in 1 .. Len(w) - 1 : Onward(w, w[i]) = <<w[i]>> \o Onward(w, w[i + 1])
    <2>1. \A i \in 1 .. Len(w) - 1 : i \in 1 .. Len(w) /\ i + 1 \in 1 .. Len(w)
      BY <1>0
    <2>. QED BY <1>1, <1>2, <2>1
  <1>4. Len(w) # 0 => Onward(w, w[Len(w)]) = <<w[Len(w)]>>
    <2>. SUFFICES ASSUME Len(w) # 0 PROVE Onward(w, w[Len(w)]) = <<w[Len(w)]>>
      OBVIOUS
    <2>1. Len(w) \in 1 .. Len(w)
      BY <1>0
    <2>2. SubSeq(w, Len(w) + 1, Len(w)) = << >>
      BY <1>0, <2>1, SuffixProperties
    <2>3. <<w[Len(w)]>> \o << >> = <<w[Len(w)]>>
      OBVIOUS
    <2>. QED BY <1>1, <1>2, <2>1, <2>2, <2>3
  <1>. QED BY <1>1, <1>3, <1>4 DEF Onward

(* The code of a block that is not in the chain, and of one that is *)
LEMMA CodeOutside ==
  ASSUME NEW d \in Databases, NEW w, Links(d, w), Coded(d, w), NEW b \in Blocks \ In(w)
  PROVE  d.b[b].code = Free \/ d.b[b].code = Deleted
  <1>1. \A a \in Blocks \ In(w) : d.b[a].code = Free \/ (d.b[a].code = Deleted /\ IsDeleted(d, a))
    BY CodeFacts
  <1>. QED BY <1>1

LEMMA CodeInside ==
  ASSUME NEW d \in Databases, NEW w, Links(d, w), Coded(d, w), NEW i \in 1 .. Len(w)
  PROVE  d.b[w[i]].code # Free /\ d.b[w[i]].code # Deleted
  <1>1. \A j \in 1 .. Len(w) : /\ d.b[w[j]].code # Free /\ d.b[w[j]].code # Deleted
                              /\ d.b[w[j]].code.op # "free" /\ ~ IsDeleted(d, w[j])
    BY CodeFacts
  <1>. QED BY <1>1

LEMMA LeftOverGoes ==
  ASSUME NEW d \in Databases, NEW w, Links(d, w), Coded(d, w), LeftOver(d, w)
  PROVE  LET b == d.b[w[1]].code.to
         IN  /\ b \in Blocks \ In(w) /\ b # None /\ Len(w) = 1 /\ d.b[w[1]].code.op = "retry"
             /\ \/ d.b[b].code.op = "free"
                \/ d.b[b].code.op = "deleted" /\ NextClause(d, b) = None
  <1>. DEFINE b == d.b[w[1]].code.to
  <1>1. b \in Blocks \ In(w) /\ Len(w) = 1 /\ d.b[w[1]].code.op = "retry"
    BY DEF LeftOver
  <1>2. b # None
    BY <1>1, LinksFacts
  <1>3. CASE d.b[b].code = Free
    BY <1>1, <1>2, <1>3, CodesApart
  <1>4. CASE d.b[b].code # Free
    <2>1. d.b[w[1]].id < d.b[b].id
      BY <1>4 DEF LeftOver
    <2>2. NextClause(d, b) = FirstFrom(d, d.b[b].id)
      BY <1>1, <1>4, NextClauseIs
    <2>0. w[1] \in In(w) /\ w[1] \in Blocks
      BY <1>1, LinksFacts
    <2>3. d.b[b].id \in Int /\ d.b[w[1]].id \in Int /\ w[1] \in In(w)
      BY <1>1, <2>0, CodeTypes
    <2>4. ~ (d.b[b].id <= d.b[w[1]].id)
      BY SMTT(30), <2>1, <2>3
    <2>5. FirstFrom(d, d.b[b].id) = None
      BY SMTT(30), <1>1, <2>3, <2>4, FirstFromIs
    <2>6. d.b[b].code = Deleted
      BY <1>1, <1>4, CodeOutside
    <2>. QED BY <1>1, <1>2, <2>2, <2>5, <2>6, CodesApart
  <1>. QED BY <1>3, <1>4

LEMMA FirstFromIn ==
  ASSUME NEW d \in Databases, NEW w, Links(d, w), NEW id \in Int
  PROVE  FirstFrom(d, id) \in In(w) \cup {None}
  BY FirstFromIs DEF In

LEMMA PathFunctionSteps ==
  ASSUME NEW d \in Databases, NEW w, Links(d, w), Coded(d, w), NEW h, IsPathFunction(d, h)
  PROVE  /\ h[None] = << >>
         /\ \A i \in 1 .. Len(w) : h[w[i]] = Onward(w, w[i])
         /\ \A b \in Blocks \ In(w) : d.b[b].code # Free => h[b] = Onward(w, FirstFrom(d, d.b[b].id))
  <1>. DEFINE n == Len(w)
              S == {i \in 1 .. n : h[w[i]] = Onward(w, w[i])}
  <1>0. n \in Nat /\ None \notin Blocks /\ \A i \in 1 .. n : w[i] \in Blocks /\ w[i] # None /\ w[i] \in In(w)
    BY LinksFacts
  <1>1. h[None] = << >> /\ \A a \in Blocks : h[a] = PathStep(d, h, a)
    <2>1. \A a \in Blocks \cup {None} : h[a] = PathStep(d, h, a)
      BY DEF IsPathFunction
    <2>. QED BY <2>1 DEF PathStep
  <1>2. ASSUME NEW i \in 1 .. n, i = n \/ i + 1 \in S PROVE h[w[i]] = Onward(w, w[i])
    <2>1. h[w[i]] = PathStep(d, h, w[i]) /\ w[i] # None
      BY <1>0, <1>1
    <2>2. CASE i # n
      <3>1. i \in 1 .. n - 1
        BY <1>0, <2>2
      <3>2. d.b[w[i]].code.op \in {"retry", "try"} /\ d.b[w[i]].code.to = w[i + 1]
        BY <3>1, CodeFacts
      <3>3. PathStep(d, h, w[i]) = <<w[i]>> \o h[w[i + 1]]
        BY <2>1, <3>2 DEF PathStep
      <3>4. h[w[i + 1]] = Onward(w, w[i + 1])
        BY <1>2, <2>2
      <3>. QED BY <2>1, <3>1, <3>3, <3>4, OnwardIs
    <2>3. CASE i = n /\ ~ LeftOver(d, w)
      <3>1. n # 0
        BY <1>0
      <3>2. d.b[w[i]].code.op = "trust"
        BY <2>3, <3>1, CodeFacts
      <3>3. PathStep(d, h, w[i]) = <<w[i]>>
        BY <2>1, <3>2 DEF PathStep
      <3>. QED BY <2>1, <2>3, <3>1, <3>3, OnwardIs
    <2>4. CASE i = n /\ LeftOver(d, w)
      <3>. DEFINE b == d.b[w[1]].code.to
      <3>1. /\ b \in Blocks \ In(w) /\ b # None /\ Len(w) = 1 /\ d.b[w[1]].code.op = "retry"
            /\ \/ d.b[b].code.op = "free"
               \/ d.b[b].code.op = "deleted" /\ NextClause(d, b) = None
        BY <2>4, LeftOverGoes
      <3>. HIDE DEF b
      <3>2. h[b] = << >>
        <4>1. h[b] = PathStep(d, h, b)
          BY <1>1, <3>1
        <4>2. CASE d.b[b].code.op = "free"
          BY <3>1, <4>1, <4>2 DEF PathStep
        <4>3. CASE d.b[b].code.op = "deleted" /\ NextClause(d, b) = None
          BY <1>1, <3>1, <4>1, <4>3 DEF PathStep
        <4>. QED BY <3>1, <4>2, <4>3
      <3>3. i = 1 /\ w[i] = w[1]
        BY <2>4, <3>1
      <3>4. PathStep(d, h, w[i]) = <<w[i]>> \o h[b]
        BY <2>1, <3>1, <3>3 DEF PathStep, b
      <3>5. <<w[i]>> \o << >> = <<w[i]>>
        OBVIOUS
      <3>6. Onward(w, w[n]) = <<w[n]>>
        BY <3>1, OnwardIs
      <3>. QED BY <2>1, <2>4, <3>2, <3>4, <3>5, <3>6
    <2>. QED BY <2>2, <2>3, <2>4
  <1>3. 1 .. n \subseteq S
    <2>1. \A i \in 1 .. n : i = n \/ i + 1 \in S => i \in S
      BY <1>2
    <2>. HIDE DEF S, n
    <2>. QED BY <1>0, <2>1, Downward
  <1>4. \A a \in In(w) \cup {None} : h[a] = Onward(w, a)
    <2>1. \A i \in 1 .. n : h[w[i]] = Onward(w, w[i])
      BY <1>3
    <2>. QED BY <1>1, <2>1 DEF In, Onward
  <1>5. ASSUME NEW b \in Blocks \ In(w), d.b[b].code # Free
        PROVE  h[b] = Onward(w, FirstFrom(d, d.b[b].id))
    <2>1. d.b[b].code = Deleted
      BY <1>5, CodeFacts
    <2>2. h[b] = h[NextClause(d, b)]
      BY <1>0, <1>1, <2>1, CodesApart DEF PathStep
    <2>3. NextClause(d, b) = FirstFrom(d, d.b[b].id)
      BY <1>5, NextClauseIs
    <2>4. FirstFrom(d, d.b[b].id) \in In(w) \cup {None}
      BY CodeTypes, FirstFromIn
    <2>. QED BY <1>4, <2>2, <2>3, <2>4
  <1>. QED BY <1>1, <1>3, <1>5

LEMMA PathIs ==
  ASSUME NEW d \in Databases, NEW w, Links(d, w), Coded(d, w)
  PROVE  /\ PathFrom(d, None) = << >>
         /\ \A i \in 1 .. Len(w) : PathFrom(d, w[i]) = Onward(w, w[i])
         /\ \A b \in Blocks \ In(w) :
              d.b[b].code # Free => PathFrom(d, b) = Onward(w, FirstFrom(d, d.b[b].id))
  <1>. DEFINE n == Len(w)
              g == [a \in Blocks \cup {None} |->
                      IF a \in In(w) \cup {None} THEN Onward(w, a)
                      ELSE IF d.b[a].code = Free THEN << >> ELSE Onward(w, FirstFrom(d, d.b[a].id))]
              f == CHOOSE h : IsPathFunction(d, h)
  <1>0. /\ n \in Nat /\ None \notin Blocks /\ None \notin In(w) /\ In(w) \subseteq Blocks
        /\ \A i \in 1 .. n : w[i] \in Blocks /\ w[i] # None /\ w[i] \in In(w)
    BY LinksFacts
  <1>1. ASSUME NEW a \in Blocks \cup {None} PROVE g[a] = PathStep(d, g, a)
    <2>1. CASE a = None
      BY <2>1, OnwardIs DEF PathStep
    <2>2. CASE a \in In(w)
      <3>1. PICK i \in 1 .. n : a = w[i]
        BY <2>2 DEF In
      <3>2. g[a] = Onward(w, w[i]) /\ a # None
        BY <1>0, <3>1
      <3>3. CASE i # n
        <4>1. i \in 1 .. n - 1 /\ i + 1 \in 1 .. n
          BY <1>0, <3>3
        <4>2. d.b[w[i]].code.op \in {"retry", "try"} /\ d.b[w[i]].code.to = w[i + 1]
          BY <4>1, CodeFacts
        <4>3. g[w[i + 1]] = Onward(w, w[i + 1])
          BY <1>0, <4>1
        <4>4. Onward(w, w[i]) = <<w[i]>> \o Onward(w, w[i + 1])
          BY <4>1, OnwardIs
        <4>. HIDE DEF g
        <4>5. PathStep(d, g, a) = <<w[i]>> \o g[w[i + 1]]
          BY <3>1, <3>2, <4>2 DEF PathStep
        <4>. QED BY <3>2, <4>3, <4>4, <4>5
      <3>4. CASE i = n /\ ~ LeftOver(d, w)
        <4>1. n # 0
          BY <1>0
        <4>2. d.b[w[i]].code.op = "trust" /\ Onward(w, w[i]) = <<w[i]>>
          BY <3>4, <4>1, CodeFacts, OnwardIs
        <4>. HIDE DEF g
        <4>. QED BY <3>1, <3>2, <4>2 DEF PathStep
      <3>5. CASE i = n /\ LeftOver(d, w)
        <4>. DEFINE b == d.b[w[1]].code.to
        <4>1. /\ b \in Blocks \ In(w) /\ b # None /\ Len(w) = 1 /\ d.b[w[1]].code.op = "retry"
              /\ \/ d.b[b].code.op = "free"
                 \/ d.b[b].code.op = "deleted" /\ NextClause(d, b) = None
          BY <3>5, LeftOverGoes
        <4>. HIDE DEF b
        <4>2. g[b] = << >>
          <5>1. CASE d.b[b].code.op = "free"
            <6>1. d.b[b].code = Free
              BY SMTT(30), <4>1, <5>1, CodeFacts
            <6>. QED BY <4>1, <6>1
          <5>2. CASE d.b[b].code.op = "deleted" /\ NextClause(d, b) = None
            <6>1. d.b[b].code # Free
              BY <5>2, CodesApart
            <6>2. FirstFrom(d, d.b[b].id) = None
              BY <4>1, <5>2, <6>1, NextClauseIs
            <6>. QED BY <4>1, <6>1, <6>2 DEF Onward
          <5>. QED BY <4>1, <5>1, <5>2
        <4>3. w[i] = w[1] /\ d.b[w[i]].code.to = b
          BY <3>5, <4>1 DEF b
        <4>4. Onward(w, w[i]) = <<w[i]>>
          <5>1. Len(w) # 0 /\ i = Len(w)
            BY <3>5, <4>1
          <5>. QED BY <5>1, OnwardIs
        <4>5. <<w[i]>> \o << >> = <<w[i]>>
          OBVIOUS
        <4>. HIDE DEF g
        <4>6. PathStep(d, g, a) = <<w[i]>> \o g[b]
          BY <3>1, <3>2, <4>1, <4>3 DEF PathStep
        <4>. QED BY <3>2, <4>2, <4>4, <4>5, <4>6
      <3>. QED BY <3>3, <3>4, <3>5
    <2>3. CASE a \in Blocks \ In(w) /\ d.b[a].code = Free
      <3>1. g[a] = << >> /\ a # None
        BY <1>0, <2>3
      <3>. HIDE DEF g
      <3>. QED BY <2>3, <3>1, CodesApart DEF PathStep
    <2>4. CASE a \in Blocks \ In(w) /\ d.b[a].code # Free
      <3>1. g[a] = Onward(w, FirstFrom(d, d.b[a].id)) /\ a # None
        BY <1>0, <2>4
      <3>2. NextClause(d, a) = FirstFrom(d, d.b[a].id) /\ d.b[a].code = Deleted
        BY <2>4, NextClauseIs, CodeFacts
      <3>3. FirstFrom(d, d.b[a].id) \in In(w) \cup {None}
        BY <2>4, CodeTypes, FirstFromIn
      <3>4. \A x \in In(w) \cup {None} : g[x] = Onward(w, x)
        BY <1>0
      <3>. HIDE DEF g
      <3>5. PathStep(d, g, a) = g[NextClause(d, a)]
        BY <3>1, <3>2, CodesApart DEF PathStep
      <3>. QED BY <3>1, <3>2, <3>3, <3>4, <3>5
    <2>. QED BY <2>1, <2>2, <2>3, <2>4
  <1>2. IsPathFunction(d, g)
    <2>1. g = [a \in Blocks \cup {None} |-> g[a]]
      OBVIOUS
    <2>. HIDE DEF g
    <2>2. [a \in Blocks \cup {None} |-> g[a]] = [a \in Blocks \cup {None} |-> PathStep(d, g, a)]
      BY <1>1
    <2>. QED BY <2>1, <2>2 DEF IsPathFunction
  <1>3. IsPathFunction(d, f)
    <2>. HIDE DEF g
    <2>. QED BY <1>2
  <1>4. \A b : PathFrom(d, b) = f[b]
    BY DEF PathFrom, IsPathFunction, PathStep
  <1>. HIDE DEF f, g
  <1>5. /\ f[None] = << >>
        /\ \A i \in 1 .. Len(w) : f[w[i]] = Onward(w, w[i])
        /\ \A b \in Blocks \ In(w) : d.b[b].code # Free => f[b] = Onward(w, FirstFrom(d, d.b[b].id))
    BY <1>3, PathFunctionSteps
  <1>. QED BY <1>4, <1>5

(* The clauses from one of the chain to its end, in order *)
LEMMA OnwardGoes ==
  ASSUME NEW d \in Databases, NEW w, Links(d, w), NEW i \in 1 .. Len(w)
  PROVE  LET s == Onward(w, w[i])
         IN  /\ ToSet(s) = {w[j] : j \in i .. Len(w)}
             /\ \A k \in 1 .. Len(s) - 1 : d.b[s[k]].id < d.b[s[k + 1]].id
  <1>. DEFINE n == Len(w)
              s == Onward(w, w[i])
  <1>0. n \in Nat /\ w \in Seq(Blocks) /\ i \in 1 .. n
    BY LinksFacts
  <1>1. s = SubSeq(w, i, n)
    BY OnwardIs
  <1>2. s \in Seq(Blocks) /\ Len(s) = n - i + 1 /\ \A j \in 1 .. n - i + 1 : s[j] = w[i + j - 1]
    BY <1>0, <1>1, SuffixProperties
  <1>. HIDE DEF s
  <1>3. DOMAIN s = 1 .. n - i + 1
    BY <1>2
  <1>4. ToSet(s) = {w[j] : j \in i .. n}
    <2>1. ASSUME NEW j \in 1 .. n - i + 1 PROVE s[j] \in {w[k] : k \in i .. n}
      <3>1. i + j - 1 \in i .. n
        BY <1>0
      <3>. QED BY <1>2, <3>1
    <2>2. ASSUME NEW k \in i .. n PROVE w[k] \in ToSet(s)
      <3>1. k - i + 1 \in 1 .. n - i + 1 /\ i + (k - i + 1) - 1 = k
        BY <1>0
      <3>2. s[k - i + 1] = w[k]
        BY <1>2, <3>1
      <3>. QED BY <1>3, <3>1, <3>2 DEF ToSet
    <2>. QED BY <1>3, <2>1, <2>2 DEF ToSet
  <1>5. ASSUME NEW k \in 1 .. Len(s) - 1 PROVE d.b[s[k]].id < d.b[s[k + 1]].id
    <2>1. /\ k \in 1 .. n - i + 1 /\ k + 1 \in 1 .. n - i + 1
          /\ i + (k + 1) - 1 = i + k /\ i + k - 1 \in 1 .. n /\ i + k \in 1 .. n /\ i + k - 1 < i + k
      BY <1>0, <1>2
    <2>2. s[k] = w[i + k - 1] /\ s[k + 1] = w[i + k]
      BY <1>2, <2>1
    <2>3. d.b[w[i + k - 1]].id < d.b[w[i + k]].id
      BY <2>1 DEF Links
    <2>. QED BY <2>2, <2>3
  <1>. QED BY <1>4, <1>5 DEF s

LEMMA PathGoes ==
  ASSUME NEW d \in Databases, NEW w, Links(d, w), Coded(d, w),
         NEW b \in Blocks, d.b[b].code # Free
  PROVE  /\ ToSet(PathFrom(d, b)) = From(d, w, b)
         /\ \A i \in 1 .. Len(PathFrom(d, b)) - 1 :
              d.b[PathFrom(d, b)[i]].id < d.b[PathFrom(d, b)[i + 1]].id
  <1>0. /\ Len(w) \in Nat /\ d.b[b].id \in Int
        /\ \A i \in 1 .. Len(w) : w[i] \in In(w) /\ d.b[w[i]].id \in Int
    BY LinksFacts, CodeTypes, IdsApart
  <1>1. ASSUME NEW i \in 1 .. Len(w), PathFrom(d, b) = Onward(w, w[i]),
               d.b[b].id <= d.b[w[i]].id, \A j \in 1 .. Len(w) : j < i => d.b[w[j]].id < d.b[b].id
        PROVE  /\ ToSet(PathFrom(d, b)) = From(d, w, b)
               /\ \A k \in 1 .. Len(PathFrom(d, b)) - 1 :
                    d.b[PathFrom(d, b)[k]].id < d.b[PathFrom(d, b)[k + 1]].id
    <2>1. /\ ToSet(PathFrom(d, b)) = {w[j] : j \in i .. Len(w)}
          /\ \A k \in 1 .. Len(PathFrom(d, b)) - 1 :
               d.b[PathFrom(d, b)[k]].id < d.b[PathFrom(d, b)[k + 1]].id
      BY <1>1, OnwardGoes
    <2>2. ASSUME NEW j \in i .. Len(w) PROVE w[j] \in From(d, w, b)
      <3>1. j \in 1 .. Len(w) /\ i <= j
        BY <1>0
      <3>2. d.b[w[i]].id <= d.b[w[j]].id
        BY <3>1, IdsApart
      <3>3. d.b[b].id <= d.b[w[j]].id
        BY <1>0, <1>1, <3>1, <3>2
      <3>. QED BY <1>0, <3>1, <3>3 DEF From
    <2>3. ASSUME NEW x \in From(d, w, b) PROVE x \in {w[j] : j \in i .. Len(w)}
      <3>1. PICK j \in 1 .. Len(w) : x = w[j]
        BY DEF From, In
      <3>2. ~ (d.b[w[j]].id < d.b[b].id)
        BY <1>0, <3>1 DEF From
      <3>3. j \in i .. Len(w)
        BY <1>0, <1>1, <3>2
      <3>. QED BY <3>1, <3>3
    <2>. QED BY <2>1, <2>2, <2>3
  <1>2. CASE b \in In(w)
    <2>1. PICK i \in 1 .. Len(w) : b = w[i]
      BY <1>2 DEF In
    <2>2. \A j \in 1 .. Len(w) : j < i => d.b[w[j]].id < d.b[b].id
      BY <2>1 DEF Links
    <2>3. PathFrom(d, b) = Onward(w, w[i])
      BY <2>1, PathIs
    <2>4. d.b[b].id <= d.b[w[i]].id
      BY <1>0, <2>1
    <2>. QED BY <1>1, <2>2, <2>3, <2>4
  <1>3. CASE b \notin In(w)
    <2>1. PathFrom(d, b) = Onward(w, FirstFrom(d, d.b[b].id))
      BY <1>3, PathIs
    <2>2. CASE FirstFrom(d, d.b[b].id) = None /\ \A x \in In(w) : d.b[x].id < d.b[b].id
      <3>1. PathFrom(d, b) = << >>
        BY <2>1, <2>2 DEF Onward
      <3>2. From(d, w, b) = {}
        <4>. SUFFICES ASSUME NEW x \in In(w), d.b[b].id <= d.b[x].id PROVE FALSE
          BY DEF From
        <4>1. d.b[x].id \in Int /\ d.b[x].id < d.b[b].id
          BY <1>0, <2>2 DEF In
        <4>. QED BY <1>0, <4>1
      <3>3. ToSet(<< >>) = {} /\ Len(<< >>) = 0
        BY DEF ToSet
      <3>4. 1 .. Len(PathFrom(d, b)) - 1 = {}
        BY <3>1, <3>3
      <3>. QED BY <3>1, <3>2, <3>3, <3>4
    <2>3. CASE FirstFrom(d, d.b[b].id) # None \/ \E x \in In(w) : ~ (d.b[x].id < d.b[b].id)
      <3>1. \E i \in 1 .. Len(w) :
              /\ FirstFrom(d, d.b[b].id) = w[i] /\ d.b[b].id <= d.b[w[i]].id
              /\ \A j \in 1 .. Len(w) : j < i => d.b[w[j]].id < d.b[b].id
        BY <1>0, <2>3, FirstFromIs
      <3>. QED BY <1>1, <2>1, <3>1
    <2>. QED BY <2>2, <2>3
  <1>. QED BY <1>2, <1>3

(***************************************************************************)
(* The writes                                                              *)
(***************************************************************************)
Entries ==
  [op: {"empty", "jump", "try_me_jump", "switch"},
   first: Blocks \cup {None}, second: Blocks \cup {None}, own: BOOLEAN]
Codes == [op: {"retry", "trust", "try", "deleted", "free"}, to: Blocks \cup {None}]

LEMMA EntriesTyped ==
  /\ Empty \in Entries /\ SwitchOnTerm \in Entries
  /\ \A b \in Blocks : Jump(b) \in Entries
  /\ \A b, c \in Blocks, o \in BOOLEAN :
       /\ TryMeJump(b, c, o) \in Entries /\ TryMeJump(b, c, o).op = "try_me_jump"
       /\ TryMeJump(b, c, o).first = b /\ TryMeJump(b, c, o).second = c
  BY DEF Entries, Empty, SwitchOnTerm, Jump, TryMeJump

LEMMA CodesTyped ==
  /\ TrustMe \in Codes /\ Deleted \in Codes /\ Free \in Codes
  /\ \A b \in Blocks : RetryMe(b) \in Codes /\ TryMe(b) \in Codes
  BY DEF Codes, TrustMe, Deleted, Free, RetryMe, TryMe

LEMMA ProcedureIs ==
  ASSUME NEW d \in Databases, NEW p \in Procedures
  PROVE  LET r == [d EXCEPT !.p = p]
         IN  r \in Databases /\ r.p = p /\ r.b = d.b /\ r.c = d.c
  BY DEF Databases

LEMMA FieldsIs ==
  ASSUME NEW d \in Databases, NEW x
  PROVE  /\ [d EXCEPT !.p.first = x] = [d EXCEPT !.p = [d.p EXCEPT !.first = x]]
         /\ [d EXCEPT !.p.last = x] = [d EXCEPT !.p = [d.p EXCEPT !.last = x]]
         /\ [d EXCEPT !.p.usage = x] = [d EXCEPT !.p = [d.p EXCEPT !.usage = x]]
         /\ [d EXCEPT !.p.index = x] = [d EXCEPT !.p = [d.p EXCEPT !.index = x]]
         /\ [d EXCEPT !.p.counting = x] = [d EXCEPT !.p = [d.p EXCEPT !.counting = x]]
         /\ [d EXCEPT !.p.lo = x] = [d EXCEPT !.p = [d.p EXCEPT !.lo = x]]
         /\ [d EXCEPT !.p.hi = x] = [d EXCEPT !.p = [d.p EXCEPT !.hi = x]]
  BY DEF Databases

LEMMA FirstIs ==
  ASSUME NEW d \in Databases, NEW x \in Blocks \cup {None}
  PROVE  LET r == [d EXCEPT !.p.first = x]
         IN  r \in Databases /\ r.p = [d.p EXCEPT !.first = x] /\ r.b = d.b /\ r.c = d.c
  <1>1. [d.p EXCEPT !.first = x] \in Procedures
    BY DEF Databases, Procedures
  <1>. QED BY <1>1, FieldsIs, ProcedureIs

LEMMA LastIs ==
  ASSUME NEW d \in Databases, NEW x \in Blocks \cup {None}
  PROVE  LET r == [d EXCEPT !.p.last = x]
         IN  r \in Databases /\ r.p = [d.p EXCEPT !.last = x] /\ r.b = d.b /\ r.c = d.c
  <1>1. [d.p EXCEPT !.last = x] \in Procedures
    BY DEF Databases, Procedures
  <1>. QED BY <1>1, FieldsIs, ProcedureIs

LEMMA UsageIs ==
  ASSUME NEW d \in Databases, NEW x \in {"undefined", "single", "multiple", "switch"}
  PROVE  LET r == [d EXCEPT !.p.usage = x]
         IN  r \in Databases /\ r.p = [d.p EXCEPT !.usage = x] /\ r.b = d.b /\ r.c = d.c
  <1>1. [d.p EXCEPT !.usage = x] \in Procedures
    BY DEF Databases, Procedures
  <1>. QED BY <1>1, FieldsIs, ProcedureIs

LEMMA IndexSetIs ==
  ASSUME NEW d \in Databases, NEW x \in Seq(Blocks)
  PROVE  LET r == [d EXCEPT !.p.index = x]
         IN  r \in Databases /\ r.p = [d.p EXCEPT !.index = x] /\ r.b = d.b /\ r.c = d.c
  <1>1. [d.p EXCEPT !.index = x] \in Procedures
    BY DEF Databases, Procedures
  <1>. QED BY <1>1, FieldsIs, ProcedureIs

LEMMA CountingIs ==
  ASSUME NEW d \in Databases, NEW x \in BOOLEAN
  PROVE  LET r == [d EXCEPT !.p.counting = x]
         IN  r \in Databases /\ r.p = [d.p EXCEPT !.counting = x] /\ r.b = d.b /\ r.c = d.c
  <1>1. [d.p EXCEPT !.counting = x] \in Procedures
    BY DEF Databases, Procedures
  <1>. QED BY <1>1, FieldsIs, ProcedureIs

LEMMA LoIs ==
  ASSUME NEW d \in Databases, NEW x \in Int
  PROVE  LET r == [d EXCEPT !.p.lo = x]
         IN  r \in Databases /\ r.p = [d.p EXCEPT !.lo = x] /\ r.b = d.b /\ r.c = d.c
  <1>1. [d.p EXCEPT !.lo = x] \in Procedures
    BY DEF Databases, Procedures
  <1>. QED BY <1>1, FieldsIs, ProcedureIs

LEMMA HiIs ==
  ASSUME NEW d \in Databases, NEW x \in Int
  PROVE  LET r == [d EXCEPT !.p.hi = x]
         IN  r \in Databases /\ r.p = [d.p EXCEPT !.hi = x] /\ r.b = d.b /\ r.c = d.c
  <1>1. [d.p EXCEPT !.hi = x] \in Procedures
    BY DEF Databases, Procedures
  <1>. QED BY <1>1, FieldsIs, ProcedureIs

LEMMA InstallEntryIs ==
  ASSUME NEW d \in Databases, NEW e \in Entries
  PROVE  LET r == InstallEntry(d, e)
         IN  /\ r \in Databases /\ r.b = d.b /\ r.c = d.c
             /\ r.p = [d.p EXCEPT !.entry = e, !.counting = FALSE]
  <1>1. [d.p EXCEPT !.entry = e, !.counting = FALSE] \in Procedures
    BY DEF Databases, Procedures, Entries
  <1>2. InstallEntry(d, e) = [d EXCEPT !.p = [d.p EXCEPT !.entry = e, !.counting = FALSE]]
    BY DEF InstallEntry, Databases
  <1>. QED BY <1>1, <1>2, ProcedureIs

(* Only block a is another. *)
Rewritten(d, r, a, x) ==
  /\ r \in Databases /\ r.p = d.p /\ r.c = d.c
  /\ r.b[a] = x /\ \A b \in Blocks \ {a} : r.b[b] = d.b[b]

LEMMA BlockIs ==
  ASSUME NEW d \in Databases, NEW a \in Blocks, NEW x \in ClauseBlocks
  PROVE  Rewritten(d, [d EXCEPT !.b[a] = x], a, x)
  <1>1. [d EXCEPT !.b[a] = x] = [d EXCEPT !.b = [d.b EXCEPT ![a] = x]]
    BY DEF Databases
  <1>2. [d.b EXCEPT ![a] = x] \in [Blocks -> ClauseBlocks]
    BY DEF Databases
  <1>3. [d.b EXCEPT ![a] = x][a] = x /\ \A b \in Blocks \ {a} : [d.b EXCEPT ![a] = x][b] = d.b[b]
    BY DEF Databases
  <1>. HIDE DEF Blocks, ClauseBlocks
  <1>4. \A f \in [Blocks -> ClauseBlocks] :
          LET r == [d EXCEPT !.b = f]
          IN  r \in Databases /\ r.p = d.p /\ r.c = d.c /\ r.b = f
    BY DEF Databases
  <1>. QED BY <1>1, <1>2, <1>3, <1>4 DEF Rewritten

LEMMA InstallChoiceIs ==
  ASSUME NEW d \in Databases, NEW a \in Blocks, NEW code \in Codes
  PROVE  Rewritten(d, InstallChoice(d, a, code), a, [d.b[a] EXCEPT !.code = code])
  <1>1. [d.b[a] EXCEPT !.code = code] \in ClauseBlocks
    <2>. DEFINE x == d.b[a]
    <2>1. x \in ClauseBlocks
      BY CodeTypes
    <2>. HIDE DEF x
    <2>2. [x EXCEPT !.code = code] \in ClauseBlocks
      BY <2>1 DEF ClauseBlocks, Codes
    <2>. QED BY <2>2 DEF x
  <1>2. InstallChoice(d, a, code) = [d EXCEPT !.b[a] = [d.b[a] EXCEPT !.code = code]]
    BY DEF InstallChoice, Databases
  <1>. QED BY <1>1, <1>2, BlockIs

LEMMA NextIs ==
  ASSUME NEW d \in Databases, NEW a \in Blocks, NEW q \in Blocks \cup {None}
  PROVE  Rewritten(d, [d EXCEPT !.b[a].next = q], a, [d.b[a] EXCEPT !.next = q])
  <1>1. [d.b[a] EXCEPT !.next = q] \in ClauseBlocks
    BY CodeTypes DEF ClauseBlocks
  <1>2. [d EXCEPT !.b[a].next = q] = [d EXCEPT !.b[a] = [d.b[a] EXCEPT !.next = q]]
    BY DEF Databases
  <1>. QED BY <1>1, <1>2, BlockIs

(* The block a of the clause with that choice code, link and id *)
IsBlock(d, a, code, next, id) == d.b[a].code = code /\ d.b[a].next = next /\ d.b[a].id = id

LEMMA FilledIs ==
  ASSUME NEW d \in Databases, NEW n \in Blocks, NEW id \in Int, NEW key \in Keys,
         NEW next \in Blocks \cup {None}, NEW code \in Codes
  PROVE  LET r == Filled(d, n, id, key, next, code)
         IN  Rewritten(d, r, n, [code |-> code, next |-> next, id |-> id, key |-> key])
  <1>1. [code |-> code, next |-> next, id |-> id, key |-> key] \in ClauseBlocks
    BY DEF ClauseBlocks, Codes
  <1>. QED BY <1>1, BlockIs DEF Filled

(* Block n comes after prev. *)
LinkedTo(d, r, n, id, next, code, prev) ==
  /\ r \in Databases /\ r.p = d.p /\ r.c = d.c
  /\ IsBlock(r, n, code, next, id) /\ IsBlock(r, prev, RetryMe(n), n, d.b[prev].id)
  /\ \A b \in Blocks \ {n, prev} : r.b[b] = d.b[b]

LEMMA LinkedIs ==
  ASSUME NEW d \in Databases, NEW n \in Blocks, NEW id \in Int, NEW key \in Keys,
         NEW next \in Blocks \cup {None}, NEW code \in Codes, NEW prev \in Blocks \ {n}
  PROVE  LinkedTo(d, Linked(d, n, id, key, next, code, prev), n, id, next, code, prev)
  <1>. DEFINE x == [code |-> code, next |-> next, id |-> id, key |-> key]
              d1 == Filled(d, n, id, key, next, code)
              y == [d1.b[prev] EXCEPT !.code = RetryMe(n)]
              d2 == InstallChoice(d1, prev, RetryMe(n))
              z == [d2.b[prev] EXCEPT !.next = n]
              r == [d2 EXCEPT !.b[prev].next = n]
  <1>1. Rewritten(d, d1, n, x)
    BY FilledIs
  <1>2. d1 \in Databases
    BY <1>1 DEF Rewritten
  <1>3. Rewritten(d1, d2, prev, y)
    <2>. HIDE DEF d1
    <2>. QED BY <1>2, CodesTyped, InstallChoiceIs
  <1>. HIDE DEF d1
  <1>4. d2 \in Databases
    BY <1>3 DEF Rewritten
  <1>5. Rewritten(d2, r, prev, z)
    <2>. HIDE DEF d2
    <2>. QED BY <1>4, NextIs
  <1>6. r = Linked(d, n, id, key, next, code, prev)
    BY DEF Linked, d1
  <1>. HIDE DEF d2, r
  <1>7. d1.b[prev] = d.b[prev] /\ d.b[prev] \in ClauseBlocks
    BY <1>1, CodeTypes DEF Rewritten
  <1>8. d2.b[prev] = y /\ y.code = RetryMe(n) /\ y.id = d.b[prev].id /\ y \in ClauseBlocks
    <2>1. y.code = RetryMe(n) /\ y.id = d.b[prev].id /\ y \in ClauseBlocks
      BY <1>7, CodesTyped DEF ClauseBlocks, Codes
    <2>. QED BY <1>3, <2>1 DEF Rewritten
  <1>9. r.b[prev] = z /\ z.code = RetryMe(n) /\ z.next = n /\ z.id = d.b[prev].id
    <2>1. z.code = RetryMe(n) /\ z.next = n /\ z.id = d.b[prev].id
      BY <1>8 DEF ClauseBlocks
    <2>. QED BY <1>5, <2>1 DEF Rewritten
  <1>10. r.b[n] = x
    BY <1>1, <1>3, <1>5 DEF Rewritten
  <1>. QED BY <1>1, <1>3, <1>5, <1>6, <1>9, <1>10 DEF Rewritten, IsBlock, LinkedTo

(***************************************************************************)
(* A clause more                                                           *)
(***************************************************************************)
Inserted(w, k, n) ==
  [i \in 1 .. Len(w) + 1 |-> IF i <= k THEN w[i] ELSE IF i = k + 1 THEN n ELSE w[i - 1]]

LEMMA InsertedIs ==
  ASSUME NEW w, w \in Seq(Blocks), NEW k, k \in 0 .. Len(w), NEW n \in Blocks
  PROVE  LET w2 == Inserted(w, k, n)
         IN  /\ w2 \in Seq(Blocks) /\ Len(w2) = Len(w) + 1 /\ w2 # << >>
             /\ \A i \in 1 .. k : w2[i] = w[i]
             /\ w2[k + 1] = n
             /\ \A i \in 1 .. Len(w) : k < i => w2[i + 1] = w[i]
             /\ In(w2) = In(w) \cup {n}
  <1>. DEFINE m == Len(w)
              w2 == Inserted(w, k, n)
  <1>0. m \in Nat /\ \A i \in 1 .. m : w[i] \in Blocks
    BY LenProperties, ElementOfSeq
  <1>1. w2 \in [1 .. m + 1 -> Blocks]
    <2>1. \A i \in 1 .. m + 1 : /\ i <= k => i \in 1 .. m
                                /\ ~ (i <= k) /\ i # k + 1 => i - 1 \in 1 .. m
      BY <1>0
    <2>. QED BY <1>0, <2>1 DEF Inserted
  <1>2. m + 1 \in Nat
    BY <1>0
  <1>3. w2 \in Seq(Blocks) /\ Len(w2) = m + 1 /\ w2 # << >>
    <2>1. w2 \in Seq(Blocks) /\ DOMAIN w2 = 1 .. m + 1
      BY <1>1, <1>2, SeqDef
    <2>2. Len(w2) = m + 1
      BY <1>2, <2>1, LenProperties
    <2>3. w2 # << >>
      BY <1>0, <2>2, EmptySeq
    <2>. QED BY <2>1, <2>2, <2>3
  <1>4. \A i \in 1 .. k : w2[i] = w[i]
    <2>1. \A i \in 1 .. k : i \in 1 .. m + 1 /\ i <= k
      BY <1>0
    <2>. QED BY <2>1 DEF Inserted
  <1>5. w2[k + 1] = n
    <2>1. k + 1 \in 1 .. m + 1 /\ ~ (k + 1 <= k)
      BY <1>0
    <2>. QED BY <2>1 DEF Inserted
  <1>6. \A i \in k + 1 .. m : w2[i + 1] = w[i]
    <2>1. \A i \in k + 1 .. m : i + 1 \in 1 .. m + 1 /\ ~ (i + 1 <= k) /\ i + 1 # k + 1 /\ (i + 1) - 1 = i
      BY <1>0
    <2>. QED BY <2>1 DEF Inserted
  <1>7. In(w2) = In(w) \cup {n}
    <2>1. \A i \in 1 .. m : w[i] \in In(w2)
      <3>. SUFFICES ASSUME NEW i \in 1 .. m PROVE w[i] \in In(w2)
        OBVIOUS
      <3>1. CASE i \in 1 .. k
        <4>1. i \in 1 .. Len(w2)
          BY <1>0, <1>3
        <4>. QED BY <1>4, <3>1, <4>1 DEF In
      <3>2. CASE i \notin 1 .. k
        <4>1. i \in k + 1 .. m /\ i + 1 \in 1 .. Len(w2)
          BY <1>0, <1>3, <3>2
        <4>. QED BY <1>6, <4>1 DEF In
      <3>. QED BY <3>1, <3>2
    <2>2. n \in In(w2)
      <3>1. k + 1 \in 1 .. Len(w2)
        BY <1>0, <1>3
      <3>. QED BY <1>5, <3>1 DEF In
    <2>3. \A j \in 1 .. Len(w2) : w2[j] \in In(w) \cup {n}
      <3>. SUFFICES ASSUME NEW j \in 1 .. Len(w2) PROVE w2[j] \in In(w) \cup {n}
        OBVIOUS
      <3>1. CASE j <= k
        <4>1. j \in 1 .. k /\ j \in 1 .. m
          BY <1>0, <1>3, <3>1
        <4>. QED BY <1>4, <4>1 DEF In
      <3>2. CASE j = k + 1
        BY <1>5, <3>2
      <3>3. CASE k + 1 < j
        <4>1. j - 1 \in k + 1 .. m /\ j - 1 \in 1 .. m /\ (j - 1) + 1 = j
          BY <1>0, <1>3, <3>3
        <4>2. w2[j] = w[j - 1]
          BY <1>6, <4>1
        <4>. QED BY <4>1, <4>2 DEF In
      <3>. QED BY <1>0, <1>3, <3>1, <3>2, <3>3
    <2>. QED BY <2>1, <2>2, <2>3 DEF In
  <1>8. \A i \in 1 .. m : k < i => w2[i + 1] = w[i]
    <2>1. \A i \in 1 .. m : k < i => i \in k + 1 .. m
      BY <1>0
    <2>. QED BY <1>6, <2>1
  <1>. QED BY <1>3, <1>4, <1>5, <1>7, <1>8

(* r is d with the clause n after the k-th. *)
Grows(d, r, w, k, n) ==
  /\ r \in Databases
  /\ \A i \in 1 .. k : d.b[w[i]].id < r.b[n].id
  /\ \A i \in k + 1 .. Len(w) : r.b[n].id < d.b[w[i]].id
  /\ \A b \in Blocks \ {n} : r.b[b].id = d.b[b].id
  /\ r.b[n].next = IF k = Len(w) THEN None ELSE w[k + 1]
  /\ r.b[n].code = IF k = Len(w) THEN TrustMe ELSE RetryMe(w[k + 1])
  /\ k # 0 => r.b[w[k]].next = n /\ r.b[w[k]].code = RetryMe(n)
  /\ \A b \in Blocks \ {n} : k = 0 \/ b # w[k] =>
       /\ r.b[b].next = d.b[b].next
       /\ r.b[b].code = IF k = 0 /\ Len(w) = 1 /\ b = w[1] THEN TrustMe ELSE d.b[b].code
  /\ r.p.first = IF k = 0 THEN n ELSE d.p.first
  /\ r.p.last = IF k = Len(w) THEN n ELSE d.p.last
  /\ r.p.index = << >>
  /\ w = << >> => r.p.usage = "single" /\ r.p.entry = Jump(n)
  /\ w # << >> => /\ r.p.usage = "multiple" /\ r.p.entry.op = "try_me_jump"
                  /\ r.p.entry.first = (IF k = 0 THEN n ELSE w[1]) /\ r.p.entry.second \in Blocks

LEMMA ChainInsert ==
  ASSUME NEW d \in Databases, NEW w, Links(d, w), Coded(d, w), d.p.usage # "switch",
         NEW k, k \in 0 .. Len(w), NEW n \in Blocks \ In(w), NEW r, Grows(d, r, w, k, n)
  PROVE  Links(r, Inserted(w, k, n)) /\ Coded(r, Inserted(w, k, n))
  <1>. DEFINE m == Len(w)
              w2 == Inserted(w, k, n)
              B == r.b
              D == d.b
  <1>0. /\ m \in Nat /\ None \notin Blocks /\ w \in Seq(Blocks)
        /\ \A i \in 1 .. m : w[i] \in Blocks /\ w[i] \in In(w) /\ w[i] # n
    BY LinksFacts
  <1>1. /\ w2 \in Seq(Blocks) /\ Len(w2) = m + 1 /\ w2 # << >>
        /\ \A i \in 1 .. k : w2[i] = w[i]
        /\ w2[k + 1] = n
        /\ \A i \in k + 1 .. m : w2[i + 1] = w[i]
        /\ In(w2) = In(w) \cup {n}
    <2>1. n \in Blocks
      OBVIOUS
    <2>2. w \in Seq(Blocks) /\ k \in 0 .. Len(w)
      BY <1>0
    <2>. HIDE DEF m, w2
    <2>3. w2 \in Seq(Blocks) /\ Len(w2) = m + 1 /\ w2 # << >> /\ w2[k + 1] = n
      BY <2>1, <2>2, InsertedIs DEF m, w2
    <2>4. \A i \in 1 .. k : w2[i] = w[i]
      BY <2>1, <2>2, InsertedIs DEF m, w2
    <2>5. \A i \in k + 1 .. m : w2[i + 1] = w[i]
      <3>1. \A i \in 1 .. m : k < i => w2[i + 1] = w[i]
        BY SMTT(60), <2>1, <2>2, InsertedIs DEF m, w2
      <3>2. \A i \in k + 1 .. m : i \in 1 .. m /\ k < i
        BY <1>0, <2>2 DEF m
      <3>. QED BY <3>1, <3>2
    <2>6. In(w2) = In(w) \cup {n}
      BY <2>1, <2>2, InsertedIs DEF m, w2
    <2>. QED BY <2>3, <2>4, <2>5, <2>6
  <1>. HIDE DEF w2
  <1>2. \A j \in 1 .. m + 1 : \/ j \in 1 .. k /\ j \in 1 .. m /\ w2[j] = w[j]
                              \/ j = k + 1 /\ w2[j] = n
                              \/ j - 1 \in k + 1 .. m /\ j - 1 \in 1 .. m /\ w2[j] = w[j - 1]
    <2>. SUFFICES ASSUME NEW j \in 1 .. m + 1
                  PROVE  \/ j \in 1 .. k /\ j \in 1 .. m /\ w2[j] = w[j]
                         \/ j = k + 1 /\ w2[j] = n
                         \/ j - 1 \in k + 1 .. m /\ j - 1 \in 1 .. m /\ w2[j] = w[j - 1]
      OBVIOUS
    <2>1. \/ j \in 1 .. k /\ j \in 1 .. m
          \/ j = k + 1
          \/ j - 1 \in k + 1 .. m /\ j - 1 \in 1 .. m /\ (j - 1) + 1 = j
      BY <1>0
    <2>. QED BY <1>1, <2>1
  <1>3. \A i, j \in 1 .. m : i # j => w[i] # w[j]
    BY IdsApart
  <1>4. \A i \in 1 .. m : B[w[i]].id = D[w[i]].id /\ D[w[i]].id \in Int
    BY <1>0, IdsApart DEF Grows
  <1>5. B[n].id \in Int
    BY CodeTypes DEF Grows
  <1>6. ASSUME NEW i \in 1 .. m + 1, NEW j \in 1 .. m + 1, i < j
        PROVE  B[w2[i]].id < B[w2[j]].id
    <2>1. CASE j \in 1 .. k /\ j \in 1 .. m /\ w2[j] = w[j]
      <3>1. i \in 1 .. k /\ i \in 1 .. m
        BY <1>0, <1>6, <2>1
      <3>2. w2[i] = w[i] /\ D[w[i]].id < D[w[j]].id
        BY <1>1, <1>6, <2>1, <3>1 DEF Links
      <3>. QED BY <1>4, <2>1, <3>1, <3>2
    <2>2. CASE j = k + 1 /\ w2[j] = n
      <3>1. i \in 1 .. k /\ i \in 1 .. m
        BY <1>0, <1>6, <2>2
      <3>2. w2[i] = w[i] /\ D[w[i]].id < B[n].id
        BY <1>1, <3>1 DEF Grows
      <3>. QED BY <1>4, <2>2, <3>1, <3>2
    <2>3. CASE j - 1 \in k + 1 .. m /\ j - 1 \in 1 .. m /\ w2[j] = w[j - 1]
      <3>1. CASE i \in 1 .. k /\ i \in 1 .. m /\ w2[i] = w[i]
        <4>1. i < j - 1
          BY <1>0, <2>3, <3>1
        <4>2. D[w[i]].id < D[w[j - 1]].id
          BY <2>3, <3>1, <4>1 DEF Links
        <4>. QED BY <1>4, <2>3, <3>1, <4>2
      <3>2. CASE i = k + 1 /\ w2[i] = n
        <4>1. B[n].id < D[w[j - 1]].id
          BY <2>3 DEF Grows
        <4>. QED BY <1>4, <2>3, <3>2, <4>1
      <3>3. CASE i - 1 \in k + 1 .. m /\ i - 1 \in 1 .. m /\ w2[i] = w[i - 1]
        <4>1. i - 1 < j - 1
          BY <1>6
        <4>2. D[w[i - 1]].id < D[w[j - 1]].id
          BY <2>3, <3>3, <4>1 DEF Links
        <4>. QED BY <1>4, <2>3, <3>3, <4>2
      <3>. QED BY <1>2, <3>1, <3>2, <3>3
    <2>. QED BY <1>2, <2>1, <2>2, <2>3
  <1>7. ASSUME NEW i \in 1 .. m + 1
        PROVE  /\ B[w2[i]].next = IF i = m + 1 THEN None ELSE w2[i + 1]
               /\ B[w2[i]].code = IF i = m + 1 THEN TrustMe ELSE RetryMe(w2[i + 1])
    <2>1. CASE i \in 1 .. k /\ i \in 1 .. m /\ w2[i] = w[i]
      <3>1. i # m + 1 /\ k # 0
        BY <1>0, <2>1
      <3>2. CASE i = k
        <4>1. B[w[k]].next = n /\ B[w[k]].code = RetryMe(n)
          BY <3>1 DEF Grows
        <4>. QED BY <1>1, <2>1, <3>1, <3>2, <4>1
      <3>3. CASE i # k
        <4>1. i + 1 \in 1 .. k /\ i # m /\ k \in 1 .. m /\ m # 1
          BY <1>0, <2>1, <3>3
        <4>2. w2[i + 1] = w[i + 1]
          BY <1>1, <4>1
        <4>3. w[i] \in Blocks \ {n} /\ w[i] # w[k]
          BY <1>0, <1>3, <2>1, <3>3, <4>1
        <4>4. B[w[i]].next = D[w[i]].next /\ B[w[i]].code = D[w[i]].code
          BY <4>1, <4>3 DEF Grows
        <4>5. D[w[i]].next = w[i + 1]
          BY <2>1, <4>1 DEF Links
        <4>6. D[w[i]].code = RetryMe(w[i + 1])
          <5>1. ~ LeftOver(d, w)
            BY <4>1 DEF LeftOver
          <5>2. D[w[i]].code = CodeOf(d, w, i)
            BY <2>1, <5>1 DEF Coded
          <5>. QED BY <4>1, <5>2 DEF CodeOf
        <4>. QED BY <2>1, <3>1, <4>2, <4>4, <4>5, <4>6
      <3>. QED BY <3>2, <3>3
    <2>2. CASE i = k + 1 /\ w2[i] = n
      <3>1. CASE k = m
        <4>1. B[n].next = None /\ B[n].code = TrustMe
          BY <3>1 DEF Grows
        <4>. QED BY <2>2, <3>1, <4>1
      <3>2. CASE k # m
        <4>1. k + 1 \in k + 1 .. m /\ i # m + 1 /\ i + 1 = (k + 1) + 1
          BY <1>0, <2>2, <3>2
        <4>2. B[n].next = w[k + 1] /\ B[n].code = RetryMe(w[k + 1])
          BY <3>2 DEF Grows
        <4>3. w2[i + 1] = w[k + 1]
          BY <1>1, <4>1
        <4>. QED BY <2>2, <4>1, <4>2, <4>3
      <3>. QED BY <3>1, <3>2
    <2>3. CASE i - 1 \in k + 1 .. m /\ i - 1 \in 1 .. m /\ w2[i] = w[i - 1]
      <3>. DEFINE h == i - 1
      <3>1. h \in k + 1 .. m /\ h \in 1 .. m /\ w2[i] = w[h] /\ i = h + 1 /\ (i = m + 1 <=> h = m)
        BY <1>0, <2>3
      <3>. HIDE DEF h
      <3>2. k = 0 \/ (k \in 1 .. m /\ k # h)
        BY <1>0, <3>1
      <3>3. w[h] \in Blocks \ {n} /\ (k = 0 \/ w[h] # w[k])
        BY <1>0, <1>3, <3>1, <3>2
      <3>4. /\ B[w[h]].next = D[w[h]].next
            /\ B[w[h]].code = IF k = 0 /\ m = 1 /\ w[h] = w[1] THEN TrustMe ELSE D[w[h]].code
        BY <3>3 DEF Grows
      <3>5. D[w[h]].next = IF h = m THEN None ELSE w[h + 1]
        BY <3>1 DEF Links
      <3>6. h # m => w2[i + 1] = w[h + 1]
        <4>1. h # m => h + 1 \in k + 1 .. m
          BY <1>0, <3>1
        <4>. QED BY <1>1, <3>1, <4>1
      <3>7. B[w[h]].code = IF h = m THEN TrustMe ELSE RetryMe(w[h + 1])
        <4>1. CASE m = 1
          <5>1. h = 1 /\ k = 0
            BY <1>0, <3>1, <4>1
          <5>. QED BY <3>4, <4>1, <5>1
        <4>2. CASE m # 1
          <5>1. ~ LeftOver(d, w)
            BY <4>2 DEF LeftOver
          <5>2. D[w[h]].code = CodeOf(d, w, h)
            BY <3>1, <5>1 DEF Coded
          <5>. QED BY <3>4, <4>2, <5>2 DEF CodeOf
        <4>. QED BY <4>1, <4>2
      <3>. QED BY <3>1, <3>4, <3>5, <3>6, <3>7
    <2>. QED BY <1>2, <2>1, <2>2, <2>3
  <1>8. ASSUME NEW b \in Blocks \ In(w2) PROVE B[b].next = None /\ B[b].code \in {Deleted, Free}
    <2>1. b \in Blocks \ In(w) /\ b # n
      BY <1>1
    <2>2. m # 0 => b # w[1]
      <3>1. m # 0 => 1 \in 1 .. m
        BY <1>0
      <3>. QED BY <1>0, <2>1, <3>1
    <2>3. k # 0 => b # w[k]
      <3>1. k # 0 => k \in 1 .. m
        BY <1>0
      <3>. QED BY <1>0, <2>1, <3>1
    <2>4. B[b].next = D[b].next /\ B[b].code = D[b].code
      BY <2>1, <2>2, <2>3 DEF Grows
    <2>. QED BY <2>1, <2>4 DEF Links
  <1>9. /\ r.p.first = w2[1] /\ r.p.last = w2[m + 1]
        /\ w # << >> => r.p.entry.first = w2[1]
    <2>1. w # << >> <=> m # 0
      BY <1>0, EmptySeq
    <2>2. CASE k = 0
      <3>1. r.p.first = w2[1] /\ (w # << >> => r.p.entry.first = w2[1])
        BY <1>1, <2>2 DEF Grows
      <3>2. CASE m = 0
        BY <1>1, <2>2, <3>1, <3>2 DEF Grows
      <3>3. CASE m # 0
        <4>1. m \in k + 1 .. m
          BY <1>0, <2>2, <3>3
        <4>2. w2[m + 1] = w[m]
          BY <1>1, <4>1
        <4>3. r.p.last = w[m]
          BY <2>1, <2>2, <3>3 DEF Grows, Links
        <4>. QED BY <3>1, <4>2, <4>3
      <3>. QED BY <3>2, <3>3
    <2>3. CASE k # 0
      <3>1. m # 0 /\ 1 \in 1 .. k
        BY <1>0, <2>3
      <3>2. w2[1] = w[1]
        BY <1>1, <3>1
      <3>3. r.p.first = w[1] /\ (w # << >> => r.p.entry.first = w[1])
        BY <2>1, <2>3, <3>1 DEF Grows, Links
      <3>4. CASE k = m
        BY <1>1, <3>2, <3>3, <3>4 DEF Grows
      <3>5. CASE k # m
        <4>1. m \in k + 1 .. m
          BY <1>0, <3>5
        <4>2. w2[m + 1] = w[m]
          BY <1>1, <4>1
        <4>3. r.p.last = w[m]
          BY <2>1, <3>1, <3>5 DEF Grows, Links
        <4>. QED BY <3>2, <3>3, <4>2, <4>3
      <3>. QED BY <3>4, <3>5
    <2>. QED BY <2>2, <2>3
  <1>10. Links(r, w2)
    BY <1>1, <1>6, <1>7, <1>8, <1>9 DEF Links
  <1>11. Coded(r, w2)
    <2>1. r.p.usage # "switch" /\ r.p.index = << >>
      BY DEF Grows
    <2>2. \A i \in 1 .. Len(w2) : B[w2[i]].code = CodeOf(r, w2, i)
      BY <1>1, <1>7, <2>1 DEF CodeOf
    <2>3. Len(w2) # 0 /\ (Len(w2) = 1 <=> w = << >>)
      <3>1. w = << >> <=> m = 0
        BY <1>0, EmptySeq
      <3>. QED BY <1>0, <1>1, <3>1
    <2>4. w2[1] = n \/ w # << >>
      BY <1>1, EmptySeq
    <2>5. Len(w2) = 1 => r.p.usage = "single" /\ r.p.entry = Jump(w2[1])
      BY <2>3, <2>4 DEF Grows
    <2>6. Len(w2) > 1 => r.p.usage = "multiple" /\ r.p.entry.op = "try_me_jump"
                         /\ r.p.entry.first = w2[1] /\ r.p.entry.second \in Blocks
      <3>1. Len(w2) > 1 => w # << >>
        BY <1>1, <2>3
      <3>. QED BY <1>9, <3>1 DEF Grows
    <2>. QED BY <2>1, <2>2, <2>3, <2>5, <2>6 DEF Coded
  <1>. QED BY <1>10, <1>11 DEF w2

LEMMA FreeIsOutside ==
  ASSUME NEW d \in Databases, NEW w, Links(d, w), Coded(d, w), NEW n \in Blocks, d.b[n].code = Free
  PROVE  n \in Blocks \ In(w)
  BY CodeFacts DEF In

(* What the emptiness of the chain and its first and last clause are *)
LEMMA EndsOf ==
  ASSUME NEW d, NEW w, Links(d, w)
  PROVE  /\ w = << >> <=> Len(w) = 0
         /\ d.p.first = None <=> w = << >>
         /\ w # << >> => /\ d.p.first = w[1] /\ d.p.last = w[Len(w)]
                         /\ 1 \in 1 .. Len(w) /\ Len(w) \in 1 .. Len(w)
                         /\ d.p.first \in Blocks /\ d.p.last \in Blocks
                         /\ d.b[w[Len(w)]].next = None
         /\ Len(w) > 1 => d.b[w[1]].next = w[2] /\ w[2] \in Blocks /\ 2 \in 1 .. Len(w)
  <1>1. Len(w) \in Nat /\ w \in Seq(Blocks) /\ \A i \in 1 .. Len(w) : w[i] \in Blocks /\ w[i] # None
    BY LinksFacts
  <1>2. w = << >> <=> Len(w) = 0
    BY <1>1, EmptySeq
  <1>3. w # << >> => 1 \in 1 .. Len(w) /\ Len(w) \in 1 .. Len(w)
    BY <1>1, <1>2
  <1>4. Len(w) > 1 => 2 \in 1 .. Len(w) /\ 1 # Len(w) /\ 1 \in 1 .. Len(w)
    BY <1>1
  <1>. QED BY <1>1, <1>2, <1>3, <1>4 DEF Links

LEMMA UsageOf ==
  ASSUME NEW d, NEW w, Links(d, w), Coded(d, w), d.p.usage # "switch"
  PROVE  /\ d.p.index = << >>
         /\ Len(w) = 1 <=> d.p.usage = "single"
         /\ Len(w) > 1 <=> d.p.usage = "multiple"
         /\ Len(w) > 1 => d.p.entry.op = "try_me_jump" /\ d.p.entry.first = w[1] /\ d.p.entry.second \in Blocks
  <1>1. Len(w) \in Nat
    BY LinksFacts
  <1>0. \A m \in Nat : /\ (m = 0 \/ m = 1 \/ m > 1)
                      /\ ~ (m = 1 /\ m > 1) /\ ~ (m = 0 /\ m > 1) /\ ~ (m = 0 /\ m = 1)
    OBVIOUS
  <1>2. Len(w) = 0 \/ Len(w) = 1 \/ Len(w) > 1
    BY <1>0, <1>1
  <1>3. /\ "single" # "multiple" /\ "undefined" # "single" /\ "undefined" # "multiple"
    OBVIOUS
  <1>4. ~ (Len(w) = 1 /\ Len(w) > 1) /\ ~ (Len(w) = 0 /\ Len(w) > 1) /\ ~ (Len(w) = 0 /\ Len(w) = 1)
    BY <1>0, <1>1
  <1>. QED BY <1>2, <1>3, <1>4 DEF Coded

(* r is d with the clause n, of the id at, put in after the clause k of the *)
(* chain w, the bounds of the ids as they were                              *)
PutIn(d, r, w, k, n, at) ==
  /\ r.c = d.c /\ r.b[n].id = at /\ r.p.lo = d.p.lo /\ r.p.hi = d.p.hi
  /\ Grows(d, r, w, k, n)

LEMMA AddedToNoneIs ==
  ASSUME NEW d \in Databases, NEW w, Links(d, w), w = << >>, d.p.index = << >>,
         NEW n \in Blocks, NEW cg, NEW key \in Keys, NEW at \in Int, at = cg * IdSpan
  PROVE  PutIn(d, AddedToNone(d, n, cg, key), w, 0, n, at)
  <1>. DEFINE f == Filled(d, n, at, key, None, TrustMe)
              x == [code |-> TrustMe, next |-> None, id |-> at, key |-> key]
              e == InstallEntry(f, Jump(n))
              r == [e EXCEPT !.p.first = n, !.p.last = n, !.p.usage = "single"]
              p == [e.p EXCEPT !.first = n, !.last = n, !.usage = "single"]
  <1>1. Rewritten(d, f, n, x)
    BY CodesTyped, FilledIs
  <1>. HIDE DEF f
  <1>2. f \in Databases /\ f.p = d.p /\ f.c = d.c /\ f.b[n] = x /\ \A b \in Blocks \ {n} : f.b[b] = d.b[b]
    BY <1>1 DEF Rewritten
  <1>3. /\ e \in Databases /\ e.b = f.b /\ e.c = f.c
        /\ e.p = [f.p EXCEPT !.entry = Jump(n), !.counting = FALSE]
    <2>1. Jump(n) \in Entries
      BY EntriesTyped
    <2>. QED BY Zenon, <1>2, <2>1, InstallEntryIs
  <1>. HIDE DEF e
  <1>4. p \in Procedures /\ r = [e EXCEPT !.p = p]
    BY <1>3 DEF Databases, Procedures
  <1>5. r \in Databases /\ r.p = p /\ r.b = e.b /\ r.c = e.c
    BY <1>3, <1>4, ProcedureIs
  <1>6. r = AddedToNone(d, n, cg, key)
    BY DEF AddedToNone, e, f
  <1>. HIDE DEF r
  <1>7. /\ p.first = n /\ p.last = n /\ p.usage = "single" /\ p.entry = Jump(n)
        /\ p.index = d.p.index /\ p.lo = d.p.lo /\ p.hi = d.p.hi
    <2>1. d.p \in Procedures
      BY DatabaseFacts
    <2>. QED BY <1>2, <1>3, <2>1 DEF Procedures
  <1>. HIDE DEF p
  <1>8. Len(w) = 0
    BY EmptySeq
  <1>9. Grows(d, r, w, 0, n)
    <2>1. r.b[n] = x /\ \A b \in Blocks \ {n} : r.b[b] = d.b[b]
      BY <1>2, <1>3, <1>5
    <2>2. x.code = TrustMe /\ x.next = None
      OBVIOUS
    <2>. QED BY <1>5, <1>7, <1>8, <2>1, <2>2 DEF Grows
  <1>. QED BY <1>2, <1>3, <1>5, <1>6, <1>7, <1>9 DEF PutIn

LEMMA AddedInFrontIs ==
  ASSUME NEW d \in Databases, NEW w, Links(d, w), Coded(d, w), d.p.usage # "switch", w # << >>,
         NEW n \in Blocks \ In(w), NEW id \in Int, NEW key \in Keys, id < d.b[w[1]].id
  PROVE  PutIn(d, AddedInFront(d, n, id, key), w, 0, n, id)
  <1>. DEFINE next == d.p.first
              only == d.b[next].next = None
              x == [code |-> RetryMe(next), next |-> next, id |-> id, key |-> key]
              d1 == Filled(d, n, id, key, next, RetryMe(next))
              c1 == InstallChoice(d1, next, TrustMe)
              y == [d1.b[next] EXCEPT !.code = TrustMe]
              m1 == [c1 EXCEPT !.p.usage = "multiple"]
              d2 == IF only THEN m1 ELSE d1
              e == InstallEntry(d2, TryMeJump(n, next, TRUE))
              r == [e EXCEPT !.p.first = n]
  <1>0. /\ next = w[1] /\ next \in Blocks /\ next \in In(w) /\ next # n /\ n \in Blocks
        /\ 1 \in 1 .. Len(w) /\ Len(w) \in Nat
    BY EndsOf, LinksFacts
  <1>. HIDE DEF next
  <1>1. Rewritten(d, d1, n, x)
    BY <1>0, CodesTyped, FilledIs
  <1>2. d1 \in Databases /\ d1.p = d.p /\ d1.c = d.c /\ d1.b[n] = x /\ \A b \in Blocks \ {n} : d1.b[b] = d.b[b]
    BY <1>1 DEF Rewritten
  <1>. HIDE DEF d1
  <1>3. Rewritten(d1, c1, next, y)
    BY <1>0, <1>2, CodesTyped, InstallChoiceIs
  <1>4. c1 \in Databases /\ c1.p = d.p /\ c1.c = d.c /\ c1.b[next] = y
        /\ \A b \in Blocks \ {next} : c1.b[b] = d1.b[b]
    BY <1>2, <1>3 DEF Rewritten
  <1>5. y.code = TrustMe /\ y.next = d.b[next].next /\ y.id = d.b[next].id
    <2>1. d1.b[next] = d.b[next] /\ d.b[next] \in ClauseBlocks
      BY <1>0, <1>2, CodeTypes
    <2>. QED BY <2>1 DEF ClauseBlocks
  <1>. HIDE DEF c1, y
  <1>6. m1 \in Databases /\ m1.p = [d.p EXCEPT !.usage = "multiple"] /\ m1.b = c1.b /\ m1.c = d.c
    BY <1>4, UsageIs
  <1>. HIDE DEF m1
  <1>7. /\ d2 \in Databases /\ d2.c = d.c
        /\ d2.b = IF only THEN c1.b ELSE d1.b
        /\ d2.p = IF only THEN [d.p EXCEPT !.usage = "multiple"] ELSE d.p
    BY <1>2, <1>6
  <1>. HIDE DEF d2
  <1>8. /\ e \in Databases /\ e.b = d2.b /\ e.c = d2.c
        /\ e.p = [d2.p EXCEPT !.entry = TryMeJump(n, next, TRUE), !.counting = FALSE]
    BY <1>0, <1>7, EntriesTyped, InstallEntryIs
  <1>. HIDE DEF e
  <1>9. r \in Databases /\ r.p = [e.p EXCEPT !.first = n] /\ r.b = e.b /\ r.c = e.c
    BY <1>0, <1>8, FirstIs
  <1>10. r = AddedInFront(d, n, id, key)
    BY DEF AddedInFront, e, d2, m1, c1, d1, next
  <1>. HIDE DEF r
  <1>11. only <=> Len(w) = 1
    <2>1. d.b[w[1]].next = IF 1 = Len(w) THEN None ELSE w[1 + 1]
      BY <1>0 DEF Links
    <2>2. 1 # Len(w) => w[2] # None
      <3>1. 1 # Len(w) => 2 \in 1 .. Len(w)
        BY <1>0
      <3>. QED BY <3>1, LinksFacts
    <2>. QED BY <1>0, <2>1, <2>2
  <1>. HIDE DEF only
  <1>12. /\ r.p.first = n /\ r.p.last = d.p.last /\ r.p.usage = "multiple"
         /\ r.p.entry = TryMeJump(n, next, TRUE)
         /\ r.p.index = d.p.index /\ r.p.lo = d.p.lo /\ r.p.hi = d.p.hi
    <2>1. d.p \in Procedures
      BY DatabaseFacts
    <2>2. ~ only => d.p.usage = "multiple"
      <3>1. \A m \in Nat : 1 \in 1 .. m => m = 1 \/ m > 1
        OBVIOUS
      <3>2. Len(w) = 1 \/ Len(w) > 1
        BY <1>0, <3>1
      <3>. QED BY <1>11, <3>2, UsageOf
    <2>. QED BY <1>7, <1>8, <1>9, <2>1, <2>2 DEF Procedures
  <1>13. r.b[n] = x
    BY <1>0, <1>2, <1>4, <1>7, <1>8, <1>9
  <1>14. \A b \in Blocks \ {n} : /\ r.b[b].id = d.b[b].id /\ r.b[b].next = d.b[b].next
                                 /\ r.b[b].code = IF Len(w) = 1 /\ b = w[1] THEN TrustMe ELSE d.b[b].code
    <2>. SUFFICES ASSUME NEW b \in Blocks \ {n}
                  PROVE  /\ r.b[b].id = d.b[b].id /\ r.b[b].next = d.b[b].next
                         /\ r.b[b].code = IF Len(w) = 1 /\ b = w[1] THEN TrustMe ELSE d.b[b].code
      OBVIOUS
    <2>1. CASE ~ only
      BY <1>2, <1>7, <1>8, <1>9, <1>11, <2>1
    <2>2. CASE only /\ b # next
      BY <1>0, <1>2, <1>4, <1>7, <1>8, <1>9, <2>2
    <2>3. CASE only /\ b = next
      BY <1>0, <1>4, <1>5, <1>7, <1>8, <1>9, <1>11, <2>3
    <2>. QED BY <2>1, <2>2, <2>3
  <1>15. Grows(d, r, w, 0, n)
    <2>1. \A i \in 1 .. Len(w) : id < d.b[w[i]].id
      <3>. SUFFICES ASSUME NEW i \in 1 .. Len(w) PROVE id < d.b[w[i]].id
        OBVIOUS
      <3>1. d.b[w[1]].id <= d.b[w[i]].id
        BY <1>0, IdsApart
      <3>2. d.b[w[1]].id \in Int /\ d.b[w[i]].id \in Int
        BY <1>0, IdsApart
      <3>. QED BY <3>1, <3>2
    <2>2. x.code = RetryMe(w[1]) /\ x.next = w[1] /\ x.id = id
      BY <1>0
    <2>3. r.p.index = << >>
      BY <1>12, UsageOf
    <2>4. /\ TryMeJump(n, next, TRUE).op = "try_me_jump" /\ TryMeJump(n, next, TRUE).first = n
          /\ TryMeJump(n, next, TRUE).second \in Blocks
      <3>1. n \in Blocks /\ next \in Blocks /\ TRUE \in BOOLEAN
        BY <1>0
      <3>. HIDE DEF next
      <3>. QED BY <3>1 DEF TryMeJump
    <2>5. 0 # Len(w) /\ 0 + 1 = 1 /\ 1 .. 0 = {}
      BY <1>0
    <2>. HIDE DEF x
    <2>. QED BY <1>9, <1>12, <1>13, <1>14, <2>1, <2>2, <2>3, <2>4, <2>5 DEF Grows
  <1>. QED BY <1>7, <1>8, <1>9, <1>10, <1>12, <1>13, <1>15 DEF PutIn

LEMMA AddedBetweenIs ==
  ASSUME NEW d \in Databases, NEW w, Links(d, w), Coded(d, w), d.p.usage # "switch",
         NEW k, k \in 1 .. Len(w), k # Len(w), NEW n \in Blocks \ In(w), NEW id \in Int, NEW key \in Keys
  PROVE  LET r == AddedBetween(d, n, id, key, w[k])
         IN  /\ r.c = d.c /\ r.b[n].id = id /\ r.p.lo = d.p.lo /\ r.p.hi = d.p.hi
             /\ d.b[w[k]].id < id /\ id < d.b[w[k + 1]].id => Grows(d, r, w, k, n)
  <1>. DEFINE prev == w[k]
              next == d.b[prev].next
              d1 == Linked(d, n, id, key, next, RetryMe(next), prev)
              e == InstallEntry(d1, TryMeJump(prev, n, FALSE))
              r == AddedBetween(d, n, id, key, prev)
  <1>0. /\ Len(w) \in Nat /\ k + 1 \in 1 .. Len(w) /\ k \in 0 .. Len(w) /\ k # 0
        /\ Len(w) > 1 /\ w # << >> /\ 1 \in 1 .. Len(w)
    <2>1. Len(w) \in Nat
      BY LinksFacts
    <2>2. \A m \in Nat : \A i \in 1 .. m : i # m =>
            i + 1 \in 1 .. m /\ i \in 0 .. m /\ i # 0 /\ m > 1 /\ m # 0 /\ 1 \in 1 .. m
      OBVIOUS
    <2>. QED BY <2>1, <2>2, EndsOf
  <1>1. prev \in Blocks \ {n} /\ prev \in In(w) /\ next = w[k + 1] /\ next \in Blocks /\ n \in Blocks
    BY <1>0, LinksFacts DEF Links
  <1>. HIDE DEF prev, next
  <1>20. RetryMe(next) \in Codes
    BY <1>1, CodesTyped
  <1>21. TryMeJump(prev, n, FALSE) \in Entries
    BY <1>1, EntriesTyped
  <1>2. /\ d1 \in Databases /\ d1.p = d.p /\ d1.c = d.c
        /\ IsBlock(d1, n, RetryMe(next), next, id) /\ IsBlock(d1, prev, RetryMe(n), n, d.b[prev].id)
        /\ \A b \in Blocks \ {n, prev} : d1.b[b] = d.b[b]
    <2>1. LinkedTo(d, d1, n, id, next, RetryMe(next), prev)
      BY <1>1, <1>20, LinkedIs
    <2>. QED BY <2>1 DEF LinkedTo
  <1>. HIDE DEF d1
  <1>3. /\ e \in Databases /\ e.b = d1.b /\ e.c = d1.c
        /\ e.p = [d1.p EXCEPT !.entry = TryMeJump(prev, n, FALSE), !.counting = FALSE]
    BY <1>2, <1>21, InstallEntryIs
  <1>4. r = IF prev = d.p.first THEN e ELSE d1
    BY DEF AddedBetween, d1, next
  <1>. HIDE DEF e, r
  <1>5. r \in Databases /\ r.b = d1.b /\ r.c = d.c
    BY <1>2, <1>3, <1>4
  <1>6. d.p \in Procedures
    BY DatabaseFacts
  <1>7. /\ r.p.first = d.p.first /\ r.p.last = d.p.last /\ r.p.usage = d.p.usage
        /\ r.p.index = d.p.index /\ r.p.lo = d.p.lo /\ r.p.hi = d.p.hi
        /\ r.p.entry = IF prev = d.p.first THEN TryMeJump(prev, n, FALSE) ELSE d.p.entry
    <2>1. CASE prev = d.p.first
      <3>1. r.p = [d.p EXCEPT !.entry = TryMeJump(prev, n, FALSE), !.counting = FALSE]
        BY <1>2, <1>3, <1>4, <2>1
      <3>. QED BY <1>6, <2>1, <3>1 DEF Procedures
    <2>2. CASE prev # d.p.first
      BY <1>2, <1>4, <2>2
    <2>. QED BY <2>1, <2>2
  <1>8. /\ d.p.index = << >> /\ d.p.usage = "multiple" /\ d.p.entry.op = "try_me_jump"
        /\ d.p.entry.first = w[1] /\ d.p.entry.second \in Blocks /\ d.p.first = w[1]
    BY <1>0, UsageOf, EndsOf
  <1>9. /\ TryMeJump(prev, n, FALSE).op = "try_me_jump" /\ TryMeJump(prev, n, FALSE).first = prev
        /\ TryMeJump(prev, n, FALSE).second = n
    BY <1>1, EntriesTyped
  <1>10. d.b[w[k]].id < id => \A i \in 1 .. k : d.b[w[i]].id < r.b[n].id
    <2>. SUFFICES ASSUME d.b[w[k]].id < id, NEW i \in 1 .. k PROVE d.b[w[i]].id < r.b[n].id
      OBVIOUS
    <2>1. i \in 1 .. Len(w) /\ i <= k
      BY <1>0
    <2>2. d.b[w[i]].id <= d.b[w[k]].id
      BY <2>1, IdsApart
    <2>3. d.b[w[i]].id \in Int /\ d.b[w[k]].id \in Int
      BY <2>1, IdsApart
    <2>4. r.b[n].id = id
      BY <1>2, <1>5 DEF IsBlock
    <2>. QED BY <2>2, <2>3, <2>4
  <1>11. id < d.b[w[k + 1]].id => \A i \in k + 1 .. Len(w) : r.b[n].id < d.b[w[i]].id
    <2>. SUFFICES ASSUME id < d.b[w[k + 1]].id, NEW i \in k + 1 .. Len(w) PROVE r.b[n].id < d.b[w[i]].id
      OBVIOUS
    <2>1. i \in 1 .. Len(w) /\ k + 1 <= i
      BY <1>0
    <2>2. d.b[w[k + 1]].id <= d.b[w[i]].id
      BY <1>0, <2>1, IdsApart
    <2>3. d.b[w[i]].id \in Int /\ d.b[w[k + 1]].id \in Int
      BY <1>0, <2>1, IdsApart
    <2>4. r.b[n].id = id
      BY <1>2, <1>5 DEF IsBlock
    <2>. QED BY <2>2, <2>3, <2>4
  <1>12. \A b \in Blocks \ {n} : r.b[b].id = d.b[b].id
    BY <1>2, <1>5 DEF IsBlock
  <1>13. r.b[n].next = w[k + 1] /\ r.b[n].code = RetryMe(w[k + 1]) /\ r.b[n].id = id
    BY <1>1, <1>2, <1>5 DEF IsBlock
  <1>14. r.b[w[k]].next = n /\ r.b[w[k]].code = RetryMe(n)
    BY <1>1, <1>2, <1>5 DEF IsBlock, prev
  <1>15. \A b \in Blocks \ {n} : b # w[k] => r.b[b].next = d.b[b].next /\ r.b[b].code = d.b[b].code
    BY <1>2, <1>5 DEF prev
  <1>16. d.b[w[k]].id < id /\ id < d.b[w[k + 1]].id => Grows(d, r, w, k, n)
    <2>. SUFFICES ASSUME d.b[w[k]].id < id, id < d.b[w[k + 1]].id PROVE Grows(d, r, w, k, n)
      OBVIOUS
    <2>1. k # 0 /\ k # Len(w) /\ w # << >>
      BY <1>0
    <2>2. /\ r \in Databases
          /\ r.p.first = d.p.first /\ r.p.last = d.p.last /\ r.p.index = << >>
      BY <1>5, <1>7, <1>8, <1>9
    <2>3. /\ \A i \in 1 .. k : d.b[w[i]].id < r.b[n].id
          /\ \A i \in k + 1 .. Len(w) : r.b[n].id < d.b[w[i]].id
      BY <1>10, <1>11
    <2>4. /\ r.b[n].next = IF k = Len(w) THEN None ELSE w[k + 1]
          /\ r.b[n].code = IF k = Len(w) THEN TrustMe ELSE RetryMe(w[k + 1])
      BY <1>13, <2>1
    <2>5. \A b \in Blocks \ {n} : k = 0 \/ b # w[k] =>
            /\ r.b[b].next = d.b[b].next
            /\ r.b[b].code = IF k = 0 /\ Len(w) = 1 /\ b = w[1] THEN TrustMe ELSE d.b[b].code
      BY <1>15, <2>1
    <2>6. /\ r.p.first = IF k = 0 THEN n ELSE d.p.first
          /\ r.p.last = IF k = Len(w) THEN n ELSE d.p.last
          /\ w = << >> => r.p.usage = "single" /\ r.p.entry = Jump(n)
      BY <2>1, <2>2
    <2>7. w # << >> => /\ r.p.usage = "multiple" /\ r.p.entry.op = "try_me_jump"
                       /\ r.p.entry.first = (IF k = 0 THEN n ELSE w[1]) /\ r.p.entry.second \in Blocks
      <3>1. r.p.usage = "multiple" /\ n \in Blocks
        BY <1>7, <1>8
      <3>2. CASE prev = d.p.first
        <4>1. r.p.entry = TryMeJump(prev, n, FALSE) /\ prev = w[1]
          BY <1>7, <1>8, <3>2
        <4>. HIDE DEF prev
        <4>2. /\ r.p.entry.op = "try_me_jump" /\ r.p.entry.first = w[1]
              /\ r.p.entry.second \in Blocks
          BY <1>9, <3>1, <4>1
        <4>. QED BY Zenon, <2>1, <3>1, <4>2
      <3>3. CASE prev # d.p.first
        <4>1. r.p.entry = d.p.entry
          BY <1>7, <3>3
        <4>2. /\ r.p.entry.op = "try_me_jump" /\ r.p.entry.first = w[1]
              /\ r.p.entry.second \in Blocks
          BY <1>8, <4>1
        <4>. QED BY Zenon, <2>1, <3>1, <4>2
      <3>. QED BY <3>2, <3>3
    <2>. QED BY Zenon, <1>12, <1>14, <2>2, <2>3, <2>4, <2>5, <2>6, <2>7 DEF Grows
  <1>. QED BY <1>5, <1>7, <1>13, <1>16 DEF r, prev

(* The id that a clause at the end is given *)
EndId(d, cg) ==
  CASE cg = Assertz -> cg * IdSpan + d.p.hi + 1
    [] cg # Assertz /\ cg = Group(d.b[d.p.last].id) -> d.b[d.p.last].id + 1
    [] OTHER -> cg * IdSpan

LEMMA AddedAtEndIs ==
  ASSUME NEW d \in Databases, NEW w, Links(d, w), Coded(d, w), d.p.usage # "switch", w # << >>,
         NEW n \in Blocks \ In(w), NEW cg, NEW key \in Keys, NEW id \in Int,
         id = EndId(d, cg),
         d.b[d.p.last].id < id
  PROVE  LET r == AddedAtEnd(d, n, cg, key)
         IN  /\ r.c = d.c /\ r.b[n].id = id /\ r.p.lo = d.p.lo
             /\ r.p.hi = IF cg = Assertz THEN d.p.hi + 1 ELSE d.p.hi
             /\ Grows(d, r, w, Len(w), n)
  <1>. DEFINE m == Len(w)
              last == d.p.last
              hi == IF cg = Assertz THEN d.p.hi + 1 ELSE d.p.hi
              l == Linked(d, n, id, key, None, TrustMe, last)
              p == [l.p EXCEPT !.last = n, !.hi = IF cg = Assertz THEN @ + 1 ELSE @]
              d1 == [l EXCEPT !.p.last = n, !.p.hi = IF cg = Assertz THEN @ + 1 ELSE @]
              e == InstallEntry(d1, TryMeJump(last, n, TRUE))
              r1 == [e EXCEPT !.p.usage = "multiple"]
              r == AddedAtEnd(d, n, cg, key)
  <1>0. /\ m \in Nat /\ m \in 1 .. m /\ 1 \in 1 .. m /\ last = w[m] /\ d.p.first = w[1]
        /\ last \in Blocks /\ last # n /\ last \in Blocks \ {n} /\ n \in Blocks
    <2>1. m \in Nat /\ m \in 1 .. m /\ 1 \in 1 .. m /\ last = w[m] /\ d.p.first = w[1]
      BY LinksFacts, EndsOf
    <2>. QED BY <2>1, LinksFacts
  <1>1. r = IF d.p.usage = "single" THEN r1 ELSE d1
    BY DEF AddedAtEnd, EndId
  <1>. HIDE DEF last
  <1>2. /\ l \in Databases /\ l.p = d.p /\ l.c = d.c
        /\ IsBlock(l, n, TrustMe, None, id) /\ IsBlock(l, last, RetryMe(n), n, d.b[last].id)
        /\ \A b \in Blocks \ {n, last} : l.b[b] = d.b[b]
    <2>1. TrustMe \in Codes /\ None \in Blocks \cup {None}
      BY CodesTyped
    <2>2. last \in Blocks \ {n} /\ n \in Blocks /\ id \in Int /\ key \in Keys
      BY <1>0
    <2>3. LinkedTo(d, l, n, id, None, TrustMe, last)
      BY <2>1, <2>2, LinkedIs
    <2>. QED BY <2>3 DEF LinkedTo
  <1>. HIDE DEF l
  <1>3. d.p \in Procedures /\ d.p.hi \in Int /\ hi \in Int
    BY DatabaseFacts DEF Procedures
  <1>4. /\ p \in Procedures /\ p.first = d.p.first /\ p.last = n /\ p.usage = d.p.usage /\ p.entry = d.p.entry
        /\ p.index = d.p.index /\ p.lo = d.p.lo /\ p.hi = hi
    BY <1>0, <1>2, <1>3 DEF Procedures
  <1>5. d1 = [l EXCEPT !.p = p]
    BY <1>2 DEF Databases
  <1>. HIDE DEF p, d1
  <1>6. d1 \in Databases /\ d1.p = p /\ d1.b = l.b /\ d1.c = l.c
    BY <1>2, <1>4, <1>5, ProcedureIs
  <1>7. TryMeJump(last, n, TRUE) \in Entries
    BY <1>0, EntriesTyped
  <1>8. /\ e \in Databases /\ e.b = d1.b /\ e.c = d1.c
        /\ e.p = [d1.p EXCEPT !.entry = TryMeJump(last, n, TRUE), !.counting = FALSE]
    BY <1>6, <1>7, InstallEntryIs
  <1>. HIDE DEF e
  <1>9. r1 \in Databases /\ r1.p = [e.p EXCEPT !.usage = "multiple"] /\ r1.b = e.b /\ r1.c = e.c
    BY <1>8, UsageIs
  <1>. HIDE DEF r, r1
  <1>10. r \in Databases /\ r.b = l.b /\ r.c = d.c
    BY <1>1, <1>2, <1>6, <1>8, <1>9
  <1>11. /\ r.p.first = d.p.first /\ r.p.last = n /\ r.p.usage = "multiple"
         /\ r.p.index = d.p.index /\ r.p.lo = d.p.lo /\ r.p.hi = hi
         /\ r.p.entry = IF m = 1 THEN TryMeJump(last, n, TRUE) ELSE d.p.entry
    <2>1. \A i \in Nat : 1 \in 1 .. i => i = 1 \/ i > 1
      OBVIOUS
    <2>2. m = 1 \/ m > 1
      BY <1>0, <2>1
    <2>3. CASE m = 1
      <3>1. d.p.usage = "single"
        BY <2>3, UsageOf
      <3>2. r.p = [[p EXCEPT !.entry = TryMeJump(last, n, TRUE), !.counting = FALSE] EXCEPT !.usage = "multiple"]
        BY <1>1, <1>6, <1>8, <1>9, <3>1
      <3>. HIDE DEF hi
      <3>. QED BY <1>4, <2>3, <3>2 DEF Procedures
    <2>4. CASE m > 1
      <3>1. d.p.usage = "multiple" /\ d.p.usage # "single" /\ m # 1
        BY <1>0, <2>4, UsageOf
      <3>. QED BY <1>1, <1>4, <1>6, <3>1
    <2>. QED BY <2>2, <2>3, <2>4
  <1>12. /\ d.p.index = << >>
         /\ r.p.entry.op = "try_me_jump" /\ r.p.entry.first = w[1] /\ r.p.entry.second \in Blocks
    <2>1. d.p.index = << >>
      BY UsageOf
    <2>2. CASE m = 1
      <3>1. /\ TryMeJump(last, n, TRUE).op = "try_me_jump" /\ TryMeJump(last, n, TRUE).first = last
            /\ TryMeJump(last, n, TRUE).second = n
        <4>1. last \in Blocks /\ n \in Blocks /\ TRUE \in BOOLEAN
          BY <1>0
        <4>. QED BY <4>1, EntriesTyped
      <3>2. last = w[1] /\ n \in Blocks
        BY <1>0, <2>2
      <3>. QED BY <1>11, <2>1, <2>2, <3>1, <3>2
    <2>3. CASE m # 1
      <3>1. \A i \in Nat : 1 \in 1 .. i /\ i # 1 => i > 1
        OBVIOUS
      <3>2. m > 1
        BY <1>0, <2>3, <3>1
      <3>. QED BY <1>11, <2>1, <2>3, <3>2, UsageOf
    <2>. QED BY <2>1, <2>2, <2>3
  <1>13. r.b[n].id = id /\ r.b[n].next = None /\ r.b[n].code = TrustMe
    BY <1>2, <1>10 DEF IsBlock
  <1>14. r.b[w[m]].next = n /\ r.b[w[m]].code = RetryMe(n)
    BY <1>0, <1>2, <1>10 DEF IsBlock
  <1>15. \A b \in Blocks \ {n} : b # w[m] => r.b[b].next = d.b[b].next /\ r.b[b].code = d.b[b].code
    BY <1>0, <1>2, <1>10
  <1>16. \A b \in Blocks \ {n} : r.b[b].id = d.b[b].id
    BY <1>0, <1>2, <1>10 DEF IsBlock
  <1>17. \A i \in 1 .. m : d.b[w[i]].id < r.b[n].id
    <2>. SUFFICES ASSUME NEW i \in 1 .. m PROVE d.b[w[i]].id < r.b[n].id
      OBVIOUS
    <2>1. d.b[w[i]].id <= d.b[w[m]].id /\ d.b[w[i]].id \in Int /\ d.b[w[m]].id \in Int
      BY <1>0, IdsApart
    <2>2. d.b[w[m]].id < id
      BY <1>0 DEF last
    <2>. QED BY <1>13, <2>1, <2>2
  <1>18. m # 0 /\ m + 1 .. m = {}
    BY <1>0
  <1>19. Grows(d, r, w, m, n)
    BY <1>0, <1>10, <1>11, <1>12, <1>13, <1>14, <1>15, <1>16, <1>17, <1>18 DEF Grows
  <1>. HIDE DEF m
  <1>. QED BY <1>10, <1>11, <1>13, <1>19 DEF r, m

(***************************************************************************)
(* The groups                                                              *)
(***************************************************************************)
LEMMA GroupOf ==
  ASSUME NEW a \in Int
  PROVE  /\ Group(a) \in Int /\ Group(a) * IdSpan \in Int
         /\ Group(a) * IdSpan <= a /\ a < Group(a) * IdSpan + IdSpan
  <1>1. IdSpan \in Int /\ IdSpan > 0
    BY BoundAssumption
  <1>2. \A s \in Int : s > 0 => /\ a \div s \in Int /\ (a \div s) * s \in Int
                                /\ (a \div s) * s <= a /\ a < (a \div s) * s + s
    OBVIOUS
  <1>. QED BY <1>1, <1>2 DEF Group

LEMMA GroupsAscend ==
  ASSUME NEW g \in Int
  PROVE  /\ g * IdSpan \in Int /\ (g + 1) * IdSpan = g * IdSpan + IdSpan
         /\ \A h \in Int : g < h => g * IdSpan + IdSpan <= h * IdSpan
  <1>1. IdSpan \in Int /\ IdSpan > 0
    BY BoundAssumption
  <1>2. \A s \in Int : s > 0 => g * s \in Int /\ (g + 1) * s = g * s + s
    OBVIOUS
  <1>3. ASSUME NEW h \in Int, g < h PROVE g * IdSpan + IdSpan <= h * IdSpan
    <2>1. \A s \in Int : s > 0 => (h - g - 1) * s >= 0
      BY <1>3
    <2>2. \A s \in Int : s > 0 => (h - g - 1) * s = h * s - g * s - s
      OBVIOUS
    <2>3. \A s \in Int : s > 0 => g * s + s <= h * s
      <3>. SUFFICES ASSUME NEW s \in Int, s > 0 PROVE g * s + s <= h * s
        OBVIOUS
      <3>1. h * s - g * s - s >= 0
        BY <2>1, <2>2
      <3>. QED BY <3>1
    <2>. QED BY <1>1, <2>3
  <1>. QED BY <1>1, <1>2, <1>3

LEMMA GroupFacts ==
  ASSUME NEW cg \in Files \cup {Asserta, Assertz}
  PROVE  /\ cg \in Int /\ Asserta \in Int /\ Assertz \in Int /\ Asserta < Assertz
         /\ cg # Asserta => Asserta < cg
         /\ cg # Assertz => cg < Assertz
         /\ IdSpan \in Int /\ IdSpan > 1 /\ MaxId \in Int /\ 0 <= MaxId /\ MaxId < IdSpan - 1
  <1>1. IdSpan \in Int /\ IdSpan > 1 /\ MaxId \in Int /\ 0 <= MaxId /\ MaxId < IdSpan - 1
    BY BoundAssumption
  <1>. QED BY <1>1, GroupAssumption

(* The bounds of the model on the counters *)
Counted(r, n, cg) ==
  /\ r.p.hi - r.p.lo <= MaxId
  /\ r.b[n].id \in cg * IdSpan - MaxId .. cg * IdSpan + MaxId

Adds(d, r, w, n) ==
  /\ r.c = d.c
  /\ \E k \in 0 .. Len(w) : Grows(d, r, w, k, n)
  /\ r.p.lo <= 0 /\ 0 <= r.p.hi /\ r.p.lo <= d.p.lo /\ d.p.hi <= r.p.hi
  /\ Asserta * IdSpan + r.p.lo <= r.b[n].id /\ r.b[n].id <= Assertz * IdSpan + r.p.hi

(* The new id is between those before and after its place. *)
LEMMA AddedIs ==
  ASSUME NEW d \in Databases, NEW w, Chained(d, w), d.p.usage # "switch",
         NEW n \in Blocks, d.b[n].code = Free, NEW cg \in Files \cup {Asserta, Assertz}, NEW key \in Keys,
         NEW r, r = Added(d, n, cg, key), Counted(r, n, cg)
  PROVE  Adds(d, r, w, n)
  <1>. SUFFICES /\ r.c = d.c
                /\ \E k \in 0 .. Len(w) : Grows(d, r, w, k, n)
                /\ r.p.lo <= 0 /\ 0 <= r.p.hi /\ r.p.lo <= d.p.lo /\ d.p.hi <= r.p.hi
                /\ Asserta * IdSpan + r.p.lo <= r.b[n].id /\ r.b[n].id <= Assertz * IdSpan + r.p.hi
    BY DEF Adds
  <1>. DEFINE m == Len(w)
              at == cg * IdSpan
              bottom == Asserta * IdSpan
              top == Assertz * IdSpan
              upto == {i \in 1 .. m : d.b[w[i]].id < (cg + 1) * IdSpan - 1}
              k == Max(upto)
              prev == w[k]
              id == IF upto # {} /\ Group(d.b[prev].id) = cg THEN d.b[prev].id + 1 ELSE at
  <1>0. /\ Links(d, w) /\ Coded(d, w) /\ m \in Nat /\ n \in Blocks \ In(w)
        /\ \A i \in 1 .. m : w[i] \in Blocks
    <2>1. Links(d, w) /\ Coded(d, w)
      BY DEF Chained
    <2>. QED BY <2>1, FreeIsOutside, LinksFacts
  <1>1. /\ at \in Int /\ (cg + 1) * IdSpan = at + IdSpan /\ bottom \in Int /\ top \in Int
        /\ cg # Asserta => bottom + IdSpan <= at
        /\ cg # Assertz => at + IdSpan <= top
        /\ cg = Asserta => at = bottom
        /\ cg = Assertz => at = top
        /\ bottom < top
        /\ IdSpan \in Int /\ IdSpan > 1 /\ MaxId \in Int /\ 0 <= MaxId /\ MaxId < IdSpan - 1
        /\ cg \in Int /\ Asserta \in Int /\ Assertz \in Int
    <2>1. /\ cg \in Int /\ Asserta \in Int /\ Assertz \in Int /\ Asserta < Assertz
          /\ IdSpan \in Int /\ IdSpan > 1 /\ MaxId \in Int /\ 0 <= MaxId /\ MaxId < IdSpan - 1
      BY GroupFacts
    <2>2. at \in Int /\ (cg + 1) * IdSpan = at + IdSpan /\ bottom \in Int /\ top \in Int
      BY <2>1, GroupsAscend
    <2>3. (cg # Asserta => bottom + IdSpan <= at) /\ (cg # Assertz => at + IdSpan <= top)
      BY <2>1, GroupFacts, GroupsAscend
    <2>4. bottom + IdSpan <= top
      BY <2>1, GroupsAscend
    <2>5. bottom < top
      <3>. HIDE DEF bottom, top
      <3>. QED BY <2>1, <2>2, <2>4
    <2>. QED BY <2>1, <2>2, <2>3, <2>5
  <1>2. /\ d.p.lo \in Int /\ d.p.hi \in Int /\ d.p.lo <= 0 /\ 0 <= d.p.hi
        /\ \A i \in 1 .. m : /\ d.b[w[i]].id \in Int
                             /\ bottom + d.p.lo <= d.b[w[i]].id /\ d.b[w[i]].id <= top + d.p.hi
    <2>1. d.p.lo \in Int /\ d.p.hi \in Int
      BY DatabaseFacts DEF Procedures
    <2>2. \A i \in 1 .. m : d.b[w[i]].id \in Int
      BY <1>0, IdsApart
    <2>. QED BY <2>1, <2>2 DEF Chained, Numbered
  <1>3. \A a \in Int : /\ Group(a) \in Int
                       /\ Group(a) = cg => at <= a /\ a < at + IdSpan
                       /\ Group(a) < cg => a < at
                       /\ cg < Group(a) => at + IdSpan <= a
    <2>. SUFFICES ASSUME NEW a \in Int
                  PROVE  /\ Group(a) \in Int
                         /\ Group(a) = cg => at <= a /\ a < at + IdSpan
                         /\ Group(a) < cg => a < at
                         /\ cg < Group(a) => at + IdSpan <= a
      OBVIOUS
    <2>. DEFINE l == Group(a) * IdSpan
    <2>1. Group(a) \in Int /\ l \in Int /\ l <= a /\ a < l + IdSpan
      BY GroupOf
    <2>2. Group(a) < cg => l + IdSpan <= at
      BY <1>1, <2>1, GroupsAscend
    <2>3. cg < Group(a) => at + IdSpan <= l
      BY <1>1, <2>1, GroupsAscend
    <2>4. Group(a) = cg => l = at
      OBVIOUS
    <2>. HIDE DEF l, at
    <2>. QED BY <1>1, <2>1, <2>2, <2>3, <2>4
  <1>4. upto = {i \in 1 .. m : d.b[w[i]].id < at + IdSpan - 1}
    <2>. DEFINE s == (cg + 1) * IdSpan
    <2>1. s - 1 = at + IdSpan - 1
      <3>1. s = at + IdSpan /\ at \in Int /\ IdSpan \in Int
        BY <1>1
      <3>. HIDE DEF s, at
      <3>. QED BY <3>1
    <2>. HIDE DEF at
    <2>. QED BY <2>1, Zenon
  <1>5. Chain(d) = w /\ DOMAIN Chain(d) = 1 .. m
    BY <1>0, ChainIs, ChainSet
  <1>6. r = (CASE d.p.first = None -> AddedToNone(d, n, cg, key)
               [] d.p.first # None /\ cg # Asserta /\ cg >= Group(d.b[d.p.last].id) ->
                    AddedAtEnd(d, n, cg, key)
               [] d.p.first # None /\ cg = Asserta ->
                    [AddedInFront(d, n, at + d.p.lo - 1, key) EXCEPT !.p.lo = @ - 1]
               [] OTHER -> IF upto = {} THEN AddedInFront(d, n, id, key)
                           ELSE AddedBetween(d, n, id, key, prev))
    BY <1>5 DEF Added
  <1>7. CASE w = << >>
    <2>1. d.p.first = None /\ d.p.index = << >> /\ Len(w) = 0
      BY <1>0, <1>7, EndsOf, UsageOf
    <2>2. r = AddedToNone(d, n, cg, key)
      BY <1>6, <2>1
    <2>3. /\ r.c = d.c /\ r.b[n].id = at /\ r.p.lo = d.p.lo /\ r.p.hi = d.p.hi
          /\ Grows(d, r, w, 0, n)
      <3>1. at \in Int /\ at = cg * IdSpan
        BY <1>1
      <3>. HIDE DEF at
      <3>2. PutIn(d, r, w, 0, n, at)
        BY <1>0, <1>7, <2>1, <2>2, <3>1, AddedToNoneIs
      <3>. QED BY <3>2 DEF PutIn
    <2>4. bottom <= at /\ at <= top
      <3>. HIDE DEF at, bottom, top
      <3>. QED BY <1>1
    <2>5. bottom + d.p.lo <= at /\ at <= top + d.p.hi
      <3>. HIDE DEF at, bottom, top
      <3>. QED BY <1>1, <1>2, <2>4
    <2>6. 0 \in 0 .. Len(w) /\ d.p.lo <= d.p.lo /\ d.p.hi <= d.p.hi
      BY <1>2, <2>1
    <2>. QED BY <1>2, <2>3, <2>5, <2>6
  <1>8. CASE w # << >>
    <2>1. /\ d.p.first # None /\ d.p.last = w[m] /\ m \in 1 .. m /\ 1 \in 1 .. m
          /\ d.b[d.p.last].id \in Int /\ d.b[w[1]].id \in Int
      <3>1. d.p.first # None /\ d.p.last = w[m] /\ m \in 1 .. m /\ 1 \in 1 .. m
        BY <1>0, <1>8, EndsOf
      <3>. QED BY <1>2, <3>1
    <2>2. CASE cg # Asserta /\ cg >= Group(d.b[d.p.last].id)
      <3>. DEFINE last == d.b[d.p.last].id
                  new == EndId(d, cg)
      <3>1. r = AddedAtEnd(d, n, cg, key)
        BY <1>6, <2>1, <2>2
      <3>2. last \in Int /\ last <= top + d.p.hi /\ bottom + d.p.lo <= last
        BY <1>2, <2>1
      <3>3. new = IF cg = Assertz THEN top + d.p.hi + 1 ELSE IF cg = Group(last) THEN last + 1 ELSE at
        BY DEF EndId
      <3>4. cg # Group(last) => last < at
        <4>1. Group(last) \in Int /\ (cg # Group(last) => Group(last) < cg)
          BY <1>1, <1>3, <2>2, <3>2
        <4>. HIDE DEF at
        <4>. QED BY <1>3, <3>2, <4>1
      <3>5. cg = Group(last) /\ cg # Assertz => last + 1 <= top
        <4>1. cg = Group(last) => last < at + IdSpan
          BY <1>3, <3>2
        <4>. HIDE DEF at, top, last
        <4>. QED BY <1>1, <3>2, <4>1
      <3>6. new \in Int /\ last < new /\ (cg # Assertz => new <= top) /\ (cg = Assertz => new = top + d.p.hi + 1)
        <4>1. cg # Assertz => at <= top
          <5>. HIDE DEF at, top
          <5>. QED BY <1>1
        <4>. HIDE DEF at, top, last, new
        <4>. QED BY <1>1, <1>2, <3>2, <3>3, <3>4, <3>5, <4>1
      <3>. HIDE DEF new
      <3>7. /\ r.c = d.c /\ r.b[n].id = new /\ r.p.lo = d.p.lo
            /\ r.p.hi = IF cg = Assertz THEN d.p.hi + 1 ELSE d.p.hi
            /\ Grows(d, r, w, Len(w), n)
        <4>1. new = EndId(d, cg) /\ d.b[d.p.last].id < new
          BY <3>6 DEF new
        <4>. QED BY <1>0, <1>8, <3>1, <3>6, <4>1, AddedAtEndIs
      <3>8. /\ r.p.lo <= 0 /\ 0 <= r.p.hi /\ r.p.lo <= d.p.lo /\ d.p.hi <= r.p.hi
            /\ bottom + r.p.lo <= r.b[n].id /\ r.b[n].id <= top + r.p.hi
        <4>. DEFINE lo == d.p.lo
                    hi == d.p.hi
        <4>1. /\ lo \in Int /\ hi \in Int /\ lo <= 0 /\ 0 <= hi /\ bottom \in Int /\ top \in Int
              /\ last \in Int /\ new \in Int /\ bottom + lo <= last /\ last < new
              /\ (cg # Assertz => new <= top) /\ (cg = Assertz => new = top + hi + 1)
          BY <1>1, <1>2, <3>2, <3>6
        <4>. HIDE DEF bottom, top, last, lo, hi
        <4>2. CASE cg = Assertz
          <5>1. r.p.hi = hi + 1 /\ r.p.lo = lo
            BY <3>7, <4>2 DEF lo, hi
          <5>2. lo <= 0 /\ 0 <= hi + 1 /\ lo <= lo /\ hi <= hi + 1 /\ bottom + lo <= new /\ new <= top + (hi + 1)
            BY <4>1, <4>2
          <5>. QED BY <3>7, <5>1, <5>2 DEF lo, hi
        <4>3. CASE cg # Assertz
          <5>1. r.p.hi = hi /\ r.p.lo = lo
            BY <3>7, <4>3 DEF lo, hi
          <5>2. lo <= 0 /\ 0 <= hi /\ lo <= lo /\ hi <= hi /\ bottom + lo <= new /\ new <= top + hi
            BY <4>1, <4>3
          <5>. QED BY <3>7, <5>1, <5>2 DEF lo, hi
        <4>. QED BY <4>2, <4>3
      <3>9. Len(w) \in 0 .. Len(w)
        BY <1>0
      <3>. QED BY <3>7, <3>8, <3>9
    <2>3. CASE cg = Asserta
      <3>. DEFINE new == at + d.p.lo - 1
                  f == AddedInFront(d, n, new, key)
      <3>1. r = [f EXCEPT !.p.lo = @ - 1]
        BY <1>6, <2>1, <2>3
      <3>2. new \in Int /\ new < d.b[w[1]].id /\ new = bottom + d.p.lo - 1 /\ at = bottom
        <4>1. at = bottom /\ at \in Int /\ bottom + d.p.lo <= d.b[w[1]].id
          BY <1>1, <1>2, <2>1, <2>3
        <4>. HIDE DEF at, bottom
        <4>. QED BY <1>2, <2>1, <4>1
      <3>. HIDE DEF new
      <3>3. /\ f.c = d.c /\ f.b[n].id = new /\ f.p.lo = d.p.lo /\ f.p.hi = d.p.hi
            /\ Grows(d, f, w, 0, n)
        <4>1. PutIn(d, f, w, 0, n, new)
          BY <1>0, <1>8, <3>2, AddedInFrontIs
        <4>. HIDE DEF f
        <4>. QED BY <4>1 DEF PutIn
      <3>. HIDE DEF f
      <3>4. f \in Databases /\ f.p \in Procedures
        <4>1. f \in Databases
          BY <3>3 DEF Grows
        <4>. QED BY <4>1, DatabaseFacts
      <3>5. /\ r \in Databases /\ r.b = f.b /\ r.c = f.c
            /\ r.p = [f.p EXCEPT !.lo = d.p.lo - 1]
        <4>1. r = [f EXCEPT !.p.lo = d.p.lo - 1]
          BY <3>1, <3>3
        <4>2. d.p.lo - 1 \in Int
          BY <1>2
        <4>. QED BY <3>4, <4>1, <4>2, LoIs
      <3>6. /\ r.p.first = f.p.first /\ r.p.last = f.p.last /\ r.p.usage = f.p.usage /\ r.p.entry = f.p.entry
            /\ r.p.index = f.p.index /\ r.p.lo = d.p.lo - 1 /\ r.p.hi = d.p.hi
        BY <3>3, <3>4, <3>5 DEF Procedures
      <3>7. Grows(d, r, w, 0, n)
        BY <3>3, <3>5, <3>6 DEF Grows
      <3>8. /\ r.p.lo <= 0 /\ 0 <= r.p.hi /\ r.p.lo <= d.p.lo /\ d.p.hi <= r.p.hi
            /\ bottom + r.p.lo <= r.b[n].id /\ r.b[n].id <= top + r.p.hi
        <4>1. r.b[n].id = new
          BY <3>3, <3>5
        <4>. HIDE DEF bottom, top, at
        <4>. QED BY <1>1, <1>2, <3>2, <3>6, <4>1
      <3>9. 0 \in 0 .. Len(w)
        BY <1>0
      <3>. QED BY <3>3, <3>5, <3>7, <3>8, <3>9
    <2>4. CASE cg # Asserta /\ ~ (cg >= Group(d.b[d.p.last].id))
      <3>1. r = IF upto = {} THEN AddedInFront(d, n, id, key) ELSE AddedBetween(d, n, id, key, prev)
        BY <1>6, <2>1, <2>4
      <3>2. at + IdSpan <= d.b[w[m]].id
        <4>. DEFINE G == Group(d.b[w[m]].id)
        <4>1. G \in Int /\ ~ (cg >= G) /\ d.b[w[m]].id \in Int
          BY <1>3, <2>1, <2>4
        <4>2. cg < G
          <5>. HIDE DEF G, at
          <5>. QED BY <1>1, <4>1
        <4>. QED BY <1>3, <4>1, <4>2
      <3>3. CASE upto = {}
        <4>1. id = at /\ r = AddedInFront(d, n, at, key)
          BY <3>1, <3>3
        <4>2. ~ (d.b[w[1]].id < at + IdSpan - 1)
          BY <1>4, <2>1, <3>3
        <4>3. at < d.b[w[1]].id
          <5>. HIDE DEF at
          <5>. QED BY <1>1, <2>1, <4>2
        <4>4. /\ r.c = d.c /\ r.b[n].id = at /\ r.p.lo = d.p.lo /\ r.p.hi = d.p.hi
              /\ Grows(d, r, w, 0, n)
          <5>1. at \in Int
            BY <1>1
          <5>. HIDE DEF at
          <5>2. PutIn(d, r, w, 0, n, at)
            BY <1>0, <1>8, <4>1, <4>3, <5>1, AddedInFrontIs
          <5>. QED BY <5>2 DEF PutIn
        <4>5. /\ r.p.lo <= 0 /\ 0 <= r.p.hi /\ r.p.lo <= d.p.lo /\ d.p.hi <= r.p.hi
              /\ bottom + r.p.lo <= r.b[n].id /\ r.b[n].id <= top + r.p.hi
          <5>1. d.b[w[1]].id <= top + d.p.hi /\ bottom <= at
            <6>1. d.b[w[1]].id <= top + d.p.hi
              BY <1>2, <2>1
            <6>2. bottom <= at
              <7>. HIDE DEF bottom, at
              <7>. QED BY <1>1
            <6>. QED BY <6>1, <6>2
          <5>2. \A o, c, x, p, l, h \in Int :
                  o <= c /\ c < x /\ x <= p + h /\ l <= 0 => o + l <= c /\ c <= p + h
            OBVIOUS
          <5>3. /\ bottom \in Int /\ at \in Int /\ d.b[w[1]].id \in Int /\ top \in Int
                /\ d.p.lo \in Int /\ d.p.hi \in Int /\ d.p.lo <= 0 /\ 0 <= d.p.hi
            BY <1>1, <1>2, <2>1
          <5>. HIDE DEF at, bottom, top
          <5>4. bottom + d.p.lo <= at /\ at <= top + d.p.hi
            BY <4>3, <5>1, <5>2, <5>3
          <5>5. d.p.lo <= d.p.lo /\ d.p.hi <= d.p.hi
            BY <5>3
          <5>. QED BY <4>4, <5>3, <5>4, <5>5
        <4>6. 0 \in 0 .. Len(w)
          BY <1>0
        <4>. QED BY <4>4, <4>5, <4>6
      <3>4. CASE upto # {}
        <4>1. k \in upto /\ k \in 1 .. m /\ \A y \in upto : y <= k
          <5>1. upto \subseteq 0 .. m
            BY <1>0
          <5>2. k \in upto /\ \A y \in upto : y <= k
            BY <1>0, <3>4, <5>1, MaxOf
          <5>. QED BY <5>2
        <4>2. d.b[w[k]].id < at + IdSpan - 1 /\ d.b[w[k]].id \in Int
          BY <1>2, <1>4, <4>1
        <4>3. k # m
          <5>1. ~ (d.b[w[m]].id < at + IdSpan - 1)
            <6>1. d.b[w[m]].id \in Int
              BY <1>2, <2>1
            <6>. HIDE DEF at, k, prev
            <6>. QED BY <1>1, <3>2, <6>1
          <5>. QED BY <4>2, <5>1
        <4>. HIDE DEF k, upto
        <4>4. k + 1 \in 1 .. m /\ k + 1 \notin upto
          BY <1>0, <4>1, <4>3
        <4>5. ~ (d.b[w[k + 1]].id < at + IdSpan - 1) /\ d.b[w[k + 1]].id \in Int
          BY <1>2, <1>4, <4>4 DEF upto
        <4>6. id = IF Group(d.b[w[k]].id) = cg THEN d.b[w[k]].id + 1 ELSE at
          BY <3>4
        <4>7. r = AddedBetween(d, n, id, key, w[k])
          BY <3>1, <3>4
        <4>8. id \in Int /\ d.b[w[k]].id < id
          <5>1. Group(d.b[w[k]].id) \in Int /\ ~ (cg < Group(d.b[w[k]].id))
            <6>1. cg < Group(d.b[w[k]].id) => at + IdSpan <= d.b[w[k]].id
              BY <1>3, <4>2
            <6>2. ~ (at + IdSpan <= d.b[w[k]].id)
              <7>. HIDE DEF at
              <7>. QED BY <1>1, <4>2
            <6>. QED BY <1>3, <4>2, <6>1, <6>2
          <5>2. Group(d.b[w[k]].id) # cg => d.b[w[k]].id < at
            BY <1>1, <1>3, <4>2, <5>1
          <5>. HIDE DEF at, id
          <5>. QED BY <1>1, <4>2, <4>6, <5>2
        <4>. HIDE DEF id
        <4>9. /\ r.c = d.c /\ r.b[n].id = id /\ r.p.lo = d.p.lo /\ r.p.hi = d.p.hi
              /\ d.b[w[k]].id < id /\ id < d.b[w[k + 1]].id => Grows(d, r, w, k, n)
          BY <1>0, <4>1, <4>3, <4>7, <4>8, AddedBetweenIs
        <4>10. id < d.b[w[k + 1]].id
          <5>1. id \in at - MaxId .. at + MaxId
            BY <4>9 DEF Counted
          <5>. HIDE DEF at
          <5>. QED BY <1>1, <4>5, <4>8, <5>1
        <4>11. Grows(d, r, w, k, n) /\ k \in 0 .. Len(w)
          BY <1>0, <4>1, <4>8, <4>9, <4>10
        <4>12. /\ r.p.lo <= 0 /\ 0 <= r.p.hi /\ r.p.lo <= d.p.lo /\ d.p.hi <= r.p.hi
               /\ bottom + r.p.lo <= r.b[n].id /\ r.b[n].id <= top + r.p.hi
          <5>1. bottom + d.p.lo <= d.b[w[k]].id /\ d.b[w[k + 1]].id <= top + d.p.hi
            BY <1>2, <4>1, <4>4
          <5>2. \A x, y, z, lo, hi, b, t \in Int :
                  b + lo <= x /\ x < y /\ y < z /\ z <= t + hi => b + lo <= y /\ y <= t + hi
            OBVIOUS
          <5>3. bottom \in Int /\ top \in Int
            BY <1>1
          <5>4. d.p.lo <= d.p.lo /\ d.p.hi <= d.p.hi
            BY <1>2
          <5>. HIDE DEF bottom, top, at, prev
          <5>5. bottom + d.p.lo <= id /\ id <= top + d.p.hi
            BY <1>2, <4>2, <4>5, <4>8, <4>10, <5>1, <5>2, <5>3
          <5>. QED BY <1>2, <4>9, <5>4, <5>5
        <4>. QED BY <4>9, <4>11, <4>12
      <3>. QED BY <3>3, <3>4
    <2>. QED BY <2>2, <2>3, <2>4
  <1>. QED BY <1>7, <1>8

(* What the properties of the chain depend on: a block that is no clause   *)
(* may have been freed meanwhile.                                          *)
SameProcedure(d, r) ==
  /\ r.p.first = d.p.first /\ r.p.last = d.p.last /\ r.p.usage = d.p.usage
  /\ r.p.entry = d.p.entry /\ r.p.index = d.p.index /\ r.p.lo = d.p.lo /\ r.p.hi = d.p.hi

SameChain(d, r, w) ==
  /\ r \in Databases /\ SameProcedure(d, r)
  /\ \A b \in In(w) : r.b[b] = d.b[b]
  /\ \A b \in Blocks \ In(w) : r.b[b] = d.b[b] \/ (r.b[b].next = None /\ r.b[b].code = Free)

LEMMA ChainKept ==
  ASSUME NEW d \in Databases, NEW w, Chained(d, w), NEW r, SameChain(d, r, w)
  PROVE  Chained(r, w)
  <1>0. /\ Links(d, w) /\ Coded(d, w) /\ Numbered(d, w) /\ SameProcedure(d, r)
        /\ \A i \in 1 .. Len(w) : w[i] \in In(w) /\ w[i] \in Blocks /\ r.b[w[i]] = d.b[w[i]]
    BY LinksFacts DEF Chained, SameChain
  <1>1. Links(r, w)
    <2>1. \A b \in Blocks \ In(w) : r.b[b].next = None /\ r.b[b].code \in {Deleted, Free}
      BY <1>0 DEF SameChain, Links
    <2>2. \A i, j \in 1 .. Len(w) : i < j => r.b[w[i]].id < r.b[w[j]].id
      BY <1>0 DEF Links
    <2>3. \A i \in 1 .. Len(w) : r.b[w[i]].next = IF i = Len(w) THEN None ELSE w[i + 1]
      BY <1>0 DEF Links
    <2>4. w \in Seq(Blocks) /\ r.p.first = (IF w = << >> THEN None ELSE w[1])
                            /\ r.p.last = (IF w = << >> THEN None ELSE w[Len(w)])
      BY <1>0 DEF Links, SameProcedure
    <2>. QED BY <2>1, <2>2, <2>3, <2>4 DEF Links
  <1>2. LeftOver(d, w) => LeftOver(r, w)
    <2>. SUFFICES ASSUME LeftOver(d, w) PROVE LeftOver(r, w)
      OBVIOUS
    <2>. DEFINE t == d.b[w[1]].code.to
    <2>1. Len(w) = 1 /\ d.b[w[1]].code.op = "retry" /\ t \in Blocks \ In(w) /\ r.b[w[1]] = d.b[w[1]]
      BY SMTT(30), <1>0 DEF LeftOver
    <2>2. d.b[t].code = Free \/ d.b[w[1]].id < d.b[t].id
      BY DEF LeftOver
    <2>3. r.b[t].code = Free \/ r.b[w[1]].id < r.b[t].id
      BY <2>1, <2>2 DEF SameChain
    <2>. QED BY <2>1, <2>3 DEF LeftOver
  <1>3. Coded(r, w)
    <2>1. \A i \in 1 .. Len(w) : r.b[w[i]].code = d.b[w[i]].code /\ CodeOf(r, w, i) = CodeOf(d, w, i)
      BY <1>0 DEF CodeOf, SameProcedure
    <2>2. LeftOver(r, w) \/ \A i \in 1 .. Len(w) : r.b[w[i]].code = CodeOf(r, w, i)
      BY <1>0, <1>2, <2>1 DEF Coded
    <2>. QED BY <1>0, <2>2 DEF Coded, SameProcedure
  <1>4. Numbered(r, w)
    BY <1>0 DEF Numbered, SameProcedure
  <1>. QED BY <1>1, <1>3, <1>4 DEF Chained

LEMMA SetICountIs ==
  ASSUME NEW d \in Databases
  PROVE  LET r == SetICount(d)
         IN  r \in Databases /\ SameProcedure(d, r) /\ r.b = d.b /\ r.c = d.c
  <1>1. [d EXCEPT !.p.counting = TRUE] \in Databases /\ [d EXCEPT !.p.counting = TRUE].p = [d.p EXCEPT !.counting = TRUE]
        /\ [d EXCEPT !.p.counting = TRUE].b = d.b /\ [d EXCEPT !.p.counting = TRUE].c = d.c
    BY CountingIs
  <1>2. SameProcedure(d, [d EXCEPT !.p.counting = TRUE])
    BY <1>1, DatabaseFacts DEF Procedures, SameProcedure
  <1>. QED BY <1>1, <1>2 DEF SetICount, SameProcedure

(* The choice points of r are those of d without the blocks in gone, and   *)
(* what they or the enumeration go on to is no free block.                 *)
Carries(d, r, gone) ==
  /\ r \in Databases /\ Len(r.c) = Len(d.c)
  /\ \A k \in 1 .. Len(d.c) :
       /\ r.c[k].call = d.c[k].call /\ r.c[k].next = d.c[k].next /\ r.c[k].astray = d.c[k].astray
       /\ r.c[k].todo = d.c[k].todo \ gone /\ r.c[k].ran = d.c[k].ran \ gone
  /\ \A b \in Blocks \cap Marked(d) :
       d.b[b].code # Free => r.b[b].code # Free /\ r.b[b].id = d.b[b].id

(* The clauses not in gone stay and keep their ids. *)
Stays(d, r, w, w2, gone) ==
  \A b \in In(w) \ gone : b \in In(w2) /\ r.b[b].id = d.b[b].id

LEMMA AddedGrows ==
  ASSUME NEW d \in Databases, NEW w, Chained(d, w), d.p.usage # "switch",
         NEW n \in Blocks, d.b[n].code = Free, NEW cg \in Files \cup {Asserta, Assertz}, NEW key \in Keys,
         NEW r, r = SetICount(Added(d, n, cg, key)), Counted(Added(d, n, cg, key), n, cg)
  PROVE  \E w2 : Chained(r, w2) /\ Stays(d, r, w, w2, {}) /\ r.p.usage # "switch"
                 /\ r \in Databases /\ r.c = d.c
                 /\ \A b \in Blocks : d.b[b].code # Free => r.b[b].code # Free /\ r.b[b].id = d.b[b].id
  <1>. DEFINE a == Added(d, n, cg, key)
  <1>2. a = Added(d, n, cg, key) /\ Counted(a, n, cg)
    OBVIOUS
  <1>3. r = SetICount(a)
    OBVIOUS
  <1>. HIDE DEF a
  <1>1. /\ a.c = d.c /\ \E k \in 0 .. Len(w) : Grows(d, a, w, k, n)
        /\ a.p.lo <= 0 /\ 0 <= a.p.hi /\ a.p.lo <= d.p.lo /\ d.p.hi <= a.p.hi
        /\ Asserta * IdSpan + a.p.lo <= a.b[n].id /\ a.b[n].id <= Assertz * IdSpan + a.p.hi
    <2>1. Adds(d, a, w, n)
      BY <1>2, AddedIs
    <2>. QED BY <2>1 DEF Adds
  <1>4. PICK k \in 0 .. Len(w) : Grows(d, a, w, k, n)
    BY <1>1
  <1>5. Links(d, w) /\ Coded(d, w) /\ Numbered(d, w) /\ n \in Blocks \ In(w) /\ a \in Databases /\ w \in Seq(Blocks)
    <2>1. Links(d, w) /\ Coded(d, w) /\ Numbered(d, w)
      BY DEF Chained
    <2>. QED BY <1>4, <2>1, FreeIsOutside, LinksFacts DEF Grows
  <1>. DEFINE w2 == Inserted(w, k, n)
  <1>6. Links(a, w2) /\ Coded(a, w2)
    BY <1>4, <1>5, ChainInsert
  <1>7. In(w2) = In(w) \cup {n} /\ w2 # << >> /\ w2[k + 1] = n
    BY <1>4, <1>5, InsertedIs
  <1>. HIDE DEF w2
  <1>8. \A b \in Blocks \ {n} : a.b[b].id = d.b[b].id
    BY <1>4 DEF Grows
  <1>9. Numbered(a, w2)
    <2>1. a.p.hi - a.p.lo <= MaxId
      BY <1>2 DEF Counted
    <2>. DEFINE lo == Asserta * IdSpan
                hi == Assertz * IdSpan
    <2>2. lo \in Int /\ hi \in Int
      BY GroupFacts, GroupsAscend
    <2>3. \A x \in In(w) : x \in Blocks /\ x # n /\ lo + d.p.lo <= d.b[x].id /\ d.b[x].id <= hi + d.p.hi
      BY <1>5, LinksFacts DEF Numbered, In
    <2>4. lo + a.p.lo <= a.b[n].id /\ a.b[n].id <= hi + a.p.hi
      BY <1>1
    <2>. HIDE DEF lo, hi
    <2>5. d.p.lo \in Int /\ d.p.hi \in Int /\ a.p.lo \in Int /\ a.p.hi \in Int
      BY <1>5, DatabaseFacts DEF Procedures
    <2>6. ASSUME NEW x \in In(w) PROVE lo + a.p.lo <= a.b[x].id /\ a.b[x].id <= hi + a.p.hi
      <3>1. a.b[x].id = d.b[x].id /\ d.b[x].id \in Int /\ lo + d.p.lo <= d.b[x].id /\ d.b[x].id <= hi + d.p.hi
        BY <1>8, <2>3, CodeTypes
      <3>2. a.p.lo <= d.p.lo /\ d.p.hi <= a.p.hi
        BY <1>1
      <3>. DEFINE id == a.b[x].id
      <3>3. id \in Int /\ lo + d.p.lo <= id /\ id <= hi + d.p.hi
        BY <3>1
      <3>. HIDE DEF id
      <3>4. lo + a.p.lo <= id /\ id <= hi + a.p.hi
        BY <2>2, <2>5, <3>2, <3>3
      <3>. QED BY <3>4 DEF id
    <2>7. \A i \in 1 .. Len(w2) : w2[i] \in In(w) \cup {n}
      BY <1>7 DEF In
    <2>8. \A i \in 1 .. Len(w2) : lo + a.p.lo <= a.b[w2[i]].id /\ a.b[w2[i]].id <= hi + a.p.hi
      BY <2>4, <2>6, <2>7
    <2>. QED BY <1>1, <2>1, <2>8 DEF Numbered, lo, hi
  <1>10. r \in Databases /\ SameProcedure(a, r) /\ r.b = a.b /\ r.c = a.c
    BY <1>3, <1>5, SetICountIs
  <1>11. Chained(r, w2)
    <2>1. SameChain(a, r, w2)
      BY <1>10 DEF SameChain
    <2>. QED BY <1>5, <1>6, <1>9, <2>1, ChainKept DEF Chained
  <1>12. Stays(d, r, w, w2, {})
    <2>1. \A x \in In(w) : x \in Blocks \ {n}
      BY <1>5, LinksFacts
    <2>. QED BY <1>7, <1>8, <1>10, <2>1 DEF Stays
  <1>13. ASSUME NEW b \in Blocks, d.b[b].code # Free
         PROVE  r.b[b].code # Free /\ r.b[b].id = d.b[b].id
    <2>1. b # n /\ r.b[b] = a.b[b] /\ a.b[b].id = d.b[b].id
      BY <1>8, <1>10, <1>13
    <2>2. a.b[b].code = RetryMe(n) \/ a.b[b].code = TrustMe \/ a.b[b].code = d.b[b].code
      BY <1>4, <2>1 DEF Grows
    <2>. QED BY <1>13, <2>1, <2>2, CodesApart
  <1>14. r.p.usage # "switch"
    <2>1. a.p.usage = "single" \/ a.p.usage = "multiple"
      BY <1>4 DEF Grows
    <2>. QED BY <1>10, <2>1 DEF SameProcedure
  <1>15. r.c = d.c
    BY <1>1, <1>10
  <1>. QED BY <1>10, <1>11, <1>12, <1>13, <1>14, <1>15

(***************************************************************************)
(* Clauses less: those from i to j                                         *)
(***************************************************************************)
Old(i, j, k) == IF k < i THEN k ELSE k + (j - i + 1)
Without(w, i, j) == [k \in 1 .. Len(w) - (j - i + 1) |-> w[Old(i, j, k)]]

OldFacts(m, i, j) ==
  /\ m - (j - i + 1) \in Nat
  /\ \A k \in 1 .. m - (j - i + 1) :
       /\ Old(i, j, k) \in 1 .. m /\ (Old(i, j, k) < i \/ j < Old(i, j, k))
       /\ k = i - 1 <=> Old(i, j, k) = i - 1
       /\ k < i => Old(i, j, k) = k
       /\ k = m - (j - i + 1) /\ k # i - 1 => Old(i, j, k) = m
       /\ k = m - (j - i + 1) /\ k = i - 1 => j = m
       /\ k # m - (j - i + 1) =>
            /\ k + 1 \in 1 .. m - (j - i + 1)
            /\ k = i - 1 => j # m /\ Old(i, j, k + 1) = j + 1 /\ j + 1 \in 1 .. m
            /\ k # i - 1 => Old(i, j, k) # m /\ Old(i, j, k + 1) = Old(i, j, k) + 1
  /\ \A h, k \in 1 .. m - (j - i + 1) : h < k => Old(i, j, h) < Old(i, j, k)
  /\ i # 1 => i - 1 \in 1 .. m /\ i - 1 \in 1 .. m - (j - i + 1) /\ Old(i, j, i - 1) = i - 1
  /\ i = 1 /\ j # m => 1 \in 1 .. m - (j - i + 1) /\ Old(i, j, 1) = j + 1 /\ j + 1 \in 1 .. m
  /\ i # 1 => 1 \in 1 .. m - (j - i + 1) /\ Old(i, j, 1) = 1
  /\ j # m => m - (j - i + 1) \in 1 .. m - (j - i + 1) /\ Old(i, j, m - (j - i + 1)) = m
  /\ j = m => m - (j - i + 1) = i - 1
  /\ m - (j - i + 1) = 0 <=> i = 1 /\ j = m
  /\ m - (j - i + 1) = 1 <=> m = (j - i + 1) + 1
  /\ m - (j - i + 1) > 1 <=> m > (j - i + 1) + 1
  /\ m = 1 => m - (j - i + 1) = 0

LEMMA OldIs ==
  ASSUME NEW m \in Nat, NEW i, i \in 1 .. m, NEW j, j \in i .. m
  PROVE  OldFacts(m, i, j)
  <1>1. m \in Int /\ i \in Int /\ j \in Int /\ 1 <= i /\ i <= j /\ j <= m
    OBVIOUS
  <1>. DEFINE n == m - (j - i + 1)
  <1>2. n \in Nat /\ n = m - j + i - 1
    BY <1>1
  <1>3. ASSUME NEW k \in 1 .. n
        PROVE  /\ Old(i, j, k) \in 1 .. m /\ (Old(i, j, k) < i \/ j < Old(i, j, k))
               /\ k = i - 1 <=> Old(i, j, k) = i - 1
               /\ k < i => Old(i, j, k) = k
               /\ k = n /\ k # i - 1 => Old(i, j, k) = m
               /\ k = n /\ k = i - 1 => j = m
               /\ k # n =>
                   /\ k + 1 \in 1 .. n
                   /\ k = i - 1 => j # m /\ Old(i, j, k + 1) = j + 1 /\ j + 1 \in 1 .. m
                   /\ k # i - 1 => Old(i, j, k) # m /\ Old(i, j, k + 1) = Old(i, j, k) + 1
    BY <1>1 DEF Old
  <1>5. \A h, k \in 1 .. n : h < k => Old(i, j, h) < Old(i, j, k)
    BY <1>1 DEF Old
  <1>6. /\ i # 1 => i - 1 \in 1 .. m /\ i - 1 \in 1 .. n /\ Old(i, j, i - 1) = i - 1
        /\ i = 1 /\ j # m => 1 \in 1 .. n /\ Old(i, j, 1) = j + 1 /\ j + 1 \in 1 .. m
        /\ i # 1 => 1 \in 1 .. n /\ Old(i, j, 1) = 1
        /\ j # m => n \in 1 .. n /\ Old(i, j, n) = m
        /\ j = m => n = i - 1
        /\ n = 0 <=> i = 1 /\ j = m
        /\ n = 1 <=> m = (j - i + 1) + 1
        /\ n > 1 <=> m > (j - i + 1) + 1
        /\ m = 1 => n = 0
    BY <1>1 DEF Old
  <1>. QED BY <1>2, <1>3, <1>5, <1>6 DEF OldFacts

IsOld(m, i, j, k) == \E h \in 1 .. m - (j - i + 1) : k = Old(i, j, h)

LEMMA OldBack ==
  ASSUME NEW m \in Nat, NEW i, i \in 1 .. m, NEW j, j \in i .. m, NEW k, k \in 1 .. m, k < i \/ j < k
  PROVE  IsOld(m, i, j, k)
  <1>1. m \in Int /\ i \in Int /\ j \in Int /\ 1 <= i /\ i <= j /\ j <= m
    OBVIOUS
  <1>. DEFINE n == m - (j - i + 1)
  <1>2. CASE k < i
    <2>1. k \in 1 .. n /\ k = Old(i, j, k)
      BY <1>1, <1>2 DEF Old
    <2>. QED BY <2>1 DEF IsOld
  <1>3. CASE j < k
    <2>1. k - (j - i + 1) \in 1 .. n /\ k = Old(i, j, k - (j - i + 1))
      BY <1>1, <1>3 DEF Old
    <2>. QED BY <2>1 DEF IsOld
  <1>. QED BY <1>2, <1>3 DEF IsOld

Reduced(w, w2, i, j) ==
  /\ w2 \in Seq(Blocks) /\ Len(w2) = Len(w) - (j - i + 1)
  /\ \A k \in 1 .. Len(w2) : w2[k] = w[Old(i, j, k)]
  /\ In(w2) = {w[k] : k \in {h \in 1 .. Len(w) : h < i \/ j < h}}

LEMMA WithoutIs ==
  ASSUME NEW w, w \in Seq(Blocks), NEW i, i \in 1 .. Len(w), NEW j, j \in i .. Len(w)
  PROVE  Reduced(w, Without(w, i, j), i, j)
  <1>. DEFINE m == Len(w)
              n == m - (j - i + 1)
              w2 == Without(w, i, j)
  <1>0. m \in Nat /\ \A k \in 1 .. m : w[k] \in Blocks
    BY LenProperties, ElementOfSeq
  <1>1. n \in Nat /\ \A k \in 1 .. n : Old(i, j, k) \in 1 .. m
    BY <1>0, OldIs DEF OldFacts
  <1>2. w2 \in [1 .. n -> Blocks] /\ \A k \in 1 .. n : w2[k] = w[Old(i, j, k)]
    BY <1>0, <1>1 DEF Without
  <1>3. w2 \in Seq(Blocks) /\ Len(w2) = n
    <2>1. w2 \in Seq(Blocks) /\ DOMAIN w2 = 1 .. n
      BY <1>1, <1>2, SeqDef
    <2>. HIDE DEF n, w2
    <2>. QED BY <1>1, <2>1, LenProperties
  <1>4. In(w2) = {w[k] : k \in {h \in 1 .. m : h < i \/ j < h}}
    <2>1. ASSUME NEW k \in 1 .. n PROVE Old(i, j, k) \in 1 .. m /\ (Old(i, j, k) < i \/ j < Old(i, j, k))
      BY <1>0, OldIs DEF OldFacts
    <2>2. ASSUME NEW k \in 1 .. m, k < i \/ j < k PROVE \E h \in 1 .. n : k = Old(i, j, h)
      <3>1. IsOld(m, i, j, k)
        BY <1>0, <2>2, OldBack
      <3>. QED BY <3>1 DEF IsOld
    <2>. HIDE DEF w2, n
    <2>3. \A k \in 1 .. Len(w2) : w2[k] \in {w[h] : h \in {h \in 1 .. m : h < i \/ j < h}}
      BY <1>2, <1>3, <2>1
    <2>4. ASSUME NEW k \in 1 .. m, k < i \/ j < k PROVE \E h \in 1 .. Len(w2) : w[k] = w2[h]
      BY <1>2, <1>3, <2>2, <2>4
    <2>. QED BY <2>3, <2>4 DEF In
  <1>. QED BY <1>2, <1>3, <1>4 DEF Reduced

Follower(w, j) == IF j = Len(w) THEN None ELSE w[j + 1]

(* r is d without those clauses. *)
Shrinks(d, r, w, i, j) ==
  /\ r \in Databases
  /\ \A k \in 1 .. Len(w) : k < i \/ j < k =>
       /\ r.b[w[k]].id = d.b[w[k]].id
       /\ r.b[w[k]].next = IF k = i - 1 THEN Follower(w, j) ELSE d.b[w[k]].next
       /\ k # i - 1 => r.b[w[k]].code = d.b[w[k]].code
  /\ i # 1 /\ j # Len(w) => r.b[w[i - 1]].code = RetryMe(w[j + 1])
  /\ i # 1 /\ j = Len(w) =>
       \/ r.b[w[i - 1]].code = TrustMe
       \/ /\ i = 2 /\ r.b[w[1]].code = RetryMe(w[2])
          /\ r.b[w[2]].code = Free \/ r.b[w[2]].id = d.b[w[2]].id
  /\ \A b \in Blocks : (\A k \in 1 .. Len(w) : k < i \/ j < k => b # w[k]) =>
       r.b[b].next = None /\ r.b[b].code \in {Deleted, Free}
  /\ r.p.first = IF i = 1 THEN Follower(w, j) ELSE w[1]
  /\ r.p.last = IF j # Len(w) THEN w[Len(w)] ELSE IF i = 1 THEN None ELSE w[i - 1]
  /\ r.p.index = << >> /\ r.p.lo = d.p.lo /\ r.p.hi = d.p.hi
  /\ i = 1 /\ j = Len(w) => r.p.usage = "undefined" /\ r.p.entry = Empty
  /\ Len(w) = (j - i + 1) + 1 => r.p.usage = "single" /\ r.p.entry = Jump(r.p.first)
  /\ Len(w) > (j - i + 1) + 1 => /\ r.p.usage = "multiple" /\ r.p.entry.op = "try_me_jump"
                                 /\ r.p.entry.first = r.p.first /\ r.p.entry.second \in Blocks

LEMMA ChainRemove ==
  ASSUME NEW d \in Databases, NEW w, Chained(d, w), d.p.usage # "switch",
         NEW i, i \in 1 .. Len(w), NEW j, j \in i .. Len(w), NEW r, Shrinks(d, r, w, i, j)
  PROVE  Chained(r, Without(w, i, j))
  <1>. DEFINE m == Len(w)
              w2 == Without(w, i, j)
              n == m - (j - i + 1)
  <1>0. /\ Links(d, w) /\ Coded(d, w) /\ Numbered(d, w) /\ m \in Nat /\ w \in Seq(Blocks) /\ None \notin Blocks
        /\ \A k \in 1 .. m : w[k] \in Blocks
    <2>1. Links(d, w) /\ Coded(d, w) /\ Numbered(d, w)
      BY DEF Chained
    <2>. QED BY <2>1, LinksFacts
  <1>1. /\ w2 \in Seq(Blocks) /\ Len(w2) = n
        /\ \A k \in 1 .. Len(w2) : w2[k] = w[Old(i, j, k)]
        /\ In(w2) = {w[k] : k \in {h \in 1 .. m : h < i \/ j < h}}
    <2>1. Reduced(w, w2, i, j)
      BY <1>0, WithoutIs
    <2>. HIDE DEF w2
    <2>. QED BY <2>1 DEF Reduced
  <1>2. /\ n \in Nat
        /\ \A k \in 1 .. n :
              /\ Old(i, j, k) \in 1 .. m /\ (Old(i, j, k) < i \/ j < Old(i, j, k))
              /\ k = i - 1 <=> Old(i, j, k) = i - 1
              /\ k < i => Old(i, j, k) = k
              /\ k = n /\ k # i - 1 => Old(i, j, k) = m
              /\ k = n /\ k = i - 1 => j = m
              /\ k # n =>
                   /\ k + 1 \in 1 .. n
                   /\ k = i - 1 => j # m /\ Old(i, j, k + 1) = j + 1 /\ j + 1 \in 1 .. m
                   /\ k # i - 1 => Old(i, j, k) # m /\ Old(i, j, k + 1) = Old(i, j, k) + 1
    <2>1. OldFacts(m, i, j)
      BY <1>0, OldIs
    <2>. QED BY <2>1 DEF OldFacts
  <1>3. \A h, k \in 1 .. n : h < k => Old(i, j, h) < Old(i, j, k)
    <2>1. OldFacts(m, i, j)
      BY <1>0, OldIs
    <2>. QED BY <2>1 DEF OldFacts
  <1>4. /\ i # 1 => i - 1 \in 1 .. m /\ i - 1 \in 1 .. n /\ Old(i, j, i - 1) = i - 1
        /\ i = 1 /\ j # m => 1 \in 1 .. n /\ Old(i, j, 1) = j + 1 /\ j + 1 \in 1 .. m
        /\ i # 1 => 1 \in 1 .. n /\ Old(i, j, 1) = 1
        /\ j # m => n \in 1 .. n /\ Old(i, j, n) = m
        /\ j = m => n = i - 1
        /\ n = 0 <=> i = 1 /\ j = m
        /\ n = 1 <=> m = (j - i + 1) + 1
        /\ n > 1 <=> m > (j - i + 1) + 1
        /\ m = 1 => n = 0
    <2>1. OldFacts(m, i, j)
      BY <1>0, OldIs
    <2>. QED BY <2>1 DEF OldFacts
  <1>5. \A k \in 1 .. n : w2[k] = w[Old(i, j, k)] /\ w2[k] \in In(w2) /\ w2[k] \in Blocks /\ In(w2) \subseteq Blocks
    BY <1>0, <1>1, <1>2 DEF In
  <1>6. ASSUME NEW k \in 1 .. n
        PROVE  /\ r.b[w2[k]].id = d.b[w2[k]].id
               /\ r.b[w2[k]].next = IF k = n THEN None ELSE w2[k + 1]
               /\ k # i - 1 => r.b[w2[k]].code = d.b[w2[k]].code
    <2>. DEFINE o == Old(i, j, k)
    <2>1. o \in 1 .. m /\ (o < i \/ j < o) /\ w2[k] = w[o] /\ (k = i - 1 <=> o = i - 1)
      BY <1>2, <1>5
    <2>. HIDE DEF o, w2
    <2>2. /\ r.b[w[o]].id = d.b[w[o]].id
          /\ r.b[w[o]].next = IF o = i - 1 THEN Follower(w, j) ELSE d.b[w[o]].next
          /\ o # i - 1 => r.b[w[o]].code = d.b[w[o]].code
      BY <2>1 DEF Shrinks
    <2>3. k = n => r.b[w[o]].next = None
      <3>1. k = n /\ k # i - 1 => o = m
        BY <1>2 DEF o
      <3>2. k = n /\ k = i - 1 => j = m
        BY <1>2
      <3>3. k = n /\ k # i - 1 => d.b[w[o]].next = None
        BY <1>0, <2>1, <3>1 DEF Links
      <3>4. j = m => Follower(w, j) = None
        BY DEF Follower
      <3>. QED BY <2>1, <2>2, <3>2, <3>3, <3>4
    <2>4. k # n => r.b[w[o]].next = w2[k + 1]
      <3>. SUFFICES ASSUME k # n PROVE r.b[w[o]].next = w2[k + 1]
        OBVIOUS
      <3>1. w2[k + 1] = w[Old(i, j, k + 1)]
        BY <1>2, <1>5
      <3>2. CASE k = i - 1
        <4>1. j # m /\ Old(i, j, k + 1) = j + 1
          BY <1>2, <3>2
        <4>. QED BY <2>1, <2>2, <3>1, <3>2, <4>1 DEF Follower
      <3>3. CASE k # i - 1
        <4>1. o # m /\ Old(i, j, k + 1) = o + 1
          BY <1>2, <3>3 DEF o
        <4>2. d.b[w[o]].next = w[o + 1]
          BY <1>0, <2>1, <4>1 DEF Links
        <4>. QED BY <2>1, <2>2, <3>1, <3>3, <4>1, <4>2
      <3>. QED BY <3>2, <3>3
    <2>. QED BY <2>1, <2>2, <2>3, <2>4
  <1>7. w2 = << >> <=> n = 0
    <2>. HIDE DEF w2, n
    <2>. QED BY <1>1, <1>2, EmptySeq
  <1>8. Links(r, w2)
    <2>1. \A h, k \in 1 .. n : h < k => r.b[w2[h]].id < r.b[w2[k]].id
      <3>. SUFFICES ASSUME NEW h \in 1 .. n, NEW k \in 1 .. n, h < k PROVE r.b[w2[h]].id < r.b[w2[k]].id
        OBVIOUS
      <3>1. d.b[w[Old(i, j, h)]].id < d.b[w[Old(i, j, k)]].id
        BY <1>0, <1>2, <1>3 DEF Links
      <3>. HIDE DEF w2
      <3>. QED BY <1>5, <1>6, <3>1
    <2>2. \A b \in Blocks \ In(w2) : r.b[b].next = None /\ r.b[b].code \in {Deleted, Free}
      <3>. SUFFICES ASSUME NEW b \in Blocks \ In(w2) PROVE r.b[b].next = None /\ r.b[b].code \in {Deleted, Free}
        OBVIOUS
      <3>1. \A k \in 1 .. Len(w) : k < i \/ j < k => b # w[k]
        BY <1>1
      <3>. QED BY <3>1 DEF Shrinks
    <2>3. r.p.first = IF w2 = << >> THEN None ELSE w2[1]
      <3>1. r.p.first = IF i = 1 THEN Follower(w, j) ELSE w[1]
        BY DEF Shrinks
      <3>2. i # 1 => n # 0 /\ w2[1] = w[1]
        <4>1. i # 1 => 1 \in 1 .. n /\ Old(i, j, 1) = 1
          BY <1>4
        <4>. HIDE DEF w2, n
        <4>. QED BY <1>2, <1>5, <4>1
      <3>3. i = 1 /\ j # m => n # 0 /\ w2[1] = w[j + 1]
        <4>1. i = 1 /\ j # m => 1 \in 1 .. n /\ Old(i, j, 1) = j + 1
          BY <1>4
        <4>. HIDE DEF w2, n
        <4>. QED BY <1>2, <1>5, <4>1
      <3>4. i = 1 /\ j = m => n = 0
        BY <1>4
      <3>. HIDE DEF w2, n
      <3>. QED BY <1>7, <3>1, <3>2, <3>3, <3>4 DEF Follower
    <2>4. r.p.last = IF w2 = << >> THEN None ELSE w2[Len(w2)]
      <3>1. r.p.last = IF j # Len(w) THEN w[Len(w)] ELSE IF i = 1 THEN None ELSE w[i - 1]
        BY DEF Shrinks
      <3>2. j # m => n # 0 /\ w2[n] = w[m]
        <4>1. j # m => n \in 1 .. n /\ Old(i, j, n) = m
          BY <1>4
        <4>. HIDE DEF w2, n
        <4>. QED BY <1>2, <1>5, <4>1
      <3>3. j = m /\ i # 1 => n # 0 /\ w2[n] = w[i - 1]
        <4>1. j = m /\ i # 1 => n = i - 1 /\ i - 1 \in 1 .. n /\ Old(i, j, i - 1) = i - 1
          BY <1>4
        <4>. HIDE DEF w2, n
        <4>. QED BY <1>2, <1>5, <4>1
      <3>4. i = 1 /\ j = m => n = 0
        BY <1>4
      <3>5. Len(w2) = n
        BY <1>1
      <3>. HIDE DEF w2, n
      <3>. QED BY <1>7, <3>1, <3>2, <3>3, <3>4, <3>5
    <2>5. \A k \in 1 .. Len(w2) : r.b[w2[k]].next = IF k = Len(w2) THEN None ELSE w2[k + 1]
      BY <1>1, <1>6
    <2>6. \A h, k \in 1 .. Len(w2) : h < k => r.b[w2[h]].id < r.b[w2[k]].id
      BY <1>1, <2>1
    <2>7. w2 \in Seq(Blocks)
      BY <1>1
    <2>. HIDE DEF w2, n
    <2>. QED BY <2>2, <2>3, <2>4, <2>5, <2>6, <2>7 DEF Links
  <1>9. Numbered(r, w2)
    <2>1. \A k \in 1 .. n : r.b[w2[k]].id = d.b[w[Old(i, j, k)]].id /\ Old(i, j, k) \in 1 .. m
      BY <1>2, <1>5, <1>6
    <2>2. r.p.lo = d.p.lo /\ r.p.hi = d.p.hi
      BY DEF Shrinks
    <2>3. Len(w2) = n
      BY <1>1
    <2>. HIDE DEF w2, n
    <2>. QED BY <1>0, <2>1, <2>2, <2>3 DEF Numbered
  <1>10. n # 0 => ~ LeftOver(d, w)
    BY <1>4 DEF LeftOver
  <1>11. r.p.usage # "switch"
    <2>1. n = 0 \/ n = 1 \/ n > 1
      <3>1. \A h \in Nat : h = 0 \/ h = 1 \/ h > 1
        OBVIOUS
      <3>. HIDE DEF n
      <3>. QED BY <1>2, <3>1
    <2>2. n = 0 => r.p.usage = "undefined"
      BY <1>4 DEF Shrinks
    <2>3. n = 1 => r.p.usage = "single"
      BY <1>4 DEF Shrinks
    <2>4. n > 1 => r.p.usage = "multiple"
      BY <1>4 DEF Shrinks
    <2>. QED BY <2>1, <2>2, <2>3, <2>4
  <1>12. ASSUME NEW k \in 1 .. n, k # i - 1 PROVE r.b[w2[k]].code = CodeOf(r, w2, k)
    <2>. DEFINE o == Old(i, j, k)
    <2>1. o \in 1 .. m /\ w2[k] = w[o]
      BY <1>2, <1>5
    <2>2. r.b[w2[k]].code = d.b[w[o]].code
      BY <1>6, <1>12, <2>1
    <2>3. d.b[w[o]].code = IF o = m THEN TrustMe ELSE RetryMe(w[o + 1])
      <3>1. n # 0
        BY <1>2
      <3>. QED BY <1>0, <1>10, <2>1, <3>1 DEF Coded, CodeOf
    <2>4. k = n => o = m
      BY <1>2, <1>12
    <2>5. k # n => o # m /\ w2[k + 1] = w[o + 1]
      BY <1>2, <1>5, <1>12
    <2>6. Len(w2) = n
      BY <1>1
    <2>. HIDE DEF o, w2, n
    <2>. QED BY <1>11, <2>2, <2>3, <2>4, <2>5, <2>6 DEF CodeOf
  <1>13. i # 1 /\ j # m => r.b[w2[i - 1]].code = CodeOf(r, w2, i - 1)
    <2>. SUFFICES ASSUME i # 1, j # m PROVE r.b[w2[i - 1]].code = CodeOf(r, w2, i - 1)
      OBVIOUS
    <2>1. i - 1 \in 1 .. n /\ Old(i, j, i - 1) = i - 1
      BY <1>4
    <2>2. r.b[w[i - 1]].code = RetryMe(w[j + 1])
      BY DEF Shrinks
    <2>3. i - 1 # n
      BY <1>2, <2>1
    <2>4. w2[i - 1] = w[i - 1] /\ w2[(i - 1) + 1] = w[j + 1]
      BY <1>2, <1>5, <2>1, <2>3
    <2>5. Len(w2) = n
      BY <1>1
    <2>. HIDE DEF w2, n
    <2>. QED BY <1>11, <2>2, <2>3, <2>4, <2>5 DEF CodeOf
  <1>14. i # 1 /\ j = m => LeftOver(r, w2) \/ r.b[w2[i - 1]].code = CodeOf(r, w2, i - 1)
    <2>. SUFFICES ASSUME i # 1, j = m PROVE LeftOver(r, w2) \/ r.b[w2[i - 1]].code = CodeOf(r, w2, i - 1)
      OBVIOUS
    <2>1. i - 1 \in 1 .. n /\ Old(i, j, i - 1) = i - 1 /\ n = i - 1
      BY <1>4
    <2>2. w2[i - 1] = w[i - 1] /\ Len(w2) = n
      BY <1>1, <1>5, <2>1
    <2>3. CASE r.b[w[i - 1]].code = TrustMe
      <3>. HIDE DEF w2, n
      <3>. QED BY <2>1, <2>2, <2>3 DEF CodeOf
    <2>4. CASE /\ i = 2 /\ r.b[w[1]].code = RetryMe(w[2])
               /\ r.b[w[2]].code = Free \/ r.b[w[2]].id = d.b[w[2]].id
      <3>1. w2[1] = w[1] /\ Len(w2) = 1 /\ n = 1 /\ 1 \in 1 .. n
        <4>. HIDE DEF w2, n
        <4>. QED BY <2>1, <2>2, <2>4
      <3>2. 2 \in 1 .. m /\ 1 \in 1 .. m
        BY <2>4
      <3>3. w[2] \notin In(w2)
        <4>1. w[2] # w[1]
          BY <1>0, <3>2, IdsApart
        <4>. HIDE DEF w2, n
        <4>. QED BY <3>1, <4>1 DEF In
      <3>4. r.b[w[1]].id = d.b[w[1]].id /\ d.b[w[1]].id < d.b[w[2]].id
        <4>1. r.b[w2[1]].id = d.b[w2[1]].id
          BY <1>6, <3>1
        <4>2. d.b[w[1]].id < d.b[w[2]].id
          BY <1>0, <3>2 DEF Links
        <4>. HIDE DEF w2, n
        <4>. QED BY <3>1, <4>1, <4>2
      <3>5. RetryMe(w[2]).op = "retry" /\ RetryMe(w[2]).to = w[2] /\ w[2] \in Blocks
        BY <1>0, <3>2, CodesApart
      <3>. HIDE DEF w2, n
      <3>6. LeftOver(r, w2)
        BY <2>4, <3>1, <3>3, <3>4, <3>5 DEF LeftOver
      <3>. QED BY <3>6
    <2>. QED BY <2>3, <2>4 DEF Shrinks
  <1>15. LeftOver(r, w2) \/ \A k \in 1 .. Len(w2) : r.b[w2[k]].code = CodeOf(r, w2, k)
    <2>1. Len(w2) = n
      BY <1>1
    <2>2. i = 1 => \A k \in 1 .. n : k # i - 1
      OBVIOUS
    <2>. HIDE DEF w2, n
    <2>. QED BY <1>12, <1>13, <1>14, <2>1, <2>2
  <1>16. Coded(r, w2)
    <2>1. /\ n = 0 => r.p.usage = "undefined" /\ r.p.entry = Empty
          /\ n = 1 => r.p.usage = "single" /\ r.p.entry = Jump(r.p.first)
          /\ n > 1 => /\ r.p.usage = "multiple" /\ r.p.entry.op = "try_me_jump"
                      /\ r.p.entry.first = r.p.first /\ r.p.entry.second \in Blocks
      BY <1>4 DEF Shrinks
    <2>2. r.p.index = << >> /\ Len(w2) = n
      BY <1>1 DEF Shrinks
    <2>. HIDE DEF w2, n
    <2>3. n # 0 => r.p.first = w2[1]
      BY <1>7, <1>8 DEF Links
    <2>4. (n = 1 => n # 0) /\ (n > 1 => n # 0)
      BY <1>2
    <2>. QED BY <1>11, <1>15, <2>1, <2>2, <2>3, <2>4 DEF Coded
  <1>. QED BY <1>8, <1>9, <1>16 DEF Chained

(* Only those fields of the procedure changed that are given. *)
Becoming(d, r, first, last, usage, entry) ==
  /\ r \in Databases /\ r.c = d.c /\ r.b = d.b
  /\ r.p.first = first /\ r.p.last = last /\ r.p.usage = usage /\ r.p.entry = entry
  /\ r.p.index = d.p.index /\ r.p.lo = d.p.lo /\ r.p.hi = d.p.hi

LEMMA InstalledIs ==
  ASSUME NEW d \in Databases, NEW e \in Entries
  PROVE  Becoming(d, InstallEntry(d, e), d.p.first, d.p.last, d.p.usage, e)
  <1>. DEFINE r == InstallEntry(d, e)
  <1>1. r \in Databases /\ r.b = d.b /\ r.c = d.c /\ r.p = [d.p EXCEPT !.entry = e, !.counting = FALSE]
    BY InstallEntryIs
  <1>. HIDE DEF r
  <1>2. d.p \in Procedures
    BY DatabaseFacts
  <1>3. r.p.index = d.p.index /\ r.p.lo = d.p.lo /\ r.p.hi = d.p.hi /\ r.p.usage = d.p.usage /\ r.p.first = d.p.first
        /\ r.p.last = d.p.last /\ r.p.entry = e
    BY <1>1, <1>2 DEF Procedures
  <1>4. Becoming(d, r, r.p.first, r.p.last, r.p.usage, r.p.entry)
    BY <1>1, <1>3 DEF Becoming
  <1>. QED BY <1>3, <1>4 DEF r

LEMMA OnlyIs ==
  ASSUME NEW d \in Databases, NEW b \in Blocks
  PROVE  Becoming(d, Only(d, b), d.p.first, d.p.last, "single", Jump(b))
  <1>. DEFINE e == InstallEntry(d, Jump(b))
              r == [e EXCEPT !.p.usage = "single"]
  <1>1. Becoming(d, e, d.p.first, d.p.last, d.p.usage, Jump(b))
    BY EntriesTyped, InstalledIs
  <1>2. r = Only(d, b)
    BY DEF Only
  <1>. HIDE DEF e
  <1>3. e \in Databases
    BY <1>1 DEF Becoming
  <1>4. r \in Databases /\ r.p = [e.p EXCEPT !.usage = "single"] /\ r.b = e.b /\ r.c = e.c
    BY <1>3, UsageIs
  <1>. HIDE DEF r
  <1>5. e.p \in Procedures
    BY <1>3, DatabaseFacts
  <1>. QED BY <1>1, <1>2, <1>4, <1>5 DEF Procedures, Becoming

LEMMA HeadOfIs ==
  ASSUME NEW d \in Databases, NEW b \in Blocks, d.b[b].next \in Blocks
  PROVE  Becoming(d, HeadOf(d, b), d.p.first, d.p.last, d.p.usage, TryMeJump(b, d.b[b].next, TRUE))
  BY EntriesTyped, InstalledIs DEF HeadOf

LEMMA EmptiedIs ==
  ASSUME NEW d \in Databases
  PROVE  Becoming(d, Emptied(d), None, None, "undefined", Empty)
  <1>. DEFINE e == InstallEntry(d, Empty)
              p == [e.p EXCEPT !.first = None, !.last = None, !.usage = "undefined"]
              r == [e EXCEPT !.p = p]
  <1>1. Becoming(d, e, d.p.first, d.p.last, d.p.usage, Empty)
    BY EntriesTyped, InstalledIs
  <1>2. e \in Databases
    BY <1>1 DEF Becoming
  <1>3. e.p \in Procedures
    BY <1>2, DatabaseFacts
  <1>4. Emptied(d) = r
    <2>1. Emptied(d) = [e EXCEPT !.p.first = None, !.p.last = None, !.p.usage = "undefined"]
      BY DEF Emptied
    <2>. HIDE DEF e
    <2>. QED BY <1>2, <2>1 DEF Databases
  <1>. HIDE DEF e
  <1>5. p \in Procedures /\ p.first = None /\ p.last = None /\ p.usage = "undefined" /\ p.entry = e.p.entry
        /\ p.index = e.p.index /\ p.lo = e.p.lo /\ p.hi = e.p.hi
    BY <1>3 DEF Procedures
  <1>. HIDE DEF p
  <1>6. r \in Databases /\ r.p = p /\ r.b = e.b /\ r.c = e.c
    BY <1>2, <1>5, ProcedureIs
  <1>. HIDE DEF r
  <1>. QED BY <1>1, <1>4, <1>5, <1>6 DEF Becoming

LEMMA FirstSet ==
  ASSUME NEW d \in Databases, NEW x \in Blocks \cup {None}
  PROVE  Becoming(d, [d EXCEPT !.p.first = x], x, d.p.last, d.p.usage, d.p.entry)
  <1>. DEFINE r == [d EXCEPT !.p.first = x]
  <1>1. r \in Databases /\ r.p = [d.p EXCEPT !.first = x] /\ r.b = d.b /\ r.c = d.c
    BY FirstIs
  <1>. HIDE DEF r
  <1>2. d.p \in Procedures
    BY DatabaseFacts
  <1>3. r.p.index = d.p.index /\ r.p.lo = d.p.lo /\ r.p.hi = d.p.hi /\ r.p.usage = d.p.usage /\ r.p.first = x
        /\ r.p.last = d.p.last /\ r.p.entry = d.p.entry
    BY <1>1, <1>2 DEF Procedures
  <1>4. Becoming(d, r, r.p.first, r.p.last, r.p.usage, r.p.entry)
    BY <1>1, <1>3 DEF Becoming
  <1>. QED BY <1>3, <1>4 DEF r

LEMMA LastSet ==
  ASSUME NEW d \in Databases, NEW x \in Blocks \cup {None}
  PROVE  Becoming(d, [d EXCEPT !.p.last = x], d.p.first, x, d.p.usage, d.p.entry)
  <1>. DEFINE r == [d EXCEPT !.p.last = x]
  <1>1. r \in Databases /\ r.p = [d.p EXCEPT !.last = x] /\ r.b = d.b /\ r.c = d.c
    BY LastIs
  <1>. HIDE DEF r
  <1>2. d.p \in Procedures
    BY DatabaseFacts
  <1>3. r.p.index = d.p.index /\ r.p.lo = d.p.lo /\ r.p.hi = d.p.hi /\ r.p.usage = d.p.usage /\ r.p.first = d.p.first
        /\ r.p.last = x /\ r.p.entry = d.p.entry
    BY <1>1, <1>2 DEF Procedures
  <1>4. Becoming(d, r, r.p.first, r.p.last, r.p.usage, r.p.entry)
    BY <1>1, <1>3 DEF Becoming
  <1>. QED BY <1>3, <1>4 DEF r

(* The blocks in gone are erased. *)
Frees(d, r, gone) ==
  /\ r \in Databases /\ r.p = d.p /\ r.c = d.c
  /\ \A b \in Blocks : /\ b \in gone => r.b[b].next = None /\ r.b[b].code = Deleted
                       /\ b \notin gone => r.b[b] = d.b[b]
                       /\ r.b[b].id = d.b[b].id

LEMMA FreeClausesIs ==
  ASSUME NEW d \in Databases, NEW gone
  PROVE  Frees(d, FreeClauses(d, gone), gone)
  <1>. DEFINE x(b) == [d.b[b] EXCEPT !.next = None, !.code = Deleted, !.key = "var"]
              f == [b \in Blocks |-> IF b \in gone THEN x(b) ELSE d.b[b]]
              r == FreeClauses(d, gone)
  <1>1. \A b \in Blocks : d.b[b] \in ClauseBlocks
    BY CodeTypes
  <1>2. \A b \in Blocks : x(b) \in ClauseBlocks /\ x(b).next = None /\ x(b).code = Deleted /\ x(b).id = d.b[b].id
    <2>. SUFFICES ASSUME NEW b \in Blocks
                  PROVE  x(b) \in ClauseBlocks /\ x(b).next = None /\ x(b).code = Deleted /\ x(b).id = d.b[b].id
      OBVIOUS
    <2>. QED BY <1>1, CodesTyped DEF ClauseBlocks, Codes, Keys
  <1>3. r = [d EXCEPT !.b = f]
    BY DEF FreeClauses
  <1>. HIDE DEF x
  <1>4. f \in [Blocks -> ClauseBlocks]
    BY <1>1, <1>2
  <1>. HIDE DEF f
  <1>5. r \in Databases /\ r.p = d.p /\ r.c = d.c /\ r.b = f
    BY <1>3, <1>4 DEF Databases
  <1>. QED BY <1>2, <1>5 DEF f, Frees

FreeBlock == [code |-> Free, next |-> None, id |-> 0, key |-> "var"]

LEMMA CollectedIs ==
  ASSUME NEW d \in Databases
  PROVE  LET r == Collected(d)
         IN  /\ r \in Databases /\ r.p = d.p /\ r.c = d.c
             /\ \A b \in Blocks : r.b[b] = IF IsDeleted(d, b) /\ b \notin Marked(d) THEN FreeBlock ELSE d.b[b]
  <1>. DEFINE f == [b \in Blocks |-> IF IsDeleted(d, b) /\ b \notin Marked(d) THEN FreeBlock ELSE d.b[b]]
              r == Collected(d)
  <1>1. \A b \in Blocks : d.b[b] \in ClauseBlocks
    BY CodeTypes
  <1>2. FreeBlock \in ClauseBlocks
    BY CodesTyped DEF ClauseBlocks, Codes, Keys, FreeBlock
  <1>3. r = [d EXCEPT !.b = f]
    BY DEF Collected, FreeBlock
  <1>4. f \in [Blocks -> ClauseBlocks]
    BY <1>1, <1>2
  <1>. HIDE DEF f
  <1>5. r \in Databases /\ r.p = d.p /\ r.c = d.c /\ r.b = f
    BY <1>3, <1>4 DEF Databases
  <1>. QED BY <1>5 DEF f

LEMMA CollectedChain ==
  ASSUME NEW d \in Databases, NEW w, Links(d, w), Coded(d, w)
  PROVE  SameChain(d, Collected(d), w) /\ Carries(d, Collected(d), {})
  <1>. DEFINE r == Collected(d)
  <1>1. /\ r \in Databases /\ r.p = d.p /\ r.c = d.c
        /\ \A b \in Blocks : r.b[b] = IF IsDeleted(d, b) /\ b \notin Marked(d) THEN FreeBlock ELSE d.b[b]
    BY CollectedIs
  <1>. HIDE DEF r
  <1>2. FreeBlock.next = None /\ FreeBlock.code = Free
    BY DEF FreeBlock
  <1>3. \A b \in In(w) : b \in Blocks /\ ~ IsDeleted(d, b)
    BY SMTT(30), CodeFacts, LinksFacts DEF In
  <1>4. SameChain(d, r, w)
    BY <1>1, <1>2, <1>3 DEF SameChain, SameProcedure
  <1>5. Carries(d, r, {})
    BY <1>1 DEF Carries
  <1>. QED BY <1>4, <1>5 DEF r

(***************************************************************************)
(* One clause is erased.                                                   *)
(***************************************************************************)
LEMMA Predecessor ==
  ASSUME NEW d \in Databases, NEW w, Links(d, w), NEW i, i \in 1 .. Len(w), i # 1
  PROVE  (CHOOSE b \in ToSet(Chain(d)) : d.b[b].next = w[i]) = w[i - 1]
  <1>1. ToSet(Chain(d)) = In(w)
    BY ChainSet
  <1>2. Len(w) \in Nat /\ i - 1 \in 1 .. Len(w) /\ i - 1 # Len(w) /\ (i - 1) + 1 = i
    BY LinksFacts
  <1>3. w[i - 1] \in In(w) /\ d.b[w[i - 1]].next = w[i]
    BY <1>2, LinksFacts DEF Links
  <1>4. ASSUME NEW b \in In(w), d.b[b].next = w[i] PROVE b = w[i - 1]
    <2>1. PICK k \in 1 .. Len(w) : b = w[k]
      BY DEF In
    <2>2. k # Len(w) /\ w[k + 1] = w[i]
      BY <1>4, <2>1, LinksFacts DEF Links
    <2>3. k + 1 \in 1 .. Len(w)
      BY <1>2, <2>2
    <2>4. k + 1 = i
      BY <2>2, <2>3, IdsApart
    <2>5. k = i - 1
      BY <1>2, <2>4
    <2>. QED BY <2>1, <2>5
  <1>. QED BY <1>1, <1>3, <1>4

Unlinks(d, u, w, i) ==
  /\ u \in Databases /\ u.c = d.c
  /\ \A b \in Blocks : i = 1 \/ b # w[i - 1] => u.b[b] = d.b[b]
  /\ i # 1 => /\ u.b[w[i - 1]].next = Follower(w, i) /\ u.b[w[i - 1]].id = d.b[w[i - 1]].id
              /\ u.b[w[i - 1]].code = IF i = Len(w) THEN TrustMe ELSE RetryMe(w[i + 1])
  /\ u.p.first = IF i = 1 THEN Follower(w, i) ELSE w[1]
  /\ u.p.last = IF i # Len(w) THEN w[Len(w)] ELSE IF i = 1 THEN None ELSE w[i - 1]
  /\ u.p.index = << >> /\ u.p.lo = d.p.lo /\ u.p.hi = d.p.hi
  /\ Len(w) = 1 => u.p.usage = "undefined" /\ u.p.entry = Empty
  /\ Len(w) = 2 => u.p.usage = "single" /\ u.p.entry = Jump(u.p.first)
  /\ Len(w) > 2 => /\ u.p.usage = "multiple" /\ u.p.entry.op = "try_me_jump"
                   /\ u.p.entry.first = u.p.first /\ u.p.entry.second \in Blocks

LEMMA UnlinkedIs ==
  ASSUME NEW d \in Databases, NEW w, Links(d, w), Coded(d, w), d.p.usage # "switch",
         NEW i, i \in 1 .. Len(w)
  PROVE  Unlinks(d, Unlinked(d, w[i]), w, i)
  <1>. DEFINE m == Len(w)
              a == w[i]
              p == CHOOSE b \in ToSet(Chain(d)) : d.b[b].next = a
              q == d.b[a].next
              cut == [d EXCEPT !.b[p].next = q]
              u == Unlinked(d, a)
  <1>0. /\ m \in Nat /\ None \notin Blocks /\ w # << >> /\ \A k \in 1 .. m : w[k] \in Blocks
        /\ d.p.first = w[1] /\ d.p.last = w[m] /\ 1 \in 1 .. m /\ m \in 1 .. m
    <2>1. m \in Nat /\ None \notin Blocks /\ \A k \in 1 .. m : w[k] \in Blocks
      BY LinksFacts
    <2>2. w # << >>
      BY <2>1, EmptySeq
    <2>. QED BY <2>1, <2>2, EndsOf
  <1>1. /\ q = Follower(w, i) /\ (q = None <=> i = m) /\ (a = w[1] <=> i = 1)
        /\ i # m => q = w[i + 1] /\ i + 1 \in 1 .. m /\ q \in Blocks
    <2>1. i # m => i + 1 \in 1 .. m
      BY <1>0
    <2>2. q = IF i = m THEN None ELSE w[i + 1]
      BY DEF Links
    <2>3. a = w[1] <=> i = 1
      BY <1>0, IdsApart
    <2>. QED BY <1>0, <2>1, <2>2, <2>3 DEF Follower
  <1>2. i # 1 => p = w[i - 1] /\ i - 1 \in 1 .. m /\ p \in Blocks
    <2>1. i # 1 => p = w[i - 1]
      BY Predecessor
    <2>2. i # 1 => i - 1 \in 1 .. m
      BY <1>0
    <2>. QED BY <1>0, <2>1, <2>2
  <1>3. /\ d.p.index = << >>
        /\ m > 1 => d.p.usage = "multiple" /\ d.p.entry.op = "try_me_jump" /\ d.p.entry.first = w[1] /\ d.p.entry.second \in Blocks
    BY UsageOf
  <1>4. u = CASE a = d.p.first /\ q = None -> Emptied(d)
              [] a = d.p.first /\ q # None ->
                   LET d1 == [d EXCEPT !.p.first = q]
                   IN  IF d.b[q].next = None THEN Only(d1, q) ELSE HeadOf(d1, q)
              [] a # d.p.first /\ q = None ->
                   LET d1 == [InstallChoice(cut, p, TrustMe) EXCEPT !.p.last = p]
                   IN  IF p = d.p.first THEN Only(d1, p) ELSE d1
              [] OTHER ->
                   LET d1 == InstallChoice(cut, p, RetryMe(q))
                   IN  IF p = d.p.first THEN HeadOf(d1, p) ELSE d1
    BY DEF Unlinked
  <1>. HIDE DEF u, p, q
  <1>5. CASE i = 1 /\ i = m
    <2>1. u = Emptied(d)
      BY <1>0, <1>1, <1>4, <1>5
    <2>2. Becoming(d, u, None, None, "undefined", Empty)
      BY <2>1, EmptiedIs
    <2>3. m = 1 /\ ~ (m > 2) /\ m # 2
      <3>1. \A h \in Nat : h = 1 => ~ (h > 2) /\ h # 2
        OBVIOUS
      <3>2. m = 1
        BY <1>5
      <3>. HIDE DEF m
      <3>. QED BY <1>0, <3>1, <3>2
    <2>. QED BY <1>1, <1>3, <1>5, <2>2, <2>3 DEF Unlinks, Becoming, u
  <1>6. CASE i = 1 /\ i # m
    <2>. DEFINE d1 == [d EXCEPT !.p.first = q]
    <2>1. u = IF d.b[q].next = None THEN Only(d1, q) ELSE HeadOf(d1, q)
      BY <1>0, <1>1, <1>4, <1>6
    <2>2. Becoming(d, d1, q, d.p.last, d.p.usage, d.p.entry)
      BY <1>1, <1>6, FirstSet
    <2>. HIDE DEF d1
    <2>3. q = w[2] /\ q \in Blocks /\ 2 \in 1 .. m /\ m > 1
      BY <1>0, <1>1, <1>6
    <2>4. d.b[q].next = IF m = 2 THEN None ELSE w[3]
      <3>1. d.b[w[2]].next = IF 2 = m THEN None ELSE w[2 + 1]
        BY <2>3 DEF Links
      <3>2. 2 + 1 = 3
        OBVIOUS
      <3>. QED BY <2>3, <3>1, <3>2
    <2>5. m # 2 => 3 \in 1 .. m /\ w[3] \in Blocks /\ m > 2
      <3>1. m # 2 => 3 \in 1 .. m /\ m > 2
        <4>. HIDE DEF m
        <4>. QED BY <1>0, <2>3
      <3>. QED BY <1>0, <3>1
    <2>6. d1 \in Databases /\ d1.b = d.b
      BY <2>2 DEF Becoming
    <2>7. CASE m = 2
      <3>1. u = Only(d1, q)
        BY <2>1, <2>4, <2>7
      <3>2. Becoming(d1, u, d1.p.first, d1.p.last, "single", Jump(q))
        BY <2>3, <2>6, <3>1, OnlyIs
      <3>3. ~ (m > 2) /\ m # 1
        BY <2>7
      <3>. QED BY <1>0, <1>1, <1>3, <1>6, <2>2, <2>7, <3>2, <3>3 DEF Unlinks, Becoming, u
    <2>8. CASE m # 2
      <3>1. u = HeadOf(d1, q) /\ d1.b[q].next = w[3]
        BY <1>0, <2>1, <2>4, <2>5, <2>6, <2>8
      <3>2. Becoming(d1, u, d1.p.first, d1.p.last, d1.p.usage, TryMeJump(q, w[3], TRUE))
        BY <2>3, <2>5, <2>6, <2>8, <3>1, HeadOfIs
      <3>3. TryMeJump(q, w[3], TRUE).op = "try_me_jump" /\ TryMeJump(q, w[3], TRUE).first = q /\ TryMeJump(q, w[3], TRUE).second = w[3]
        BY DEF TryMeJump, Empty
      <3>4. m # 1 /\ m # 2
        BY <2>3, <2>8
      <3>. HIDE DEF m
      <3>. QED BY <1>0, <1>1, <1>3, <1>6, <2>2, <2>3, <2>5, <2>8, <3>2, <3>3, <3>4 DEF Unlinks, Becoming, u, m
    <2>. QED BY <2>7, <2>8
  <1>7. CASE i # 1
    <2>. DEFINE code == IF i = m THEN TrustMe ELSE RetryMe(q)
                d1 == InstallChoice(cut, p, code)
                d2 == IF i = m THEN [d1 EXCEPT !.p.last = p] ELSE d1
    <2>1. p = w[i - 1] /\ i - 1 \in 1 .. m /\ p \in Blocks /\ q \in Blocks \cup {None}
      BY <1>0, <1>1, <1>2, <1>7 DEF q
    <2>2. Rewritten(d, cut, p, [d.b[p] EXCEPT !.next = q])
      BY <2>1, NextIs
    <2>3. code \in Codes
      BY <1>1, CodesTyped
    <2>4. u = IF i = m THEN IF p = w[1] THEN Only(d2, p) ELSE d2
              ELSE IF p = w[1] THEN HeadOf(d2, p) ELSE d2
      <3>1. a # d.p.first /\ (q = None <=> i = m)
        BY <1>0, <1>1, <1>7
      <3>. HIDE DEF cut
      <3>2. CASE i = m
        BY <1>0, <1>4, <3>1, <3>2
      <3>3. CASE i # m
        BY <1>0, <1>4, <3>1, <3>3
      <3>. QED BY <3>2, <3>3
    <2>. HIDE DEF cut, code
    <2>5. cut \in Databases
      BY <2>2 DEF Rewritten
    <2>6. Rewritten(cut, d1, p, [cut.b[p] EXCEPT !.code = code])
      BY <2>1, <2>3, <2>5, InstallChoiceIs
    <2>. HIDE DEF d1
    <2>7. d1 \in Databases /\ d1.p = d.p /\ d1.c = d.c
      BY <2>2, <2>6 DEF Rewritten
    <2>8. \A b \in Blocks : b # p => d1.b[b] = d.b[b]
      BY <2>2, <2>6 DEF Rewritten
    <2>9. d1.b[p].next = q /\ d1.b[p].code = code /\ d1.b[p].id = d.b[p].id
      <3>1. d.b[p] \in ClauseBlocks /\ cut.b[p] \in ClauseBlocks /\ cut.b[p] = [d.b[p] EXCEPT !.next = q]
        BY <2>1, <2>2, <2>5, CodeTypes DEF Rewritten
      <3>2. cut.b[p].next = q /\ cut.b[p].id = d.b[p].id
        BY <3>1 DEF ClauseBlocks
      <3>3. d1.b[p] = [cut.b[p] EXCEPT !.code = code]
        BY <2>6 DEF Rewritten
      <3>. QED BY <3>1, <3>2, <3>3 DEF ClauseBlocks
    <2>10. Becoming(d1, d2, w[1], IF i = m THEN p ELSE w[m], "multiple", d.p.entry) /\ m > 1
      <3>1. m > 1
        BY <1>0, <1>7
      <3>2. CASE i = m
        <4>1. Becoming(d1, d2, d1.p.first, p, d1.p.usage, d1.p.entry)
          BY <2>1, <2>7, <3>2, LastSet
        <4>. QED BY <1>0, <1>3, <2>7, <3>1, <3>2, <4>1
      <3>3. CASE i # m
        <4>1. d2 = d1
          BY <3>3
        <4>. QED BY <1>0, <1>3, <2>7, <3>1, <3>3, <4>1 DEF Becoming
      <3>. QED BY <3>1, <3>2, <3>3
    <2>. HIDE DEF d2
    <2>11. /\ d2 \in Databases /\ d2.b = d1.b /\ d2.c = d.c
           /\ d2.p.first = w[1] /\ d2.p.last = (IF i = m THEN p ELSE w[m]) /\ d2.p.usage = "multiple" /\ d2.p.entry = d.p.entry
           /\ d2.p.index = << >> /\ d2.p.lo = d.p.lo /\ d2.p.hi = d.p.hi
      BY <1>3, <2>7, <2>10 DEF Becoming
    <2>12. p = w[1] <=> i = 2
      <3>1. p = w[1] <=> i - 1 = 1
        BY <1>0, <2>1, IdsApart
      <3>2. i - 1 = 1 <=> i = 2
        BY <1>0
      <3>. QED BY <3>1, <3>2
    <2>13. code = IF i = m THEN TrustMe ELSE RetryMe(w[i + 1])
      BY <1>1 DEF code
    <2>. DEFINE done == /\ u \in Databases /\ u.b = d2.b /\ u.c = d2.c
                        /\ u.p.first = d2.p.first /\ u.p.last = d2.p.last
                        /\ u.p.index = d2.p.index /\ u.p.lo = d2.p.lo /\ u.p.hi = d2.p.hi
                        /\ m = 2 => u.p.usage = "single" /\ u.p.entry = Jump(w[1])
                        /\ m > 2 => /\ u.p.usage = "multiple" /\ u.p.entry.op = "try_me_jump"
                                    /\ u.p.entry.first = w[1] /\ u.p.entry.second \in Blocks
    <2>20. (m > 2 => m # 2) /\ (m = 2 => ~ (m > 2)) /\ m # 1
      <3>1. \A h \in Nat : (h > 2 => h # 2) /\ (h = 2 => ~ (h > 2)) /\ (h > 1 => h # 1)
        OBVIOUS
      <3>. HIDE DEF m
      <3>. QED BY <1>0, <2>10, <3>1
    <2>14. ASSUME done PROVE Unlinks(d, u, w, i)
      <3>1. u \in Databases /\ u.c = d.c /\ u.b = d1.b
        BY <2>11, <2>14
      <3>2. u.p.first = w[1] /\ u.p.last = (IF i # m THEN w[m] ELSE w[i - 1]) /\ u.p.index = << >> /\ u.p.lo = d.p.lo /\ u.p.hi = d.p.hi
        BY <2>1, <2>11, <2>14
      <3>5. m = 2 => u.p.usage = "single" /\ u.p.entry = Jump(w[1])
        BY <2>14
      <3>6. m > 2 => u.p.usage = "multiple" /\ u.p.entry.op = "try_me_jump" /\ u.p.entry.first = w[1] /\ u.p.entry.second \in Blocks
        BY <2>14
      <3>7. /\ \A b \in Blocks : b # w[i - 1] => u.b[b] = d.b[b]
            /\ u.b[w[i - 1]].next = q /\ u.b[w[i - 1]].code = code /\ u.b[w[i - 1]].id = d.b[w[i - 1]].id
        BY <2>1, <2>8, <2>9, <3>1
      <3>. HIDE DEF m
      <3>. QED BY <1>1, <1>7, <2>13, <2>20, <3>1, <3>2, <3>5, <3>6, <3>7 DEF Unlinks, m
    <2>15. CASE i = 2 /\ i = m
      <3>1. Becoming(d2, u, d2.p.first, d2.p.last, "single", Jump(p))
        BY <2>1, <2>4, <2>11, <2>12, <2>15, OnlyIs
      <3>2. m = 2 /\ p = w[1]
        BY <2>12, <2>15
      <3>3. done
        <4>. HIDE DEF m
        <4>. QED BY <2>20, <3>1, <3>2 DEF Becoming
      <3>. QED BY <2>14, <3>3 DEF u
    <2>16. CASE i = 2 /\ i # m
      <3>1. u = HeadOf(d2, p) /\ d2.b[p].next = q /\ q \in Blocks /\ d2.b[p].next \in Blocks
        BY <1>1, <2>4, <2>9, <2>11, <2>12, <2>16
      <3>2. Becoming(d2, u, d2.p.first, d2.p.last, d2.p.usage, TryMeJump(p, q, TRUE))
        BY <2>1, <2>11, <3>1, HeadOfIs
      <3>3. TryMeJump(p, q, TRUE).op = "try_me_jump" /\ TryMeJump(p, q, TRUE).first = p /\ TryMeJump(p, q, TRUE).second = q
        BY DEF TryMeJump, Empty
      <3>4. m # 2 /\ p = w[1] /\ d2.p.usage = "multiple"
        BY <2>11, <2>12, <2>16
      <3>5. done
        <4>. HIDE DEF m
        <4>. QED BY <3>1, <3>2, <3>3, <3>4 DEF Becoming
      <3>. QED BY <2>14, <3>5 DEF u
    <2>17. CASE i # 2
      <3>1. u = d2
        BY <2>4, <2>12, <2>17
      <3>2. m # 2
        BY <1>0, <1>7, <2>17
      <3>3. done
        <4>1. d.p.entry.op = "try_me_jump" /\ d.p.entry.first = w[1] /\ d.p.entry.second \in Blocks
          BY <1>3, <2>10
        <4>. HIDE DEF m
        <4>. QED BY <2>11, <3>1, <3>2, <4>1
      <3>. QED BY <2>14, <3>3 DEF u
    <2>. QED BY <2>15, <2>16, <2>17
  <1>. QED BY <1>5, <1>6, <1>7

ErasedFrom(d, a) == FreeClauses(Unlinked(d, a), {a})

LEMMA ErasedIs ==
  ASSUME NEW d \in Databases, NEW w, Links(d, w), Coded(d, w), d.p.usage # "switch",
         NEW i, i \in 1 .. Len(w), NEW r, r = ErasedFrom(d, w[i])
  PROVE  /\ Shrinks(d, r, w, i, i) /\ r.c = d.c
         /\ \A b \in Blocks : r.b[b].id = d.b[b].id /\ (d.b[b].code # Free => r.b[b].code # Free)
  <1>. DEFINE m == Len(w)
              a == w[i]
              u == Unlinked(d, a)
  <1>0. m \in Nat /\ a \in Blocks /\ i \in i .. m /\ \A k \in 1 .. m : w[k] \in Blocks
    BY LinksFacts
  <1>1. Unlinks(d, u, w, i)
    BY UnlinkedIs
  <1>2. r = FreeClauses(u, {a})
    BY DEF ErasedFrom
  <1>. HIDE DEF u
  <1>3. /\ r \in Databases /\ r.p = u.p /\ r.c = u.c /\ u.c = d.c
        /\ r.b[a].next = None /\ r.b[a].code = Deleted /\ r.b[a].id = u.b[a].id
        /\ \A b \in Blocks : b # a => r.b[b] = u.b[b]
    <2>1. u \in Databases /\ u.c = d.c
      BY <1>1 DEF Unlinks
    <2>2. Frees(u, r, {a})
      BY <1>2, <2>1, FreeClausesIs
    <2>3. \A b : b \in {a} <=> b = a
      OBVIOUS
    <2>. QED BY <1>0, <2>1, <2>2, <2>3 DEF Frees
  <1>4. \A k \in 1 .. m : k < i \/ i < k => w[k] # a
    <2>1. \A k \in 1 .. m : w[k] = a => k = i
      BY IdsApart
    <2>. QED BY <1>0, <2>1
  <1>5. i # 1 => i - 1 \in 1 .. m /\ w[i - 1] # a
    <2>1. i # 1 => i - 1 \in 1 .. m /\ i - 1 < i
      BY <1>0
    <2>. QED BY <1>4, <2>1
  <1>6. \A k \in 1 .. m : k # i - 1 => i = 1 \/ w[k] # w[i - 1]
    BY <1>5, IdsApart
  <1>7. \A k \in 1 .. m : k < i \/ i < k =>
           /\ r.b[w[k]].id = d.b[w[k]].id
           /\ r.b[w[k]].next = IF k = i - 1 THEN Follower(w, i) ELSE d.b[w[k]].next
           /\ k # i - 1 => r.b[w[k]].code = d.b[w[k]].code
    <2>. SUFFICES ASSUME NEW k \in 1 .. m, k < i \/ i < k
                  PROVE  /\ r.b[w[k]].id = d.b[w[k]].id
                         /\ r.b[w[k]].next = IF k = i - 1 THEN Follower(w, i) ELSE d.b[w[k]].next
                         /\ k # i - 1 => r.b[w[k]].code = d.b[w[k]].code
      OBVIOUS
    <2>1. r.b[w[k]] = u.b[w[k]] /\ w[k] \in Blocks
      BY <1>0, <1>3, <1>4
    <2>2. CASE k = i - 1
      <3>1. i # 1
        BY <2>2
      <3>. QED BY <1>1, <2>1, <2>2, <3>1 DEF Unlinks
    <2>3. CASE k # i - 1
      BY <1>1, <1>6, <2>1, <2>3 DEF Unlinks
    <2>. QED BY <2>2, <2>3
  <1>8. i # 1 => r.b[w[i - 1]].code = IF i = m THEN TrustMe ELSE RetryMe(w[i + 1])
    BY <1>0, <1>1, <1>3, <1>5 DEF Unlinks
  <1>9. \A b \in Blocks : (\A k \in 1 .. m : k < i \/ i < k => b # w[k]) => r.b[b].next = None /\ r.b[b].code \in {Deleted, Free}
    <2>. SUFFICES ASSUME NEW b \in Blocks, \A k \in 1 .. m : k < i \/ i < k => b # w[k]
                  PROVE  r.b[b].next = None /\ r.b[b].code \in {Deleted, Free}
      OBVIOUS
    <2>1. CASE b = a
      BY <1>3, <2>1
    <2>2. CASE b # a
      <3>1. \A k \in 1 .. m : b # w[k]
        <4>1. \A k \in 1 .. m : k < i \/ i < k \/ k = i
          BY <1>0
        <4>. QED BY <2>2, <4>1
      <3>2. i = 1 \/ b # w[i - 1]
        BY <1>5, <3>1
      <3>3. r.b[b] = d.b[b]
        BY <1>1, <1>3, <2>2, <3>2 DEF Unlinks
      <3>4. b \in Blocks \ In(w)
        BY <3>1 DEF In
      <3>. QED BY <3>3, <3>4 DEF Links
    <2>. QED BY <2>1, <2>2
  <1>10. \A b \in Blocks : r.b[b].id = d.b[b].id /\ (d.b[b].code # Free => r.b[b].code # Free)
    <2>. SUFFICES ASSUME NEW b \in Blocks
                  PROVE  r.b[b].id = d.b[b].id /\ (d.b[b].code # Free => r.b[b].code # Free)
      OBVIOUS
    <2>1. CASE b = a
      <3>1. u.b[a].id = d.b[a].id
        BY <1>0, <1>1, <1>5 DEF Unlinks
      <3>. QED BY <1>3, <2>1, <3>1, CodesApart
    <2>2. CASE i # 1 /\ b = w[i - 1]
      <3>1. r.b[b] = u.b[b] /\ u.b[b].id = d.b[b].id
        BY <1>1, <1>3, <1>5, <2>2 DEF Unlinks
      <3>2. r.b[b].code # Free
        BY <1>8, <2>2, CodesApart
      <3>. QED BY <3>1, <3>2
    <2>3. CASE b # a /\ ~ (i # 1 /\ b = w[i - 1])
      BY <1>1, <1>3, <2>3 DEF Unlinks
    <2>. QED BY <2>1, <2>2, <2>3
  <1>11. /\ (m = (i - i + 1) + 1 <=> m = 2) /\ (m > (i - i + 1) + 1 <=> m > 2)
         /\ (i = 1 /\ i = m => m = 1)
    <2>1. i - i + 1 = 1
      BY <1>0
    <2>2. i - i + 1 + 1 = 2
      BY <2>1
    <2>. QED BY <2>2
  <1>12. Shrinks(d, r, w, i, i)
    <2>1. /\ r.p.first = IF i = 1 THEN Follower(w, i) ELSE w[1]
          /\ r.p.last = IF i # m THEN w[m] ELSE IF i = 1 THEN None ELSE w[i - 1]
          /\ r.p.index = << >> /\ r.p.lo = d.p.lo /\ r.p.hi = d.p.hi
      BY <1>1, <1>3 DEF Unlinks
    <2>2. /\ i = 1 /\ i = m => r.p.usage = "undefined" /\ r.p.entry = Empty
          /\ m = (i - i + 1) + 1 => r.p.usage = "single" /\ r.p.entry = Jump(r.p.first)
          /\ m > (i - i + 1) + 1 => /\ r.p.usage = "multiple" /\ r.p.entry.op = "try_me_jump"
                                    /\ r.p.entry.first = r.p.first /\ r.p.entry.second \in Blocks
      BY <1>1, <1>3, <1>11 DEF Unlinks
    <2>3. r \in Databases
      BY <1>3
    <2>. QED BY <1>7, <1>8, <1>9, <2>1, <2>2, <2>3 DEF Shrinks
  <1>. QED BY <1>3, <1>10, <1>12

(***************************************************************************)
(* Several are abolished.                                                  *)
(***************************************************************************)
Between(w, i, j) == {w[k] : k \in i .. j}

PlacesAt(d, w, i, j) == {k \in DOMAIN Chain(d) : Chain(d)[k] \in Between(w, i, j)}

LEMMA PlacesOf ==
  ASSUME NEW d \in Databases, NEW w, Links(d, w), NEW i, i \in 1 .. Len(w), NEW j, j \in i .. Len(w)
  PROVE  PlacesAt(d, w, i, j) = i .. j /\ Min(PlacesAt(d, w, i, j)) = i /\ Max(PlacesAt(d, w, i, j)) = j
  <1>. DEFINE at == PlacesAt(d, w, i, j)
  <1>0. Len(w) \in Nat /\ Chain(d) = w /\ DOMAIN w = 1 .. Len(w)
    BY ChainIs, LinksFacts
  <1>1. \A k \in 1 .. Len(w) : w[k] \in Between(w, i, j) <=> k \in i .. j
    <2>. SUFFICES ASSUME NEW k \in 1 .. Len(w), w[k] \in Between(w, i, j) PROVE k \in i .. j
      BY DEF Between
    <2>1. PICK h \in i .. j : w[k] = w[h]
      BY DEF Between
    <2>2. h \in 1 .. Len(w)
      BY <1>0
    <2>. QED BY <2>1, <2>2, IdsApart
  <1>2. at = i .. j
    <2>1. i .. j \subseteq 1 .. Len(w)
      BY <1>0
    <2>. QED BY <1>0, <1>1, <2>1 DEF PlacesAt
  <1>. HIDE DEF at
  <1>3. at \subseteq Nat /\ at \subseteq 0 .. Len(w) /\ at # {} /\ i \in at /\ j \in at
    <2>1. i \in i .. j /\ j \in i .. j
      BY <1>0
    <2>2. \A k \in i .. j : k \in Nat /\ k \in 0 .. Len(w)
      BY <1>0
    <2>. QED BY <1>2, <2>1, <2>2
  <1>4. Min(at) \in at /\ Min(at) <= i
    BY <1>3, MinOf
  <1>5. Max(at) \in at /\ j <= Max(at)
    BY <1>0, <1>3, MaxOf
  <1>6. Min(at) = i /\ Max(at) = j
    BY <1>0, <1>2, <1>4, <1>5
  <1>. QED BY <1>2, <1>6 DEF at

(* The blocks of gone are erased, some of them and some erased before are  *)
(* collected.                                                              *)
Sweeps(d, r, w, gone) ==
  /\ r \in Databases /\ r.p = d.p /\ r.c = d.c
  /\ \A b \in In(w) \ gone : r.b[b] = d.b[b]
  /\ \A b \in Blocks : b \in gone \/ b \notin In(w) =>
       r.b[b].next = None /\ r.b[b].code \in {Deleted, Free} /\ (r.b[b].code = Free \/ r.b[b].id = d.b[b].id)
  /\ \A b \in Blocks \cap Marked(d) :
       d.b[b].code # Free => r.b[b].code # Free /\ r.b[b].id = d.b[b].id

(* What is marked stays marked. *)
LEMMA MarkedOn ==
  ASSUME NEW d, NEW r, DOMAIN r.c = DOMAIN d.c, \A k \in DOMAIN d.c : r.c[k].next = d.c[k].next,
         NEW b \in Blocks, b \in Marked(d), d.b[b].code # Free => r.b[b].code # Free /\ r.b[b].id = d.b[b].id
  PROVE  b \in Marked(r)
  BY DEF Marked, ReferenceGood

LEMMA SweptIs ==
  ASSUME NEW d \in Databases, NEW w, Links(d, w), Coded(d, w), NEW gone, gone \subseteq In(w),
         NEW sooner, sooner \subseteq gone, NEW swept, NEW r, r = FreeClauses(swept, gone \ sooner),
         \/ swept = d /\ sooner = {}
         \/ swept = Collected(FreeClauses(d, sooner))
  PROVE  Sweeps(d, r, w, gone)
  <1>. DEFINE f == FreeClauses(d, sooner)
              c == Collected(f)
  <1>0. /\ In(w) \subseteq Blocks /\ Deleted # Free /\ None \notin Blocks
        /\ \A b \in In(w) : ~ IsDeleted(d, b) /\ d.b[b].code # Free
        /\ \A b \in Blocks \ In(w) : d.b[b].next = None /\ d.b[b].code \in {Deleted, Free}
    <2>1. In(w) \subseteq Blocks /\ None \notin Blocks
      BY LinksFacts
    <2>2. \A b \in In(w) : ~ IsDeleted(d, b) /\ d.b[b].code # Free
      BY SMTT(30), CodeFacts DEF In
    <2>3. \A b \in Blocks \ In(w) : d.b[b].next = None /\ d.b[b].code \in {Deleted, Free}
      BY DEF Links
    <2>. QED BY <2>1, <2>2, <2>3, CodesApart
  <1>1. Frees(d, f, sooner)
    BY FreeClausesIs
  <1>. HIDE DEF f
  <1>2. f \in Databases /\ f.c = d.c /\ f.p = d.p
    BY <1>1 DEF Frees
  <1>3. /\ c \in Databases /\ c.p = f.p /\ c.c = f.c
        /\ \A b \in Blocks : c.b[b] = IF IsDeleted(f, b) /\ b \notin Marked(f) THEN FreeBlock ELSE f.b[b]
    BY <1>2, CollectedIs
  <1>4. ASSUME NEW b \in Blocks, b \in Marked(d), d.b[b].code # Free
        PROVE  f.b[b].code # Free /\ f.b[b].id = d.b[b].id /\ b \in Marked(f)
    <2>1. f.b[b].code # Free /\ f.b[b].id = d.b[b].id
      BY <1>0, <1>1, <1>4 DEF Frees
    <2>2. b \in Marked(f)
      BY <1>2, <1>4, <2>1, MarkedOn
    <2>. QED BY <2>1, <2>2
  <1>. HIDE DEF c
  <1>5. FreeBlock.next = None /\ FreeBlock.code = Free
    BY DEF FreeBlock
  <1>6. /\ swept \in Databases /\ swept.p = d.p /\ swept.c = d.c
        /\ \A b \in In(w) \ sooner : swept.b[b] = d.b[b]
        /\ \A b \in Blocks : b \in sooner \/ b \notin In(w) =>
             swept.b[b].next = None /\ swept.b[b].code \in {Deleted, Free} /\ (swept.b[b].code = Free \/ swept.b[b].id = d.b[b].id)
        /\ \A b \in Blocks \cap Marked(d) :
             d.b[b].code # Free => swept.b[b].code # Free /\ swept.b[b].id = d.b[b].id
    <2>1. CASE swept = d /\ sooner = {}
      BY <1>0, <2>1
    <2>2. CASE swept = c
      <3>1. swept \in Databases /\ swept.p = d.p /\ swept.c = d.c
        BY <1>2, <1>3, <2>2
      <3>2. \A b \in In(w) \ sooner : swept.b[b] = d.b[b]
        <4>. SUFFICES ASSUME NEW b \in In(w) \ sooner PROVE swept.b[b] = d.b[b]
          OBVIOUS
        <4>1. b \in Blocks /\ f.b[b] = d.b[b] /\ ~ IsDeleted(d, b)
          BY <1>0, <1>1 DEF Frees
        <4>2. ~ IsDeleted(f, b)
          BY <4>1 DEF IsDeleted
        <4>. QED BY <1>3, <2>2, <4>1, <4>2
      <3>3. ASSUME NEW b \in Blocks, b \in sooner \/ b \notin In(w)
            PROVE  f.b[b].next = None /\ f.b[b].code \in {Deleted, Free} /\ f.b[b].id = d.b[b].id
        BY <1>0, <1>1, <3>3 DEF Frees
      <3>4. ASSUME NEW b \in Blocks, b \in sooner \/ b \notin In(w)
            PROVE  swept.b[b].next = None /\ swept.b[b].code \in {Deleted, Free} /\ (swept.b[b].code = Free \/ swept.b[b].id = d.b[b].id)
        <4>1. swept.b[b] = FreeBlock \/ swept.b[b] = f.b[b]
          BY <1>3, <2>2
        <4>. QED BY <1>5, <3>3, <3>4, <4>1
      <3>5. ASSUME NEW b \in Blocks \cap Marked(d), d.b[b].code # Free
            PROVE  swept.b[b].code # Free /\ swept.b[b].id = d.b[b].id
        <4>1. f.b[b].code # Free /\ f.b[b].id = d.b[b].id /\ b \in Marked(f)
          BY <1>4, <3>5
        <4>2. swept.b[b] = f.b[b]
          BY <1>3, <2>2, <4>1
        <4>. QED BY <4>1, <4>2
      <3>. QED BY <3>1, <3>2, <3>4, <3>5
    <2>. QED BY <2>1, <2>2 DEF c, f
  <1>7. Frees(swept, r, gone \ sooner)
    BY <1>6, FreeClausesIs
  <1>8. r \in Databases /\ r.p = d.p /\ r.c = d.c
    BY <1>6, <1>7 DEF Frees
  <1>9. \A b \in In(w) \ gone : r.b[b] = d.b[b]
    BY <1>0, <1>6, <1>7 DEF Frees
  <1>10. ASSUME NEW b \in Blocks, b \in gone \/ b \notin In(w)
         PROVE  r.b[b].next = None /\ r.b[b].code \in {Deleted, Free} /\ (r.b[b].code = Free \/ r.b[b].id = d.b[b].id)
    <2>1. CASE b \in gone \ sooner
      <3>1. r.b[b].next = None /\ r.b[b].code = Deleted /\ r.b[b].id = swept.b[b].id
        BY <1>7, <2>1 DEF Frees
      <3>2. swept.b[b] = d.b[b]
        BY <1>6, <2>1
      <3>. QED BY <3>1, <3>2
    <2>2. CASE b \notin gone \ sooner
      <3>1. r.b[b] = swept.b[b]
        BY <1>7, <2>2 DEF Frees
      <3>2. b \in sooner \/ b \notin In(w)
        BY <1>10, <2>2
      <3>. QED BY <1>6, <3>1, <3>2
    <2>. QED BY <2>1, <2>2
  <1>11. ASSUME NEW b \in Blocks \cap Marked(d), d.b[b].code # Free
         PROVE  r.b[b].code # Free /\ r.b[b].id = d.b[b].id
    <2>1. swept.b[b].code # Free /\ swept.b[b].id = d.b[b].id
      BY <1>6, <1>11
    <2>2. r.b[b].id = swept.b[b].id /\ (r.b[b].code = Deleted \/ r.b[b] = swept.b[b])
      BY <1>7 DEF Frees
    <2>. QED BY <1>0, <2>1, <2>2
  <1>. QED BY <1>8, <1>9, <1>10, <1>11 DEF Sweeps

LEMMA AbolishedIs ==
  ASSUME NEW d \in Databases, NEW w, Links(d, w), Coded(d, w), d.p.usage # "switch",
         NEW i, i \in 1 .. Len(w), NEW j, j \in i .. Len(w), NEW collect,
         NEW r, r = Abolished(d, Between(w, i, j), collect)
  PROVE  /\ Shrinks(d, r, w, i, j) /\ r.c = d.c
         /\ \A b \in Blocks \cap Marked(d) :
              d.b[b].code # Free => r.b[b].code # Free /\ r.b[b].id = d.b[b].id
  <1>. DEFINE m == Len(w)
              gone == Between(w, i, j)
              chain == Chain(d)
              at == {k \in DOMAIN chain : chain[k] \in gone}
              eb1 == IF Min(at) = 1 THEN None ELSE chain[Min(at) - 1]
              p == d.b[chain[Max(at)]].next
              sooner == {chain[k] : k \in {h \in at : h < Min(at) + collect}}
              swept == IF collect = 0 THEN d ELSE Collected(FreeClauses(d, sooner))
              freed == FreeClauses(swept, gone \ sooner)
              linked == [freed EXCEPT !.b[eb1].next = p]
  <1>0. /\ m \in Nat /\ None \notin Blocks /\ w # << >> /\ \A k \in 1 .. m : w[k] \in Blocks
        /\ d.p.first = w[1] /\ d.p.last = w[m] /\ 1 \in 1 .. m /\ m \in 1 .. m /\ j \in 1 .. m /\ chain = w
    <2>1. m \in Nat /\ None \notin Blocks /\ \A k \in 1 .. m : w[k] \in Blocks
      BY LinksFacts
    <2>2. w # << >> /\ j \in 1 .. m
      BY <2>1, EmptySeq
    <2>. QED BY <2>1, <2>2, EndsOf, ChainIs
  <1>1. /\ d.p.index = << >>
        /\ m > 1 => d.p.usage = "multiple" /\ d.p.entry.op = "try_me_jump" /\ d.p.entry.first = w[1] /\ d.p.entry.second \in Blocks
    BY UsageOf
  <1>2. Min(at) = i /\ Max(at) = j /\ at = i .. j
    <2>1. at = PlacesAt(d, w, i, j)
      BY DEF PlacesAt
    <2>2. PlacesAt(d, w, i, j) = i .. j /\ Min(PlacesAt(d, w, i, j)) = i /\ Max(PlacesAt(d, w, i, j)) = j
      BY PlacesOf
    <2>. HIDE DEF at
    <2>. QED BY <2>1, <2>2
  <1>3. r = CASE eb1 # None /\ p # None -> InstallChoice(linked, eb1, RetryMe(p))
              [] eb1 # None /\ p = None ->
                   LET d1 == [linked EXCEPT !.p.last = eb1]
                   IN  IF eb1 = d.p.first THEN Only(d1, eb1) ELSE InstallChoice(d1, eb1, TrustMe)
              [] eb1 = None /\ p # None ->
                   LET d1 == [freed EXCEPT !.p.first = p]
                   IN  IF d1.b[p].next = None THEN Only(d1, p) ELSE HeadOf(d1, p)
              [] OTHER -> Emptied(freed)
    BY DEF Abolished
  <1>4. Sweeps(d, freed, w, gone)
    <2>1. gone \subseteq In(w)
      <3>1. i .. j \subseteq 1 .. m
        BY <1>0
      <3>. QED BY <3>1 DEF Between, In
    <2>2. sooner \subseteq gone
      OBVIOUS
    <2>3. collect = 0 => sooner = {}
      <3>1. collect = 0 => {h \in at : h < Min(at) + collect} = {}
        <4>1. \A h \in i .. j : ~ (h < i + 0)
          BY <1>0
        <4>. HIDE DEF at
        <4>. QED BY <1>2, <4>1
      <3>. QED BY <3>1
    <2>4. (swept = d /\ sooner = {}) \/ swept = Collected(FreeClauses(d, sooner))
      BY <2>3
    <2>5. freed = FreeClauses(swept, gone \ sooner)
      OBVIOUS
    <2>. HIDE DEF gone, sooner, swept, freed
    <2>. QED BY <2>1, <2>2, <2>4, <2>5, SweptIs
  <1>5. p = Follower(w, j) /\ (p = None <=> j = m) /\ (j # m => p = w[j + 1] /\ j + 1 \in 1 .. m /\ p \in Blocks)
    <2>1. p = d.b[w[j]].next
      BY <1>0, <1>2
    <2>2. j # m => j + 1 \in 1 .. m
      BY <1>0
    <2>3. d.b[w[j]].next = IF j = m THEN None ELSE w[j + 1]
      BY <1>0 DEF Links
    <2>. HIDE DEF p
    <2>. QED BY <1>0, <2>1, <2>2, <2>3 DEF Follower
  <1>6. (eb1 = None <=> i = 1) /\ (i # 1 => eb1 = w[i - 1] /\ i - 1 \in 1 .. m /\ eb1 \in Blocks)
    <2>1. eb1 = IF i = 1 THEN None ELSE w[i - 1]
      BY <1>0, <1>2
    <2>2. i # 1 => i - 1 \in 1 .. m
      BY <1>0
    <2>. HIDE DEF eb1
    <2>. QED BY <1>0, <2>1, <2>2
  <1>. HIDE DEF eb1, p, freed, gone
  <1>7. freed \in Databases /\ freed.p = d.p /\ freed.c = d.c
    BY <1>4 DEF Sweeps
  <1>8. \A k \in 1 .. m : w[k] \in gone <=> i <= k /\ k <= j
    <2>. SUFFICES ASSUME NEW k \in 1 .. m PROVE w[k] \in gone <=> i <= k /\ k <= j
      OBVIOUS
    <2>1. ASSUME w[k] \in gone PROVE i <= k /\ k <= j
      <3>1. PICK h \in i .. j : w[k] = w[h]
        BY <2>1 DEF Between, gone
      <3>2. h \in 1 .. m /\ i <= h /\ h <= j
        BY <1>0
      <3>3. h = k
        BY <3>1, <3>2, IdsApart
      <3>. QED BY <3>2, <3>3
    <2>2. ASSUME i <= k, k <= j PROVE w[k] \in gone
      <3>1. k \in i .. j
        BY <1>0, <2>2
      <3>. QED BY <3>1 DEF Between, gone
    <2>. QED BY <2>1, <2>2
  <1>9. \A k \in 1 .. m : k < i \/ j < k => w[k] \in In(w) \ gone /\ w[k] \in Blocks /\ freed.b[w[k]] = d.b[w[k]]
    <2>1. \A k \in 1 .. m : k < i \/ j < k => ~ (i <= k /\ k <= j)
      BY <1>0
    <2>. QED BY <1>0, <1>4, <1>8, <2>1 DEF Sweeps, In
  <1>10. ASSUME NEW b \in Blocks, \A k \in 1 .. m : k < i \/ j < k => b # w[k]
         PROVE  freed.b[b].next = None /\ freed.b[b].code \in {Deleted, Free}
    <2>1. b \in gone \/ b \notin In(w)
      <3>. SUFFICES ASSUME b \in In(w) PROVE b \in gone
        OBVIOUS
      <3>1. PICK k \in 1 .. m : b = w[k]
        BY DEF In
      <3>2. i <= k /\ k <= j
        BY <1>0, <1>10, <3>1
      <3>. QED BY <1>8, <3>1, <3>2
    <2>. QED BY <1>4, <2>1 DEF Sweeps
  <1>11. \A k \in 1 .. m : k # i - 1 => i = 1 \/ w[k] # w[i - 1]
    BY <1>6, IdsApart
  <1>12. i # 1 => /\ freed.b[w[i - 1]] = d.b[w[i - 1]] /\ w[i - 1] \notin gone
                  /\ \A b \in Blocks : (\A k \in 1 .. m : k < i \/ j < k => b # w[k]) => b # w[i - 1]
    <2>1. i # 1 => i - 1 < i
      BY <1>0
    <2>. QED BY <1>6, <1>9, <2>1
  (* What is left is to say of r. *)
  <1>. DEFINE code == r.b[w[i - 1]].code
              done == /\ r \in Databases /\ r.c = d.c
                      /\ \A b \in Blocks : i = 1 \/ b # w[i - 1] => r.b[b] = freed.b[b]
                      /\ i # 1 => /\ r.b[w[i - 1]].next = p /\ r.b[w[i - 1]].id = freed.b[w[i - 1]].id
                                  /\ j # m => code = RetryMe(w[j + 1])
                                  /\ j = m => code = IF i = 2 THEN freed.b[w[1]].code ELSE TrustMe
                      /\ r.p.first = IF i = 1 THEN p ELSE w[1]
                      /\ r.p.last = IF j # m THEN w[m] ELSE IF i = 1 THEN None ELSE w[i - 1]
                      /\ r.p.index = << >> /\ r.p.lo = d.p.lo /\ r.p.hi = d.p.hi
                      /\ i = 1 /\ j = m => r.p.usage = "undefined" /\ r.p.entry = Empty
                      /\ m = (j - i + 1) + 1 => r.p.usage = "single" /\ r.p.entry = Jump(r.p.first)
                      /\ m > (j - i + 1) + 1 => /\ r.p.usage = "multiple" /\ r.p.entry.op = "try_me_jump"
                                                /\ r.p.entry.first = r.p.first /\ r.p.entry.second \in Blocks
  <1>13. ASSUME done
         PROVE  /\ Shrinks(d, r, w, i, j) /\ r.c = d.c
                /\ \A b \in Blocks \cap Marked(d) :
                     d.b[b].code # Free => r.b[b].code # Free /\ r.b[b].id = d.b[b].id
    <2>1. \A k \in 1 .. m : k < i \/ j < k =>
           /\ r.b[w[k]].id = d.b[w[k]].id
           /\ r.b[w[k]].next = IF k = i - 1 THEN Follower(w, j) ELSE d.b[w[k]].next
           /\ k # i - 1 => r.b[w[k]].code = d.b[w[k]].code
      <3>. SUFFICES ASSUME NEW k \in 1 .. m, k < i \/ j < k
                    PROVE  /\ r.b[w[k]].id = d.b[w[k]].id
                           /\ r.b[w[k]].next = IF k = i - 1 THEN Follower(w, j) ELSE d.b[w[k]].next
                           /\ k # i - 1 => r.b[w[k]].code = d.b[w[k]].code
        OBVIOUS
      <3>1. w[k] \in Blocks /\ freed.b[w[k]] = d.b[w[k]]
        BY <1>9
      <3>2. CASE k = i - 1
        <4>1. i # 1
          BY <3>2
        <4>. QED BY <1>5, <1>13, <3>1, <3>2, <4>1
      <3>3. CASE k # i - 1
        BY <1>11, <1>13, <3>1, <3>3
      <3>. QED BY <3>2, <3>3
    <2>2. i # 1 /\ j = m =>
            \/ code = TrustMe
            \/ /\ i = 2 /\ r.b[w[1]].code = RetryMe(w[2])
               /\ r.b[w[2]].code = Free \/ r.b[w[2]].id = d.b[w[2]].id
      <3>. SUFFICES ASSUME i = 2, j = m
                    PROVE  /\ r.b[w[1]].code = RetryMe(w[2])
                           /\ r.b[w[2]].code = Free \/ r.b[w[2]].id = d.b[w[2]].id
        BY <1>13
      <3>1. i - 1 = 1 /\ i # 1 /\ m # 1 /\ 2 \in 1 .. m /\ 1 \in 1 .. m
        BY <1>0
      <3>2. d.b[w[1]].code = RetryMe(w[2])
        <4>1. ~ LeftOver(d, w)
          BY <3>1 DEF LeftOver
        <4>2. RetryMe(w[1 + 1]) = RetryMe(w[2])
          OBVIOUS
        <4>3. d.b[w[1]].code = RetryMe(w[1 + 1])
          BY <3>1, <4>1 DEF Coded, CodeOf
        <4>. QED BY <4>2, <4>3
      <3>3. r.b[w[1]].code = RetryMe(w[2])
        BY <1>12, <1>13, <3>1, <3>2
      <3>4. w[2] \in gone /\ w[2] # w[1] /\ w[2] \in Blocks
        <4>1. w[2] \in gone
          BY <1>0, <1>8, <3>1
        <4>. QED BY <1>0, <1>12, <3>1, <4>1
      <3>5. r.b[w[2]] = freed.b[w[2]]
        BY <1>13, <3>1, <3>4
      <3>. QED BY <1>4, <3>3, <3>4, <3>5 DEF Sweeps
    <2>3. \A b \in Blocks : (\A k \in 1 .. m : k < i \/ j < k => b # w[k]) =>
             r.b[b].next = None /\ r.b[b].code \in {Deleted, Free}
      BY <1>10, <1>12, <1>13
    <2>4. Shrinks(d, r, w, i, j)
      BY <1>5, <1>13, <2>1, <2>2, <2>3 DEF Shrinks
    <2>5. ASSUME NEW b \in Blocks \cap Marked(d), d.b[b].code # Free
          PROVE  r.b[b].code # Free /\ r.b[b].id = d.b[b].id
      <3>1. freed.b[b].code # Free /\ freed.b[b].id = d.b[b].id
        BY <1>4, <2>5 DEF Sweeps
      <3>2. CASE i # 1 /\ b = w[i - 1]
        <4>1. r.b[b].id = freed.b[b].id
          BY <1>13, <3>2
        <4>2. code = RetryMe(w[j + 1]) \/ code = TrustMe \/ (code = freed.b[w[1]].code /\ i = 2)
          <5>1. /\ j # m => code = RetryMe(w[j + 1])
                /\ j = m => code = IF i = 2 THEN freed.b[w[1]].code ELSE TrustMe
            BY <1>13, <3>2
          <5>. HIDE DEF code, m
          <5>. QED BY <5>1
        <4>3. i = 2 => b = w[1]
          BY <3>2
        <4>. QED BY <3>1, <3>2, <4>1, <4>2, <4>3, CodesApart
      <3>3. CASE ~ (i # 1 /\ b = w[i - 1])
        BY <1>13, <3>1, <3>3
      <3>. QED BY <3>2, <3>3
    <2>. QED BY <1>13, <2>4, <2>5
  <1>14. \A h \in Nat : \A k \in 1 .. h : \A l \in k .. h :
            /\ (k = 1 /\ l = h) => h # (l - k + 1) + 1 /\ ~ (h > (l - k + 1) + 1)
            /\ (k = 2 /\ l = h) => h = (l - k + 1) + 1 /\ ~ (h > (l - k + 1) + 1)
            /\ (k = 1 /\ l # h) => (h = (l - k + 1) + 1 <=> l + 1 = h) /\ (l + 1 # h => l + 2 \in 1 .. h)
            /\ (k # 1 /\ l # h) => h # (l - k + 1) + 1
            /\ (k # 1 /\ k # 2 /\ l = h) => h # (l - k + 1) + 1
            /\ k # 1 \/ l # h => h > 1
    OBVIOUS
  <1>15. /\ (i = 1 /\ j = m) => m # (j - i + 1) + 1 /\ ~ (m > (j - i + 1) + 1)
         /\ (i = 2 /\ j = m) => m = (j - i + 1) + 1 /\ ~ (m > (j - i + 1) + 1)
         /\ (i = 1 /\ j # m) => (m = (j - i + 1) + 1 <=> j + 1 = m) /\ (j + 1 # m => j + 2 \in 1 .. m)
         /\ (i # 1 /\ j # m) => m # (j - i + 1) + 1
         /\ (i # 1 /\ i # 2 /\ j = m) => m # (j - i + 1) + 1
         /\ i # 1 \/ j # m => m > 1
    BY <1>0, <1>14
  <1>16. CASE i = 1 /\ j = m
    <2>1. r = Emptied(freed)
      <3>. HIDE DEF linked
      <3>. QED BY <1>3, <1>5, <1>6, <1>16
    <2>2. Becoming(freed, r, None, None, "undefined", Empty)
      BY <1>7, <2>1, EmptiedIs
    <2>3. done
      <3>. HIDE DEF m
      <3>. QED BY <1>1, <1>5, <1>7, <1>15, <1>16, <2>2 DEF Becoming
    <2>. HIDE DEF done
    <2>. QED BY <1>13, <2>3
  <1>17. CASE i = 1 /\ j # m
    <2>. DEFINE d1 == [freed EXCEPT !.p.first = p]
    <2>1. r = IF d1.b[p].next = None THEN Only(d1, p) ELSE HeadOf(d1, p)
      <3>. HIDE DEF linked, d1
      <3>1. p # None /\ eb1 = None
        BY <1>5, <1>6, <1>17
      <3>. QED BY <1>3, <3>1 DEF d1
    <2>2. Becoming(freed, d1, p, freed.p.last, freed.p.usage, freed.p.entry)
      BY <1>5, <1>7, <1>17, FirstSet
    <2>. HIDE DEF d1
    <2>3. d1 \in Databases /\ d1.b = freed.b /\ d1.c = d.c /\ d1.p.first = p /\ d1.p.last = w[m] /\ d1.p.usage = "multiple"
          /\ d1.p.index = << >> /\ d1.p.lo = d.p.lo /\ d1.p.hi = d.p.hi
      <3>1. freed.p.last = w[m] /\ freed.p.usage = "multiple" /\ freed.p.index = << >> /\ freed.p.lo = d.p.lo /\ freed.p.hi = d.p.hi
        BY <1>0, <1>1, <1>7, <1>15, <1>17
      <3>. QED BY <1>7, <2>2, <3>1 DEF Becoming
    <2>4. p = w[j + 1] /\ j + 1 \in 1 .. m /\ p \in Blocks /\ d1.b[p] = d.b[p]
      <3>1. j < j + 1
        BY <1>0
      <3>. QED BY <1>5, <1>9, <1>17, <2>3, <3>1
    <2>5. d1.b[p].next = IF j + 1 = m THEN None ELSE w[(j + 1) + 1]
      BY <2>4 DEF Links
    <2>6. CASE j + 1 = m
      <3>1. r = Only(d1, p)
        BY <2>1, <2>5, <2>6
      <3>2. Becoming(d1, r, d1.p.first, d1.p.last, "single", Jump(p))
        BY <2>3, <2>4, <3>1, OnlyIs
      <3>3. m = (j - i + 1) + 1 /\ ~ (m > (j - i + 1) + 1) /\ i = 1 /\ j # m
        BY <1>0, <1>15, <1>17, <2>6
      <3>4. done
        <4>. HIDE DEF m
        <4>. QED BY <2>3, <3>2, <3>3 DEF Becoming
      <3>. HIDE DEF done
      <3>. QED BY <1>13, <3>4
    <2>7. CASE j + 1 # m
      <3>. DEFINE s == w[(j + 1) + 1]
      <3>1. s \in Blocks
        <4>1. (j + 1) + 1 = j + 2 /\ j + 2 \in 1 .. m
          BY <1>0, <1>15, <1>17, <2>7
        <4>. QED BY <1>0, <4>1
      <3>2. r = HeadOf(d1, p) /\ d1.b[p].next = s
        BY <1>0, <2>1, <2>5, <2>7, <3>1
      <3>. HIDE DEF s
      <3>3. Becoming(d1, r, d1.p.first, d1.p.last, d1.p.usage, TryMeJump(p, s, TRUE))
        BY <2>3, <2>4, <3>1, <3>2, HeadOfIs
      <3>4. TryMeJump(p, s, TRUE).op = "try_me_jump" /\ TryMeJump(p, s, TRUE).first = p /\ TryMeJump(p, s, TRUE).second = s
        BY DEF TryMeJump, Empty
      <3>5. m # (j - i + 1) + 1 /\ i = 1 /\ j # m
        BY <1>15, <1>17, <2>7
      <3>6. done
        <4>. HIDE DEF m
        <4>. QED BY <2>3, <3>1, <3>3, <3>4, <3>5 DEF Becoming
      <3>. HIDE DEF done
      <3>. QED BY <1>13, <3>6
    <2>. QED BY <2>6, <2>7
  <1>18. CASE i # 1
    <2>1. eb1 = w[i - 1] /\ eb1 \in Blocks /\ eb1 # None /\ p \in Blocks \cup {None} /\ i - 1 \in 1 .. m
      BY <1>0, <1>5, <1>6, <1>18
    <2>2. Rewritten(freed, linked, eb1, [freed.b[eb1] EXCEPT !.next = p])
      BY <1>7, <2>1, NextIs
    <2>. HIDE DEF linked
    <2>3. linked \in Databases /\ linked.p = d.p /\ linked.c = d.c
      BY <1>7, <2>2 DEF Rewritten
    <2>4. /\ \A b \in Blocks : b # eb1 => linked.b[b] = freed.b[b]
          /\ linked.b[eb1].next = p /\ linked.b[eb1].id = freed.b[eb1].id /\ linked.b[eb1].code = freed.b[eb1].code
          /\ linked.b[eb1] \in ClauseBlocks
      <3>1. freed.b[eb1] \in ClauseBlocks /\ linked.b[eb1] \in ClauseBlocks
        BY <1>7, <2>1, <2>3, CodeTypes
      <3>2. linked.b[eb1] = [freed.b[eb1] EXCEPT !.next = p]
        BY <2>2 DEF Rewritten
      <3>. QED BY <2>2, <3>1, <3>2 DEF Rewritten, ClauseBlocks
    <2>5. d.p.first = w[1] /\ d.p.last = w[m] /\ d.p.usage = "multiple" /\ d.p.entry.op = "try_me_jump"
          /\ d.p.entry.first = w[1] /\ d.p.entry.second \in Blocks /\ d.p.index = << >>
      BY <1>0, <1>1, <1>15, <1>18
    <2>6. eb1 = w[1] <=> i = 2
      <3>1. eb1 = w[1] <=> i - 1 = 1
        BY <1>0, <2>1, IdsApart
      <3>2. i - 1 = 1 <=> i = 2
        BY <1>0
      <3>. QED BY <3>1, <3>2
    <2>7. CASE j # m
      <3>1. r = InstallChoice(linked, eb1, RetryMe(p)) /\ p \in Blocks /\ p = w[j + 1]
        BY <1>3, <1>5, <2>1, <2>7
      <3>2. Rewritten(linked, r, eb1, [linked.b[eb1] EXCEPT !.code = RetryMe(p)])
        BY <2>1, <2>3, <3>1, CodesTyped, InstallChoiceIs
      <3>3. r \in Databases /\ r.p = d.p /\ r.c = d.c /\ \A b \in Blocks : b # eb1 => r.b[b] = freed.b[b]
        BY <2>3, <2>4, <3>2 DEF Rewritten
      <3>4. r.b[eb1].next = p /\ r.b[eb1].id = freed.b[eb1].id /\ r.b[eb1].code = RetryMe(p)
        <4>1. r.b[eb1] = [linked.b[eb1] EXCEPT !.code = RetryMe(p)]
          BY <3>2 DEF Rewritten
        <4>. QED BY <2>4, <4>1 DEF ClauseBlocks
      <3>5. m # (j - i + 1) + 1
        BY <1>15, <1>18, <2>7
      <3>6. done
        <4>. HIDE DEF m
        <4>. QED BY <1>18, <2>1, <2>5, <2>7, <3>1, <3>3, <3>4, <3>5
      <3>. HIDE DEF done
      <3>. QED BY <1>13, <3>6
    <2>8. CASE j = m
      <3>. DEFINE d1 == [linked EXCEPT !.p.last = eb1]
      <3>1. r = IF eb1 = w[1] THEN Only(d1, eb1) ELSE InstallChoice(d1, eb1, TrustMe)
        <4>1. p = None
          BY <1>5, <2>8
        <4>. QED BY <1>0, <1>3, <2>1, <4>1
      <3>2. Becoming(linked, d1, linked.p.first, eb1, linked.p.usage, linked.p.entry)
        BY <2>1, <2>3, LastSet
      <3>. HIDE DEF d1
      <3>3. /\ d1 \in Databases /\ d1.b = linked.b /\ d1.c = d.c /\ d1.p.first = w[1] /\ d1.p.last = eb1
            /\ d1.p.usage = "multiple" /\ d1.p.entry = d.p.entry /\ d1.p.index = << >> /\ d1.p.lo = d.p.lo /\ d1.p.hi = d.p.hi
        BY <2>3, <2>5, <3>2 DEF Becoming
      <3>4. CASE i = 2
        <4>1. Becoming(d1, r, d1.p.first, d1.p.last, "single", Jump(eb1))
          BY <2>1, <2>6, <3>1, <3>3, <3>4, OnlyIs
        <4>2. m = (j - i + 1) + 1 /\ ~ (m > (j - i + 1) + 1) /\ i # 1
          BY <1>15, <2>8, <3>4
        <4>3. w[i - 1] = w[1]
          BY <2>1, <2>6, <3>4
        <4>4. done
          <5>. HIDE DEF m
          <5>. QED BY <2>1, <2>4, <2>8, <3>3, <3>4, <4>1, <4>2, <4>3 DEF Becoming
        <4>. HIDE DEF done
        <4>. QED BY <1>13, <4>4
      <3>5. CASE i # 2
        <4>1. r = InstallChoice(d1, eb1, TrustMe)
          BY <2>6, <3>1, <3>5
        <4>2. Rewritten(d1, r, eb1, [d1.b[eb1] EXCEPT !.code = TrustMe])
          BY <2>1, <3>3, <4>1, CodesTyped, InstallChoiceIs
        <4>3. r \in Databases /\ r.p = d1.p /\ r.c = d.c /\ \A b \in Blocks : b # eb1 => r.b[b] = freed.b[b]
          BY <2>4, <3>3, <4>2 DEF Rewritten
        <4>4. r.b[eb1].next = p /\ r.b[eb1].id = freed.b[eb1].id /\ r.b[eb1].code = TrustMe
          <5>1. r.b[eb1] = [linked.b[eb1] EXCEPT !.code = TrustMe]
            BY <3>3, <4>2 DEF Rewritten
          <5>. QED BY <2>4, <5>1 DEF ClauseBlocks
        <4>5. m # (j - i + 1) + 1
          BY <1>15, <1>18, <2>8, <3>5
        <4>6. done
          <5>. HIDE DEF m
          <5>. QED BY <1>18, <2>1, <2>5, <2>8, <3>3, <3>5, <4>3, <4>4, <4>5
        <4>. HIDE DEF done
        <4>. QED BY <1>13, <4>6
      <3>. QED BY <3>4, <3>5
    <2>. QED BY <2>7, <2>8
  <1>. QED BY <1>16, <1>17, <1>18

IsInterval(w, gone) ==
  gone = {} \/ \E i \in 1 .. Len(w) : \E j \in i .. Len(w) : gone = Between(w, i, j)

LEMMA WholeChain ==
  ASSUME NEW d, NEW w, Links(d, w)
  PROVE  IsInterval(w, In(w))
  <1>1. Len(w) \in Nat
    BY LinksFacts
  <1>2. CASE Len(w) = 0
    <2>1. In(w) = {}
      BY <1>2 DEF In
    <2>. QED BY <2>1 DEF IsInterval
  <1>3. CASE Len(w) # 0
    <2>1. 1 \in 1 .. Len(w) /\ Len(w) \in 1 .. Len(w)
      BY <1>1, <1>3
    <2>2. In(w) = Between(w, 1, Len(w))
      BY DEF In, Between
    <2>. QED BY <2>1, <2>2 DEF IsInterval
  <1>. QED BY <1>2, <1>3

LEMMA GroupsMonotone ==
  ASSUME NEW a \in Int, NEW b \in Int, a <= b
  PROVE  Group(a) \in Int /\ Group(b) \in Int /\ Group(a) <= Group(b)
  <1>. DEFINE s == Group(a) * IdSpan
              t == Group(b) * IdSpan
  <1>1. Group(a) \in Int /\ s \in Int /\ s <= a
    BY GroupOf
  <1>2. Group(b) \in Int /\ t \in Int /\ b < t + IdSpan
    BY GroupOf
  <1>3. Group(b) < Group(a) => t + IdSpan <= s
    BY <1>1, <1>2, GroupsAscend
  <1>4. IdSpan \in Int
    BY BoundAssumption
  <1>. HIDE DEF s, t
  <1>. QED BY <1>1, <1>2, <1>3, <1>4

LEMMA GroupIsInterval ==
  ASSUME NEW d \in Databases, NEW w, Links(d, w), NEW cg
  PROVE  IsInterval(w, InGroup(d, cg))
  <1>. DEFINE X == {i \in 1 .. Len(w) : Group(d.b[w[i]].id) = cg}
  <1>0. Len(w) \in Nat
    BY LinksFacts
  <1>1. InGroup(d, cg) = {w[i] : i \in X}
    <2>1. ToSet(Chain(d)) = In(w)
      BY ChainSet
    <2>. QED BY <2>1 DEF InGroup, In
  <1>2. CASE X = {}
    BY <1>1, <1>2 DEF IsInterval
  <1>3. CASE X # {}
    <2>. DEFINE i == Min(X)
                j == Max(X)
    <2>1. X \subseteq Nat /\ X \subseteq 0 .. Len(w) /\ X \subseteq 1 .. Len(w)
      BY <1>0
    <2>2. i \in X /\ \A k \in X : i <= k
      BY <1>3, <2>1, MinOf
    <2>3. j \in X /\ \A k \in X : k <= j
      BY <1>0, <1>3, <2>1, MaxOf
    <2>. HIDE DEF i, j
    <2>4. i \in 1 .. Len(w) /\ j \in i .. Len(w)
      BY <1>0, <2>1, <2>2, <2>3
    <2>5. ASSUME NEW k \in i .. j PROVE k \in X
      <3>1. k \in 1 .. Len(w) /\ j \in 1 .. Len(w) /\ i <= k /\ k <= j
        BY <1>0, <2>4
      <3>2. d.b[w[i]].id <= d.b[w[k]].id /\ d.b[w[k]].id <= d.b[w[j]].id
        BY <2>4, <3>1, IdsApart
      <3>3. d.b[w[i]].id \in Int /\ d.b[w[k]].id \in Int /\ d.b[w[j]].id \in Int
        BY <2>4, <3>1, IdsApart
      <3>4. Group(d.b[w[i]].id) = cg /\ Group(d.b[w[j]].id) = cg
        BY <2>2, <2>3
      <3>5. cg \in Int /\ Group(d.b[w[k]].id) \in Int /\ cg <= Group(d.b[w[k]].id)
        BY <3>2, <3>3, <3>4, GroupsMonotone
      <3>6. Group(d.b[w[k]].id) <= cg
        BY <3>2, <3>3, <3>4, GroupsMonotone
      <3>7. Group(d.b[w[k]].id) = cg
        BY <3>5, <3>6
      <3>. QED BY <3>1, <3>7
    <2>6. X = i .. j
      BY <1>0, <2>1, <2>2, <2>3, <2>5
    <2>. HIDE DEF X
    <2>7. InGroup(d, cg) = Between(w, i, j)
      BY <1>1, <2>6 DEF Between
    <2>. QED BY <2>4, <2>7 DEF IsInterval
  <1>. QED BY <1>2, <1>3

(***************************************************************************)
(* The choice points                                                       *)
(***************************************************************************)
LEMMA ChoicePointFacts ==
  ASSUME NEW cp \in ChoicePoints
  PROVE  /\ cp.next[1] \in {"fail", "clause", "top", "bottom"}
         /\ cp.next[1] = "fail" <=> cp.next = <<"fail">>
         /\ cp.next[1] # "fail" => cp.next[2] \in Blocks /\ cp.next = <<cp.next[1], cp.next[2]>>
         /\ InBlock(cp) <=> cp.next[1] = "top" \/ cp.next[1] = "bottom"
         /\ InBlock(cp) => cp.next[1] # "fail" /\ cp.next[1] # "clause"
         /\ cp.call \in 1 .. MaxChoice /\ cp.key \in CallKeys /\ cp.astray \in BOOLEAN
         /\ cp.todo \in SUBSET Blocks /\ cp.ran \in SUBSET Blocks
  BY DEF ChoicePoints, InBlock

Goals == {<<"fail">>} \cup ({"clause", "top", "bottom"} \X Blocks)

LEMMA NextInChainIs ==
  ASSUME NEW d \in Databases, NEW w, Links(d, w), Coded(d, w),
         NEW cp \in ChoicePoints, InBlock(cp), InIndex(d, w, cp)
  PROVE  /\ NextInChain(d, cp) = <<"clause", Place(d, cp)>>
         /\ cp.next[2] \in 1 .. Len(w) /\ Place(d, cp) = w[cp.next[2]] /\ d.p.index = w
         /\ Place(d, cp) \in Blocks /\ Place(d, cp) \in In(w)
  <1>. DEFINE i == cp.next[2]
  <1>1. i \in 1 .. Len(w) /\ d.p.index = w /\ Len(w) \in Nat
    BY LinksFacts DEF InIndex, Coded
  <1>2. Place(d, cp) = w[i] /\ w[i] \in Blocks /\ w[i] \in In(w)
    BY <1>1, LinksFacts DEF Place
  <1>3. cp.next[1] = "top" => d.b[w[i - 1]].next = w[i]
    <2>. SUFFICES ASSUME cp.next[1] = "top" PROVE d.b[w[i - 1]].next = w[i]
      OBVIOUS
    <2>1. i > 1
      BY DEF InIndex
    <2>2. i - 1 \in 1 .. Len(w) /\ i - 1 # Len(w) /\ (i - 1) + 1 = i
      BY <1>1, <2>1
    <2>. QED BY <2>2 DEF Links
  <1>. QED BY <1>1, <1>2, <1>3 DEF NextInChain

LEMMA MatchesAfter ==
  ASSUME NEW d \in Databases, NEW w, Links(d, w), d.p.index = w,
         NEW i \in 1 .. Len(w), NEW key
  PROVE  \A j \in Matches(d, i, key) : j \in 1 .. Len(w) /\ i <= j
  <1>1. DOMAIN d.p.index = 1 .. Len(w) /\ Len(w) \in Nat
    BY LinksFacts
  <1>2. \A j \in Node(d, i) : j \in 1 .. Len(w) /\ i <= j
    BY <1>1 DEF Node
  <1>3. i <= i
    BY <1>1
  <1>. QED BY <1>2, <1>3 DEF Matches

LEMMA AheadFrom ==
  ASSUME NEW d \in Databases, NEW w, Links(d, w), Coded(d, w),
         NEW cp \in ChoicePoints, InBlock(cp), InIndex(d, w, cp)
  PROVE  Ahead(d, w, cp) \subseteq From(d, w, Place(d, cp))
  <1>. DEFINE i == cp.next[2]
              at == CASE cp.next[1] = "top" ->
                           UNION {Matches(d, j, cp.key) : j \in {k \in Nodes(d, cp.key) : k >= i}}
                      [] cp.next[1] = "bottom" -> Matches(d, i, cp.key)
                      [] OTHER -> {}
  <1>0. /\ d.p.index = w /\ DOMAIN w = 1 .. Len(w) /\ Len(w) \in Nat /\ i \in 1 .. Len(w)
        /\ cp.next[1] = "top" \/ cp.next[1] = "bottom"
        /\ Place(d, cp) = w[i] /\ \A j \in 1 .. Len(w) : w[j] \in In(w) /\ w[j] \in Blocks
        /\ \A j \in 1 .. Len(w) : d.b[w[j]].id \in Int
    BY SMTT(30), NextInChainIs, ChoicePointFacts, LinksFacts, IdsApart DEF InIndex, Coded
  <1>1. Ahead(d, w, cp) = {w[j] : j \in at}
    BY <1>0 DEF Ahead, Pending
  <1>2. \A j \in at : j \in 1 .. Len(w) /\ i <= j
    <2>1. CASE cp.next[1] = "top"
      <3>1. ASSUME NEW k \in Nodes(d, cp.key), k >= i, NEW j \in Matches(d, k, cp.key)
            PROVE  j \in 1 .. Len(w) /\ i <= j
        <4>1. k \in 1 .. Len(w)
          BY <1>0 DEF Nodes
        <4>2. j \in 1 .. Len(w) /\ k <= j
          BY <1>0, <3>1, <4>1, MatchesAfter
        <4>. QED BY <1>0, <3>1, <4>1, <4>2
      <3>. QED BY <2>1, <3>1
    <2>2. CASE cp.next[1] = "bottom"
      <3>1. at = Matches(d, i, cp.key)
        BY <2>2
      <3>. QED BY <1>0, <3>1, MatchesAfter
    <2>. QED BY <1>0, <2>1, <2>2
  <1>. HIDE DEF at, i
  <1>3. ASSUME NEW j \in at PROVE w[j] \in From(d, w, w[i])
    <2>1. j \in 1 .. Len(w) /\ (i = j \/ i < j)
      BY <1>0, <1>2
    <2>2. d.b[w[i]].id <= d.b[w[j]].id
      <3>1. d.b[w[i]].id = d.b[w[j]].id \/ d.b[w[i]].id < d.b[w[j]].id
        BY <1>0, <2>1 DEF Links
      <3>2. d.b[w[i]].id \in Int /\ d.b[w[j]].id \in Int
        BY <1>0, <2>1
      <3>. QED BY <3>1, <3>2
    <2>. QED BY <1>0, <2>1, <2>2 DEF From
  <1>. QED BY <1>0, <1>1, <1>3

================================================================================
