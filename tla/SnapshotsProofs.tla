--------------------------- MODULE SnapshotsProofs ---------------------------
(***************************************************************************)
(* Backtrack implements Snapshots: the trail, the HB and SPB fields of the *)
(* choice points, the sweep of cut and the walk of gv_set do what a copy   *)
(* of the whole memory in every choice point would do.                     *)
(*                                                                         *)
(* Each step of Backtrack is shown to be a step of Copies or a stutter.    *)
(* The lemmas of BacktrackProofs say what the steps do to the views of the *)
(* choice points, cell by cell; here the views are put together to the     *)
(* functions and the sequence that Copies is about.                        *)
(***************************************************************************)
EXTENDS BacktrackProofs

LEMMA Within ==
  ASSUME NEW lo \in Int, NEW hi \in Int, NEW lo2 \in Int, NEW hi2 \in Int,
         lo2 <= lo, hi <= hi2
  PROVE  lo .. hi - 1 \subseteq lo2 .. hi2 - 1
  OBVIOUS

(* What Copies calls saved *)
Views == [i \in 1 .. B |-> View(i)]

ViewCells(i) == cps[i].spb .. cps[i].hb - 1

LEMMA SeqFromFunction ==
  ASSUME NEW n \in Nat, NEW f, DOMAIN f = 1 .. n, f = [i \in DOMAIN f |-> f[i]]
  PROVE  /\ Len(f) = n
         /\ f \in Seq({f[i] : i \in 1 .. n})
  <1>1. f \in [1 .. n -> {f[i] : i \in 1 .. n}]
    OBVIOUS
  <1>. QED BY <1>1, LenProperties, SeqDef

LEMMA ViewsProperties ==
  ASSUME TypeOK
  PROVE  /\ B \in Nat /\ B \in 1 .. B
         /\ Len(Views) = B /\ \A i \in 1 .. B : Views[i] = View(i)
         /\ Views \in Seq({Views[i] : i \in 1 .. B})
  <1>1. B \in Nat /\ B \in 1 .. B
    BY CpsType
  <1>2. DOMAIN Views = 1 .. B /\ Views = [i \in DOMAIN Views |-> Views[i]]
    BY DEF Views
  <1>. QED BY <1>1, <1>2, SeqFromFunction DEF Views

LEMMA NextViewsProperties ==
  ASSUME NEW n \in Nat, B' = n
  PROVE  /\ DOMAIN Views' = 1 .. n
         /\ Len(Views') = n /\ \A i \in 1 .. n : Views'[i] = View(i)'
  <1>1. Views' = [i \in 1 .. n |-> View(i)']
    BY DEF Views
  <1>2. DOMAIN Views' = 1 .. n /\ Views' = [i \in DOMAIN Views' |-> Views'[i]]
    BY <1>1
  <1>. QED BY <1>1, <1>2, SeqFromFunction

LEMMA ViewProperties ==
  ASSUME NEW i
  PROVE  /\ View(i) = [a \in ViewCells(i) |-> ViewAt(i, a)]
         /\ DOMAIN View(i) = ViewCells(i)
         /\ \A a \in ViewCells(i) : View(i)[a] = ViewAt(i, a)
  BY DEF View, ViewAt, ViewCells

(* The copy that Copies restores is the view of the newest choice point. *)
LEMMA NewestView ==
  ASSUME IInv
  PROVE  /\ Copies!Newest = View(B) /\ Copies!Cells(Copies!Newest) = spb .. hb - 1
         /\ Copies!Newest = Unwound
  <1>1. Copies!Newest = View(B)
    BY ViewsProperties DEF Copies!Newest, IInv, Views
  <1>2. ViewCells(B) = spb .. hb - 1
    BY DEF ViewCells, IInv, ChoicesOrdered
  <1>3. \A a : a \in TrailedFrom(B) <=> a \in cps[B].trail
    BY ViewsProperties, TrailedFromDef DEF IInv
  <1>4. View(B) = Unwound
    BY <1>2, <1>3 DEF View, Unwound, ViewCells
  <1>. QED BY <1>1, <1>2, <1>4, ViewProperties DEF Copies!Cells

(* When the views stay as they are, so does the sequence of them. *)
LEMMA ViewKept ==
  ASSUME NEW i, ViewCells(i)' = ViewCells(i),
         \A a \in ViewCells(i) : ViewAt(i, a)' = ViewAt(i, a)
  PROVE  View(i)' = View(i)
  <1>1. View(i)' = [a \in ViewCells(i)' |-> ViewAt(i, a)']
    BY DEF View, ViewAt, ViewCells
  <1>. QED BY <1>1, ViewProperties

(***************************************************************************)
(* Forward execution.  Binding is trailed whenever a choice point protects *)
(* the cell, so no copy changes; a cell that a copy holds stays and        *)
(* changes only from unbound.                                              *)
(***************************************************************************)
LEMMA BuildsRun ==
  ASSUME IInv, Builds
  PROVE  Copies!Run
  <1>1. B \in Nat /\ B \in 1 .. B /\ B' = B
    BY ViewsProperties DEF Builds, Trails, B, IInv
  <1>2. \A i \in 1 .. B : View(i)' = View(i)
    <2>. SUFFICES ASSUME NEW i \in 1 .. B
                  PROVE  View(i)' = View(i)
      OBVIOUS
    <2>1. ViewCells(i)' = ViewCells(i)
      BY DEF Builds, KeepsChoices, ViewCells
    <2>2. \A a \in ViewCells(i) : ViewAt(i, a)' = ViewAt(i, a)
      BY ViewsKept DEF IInv, Builds, ViewCells
    <2>. QED BY <2>1, <2>2, ViewKept
  <1>3. Views' = Views
    BY <1>1, <1>2 DEF Views
  <1>4. /\ DOMAIN store = sp .. h - 1 /\ DOMAIN store' = sp' .. h' - 1
        /\ sp' \in 0 .. spb /\ h' \in h .. HeapEnd
        /\ sp \in Nat /\ h \in Nat /\ hb \in Nat /\ spb \in Nat /\ hb <= h
        /\ spb <= HeapBase /\ HeapBase <= hb /\ HeapBase \in Nat /\ HeapEnd \in Nat
    BY InvFacts DEF Builds, Memory
  <1>5. Copies!Cells(Copies!Newest) \subseteq Copies!Cells(store')
    <2>1. /\ sp' \in Int /\ h' \in Int /\ spb \in Int /\ hb \in Int
          /\ sp' <= spb /\ hb <= h'
      BY <1>4
    <2>2. spb .. hb - 1 \subseteq sp' .. h' - 1
      BY <2>1, Within
    <2>. QED BY <1>4, <2>2, NewestView DEF Copies!Cells
  <1>6. ASSUME NEW a \in Copies!Cells(store) \cap Copies!Cells(store')
        PROVE  \/ store'[a] = store[a]
               \/ Unbound(store, a)
               \/ a < HeapBase /\ a \notin Copies!Cells(Copies!Newest)
    <2>1. a \in sp .. h - 1 /\ a >= sp'
      BY <1>4, <1>6 DEF Copies!Cells
    <2>2. store'[a] = store[a] \/ Unbound(store, a) \/ a < spb
      BY <2>1 DEF Builds
    <2>3. a < spb => a < HeapBase /\ a \notin spb .. hb - 1
      BY <1>4, <2>1
    <2>. QED BY <2>2, <2>3, NewestView
  <1>7. gv' = gv
    BY DEF Builds, KeepsChoices
  <1>. QED BY <1>3, <1>5, <1>6, <1>7 DEF Copies!Run, Copies!Unbound, Unbound,
                                         Copies!Ref, Ref, Views

(***************************************************************************)
(* gv_set.  A choice point whose HB is raised to that of a newer one, or   *)
(* to the top of the heap, gets the cells in between as that one has them: *)
(* nothing between the two HBs was trailed before the newer one was made.  *)
(***************************************************************************)
LEMMA RaisedView ==
  ASSUME IInv, Sets, IInv',
         NEW n \in 0 .. B, Raised(n, HBLast(n)), NEW i \in 1 .. B
  PROVE  /\ \A a \in ViewCells(i) : /\ a \in ViewCells(i)'
                                     /\ ViewAt(i, a)' = ViewAt(i, a)
         /\ \A a \in ViewCells(i)' \ ViewCells(i) :
              /\ a >= HeapBase
              /\ i # B => a \in ViewCells(i + 1)' /\ ViewAt(i, a)' = ViewAt(i + 1, a)'
              /\ i = B => a \in sp' .. h' - 1 /\ ViewAt(i, a)' = store'[a]
  <1>1. /\ B \in Nat /\ B \in 1 .. B /\ B' = B /\ n \in Nat /\ i \in Nat
        /\ (i # B => i + 1 \in 1 .. B)
        /\ \A j \in 1 .. B : cps[j].hb \in Nat /\ cps[j].spb \in Nat
        /\ \A j \in 1 .. B : cps'[j].hb \in Nat /\ cps'[j].spb \in Nat
    <2>1. B' = B
      BY DEF Sets, Trails, B
    <2>2. \A j \in 1 .. B : cps'[j] \in Choice
      <3>1. cps' \in Seq(Choice) /\ Len(cps') = B
        BY DEF IInv, TypeOK, Sets, Trails
      <3>. QED BY <3>1, ElementOfSeq
    <2>. QED BY <2>1, <2>2, CpsType DEF IInv, Choice
  <1>2. /\ cps'[i].spb = cps[i].spb
        /\ (i # B => cps'[i + 1].spb = cps[i + 1].spb)
    BY <1>1 DEF Raised
  <1>3. cps[i].hb <= cps'[i].hb
    <2>1. CASE i <= n /\ n = B
      <3>1. cps'[i].hb = h' /\ cps[i].hb <= h
        BY <1>1, <2>1, ProtectedNested DEF Raised, HBLast, IInv
      <3>. QED BY <1>1, <3>1, InvFacts DEF Sets
    <2>2. CASE i <= n /\ n # B
      <3>1. n + 1 \in i .. B /\ cps'[i].hb = cps[n + 1].hb
        BY <1>1, <2>2 DEF Raised, HBLast
      <3>. QED BY <3>1, ProtectedNested DEF IInv
    <2>3. CASE ~ (i <= n)
      BY <1>1, <2>3 DEF Raised
    <2>. QED BY <2>1, <2>2, <2>3
  <1>4. ASSUME NEW a \in ViewCells(i)
        PROVE  a \in ViewCells(i)' /\ ViewAt(i, a)' = ViewAt(i, a)
    <2>1. a \in cps[i].spb .. cps[i].hb - 1
      BY DEF ViewCells
    <2>2. a \in cps'[i].spb .. cps'[i].hb - 1
      BY <1>1, <1>2, <1>3, <2>1
    <2>3. ViewAt(i, a)' = ViewAt(i, a)
      BY <2>1, ViewsKept DEF IInv, Sets
    <2>. QED BY <2>2, <2>3 DEF ViewCells
  <1>5. ASSUME NEW a \in ViewCells(i)', a \notin ViewCells(i)
        PROVE  /\ a >= HeapBase
               /\ i # B => a \in ViewCells(i + 1)' /\ ViewAt(i, a)' = ViewAt(i + 1, a)'
               /\ i = B => a \in sp' .. h' - 1 /\ ViewAt(i, a)' = store'[a]
    <2>1. /\ a \in cps'[i].spb .. cps'[i].hb - 1
          /\ a \notin cps[i].spb .. cps[i].hb - 1
      BY <1>5 DEF ViewCells
    <2>2. a \in Int /\ a >= cps[i].hb /\ a < cps'[i].hb /\ a >= cps'[i].spb
      BY <1>1, <1>2, <2>1
    <2>3. i <= n
      BY <1>1, <2>2 DEF Raised
    (* the last cell of choice point i's own trail is below its old HB *)
    <2>4. a \notin cps'[i].trail
      <3>1. /\ cps[i].trail \subseteq cps[i].spb .. cps[i].hb - 1
            /\ spb .. hb - 1 = cps[B].spb .. cps[B].hb - 1
        BY DEF IInv, ChoicesOrdered
      <3>2. cps'[i].trail \subseteq cps[i].spb .. cps[i].hb - 1
        BY <3>1 DEF Sets, Trails
      <3>. QED BY <2>1, <3>2
    <2>5. a >= HeapBase
      <3>1. cps[i].hb >= HeapBase /\ HeapBase \in Nat
        BY InvFacts DEF IInv, ChoicesOrdered
      <3>. QED BY <1>1, <2>2, <3>1
    <2>6. CASE i # B
      <3>1. a \in ViewCells(i + 1)'
        <4>1. cps'[i].hb <= cps'[i + 1].hb /\ cps'[i + 1].spb <= cps'[i].spb
          BY <1>1, <2>6 DEF IInv, ChoicesOrdered
        <4>2. a \in cps'[i + 1].spb .. cps'[i + 1].hb - 1
          BY <1>1, <2>2, <2>6, <4>1
        <4>. QED BY <4>2 DEF ViewCells
      <3>2. a \in TrailedFrom(i)' <=> a \in TrailedFrom(i + 1)'
        <4>1. /\ a \in TrailedFrom(i)' <=> \E j \in i .. B : a \in cps'[j].trail
              /\ a \in TrailedFrom(i + 1)' <=> \E j \in i + 1 .. B : a \in cps'[j].trail
          BY <1>1 DEF TrailedFrom
        <4>2. i .. B = (i + 1 .. B) \cup {i}
          BY <1>1
        <4>. QED BY <2>4, <4>1, <4>2
      <3>. QED BY <2>5, <2>6, <3>1, <3>2 DEF ViewAt
    <2>7. CASE i = B
      <3>1. a \in sp' .. h' - 1
        <4>1. cps'[B].hb <= h' /\ sp' <= cps'[B].spb
          BY <1>1 DEF IInv, ChoicesOrdered
        <4>2. sp' \in Int /\ h' \in Int /\ cps'[B].hb \in Int /\ cps'[B].spb \in Int
          BY <1>1, InvFacts DEF Sets
        <4>3. cps'[B].spb .. cps'[B].hb - 1 \subseteq sp' .. h' - 1
          BY <4>1, <4>2, Within
        <4>. QED BY <2>1, <2>7, <4>3
      <3>2. a \notin TrailedFrom(i)'
        <4>1. a \in TrailedFrom(i)' <=> \E j \in i .. B : a \in cps'[j].trail
          BY <1>1 DEF TrailedFrom
        <4>2. \A j \in i .. B : j = i
          BY <1>1, <2>7
        <4>. QED BY <2>4, <4>1, <4>2
      <3>. QED BY <2>5, <2>7, <3>1, <3>2 DEF ViewAt
    <2>. QED BY <2>6, <2>7
  <1>. QED BY <1>4, <1>5

LEMMA SetsSetGlobal ==
  ASSUME IInv, IInv', Sets
  PROVE  Copies!SetGlobal
  <1>1. /\ B \in Nat /\ B \in 1 .. B /\ B' = B
        /\ Len(Views) = B /\ \A i \in 1 .. B : Views[i] = View(i)
        /\ Len(Views') = B /\ \A i \in 1 .. B : Views'[i] = View(i)'
    <2>1. B' = B
      BY DEF Sets, Trails, B
    <2>. QED BY <2>1, ViewsProperties, NextViewsProperties DEF IInv
  <1>2. PICK n \in 0 .. B : Raised(n, HBLast(n))
    BY DEF Sets
  <1>3. \E g \in DOMAIN gv : gv' = [gv EXCEPT ![g] = gv'[g]]
    <2>1. PICK g \in GVars : \A f \in GVars : f # g => gv'[f] = gv[f]
      BY DEF Sets
    <2>2. gv \in [GVars -> Word] /\ gv' \in [GVars -> Word]
      BY DEF Sets, IInv, TypeOK
    <2>. QED BY <2>1, <2>2
  <1>4. /\ DOMAIN store = sp .. h - 1 /\ DOMAIN store' = sp' .. h' - 1
        /\ sp' = sp /\ h' \in h .. HeapEnd /\ sp \in Nat /\ h \in Nat /\ HeapEnd \in Nat
    BY InvFacts DEF Sets, Memory
  <1>5. Copies!Cells(store) \subseteq Copies!Cells(store')
    <2>1. sp \in Int /\ h \in Int /\ h' \in Int /\ sp <= sp /\ h <= h'
      BY <1>4
    <2>2. sp .. h - 1 \subseteq sp .. h' - 1
      BY <2>1, Within
    <2>. QED BY <1>4, <2>2 DEF Copies!Cells
  <1>6. \A a \in Copies!Cells(store) : store'[a] = store[a] \/ Unbound(store, a)
    BY <1>4 DEF Copies!Cells, Sets
  <1>7. ASSUME NEW i \in 1 .. B
        PROVE  /\ \A a \in Copies!Cells(Views[i]) :
                    a \in Copies!Cells(Views'[i]) /\ Views'[i][a] = Views[i][a]
               /\ \A a \in Copies!Cells(Views'[i]) \ Copies!Cells(Views[i]) :
                    /\ a >= HeapBase
                    /\ a \in Copies!Cells(Copies!NextNewer(i))
                    /\ Views'[i][a] = Copies!NextNewer(i)[a]
    <2>1. /\ Views[i] = View(i) /\ Views'[i] = View(i)'
          /\ DOMAIN View(i) = ViewCells(i) /\ DOMAIN View(i)' = ViewCells(i)'
          /\ \A a \in ViewCells(i) : View(i)[a] = ViewAt(i, a)
          /\ \A a \in ViewCells(i)' : View(i)'[a] = ViewAt(i, a)'
      BY <1>1 DEF View, ViewAt, ViewCells
    <2>2. Copies!NextNewer(i) = IF i = B THEN store' ELSE View(i + 1)'
      <3>1. Copies!NextNewer(i) = IF i = Len(Views') THEN store' ELSE Views'[i + 1]
        BY DEF Copies!NextNewer, Views
      <3>2. i # B => i + 1 \in 1 .. B
        BY <1>1
      <3>. QED BY <1>1, <3>1, <3>2
    <2>3. /\ DOMAIN View(i + 1)' = ViewCells(i + 1)'
          /\ \A a \in ViewCells(i + 1)' : View(i + 1)'[a] = ViewAt(i + 1, a)'
      BY DEF View, ViewAt, ViewCells
    <2>4. \A a \in ViewCells(i) : a \in ViewCells(i)' /\ ViewAt(i, a)' = ViewAt(i, a)
      BY <1>2, RaisedView
    <2>5. \A a \in ViewCells(i)' \ ViewCells(i) :
            /\ a >= HeapBase
            /\ i # B => a \in ViewCells(i + 1)' /\ ViewAt(i, a)' = ViewAt(i + 1, a)'
            /\ i = B => a \in sp' .. h' - 1 /\ ViewAt(i, a)' = store'[a]
      BY <1>2, RaisedView
    <2>6. \A a \in Copies!Cells(Views[i]) :
            a \in Copies!Cells(Views'[i]) /\ Views'[i][a] = Views[i][a]
      BY <2>1, <2>4 DEF Copies!Cells
    <2>7. \A a \in Copies!Cells(Views'[i]) \ Copies!Cells(Views[i]) :
            /\ a >= HeapBase
            /\ a \in Copies!Cells(Copies!NextNewer(i))
            /\ Views'[i][a] = Copies!NextNewer(i)[a]
      BY <1>4, <2>1, <2>2, <2>3, <2>5 DEF Copies!Cells
    <2>. QED BY <2>6, <2>7
  <1>. QED BY <1>1, <1>3, <1>5, <1>6, <1>7 DEF Copies!SetGlobal, Copies!Unbound, Unbound,
                                               Copies!Ref, Ref, Views
------------------------------------------------------------------------------
(* TRY: the view of the new choice point is the whole memory. *)
LEMMA TryMark ==
  ASSUME IInv, Try
  PROVE  Copies!Mark
  <1>. DEFINE new == [hb |-> h, spb |-> sp, trail |-> {}]
  <1>1. /\ store' = store /\ gv' = gv /\ cps' = Append(cps, new)
        /\ new.hb = h /\ new.spb = sp /\ new.trail = {}
    BY DEF Try
  <1>2. /\ B \in Nat /\ B >= 1 /\ cps \in Seq(Choice) /\ Len(cps) = B
        /\ Len(Views) = B /\ \A i \in 1 .. B : Views[i] = View(i)
        /\ Views \in Seq({Views[i] : i \in 1 .. B})
    BY CpsType, ViewsProperties DEF IInv, TypeOK, B
  <1>3. new \in Choice
    BY InvFacts DEF Choice
  <1>. HIDE DEF new
  <1>4. /\ Len(cps') = B + 1 /\ \A i \in 1 .. B : cps'[i] = cps[i]
        /\ cps'[B + 1] = new
    BY <1>1, <1>2, <1>3, AppendProperties
  <1>n. PICK n : n = B + 1
    OBVIOUS
  <1>5. /\ B' = n /\ n \in Nat /\ n \notin 1 .. B
        /\ \A i \in 1 .. n : i \in 1 .. B \/ i = n
    BY <1>2, <1>4, <1>n DEF B
  <1>6. ASSUME NEW i \in 1 .. B
        PROVE  View(i)' = View(i)
    <2>1. ViewCells(i)' = ViewCells(i)
      BY <1>4 DEF ViewCells
    <2>2. ASSUME NEW a \in ViewCells(i)
          PROVE  ViewAt(i, a)' = ViewAt(i, a)
      <3>1. a \in TrailedFrom(i)' <=> \E j \in i .. n : a \in cps'[j].trail
        BY <1>5 DEF TrailedFrom
      <3>2. a \in TrailedFrom(i) <=> \E j \in i .. B : a \in cps[j].trail
        BY TrailedFromDef
      <3>3. i .. n = (i .. B) \cup {n} /\ \A j \in i .. B : j \in 1 .. B
        BY <1>2, <1>n
      <3>4. a \in TrailedFrom(i)' <=> a \in TrailedFrom(i)
        BY <1>1, <1>4, <1>n, <3>1, <3>2, <3>3
      <3>. QED BY <1>1, <3>4 DEF ViewAt
    <2>. QED BY <2>1, <2>2, ViewKept
  <1>7. View(n)' = store
    <2>1. ViewCells(n)' = sp .. h - 1
      BY <1>1, <1>4, <1>n DEF ViewCells
    <2>2. View(n)' = [a \in ViewCells(n)' |-> ViewAt(n, a)']
      BY DEF View, ViewAt, ViewCells
    <2>3. ASSUME NEW a \in sp .. h - 1
          PROVE  ViewAt(n, a)' = store[a]
      <3>1. a \in TrailedFrom(n)' <=> \E j \in n .. n : a \in cps'[j].trail
        BY <1>5 DEF TrailedFrom
      <3>2. \A j \in n .. n : j = n
        BY <1>5
      <3>3. a \notin TrailedFrom(n)'
        BY <1>1, <1>4, <1>n, <3>1, <3>2
      <3>. QED BY <1>1, <3>3 DEF ViewAt
    <2>4. store = [a \in sp .. h - 1 |-> store[a]]
      BY DEF IInv, TypeOK, Live
    <2>. QED BY <2>1, <2>2, <2>3, <2>4
  <1>8. Views' = Append(Views, store)
    <2>. DEFINE marked == Append(Views, store)
                S == {Views[i] : i \in 1 .. B} \cup {store}
    <2>1. Views \in Seq(S) /\ store \in S
      BY <1>2, LenProperties, SeqDef
    <2>2. /\ marked \in Seq(S) /\ Len(marked) = n
          /\ \A i \in 1 .. B : marked[i] = Views[i]
          /\ marked[n] = store
      <3>. HIDE DEF S
      <3>. QED BY <1>2, <1>n, <2>1, AppendProperties
    <2>3. DOMAIN marked = 1 .. n /\ marked = [i \in 1 .. n |-> marked[i]]
      <3>. HIDE DEF marked, S
      <3>1. marked \in [1 .. Len(marked) -> S]
        BY <2>2, LenProperties
      <3>. QED BY <2>2, <3>1
    <2>4. Views' = [i \in 1 .. n |-> View(i)']
      BY <1>5 DEF Views
    <2>5. \A i \in 1 .. n : View(i)' = marked[i]
      BY <1>2, <1>5, <1>6, <1>7, <2>2
    <2>. HIDE DEF marked
    <2>6. Views' = marked
      BY <2>3, <2>4, <2>5
    <2>. QED BY <2>6 DEF marked
  <1>. QED BY <1>1, <1>8 DEF Copies!Mark, Views

(***************************************************************************)
(* What retry, trust and cut leave of the choice points keeps its views.   *)
(***************************************************************************)
LEMMA ViewsCutBack ==
  ASSUME IInv, NEW n \in 1 .. B, KeepsViews(n)
  PROVE  /\ n = B => Views' = Views
         /\ Views' = SubSeq(Views, 1, n)
  <1>1. /\ B \in Nat /\ n \in Nat /\ B' = n
        /\ Len(Views) = B /\ \A i \in 1 .. B : Views[i] = View(i)
        /\ \A i \in 1 .. n : i \in 1 .. B
    <2>1. B \in Nat /\ Len(Views) = B /\ \A i \in 1 .. B : Views[i] = View(i)
      BY ViewsProperties DEF IInv
    <2>2. B' = n
      BY DEF KeepsViews, B
    <2>. QED BY <2>1, <2>2
  <1>2. ASSUME NEW i \in 1 .. n
        PROVE  View(i)' = View(i)
    <2>1. ViewCells(i)' = ViewCells(i)
      BY DEF KeepsViews, ViewCells
    <2>2. \A a \in ViewCells(i) : ViewAt(i, a)' = ViewAt(i, a)
      BY DEF KeepsViews, ViewCells
    <2>. QED BY <2>1, <2>2, ViewKept
  <1>3. Views' = [i \in 1 .. n |-> Views[i]]
    BY <1>1, <1>2 DEF Views
  <1>4. n = B => Views' = Views
    BY <1>3 DEF Views
  <1>5. SubSeq(Views, 1, n) = [i \in 1 .. n |-> Views[i]]
    BY <1>1
  <1>. QED BY <1>3, <1>4, <1>5

LEMMA RetryRetry ==
  ASSUME IInv, Retry
  PROVE  Copies!Retry
  <1>1. KeepsViews(B) /\ B \in 1 .. B
    BY RetryInv, CpsType DEF IInv
  <1>2. Views' = Views
    BY <1>1, ViewsCutBack
  <1>. QED BY <1>2, NewestView DEF Retry, Copies!Retry, Views

LEMMA TrustTrust ==
  ASSUME IInv, Trust
  PROVE  Copies!Trust
  <1>1. KeepsViews(B - 1) /\ B - 1 \in 1 .. B /\ B > 1 /\ Len(Views) = B
    BY TrustInv, CpsType, ViewsProperties DEF IInv, Trust
  <1>2. Views' = SubSeq(Views, 1, Len(Views) - 1)
    BY <1>1, ViewsCutBack
  <1>. QED BY <1>1, <1>2, NewestView DEF Trust, Copies!Trust, Views

(* A cut that reaches no choice point but the newest changes nothing. *)
LEMMA CutCut ==
  ASSUME IInv, NEW e \in StackAddr, Cut(e)
  PROVE  Copies!Cut \/ UNCHANGED Copies!absvars
  <1>1. PICK k \in 1 .. B : KeepsViews(k)
    BY CutInv
  <1>2. store' = store /\ gv' = gv
    BY DEF Cut
  <1>3. B \in Nat /\ Len(Views) = B
    BY ViewsProperties DEF IInv
  <1>4. CASE k = B
    BY <1>1, <1>2, <1>4, ViewsCutBack DEF Copies!absvars, Views
  <1>5. CASE k # B
    <2>1. k \in 1 .. Len(Views) - 1 /\ Views' = SubSeq(Views, 1, k)
      BY <1>1, <1>3, <1>5, ViewsCutBack
    <2>. QED BY <1>2, <2>1 DEF Copies!Cut, Views
  <1>. QED BY <1>4, <1>5
------------------------------------------------------------------------------
LEMMA InitRefines ==
  Init => Copies!Init
  <1>. SUFFICES ASSUME Init PROVE Copies!Init
    OBVIOUS
  <1>1. /\ store = << >> /\ gv = [g \in GVars |-> Con] /\ HeapBase \in Nat
        /\ Len(cps) = 1
        /\ cps[1].hb = HeapBase /\ cps[1].spb = HeapBase
    BY HeapBaseAssumption DEF Init
  <1>2. B = 1
    BY <1>1 DEF B
  <1>3. HeapBase .. HeapBase - 1 = {}
    BY <1>1
  <1>4. View(1) = << >>
    BY <1>1, <1>3 DEF View
  <1>5. Views = << store >>
    <2>1. 1 .. 1 = {1}
      OBVIOUS
    <2>. QED BY <1>1, <1>2, <1>4, <2>1 DEF Views
  <1>6. \A g \in DOMAIN gv : gv[g] = Con
    BY <1>1
  <1>. QED BY <1>1, <1>5, <1>6 DEF Copies!Init, Copies!Con, Con, Views

LEMMA StepRefines ==
  ASSUME IInv, IInv', [Next]_vars
  PROVE  [Copies!Next]_(Copies!absvars)
  <1>1. CASE \E r \in Live, w \in Operands : BindValue(r, w)
    BY <1>1, BindValueBuilds, BuildsRun DEF Copies!Next
  <1>2. CASE \E f1, f2 \in Live : UnifyVars(f1, f2)
    BY <1>2, UnifyVarsBuilds, BuildsRun DEF Copies!Next
  <1>3. CASE InitYVar
    BY <1>3, InitYVarBuilds, BuildsRun DEF Copies!Next
  <1>4. CASE \E c \in Live : Move(c)
    BY <1>4, MoveBuilds, BuildsRun DEF Copies!Next
  <1>5. CASE PutXVar
    BY <1>5, PutXVarBuilds, BuildsRun DEF Copies!Next
  <1>6. CASE \E w \in Operands : PutStructure(w)
    BY <1>6, PutStructureBuilds, BuildsRun DEF Copies!Next
  <1>7. CASE \E w \in Operands, s \in sp + 1 .. spb : LastCall(w, s)
    BY <1>7, LastCallBuilds, BuildsRun DEF Copies!Next
  <1>8. CASE Try
    BY <1>8, TryMark DEF Copies!Next
  <1>9. CASE Retry
    BY <1>9, RetryRetry DEF Copies!Next
  <1>10. CASE Trust
    BY <1>10, TrustTrust DEF Copies!Next
  <1>11. CASE \E e \in StackAddr : Cut(e)
    BY <1>11, CutCut DEF Copies!Next
  <1>12. CASE \E g \in GVars, w \in Operands : GvSet(g, w)
    <2>1. Sets
      BY <1>12, GvSetConstantInv, GvSetHeapInv, GvSetStackVarInv DEF GvSet
    <2>. QED BY <2>1, SetsSetGlobal DEF Copies!Next
  <1>13. CASE UNCHANGED vars
    BY <1>13 DEF vars, regs, Copies!absvars, B, View, TrailedFrom
  <1>. QED BY <1>1, <1>2, <1>3, <1>4, <1>5, <1>6, <1>7, <1>8, <1>9, <1>10, <1>11,
              <1>12, <1>13 DEF Next

(***************************************************************************)
(* The trail does what copies of the memory would: RETRY and TRUST restore *)
(* exactly the memory of the choice point's creation, but for the heap     *)
(* cells that gv_set has since given it, and cut and gv_set take nothing   *)
(* from the choice points that stay.                                       *)
(***************************************************************************)
THEOREM BacktrackingRestores == Spec => RestoresSnapshots
  <1>1. Init => Copies!Init
    BY InitRefines
  <1>2. IInv /\ IInv' /\ [Next]_vars => [Copies!Next]_(Copies!absvars)
    BY StepRefines
  <1>. QED BY <1>1, <1>2, Invariant, PTL DEF Spec, RestoresSnapshots, Copies!Spec
==============================================================================
