--------------------------- MODULE TrailStackProofs ---------------------------
(***************************************************************************)
(* Proofs about TrailStack, for every size of the area, every GV_SHIFT and *)
(* every depth of calls of run_wam: first the inductive invariant and what *)
(* follows from it, then that the area does what ChoiceStack says.         *)
(***************************************************************************)
EXTENDS TrailStack, FiniteSetTheorems, FunctionTheorems,
        WellFoundedInduction, SequenceTheorems, TLAPS

(***************************************************************************)
(* The inductive invariant, in parts.                                      *)
(*                                                                         *)
(* The choice points of a trail w from the newest, n, up to the oldest,    *)
(* just below top: where a word points upward                              *)
(***************************************************************************)
ChoicesOf(w, n, top) == {c \in n .. top - 4 : c = top - 4 \/ w[c + 3] > c + 3}

(***************************************************************************)
(* They are linked, each to the next older one; no word but the PrevB ones *)
(* points upward, and all the others are small enough not to do so even    *)
(* where gv_alloc moves them; older choice points have a higher SPB.       *)
(***************************************************************************)
Plain(v) == v \in 0 .. Low

ChainOf(w, n, top) ==
  LET base == ChoicesOf(w, n, top)
  IN  /\ n \in base
      /\ w[top - 1] = 0
      /\ \A c \in base : c # top - 4 => /\ w[c + 3] \in base
                                        /\ \A d \in base : d > c => d >= w[c + 3]
      /\ \A c \in base : w[c + 1] \in HeapTop /\ w[c + 2] \in StackTop
      /\ \A c, d \in base : c < d => w[c + 2] <= w[d + 2]
      /\ \A x \in n .. top - 1 : Plain(w[x]) \/ (w[x] > x /\ x - 3 \in base)

(***************************************************************************)
(* What a caller of run_wam left on the register stack: its choice point   *)
(* is still there, and the one next to it, which the goal was called with, *)
(* protects the stack from the goal's frame on.                            *)
(***************************************************************************)
CallerOf(w, base, r) ==
  /\ r.b \in base /\ r.spb = w[r.b + 2] /\ r.sp <= r.spb
  /\ \E c \in base : c < r.b /\ w[c + 3] = r.b /\ w[c + 2] = r.sp - 1

(***************************************************************************)
(* All of it: the trail w from t, with the newest choice point n and the   *)
(* registers h and s, and the first k callers on the register stack calls  *)
(***************************************************************************)
Holds(w, t, n, top, h, s, calls, k) ==
  /\ t <= n
  /\ ChainOf(w, n, top)
  /\ \A x \in t .. n - 1 : Plain(w[x])
  /\ h = w[n + 1] /\ s = w[n + 2]
  /\ \A i \in 1 .. k : CallerOf(w, ChoicesOf(w, n, top), calls[i])
  /\ \A i, j \in 1 .. k : i < j => calls[j].b < calls[i].b

Waiting == IF pc = "return" THEN Len(regstack) - 1 ELSE Len(regstack)

(* The trail as it was before gv_alloc began to move it *)
Was == [x \in tr .. trailbase - 1 |-> Unmoved(x)]

Chained == Holds(IF pc = "shift" THEN Was ELSE word, tr, b, trailbase, hb, spb, regstack, Waiting)

(***************************************************************************)
(* The sweeps of cut and get_out read from at down to end, and write below *)
(* tr, which never passes at: what is still to be read is as it was.  A    *)
(* PrevB word belongs to a choice point that is all there.                 *)
(***************************************************************************)
Sweeping ==
  /\ DOMAIN word = end .. GVBase - 1
  /\ Low <= end /\ end <= at + 1 /\ at < tr
  /\ \A x \in end .. at : Plain(word[x]) \/ (word[x] > x /\ x - 3 >= end)
  /\ pc = "return" =>
       /\ regstack # << >>
       /\ regstack[Len(regstack)].b = b /\ regstack[Len(regstack)].spb = spb

(* gv_alloc's loop: the words from tr to below at have moved. *)
Shifting ==
  /\ DOMAIN word = (tr - GV_SHIFT .. at - 1 - GV_SHIFT) \cup (tr .. GVBase - 1)
  /\ tr <= at /\ at <= trailbase /\ Low <= tr - GV_SHIFT
  /\ \A x \in tr .. at - 1 :
       Plain(word[x - GV_SHIFT])
         \/ (word[x - GV_SHIFT] > x - GV_SHIFT /\ word[x - GV_SHIFT] < trailbase - GV_SHIFT)
  /\ freelist = 0 /\ end = 0

(* The free global variables are listed, each once. *)
FreeVars(base, used) == (base .. GVBase - 1) \ {GVBase - v : v \in used}

Lists(n, f, w, head, free) ==
  /\ f \in [1 .. n -> free]
  /\ \A i, j \in 1 .. n : f[i] = f[j] => i = j
  /\ \A x \in free : \E i \in 1 .. n : f[i] = x
  /\ head = IF n = 0 THEN 0 ELSE f[1]
  /\ \A i \in 1 .. n : w[f[i]] = IF i = n THEN 0 ELSE f[i + 1]

FreeListed(w, head, free) == \E n \in Nat : \E f : Lists(n, f, w, head, free)

IInv ==
  /\ TypeOK
  /\ Chained
  /\ pc = "run" => at = 0 /\ end = 0
  /\ pc \in {"cut", "return"} => Sweeping
  /\ pc = "shift" => Shifting
  /\ FreeListed(word, freelist, FreeVars(trailbase, allocated))
------------------------------------------------------------------------------
(***************************************************************************)
(* Chains of choice points                                                 *)
(***************************************************************************)

(* Two choice points do not overlap. *)
LEMMA ChoicesApart ==
  ASSUME NEW w, NEW n \in Int, NEW top \in Int, ChainOf(w, n, top),
         NEW c \in ChoicesOf(w, n, top), NEW d \in ChoicesOf(w, n, top), c < d
  PROVE  c # top - 4 /\ w[c + 3] > c + 3 /\ w[c + 3] <= d /\ c + 4 <= d
  <1>1. c \in Int /\ d \in Int /\ d <= top - 4 /\ c # top - 4
    BY DEF ChoicesOf
  <1>2. w[c + 3] > c + 3 /\ w[c + 3] \in ChoicesOf(w, n, top) /\ d >= w[c + 3]
    BY <1>1 DEF ChoicesOf, ChainOf
  <1>3. w[c + 3] \in Int
    BY <1>2 DEF ChoicesOf
  <1>. QED BY <1>1, <1>2, <1>3

(* Nothing but the words from the newest choice point on matters. *)
LEMMA ChainFrame ==
  ASSUME NEW w, NEW v, NEW n \in Int, NEW top \in Int, ChainOf(w, n, top),
         \A x \in n .. top - 1 : v[x] = w[x]
  PROVE  ChainOf(v, n, top) /\ ChoicesOf(v, n, top) = ChoicesOf(w, n, top)
  <1>. DEFINE B == ChoicesOf(w, n, top)
  <1>1. \A c \in n .. top - 4 : v[c + 1] = w[c + 1] /\ v[c + 2] = w[c + 2] /\ v[c + 3] = w[c + 3]
    OBVIOUS
  <1>2. ChoicesOf(v, n, top) = B
    BY <1>1 DEF ChoicesOf
  <1>3. \A c \in B : c \in n .. top - 4
    BY DEF ChoicesOf
  <1>4. v[top - 1] = 0
    BY <1>3 DEF ChainOf
  <1>5. /\ \A c \in B : v[c + 1] = w[c + 1] /\ v[c + 2] = w[c + 2] /\ v[c + 3] = w[c + 3]
        /\ \A x \in n .. top - 1 : v[x] = w[x]
    BY <1>1, <1>3
  <1>6. ChainOf(w, n, top)
    OBVIOUS
  <1>. HIDE DEF B
  <1>. QED BY <1>2, <1>4, <1>5, <1>6 DEF ChainOf, B

(* A new choice point at m *)
LEMMA ChainPush ==
  ASSUME NEW w, NEW v, NEW n \in Int, NEW m \in Int, NEW top \in Int,
         ChainOf(w, n, top), Low <= m, m + 4 <= n,
         \A x \in n .. top - 1 : v[x] = w[x],
         \A x \in m + 4 .. n - 1 : Plain(v[x]),
         v[m] = 0, v[m + 1] \in HeapTop, v[m + 2] \in StackTop, v[m + 3] = n,
         v[m + 2] <= w[n + 2]
  PROVE  ChainOf(v, m, top) /\ ChoicesOf(v, m, top) = ChoicesOf(w, n, top) \cup {m}
  <1>. DEFINE B == ChoicesOf(w, n, top)
  <1>1. ChainOf(v, n, top) /\ ChoicesOf(v, n, top) = B
    BY ChainFrame
  <1>2. n \in B /\ n <= top - 4 /\ \A c \in B : c \in n .. top - 4
    BY DEF ChoicesOf, ChainOf
  <1>3. \A x \in m .. n + 2 : x # m + 3 => Plain(v[x])
    <2>1. \A x \in n .. n + 2 : Plain(v[x])
      <3>. SUFFICES ASSUME NEW x \in n .. n + 2 PROVE Plain(v[x])
        OBVIOUS
      <3>1. x \in n .. top - 1 /\ x - 3 \notin n .. top - 4
        BY <1>2
      <3>. QED BY <1>1, <1>2, <3>1 DEF ChainOf
    <2>2. Plain(v[m]) /\ Plain(v[m + 1]) /\ Plain(v[m + 2])
      BY AreaAssumption DEF Plain, HeapTop, StackTop
    <2>3. \A x \in m .. n + 2 : x # m + 3 =>
            x \in n .. n + 2 \/ x \in m + 4 .. n - 1 \/ x = m \/ x = m + 1 \/ x = m + 2
      OBVIOUS
    <2>. QED BY <2>1, <2>2, <2>3
  <1>4. ChoicesOf(v, m, top) = B \cup {m}
    <2>1. ASSUME NEW c \in m .. n - 1, c # m
          PROVE  ~ (v[c + 3] > c + 3)
      <3>1. c + 3 \in m .. n + 2 /\ c + 3 # m + 3
        BY <2>1
      <3>2. Plain(v[c + 3])
        BY <1>3, <3>1
      <3>. QED BY <3>1, <3>2, AreaAssumption DEF Plain
    <2>2. \A c \in m .. top - 4 : c \in n .. top - 4 \/ c \in m .. n - 1
      OBVIOUS
    <2>3. m \in m .. top - 4 /\ v[m + 3] > m + 3 /\ m # top - 4
      BY <1>2
    <2>4. \A c \in n .. top - 4 : c \in m .. top - 4 /\ (c \in B <=> c = top - 4 \/ v[c + 3] > c + 3)
      BY <1>1 DEF ChoicesOf
    <2>5. \A c \in m .. n - 1 : c # top - 4
      BY <1>2
    <2>6. \A c \in B : c \in n .. top - 4
      BY <1>2
    <2>. HIDE DEF B
    <2>. QED BY <2>1, <2>2, <2>3, <2>4, <2>5, <2>6 DEF ChoicesOf
  <1>5. v[top - 1] = 0 /\ m # top - 4
    BY <1>1, <1>2 DEF ChainOf
  <1>6. \A c \in B \cup {m} : c # top - 4 => /\ v[c + 3] \in B \cup {m}
                                             /\ \A d \in B \cup {m} : d > c => d >= v[c + 3]
    <2>1. \A c \in B : c # top - 4 => /\ v[c + 3] \in B
                                      /\ \A d \in B : d > c => d >= v[c + 3]
      BY <1>1 DEF ChainOf
    <2>2. \A d \in B : d >= n /\ ~ (m > d) /\ ~ (m > m)
      BY <1>2
    <2>3. v[m + 3] = n /\ n \in B
      BY <1>2
    <2>. HIDE DEF B
    <2>. QED BY <2>1, <2>2, <2>3
  <1>7. \A c \in B \cup {m} : v[c + 1] \in HeapTop /\ v[c + 2] \in StackTop
    BY <1>1 DEF ChainOf
  <1>8. \A c, d \in B \cup {m} : c < d => v[c + 2] <= v[d + 2]
    <2>1. \A c, d \in B : c < d => v[c + 2] <= v[d + 2]
      BY <1>1 DEF ChainOf
    <2>2. v[m + 2] \in Int /\ \A c \in B : v[c + 2] \in Int
      BY <1>7, AreaAssumption DEF StackTop
    <2>3. v[m + 2] <= v[n + 2]
      BY <1>2
    <2>4. \A d \in B : v[m + 2] <= v[d + 2]
      <3>. SUFFICES ASSUME NEW d \in B PROVE v[m + 2] <= v[d + 2]
        OBVIOUS
      <3>1. d = n \/ n < d
        BY <1>2
      <3>2. n < d => v[n + 2] <= v[d + 2]
        BY <2>1, <1>2
      <3>3. v[n + 2] \in Int
        BY <2>2, <1>2
      <3>. HIDE DEF B
      <3>. QED BY <3>1, <3>2, <3>3, <2>2, <2>3
    <2>5. \A c \in B \cup {m} : ~ (c < m)
      BY <1>2
    <2>. HIDE DEF B
    <2>. QED BY <2>1, <2>4, <2>5
  <1>9. \A x \in m .. top - 1 : Plain(v[x]) \/ (v[x] > x /\ x - 3 \in B \cup {m})
    <2>1. \A x \in n .. top - 1 : Plain(v[x]) \/ (v[x] > x /\ x - 3 \in B)
      BY <1>1 DEF ChainOf
    <2>2. \A x \in m .. top - 1 : x \in n .. top - 1 \/ x = m + 3 \/ (x \in m .. n + 2 /\ x # m + 3)
      BY <1>2
    <2>3. v[m + 3] > m + 3 /\ (m + 3) - 3 = m
      OBVIOUS
    <2>. HIDE DEF B
    <2>. QED BY <2>1, <2>2, <2>3, <1>3
  <1>10. m \in B \cup {m}
    OBVIOUS
  <1>. HIDE DEF B
  <1>. QED BY <1>4, <1>5, <1>6, <1>7, <1>8, <1>9, <1>10 DEF ChainOf, B

(* Back to an older choice point c *)
LEMMA ChainDrop ==
  ASSUME NEW w, NEW n \in Int, NEW top \in Int, ChainOf(w, n, top),
         NEW c \in ChoicesOf(w, n, top)
  PROVE  /\ ChainOf(w, c, top)
         /\ ChoicesOf(w, c, top) = {d \in ChoicesOf(w, n, top) : d >= c}
  <1>. DEFINE B == ChoicesOf(w, n, top)
              D == {d \in B : d >= c}
  <1>1. c \in n .. top - 4 /\ \A d \in B : d \in n .. top - 4
    BY DEF ChoicesOf
  <1>2. ChoicesOf(w, c, top) = D
    BY <1>1 DEF ChoicesOf
  <1>3. w[top - 1] = 0 /\ c \in D
    BY <1>1 DEF ChainOf
  <1>4. \A d \in D : d # top - 4 => /\ w[d + 3] \in D
                                    /\ \A e \in D : e > d => e >= w[d + 3]
    <2>. SUFFICES ASSUME NEW d \in D, d # top - 4
                  PROVE  w[d + 3] \in D /\ \A e \in D : e > d => e >= w[d + 3]
      OBVIOUS
    <2>1. w[d + 3] \in B /\ \A e \in B : e > d => e >= w[d + 3]
      BY DEF ChainOf
    <2>2. w[d + 3] > d + 3
      BY DEF ChoicesOf
    <2>3. w[d + 3] >= c
      <3>1. d \in Int /\ d >= c /\ w[d + 3] \in Int
        <4>1. d \in B /\ d >= c
          OBVIOUS
        <4>. HIDE DEF B, D
        <4>. QED BY <1>1, <2>1, <4>1
      <3>. QED BY <2>2, <3>1
    <2>. QED BY <2>1, <2>3
  <1>5. \A d \in D : w[d + 1] \in HeapTop /\ w[d + 2] \in StackTop
    BY DEF ChainOf
  <1>6. \A d, e \in D : d < e => w[d + 2] <= w[e + 2]
    BY DEF ChainOf
  <1>7. \A x \in c .. top - 1 : Plain(w[x]) \/ (w[x] > x /\ x - 3 \in D)
    <2>. SUFFICES ASSUME NEW x \in c .. top - 1, ~ Plain(w[x])
                  PROVE  w[x] > x /\ x - 3 \in D
      OBVIOUS
    <2>1. x \in n .. top - 1
      BY <1>1
    <2>2. w[x] > x /\ x - 3 \in B
      BY <2>1 DEF ChainOf
    <2>3. x - 3 < c => (x - 3) + 4 <= c
      BY <2>2, ChoicesApart
    <2>4. x - 3 >= c
      BY <2>3, <1>1
    <2>. QED BY <2>2, <2>4
  <1>8. ChainOf(w, c, top)
    <2>. HIDE DEF B, D
    <2>. QED BY <1>2, <1>3, <1>4, <1>5, <1>6, <1>7 DEF ChainOf
  <1>. QED BY <1>2, <1>8

(* The HB of choice points changes. *)
Raises(w, v, n, top) ==
  \A x \in n .. top - 1 :
    v[x] = w[x] \/ (v[x] \in HeapTop /\ x - 1 \in ChoicesOf(w, n, top))

LEMMA ChainRaise ==
  ASSUME NEW w, NEW v, NEW n \in Int, NEW top \in Int, ChainOf(w, n, top), Low <= n,
         Raises(w, v, n, top)
  PROVE  /\ ChainOf(v, n, top)
         /\ ChoicesOf(v, n, top) = ChoicesOf(w, n, top)
         /\ \A c \in ChoicesOf(w, n, top) : v[c + 2] = w[c + 2]
         /\ \A c \in ChoicesOf(w, n, top) : c # top - 4 => v[c + 3] = w[c + 3]
  <1>. DEFINE B == ChoicesOf(w, n, top)
  <1>1. n \in B /\ \A c \in B : c \in n .. top - 4
    BY DEF ChoicesOf, ChainOf
  <1>2. \A c, d \in B : c < d => c + 4 <= d
    BY ChoicesApart
  <1>3. \A c, d \in B : c + 2 # d + 1 /\ c + 3 # d + 1
    <2>. SUFFICES ASSUME NEW c \in B, NEW d \in B, c + 2 = d + 1 \/ c + 3 = d + 1
                  PROVE  FALSE
      OBVIOUS
    <2>1. c \in Int /\ d \in Int
      BY <1>1
    <2>2. c < d
      BY <2>1
    <2>3. c + 4 <= d
      BY <1>2, <2>2
    <2>. HIDE DEF B
    <2>. QED BY <2>1, <2>3
  <1>4. \A c \in B : v[c + 2] = w[c + 2] /\ v[c + 3] = w[c + 3]
    <2>. SUFFICES ASSUME NEW c \in B PROVE v[c + 2] = w[c + 2] /\ v[c + 3] = w[c + 3]
      OBVIOUS
    <2>1. c + 2 \in n .. top - 1 /\ c + 3 \in n .. top - 1
      BY <1>1
    <2>2. (c + 2) - 1 \notin B /\ (c + 3) - 1 \notin B
      <3>1. c \in Int /\ \A d \in B : d \in Int
        BY <1>1
      <3>2. \A d \in B : d # (c + 2) - 1 /\ d # (c + 3) - 1
        <4>. HIDE DEF B
        <4>. QED BY <1>3, <3>1
      <3>. QED BY <3>2
    <2>. QED BY <2>1, <2>2 DEF Raises
  <1>5. \A x \in n .. top - 1 : v[x] # w[x] => Plain(v[x]) /\ Plain(w[x])
    <2>. SUFFICES ASSUME NEW x \in n .. top - 1, v[x] # w[x] PROVE Plain(v[x]) /\ Plain(w[x])
      OBVIOUS
    <2>1. v[x] \in HeapTop /\ x - 1 \in B
      BY DEF Raises
    <2>2. Plain(v[x])
      BY <2>1, AreaAssumption DEF Plain, HeapTop
    <2>3. w[x] = w[(x - 1) + 1]
      OBVIOUS
    <2>4. w[x] \in HeapTop
      BY <2>1, <2>3 DEF ChainOf
    <2>. QED BY <2>2, <2>4, AreaAssumption DEF Plain, HeapTop
  <1>6. ChoicesOf(v, n, top) = B
    <2>1. \A c \in n .. top - 4 : v[c + 3] > c + 3 <=> w[c + 3] > c + 3
      <3>. SUFFICES ASSUME NEW c \in n .. top - 4, v[c + 3] # w[c + 3]
                    PROVE  v[c + 3] > c + 3 <=> w[c + 3] > c + 3
        OBVIOUS
      <3>1. Plain(v[c + 3]) /\ Plain(w[c + 3])
        BY <1>5
      <3>. QED BY <3>1, AreaAssumption DEF Plain
    <2>. QED BY <2>1 DEF ChoicesOf
  <1>7. v[top - 1] = 0
    <2>1. top - 4 \in B /\ (top - 4) + 3 = top - 1
      BY <1>1 DEF ChoicesOf
    <2>2. v[(top - 4) + 3] = w[(top - 4) + 3]
      BY <1>4, <2>1
    <2>. QED BY <2>1, <2>2 DEF ChainOf
  <1>8. \A c \in B : c # top - 4 => /\ v[c + 3] \in B
                                    /\ \A d \in B : d > c => d >= v[c + 3]
    BY <1>4 DEF ChainOf
  <1>9. \A c \in B : v[c + 1] \in HeapTop /\ v[c + 2] \in StackTop
    <2>. SUFFICES ASSUME NEW c \in B PROVE v[c + 1] \in HeapTop /\ v[c + 2] \in StackTop
      OBVIOUS
    <2>1. w[c + 1] \in HeapTop /\ w[c + 2] \in StackTop
      BY DEF ChainOf
    <2>2. c + 1 \in n .. top - 1
      BY <1>1
    <2>. QED BY <1>4, <2>1, <2>2 DEF Raises
  <1>10. \A c, d \in B : c < d => v[c + 2] <= v[d + 2]
    BY <1>4 DEF ChainOf
  <1>11. \A x \in n .. top - 1 : Plain(v[x]) \/ (v[x] > x /\ x - 3 \in B)
    BY <1>5 DEF ChainOf
  <1>. HIDE DEF B
  <1>12. ChainOf(v, n, top)
    BY <1>1, <1>6, <1>7, <1>8, <1>9, <1>10, <1>11 DEF ChainOf
  <1>. QED BY <1>4, <1>6, <1>12 DEF B

(* The trail moves down by GV_SHIFT words. *)
Shifted(w, v, from, to) ==
  \A x \in from .. to :
    v[x] = IF w[x + GV_SHIFT] > x + GV_SHIFT THEN w[x + GV_SHIFT] - GV_SHIFT
           ELSE w[x + GV_SHIFT]

LEMMA ChainShift ==
  ASSUME NEW w, NEW v, NEW n \in Int, NEW top \in Int, ChainOf(w, n, top),
         Low <= n - GV_SHIFT,
         Shifted(w, v, n - GV_SHIFT, top - GV_SHIFT - 1)
  PROVE  /\ ChainOf(v, n - GV_SHIFT, top - GV_SHIFT)
         /\ \A c \in Int : c - GV_SHIFT \in ChoicesOf(v, n - GV_SHIFT, top - GV_SHIFT)
                             <=> c \in ChoicesOf(w, n, top)
         /\ \A c \in ChoicesOf(w, n, top) :
              /\ v[c - GV_SHIFT + 1] = w[c + 1]
              /\ v[c - GV_SHIFT + 2] = w[c + 2]
              /\ c # top - 4 => v[c - GV_SHIFT + 3] = w[c + 3] - GV_SHIFT
  <1>. DEFINE S == GV_SHIFT
              B == ChoicesOf(w, n, top)
              D == ChoicesOf(v, n - S, top - S)
  <1>0. S \in Nat /\ S > 0
    BY AreaAssumption
  <1>1. n \in B /\ \A c \in B : c \in n .. top - 4 /\ c \in Int
    BY DEF ChoicesOf, ChainOf
  <1>2. \A x \in n .. top - 1 : v[x - S] = IF w[x] > x THEN w[x] - S ELSE w[x]
    <2>. SUFFICES ASSUME NEW x \in n .. top - 1
                  PROVE  v[x - S] = IF w[x] > x THEN w[x] - S ELSE w[x]
      OBVIOUS
    <2>1. x - S \in n - S .. top - S - 1 /\ (x - S) + S = x
      BY <1>0
    <2>. QED BY <2>1 DEF Shifted
  <1>3. \A x \in n .. top - 1 : Plain(w[x]) \/ (w[x] > x /\ x - 3 \in B)
    BY DEF ChainOf
  <1>4. \A x \in n .. top - 1 : Plain(w[x]) => ~ (w[x] > x) /\ ~ (w[x] > x - S)
    BY <1>0, AreaAssumption DEF Plain
  <1>5. \A x \in n .. top - 1 : w[x] > x => w[x] \in Int
    <2>. SUFFICES ASSUME NEW x \in n .. top - 1, w[x] > x PROVE w[x] \in Int
      OBVIOUS
    <2>1. x - 3 \in B
      BY <1>3, <1>4
    <2>2. x = top - 1 => w[x] = 0
      BY DEF ChainOf
    <2>3. w[(x - 3) + 3] \in B \/ x - 3 = top - 4
      BY <2>1 DEF ChainOf
    <2>4. (x - 3) + 3 = x /\ (x - 3 = top - 4 => x = top - 1)
      OBVIOUS
    <2>5. w[(x - 3) + 3] = w[x]
      BY <2>4
    <2>6. w[x] \in B \/ x = top - 1
      <3>. HIDE DEF B
      <3>. QED BY <2>3, <2>4, <2>5
    <2>7. \A c \in B : c \in Int
      BY <1>1
    <2>. HIDE DEF B
    <2>. QED BY <2>2, <2>6, <2>7
  <1>6. \A x \in n .. top - 1 : /\ v[x - S] > x - S <=> w[x] > x
                                /\ Plain(w[x]) => v[x - S] = w[x]
                                /\ w[x] > x => v[x - S] = w[x] - S
    BY <1>0, <1>2, <1>3, <1>4, <1>5
  <1>. HIDE DEF S
  <1>7. \A c \in Int : c - S \in D <=> c \in B
    <2>. SUFFICES ASSUME NEW c \in Int PROVE c - S \in D <=> c \in B
      OBVIOUS
    <2>1. c - S \in (n - S) .. (top - S) - 4 <=> c \in n .. top - 4
      BY <1>0
    <2>2. c - S = (top - S) - 4 <=> c = top - 4
      BY <1>0
    <2>3. c \in n .. top - 4 => (v[(c - S) + 3] > (c - S) + 3 <=> w[c + 3] > c + 3)
      <3>. SUFFICES ASSUME c \in n .. top - 4
                    PROVE  v[(c - S) + 3] > (c - S) + 3 <=> w[c + 3] > c + 3
        OBVIOUS
      <3>1. c + 3 \in n .. top - 1 /\ (c + 3) - S = (c - S) + 3
        BY <1>0
      <3>. QED BY <1>6, <3>1
    <2>. QED BY <2>1, <2>2, <2>3 DEF ChoicesOf
  <1>8. \A d \in D : d \in Int /\ d + S \in B /\ (d + S) - S = d
    <2>. SUFFICES ASSUME NEW d \in D PROVE d \in Int /\ d + S \in B /\ (d + S) - S = d
      OBVIOUS
    <2>1. d \in Int
      BY DEF ChoicesOf
    <2>2. d + S \in Int /\ (d + S) - S = d
      BY <1>0, <2>1
    <2>. HIDE DEF D, B
    <2>. QED BY <1>7, <2>1, <2>2
  <1>9. \A c \in B : /\ v[c - S + 1] = w[c + 1]
                     /\ v[c - S + 2] = w[c + 2]
                     /\ c # top - 4 => v[c - S + 3] = w[c + 3] - S
    <2>. SUFFICES ASSUME NEW c \in B
                  PROVE  /\ v[c - S + 1] = w[c + 1]
                         /\ v[c - S + 2] = w[c + 2]
                         /\ c # top - 4 => v[c - S + 3] = w[c + 3] - S
      OBVIOUS
    <2>1. c \in n .. top - 4
      BY <1>1
    <2>2. /\ c + 1 \in n .. top - 1 /\ (c + 1) - S = c - S + 1
          /\ c + 2 \in n .. top - 1 /\ (c + 2) - S = c - S + 2
          /\ c + 3 \in n .. top - 1 /\ (c + 3) - S = c - S + 3
      BY <1>0, <2>1
    <2>3. Plain(w[c + 1]) /\ Plain(w[c + 2])
      <3>1. w[c + 1] \in HeapTop /\ w[c + 2] \in StackTop
        BY DEF ChainOf
      <3>. QED BY <3>1, AreaAssumption DEF Plain, HeapTop, StackTop
    <2>4. c # top - 4 => w[c + 3] > c + 3
      BY DEF ChoicesOf
    <2>. HIDE DEF B
    <2>. QED BY <1>6, <2>2, <2>3, <2>4
  <1>10. \A d \in D : /\ v[d + 1] = w[(d + S) + 1]
                      /\ v[d + 2] = w[(d + S) + 2]
                      /\ d # (top - S) - 4 => /\ d + S # top - 4
                                              /\ v[d + 3] = w[(d + S) + 3] - S
    <2>. SUFFICES ASSUME NEW d \in D
                  PROVE  /\ v[d + 1] = w[(d + S) + 1]
                         /\ v[d + 2] = w[(d + S) + 2]
                         /\ d # (top - S) - 4 => /\ d + S # top - 4
                                                 /\ v[d + 3] = w[(d + S) + 3] - S
      OBVIOUS
    <2>1. d + S \in B /\ (d + S) - S = d /\ d \in Int
      BY <1>8
    <2>2. d # (top - S) - 4 => d + S # top - 4
      BY <1>0, <2>1
    <2>. HIDE DEF D, B
    <2>. QED BY <1>9, <2>1, <2>2
  <1>11. v[(top - S) - 1] = 0
    <2>1. top - 1 \in n .. top - 1 /\ (top - 1) - S = (top - S) - 1
      BY <1>0, <1>1
    <2>2. w[top - 1] = 0
      BY DEF ChainOf
    <2>3. Plain(w[top - 1])
      BY <2>2, AreaAssumption DEF Plain
    <2>. QED BY <1>6, <2>1, <2>2, <2>3
  <1>12. \A d \in D : d # (top - S) - 4 => /\ v[d + 3] \in D
                                           /\ \A e \in D : e > d => e >= v[d + 3]
    <2>. SUFFICES ASSUME NEW d \in D, d # (top - S) - 4
                  PROVE  v[d + 3] \in D /\ \A e \in D : e > d => e >= v[d + 3]
      OBVIOUS
    <2>. DEFINE q == w[(d + S) + 3]
    <2>1. v[d + 3] = q - S /\ d + S \in B /\ d + S # top - 4 /\ d \in Int
      BY <1>8, <1>10
    <2>2. q \in B /\ \A e \in B : e > d + S => e >= q
      BY <2>1 DEF ChainOf
    <2>3. q \in Int
      BY <1>1, <2>2
    <2>4. v[d + 3] \in D
      BY <1>7, <2>1, <2>2, <2>3
    <2>5. ASSUME NEW e \in D, e > d
          PROVE  e >= v[d + 3]
      <3>1. e + S \in B /\ e \in Int
        BY <1>8
      <3>2. e + S > d + S
        BY <1>0, <2>1, <2>5, <3>1
      <3>3. e + S >= q
        BY <2>2, <3>1, <3>2
      <3>4. e >= q - S
        <4>. HIDE DEF q
        <4>. QED BY <1>0, <2>3, <3>1, <3>3
      <3>. QED BY <2>1, <3>4
    <2>. QED BY <2>4, <2>5
  <1>13. \A d \in D : v[d + 1] \in HeapTop /\ v[d + 2] \in StackTop
    <2>1. \A c \in B : w[c + 1] \in HeapTop /\ w[c + 2] \in StackTop
      BY DEF ChainOf
    <2>. HIDE DEF B, D
    <2>. QED BY <1>8, <1>10, <2>1
  <1>14. \A d, e \in D : d < e => v[d + 2] <= v[e + 2]
    <2>. SUFFICES ASSUME NEW d \in D, NEW e \in D, d < e PROVE v[d + 2] <= v[e + 2]
      OBVIOUS
    <2>1. d + S \in B /\ e + S \in B /\ d \in Int /\ e \in Int
      BY <1>8
    <2>2. d + S < e + S
      BY <1>0, <2>1
    <2>3. w[(d + S) + 2] <= w[(e + S) + 2]
      BY <2>1, <2>2 DEF ChainOf
    <2>. QED BY <1>10, <2>3
  <1>15. \A x \in n - S .. (top - S) - 1 : Plain(v[x]) \/ (v[x] > x /\ x - 3 \in D)
    <2>. SUFFICES ASSUME NEW x \in n - S .. (top - S) - 1
                  PROVE  Plain(v[x]) \/ (v[x] > x /\ x - 3 \in D)
      OBVIOUS
    <2>1. x + S \in n .. top - 1 /\ (x + S) - S = x /\ (x + S) - 3 \in Int /\ ((x + S) - 3) - S = x - 3
      BY <1>0
    <2>2. Plain(w[x + S]) => Plain(v[x])
      BY <1>6, <2>1
    <2>3. w[x + S] > x + S => v[x] > x
      BY <1>6, <2>1
    <2>4. (x + S) - 3 \in B => x - 3 \in D
      BY <1>7, <2>1
    <2>. HIDE DEF B, D
    <2>. QED BY <1>3, <2>1, <2>2, <2>3, <2>4
  <1>16. n - S \in D
    BY <1>1, <1>7
  <1>17. ChainOf(v, n - S, top - S)
    <2>. HIDE DEF B
    <2>1. D = ChoicesOf(v, n - S, top - S)
      OBVIOUS
    <2>. HIDE DEF D
    <2>. QED BY <1>11, <1>12, <1>13, <1>14, <1>15, <1>16, <2>1 DEF ChainOf
  <1>. QED BY <1>7, <1>9, <1>17 DEF S

(* Between two choices lie trail entries. *)
LEMMA EntriesBetween ==
  ASSUME NEW w, NEW n \in Int, NEW top \in Int, ChainOf(w, n, top),
         NEW c \in ChoicesOf(w, n, top), c # top - 4,
         NEW x \in c + 4 .. w[c + 3] - 1
  PROVE  Plain(w[x])
  <1>1. c \in Int /\ c >= n /\ w[c + 3] \in ChoicesOf(w, n, top)
    BY DEF ChoicesOf, ChainOf
  <1>2. w[c + 3] \in Int /\ w[c + 3] <= top - 4
    BY <1>1 DEF ChoicesOf
  <1>3. x \in n .. top - 1 /\ x - 3 > c /\ x - 3 < w[c + 3]
    BY <1>1, <1>2
  <1>4. x - 3 \notin ChoicesOf(w, n, top)
    BY <1>1, <1>2, <1>3, ChoicesApart
  <1>. QED BY <1>3, <1>4 DEF ChainOf

LEMMA CallerFrame ==
  ASSUME NEW w, NEW v, NEW old, NEW new, NEW r, CallerOf(w, old, r), old \subseteq new,
         \A c \in old : v[c + 2] = w[c + 2],
         \A c, d \in old : c < d => v[c + 3] = w[c + 3]
  PROVE  CallerOf(v, new, r)
  BY DEF CallerOf

(* A caller whose choice point is above c misses nothing below c. *)
LEMMA CallerKept ==
  ASSUME NEW w, NEW n \in Int, NEW top \in Int, ChainOf(w, n, top),
         NEW c \in ChoicesOf(w, n, top),
         NEW r, CallerOf(w, ChoicesOf(w, n, top), r), c < r.b
  PROVE  CallerOf(w, ChoicesOf(w, c, top), r)
  <1>. DEFINE B == ChoicesOf(w, n, top)
  <1>1. PICK d \in B : d < r.b /\ w[d + 3] = r.b /\ w[d + 2] = r.sp - 1
    BY DEF CallerOf
  <1>2. r.b \in B /\ r.spb = w[r.b + 2] /\ r.sp <= r.spb
    BY DEF CallerOf
  <1>3. \A e \in B : e \in Int
    BY DEF ChoicesOf
  <1>4. (d < c => w[d + 3] <= c) /\ c \in B
    BY ChoicesApart
  <1>5. d >= c /\ r.b >= c
    <2>. HIDE DEF B
    <2>. QED BY <1>1, <1>2, <1>3, <1>4
  <1>6. ChoicesOf(w, c, top) = {e \in B : e >= c}
    BY ChainDrop
  <1>. HIDE DEF B
  <1>. QED BY <1>1, <1>2, <1>5, <1>6 DEF CallerOf

(* The choice point of a caller is an older one than the newest. *)
LEMMA CallersOlder ==
  ASSUME NEW w, NEW t \in Int, NEW n \in Int, NEW top \in Int, NEW h, NEW s, NEW calls,
         NEW k \in Int, Holds(w, t, n, top, h, s, calls, k),
         NEW i \in 1 .. k
  PROVE  calls[i].b > n
  <1>1. CallerOf(w, ChoicesOf(w, n, top), calls[i])
    BY DEF Holds
  <1>2. PICK c \in ChoicesOf(w, n, top) : c < calls[i].b
    BY <1>1 DEF CallerOf
  <1>3. calls[i].b \in ChoicesOf(w, n, top)
    BY <1>1 DEF CallerOf
  <1>4. c \in Int /\ c >= n /\ calls[i].b \in Int
    BY <1>3 DEF ChoicesOf
  <1>. QED BY <1>2, <1>4

(***************************************************************************)
(* What the actions do with the stack                                      *)
(***************************************************************************)

(* Trail entries come and go, the choice points stay. *)
LEMMA HoldsTrail ==
  ASSUME NEW w, NEW v, NEW t \in Int, NEW u \in Int, NEW n \in Int, NEW top \in Int,
         NEW h, NEW s, NEW calls, NEW k \in Int, Holds(w, t, n, top, h, s, calls, k),
         u <= n, \A x \in n .. top - 1 : v[x] = w[x], \A x \in u .. n - 1 : Plain(v[x])
  PROVE  Holds(v, u, n, top, h, s, calls, k)
  <1>1. ChainOf(w, n, top)
    BY DEF Holds
  <1>2. ChainOf(v, n, top) /\ ChoicesOf(v, n, top) = ChoicesOf(w, n, top)
    BY <1>1, ChainFrame
  <1>3. \A c \in ChoicesOf(w, n, top) :
          v[c + 1] = w[c + 1] /\ v[c + 2] = w[c + 2] /\ v[c + 3] = w[c + 3]
    <2>. SUFFICES ASSUME NEW c \in ChoicesOf(w, n, top)
                  PROVE  v[c + 1] = w[c + 1] /\ v[c + 2] = w[c + 2] /\ v[c + 3] = w[c + 3]
      OBVIOUS
    <2>1. c \in n .. top - 4
      BY DEF ChoicesOf
    <2>. QED BY <2>1
  <1>4. \A i \in 1 .. k : CallerOf(v, ChoicesOf(v, n, top), calls[i])
    <2>. SUFFICES ASSUME NEW i \in 1 .. k PROVE CallerOf(v, ChoicesOf(v, n, top), calls[i])
      OBVIOUS
    <2>1. CallerOf(w, ChoicesOf(w, n, top), calls[i])
      BY DEF Holds
    <2>2. CallerOf(v, ChoicesOf(w, n, top), calls[i])
      BY <1>3, <2>1, CallerFrame
    <2>. QED BY <1>2, <2>2
  <1>5. n \in ChoicesOf(w, n, top)
    BY <1>1 DEF ChainOf
  <1>6. h = v[n + 1] /\ s = v[n + 2] /\ \A i, j \in 1 .. k : i < j => calls[j].b < calls[i].b
    BY <1>3, <1>5 DEF Holds
  <1>. QED BY <1>2, <1>4, <1>6 DEF Holds

(* TRY *)
LEMMA HoldsPush ==
  ASSUME NEW w, NEW v, NEW t \in Int, NEW m \in Int, NEW n \in Int, NEW top \in Int,
         NEW h, NEW s, NEW calls, NEW k \in Int, Holds(w, t, n, top, h, s, calls, k),
         Low <= m, m + 4 = t, \A x \in t .. top - 1 : v[x] = w[x],
         v[m] = 0, v[m + 1] \in HeapTop, v[m + 2] \in StackTop, v[m + 3] = n, v[m + 2] <= s
  PROVE  /\ Holds(v, m, m, top, v[m + 1], v[m + 2], calls, k)
         /\ ChoicesOf(v, m, top) = ChoicesOf(w, n, top) \cup {m}
         /\ n \in ChoicesOf(w, n, top) /\ v[n + 2] = s /\ m < n
  <1>1. ChainOf(w, n, top) /\ t <= n /\ s = w[n + 2]
    BY DEF Holds
  <1>2. (\A x \in n .. top - 1 : v[x] = w[x]) /\ m + 4 <= n /\ m < n
    BY <1>1
  <1>3. \A x \in m + 4 .. n - 1 : Plain(v[x])
    <2>. SUFFICES ASSUME NEW x \in m + 4 .. n - 1 PROVE Plain(v[x])
      OBVIOUS
    <2>1. n \in n .. top - 4
      BY <1>1 DEF ChainOf, ChoicesOf
    <2>2. x \in t .. n - 1 /\ x \in t .. top - 1
      BY <2>1
    <2>. QED BY <2>2 DEF Holds
  <1>4. ChainOf(v, m, top) /\ ChoicesOf(v, m, top) = ChoicesOf(w, n, top) \cup {m}
    BY <1>1, <1>2, <1>3, ChainPush
  <1>5. \A c \in ChoicesOf(w, n, top) : v[c + 2] = w[c + 2] /\ v[c + 3] = w[c + 3]
    <2>. SUFFICES ASSUME NEW c \in ChoicesOf(w, n, top)
                  PROVE  v[c + 2] = w[c + 2] /\ v[c + 3] = w[c + 3]
      OBVIOUS
    <2>1. c \in n .. top - 4
      BY DEF ChoicesOf
    <2>. QED BY <1>2, <2>1
  <1>6. \A i \in 1 .. k : CallerOf(v, ChoicesOf(v, m, top), calls[i])
    <2>. SUFFICES ASSUME NEW i \in 1 .. k PROVE CallerOf(v, ChoicesOf(v, m, top), calls[i])
      OBVIOUS
    <2>1. CallerOf(w, ChoicesOf(w, n, top), calls[i])
      BY DEF Holds
    <2>. QED BY <1>4, <1>5, <2>1, CallerFrame
  <1>7. m <= m /\ \A x \in m .. m - 1 : Plain(v[x])
    OBVIOUS
  <1>8. \A i, j \in 1 .. k : i < j => calls[j].b < calls[i].b
    BY DEF Holds
  <1>9. n \in ChoicesOf(w, n, top)
    BY <1>1 DEF ChainOf
  <1>. QED BY <1>1, <1>2, <1>4, <1>5, <1>6, <1>7, <1>8, <1>9 DEF Holds

Same(w, v, from, to) == \A x \in from .. to : v[x] = w[x]
Entries(v, from, to) == \A x \in from .. to : Plain(v[x])
NewerThan(c, calls, l) == \A i \in 1 .. l : c < calls[i].b

(* A call of run_wam *)
LEMMA HoldsCall ==
  ASSUME NEW w, NEW v, NEW t \in Int, NEW m \in Int, NEW n \in Int, NEW top \in Int,
         NEW h, NEW s, NEW T, NEW calls \in Seq(T), NEW k \in Int, k = Len(calls),
         Holds(w, t, n, top, h, s, calls, k),
         Low <= m, m + 4 = t, Same(w, v, t, top - 1),
         v[m] = 0, v[m + 1] \in HeapTop, v[m + 2] \in StackTop, v[m + 3] = n,
         NEW r \in T, r.b = n, r.spb = s, r.sp <= r.spb, v[m + 2] = r.sp - 1, v[m + 2] <= s
  PROVE  Holds(v, m, m, top, v[m + 1], v[m + 2], Append(calls, r), k + 1)
  <1>1. /\ Holds(v, m, m, top, v[m + 1], v[m + 2], calls, k)
        /\ ChoicesOf(v, m, top) = ChoicesOf(w, n, top) \cup {m}
        /\ n \in ChoicesOf(w, n, top) /\ v[n + 2] = s /\ m < n
    BY HoldsPush DEF Same
  <1>2. k \in Nat /\ Append(calls, r)[k + 1] = r /\ \A i \in 1 .. k : Append(calls, r)[i] = calls[i]
    OBVIOUS
  <1>3. \A i \in 1 .. k + 1 : i \in 1 .. k \/ i = k + 1
    BY <1>2
  <1>4. CallerOf(v, ChoicesOf(v, m, top), r)
    BY <1>1 DEF CallerOf
  <1>5. \A i \in 1 .. k + 1 : CallerOf(v, ChoicesOf(v, m, top), Append(calls, r)[i])
    BY <1>1, <1>2, <1>3, <1>4 DEF Holds
  <1>6. \A i \in 1 .. k : calls[i].b > n
    BY CallersOlder
  <1>7. ASSUME NEW i \in 1 .. k + 1, NEW j \in 1 .. k + 1, i < j
        PROVE  Append(calls, r)[j].b < Append(calls, r)[i].b
    <2>1. i \in 1 .. k
      BY <1>2, <1>7
    <2>2. CASE j = k + 1
      <3>1. calls[i].b > n /\ calls[i].b \in ChoicesOf(w, n, top)
        BY <1>6, <2>1 DEF Holds, CallerOf
      <3>2. calls[i].b \in Int
        BY <3>1 DEF ChoicesOf
      <3>. QED BY <1>2, <2>1, <2>2, <3>1, <3>2
    <2>3. CASE j \in 1 .. k
      BY <1>1, <1>2, <1>7, <2>1, <2>3 DEF Holds
    <2>. QED BY <1>3, <2>2, <2>3
  <1>. QED BY <1>1, <1>5, <1>7 DEF Holds

(* Back to the choice point c *)
LEMMA HoldsDrop ==
  ASSUME NEW w, NEW v, NEW t \in Int, NEW u \in Int, NEW n \in Int, NEW top \in Int,
         NEW h, NEW s, NEW calls, NEW k \in Int, NEW l \in Int, l <= k,
         Holds(w, t, n, top, h, s, calls, k),
         NEW c \in ChoicesOf(w, n, top), u <= c,
         Same(w, v, c, top - 1), Entries(v, u, c - 1), NewerThan(c, calls, l)
  PROVE  Holds(v, u, c, top, w[c + 1], w[c + 2], calls, l)
  <1>1. ChainOf(w, n, top) /\ c \in Int
    BY DEF Holds, ChoicesOf
  <1>2. ChainOf(w, c, top)
    BY <1>1, ChainDrop
  <1>3. \A i \in 1 .. l : i \in 1 .. k
    OBVIOUS
  <1>4. \A i \in 1 .. l : CallerOf(w, ChoicesOf(w, c, top), calls[i])
    <2>. SUFFICES ASSUME NEW i \in 1 .. l PROVE CallerOf(w, ChoicesOf(w, c, top), calls[i])
      OBVIOUS
    <2>1. CallerOf(w, ChoicesOf(w, n, top), calls[i]) /\ c < calls[i].b
      BY <1>3 DEF Holds, NewerThan
    <2>. QED BY <1>1, <2>1, CallerKept
  <1>5. \A i, j \in 1 .. l : i < j => calls[j].b < calls[i].b
    BY <1>3 DEF Holds
  <1>6. \A x \in c .. c - 1 : Plain(w[x])
    BY <1>1
  <1>7. Holds(w, c, c, top, w[c + 1], w[c + 2], calls, l)
    BY <1>1, <1>2, <1>4, <1>5, <1>6 DEF Holds
  <1>8. (\A x \in c .. top - 1 : v[x] = w[x]) /\ \A x \in u .. c - 1 : Plain(v[x])
    BY DEF Same, Entries
  <1>. QED BY <1>1, <1>7, <1>8, HoldsTrail, SMTT(60)

(* gv_set raises HB of some choice points. *)
LEMMA HoldsRaise ==
  ASSUME NEW w, NEW v, NEW t \in Int, NEW n \in Int, NEW top \in Int,
         NEW h, NEW s, NEW calls, NEW k \in Int, Holds(w, t, n, top, h, s, calls, k),
         Low <= t,
         \A x \in t .. top - 1 :
           v[x] = w[x] \/ (v[x] \in HeapTop /\ x - 1 \in ChoicesOf(w, n, top))
  PROVE  Holds(v, t, n, top, v[n + 1], s, calls, k)
  <1>1. ChainOf(w, n, top) /\ t <= n /\ Low <= n /\ s = w[n + 2]
    BY AreaAssumption DEF Holds
  <1>2. /\ ChainOf(v, n, top)
        /\ ChoicesOf(v, n, top) = ChoicesOf(w, n, top)
        /\ \A c \in ChoicesOf(w, n, top) : v[c + 2] = w[c + 2]
        /\ \A c \in ChoicesOf(w, n, top) : c # top - 4 => v[c + 3] = w[c + 3]
    <2>1. Raises(w, v, n, top)
      BY <1>1 DEF Raises
    <2>. QED BY <1>1, <2>1, ChainRaise
  <1>3. \A c, d \in ChoicesOf(w, n, top) : c < d => v[c + 3] = w[c + 3]
    BY <1>1, <1>2, ChoicesApart
  <1>4. \A i \in 1 .. k : CallerOf(v, ChoicesOf(v, n, top), calls[i])
    <2>. SUFFICES ASSUME NEW i \in 1 .. k PROVE CallerOf(v, ChoicesOf(v, n, top), calls[i])
      OBVIOUS
    <2>1. CallerOf(w, ChoicesOf(w, n, top), calls[i])
      BY DEF Holds
    <2>2. CallerOf(v, ChoicesOf(w, n, top), calls[i])
      BY <1>2, <1>3, <2>1, CallerFrame
    <2>. QED BY <1>2, <2>2
  <1>5. n \in ChoicesOf(w, n, top) /\ n <= top - 4
    BY <1>1 DEF ChainOf, ChoicesOf
  <1>6. \A x \in t .. n - 1 : Plain(v[x])
    <2>. SUFFICES ASSUME NEW x \in t .. n - 1 PROVE Plain(v[x])
      OBVIOUS
    <2>1. x \in t .. top - 1 /\ x - 1 \notin n .. top - 4
      BY <1>5
    <2>2. v[x] = w[x]
      BY <2>1 DEF ChoicesOf
    <2>. QED BY <2>2 DEF Holds
  <1>7. \A i, j \in 1 .. k : i < j => calls[j].b < calls[i].b
    BY DEF Holds
  <1>. QED BY <1>1, <1>2, <1>4, <1>5, <1>6, <1>7 DEF Holds

(* gv_alloc: everything moves down by GV_SHIFT words, calls to moved. *)
CallsShifted(calls, moved, k) ==
  \A i \in 1 .. k : /\ moved[i].b = calls[i].b - GV_SHIFT
                    /\ moved[i].spb = calls[i].spb /\ moved[i].sp = calls[i].sp

LEMMA HoldsShift ==
  ASSUME NEW w, NEW v, NEW t \in Int, NEW n \in Int, NEW top \in Int,
         NEW h, NEW s, NEW calls, NEW k \in Int, Holds(w, t, n, top, h, s, calls, k),
         Low <= t - GV_SHIFT,
         Shifted(w, v, t - GV_SHIFT, top - GV_SHIFT - 1),
         NEW moved, CallsShifted(calls, moved, k)
  PROVE  Holds(v, t - GV_SHIFT, n - GV_SHIFT, top - GV_SHIFT, h, s, moved, k)
  <1>. DEFINE S == GV_SHIFT
              B == ChoicesOf(w, n, top)
              D == ChoicesOf(v, n - S, top - S)
  <1>0. S \in Nat
    BY AreaAssumption
  <1>1. ChainOf(w, n, top) /\ t <= n /\ h = w[n + 1] /\ s = w[n + 2]
    BY DEF Holds
  <1>2. Low <= n - S
    BY <1>0, <1>1, AreaAssumption
  <1>3. Shifted(w, v, n - S, top - S - 1)
    <2>1. \A x \in n - S .. top - S - 1 : x \in t - S .. top - S - 1
      BY <1>0, <1>1
    <2>. QED BY <2>1 DEF Shifted
  <1>4. /\ ChainOf(v, n - S, top - S)
        /\ \A c \in Int : c - S \in D <=> c \in B
        /\ \A c \in B : /\ v[c - S + 1] = w[c + 1]
                        /\ v[c - S + 2] = w[c + 2]
                        /\ c # top - 4 => v[c - S + 3] = w[c + 3] - S
    BY <1>1, <1>2, <1>3, ChainShift
  <1>5. n \in B /\ n <= top - 4 /\ \A c \in B : c \in Int
    BY <1>1 DEF ChainOf, ChoicesOf
  <1>6. t - S <= n - S /\ h = v[(n - S) + 1] /\ s = v[(n - S) + 2]
    BY <1>0, <1>1, <1>4, <1>5
  <1>7. \A x \in t - S .. (n - S) - 1 : Plain(v[x])
    <2>. SUFFICES ASSUME NEW x \in t - S .. (n - S) - 1 PROVE Plain(v[x])
      OBVIOUS
    <2>1. x + S \in t .. n - 1 /\ x \in t - S .. top - S - 1
      BY <1>0, <1>5
    <2>2. Plain(w[x + S]) /\ x + S >= Low
      BY <1>0, <2>1, AreaAssumption DEF Holds
    <2>3. ~ (w[x + S] > x + S)
      BY <1>0, <2>2, AreaAssumption DEF Plain
    <2>. QED BY <2>1, <2>2, <2>3 DEF Shifted
  <1>8. ASSUME NEW i \in 1 .. k
        PROVE  CallerOf(v, D, moved[i])
    <2>. DEFINE r == calls[i]
    <2>1. /\ r.b \in B /\ r.spb = w[r.b + 2] /\ r.sp <= r.spb
          /\ \E c \in B : c < r.b /\ w[c + 3] = r.b /\ w[c + 2] = r.sp - 1
      BY DEF Holds, CallerOf
    <2>2. PICK c \in B : c < r.b /\ w[c + 3] = r.b /\ w[c + 2] = r.sp - 1
      BY <2>1
    <2>3. moved[i].b = r.b - S /\ moved[i].spb = r.spb /\ moved[i].sp = r.sp
      BY DEF CallsShifted
    <2>4. c # top - 4
      BY <1>1, <2>1, <2>2, ChoicesApart
    <2>5. c \in Int /\ r.b \in Int
      BY <1>5, <2>1
    <2>. HIDE DEF r, B, D, S
    <2>6. c - S \in D /\ r.b - S \in D
      BY <1>4, <2>1, <2>5
    <2>7. v[(r.b - S) + 2] = w[r.b + 2] /\ v[(c - S) + 2] = w[c + 2] /\ v[(c - S) + 3] = r.b - S
      BY <1>4, <2>1, <2>2, <2>4
    <2>8. c - S < r.b - S
      BY <1>0, <2>2, <2>5
    <2>. QED BY <2>1, <2>2, <2>3, <2>6, <2>7, <2>8 DEF CallerOf
  <1>9. ASSUME NEW i \in 1 .. k, NEW j \in 1 .. k, i < j
        PROVE  moved[j].b < moved[i].b
    <2>1. calls[j].b < calls[i].b /\ calls[j].b \in B /\ calls[i].b \in B
      BY <1>9 DEF Holds, CallerOf
    <2>2. moved[i].b = calls[i].b - S /\ moved[j].b = calls[j].b - S
      BY DEF CallsShifted
    <2>3. calls[j].b \in Int /\ calls[i].b \in Int
      BY <1>5, <2>1
    <2>. QED BY <1>0, <2>1, <2>2, <2>3
  <1>. QED BY <1>4, <1>6, <1>7, <1>8, <1>9 DEF Holds
------------------------------------------------------------------------------
(***************************************************************************)
(* The free list                                                           *)
(***************************************************************************)
LEMMA FreeFrame ==
  ASSUME NEW w, NEW v, NEW head, NEW free, FreeListed(w, head, free),
         \A x \in free : v[x] = w[x]
  PROVE  FreeListed(v, head, free)
  <1>1. PICK n \in Nat : \E f : Lists(n, f, w, head, free)
    BY DEF FreeListed
  <1>2. PICK f : Lists(n, f, w, head, free)
    BY <1>1
  <1>3. \A i \in 1 .. n : f[i] \in free
    BY <1>2 DEF Lists
  <1>4. Lists(n, f, v, head, free)
    BY <1>2, <1>3 DEF Lists
  <1>. QED BY <1>4 DEF FreeListed

(* An empty list: no variable is free. *)
LEMMA NoneFree ==
  ASSUME NEW w, NEW free, FreeListed(w, 0, free), 0 \notin free
  PROVE  free = {}
  <1>1. PICK n \in Nat : \E f : Lists(n, f, w, 0, free)
    BY DEF FreeListed
  <1>2. PICK f : Lists(n, f, w, 0, free)
    BY <1>1
  <1>3. n = 0
    <2>. SUFFICES ASSUME n # 0 PROVE FALSE
      OBVIOUS
    <2>1. 1 \in 1 .. n /\ f[1] = 0
      BY <1>2 DEF Lists
    <2>. QED BY <1>2, <2>1 DEF Lists
  <1>. QED BY <1>2, <1>3 DEF Lists

(* The first one is taken. *)
LEMMA TakeFirst ==
  ASSUME NEW w, NEW v, NEW head, head # 0, NEW free, FreeListed(w, head, free),
         \A x \in free : x # head => v[x] = w[x]
  PROVE  head \in free /\ FreeListed(v, w[head], free \ {head})
  <1>1. PICK n \in Nat : \E f : Lists(n, f, w, head, free)
    BY DEF FreeListed
  <1>2. PICK f : Lists(n, f, w, head, free)
    BY <1>1
  <1>3. n # 0 /\ head = f[1] /\ 1 \in 1 .. n
    BY <1>2 DEF Lists
  <1>4. /\ \A i \in 1 .. n : f[i] \in free
        /\ \A i, j \in 1 .. n : f[i] = f[j] => i = j
        /\ \A x \in free : \E i \in 1 .. n : f[i] = x
        /\ \A i \in 1 .. n : w[f[i]] = IF i = n THEN 0 ELSE f[i + 1]
    BY <1>2 DEF Lists
  <1>. DEFINE g == [i \in 1 .. n - 1 |-> f[i + 1]]
              rest == free \ {head}
  <1>5. n - 1 \in Nat /\ \A i \in 1 .. n - 1 : i + 1 \in 1 .. n /\ i + 1 # 1 /\ g[i] = f[i + 1]
    BY <1>3
  <1>6. g \in [1 .. n - 1 -> rest]
    <2>1. \A i \in 1 .. n - 1 : f[i + 1] \in rest
      BY <1>3, <1>4, <1>5
    <2>. QED BY <2>1
  <1>7. ASSUME NEW i \in 1 .. n - 1, NEW j \in 1 .. n - 1, g[i] = g[j]
        PROVE  i = j
    <2>1. i + 1 = j + 1
      BY <1>4, <1>5, <1>7
    <2>. QED BY <2>1
  <1>8. ASSUME NEW x \in rest
        PROVE  \E i \in 1 .. n - 1 : g[i] = x
    <2>1. PICK i \in 1 .. n : f[i] = x
      BY <1>4
    <2>2. i # 1
      BY <1>3, <2>1
    <2>3. i - 1 \in 1 .. n - 1 /\ (i - 1) + 1 = i
      BY <2>2
    <2>4. g[i - 1] = x
      BY <2>1, <2>3
    <2>. QED BY <2>3, <2>4
  <1>9. w[head] = IF n - 1 = 0 THEN 0 ELSE g[1]
    <2>1. w[head] = IF 1 = n THEN 0 ELSE f[1 + 1]
      BY <1>3, <1>4
    <2>2. n # 1 => 1 \in 1 .. n - 1
      BY <1>3
    <2>. QED BY <1>3, <2>1, <2>2
  <1>10. ASSUME NEW i \in 1 .. n - 1
         PROVE  v[g[i]] = IF i = n - 1 THEN 0 ELSE g[i + 1]
    <2>1. g[i] \in free /\ g[i] # head
      BY <1>6
    <2>2. v[g[i]] = w[f[i + 1]]
      BY <1>5, <2>1
    <2>3. w[f[i + 1]] = IF i + 1 = n THEN 0 ELSE f[(i + 1) + 1]
      BY <1>4, <1>5
    <2>4. i # n - 1 => i + 1 \in 1 .. n - 1
      OBVIOUS
    <2>. QED BY <2>2, <2>3, <2>4
  <1>11. Lists(n - 1, g, v, w[head], rest)
    <2>. HIDE DEF g, rest
    <2>. QED BY <1>6, <1>7, <1>8, <1>9, <1>10 DEF Lists
  <1>. QED BY <1>3, <1>4, <1>5, <1>11 DEF FreeListed

(* x becomes the first one. *)
LEMMA AddFirst ==
  ASSUME NEW w, NEW v, NEW head, NEW free, FreeListed(w, head, free),
         NEW x, x \notin free, \A y \in free : v[y] = w[y], v[x] = head
  PROVE  FreeListed(v, x, free \cup {x})
  <1>1. PICK n \in Nat : \E f : Lists(n, f, w, head, free)
    BY DEF FreeListed
  <1>2. PICK f : Lists(n, f, w, head, free)
    BY <1>1
  <1>4. /\ \A i \in 1 .. n : f[i] \in free
        /\ \A i, j \in 1 .. n : f[i] = f[j] => i = j
        /\ \A y \in free : \E i \in 1 .. n : f[i] = y
        /\ head = IF n = 0 THEN 0 ELSE f[1]
        /\ \A i \in 1 .. n : w[f[i]] = IF i = n THEN 0 ELSE f[i + 1]
    BY <1>2 DEF Lists
  <1>. DEFINE g == [i \in 1 .. n + 1 |-> IF i = 1 THEN x ELSE f[i - 1]]
              more == free \cup {x}
  <1>5. /\ n + 1 \in Nat /\ 1 \in 1 .. n + 1 /\ n + 1 # 0 /\ g[1] = x
        /\ \A i \in 1 .. n + 1 : i # 1 => i - 1 \in 1 .. n /\ g[i] = f[i - 1]
        /\ \A i \in 1 .. n : i + 1 \in 1 .. n + 1 /\ i + 1 # 1 /\ g[i + 1] = f[i]
    OBVIOUS
  <1>6. g \in [1 .. n + 1 -> more]
    <2>1. \A i \in 1 .. n + 1 : (IF i = 1 THEN x ELSE f[i - 1]) \in more
      BY <1>4, <1>5
    <2>. QED BY <2>1
  <1>7. ASSUME NEW i \in 1 .. n + 1, NEW j \in 1 .. n + 1, g[i] = g[j]
        PROVE  i = j
    <2>. HIDE DEF g
    <2>1. CASE i # 1 /\ j # 1
      <3>1. i - 1 = j - 1
        BY <1>4, <1>5, <1>7, <2>1
      <3>. QED BY <3>1
    <2>2. CASE i = 1 /\ j # 1
      BY <1>4, <1>5, <1>7, <2>2
    <2>3. CASE i # 1 /\ j = 1
      BY <1>4, <1>5, <1>7, <2>3
    <2>. QED BY <2>1, <2>2, <2>3
  <1>8. ASSUME NEW y \in more
        PROVE  \E i \in 1 .. n + 1 : g[i] = y
    <2>. HIDE DEF g
    <2>1. CASE y = x
      BY <1>5, <2>1
    <2>2. CASE y \in free
      <3>1. PICK i \in 1 .. n : f[i] = y
        BY <1>4, <2>2
      <3>. QED BY <1>5, <3>1
    <2>. QED BY <2>1, <2>2
  <1>9. x = IF n + 1 = 0 THEN 0 ELSE g[1]
    BY <1>5
  <1>10. ASSUME NEW i \in 1 .. n + 1
         PROVE  v[g[i]] = IF i = n + 1 THEN 0 ELSE g[i + 1]
    <2>. HIDE DEF g
    <2>1. CASE i = 1
      <3>1. v[g[i]] = head
        BY <1>5, <2>1
      <3>2. n # 0 => 1 \in 1 .. n
        OBVIOUS
      <3>. QED BY <1>4, <1>5, <2>1, <3>1, <3>2
    <2>2. CASE i # 1
      <3>1. i - 1 \in 1 .. n /\ g[i] = f[i - 1]
        BY <1>5, <2>2
      <3>2. v[g[i]] = IF i - 1 = n THEN 0 ELSE f[(i - 1) + 1]
        BY <1>4, <3>1
      <3>3. i # n + 1 => i \in 1 .. n /\ g[i + 1] = f[i]
        BY <1>5
      <3>4. (i - 1) + 1 = i /\ (i - 1 = n <=> i = n + 1)
        OBVIOUS
      <3>. QED BY <3>2, <3>3, <3>4
    <2>. QED BY <2>1, <2>2
  <1>11. Lists(n + 1, g, v, x, more)
    <2>. HIDE DEF g, more
    <2>. QED BY <1>6, <1>7, <1>8, <1>9, <1>10 DEF Lists
  <1>. QED BY <1>5, <1>11 DEF FreeListed

(* gv_alloc links the new variables from to .. from + count - 1. *)
LEMMA NewList ==
  ASSUME NEW v, NEW from \in Nat, NEW count \in Nat,
         \A x \in from .. from + count - 1 : v[x] = IF x = from THEN 0 ELSE x - 1
  PROVE  FreeListed(v, IF count = 0 THEN 0 ELSE from + count - 1, from .. from + count - 1)
  <1>. DEFINE g == [i \in 1 .. count |-> from + count - i]
              free == from .. from + count - 1
              head == IF count = 0 THEN 0 ELSE from + count - 1
  <1>1. g \in [1 .. count -> free]
    <2>1. \A i \in 1 .. count : from + count - i \in free
      OBVIOUS
    <2>. QED BY <2>1
  <1>2. \A i, j \in 1 .. count : g[i] = g[j] => i = j
    OBVIOUS
  <1>3. \A x \in free : \E i \in 1 .. count : g[i] = x
    <2>. SUFFICES ASSUME NEW x \in free PROVE \E i \in 1 .. count : g[i] = x
      OBVIOUS
    <2>1. from + count - x \in 1 .. count /\ from + count - (from + count - x) = x
      OBVIOUS
    <2>. QED BY <2>1
  <1>4. head = IF count = 0 THEN 0 ELSE g[1]
    OBVIOUS
  <1>5. ASSUME NEW i \in 1 .. count
        PROVE  v[g[i]] = IF i = count THEN 0 ELSE g[i + 1]
    <2>1. g[i] = from + count - i /\ g[i] \in from .. from + count - 1
      OBVIOUS
    <2>2. v[g[i]] = IF g[i] = from THEN 0 ELSE g[i] - 1
      BY <2>1
    <2>3. g[i] = from <=> i = count
      BY <2>1
    <2>4. i # count => g[i + 1] = from + count - (i + 1)
      OBVIOUS
    <2>5. from + count - (i + 1) = (from + count - i) - 1
      OBVIOUS
    <2>. QED BY <2>1, <2>2, <2>3, <2>4, <2>5
  <1>6. Lists(count, g, v, head, free)
    <2>. HIDE DEF g, free, head
    <2>. QED BY <1>1, <1>2, <1>3, <1>4, <1>5 DEF Lists
  <1>. QED BY <1>6 DEF FreeListed
------------------------------------------------------------------------------
(***************************************************************************)
(* The invariant is inductive.  First what it says between instructions,   *)
(* and how a step gets back there                                          *)
(***************************************************************************)
Caller == [b : Low .. GVBase - 4, spb : StackTop, sp : StackTop]

WordType(w) == \A x \in DOMAIN w : w[x] \in 0 .. GVBase - 1

LEMMA RunFacts ==
  ASSUME IInv, Running
  PROVE  /\ Holds(word, tr, b, trailbase, hb, spb, regstack, Len(regstack))
         /\ DOMAIN word = tr .. GVBase - 1 /\ WordType(word) /\ at = 0 /\ end = 0
         /\ tr \in Int /\ Low <= tr /\ tr <= b /\ b \in Int /\ b <= trailbase - 4
         /\ trailbase \in Int /\ trailbase <= GVBase /\ Low \in Int /\ GVBase \in Int
         /\ Bases = ChoicesOf(word, b, trailbase)
         /\ \A c \in Bases : c \in b .. trailbase - 4 /\ c \in Int
         /\ b \in Bases
         /\ ChainOf(word, b, trailbase)
         /\ hb = word[b + 1] /\ spb = word[b + 2]
         /\ FreeListed(word, freelist, FreeVars(trailbase, allocated))
         /\ regstack \in Seq(Caller) /\ Len(regstack) \in Nat
  <1>1. Holds(word, tr, b, trailbase, hb, spb, regstack, Len(regstack))
    BY DEF IInv, Chained, Running, Waiting
  <1>2. ChainOf(word, b, trailbase) /\ tr <= b /\ hb = word[b + 1] /\ spb = word[b + 2]
    BY <1>1 DEF Holds
  <1>3. b \in ChoicesOf(word, b, trailbase)
    BY <1>2 DEF ChainOf
  <1>4. /\ DOMAIN word = tr .. GVBase - 1 /\ WordType(word) /\ at = 0 /\ end = 0
        /\ tr \in Int /\ Low <= tr /\ b \in Int
        /\ trailbase \in Int /\ trailbase <= GVBase /\ Low \in Int /\ GVBase \in Int
        /\ regstack \in Seq(Caller)
        /\ FreeListed(word, freelist, FreeVars(trailbase, allocated))
    BY AreaAssumption DEF IInv, TypeOK, Running, WordType, Caller
  <1>5. Bases = ChoicesOf(word, b, trailbase)
    BY DEF Bases, IsChoice, ChoicesOf
  <1>6. b <= trailbase - 4 /\ \A c \in Bases : c \in b .. trailbase - 4 /\ c \in Int
    BY <1>3, <1>4, <1>5 DEF ChoicesOf
  <1>7. Len(regstack) \in Nat
    BY <1>4
  <1>. QED BY <1>1, <1>2, <1>3, <1>4, <1>5, <1>6, <1>7

LEMMA BackToRun ==
  ASSUME TypeOK', pc' = "run", at' = 0, end' = 0,
         Holds(word', tr', b', trailbase', hb', spb', regstack', Len(regstack')),
         FreeListed(word', freelist', FreeVars(trailbase', allocated'))
  PROVE  IInv'
  BY DEF IInv, Chained, Waiting

(* The global variables are as before, and so are their words. *)
LEMMA SameGlobals ==
  ASSUME IInv, UNCHANGED gvars, \A x \in trailbase .. GVBase - 1 : word'[x] = word[x]
  PROVE  FreeListed(word', freelist', FreeVars(trailbase', allocated'))
  <1>1. FreeListed(word, freelist, FreeVars(trailbase, allocated))
    BY DEF IInv
  <1>2. \A x \in FreeVars(trailbase, allocated) : word'[x] = word[x]
    BY DEF FreeVars
  <1>3. FreeListed(word', freelist, FreeVars(trailbase, allocated))
    BY <1>1, <1>2, FreeFrame
  <1>. QED BY <1>3 DEF gvars

LEMMA InitInv ==
  ASSUME Init
  PROVE  IInv
  <1>. DEFINE t == GVBase - 4
  <1>1. /\ t \in Int /\ Low \in Nat /\ Low <= t /\ GVBase \in Nat /\ t + 4 = GVBase
        /\ HeapBase \in Nat /\ HeapBase > 1 /\ HeapBase < Low
    BY AreaAssumption
  <1>2. /\ b = t /\ tr = t /\ hb = HeapBase /\ spb = HeapBase /\ trailbase = GVBase
        /\ freelist = 0 /\ allocated = {} /\ regstack = << >> /\ pc = "run" /\ at = 0 /\ end = 0
    BY DEF Init
  <1>3. DOMAIN word = t .. GVBase - 1
    BY <1>2 DEF Init
  <1>4. \A x \in t .. GVBase - 1 : x = t \/ x = t + 1 \/ x = t + 2 \/ x = t + 3
    BY <1>1
  <1>5. word[t] = 0 /\ word[t + 1] = HeapBase /\ word[t + 2] = HeapBase /\ word[t + 3] = 0
    <2>1. t \in t .. GVBase - 1 /\ t + 1 \in t .. GVBase - 1 /\ t + 2 \in t .. GVBase - 1
          /\ t + 3 \in t .. GVBase - 1
      BY <1>1
    <2>2. t - t + 1 = 1 /\ (t + 1) - t + 1 = 2 /\ (t + 2) - t + 1 = 3 /\ (t + 3) - t + 1 = 4
      BY <1>1
    <2>3. /\ << 0, HeapBase, HeapBase, 0 >>[1] = 0 /\ << 0, HeapBase, HeapBase, 0 >>[2] = HeapBase
          /\ << 0, HeapBase, HeapBase, 0 >>[3] = HeapBase /\ << 0, HeapBase, HeapBase, 0 >>[4] = 0
      OBVIOUS
    <2>4. word = [x \in t .. GVBase - 1 |-> << 0, HeapBase, HeapBase, 0 >>[x - t + 1]]
      BY <1>2 DEF Init
    <2>. HIDE DEF t
    <2>. QED BY <2>1, <2>2, <2>3, <2>4
  <1>6. HeapBase \in HeapTop /\ HeapBase \in StackTop
    BY <1>1 DEF HeapTop, StackTop
  <1>7. TypeOK
    <2>1. \A x \in DOMAIN word : word[x] \in 0 .. GVBase - 1
      <3>1. 0 \in 0 .. GVBase - 1 /\ HeapBase \in 0 .. GVBase - 1
        BY <1>1, AreaAssumption
      <3>. HIDE DEF t
      <3>. QED BY <1>3, <1>4, <1>5, <3>1
    <2>2. regstack \in Seq(Caller) /\ Len(regstack) <= MaxCalls
      BY <1>2, AreaAssumption
    <2>. QED BY <1>1, <1>2, <1>3, <1>6, <2>1, <2>2, AreaAssumption DEF TypeOK, Caller
  <1>8. ChoicesOf(word, t, GVBase) = {t}
    BY <1>1 DEF ChoicesOf
  <1>9. Plain(0) /\ Plain(HeapBase)
    BY <1>1 DEF Plain
  <1>10. ChainOf(word, t, GVBase)
    <2>1. \A x \in t .. GVBase - 1 : Plain(word[x])
      <3>. HIDE DEF t
      <3>. QED BY <1>4, <1>5, <1>9
    <2>2. word[GVBase - 1] = 0
      BY <1>1, <1>5
    <2>3. t = GVBase - 4 /\ ~ (t < t)
      BY <1>1
    <2>. HIDE DEF t
    <2>. QED BY <1>5, <1>6, <1>8, <2>1, <2>2, <2>3 DEF ChainOf
  <1>11. Holds(word, tr, b, trailbase, hb, spb, regstack, 0)
    <2>1. t <= t /\ t .. t - 1 = {} /\ 1 .. 0 = {}
      BY <1>1
    <2>. HIDE DEF t
    <2>. QED BY <1>2, <1>5, <1>10, <2>1 DEF Holds
  <1>12. Chained
    <2>1. Len(regstack) = 0
      BY <1>2
    <2>. QED BY <1>2, <1>11, <2>1 DEF Chained, Waiting
  <1>13. FreeListed(word, freelist, FreeVars(trailbase, allocated))
    <2>1. FreeVars(GVBase, {}) = {} /\ 1 .. 0 = {}
      BY <1>1 DEF FreeVars
    <2>2. Lists(0, [i \in {} |-> 0], word, 0, {})
      BY <2>1 DEF Lists
    <2>. QED BY <1>2, <2>1, <2>2 DEF FreeListed
  <1>. QED BY <1>2, <1>7, <1>12, <1>13 DEF IInv
------------------------------------------------------------------------------
(***************************************************************************)
(* Entries and choice points                                               *)
(***************************************************************************)
LEMMA TrailInv ==
  ASSUME IInv, NEW r \in Cell, Trail(r)
  PROVE  IInv'
  <1>1. Running
    BY DEF Trail
  <1>2. /\ Holds(word, tr, b, trailbase, hb, spb, regstack, Len(regstack))
        /\ DOMAIN word = tr .. GVBase - 1 /\ WordType(word) /\ at = 0 /\ end = 0
        /\ tr \in Int /\ Low <= tr /\ tr <= b /\ b \in Int /\ b <= trailbase - 4
        /\ trailbase \in Int /\ trailbase <= GVBase /\ Low \in Int /\ GVBase \in Int
        /\ Len(regstack) \in Nat
    BY <1>1, RunFacts
  <1>3. /\ tr' = tr - 1 /\ tr > Low /\ UNCHANGED <<choiceRegs, gvars, regstack, loop>>
        /\ word' = Push(<< r >>)
    BY DEF Trail
  <1>4. word' = [x \in tr - 1 .. GVBase - 1 |-> IF x < tr THEN << r >>[x - tr + 1 + 1] ELSE word[x]]
    BY <1>3 DEF Push
  <1>5. /\ DOMAIN word' = tr - 1 .. GVBase - 1
        /\ \A x \in tr .. GVBase - 1 : word'[x] = word[x]
        /\ word'[tr - 1] = r
    <2>1. tr - 1 \in tr - 1 .. GVBase - 1 /\ (tr - 1) - tr + 1 + 1 = 1 /\ tr - 1 < tr
      BY <1>2
    <2>2. \A x \in tr .. GVBase - 1 : x \in tr - 1 .. GVBase - 1 /\ ~ (x < tr)
      BY <1>2
    <2>. QED BY <1>4, <2>1, <2>2
  <1>6. Plain(r) /\ r \in 0 .. GVBase - 1
    BY AreaAssumption DEF Cell, Plain
  <1>7. TypeOK'
    <2>1. WordType(word')
      <3>1. \A x \in tr - 1 .. GVBase - 1 : x \in tr .. GVBase - 1 \/ x = tr - 1
        BY <1>2
      <3>. QED BY <1>2, <1>5, <1>6, <3>1 DEF WordType
    <2>2. tr - 1 \in Low .. GVBase - 4
      BY <1>2, <1>3
    <2>. QED BY <1>1, <1>3, <1>5, <2>1, <2>2 DEF IInv, TypeOK, WordType, choiceRegs, gvars, loop, Running
  <1>8. Holds(word', tr - 1, b, trailbase, hb, spb, regstack, Len(regstack))
    <2>1. \A x \in b .. trailbase - 1 : word'[x] = word[x]
      BY <1>2, <1>5
    <2>2. \A x \in tr - 1 .. b - 1 : Plain(word'[x])
      <3>1. \A x \in tr - 1 .. b - 1 : x = tr - 1 \/ (x \in tr .. b - 1 /\ x \in tr .. GVBase - 1)
        BY <1>2
      <3>. QED BY <1>2, <1>5, <1>6, <3>1 DEF Holds
    <2>3. tr - 1 <= b /\ tr - 1 \in Int
      BY <1>2
    <2>. QED BY <1>2, <2>1, <2>2, <2>3, HoldsTrail
  <1>9. FreeListed(word', freelist', FreeVars(trailbase', allocated'))
    <2>1. \A x \in trailbase .. GVBase - 1 : word'[x] = word[x]
      BY <1>2, <1>5
    <2>. QED BY <1>3, <2>1, SameGlobals
  <1>. QED BY <1>1, <1>2, <1>3, <1>7, <1>8, <1>9, BackToRun DEF choiceRegs, gvars, loop, Running

(* What NewChoice writes *)
LEMMA NewChoiceWrites ==
  ASSUME IInv, Running, NEW h \in HeapTop, NEW sp \in StackTop, NewChoice(h, sp)
  PROVE  /\ DOMAIN word' = tr - 4 .. GVBase - 1 /\ WordType(word')
         /\ \A x \in tr .. GVBase - 1 : word'[x] = word[x]
         /\ word'[tr - 4] = 0 /\ word'[tr - 4 + 1] = h /\ word'[tr - 4 + 2] = sp
         /\ word'[tr - 4 + 3] = b
         /\ tr' = tr - 4 /\ b' = tr - 4 /\ hb' = h /\ spb' = sp /\ Low <= tr - 4 /\ sp <= spb
  <1>1. /\ DOMAIN word = tr .. GVBase - 1 /\ WordType(word)
        /\ tr \in Int /\ Low <= tr /\ tr <= b /\ b \in Int /\ b <= trailbase - 4
        /\ trailbase \in Int /\ trailbase <= GVBase /\ Low \in Int /\ GVBase \in Int
    BY RunFacts
  <1>2. /\ tr' = tr - 4 /\ b' = tr - 4 /\ hb' = h /\ spb' = sp /\ Low <= tr - 4 /\ sp <= spb
        /\ word' = Push(<< 0, h, sp, b >>)
    BY <1>1 DEF NewChoice
  <1>3. word' = [x \in tr - 4 .. GVBase - 1 |->
                   IF x < tr THEN << 0, h, sp, b >>[x - tr + 4 + 1] ELSE word[x]]
    BY <1>2 DEF Push
  <1>4. /\ DOMAIN word' = tr - 4 .. GVBase - 1
        /\ \A x \in tr .. GVBase - 1 : word'[x] = word[x]
    <2>1. \A x \in tr .. GVBase - 1 : x \in tr - 4 .. GVBase - 1 /\ ~ (x < tr)
      BY <1>1
    <2>. QED BY <1>3, <2>1
  <1>5. /\ word'[tr - 4] = 0 /\ word'[tr - 4 + 1] = h /\ word'[tr - 4 + 2] = sp
        /\ word'[tr - 4 + 3] = b
    <2>1. /\ tr - 4 \in tr - 4 .. GVBase - 1 /\ tr - 4 < tr /\ (tr - 4) - tr + 4 + 1 = 1
          /\ tr - 4 + 1 \in tr - 4 .. GVBase - 1 /\ tr - 4 + 1 < tr /\ (tr - 4 + 1) - tr + 4 + 1 = 2
          /\ tr - 4 + 2 \in tr - 4 .. GVBase - 1 /\ tr - 4 + 2 < tr /\ (tr - 4 + 2) - tr + 4 + 1 = 3
          /\ tr - 4 + 3 \in tr - 4 .. GVBase - 1 /\ tr - 4 + 3 < tr /\ (tr - 4 + 3) - tr + 4 + 1 = 4
      BY <1>1
    <2>2. /\ << 0, h, sp, b >>[1] = 0 /\ << 0, h, sp, b >>[2] = h
          /\ << 0, h, sp, b >>[3] = sp /\ << 0, h, sp, b >>[4] = b
      OBVIOUS
    <2>. QED BY <1>3, <2>1, <2>2
  <1>6. WordType(word')
    <2>1. \A x \in tr - 4 .. GVBase - 1 :
            x \in tr .. GVBase - 1 \/ x = tr - 4 \/ x = tr - 4 + 1 \/ x = tr - 4 + 2 \/ x = tr - 4 + 3
      BY <1>1
    <2>2. 0 \in 0 .. GVBase - 1 /\ h \in 0 .. GVBase - 1 /\ sp \in 0 .. GVBase - 1 /\ b \in 0 .. GVBase - 1
      BY <1>1, AreaAssumption DEF HeapTop, StackTop
    <2>. QED BY <1>1, <1>4, <1>5, <2>1, <2>2 DEF WordType
  <1>. QED BY <1>2, <1>4, <1>5, <1>6

LEMMA TryInv ==
  ASSUME IInv, NEW h \in HeapTop, NEW sp \in StackTop, Try(h, sp)
  PROVE  IInv'
  <1>1. Running /\ NewChoice(h, sp) /\ UNCHANGED <<gvars, regstack, loop>>
    BY DEF Try
  <1>2. /\ Holds(word, tr, b, trailbase, hb, spb, regstack, Len(regstack))
        /\ at = 0 /\ end = 0
        /\ tr \in Int /\ Low <= tr /\ tr <= b /\ b \in Int /\ b <= trailbase - 4
        /\ trailbase \in Int /\ trailbase <= GVBase /\ Low \in Int /\ GVBase \in Int
        /\ Len(regstack) \in Nat
    BY <1>1, RunFacts
  <1>3. /\ DOMAIN word' = tr - 4 .. GVBase - 1 /\ WordType(word')
        /\ \A x \in tr .. GVBase - 1 : word'[x] = word[x]
        /\ word'[tr - 4] = 0 /\ word'[tr - 4 + 1] = h /\ word'[tr - 4 + 2] = sp
        /\ word'[tr - 4 + 3] = b
        /\ tr' = tr - 4 /\ b' = tr - 4 /\ hb' = h /\ spb' = sp /\ Low <= tr - 4 /\ sp <= spb
    BY <1>1, NewChoiceWrites
  <1>4. TypeOK'
    <2>1. tr - 4 \in Low .. GVBase - 4
      BY <1>2, <1>3
    <2>. QED BY <1>1, <1>3, <2>1 DEF IInv, TypeOK, WordType, gvars, loop, Running
  <1>5. Holds(word', tr - 4, tr - 4, trailbase, h, sp, regstack, Len(regstack))
    <2>1. \A x \in tr .. trailbase - 1 : word'[x] = word[x]
      BY <1>2, <1>3
    <2>2. tr - 4 \in Int /\ tr - 4 + 4 = tr
      BY <1>2
    <2>3. Holds(word', tr - 4, tr - 4, trailbase, word'[tr - 4 + 1], word'[tr - 4 + 2],
                regstack, Len(regstack))
      BY <1>2, <1>3, <2>1, <2>2, HoldsPush
    <2>. QED BY <1>3, <2>3
  <1>6. FreeListed(word', freelist', FreeVars(trailbase', allocated'))
    <2>1. \A x \in trailbase .. GVBase - 1 : word'[x] = word[x]
      BY <1>2, <1>3
    <2>. QED BY <1>1, <2>1, SameGlobals
  <1>. QED BY <1>1, <1>2, <1>3, <1>4, <1>5, <1>6, BackToRun DEF gvars, loop, Running

LEMMA RetryInv ==
  ASSUME IInv, Retry
  PROVE  IInv'
  <1>1. Running /\ tr' = b /\ word' = Drop(b) /\ UNCHANGED <<choiceRegs, gvars, regstack, loop>>
    BY DEF Retry
  <1>2. /\ Holds(word, tr, b, trailbase, hb, spb, regstack, Len(regstack))
        /\ DOMAIN word = tr .. GVBase - 1 /\ WordType(word) /\ at = 0 /\ end = 0
        /\ tr \in Int /\ Low <= tr /\ tr <= b /\ b \in Int /\ b <= trailbase - 4
        /\ trailbase \in Int /\ trailbase <= GVBase /\ Low \in Int /\ GVBase \in Int
        /\ Len(regstack) \in Nat
    BY <1>1, RunFacts
  <1>3. DOMAIN word' = b .. GVBase - 1 /\ \A x \in b .. GVBase - 1 : word'[x] = word[x]
    BY <1>1 DEF Drop
  <1>4. WordType(word')
    <2>1. \A x \in b .. GVBase - 1 : x \in tr .. GVBase - 1
      BY <1>2
    <2>. QED BY <1>2, <1>3, <2>1 DEF WordType
  <1>5. TypeOK'
    <2>1. b \in Low .. GVBase - 4
      BY <1>2
    <2>. QED BY <1>1, <1>3, <1>4, <2>1 DEF IInv, TypeOK, WordType, choiceRegs, gvars, loop, Running
  <1>6. Holds(word', b, b, trailbase, hb, spb, regstack, Len(regstack))
    <2>1. \A x \in b .. trailbase - 1 : word'[x] = word[x]
      BY <1>2, <1>3
    <2>2. b <= b /\ \A x \in b .. b - 1 : Plain(word'[x])
      BY <1>2
    <2>. QED BY <1>2, <2>1, <2>2, HoldsTrail
  <1>7. FreeListed(word', freelist', FreeVars(trailbase', allocated'))
    <2>1. \A x \in trailbase .. GVBase - 1 : word'[x] = word[x]
      BY <1>2, <1>3
    <2>. QED BY <1>1, <2>1, SameGlobals
  <1>. QED BY <1>1, <1>2, <1>5, <1>6, <1>7, BackToRun DEF choiceRegs, gvars, loop, Running

(* The newest of the callers of run_wam *)
LEMMA NewestCaller ==
  ASSUME IInv, Running, regstack # << >>
  PROVE  LET last == regstack[Len(regstack)]
         IN  /\ Len(regstack) \in Nat /\ Len(regstack) \in 1 .. Len(regstack)
             /\ last.b \in Int /\ last.b \in Bases /\ last.spb = word[last.b + 2]
             /\ last.spb \in Int /\ last.sp \in Int /\ last.sp <= last.spb
             /\ \E c \in Bases : c < last.b /\ word[c + 3] = last.b /\ word[c + 2] = last.sp - 1
             /\ \A i \in 1 .. Len(regstack) : regstack[i].b \in Int /\ last.b <= regstack[i].b
             /\ \A i \in 1 .. Len(regstack) - 1 : last.b < regstack[i].b
  <1>. DEFINE k == Len(regstack)
              last == regstack[k]
  <1>1. /\ Holds(word, tr, b, trailbase, hb, spb, regstack, k)
        /\ Bases = ChoicesOf(word, b, trailbase)
        /\ regstack \in Seq(Caller) /\ k \in Nat
    BY RunFacts
  <1>2. k \in 1 .. k /\ \A i \in 1 .. k : regstack[i] \in Caller
    BY <1>1
  <1>3. CallerOf(word, Bases, last)
    BY <1>1, <1>2 DEF Holds
  <1>4. \A i \in 1 .. k : regstack[i].b \in Int /\ regstack[i].spb \in Int /\ regstack[i].sp \in Int
    BY <1>2, AreaAssumption DEF Caller, StackTop
  <1>5. \A i \in 1 .. k - 1 : last.b < regstack[i].b
    <2>1. \A i \in 1 .. k - 1 : i \in 1 .. k /\ i < k
      BY <1>1
    <2>. QED BY <1>1, <1>2, <2>1 DEF Holds
  <1>6. \A i \in 1 .. k : last.b <= regstack[i].b
    <2>1. \A i \in 1 .. k : i = k \/ i \in 1 .. k - 1
      BY <1>1
    <2>. QED BY <1>2, <1>4, <1>5, <2>1
  <1>. QED BY <1>1, <1>2, <1>3, <1>4, <1>5, <1>6 DEF CallerOf

(* What PopChoice leaves *)
LEMMA PopLeaves ==
  ASSUME IInv, Running, PopChoice
  PROVE  /\ word[b + 3] \in Bases /\ word[b + 3] \in Int /\ b + 4 <= word[b + 3]
         /\ b # trailbase - 4
         /\ b' = word[b + 3] /\ hb' = word[word[b + 3] + 1] /\ spb' = word[word[b + 3] + 2]
         /\ hb' \in HeapTop /\ spb' \in StackTop
         /\ DOMAIN word' = b + 4 .. GVBase - 1 /\ WordType(word')
         /\ \A x \in b + 4 .. GVBase - 1 : word'[x] = word[x]
         /\ \A x \in b + 4 .. word[b + 3] - 1 : Plain(word'[x])
  <1>. DEFINE q == word[b + 3]
  <1>1. /\ DOMAIN word = tr .. GVBase - 1 /\ WordType(word)
        /\ tr \in Int /\ Low <= tr /\ tr <= b /\ b \in Int /\ b <= trailbase - 4
        /\ trailbase \in Int /\ trailbase <= GVBase /\ Low \in Int /\ GVBase \in Int
        /\ Bases = ChoicesOf(word, b, trailbase) /\ b \in Bases
        /\ \A c \in Bases : c \in b .. trailbase - 4 /\ c \in Int
        /\ ChainOf(word, b, trailbase)
    BY RunFacts
  <1>2. /\ q # 0 /\ b' = q /\ word' = Drop(b + 4) /\ hb' = word[q + 1] /\ spb' = word[q + 2]
    BY DEF PopChoice, PrevB, SPBOf
  <1>3. b # trailbase - 4
    <2>1. b = trailbase - 4 => b + 3 = trailbase - 1
      BY <1>1
    <2>. QED BY <1>1, <1>2, <2>1 DEF ChainOf
  <1>4. q \in Bases /\ q > b + 3
    BY <1>1, <1>3 DEF ChainOf, ChoicesOf
  <1>5. q \in Int /\ b + 4 <= q /\ q <= trailbase - 4
    <2>1. q \in b .. trailbase - 4 /\ q \in Int
      <3>. HIDE DEF q
      <3>. QED BY <1>1, <1>4
    <2>. HIDE DEF q
    <2>. QED BY <1>1, <1>4, <2>1
  <1>6. hb' \in HeapTop /\ spb' \in StackTop
    BY <1>1, <1>2, <1>4 DEF ChainOf
  <1>7. DOMAIN word' = b + 4 .. GVBase - 1 /\ \A x \in b + 4 .. GVBase - 1 : word'[x] = word[x]
    BY <1>2 DEF Drop
  <1>8. WordType(word')
    <2>1. \A x \in b + 4 .. GVBase - 1 : x \in tr .. GVBase - 1
      BY <1>1
    <2>. QED BY <1>1, <1>7, <2>1 DEF WordType
  <1>9. \A x \in b + 4 .. q - 1 : Plain(word'[x])
    <2>1. \A x \in b + 4 .. q - 1 : Plain(word[x])
      BY <1>1, <1>3, EntriesBetween
    <2>2. \A x \in b + 4 .. q - 1 : x \in b + 4 .. GVBase - 1
      BY <1>1, <1>5
    <2>. QED BY <1>7, <2>1, <2>2
  <1>. QED BY <1>2, <1>3, <1>4, <1>5, <1>6, <1>7, <1>8, <1>9

LEMMA TrustInv ==
  ASSUME IInv, Trust
  PROVE  IInv'
  <1>. DEFINE q == word[b + 3]
              k == Len(regstack)
  <1>1. /\ Running /\ ~ IsCallBase /\ PopChoice /\ tr' = b + 4
        /\ UNCHANGED <<gvars, regstack, loop>>
    BY DEF Trust
  <1>2. /\ Holds(word, tr, b, trailbase, hb, spb, regstack, k)
        /\ at = 0 /\ end = 0
        /\ tr \in Int /\ Low <= tr /\ tr <= b /\ b \in Int /\ b <= trailbase - 4
        /\ trailbase \in Int /\ trailbase <= GVBase /\ Low \in Int /\ GVBase \in Int
        /\ Bases = ChoicesOf(word, b, trailbase) /\ b \in Bases
        /\ \A c \in Bases : c \in b .. trailbase - 4 /\ c \in Int
        /\ ChainOf(word, b, trailbase)
        /\ k \in Nat
    BY <1>1, RunFacts
  <1>3. /\ q \in Bases /\ q \in Int /\ b + 4 <= q
        /\ b' = q /\ hb' = word[q + 1] /\ spb' = word[q + 2]
        /\ hb' \in HeapTop /\ spb' \in StackTop
        /\ DOMAIN word' = b + 4 .. GVBase - 1 /\ WordType(word')
        /\ \A x \in b + 4 .. GVBase - 1 : word'[x] = word[x]
        /\ \A x \in b + 4 .. q - 1 : Plain(word'[x])
    BY <1>1, PopLeaves
  <1>4. q <= trailbase - 4
    BY <1>2, <1>3
  <1>5. ASSUME NEW i \in 1 .. k
        PROVE  q < regstack[i].b
    <2>. DEFINE last == regstack[k]
    <2>1. regstack # << >>
      BY <1>2
    <2>2. /\ last.b \in Int /\ regstack[i].b \in Int /\ last.b <= regstack[i].b
          /\ \E c \in Bases : c < last.b /\ word[c + 3] = last.b /\ word[c + 2] = last.sp - 1
      BY <1>1, <2>1, NewestCaller
    <2>3. PICK c \in Bases : c < last.b /\ word[c + 3] = last.b
      BY <2>2
    <2>4. c # b
      BY <1>1, <2>1, <2>3 DEF IsCallBase, PrevB
    <2>5. b < c
      BY <1>2, <2>4
    <2>6. q <= c
      BY <1>2, <2>5, ChoicesApart
    <2>7. c \in Int
      BY <1>2
    <2>. HIDE DEF last, q, k
    <2>. QED BY <1>3, <2>2, <2>3, <2>6, <2>7
  <1>6. TypeOK'
    <2>1. q \in Low .. GVBase - 4 /\ b + 4 \in Low .. GVBase - 4
      BY <1>2, <1>3, <1>4
    <2>. QED BY <1>1, <1>3, <2>1 DEF IInv, TypeOK, WordType, gvars, loop, Running
  <1>7. Holds(word', b + 4, q, trailbase, hb', spb', regstack, k)
    <2>1. /\ Same(word, word', q, trailbase - 1) /\ Entries(word', b + 4, q - 1)
          /\ NewerThan(q, regstack, k)
      BY <1>2, <1>3, <1>5 DEF Same, Entries, NewerThan
    <2>2. /\ b + 4 \in Int /\ k <= k /\ q \in ChoicesOf(word, b, trailbase)
          /\ k \in Int /\ b + 4 <= q
      BY <1>2, <1>3
    <2>3. Holds(word', b + 4, q, trailbase, word[q + 1], word[q + 2], regstack, k)
      <3>. HIDE DEF q, k
      <3>. QED BY <1>2, <2>1, <2>2, HoldsDrop
    <2>. QED BY <1>3, <2>3
  <1>8. FreeListed(word', freelist', FreeVars(trailbase', allocated'))
    <2>1. \A x \in trailbase .. GVBase - 1 : word'[x] = word[x]
      BY <1>2, <1>3
    <2>. QED BY <1>1, <2>1, SameGlobals
  <1>. QED BY <1>1, <1>2, <1>3, <1>6, <1>7, <1>8, BackToRun DEF gvars, loop, Running
------------------------------------------------------------------------------
(***************************************************************************)
(* The sweeps                                                              *)
(***************************************************************************)

(* How a step gets into a sweep *)
LEMMA IntoSweep ==
  ASSUME TypeOK', pc' \in {"cut", "return"}, Sweeping',
         NEW k \in Int, k = IF pc' = "return" THEN Len(regstack') - 1 ELSE Len(regstack'),
         Holds(word', tr', b', trailbase', hb', spb', regstack', k),
         FreeListed(word', freelist', FreeVars(trailbase', allocated'))
  PROVE  IInv'
  <1>1. pc' # "run" /\ pc' # "shift"
    OBVIOUS
  <1>. QED BY <1>1 DEF IInv, Chained, Waiting

(* A sweep begins at c, a choice point that is newer than those of the     *)
(* callers that go on waiting.                                             *)
LEMMA SweepBegins ==
  ASSUME IInv, Running, NEW c \in Bases, NEW where \in {"cut", "return"},
         SweepFrom(c, where), UNCHANGED <<word, gvars, regstack>>,
         NEW l \in Int, l = IF where = "return" THEN Len(regstack) - 1 ELSE Len(regstack),
         \A i \in 1 .. l : c < regstack[i].b,
         where = "return" => /\ regstack # << >> /\ regstack[Len(regstack)].b = c
                             /\ regstack[Len(regstack)].spb = word[c + 2]
  PROVE  IInv'
  <1>1. /\ Holds(word, tr, b, trailbase, hb, spb, regstack, Len(regstack))
        /\ DOMAIN word = tr .. GVBase - 1 /\ WordType(word)
        /\ tr \in Int /\ Low <= tr /\ tr <= b /\ b \in Int /\ b <= trailbase - 4
        /\ trailbase \in Int /\ trailbase <= GVBase /\ Low \in Int /\ GVBase \in Int
        /\ Bases = ChoicesOf(word, b, trailbase)
        /\ c \in b .. trailbase - 4 /\ c \in Int
        /\ ChainOf(word, b, trailbase)
        /\ spb = word[b + 2]
        /\ Len(regstack) \in Nat
    BY RunFacts
  <1>2. /\ b' = c /\ hb' = word[c + 1] /\ spb' = word[c + 2] /\ end' = tr /\ tr' = c
        /\ at' = c - 1 /\ pc' = where
        /\ word' = word /\ UNCHANGED gvars /\ regstack' = regstack
    BY <1>1 DEF SweepFrom, SPBOf
  <1>3. Same(word, word, c, trailbase - 1) /\ Entries(word, c, c - 1) /\ NewerThan(c, regstack, l)
    BY <1>1 DEF Same, Entries, NewerThan
  <1>4. Holds(word, c, c, trailbase, word[c + 1], word[c + 2], regstack, l)
    <2>. DEFINE k == Len(regstack)
    <2>1. l <= k /\ k \in Int /\ c <= c /\ c \in ChoicesOf(word, b, trailbase)
      BY <1>1
    <2>2. Holds(word, tr, b, trailbase, hb, spb, regstack, k)
      BY <1>1
    <2>3. tr \in Int /\ b \in Int /\ trailbase \in Int /\ c \in Int
      BY <1>1
    <2>. HIDE DEF k
    <2>. QED BY <1>3, <2>1, <2>2, <2>3, HoldsDrop
  <1>5. word[c + 1] \in HeapTop /\ word[c + 2] \in StackTop
    BY <1>1 DEF ChainOf
  <1>6. TypeOK'
    <2>1. c \in Low .. GVBase - 4 /\ c - 1 \in 0 .. GVBase /\ tr \in 0 .. GVBase - 1
      BY SMTT(30), <1>1, AreaAssumption
    <2>2. where # "run"
      OBVIOUS
    <2>. QED BY <1>1, <1>2, <1>5, <2>1, <2>2 DEF IInv, TypeOK, gvars, Running
  <1>7. Sweeping'
    <2>1. ASSUME NEW x \in tr .. c - 1
          PROVE  Plain(word[x]) \/ (word[x] > x /\ x - 3 >= tr)
      <3>1. CASE x < b
        <4>1. x \in tr .. b - 1
          BY <1>1, <3>1
        <4>. QED BY <1>1, <4>1 DEF Holds
      <3>2. CASE ~ (x < b)
        <4>1. x \in b .. trailbase - 1
          BY <1>1, <3>2
        <4>2. Plain(word[x]) \/ (word[x] > x /\ x - 3 \in ChoicesOf(word, b, trailbase))
          BY <1>1, <4>1 DEF ChainOf
        <4>3. x - 3 \in ChoicesOf(word, b, trailbase) => x - 3 >= tr
          BY <1>1 DEF ChoicesOf
        <4>. QED BY <4>2, <4>3
      <3>. QED BY <3>1, <3>2
    <2>2. Low <= tr /\ tr <= (c - 1) + 1 /\ c - 1 < c
      BY <1>1
    <2>. QED BY <1>1, <1>2, <2>1, <2>2 DEF Sweeping
  <1>8. FreeListed(word', freelist', FreeVars(trailbase', allocated'))
    <2>1. \A x \in trailbase .. GVBase - 1 : word'[x] = word[x]
      BY <1>2
    <2>. QED BY <1>2, <2>1, SameGlobals
  <1>9. l = IF pc' = "return" THEN Len(regstack') - 1 ELSE Len(regstack')
    BY <1>2
  <1>10. Holds(word', tr', b', trailbase', hb', spb', regstack', l)
    BY <1>2, <1>4 DEF gvars
  <1>11. pc' \in {"cut", "return"}
    BY <1>2
  <1>. QED BY <1>6, <1>7, <1>8, <1>9, <1>10, <1>11, IntoSweep

(* Cut stops at the latest at the choice point of the innermost goal. *)
LEMMA CutInv ==
  ASSUME IInv, NEW e \in 1 .. HeapBase - 1, Cut(e)
  PROVE  IInv'
  <1>. DEFINE k == Len(regstack)
              last == regstack[k]
  <1>1. Running /\ OwnEnv(e) /\ UNCHANGED <<word, gvars, regstack>>
    BY DEF Cut
  <1>2. PICK c \in Bases : StopsAt(c, e) /\ SweepFrom(c, "cut")
    BY DEF Cut
  <1>3. /\ spb = word[b + 2] /\ k \in Nat /\ Bases = ChoicesOf(word, b, trailbase)
        /\ \A d \in Bases : d \in Int
        /\ ChainOf(word, b, trailbase)
    BY <1>1, RunFacts
  <1>4. \A d \in Bases : d < c => ~ (word[d + 2] > e)
    BY <1>2, <1>3 DEF StopsAt, SPBOf
  <1>5. ASSUME NEW i \in 1 .. k
        PROVE  c < regstack[i].b
    <2>1. regstack # << >>
      BY <1>3
    <2>2. /\ last.b \in Int /\ regstack[i].b \in Int /\ last.b <= regstack[i].b
          /\ \E d \in Bases : d < last.b /\ word[d + 3] = last.b /\ word[d + 2] = last.sp - 1
      BY <1>1, <2>1, NewestCaller
    <2>3. PICK d \in Bases : d < last.b /\ word[d + 2] = last.sp - 1
      BY <2>2
    <2>4. e < last.sp - 1
      BY <1>1, <2>1 DEF OwnEnv
    <2>5. word[d + 2] > e
      <3>1. word[d + 2] \in Int
        BY <1>3, AreaAssumption DEF ChainOf, StackTop
      <3>. HIDE DEF last
      <3>. QED BY <2>3, <2>4, <3>1
    <2>6. ~ (d < c)
      BY <1>4, <2>5
    <2>7. c \in Int /\ d \in Int
      BY <1>3
    <2>. HIDE DEF last, k
    <2>. QED BY <2>2, <2>3, <2>6, <2>7
  <1>6. k = IF "cut" = "return" THEN Len(regstack) - 1 ELSE Len(regstack)
    OBVIOUS
  <1>7. "cut" # "return" /\ "cut" \in {"cut", "return"} /\ k \in Int
    BY <1>3
  <1>. HIDE DEF k
  <1>. QED BY <1>1, <1>2, <1>5, <1>6, <1>7, SweepBegins

(* get_out stops exactly at the choice point of the caller. *)
LEMMA SucceedInv ==
  ASSUME IInv, Succeed
  PROVE  IInv'
  <1>. DEFINE k == Len(regstack)
              last == regstack[k]
  <1>1. Running /\ regstack # << >> /\ UNCHANGED <<word, gvars, regstack>>
    BY DEF Succeed
  <1>2. PICK c \in Bases : StopsAt(c, last.sp - 1) /\ SweepFrom(c, "return")
    BY DEF Succeed
  <1>3. /\ spb = word[b + 2] /\ k \in Nat /\ Bases = ChoicesOf(word, b, trailbase)
        /\ \A d \in Bases : d \in Int
        /\ ChainOf(word, b, trailbase) /\ b \in Int /\ trailbase \in Int
    BY <1>1, RunFacts, AreaAssumption DEF IInv, TypeOK
  <1>4. /\ last.b \in Int /\ last.b \in Bases /\ last.spb = word[last.b + 2]
        /\ last.spb \in Int /\ last.sp \in Int /\ last.sp <= last.spb
        /\ \E d \in Bases : d < last.b /\ word[d + 3] = last.b /\ word[d + 2] = last.sp - 1
        /\ \A i \in 1 .. k - 1 : last.b < regstack[i].b
    BY <1>1, NewestCaller
  <1>5. PICK d \in Bases : d < last.b /\ word[d + 3] = last.b /\ word[d + 2] = last.sp - 1
    BY <1>4
  <1>6. /\ word[c + 2] > last.sp - 1
        /\ \A x \in Bases : x < c => ~ (word[x + 2] > last.sp - 1)
    BY <1>2, <1>3 DEF StopsAt, SPBOf
  <1>7. c <= last.b
    <2>1. word[last.b + 2] > last.sp - 1
      <3>. HIDE DEF last
      <3>. QED BY <1>4
    <2>2. ~ (last.b < c)
      BY <1>4, <1>6, <2>1
    <2>3. c \in Int
      BY <1>3
    <2>. HIDE DEF last
    <2>. QED BY <1>4, <2>2, <2>3
  <1>8. d < c
    <2>1. c < d => word[c + 2] <= word[d + 2]
      BY <1>3 DEF ChainOf
    <2>2. word[c + 2] \in Int /\ word[d + 2] \in Int
      BY <1>3, AreaAssumption DEF ChainOf, StackTop
    <2>3. c \in Int /\ d \in Int
      BY <1>3
    <2>4. word[c + 2] > word[d + 2]
      BY <1>5, <1>6
    <2>5. ~ (c < d)
      <3>. HIDE DEF last
      <3>. QED BY <2>1, <2>2, <2>4
    <2>6. c # d
      BY <2>2, <2>4
    <2>. QED BY <2>3, <2>5, <2>6
  <1>9. c = last.b
    <2>1. word[d + 3] <= c
      BY <1>3, <1>8, ChoicesApart
    <2>2. c \in Int
      BY <1>3
    <2>. HIDE DEF last
    <2>. QED BY <1>4, <1>5, <1>7, <2>1, <2>2
  <1>10. k - 1 \in Int /\ "return" \in {"cut", "return"}
    BY <1>3
  <1>11. k - 1 = IF "return" = "return" THEN Len(regstack) - 1 ELSE Len(regstack)
    OBVIOUS
  <1>12. \A i \in 1 .. k - 1 : c < regstack[i].b
    BY <1>4, <1>9
  <1>13. last.spb = word[c + 2]
    BY <1>4, <1>9
  <1>. QED BY <1>1, <1>2, <1>9, <1>10, <1>11, <1>12, <1>13, SweepBegins

LEMMA FailInv ==
  ASSUME IInv, Fail
  PROVE  IInv'
  <1>. DEFINE q == word[b + 3]
              k == Len(regstack)
              last == regstack[k]
  <1>1. /\ Running /\ IsCallBase /\ PopChoice
        /\ end' = b + 4 /\ tr' = q /\ at' = q - 1 /\ pc' = "return"
        /\ UNCHANGED <<gvars, regstack>>
    BY DEF Fail, PrevB
  <1>2. /\ Holds(word, tr, b, trailbase, hb, spb, regstack, k)
        /\ tr \in Int /\ Low <= tr /\ tr <= b /\ b \in Int /\ b <= trailbase - 4
        /\ trailbase \in Int /\ trailbase <= GVBase /\ Low \in Int /\ GVBase \in Int
        /\ Bases = ChoicesOf(word, b, trailbase)
        /\ \A c \in Bases : c \in b .. trailbase - 4 /\ c \in Int
        /\ k \in Nat
    BY <1>1, RunFacts
  <1>3. /\ q \in Bases /\ q \in Int /\ b + 4 <= q
        /\ b' = q /\ hb' = word[q + 1] /\ spb' = word[q + 2]
        /\ hb' \in HeapTop /\ spb' \in StackTop
        /\ DOMAIN word' = b + 4 .. GVBase - 1 /\ WordType(word')
        /\ \A x \in b + 4 .. GVBase - 1 : word'[x] = word[x]
        /\ \A x \in b + 4 .. q - 1 : Plain(word'[x])
    BY <1>1, PopLeaves
  <1>4. q <= trailbase - 4
    BY <1>2, <1>3
  <1>5. regstack # << >> /\ q = last.b
    BY <1>1 DEF IsCallBase, PrevB
  <1>6. /\ last.spb = word[last.b + 2]
        /\ \A i \in 1 .. k - 1 : last.b < regstack[i].b
    BY <1>1, <1>5, NewestCaller
  <1>7. TypeOK'
    <2>1. q \in Low .. GVBase - 4 /\ q - 1 \in 0 .. GVBase /\ b + 4 \in 0 .. GVBase - 1
      BY <1>2, <1>3, <1>4, AreaAssumption
    <2>. QED BY <1>1, <1>3, <2>1 DEF IInv, TypeOK, WordType, gvars, Running
  <1>8. Holds(word', q, q, trailbase, hb', spb', regstack, k - 1)
    <2>1. Same(word, word', q, trailbase - 1)
      BY <1>2, <1>3 DEF Same
    <2>2. /\ k - 1 \in Int /\ k - 1 <= k /\ q \in ChoicesOf(word, b, trailbase) /\ q <= q
          /\ k \in Int
      BY <1>2, <1>3
    <2>3. Entries(word', q, q - 1)
      BY <1>3 DEF Entries
    <2>4. NewerThan(q, regstack, k - 1)
      BY <1>5, <1>6 DEF NewerThan
    <2>5. Holds(word', q, q, trailbase, word[q + 1], word[q + 2], regstack, k - 1)
      <3>. HIDE DEF q, k
      <3>. QED BY <1>2, <1>3, <2>1, <2>2, <2>3, <2>4, HoldsDrop
    <2>. QED BY <1>3, <2>5
  <1>9. Sweeping'
    <2>1. Low <= b + 4 /\ b + 4 <= (q - 1) + 1 /\ q - 1 < q
      BY <1>2, <1>3
    <2>2. last.spb = spb'
      BY <1>3, <1>5, <1>6
    <2>. HIDE DEF q
    <2>. QED BY <1>1, <1>3, <1>5, <2>1, <2>2 DEF Sweeping
  <1>10. FreeListed(word', freelist', FreeVars(trailbase', allocated'))
    <2>1. \A x \in trailbase .. GVBase - 1 : word'[x] = word[x]
      BY <1>2, <1>3
    <2>. QED BY <1>1, <2>1, SameGlobals
  <1>11. /\ Holds(word', tr', b', trailbase', hb', spb', regstack', k - 1)
         /\ k - 1 \in Int
         /\ k - 1 = IF pc' = "return" THEN Len(regstack') - 1 ELSE Len(regstack')
    BY <1>1, <1>2, <1>3, <1>8 DEF gvars
  <1>12. pc' \in {"cut", "return"}
    BY <1>1
  <1>. QED BY <1>7, <1>9, <1>10, <1>11, <1>12, IntoSweep

LEMMA SweepFacts ==
  ASSUME IInv, pc \in {"cut", "return"},
         NEW k, k = IF pc = "return" THEN Len(regstack) - 1 ELSE Len(regstack)
  PROVE  /\ Holds(word, tr, b, trailbase, hb, spb, regstack, k) /\ k \in Int
         /\ Sweeping /\ WordType(word) /\ \A x \in end .. GVBase - 1 : word[x] \in 0 .. GVBase - 1
         /\ tr \in Int /\ tr <= b /\ b \in Int /\ b <= trailbase - 4 /\ Low <= tr
         /\ trailbase \in Int /\ trailbase <= GVBase /\ Low \in Int /\ GVBase \in Int
         /\ at \in Int /\ end \in Int /\ end <= at + 1 /\ at < tr /\ 0 <= Low /\ Low <= end
         /\ regstack \in Seq(Caller)
  <1>1. pc # "shift" /\ Sweeping /\ Chained
    BY DEF IInv
  <1>2. Holds(word, tr, b, trailbase, hb, spb, regstack, k)
    BY <1>1 DEF Chained, Waiting
  <1>3. /\ WordType(word) /\ tr \in Int /\ b \in Int /\ Low <= tr
        /\ trailbase \in Int /\ trailbase <= GVBase /\ Low \in Int /\ GVBase \in Int
        /\ at \in Int /\ end \in Int /\ 0 <= Low
        /\ regstack \in Seq(Caller)
    BY AreaAssumption DEF IInv, TypeOK, WordType, Caller
  <1>4. tr <= b /\ b <= trailbase - 4
    BY <1>2, <1>3 DEF Holds, ChainOf, ChoicesOf
  <1>5. k \in Int
    <2>1. Len(regstack) \in Nat
      BY <1>3
    <2>. QED BY <2>1
  <1>6. end <= at + 1 /\ at < tr /\ Low <= end
    BY <1>1 DEF Sweeping
  <1>7. \A x \in end .. GVBase - 1 : word[x] \in 0 .. GVBase - 1
    BY <1>1, <1>3 DEF Sweeping, WordType
  <1>. QED BY <1>1, <1>2, <1>3, <1>4, <1>5, <1>6, <1>7

LEMMA SweepInv ==
  ASSUME IInv, Sweep
  PROVE  IInv'
  <1>. DEFINE k == IF pc = "return" THEN Len(regstack) - 1 ELSE Len(regstack)
  <1>1. /\ pc \in {"cut", "return"} /\ at >= end /\ (SweepChoice \/ SweepEntry)
        /\ UNCHANGED <<choiceRegs, gvars, regstack, pc, end>>
    BY DEF Sweep
  <1>2. /\ Holds(word, tr, b, trailbase, hb, spb, regstack, k) /\ k \in Int
        /\ Sweeping /\ WordType(word) /\ \A x \in end .. GVBase - 1 : word[x] \in 0 .. GVBase - 1
        /\ tr \in Int /\ tr <= b /\ b \in Int /\ b <= trailbase - 4 /\ Low <= tr
        /\ trailbase \in Int /\ trailbase <= GVBase /\ Low \in Int /\ GVBase \in Int
        /\ at \in Int /\ end \in Int /\ end <= at + 1 /\ at < tr /\ 0 <= Low /\ Low <= end
    BY <1>1, SweepFacts
  <1>3. k = IF pc' = "return" THEN Len(regstack') - 1 ELSE Len(regstack')
    BY <1>1
  <1>4. /\ Plain(word[at]) \/ (word[at] > at /\ at - 3 >= end)
        /\ \A x \in end .. at : Plain(word[x]) \/ (word[x] > x /\ x - 3 >= end)
    <2>1. \A x \in end .. at : Plain(word[x]) \/ (word[x] > x /\ x - 3 >= end)
      BY <1>2 DEF Sweeping
    <2>2. at \in end .. at
      BY <1>1, <1>2
    <2>. QED BY <2>1, <2>2
  <1>5. CASE SweepChoice
    <2>1. word[at] > at /\ at' = at - 4 /\ word' = word /\ tr' = tr
      BY <1>5 DEF SweepChoice
    <2>2. at - 3 >= end
      <3>1. ~ Plain(word[at])
        BY <1>1, <1>2, <2>1 DEF Plain
      <3>. QED BY <1>4, <3>1
    <2>3. TypeOK'
      <3>1. at - 4 \in 0 .. GVBase
        <4>1. at \in 0 .. GVBase
          BY DEF IInv, TypeOK
        <4>2. at - 4 >= Low - 1 /\ Low > 1
          BY <1>2, <2>2, AreaAssumption
        <4>. QED BY <1>2, <4>1, <4>2
      <3>2. pc' # "run"
        BY <1>1
      <3>. QED BY <1>1, <2>1, <3>1, <3>2 DEF IInv, TypeOK, choiceRegs, gvars, Running
    <2>4. Sweeping'
      <3>1. end <= (at - 4) + 1 /\ at - 4 < tr /\ \A x \in end .. at - 4 : x \in end .. at
        BY <1>2, <2>2
      <3>. QED BY <1>1, <1>2, <1>4, <2>1, <3>1 DEF Sweeping, choiceRegs
    <2>5. Holds(word', tr', b', trailbase', hb', spb', regstack', k)
      BY <1>1, <1>2, <2>1 DEF choiceRegs, gvars
    <2>6. FreeListed(word', freelist', FreeVars(trailbase', allocated'))
      BY <1>1, <2>1, SameGlobals
    <2>. HIDE DEF k
    <2>. QED BY <1>1, <1>2, <1>3, <2>3, <2>4, <2>5, <2>6, IntoSweep
  <1>6. CASE SweepEntry
    <2>1. ~ (word[at] > at) /\ at' = at - 1
      <3>1. word[at] \in Int
        BY <1>1, <1>2
      <3>. QED BY <1>2, <1>6, <3>1 DEF SweepEntry
    <2>2. Plain(word[at])
      BY <1>4, <2>1
    <2>3. /\ DOMAIN word' = DOMAIN word
          /\ \A x \in DOMAIN word : x # tr - 1 => word'[x] = word[x]
          /\ \/ tr' = tr - 1 /\ word'[tr - 1] = word[at]
             \/ tr' = tr /\ word' = word
      <3>1. CASE word[at] < hb /\ word[at] >= spb
        <4>1. tr' = tr - 1 /\ word' = [word EXCEPT ![tr - 1] = word[at]]
          BY <1>6, <3>1 DEF SweepEntry
        <4>2. tr - 1 \in DOMAIN word
          BY <1>1, <1>2 DEF Sweeping
        <4>. QED BY <4>1, <4>2
      <3>2. CASE ~ (word[at] < hb /\ word[at] >= spb)
        BY <1>6, <3>2 DEF SweepEntry
      <3>. QED BY <3>1, <3>2
    <2>4. DOMAIN word = end .. GVBase - 1
      BY <1>2 DEF Sweeping
    <2>5. \A x \in end .. at - 1 : word'[x] = word[x]
      <3>1. \A x \in end .. at - 1 : x \in end .. GVBase - 1 /\ x # tr - 1
        BY <1>2
      <3>. QED BY <2>3, <2>4, <3>1
    <2>6. \A x \in tr .. GVBase - 1 : word'[x] = word[x]
      <3>1. \A x \in tr .. GVBase - 1 : x \in end .. GVBase - 1 /\ x # tr - 1
        BY <1>2
      <3>. QED BY <2>3, <2>4, <3>1
    <2>7. tr' \in Int /\ Low <= tr' /\ tr' <= tr /\ at - 1 < tr' /\ (tr' = tr \/ tr' = tr - 1)
      BY <1>1, <1>2, <2>3
    <2>8. TypeOK'
      <3>1. at - 1 \in 0 .. GVBase
        <4>1. at \in 0 .. GVBase
          BY DEF IInv, TypeOK
        <4>2. at - 1 >= Low - 1 /\ Low > 1
          BY <1>1, <1>2, AreaAssumption
        <4>. QED BY <1>2, <4>1, <4>2
      <3>2. pc' # "run"
        BY <1>1
      <3>3. WordType(word')
        <4>1. word[at] \in 0 .. GVBase - 1
          BY <1>1, <1>2
        <4>. QED BY <1>2, <2>3, <4>1 DEF WordType
      <3>4. tr' \in Low .. GVBase - 4
        BY <1>2, <2>7
      <3>. QED BY <1>1, <2>1, <3>1, <3>2, <3>3, <3>4
               DEF IInv, TypeOK, WordType, choiceRegs, gvars, Running
    <2>9. Sweeping'
      <3>1. end <= (at - 1) + 1 /\ \A x \in end .. at - 1 : x \in end .. at
        BY <1>1, <1>2
      <3>. QED BY <1>1, <1>2, <1>4, <2>1, <2>3, <2>4, <2>5, <2>7, <3>1 DEF Sweeping, choiceRegs
    <2>10. Holds(word', tr', b, trailbase, hb, spb, regstack, k)
      <3>1. \A x \in b .. trailbase - 1 : word'[x] = word[x]
        BY <1>2, <2>6
      <3>2. \A x \in tr' .. b - 1 : Plain(word'[x])
        <4>1. \A x \in tr .. b - 1 : Plain(word'[x])
          BY <1>2, <2>6 DEF Holds
        <4>2. CASE tr' = tr
          BY <4>1, <4>2
        <4>3. CASE tr' = tr - 1
          <5>1. tr' = tr - 1 /\ word'[tr - 1] = word[at]
            BY <1>2, <2>3, <4>3
          <5>2. \A x \in tr - 1 .. b - 1 : x = tr - 1 \/ x \in tr .. b - 1
            BY <1>2
          <5>. QED BY <2>2, <4>1, <5>1, <5>2
        <4>. QED BY <2>7, <4>2, <4>3
      <3>3. tr' <= b
        BY <1>2, <2>7
      <3>. HIDE DEF k
      <3>. QED BY <1>2, <2>7, <3>1, <3>2, <3>3, HoldsTrail
    <2>11. Holds(word', tr', b', trailbase', hb', spb', regstack', k)
      BY <1>1, <2>10 DEF choiceRegs, gvars
    <2>12. FreeListed(word', freelist', FreeVars(trailbase', allocated'))
      <3>1. \A x \in trailbase .. GVBase - 1 : word'[x] = word[x]
        BY <1>2, <2>6
      <3>. QED BY <1>1, <3>1, SameGlobals
    <2>. HIDE DEF k
    <2>. QED BY <1>1, <1>2, <1>3, <2>8, <2>9, <2>11, <2>12, IntoSweep
  <1>. QED BY <1>1, <1>5, <1>6

(* Only the first k of the calls count. *)
LEMMA HoldsCalls ==
  ASSUME NEW w, NEW t, NEW n, NEW top, NEW h, NEW s, NEW calls, NEW k,
         Holds(w, t, n, top, h, s, calls, k),
         NEW new, \A i \in 1 .. k : new[i] = calls[i]
  PROVE  Holds(w, t, n, top, h, s, new, k)
  BY DEF Holds

LEMMA SweepDoneInv ==
  ASSUME IInv, SweepDone
  PROVE  IInv'
  <1>. DEFINE k == IF pc = "return" THEN Len(regstack) - 1 ELSE Len(regstack)
  <1>1. /\ pc \in {"cut", "return"} /\ word' = Drop(tr) /\ pc' = "run" /\ at' = 0 /\ end' = 0
        /\ UNCHANGED <<tr, b, hb, gvars>>
    BY DEF SweepDone
  <1>2. /\ Holds(word, tr, b, trailbase, hb, spb, regstack, k) /\ k \in Int
        /\ Sweeping /\ WordType(word) /\ \A x \in end .. GVBase - 1 : word[x] \in 0 .. GVBase - 1
        /\ tr \in Int /\ tr <= b /\ b \in Int /\ b <= trailbase - 4 /\ Low <= tr
        /\ trailbase \in Int /\ trailbase <= GVBase /\ Low \in Int /\ GVBase \in Int
        /\ at \in Int /\ end \in Int /\ end <= at + 1 /\ at < tr /\ 0 <= Low /\ Low <= end
        /\ regstack \in Seq(Caller)
    BY <1>1, SweepFacts
  <1>3. DOMAIN word' = tr .. GVBase - 1 /\ \A x \in tr .. GVBase - 1 : word'[x] = word[x]
    BY <1>1 DEF Drop
  <1>4. /\ spb' = spb /\ regstack' \in Seq(Caller) /\ Len(regstack') = k
        /\ Len(regstack') <= Len(regstack)
        /\ \A i \in 1 .. k : regstack'[i] = regstack[i]
    <2>1. CASE pc = "return"
      <3>1. regstack # << >> /\ spb' = spb /\ regstack' = Front(regstack)
        BY <1>2, <2>1 DEF SweepDone, Sweeping
      <3>2. regstack' = SubSeq(regstack, 1, k) /\ k = Len(regstack) - 1
        BY <2>1, <3>1 DEF Front
      <3>3. Len(regstack) \in Nat /\ Len(regstack) # 0
        BY <1>2, <3>1
      <3>. QED BY <1>2, <3>1, <3>2, <3>3
    <2>2. CASE pc # "return"
      <3>1. spb' = spb /\ regstack' = regstack /\ Len(regstack) \in Nat
        BY <1>2, <2>2 DEF SweepDone
      <3>. QED BY <1>2, <2>2, <3>1
    <2>. QED BY <2>1, <2>2
  <1>5. TypeOK'
    <2>1. WordType(word')
      <3>1. \A x \in tr .. GVBase - 1 : x \in end .. GVBase - 1
        BY <1>2
      <3>. QED BY <1>2, <1>3, <3>1 DEF WordType
    <2>2. Len(regstack') <= MaxCalls
      <3>1. Len(regstack) <= MaxCalls /\ Len(regstack) \in Nat /\ Len(regstack') \in Nat
        BY <1>2, <1>4 DEF IInv, TypeOK
      <3>. QED BY <1>4, <3>1, AreaAssumption
    <2>3. 0 \in 0 .. GVBase /\ 0 \in 0 .. GVBase - 1
      BY AreaAssumption
    <2>. QED BY <1>1, <1>3, <1>4, <2>1, <2>2, <2>3 DEF IInv, TypeOK, WordType, gvars, Running, Caller
  <1>6. Holds(word', tr, b, trailbase, hb, spb, regstack', k)
    <2>1. \A x \in b .. trailbase - 1 : word'[x] = word[x]
      BY <1>2, <1>3
    <2>2. \A x \in tr .. b - 1 : Plain(word'[x])
      BY <1>2, <1>3 DEF Holds
    <2>. HIDE DEF k
    <2>3. Holds(word', tr, b, trailbase, hb, spb, regstack, k)
      BY <1>2, <2>1, <2>2, HoldsTrail
    <2>. QED BY <1>4, <2>3, HoldsCalls
  <1>7. FreeListed(word', freelist', FreeVars(trailbase', allocated'))
    <2>1. \A x \in trailbase .. GVBase - 1 : word'[x] = word[x]
      BY <1>2, <1>3
    <2>. QED BY <1>1, <2>1, SameGlobals
  <1>8. Holds(word', tr', b', trailbase', hb', spb', regstack', Len(regstack'))
    BY <1>1, <1>4, <1>6 DEF gvars
  <1>. QED BY <1>1, <1>5, <1>7, <1>8, BackToRun

LEMMA CallInv ==
  ASSUME IInv, NEW h \in HeapTop, NEW sp \in StackTop, Call(h, sp)
  PROVE  IInv'
  <1>. DEFINE k == Len(regstack)
              r == [b |-> b, spb |-> spb, sp |-> sp]
  <1>1. /\ Running /\ k < MaxCalls /\ sp <= spb /\ sp > 1
        /\ regstack' = Append(regstack, r)
        /\ NewChoice(h, sp - 1) /\ UNCHANGED <<gvars, loop>>
    BY DEF Call
  <1>2. /\ Holds(word, tr, b, trailbase, hb, spb, regstack, k)
        /\ at = 0 /\ end = 0
        /\ tr \in Int /\ Low <= tr /\ tr <= b /\ b \in Int /\ b <= trailbase - 4
        /\ trailbase \in Int /\ trailbase <= GVBase /\ Low \in Int /\ GVBase \in Int
        /\ regstack \in Seq(Caller) /\ k \in Nat
    BY <1>1, RunFacts
  <1>3. sp - 1 \in StackTop
    BY <1>1, AreaAssumption DEF StackTop
  <1>4. /\ DOMAIN word' = tr - 4 .. GVBase - 1 /\ WordType(word')
        /\ \A x \in tr .. GVBase - 1 : word'[x] = word[x]
        /\ word'[tr - 4] = 0 /\ word'[tr - 4 + 1] = h /\ word'[tr - 4 + 2] = sp - 1
        /\ word'[tr - 4 + 3] = b
        /\ tr' = tr - 4 /\ b' = tr - 4 /\ hb' = h /\ spb' = sp - 1 /\ Low <= tr - 4 /\ sp - 1 <= spb
    BY <1>1, <1>3, NewChoiceWrites
  <1>5. r \in Caller /\ r.b = b /\ r.spb = spb /\ r.sp = sp
    <2>1. b \in Low .. GVBase - 4 /\ spb \in StackTop
      BY DEF IInv, TypeOK
    <2>. QED BY <2>1 DEF Caller
  <1>6. regstack' \in Seq(Caller) /\ Len(regstack') = k + 1
    BY <1>1, <1>2, <1>5
  <1>7. TypeOK'
    <2>1. tr - 4 \in Low .. GVBase - 4
      BY <1>2, <1>4
    <2>2. k + 1 <= MaxCalls
      BY <1>1, <1>2, AreaAssumption
    <2>. HIDE DEF k
    <2>. QED BY <1>1, <1>3, <1>4, <1>6, <2>1, <2>2
             DEF IInv, TypeOK, WordType, gvars, loop, Running, Caller
  <1>8. Holds(word', tr - 4, tr - 4, trailbase, h, sp - 1, regstack', k + 1)
    <2>1. Same(word, word', tr, trailbase - 1)
      BY <1>2, <1>4 DEF Same
    <2>2. tr - 4 \in Int /\ tr - 4 + 4 = tr /\ k \in Int
      BY <1>2
    <2>3. r.sp <= r.spb /\ word'[tr - 4 + 2] = r.sp - 1 /\ word'[tr - 4 + 2] <= spb
      BY <1>1, <1>4, <1>5
    <2>4. word'[tr - 4 + 1] \in HeapTop /\ word'[tr - 4 + 2] \in StackTop
      BY <1>3, <1>4
    <2>5. k = Len(regstack)
      OBVIOUS
    <2>6. Holds(word', tr - 4, tr - 4, trailbase, word'[tr - 4 + 1], word'[tr - 4 + 2],
                Append(regstack, r), k + 1)
      <3>. HIDE DEF k, r
      <3>. QED BY ZenonT(60), <1>2, <1>4, <1>5, <2>1, <2>2, <2>3, <2>4, <2>5, HoldsCall
    <2>. QED BY <1>1, <1>4, <2>6
  <1>9. FreeListed(word', freelist', FreeVars(trailbase', allocated'))
    <2>1. \A x \in trailbase .. GVBase - 1 : word'[x] = word[x]
      BY <1>2, <1>4
    <2>. QED BY <1>1, <2>1, SameGlobals
  <1>10. Holds(word', tr', b', trailbase', hb', spb', regstack', Len(regstack'))
    BY <1>1, <1>4, <1>6, <1>8 DEF gvars
  <1>11. pc' = "run" /\ at' = 0 /\ end' = 0
    BY <1>1, <1>2 DEF loop, Running
  <1>. QED BY <1>7, <1>9, <1>10, <1>11, BackToRun
------------------------------------------------------------------------------
(***************************************************************************)
(* Global variables                                                        *)
(***************************************************************************)
LEMMA LeastOf ==
  ASSUME NEW n \in Nat, NEW X, X \subseteq 0 .. n, X # {}
  PROVE  \E x \in X : \A y \in X : x <= y
  <1>. DEFINE S == 0 .. n
              T == {0 .. x : x \in X}
  <1>1. IsFiniteSet(S)
    BY FS_Interval
  <1>2. IsWellFoundedOn(StrictSubsetOrdering(S), SUBSET S)
    BY <1>1, FS_FiniteSubsetsOfFinite, FS_StrictSubsetOrderingWellFounded
  <1>3. T \subseteq SUBSET S /\ T # {}
    <2>1. \A x \in 0 .. n : 0 .. x \subseteq 0 .. n
      OBVIOUS
    <2>2. \A x \in X : 0 .. x \in SUBSET S
      BY <2>1
    <2>. QED BY <2>2
  <1>4. PICK t \in T : \A u \in T : <<u, t>> \notin StrictSubsetOrdering(S)
    <2>. HIDE DEF T, S
    <2>. QED BY <1>2, <1>3, WFMin
  <1>5. PICK x \in X : t = 0 .. x
    BY <1>4
  <1>6. ASSUME NEW y \in X, y < x
        PROVE  FALSE
    <2>1. 0 .. y \in T /\ 0 .. y \in SUBSET S /\ t \in SUBSET S
      BY <1>3
    <2>2. <<0 .. y, t>> \notin StrictSubsetOrdering(S)
      BY <1>4, <2>1
    <2>3. 0 .. y \subseteq t /\ 0 .. y # t
      BY <1>5, <1>6
    <2>. QED BY <2>1, <2>2, <2>3 DEF StrictSubsetOrdering
  <1>. QED BY <1>6

(* gv_set raises to an HB, or to the register H. *)
LEMMA GvSetInv ==
  ASSUME IInv, NEW newp \in HeapBase .. Low - 1, NEW h \in HeapTop, GvSet(newp, h)
  PROVE  IInv'
  <1>. DEFINE protecting == {c \in Bases : \A d \in Bases : d <= c => word[d + 1] > newp}
              tops == {word[c + 1] : c \in protecting}
              hbl == IF protecting = {} THEN h
                     ELSE CHOOSE v \in tops : \A c \in protecting : v <= word[c + 1]
              raised == {c + 1 : c \in Bases \ protecting}
  <1>1. /\ Running /\ word' = [x \in DOMAIN word |-> IF x \in raised THEN hbl ELSE word[x]]
        /\ hb' = word'[b + 1]
        /\ UNCHANGED <<tr, b, spb, gvars, regstack, loop>>
    BY DEF GvSet
  <1>2. /\ Holds(word, tr, b, trailbase, hb, spb, regstack, Len(regstack))
        /\ DOMAIN word = tr .. GVBase - 1 /\ WordType(word) /\ at = 0 /\ end = 0
        /\ tr \in Int /\ Low <= tr /\ tr <= b /\ b \in Int /\ b <= trailbase - 4
        /\ trailbase \in Int /\ trailbase <= GVBase /\ Low \in Int /\ GVBase \in Int
        /\ Bases = ChoicesOf(word, b, trailbase) /\ b \in Bases
        /\ \A c \in Bases : c \in b .. trailbase - 4 /\ c \in Int
        /\ ChainOf(word, b, trailbase)
        /\ Len(regstack) \in Nat
    BY <1>1, RunFacts
  <1>3. \A c \in Bases : word[c + 1] \in HeapTop
    BY <1>2 DEF ChainOf
  <1>4. hbl \in HeapTop
    <2>1. CASE protecting = {}
      BY <2>1
    <2>2. CASE protecting # {}
      <3>1. tops # {} /\ tops \subseteq HeapTop
        BY <1>3, <2>2
      <3>2. Low \in Nat /\ HeapTop \subseteq 0 .. Low
        BY AreaAssumption DEF HeapTop
      <3>3. PICK v \in tops : \A u \in tops : v <= u
        <4>. HIDE DEF tops
        <4>. QED BY <3>1, <3>2, LeastOf
      <3>4. \A c \in protecting : v <= word[c + 1]
        BY <3>3
      <3>5. hbl \in tops
        <4>1. hbl = CHOOSE x \in tops : \A c \in protecting : x <= word[c + 1]
          BY <2>2
        <4>. HIDE DEF hbl, tops, protecting
        <4>. QED BY <3>4, <4>1
      <3>. HIDE DEF hbl, tops
      <3>. QED BY <3>1, <3>5
    <2>. QED BY <2>1, <2>2
  <1>5. \A x \in raised : x - 1 \in Bases /\ x \in b + 1 .. trailbase - 3
    <2>. SUFFICES ASSUME NEW x \in raised PROVE x - 1 \in Bases /\ x \in b + 1 .. trailbase - 3
      OBVIOUS
    <2>1. PICK c \in Bases : x = c + 1
      OBVIOUS
    <2>2. c \in Int /\ c \in b .. trailbase - 4
      BY <1>2
    <2>3. x - 1 = c
      BY <2>1, <2>2
    <2>. QED BY <1>2, <2>1, <2>2, <2>3
  <1>. HIDE DEF hbl, raised, tops, protecting
  <1>6. DOMAIN word' = tr .. GVBase - 1
        /\ \A x \in tr .. GVBase - 1 : word'[x] = IF x \in raised THEN hbl ELSE word[x]
    BY <1>1, <1>2
  <1>7. WordType(word')
    <2>1. hbl \in 0 .. GVBase - 1
      BY <1>4, AreaAssumption DEF HeapTop
    <2>. QED BY <1>2, <1>6, <2>1 DEF WordType
  <1>8. Holds(word', tr, b, trailbase, word'[b + 1], spb, regstack, Len(regstack))
    <2>. DEFINE k == Len(regstack)
    <2>1. \A x \in tr .. trailbase - 1 :
            word'[x] = word[x] \/ (word'[x] \in HeapTop /\ x - 1 \in ChoicesOf(word, b, trailbase))
      <3>1. \A x \in tr .. trailbase - 1 : x \in tr .. GVBase - 1
        BY <1>2
      <3>. QED BY <1>2, <1>4, <1>5, <1>6, <3>1
    <2>2. Holds(word, tr, b, trailbase, hb, spb, regstack, k) /\ k \in Int
      BY <1>2
    <2>. HIDE DEF k
    <2>3. Holds(word', tr, b, trailbase, word'[b + 1], spb, regstack, k)
      BY <1>2, <2>1, <2>2, HoldsRaise
    <2>. QED BY <2>3 DEF k
  <1>9. word'[b + 1] \in HeapTop
    <2>1. b + 1 \in tr .. GVBase - 1
      BY <1>2
    <2>. QED BY <1>2, <1>3, <1>4, <1>6, <2>1
  <1>10. TypeOK'
    BY <1>1, <1>2, <1>6, <1>7, <1>9 DEF IInv, TypeOK, WordType, gvars, loop, Running
  <1>11. FreeListed(word', freelist', FreeVars(trailbase', allocated'))
    <2>1. \A x \in trailbase .. GVBase - 1 : x \in tr .. GVBase - 1 /\ ~ (x \in b + 1 .. trailbase - 3)
      BY <1>2
    <2>2. \A x \in trailbase .. GVBase - 1 : word'[x] = word[x]
      BY <1>5, <1>6, <2>1
    <2>. QED BY <1>1, <2>2, SameGlobals
  <1>. QED BY <1>1, <1>2, <1>8, <1>10, <1>11, BackToRun DEF gvars, loop, Running

LEMMA HeadFree ==
  ASSUME NEW w, NEW head, NEW free, FreeListed(w, head, free)
  PROVE  head = 0 \/ head \in free
  <1>1. PICK n \in Nat : \E f : Lists(n, f, w, head, free)
    BY DEF FreeListed
  <1>2. PICK f : Lists(n, f, w, head, free)
    BY <1>1
  <1>3. n # 0 => 1 \in 1 .. n
    OBVIOUS
  <1>. QED BY <1>2, <1>3 DEF Lists

LEMMA FreeLess ==
  ASSUME NEW base \in Int, NEW used \in SUBSET Int, NEW x \in Int
  PROVE  FreeVars(base, used \cup {GVBase - x}) = FreeVars(base, used) \ {x}
  <1>1. GVBase \in Int /\ GVBase - (GVBase - x) = x
    BY AreaAssumption
  <1>. QED BY <1>1 DEF FreeVars

LEMMA FreeMore ==
  ASSUME NEW base \in Int, NEW used \in SUBSET Int, NEW v \in used, GVBase - v \in base .. GVBase - 1
  PROVE  /\ FreeVars(base, used \ {v}) = FreeVars(base, used) \cup {GVBase - v}
         /\ GVBase - v \notin FreeVars(base, used)
  <1>1. GVBase \in Int /\ \A u \in used : GVBase - u = GVBase - v => u = v
    BY AreaAssumption
  <1>. QED BY <1>1 DEF FreeVars

LEMMA GvAllocFromListInv ==
  ASSUME IInv, GvAllocFromList
  PROVE  IInv'
  <1>. DEFINE free == FreeVars(trailbase, allocated)
  <1>1. /\ Running /\ freelist # 0 /\ freelist' = word[freelist]
        /\ word' = [word EXCEPT ![freelist] = 0]
        /\ allocated' = allocated \cup {GVBase - freelist}
        /\ UNCHANGED <<tr, choiceRegs, trailbase, regstack, loop>>
    BY DEF GvAllocFromList
  <1>2. /\ Holds(word, tr, b, trailbase, hb, spb, regstack, Len(regstack))
        /\ DOMAIN word = tr .. GVBase - 1 /\ WordType(word) /\ at = 0 /\ end = 0
        /\ tr \in Int /\ Low <= tr /\ tr <= b /\ b \in Int /\ b <= trailbase - 4
        /\ trailbase \in Int /\ trailbase <= GVBase /\ Low \in Int /\ GVBase \in Int
        /\ FreeListed(word, freelist, free)
        /\ Len(regstack) \in Nat
    BY <1>1, RunFacts
  <1>3. /\ DOMAIN word' = DOMAIN word
        /\ \A x \in DOMAIN word : word'[x] = IF x = freelist THEN 0 ELSE word[x]
    BY <1>1
  <1>4. freelist \in free /\ FreeListed(word', word[freelist], free \ {freelist})
    <2>1. \A x \in free : x # freelist => word'[x] = word[x]
      <3>1. \A x \in free : x \in DOMAIN word
        BY <1>2 DEF FreeVars
      <3>. QED BY <1>3, <3>1
    <2>. HIDE DEF free
    <2>. QED BY <1>1, <1>2, <2>1, TakeFirst
  <1>5. freelist \in trailbase .. GVBase - 1 /\ freelist \in Int
    BY <1>2, <1>4 DEF FreeVars
  <1>6. allocated \subseteq 1 .. GVBase - trailbase
    BY DEF IInv, TypeOK
  <1>7. FreeVars(trailbase, allocated') = free \ {freelist}
    <2>1. allocated \in SUBSET Int
      BY <1>6
    <2>. QED BY <1>1, <1>2, <1>5, <2>1, FreeLess
  <1>8. word[freelist] = 0 \/ word[freelist] \in free \ {freelist}
    BY <1>4, HeadFree
  <1>9. TypeOK'
    <2>1. freelist' \in {0} \cup trailbase .. GVBase - 1
      BY <1>1, <1>8 DEF FreeVars
    <2>2. allocated' \subseteq 1 .. GVBase - trailbase
      <3>1. GVBase - freelist \in 1 .. GVBase - trailbase
        BY <1>2, <1>5
      <3>. QED BY <1>1, <1>6, <3>1
    <2>3. WordType(word')
      <3>1. 0 \in 0 .. GVBase - 1
        BY AreaAssumption
      <3>. QED BY <1>2, <1>3, <3>1 DEF WordType
    <2>. HIDE DEF free
    <2>. QED BY <1>1, <1>2, <1>3, <2>1, <2>2, <2>3
             DEF IInv, TypeOK, WordType, choiceRegs, loop, Running
  <1>10. Holds(word', tr, b, trailbase, hb, spb, regstack, Len(regstack))
    <2>. DEFINE k == Len(regstack)
    <2>1. \A x \in tr .. trailbase - 1 : word'[x] = word[x]
      BY <1>2, <1>3, <1>5
    <2>2. \A x \in b .. trailbase - 1 : word'[x] = word[x]
      BY <1>2, <2>1
    <2>3. \A x \in tr .. b - 1 : Plain(word'[x])
      BY <1>2, <2>1 DEF Holds
    <2>4. Holds(word, tr, b, trailbase, hb, spb, regstack, k) /\ k \in Int
      BY <1>2
    <2>. HIDE DEF k
    <2>5. Holds(word', tr, b, trailbase, hb, spb, regstack, k)
      BY <1>2, <2>2, <2>3, <2>4, HoldsTrail
    <2>. QED BY <2>5 DEF k
  <1>11. FreeListed(word', freelist', FreeVars(trailbase', allocated'))
    BY <1>1, <1>4, <1>7
  <1>12. Holds(word', tr', b', trailbase', hb', spb', regstack', Len(regstack'))
         /\ pc' = "run" /\ at' = 0 /\ end' = 0
    BY <1>1, <1>2, <1>10 DEF choiceRegs, loop, Running
  <1>. QED BY <1>9, <1>11, <1>12, BackToRun

LEMMA GvFreeInv ==
  ASSUME IInv, NEW v \in allocated, GvFree(v)
  PROVE  IInv'
  <1>. DEFINE free == FreeVars(trailbase, allocated)
              x == GVBase - v
  <1>1. /\ Running /\ word' = [word EXCEPT ![x] = freelist] /\ freelist' = x
        /\ allocated' = allocated \ {v}
        /\ UNCHANGED <<tr, choiceRegs, trailbase, regstack, loop>>
    BY DEF GvFree
  <1>2. /\ Holds(word, tr, b, trailbase, hb, spb, regstack, Len(regstack))
        /\ DOMAIN word = tr .. GVBase - 1 /\ WordType(word) /\ at = 0 /\ end = 0
        /\ tr \in Int /\ Low <= tr /\ tr <= b /\ b \in Int /\ b <= trailbase - 4
        /\ trailbase \in Int /\ trailbase <= GVBase /\ Low \in Int /\ GVBase \in Int
        /\ FreeListed(word, freelist, free)
        /\ Len(regstack) \in Nat
    BY <1>1, RunFacts
  <1>3. allocated \subseteq 1 .. GVBase - trailbase /\ v \in Int
    BY DEF IInv, TypeOK
  <1>4. x \in trailbase .. GVBase - 1 /\ x \in Int
    BY <1>2, <1>3
  <1>5. FreeVars(trailbase, allocated \ {v}) = free \cup {x} /\ x \notin free
    <2>1. allocated \in SUBSET Int
      BY <1>3
    <2>. QED BY <1>2, <1>4, <2>1, FreeMore
  <1>. HIDE DEF x, free
  <1>6. /\ DOMAIN word' = DOMAIN word
        /\ \A y \in DOMAIN word : word'[y] = IF y = x THEN freelist ELSE word[y]
    BY <1>1
  <1>7. FreeListed(word', x, free \cup {x})
    <2>1. \A y \in free : word'[y] = word[y]
      <3>1. \A y \in free : y \in DOMAIN word /\ y # x
        BY <1>2, <1>5 DEF FreeVars, free
      <3>. QED BY <1>6, <3>1
    <2>2. word'[x] = freelist
      <3>1. x \in DOMAIN word
        BY <1>2, <1>4
      <3>. QED BY <1>6, <3>1
    <2>. QED BY <1>2, <1>5, <2>1, <2>2, AddFirst
  <1>8. freelist \in {0} \cup trailbase .. GVBase - 1
    BY DEF IInv, TypeOK
  <1>9. TypeOK'
    <2>1. WordType(word')
      <3>1. freelist \in 0 .. GVBase - 1
        BY <1>2, <1>8, AreaAssumption
      <3>. QED BY <1>2, <1>6, <3>1 DEF WordType
    <2>2. allocated' \subseteq 1 .. GVBase - trailbase
      BY <1>1, <1>3
    <2>. QED BY <1>1, <1>2, <1>4, <1>6, <2>1, <2>2
             DEF IInv, TypeOK, WordType, choiceRegs, loop, Running
  <1>10. Holds(word', tr, b, trailbase, hb, spb, regstack, Len(regstack))
    <2>. DEFINE k == Len(regstack)
    <2>1. \A y \in tr .. trailbase - 1 : word'[y] = word[y]
      BY <1>2, <1>4, <1>6
    <2>2. \A y \in b .. trailbase - 1 : word'[y] = word[y]
      BY <1>2, <2>1
    <2>3. \A y \in tr .. b - 1 : Plain(word'[y])
      BY <1>2, <2>1 DEF Holds
    <2>4. Holds(word, tr, b, trailbase, hb, spb, regstack, k) /\ k \in Int
      BY <1>2
    <2>. HIDE DEF k
    <2>5. Holds(word', tr, b, trailbase, hb, spb, regstack, k)
      BY <1>2, <2>2, <2>3, <2>4, HoldsTrail
    <2>. QED BY <2>5 DEF k
  <1>11. FreeListed(word', freelist', FreeVars(trailbase', allocated'))
    BY <1>1, <1>5, <1>7
  <1>12. Holds(word', tr', b', trailbase', hb', spb', regstack', Len(regstack'))
         /\ pc' = "run" /\ at' = 0 /\ end' = 0
    BY <1>1, <1>2, <1>10 DEF choiceRegs, loop, Running
  <1>. QED BY <1>9, <1>11, <1>12, BackToRun
------------------------------------------------------------------------------
(***************************************************************************)
(* The loop of gv_alloc                                                    *)
(***************************************************************************)

(* What a word below the global variables can be *)
LEMMA AnyWord ==
  ASSUME NEW w, NEW t \in Int, NEW n \in Int, NEW top \in Int, NEW h, NEW s, NEW calls, NEW k,
         Holds(w, t, n, top, h, s, calls, k), NEW x \in t .. top - 1
  PROVE  Plain(w[x]) \/ (w[x] \in Int /\ w[x] > x /\ w[x] < top)
  <1>1. ChainOf(w, n, top) /\ x \in Int
    BY DEF Holds
  <1>2. CASE x < n
    <2>1. x \in t .. n - 1
      BY <1>2
    <2>. QED BY <2>1 DEF Holds
  <1>3. CASE ~ (x < n) /\ ~ Plain(w[x])
    <2>1. x \in n .. top - 1
      BY <1>3
    <2>2. w[x] > x /\ x - 3 \in ChoicesOf(w, n, top)
      BY <1>1, <1>3, <2>1 DEF ChainOf
    <2>3. x # top - 1
      BY <1>1, <1>3, AreaAssumption DEF ChainOf, Plain
    <2>4. x - 3 # top - 4 /\ (x - 3) + 3 = x
      BY <1>1, <2>3
    <2>5. w[(x - 3) + 3] \in ChoicesOf(w, n, top)
      BY <1>1, <2>2, <2>4 DEF ChainOf
    <2>6. w[x] \in n .. top - 4
      BY <2>4, <2>5 DEF ChoicesOf
    <2>. QED BY <2>2, <2>6
  <1>. QED BY <1>2, <1>3

LEMMA ShiftFacts ==
  ASSUME IInv, pc = "shift"
  PROVE  /\ Holds(Was, tr, b, trailbase, hb, spb, regstack, Len(regstack)) /\ Len(regstack) \in Int
         /\ Shifting /\ WordType(word)
         /\ \A x \in tr .. GVBase - 1 : word[x] \in 0 .. GVBase - 1
         /\ tr \in Int /\ tr <= b /\ b \in Int /\ b <= trailbase - 4 /\ Low <= tr - GV_SHIFT
         /\ trailbase \in Int /\ trailbase <= GVBase /\ Low \in Int /\ GVBase \in Int
         /\ at \in Int /\ tr <= at /\ at <= trailbase /\ 0 <= Low
         /\ GV_SHIFT \in Nat /\ GV_SHIFT > 0
         /\ regstack \in Seq(Caller)
  <1>1. Shifting /\ Chained /\ pc # "return"
    BY DEF IInv
  <1>2. Holds(Was, tr, b, trailbase, hb, spb, regstack, Len(regstack))
    BY <1>1 DEF Chained, Waiting
  <1>3. /\ WordType(word) /\ tr \in Int /\ b \in Int /\ GV_SHIFT \in Nat /\ GV_SHIFT > 0
        /\ trailbase \in Int /\ trailbase <= GVBase /\ Low \in Int /\ GVBase \in Int
        /\ at \in Int /\ 0 <= Low
        /\ regstack \in Seq(Caller)
    BY AreaAssumption DEF IInv, TypeOK, WordType, Caller
  <1>4. tr <= b /\ b <= trailbase - 4
    BY <1>2, <1>3 DEF Holds, ChainOf, ChoicesOf
  <1>5. Len(regstack) \in Int
    BY <1>3
  <1>6. tr <= at /\ at <= trailbase /\ Low <= tr - GV_SHIFT
    BY <1>1 DEF Shifting
  <1>7. \A x \in tr .. GVBase - 1 : word[x] \in 0 .. GVBase - 1
    BY <1>1, <1>3 DEF Shifting, WordType
  <1>. QED BY <1>1, <1>2, <1>3, <1>4, <1>5, <1>6, <1>7

LEMMA StillShifting ==
  ASSUME TypeOK', pc' = "shift", Shifting',
         Holds(Was', tr', b', trailbase', hb', spb', regstack', Len(regstack')),
         FreeListed(word', freelist', FreeVars(trailbase', allocated'))
  PROVE  IInv'
  <1>1. pc' # "run" /\ pc' \notin {"cut", "return"}
    OBVIOUS
  <1>. QED BY <1>1 DEF IInv, Chained, Waiting

LEMMA GvAllocShiftInv ==
  ASSUME IInv, GvAllocShift
  PROVE  IInv' /\ \A x \in tr .. trailbase - 1 : Was'[x] = word[x]
  <1>. DEFINE k == Len(regstack)
  <1>1. /\ Running /\ freelist = 0 /\ tr - GV_SHIFT >= Low
        /\ pc' = "shift" /\ at' = tr
        /\ UNCHANGED <<word, tr, choiceRegs, gvars, regstack, end>>
    BY DEF GvAllocShift
  <1>2. /\ Holds(word, tr, b, trailbase, hb, spb, regstack, k)
        /\ DOMAIN word = tr .. GVBase - 1 /\ end = 0
        /\ tr \in Int /\ Low <= tr /\ tr <= b /\ b \in Int /\ b <= trailbase - 4
        /\ trailbase \in Int /\ trailbase <= GVBase /\ Low \in Int /\ GVBase \in Int
        /\ k \in Nat
    BY <1>1, RunFacts
  <1>3. \A x \in tr .. trailbase - 1 : Was'[x] = word[x]
    <2>1. Was' = [x \in tr .. trailbase - 1 |->
                    IF pc' # "shift" \/ x >= tr THEN word[x]
                    ELSE LET v == word[x - GV_SHIFT]
                         IN  IF v > x - GV_SHIFT THEN v + GV_SHIFT ELSE v]
      BY <1>1 DEF Was, Unmoved, gvars
    <2>. QED BY <1>2, <2>1
  <1>4. Holds(Was', tr, b, trailbase, hb, spb, regstack, k)
    <2>1. \A x \in b .. trailbase - 1 : Was'[x] = word[x]
      BY <1>2, <1>3
    <2>2. \A x \in tr .. b - 1 : Plain(Was'[x])
      BY <1>2, <1>3 DEF Holds
    <2>3. k \in Int
      BY <1>2
    <2>. HIDE DEF k
    <2>. QED BY <1>2, <2>1, <2>2, <2>3, HoldsTrail
  <1>5. Shifting'
    <2>1. /\ tr .. GVBase - 1 = (tr - GV_SHIFT .. tr - 1 - GV_SHIFT) \cup (tr .. GVBase - 1)
          /\ tr <= tr /\ tr <= trailbase /\ Low <= tr - GV_SHIFT /\ tr .. tr - 1 = {}
      BY <1>1, <1>2, AreaAssumption
    <2>. QED BY <1>1, <1>2, <2>1 DEF Shifting, gvars
  <1>6. TypeOK'
    <2>1. tr \in 0 .. GVBase
      BY <1>2, AreaAssumption
    <2>. QED BY <1>1, <2>1 DEF IInv, TypeOK, choiceRegs, gvars, Running
  <1>7. FreeListed(word', freelist', FreeVars(trailbase', allocated'))
    BY <1>1, SameGlobals
  <1>8. Holds(Was', tr', b', trailbase', hb', spb', regstack', Len(regstack'))
    BY <1>1, <1>4 DEF choiceRegs, gvars
  <1>9. IInv'
    BY <1>1, <1>5, <1>6, <1>7, <1>8, StillShifting
  <1>. QED BY <1>3, <1>9

(* A word is moved: it is read back as it was. *)
LEMMA ShiftInv ==
  ASSUME IInv, Shift
  PROVE  IInv' /\ \A x \in tr .. trailbase - 1 : Was'[x] = Was[x]
  <1>. DEFINE S == GV_SHIFT
              k == Len(regstack)
              new == Moved(word[at], at)
  <1>1. /\ pc = "shift" /\ at < trailbase /\ at' = at + 1
        /\ word' = [x \in DOMAIN word \cup {at - S} |-> IF x = at - S THEN new ELSE word[x]]
        /\ UNCHANGED <<tr, choiceRegs, gvars, regstack, pc, end>>
    BY DEF Shift
  <1>2. /\ Holds(Was, tr, b, trailbase, hb, spb, regstack, k) /\ k \in Int
        /\ Shifting /\ WordType(word)
        /\ \A x \in tr .. GVBase - 1 : word[x] \in 0 .. GVBase - 1
        /\ tr \in Int /\ tr <= b /\ b \in Int /\ b <= trailbase - 4 /\ Low <= tr - S
        /\ trailbase \in Int /\ trailbase <= GVBase /\ Low \in Int /\ GVBase \in Int
        /\ at \in Int /\ tr <= at /\ at <= trailbase /\ 0 <= Low
        /\ S \in Nat /\ S > 0
    BY <1>1, ShiftFacts
  <1>. HIDE DEF k
  <1>3. /\ DOMAIN word' = DOMAIN word \cup {at - S} /\ word'[at - S] = new
        /\ \A x \in DOMAIN word : x # at - S => word'[x] = word[x]
    BY <1>1
  <1>4. DOMAIN word = (tr - S .. at - 1 - S) \cup (tr .. GVBase - 1)
    BY <1>2 DEF Shifting
  <1>5. /\ at \in tr .. trailbase - 1 /\ at \in DOMAIN word /\ Was[at] = word[at]
        /\ word[at] \in 0 .. GVBase - 1 /\ word[at] \in Int
    <2>1. at \in tr .. trailbase - 1 /\ at \in tr .. GVBase - 1
      BY <1>1, <1>2
    <2>2. Was[at] = word[at]
      BY <1>2, <2>1 DEF Was, Unmoved
    <2>3. word[at] \in 0 .. GVBase - 1
      BY <1>2, <2>1
    <2>4. word[at] \in Int
      BY <1>2, <2>3
    <2>. QED BY <1>4, <2>1, <2>2, <2>3, <2>4
  <1>6. \/ Plain(word[at]) /\ new = word[at]
        \/ /\ word[at] > at /\ word[at] < trailbase /\ new = word[at] - S
           /\ new > at - S /\ new < trailbase - S
    <2>1. Plain(Was[at]) \/ (Was[at] \in Int /\ Was[at] > at /\ Was[at] < trailbase)
      BY <1>2, <1>5, AnyWord
    <2>2. CASE Plain(word[at])
      <3>1. ~ (at < word[at])
        BY <1>2, <2>2 DEF Plain
      <3>. QED BY <2>2, <3>1 DEF Moved
    <2>3. CASE word[at] > at /\ word[at] < trailbase
      <3>1. new = word[at] - S
        BY <1>2, <1>5, <2>3 DEF Moved
      <3>2. word[at] - S > at - S /\ word[at] - S < trailbase - S
        BY <1>2, <1>5, <2>3
      <3>. QED BY <2>3, <3>1, <3>2
    <2>. QED BY <1>5, <2>1, <2>2, <2>3
  <1>7. new \in 0 .. GVBase - 1
    <2>1. word[at] > at /\ new = word[at] - S => new \in 0 .. GVBase - 1
      <3>1. word[at] > at => word[at] - S >= 0 /\ word[at] - S <= GVBase - 1
        BY <1>2, <1>5
      <3>2. word[at] - S \in Int
        BY <1>2, <1>5
      <3>. HIDE DEF new
      <3>. QED BY <1>2, <3>1, <3>2
    <2>. HIDE DEF new
    <2>. QED BY <1>5, <1>6, <2>1
  <1>. HIDE DEF new
  <1>8. \A x \in tr .. trailbase - 1 : Was'[x] = Was[x]
    <2>. SUFFICES ASSUME NEW x \in tr .. trailbase - 1 PROVE Was'[x] = Was[x]
      OBVIOUS
    <2>1. Was'[x] = IF x >= at + 1 THEN word'[x]
                    ELSE LET v == word'[x - S] IN IF v > x - S THEN v + S ELSE v
      <3>1. Was' = [y \in tr .. trailbase - 1 |->
                    IF pc' # "shift" \/ y >= at' THEN word'[y]
                    ELSE LET v == word'[y - GV_SHIFT]
                         IN  IF v > y - GV_SHIFT THEN v + GV_SHIFT ELSE v]
        BY <1>1 DEF Was, Unmoved, gvars
      <3>. QED BY <1>1, <3>1
    <2>2. Was[x] = IF x >= at THEN word[x]
                   ELSE LET v == word[x - S] IN IF v > x - S THEN v + S ELSE v
      BY <1>1 DEF Was, Unmoved
    <2>3. CASE x > at
      <3>1. x >= at + 1 /\ x >= at /\ x \in tr .. GVBase - 1 /\ x # at - S
        BY <1>2, <2>3
      <3>2. word'[x] = word[x]
        BY <1>3, <1>4, <3>1
      <3>. QED BY <2>1, <2>2, <3>1, <3>2
    <2>4. CASE x < at
      <3>1. ~ (x >= at + 1) /\ ~ (x >= at) /\ x - S \in tr - S .. at - 1 - S /\ x - S # at - S
        BY <1>2, <2>4
      <3>2. word'[x - S] = word[x - S]
        BY <1>3, <1>4, <3>1
      <3>. QED BY <2>1, <2>2, <3>1, <3>2
    <2>5. CASE x = at
      <3>1. ~ (x >= at + 1) /\ x >= at
        BY <1>2, <2>5
      <3>2. Was'[x] = IF new > at - S THEN new + S ELSE new
        BY <1>3, <2>1, <2>5, <3>1
      <3>3. Was[x] = word[at]
        BY <2>2, <2>5, <3>1
      <3>4. CASE Plain(word[at]) /\ new = word[at]
        <4>1. ~ (new > at - S)
          BY <1>2, <3>4 DEF Plain
        <4>. QED BY <3>2, <3>3, <3>4, <4>1
      <3>5. CASE new = word[at] - S /\ new > at - S
        <4>1. (word[at] - S) + S = word[at]
          BY <1>2, <1>5
        <4>. QED BY <3>2, <3>3, <3>5, <4>1
      <3>. QED BY <1>6, <3>4, <3>5
    <2>6. x > at \/ x < at \/ x = at
      BY <1>2
    <2>. QED BY <2>3, <2>4, <2>5, <2>6
  <1>9. Holds(Was', tr, b, trailbase, hb, spb, regstack, k)
    <2>1. \A x \in b .. trailbase - 1 : Was'[x] = Was[x]
      BY <1>2, <1>8
    <2>2. \A x \in tr .. b - 1 : Plain(Was'[x])
      BY <1>2, <1>8 DEF Holds
    <2>. QED BY <1>2, <2>1, <2>2, HoldsTrail
  <1>10. Shifting'
    <2>1. DOMAIN word' = (tr - S .. (at + 1) - 1 - S) \cup (tr .. GVBase - 1)
      <3>1. (tr - S .. at - 1 - S) \cup {at - S} = tr - S .. (at + 1) - 1 - S
        BY <1>2
      <3>. QED BY <1>3, <1>4, <3>1
    <2>2. ASSUME NEW x \in tr .. (at + 1) - 1
          PROVE  \/ Plain(word'[x - S])
                 \/ word'[x - S] > x - S /\ word'[x - S] < trailbase - S
      <3>1. CASE x = at
        BY <1>3, <1>6, <3>1
      <3>2. CASE x # at
        <4>1. x \in tr .. at - 1 /\ x - S \in tr - S .. at - 1 - S /\ x - S # at - S
          BY <1>2, <3>2
        <4>2. word'[x - S] = word[x - S]
          BY <1>3, <1>4, <4>1
        <4>. QED BY <1>2, <4>1, <4>2 DEF Shifting
      <3>. QED BY <3>1, <3>2
    <2>3. tr <= at + 1 /\ at + 1 <= trailbase /\ Low <= tr - S
      BY <1>1, <1>2
    <2>4. freelist = 0 /\ end = 0
      BY <1>2 DEF Shifting
    <2>. QED BY <1>1, <2>1, <2>2, <2>3, <2>4 DEF Shifting, gvars
  <1>11. TypeOK'
    <2>1. at + 1 \in 0 .. GVBase
      BY <1>1, <1>2
    <2>2. WordType(word')
      BY <1>2, <1>3, <1>7 DEF WordType
    <2>3. pc' # "run"
      BY <1>1
    <2>. QED BY <1>1, <2>1, <2>2, <2>3 DEF IInv, TypeOK, WordType, choiceRegs, gvars, Running
  <1>12. FreeListed(word', freelist', FreeVars(trailbase', allocated'))
    <2>1. \A x \in trailbase .. GVBase - 1 : x \in tr .. GVBase - 1 /\ x # at - S
      BY <1>1, <1>2
    <2>2. \A x \in trailbase .. GVBase - 1 : word'[x] = word[x]
      BY <1>3, <1>4, <2>1
    <2>. QED BY <1>1, <2>2, SameGlobals
  <1>13. Holds(Was', tr', b', trailbase', hb', spb', regstack', Len(regstack')) /\ pc' = "shift"
    BY <1>1, <1>9 DEF choiceRegs, gvars, k
  <1>14. IInv'
    BY <1>10, <1>11, <1>12, <1>13, StillShifting
  <1>. QED BY <1>8, <1>14

(* The loop is over: the pointers from outside the trail move, too, and    *)
(* the words that it left are global variables.                            *)
LEMMA ShiftDoneInv ==
  ASSUME IInv, ShiftDone
  PROVE  /\ IInv'
         /\ Shifted(Was, word', tr - GV_SHIFT, trailbase - GV_SHIFT - 1)
         /\ CallsShifted(regstack, regstack', Len(regstack)) /\ Len(regstack') = Len(regstack)
  <1>. DEFINE S == GV_SHIFT
              k == Len(regstack)
              base == trailbase - S
              last == trailbase - 1
              linked == Linked(base, trailbase - 2)
  <1>1. /\ pc = "shift" /\ at = trailbase /\ pc' = "run" /\ at' = 0
        /\ b' = b - S /\ tr' = tr - S
        /\ regstack' = [i \in DOMAIN regstack |-> [regstack[i] EXCEPT !.b = @ - S]]
        /\ trailbase' = base /\ freelist' = (IF S = 1 THEN 0 ELSE trailbase - 2)
        /\ word' = [linked EXCEPT ![last] = 0]
        /\ allocated' = allocated \cup {GVBase - last}
        /\ UNCHANGED <<hb, spb, end>>
    BY DEF ShiftDone, FixPtrs, NewVariables
  <1>2. /\ Holds(Was, tr, b, trailbase, hb, spb, regstack, k) /\ k \in Int
        /\ Shifting /\ WordType(word)
        /\ tr \in Int /\ tr <= b /\ b \in Int /\ b <= trailbase - 4 /\ Low <= tr - S
        /\ trailbase \in Int /\ trailbase <= GVBase /\ Low \in Int /\ GVBase \in Int
        /\ at \in Int /\ 0 <= Low
        /\ S \in Nat /\ S > 0
        /\ regstack \in Seq(Caller)
    BY <1>1, ShiftFacts
  <1>3. DOMAIN word = (tr - S .. trailbase - 1 - S) \cup (tr .. GVBase - 1)
    BY <1>1, <1>2 DEF Shifting
  <1>4. /\ DOMAIN word' = tr - S .. GVBase - 1
        /\ \A x \in DOMAIN word' :
             word'[x] = IF x = last THEN 0 ELSE IF x = base THEN 0
                        ELSE IF x \in base + 1 .. trailbase - 2 THEN x - 1 ELSE word[x]
    <2>1. DOMAIN linked = DOMAIN word \cup base .. trailbase - 2
      BY DEF Linked
    <2>2. DOMAIN word \cup base .. trailbase - 2 = tr - S .. GVBase - 1
      BY <1>2, <1>3
    <2>3. \A x \in DOMAIN linked :
            linked[x] = IF x = base THEN 0
                        ELSE IF x \in base + 1 .. trailbase - 2 THEN x - 1 ELSE word[x]
      BY DEF Linked
    <2>. HIDE DEF linked, base, last
    <2>. QED BY <1>1, <2>1, <2>2, <2>3
  <1>5. \A x \in tr - S .. base - 1 : word'[x] = word[x] /\ x \in DOMAIN word
    <2>1. \A x \in tr - S .. base - 1 :
            /\ x \in tr - S .. GVBase - 1 /\ x # last /\ x # base
            /\ x \notin base + 1 .. trailbase - 2 /\ x \in tr - S .. trailbase - 1 - S
      BY <1>2
    <2>. QED BY <1>3, <1>4, <2>1
  <1>6. \A x \in tr - S .. base - 1 :
          word'[x] = IF Was[x + S] > x + S THEN Was[x + S] - S ELSE Was[x + S]
    <2>. SUFFICES ASSUME NEW x \in tr - S .. base - 1
                  PROVE  word'[x] = IF Was[x + S] > x + S THEN Was[x + S] - S ELSE Was[x + S]
      OBVIOUS
    <2>. DEFINE y == x + S
                v == word[x]
    <2>1. y \in tr .. trailbase - 1 /\ ~ (y >= at) /\ y - S = x /\ y \in Int /\ x \in Int
      <3>1. /\ x \in Int /\ tr - S <= x /\ x < trailbase - S /\ S \in Int /\ tr \in Int
            /\ trailbase \in Int /\ at = trailbase
        BY <1>1, <1>2
      <3>. HIDE DEF S
      <3>. QED BY <3>1
    <2>2. Was[y] = LET u == word[y - S] IN IF u > y - S THEN u + S ELSE u
      BY <1>1, <2>1 DEF Was, Unmoved
    <2>3. Was[y] = IF v > x THEN v + S ELSE v
      BY <2>1, <2>2
    <2>4. v \in Int
      <3>1. v \in 0 .. GVBase - 1
        BY <1>2, <1>5 DEF WordType
      <3>. QED BY <1>2, <3>1
    <2>5. v > x => v + S > y /\ (v + S) - S = v
      BY <1>2, <2>1, <2>4
    <2>6. ~ (v > x) => ~ (v > y)
      BY <1>2, <2>1, <2>4
    <2>7. word'[x] = v
      BY <1>5
    <2>. HIDE DEF y, v
    <2>8. word'[x] = IF Was[y] > y THEN Was[y] - S ELSE Was[y]
      BY <2>3, <2>5, <2>6, <2>7
    <2>. QED BY <2>8 DEF y
  <1>7. /\ regstack' \in Seq(Caller) /\ Len(regstack') = k
        /\ \A i \in 1 .. k : /\ regstack'[i].b = regstack[i].b - S
                             /\ regstack'[i].spb = regstack[i].spb
                             /\ regstack'[i].sp = regstack[i].sp
    <2>1. DOMAIN regstack = 1 .. k /\ k \in Nat /\ \A i \in 1 .. k : regstack[i] \in Caller
      BY <1>2
    <2>2. ASSUME NEW i \in 1 .. k
          PROVE  /\ regstack'[i] \in Caller
                 /\ regstack'[i].b = regstack[i].b - S
                 /\ regstack'[i].spb = regstack[i].spb
                 /\ regstack'[i].sp = regstack[i].sp
      <3>1. regstack'[i] = [regstack[i] EXCEPT !.b = regstack[i].b - S]
        BY <1>1, <2>1
      <3>2. regstack[i] \in [b : Low .. GVBase - 4, spb : StackTop, sp : StackTop]
        BY <2>1 DEF Caller
      <3>3. /\ regstack'[i].b = regstack[i].b - S
            /\ regstack'[i].spb = regstack[i].spb
            /\ regstack'[i].sp = regstack[i].sp
        BY <3>1, <3>2
      <3>4. regstack[i].b - S \in Low .. GVBase - 4
        <4>1. CallerOf(Was, ChoicesOf(Was, b, trailbase), regstack[i])
          BY <1>2 DEF Holds
        <4>2. regstack[i].b \in b .. trailbase - 4
          BY <4>1 DEF CallerOf, ChoicesOf
        <4>. QED BY <1>2, <4>2
      <3>5. regstack'[i] \in Caller
        BY <3>1, <3>2, <3>4 DEF Caller
      <3>. QED BY <3>3, <3>5
    <2>3. regstack' = [i \in 1 .. k |-> regstack'[i]]
      BY <1>1, <2>1
    <2>4. regstack' \in [1 .. k -> Caller]
      BY <2>2, <2>3
    <2>5. regstack' \in Seq(Caller) /\ Len(regstack') = k
      <3>. HIDE DEF k
      <3>1. DOMAIN regstack' = 1 .. k
        BY <2>4
      <3>. QED BY <2>1, <2>4, <3>1, SeqDef, LenProperties
    <2>. QED BY <2>2, <2>5
  <1>8. Shifted(Was, word', tr - S, trailbase - S - 1) /\ CallsShifted(regstack, regstack', k)
    BY <1>6, <1>7 DEF Shifted, CallsShifted
  <1>9. Holds(word', tr - S, b - S, base, hb, spb, regstack', k)
    <2>. HIDE DEF k
    <2>. QED BY <1>2, <1>7, <1>8, HoldsShift
  <1>10. allocated \subseteq 1 .. GVBase - trailbase
    BY DEF IInv, TypeOK
  <1>11. FreeVars(trailbase, allocated) = {}
    <2>1. FreeListed(word, 0, FreeVars(trailbase, allocated))
      BY <1>2 DEF IInv, Shifting
    <2>2. 0 \notin FreeVars(trailbase, allocated)
      BY <1>2 DEF FreeVars
    <2>. QED BY <2>1, <2>2, NoneFree
  <1>12. FreeVars(base, allocated') = base .. base + (S - 1) - 1
    <2>1. base .. base + (S - 1) - 1 = base .. trailbase - 2
      BY <1>2
    <2>2. GVBase - (GVBase - last) = last /\ last \in Int
      BY <1>2
    <2>3. \A v \in allocated : GVBase - v \in trailbase .. GVBase - 1
      BY <1>2, <1>10
    <2>4. \A x \in trailbase .. GVBase - 1 : \E v \in allocated : x = GVBase - v
      BY <1>11 DEF FreeVars
    <2>5. \A x : x \in base .. GVBase - 1 <=> (x \in base .. trailbase - 2 \/ x = last
                                               \/ x \in trailbase .. GVBase - 1)
      BY <1>2
    <2>6. \A x \in base .. trailbase - 2 : x # last /\ x \notin trailbase .. GVBase - 1
      BY <1>2
    <2>7. last \notin trailbase .. GVBase - 1
      BY <1>2
    <2>8. {GVBase - v : v \in allocated'} = (trailbase .. GVBase - 1) \cup {last}
      <3>. HIDE DEF last
      <3>. QED BY <1>1, <2>2, <2>3, <2>4
    <2>9. FreeVars(base, allocated') = base .. trailbase - 2
      <3>. HIDE DEF last, base
      <3>. QED BY <2>5, <2>6, <2>8 DEF FreeVars
    <2>. QED BY <2>1, <2>9
  <1>13. FreeListed(word', freelist', FreeVars(trailbase', allocated'))
    <2>1. base \in Nat /\ S - 1 \in Nat
      BY <1>2
    <2>2. \A x \in base .. base + (S - 1) - 1 : word'[x] = IF x = base THEN 0 ELSE x - 1
      <3>. SUFFICES ASSUME NEW x \in base .. base + (S - 1) - 1
                    PROVE  word'[x] = IF x = base THEN 0 ELSE x - 1
        OBVIOUS
      <3>1. x \in tr - S .. GVBase - 1 /\ x # last /\ (x # base => x \in base + 1 .. trailbase - 2)
        BY <1>2
      <3>. HIDE DEF base, last
      <3>. QED BY <1>4, <3>1
    <2>3. freelist' = IF S - 1 = 0 THEN 0 ELSE base + (S - 1) - 1
      BY <1>1, <1>2
    <2>4. FreeListed(word', IF S - 1 = 0 THEN 0 ELSE base + (S - 1) - 1, base .. base + (S - 1) - 1)
      <3>. HIDE DEF base
      <3>. QED BY <2>1, <2>2, NewList
    <2>5. trailbase' = base
      BY <1>1
    <2>. HIDE DEF base
    <2>. QED BY <1>12, <2>3, <2>4, <2>5
  <1>14. TypeOK'
    <2>1. tr - S \in Low .. GVBase - 4 /\ b - S \in Low .. GVBase - 4 /\ base \in Low + 4 .. GVBase
      BY <1>2
    <2>2. freelist' \in {0} \cup base .. GVBase - 1
      BY <1>1, <1>2
    <2>3. allocated' \subseteq 1 .. GVBase - base
      <3>1. GVBase - last \in 1 .. GVBase - base
        BY <1>2
      <3>2. \A v \in 1 .. GVBase - trailbase : v \in 1 .. GVBase - base
        BY <1>2
      <3>. HIDE DEF last, base
      <3>. QED BY <1>1, <1>10, <3>1, <3>2
    <2>4. WordType(word')
      <3>. SUFFICES ASSUME NEW x \in DOMAIN word' PROVE word'[x] \in 0 .. GVBase - 1
        BY DEF WordType
      <3>1. x \in tr - S .. GVBase - 1
        BY <1>4
      <3>2. x \in base + 1 .. trailbase - 2 => x - 1 \in 0 .. GVBase - 1
        BY <1>2
      <3>3. x # last /\ x # base /\ x \notin base + 1 .. trailbase - 2 => x \in DOMAIN word
        <4>1. x # last /\ x # base /\ x \notin base + 1 .. trailbase - 2 =>
                x \in tr - S .. trailbase - 1 - S \/ x \in tr .. GVBase - 1
          BY <1>2, <3>1
        <4>. HIDE DEF base, last
        <4>. QED BY <1>3, <4>1
      <3>4. 0 \in 0 .. GVBase - 1
        BY AreaAssumption
      <3>. HIDE DEF base, last
      <3>. QED BY <1>2, <1>4, <3>2, <3>3, <3>4 DEF WordType
    <2>5. 0 \in 0 .. GVBase
      BY AreaAssumption
    <2>6. Len(regstack') <= MaxCalls
      BY <1>7 DEF IInv, TypeOK
    <2>7. /\ hb' \in HeapTop /\ spb' \in StackTop /\ end' \in 0 .. GVBase - 1
      BY <1>1 DEF IInv, TypeOK
    <2>. HIDE DEF base
    <2>. QED BY <1>1, <1>4, <1>7, <2>1, <2>2, <2>3, <2>4, <2>5, <2>6, <2>7
             DEF TypeOK, WordType, Caller
  <1>15. Holds(word', tr', b', trailbase', hb', spb', regstack', Len(regstack'))
    BY <1>1, <1>7, <1>9
  <1>16. end' = 0
    BY <1>1, <1>2 DEF IInv, Shifting
  <1>17. IInv'
    BY <1>1, <1>13, <1>14, <1>15, <1>16, BackToRun
  <1>. QED BY <1>7, <1>8, <1>17
------------------------------------------------------------------------------
(***************************************************************************)
(* What follows from the invariant                                         *)
(***************************************************************************)
LEMMA IntactInv ==
  ASSUME IInv
  PROVE  ChainIntact
  <1>. SUFFICES ASSUME Running
                PROVE  /\ b \in Bases
                       /\ \A c \in Bases :
                            IF c = trailbase - 4 THEN PrevB(c) = 0
                            ELSE /\ PrevB(c) \in Bases
                                 /\ \A d \in Bases : d > c => d >= PrevB(c)
                       /\ hb = word[b + 1] /\ spb = SPBOf(b)
                       /\ \A i \in DOMAIN regstack :
                            /\ regstack[i].b \in Bases \ {b}
                            /\ regstack[i].spb = SPBOf(regstack[i].b)
                            /\ i > 1 => regstack[i].b < regstack[i - 1].b
    BY DEF ChainIntact
  <1>1. /\ Holds(word, tr, b, trailbase, hb, spb, regstack, Len(regstack))
        /\ tr \in Int /\ b \in Int /\ trailbase \in Int
        /\ Bases = ChoicesOf(word, b, trailbase) /\ b \in Bases
        /\ \A c \in Bases : c \in b .. trailbase - 4 /\ c \in Int
        /\ ChainOf(word, b, trailbase)
        /\ hb = word[b + 1] /\ spb = word[b + 2]
        /\ regstack \in Seq(Caller) /\ Len(regstack) \in Nat
    BY RunFacts
  <1>2. ASSUME NEW c \in Bases
        PROVE  IF c = trailbase - 4 THEN PrevB(c) = 0
               ELSE PrevB(c) \in Bases /\ \A d \in Bases : d > c => d >= PrevB(c)
    <2>1. CASE c = trailbase - 4
      <3>1. c + 3 = trailbase - 1
        BY <1>1, <2>1
      <3>. QED BY <1>1, <2>1, <3>1 DEF ChainOf, PrevB
    <2>2. CASE c # trailbase - 4
      BY <1>1, <2>2 DEF ChainOf, PrevB
    <2>. QED BY <2>1, <2>2
  <1>3. ASSUME NEW i \in DOMAIN regstack
        PROVE  /\ regstack[i].b \in Bases \ {b} /\ regstack[i].spb = SPBOf(regstack[i].b)
               /\ i > 1 => regstack[i].b < regstack[i - 1].b
    <2>. DEFINE k == Len(regstack)
    <2>1. i \in 1 .. k /\ k \in Int
      BY <1>1
    <2>2. Holds(word, tr, b, trailbase, hb, spb, regstack, k)
      BY <1>1
    <2>. HIDE DEF k
    <2>3. regstack[i].b > b
      BY <1>1, <2>1, <2>2, CallersOlder
    <2>4. regstack[i].b \in Bases /\ regstack[i].spb = word[regstack[i].b + 2]
      BY <1>1, <2>1, <2>2 DEF Holds, CallerOf
    <2>5. regstack[i].b # b
      BY <1>1, <2>3, <2>4
    <2>6. i > 1 => i - 1 \in 1 .. k /\ i - 1 < i
      BY <2>1
    <2>7. i > 1 => regstack[i].b < regstack[i - 1].b
      BY <2>1, <2>2, <2>6 DEF Holds
    <2>. QED BY <2>4, <2>5, <2>7 DEF SPBOf
  <1>. QED BY <1>1, <1>2, <1>3 DEF SPBOf

LEMMA Induction ==
  ASSUME NEW S, 0 \in S, \A i \in Nat : i \in S => i + 1 \in S
  PROVE  Nat \subseteq S
  <1>. SUFFICES ASSUME NEW n \in Nat, n \notin S PROVE FALSE
    OBVIOUS
  <1>. DEFINE X == {i \in 0 .. n : i \notin S}
  <1>1. PICK x \in X : \A y \in X : x <= y
    <2>1. n \in X /\ X \subseteq 0 .. n
      OBVIOUS
    <2>. HIDE DEF X
    <2>. QED BY <2>1, LeastOf
  <1>2. x - 1 \in Nat /\ x - 1 \in 0 .. n /\ (x - 1) + 1 = x
    BY <1>1
  <1>3. x - 1 \in S
    BY <1>1, <1>2
  <1>. QED BY <1>1, <1>2, <1>3

LEMMA ListShort ==
  ASSUME NEW n \in Nat, NEW a \in Int, NEW z \in Int, a <= z + 1, NEW free \in SUBSET (a .. z),
         NEW f \in [1 .. n -> free], \A i, j \in 1 .. n : f[i] = f[j] => i = j
  PROVE  n <= z - a + 1
  <1>1. f \in Injection(1 .. n, a .. z)
    <2>1. f \in [1 .. n -> a .. z]
      OBVIOUS
    <2>2. IsInjective(f)
      BY DEF IsInjective
    <2>. QED BY <2>1, <2>2 DEF Injection
  <1>2. Cardinality(1 .. n) <= Cardinality(a .. z)
    BY <1>1, FS_Interval, FS_Injection
  <1>3. Cardinality(1 .. n) = n
    <2>1. Cardinality(1 .. n) = IF 1 > n THEN 0 ELSE n - 1 + 1
      BY FS_Interval
    <2>. QED BY <2>1
  <1>4. Cardinality(a .. z) = z - a + 1
    <2>1. Cardinality(a .. z) = IF a > z THEN 0 ELSE z - a + 1
      BY FS_Interval
    <2>. QED BY <2>1
  <1>. QED BY <1>2, <1>3, <1>4

(* Walking the links meets the free variables in the order of the list. *)
LEMMA PartitionedInv ==
  ASSUME IInv
  PROVE  GlobalsPartitioned
  <1>. DEFINE N == GVBase - trailbase
              free == FreeVars(trailbase, allocated)
  <1>1. trailbase \in Nat /\ trailbase > 0 /\ GVBase \in Nat /\ N \in Nat
    BY AreaAssumption DEF IInv, TypeOK
  <1>2. PICK n \in Nat : \E f : Lists(n, f, word, freelist, free)
    BY DEF IInv, FreeListed
  <1>3. PICK f : Lists(n, f, word, freelist, free)
    BY <1>2
  <1>4. /\ f \in [1 .. n -> free]
        /\ \A i, j \in 1 .. n : f[i] = f[j] => i = j
        /\ \A x \in free : \E i \in 1 .. n : f[i] = x
        /\ freelist = IF n = 0 THEN 0 ELSE f[1]
        /\ \A i \in 1 .. n : word[f[i]] = IF i = n THEN 0 ELSE f[i + 1]
    BY <1>3 DEF Lists
  <1>5. free \in SUBSET (trailbase .. GVBase - 1) /\ 0 \notin free
    BY <1>1 DEF FreeVars
  <1>6. n <= N
    <2>1. trailbase \in Int /\ GVBase - 1 \in Int /\ trailbase <= (GVBase - 1) + 1
          /\ (GVBase - 1) - trailbase + 1 = N
      BY <1>1
    <2>. HIDE DEF free, N
    <2>. QED BY <1>4, <1>5, <2>1, ListShort
  <1>7. \A i \in 1 .. n : f[i] \in free /\ f[i] # 0
    BY <1>4, <1>5
  <1>. DEFINE g == [m \in 0 .. N |-> IF m < n THEN f[m + 1] ELSE 0]
              Walk(h) == [m \in 0 .. N |->
                            IF m = 0 THEN freelist ELSE IF h[m - 1] = 0 THEN 0 ELSE word[h[m - 1]]]
  <1>8. \A m \in 0 .. N : g[m] = IF m < n THEN f[m + 1] ELSE 0
    OBVIOUS
  <1>9. \A m \in 0 .. N : m # 0 =>
          g[m] = IF g[m - 1] = 0 THEN 0 ELSE word[g[m - 1]]
    <2>. SUFFICES ASSUME NEW m \in 0 .. N, m # 0
                  PROVE  g[m] = IF g[m - 1] = 0 THEN 0 ELSE word[g[m - 1]]
      OBVIOUS
    <2>1. m - 1 \in 0 .. N /\ (m - 1) + 1 = m /\ m \in Int
      BY <1>1
    <2>2. g[m - 1] = IF m - 1 < n THEN f[m] ELSE 0
      BY <1>8, <2>1
    <2>3. g[m] = IF m < n THEN f[m + 1] ELSE 0
      BY <1>8
    <2>4. m - 1 < n => m \in 1 .. n
      BY <1>1, <2>1
    <2>5. m \in 1 .. n => f[m] # 0 /\ word[f[m]] = IF m = n THEN 0 ELSE f[m + 1]
      BY <1>4, <1>7
    <2>6. (~ (m - 1 < n) => ~ (m < n)) /\ (m \in 1 .. n => m = n \/ m < n) /\ (m = n => ~ (m < n))
      BY <2>1
    <2>. HIDE DEF g
    <2>. QED BY <2>2, <2>3, <2>4, <2>5, <2>6
  <1>10. g[0] = freelist
    <2>1. 0 \in 0 .. N /\ (0 < n <=> n # 0) /\ 0 + 1 = 1
      BY <1>1
    <2>. HIDE DEF g
    <2>. QED BY <1>4, <1>8, <2>1
  <1>11. g = Walk(g)
    <2>1. \A m \in 0 .. N :
            g[m] = IF m = 0 THEN freelist ELSE IF g[m - 1] = 0 THEN 0 ELSE word[g[m - 1]]
      <3>. HIDE DEF g
      <3>. QED BY <1>9, <1>10
    <2>2. g = [m \in 0 .. N |-> g[m]]
      OBVIOUS
    <2>. HIDE DEF g
    <2>. QED BY <2>1, <2>2
  <1>. HIDE DEF g
  <1>12. FreeLinks = Walk(FreeLinks)
    <2>1. FreeLinks = CHOOSE h : h = Walk(h)
      BY DEF FreeLinks
    <2>. HIDE DEF Walk
    <2>. QED BY <1>11, <2>1
  <1>13. /\ DOMAIN FreeLinks = 0 .. N /\ FreeLinks[0] = freelist
         /\ \A m \in 0 .. N : m # 0 =>
              FreeLinks[m] = IF FreeLinks[m - 1] = 0 THEN 0 ELSE word[FreeLinks[m - 1]]
    <2>. DEFINE L == FreeLinks
    <2>. HIDE DEF L
    <2>1. L = [m \in 0 .. N |->
                 IF m = 0 THEN freelist ELSE IF L[m - 1] = 0 THEN 0 ELSE word[L[m - 1]]]
      BY <1>12 DEF L
    <2>2. 0 \in 0 .. N
      BY <1>1
    <2>3. /\ DOMAIN L = 0 .. N /\ L[0] = freelist
          /\ \A m \in 0 .. N : m # 0 => L[m] = IF L[m - 1] = 0 THEN 0 ELSE word[L[m - 1]]
      BY <2>1, <2>2
    <2>. QED BY <2>3 DEF L
  <1>14. \A m \in 0 .. N : FreeLinks[m] = g[m]
    <2>. DEFINE S == {m \in Nat : m \in 0 .. N => FreeLinks[m] = g[m]}
    <2>1. 0 \in S
      BY <1>10, <1>13
    <2>2. ASSUME NEW i \in Nat, i \in S
          PROVE  i + 1 \in S
      <3>1. CASE i + 1 \in 0 .. N
        <4>1. i \in 0 .. N /\ i + 1 # 0 /\ (i + 1) - 1 = i
          BY <1>1, <3>1
        <4>2. FreeLinks[i] = g[i]
          BY <2>2, <4>1
        <4>3. FreeLinks[i + 1] = IF FreeLinks[(i + 1) - 1] = 0 THEN 0 ELSE word[FreeLinks[(i + 1) - 1]]
          BY <1>13, <3>1, <4>1
        <4>4. g[i + 1] = IF g[(i + 1) - 1] = 0 THEN 0 ELSE word[g[(i + 1) - 1]]
          BY <1>9, <3>1, <4>1
        <4>5. FreeLinks[i + 1] = g[i + 1]
          BY <4>1, <4>2, <4>3, <4>4
        <4>. QED BY <4>5
      <3>2. CASE i + 1 \notin 0 .. N
        BY <3>2
      <3>. QED BY <3>1, <3>2
    <2>. HIDE DEF S
    <2>3. Nat \subseteq S
      BY <2>1, <2>2, Induction
    <2>4. \A m \in 0 .. N : m \in Nat
      OBVIOUS
    <2>. QED BY <2>3, <2>4 DEF S
  <1>15. \A m \in 0 .. N : FreeLinks[m] # 0 <=> m < n
    <2>. SUFFICES ASSUME NEW m \in 0 .. N PROVE FreeLinks[m] # 0 <=> m < n
      OBVIOUS
    <2>1. m < n => m + 1 \in 1 .. n
      BY <1>1
    <2>. QED BY <1>7, <1>8, <1>14, <2>1
  <1>16. \A m \in 0 .. N : m < n => m + 1 \in 1 .. n /\ FreeLinks[m] = f[m + 1]
    <2>1. \A m \in 0 .. N : m < n => m + 1 \in 1 .. n
      BY <1>1
    <2>. QED BY <1>8, <1>14, <2>1
  <1>. DEFINE M == {m \in DOMAIN FreeLinks : FreeLinks[m] # 0}
  <1>17. M = {m \in 0 .. N : m < n}
    BY <1>13, <1>15
  <1>18. \A i, j \in M : i # j => FreeLinks[i] # FreeLinks[j]
    <2>. SUFFICES ASSUME NEW i \in M, NEW j \in M, FreeLinks[i] = FreeLinks[j] PROVE i = j
      OBVIOUS
    <2>1. /\ i \in Int /\ j \in Int /\ i + 1 \in 1 .. n /\ j + 1 \in 1 .. n
          /\ FreeLinks[i] = f[i + 1] /\ FreeLinks[j] = f[j + 1]
      BY <1>16, <1>17
    <2>2. i + 1 = j + 1
      BY <1>4, <2>1
    <2>. QED BY <2>1, <2>2
  <1>19. {FreeLinks[m] : m \in M} = free
    <2>1. \A m \in M : FreeLinks[m] \in free
      BY <1>7, <1>16, <1>17
    <2>2. ASSUME NEW x \in free
          PROVE  \E m \in M : FreeLinks[m] = x
      <3>1. PICK i \in 1 .. n : f[i] = x
        BY <1>4
      <3>2. i - 1 \in 0 .. N /\ i - 1 < n /\ (i - 1) + 1 = i
        BY <1>1, <1>6
      <3>3. FreeLinks[i - 1] = f[i]
        BY <1>16, <3>2
      <3>. QED BY <1>17, <3>1, <3>2, <3>3
    <2>. HIDE DEF M, free
    <2>. QED BY <2>1, <2>2
  <1>20. free = (trailbase .. GVBase - 1) \ {GVBase - v : v \in allocated}
    BY DEF FreeVars
  <1>. HIDE DEF free
  <1>. QED BY <1>18, <1>19, <1>20 DEF GlobalsPartitioned
------------------------------------------------------------------------------
LEMMA NextInv ==
  ASSUME IInv, Next
  PROVE  IInv'
  <1>1. CASE \E r \in Cell : Trail(r)
    BY <1>1, TrailInv
  <1>2. CASE \E h \in HeapTop, sp \in StackTop : Try(h, sp)
    BY <1>2, TryInv
  <1>3. CASE Retry
    BY <1>3, RetryInv
  <1>4. CASE Trust
    BY <1>4, TrustInv
  <1>5. CASE \E e \in 1 .. HeapBase - 1 : Cut(e)
    BY <1>5, CutInv
  <1>6. CASE Sweep
    BY <1>6, SweepInv
  <1>7. CASE SweepDone
    BY <1>7, SweepDoneInv
  <1>8. CASE \E h \in HeapTop, sp \in StackTop : Call(h, sp)
    BY <1>8, CallInv
  <1>9. CASE Succeed
    BY <1>9, SucceedInv
  <1>10. CASE Fail
    BY <1>10, FailInv
  <1>11. CASE \E newp \in HeapBase .. Low - 1, h \in HeapTop : GvSet(newp, h)
    BY <1>11, GvSetInv
  <1>12. CASE GvAllocFromList
    BY <1>12, GvAllocFromListInv
  <1>13. CASE GvAllocShift
    BY <1>13, GvAllocShiftInv
  <1>14. CASE Shift
    BY <1>14, ShiftInv
  <1>15. CASE ShiftDone
    BY <1>15, ShiftDoneInv
  <1>16. CASE \E v \in allocated : GvFree(v)
    BY <1>16, GvFreeInv
  <1>. QED BY <1>1, <1>2, <1>3, <1>4, <1>5, <1>6, <1>7, <1>8, <1>9, <1>10, <1>11, <1>12, <1>13,
              <1>14, <1>15, <1>16 DEF Next

LEMMA StutterInv ==
  ASSUME IInv, UNCHANGED vars
  PROVE  IInv'
  <1>1. /\ word' = word /\ tr' = tr /\ b' = b /\ hb' = hb /\ spb' = spb /\ trailbase' = trailbase
        /\ freelist' = freelist /\ allocated' = allocated /\ regstack' = regstack /\ pc' = pc
        /\ at' = at /\ end' = end
    BY DEF vars, choiceRegs, gvars, loop
  <1>2. Was' = Was
    BY <1>1 DEF Was, Unmoved
  <1>. QED BY <1>1, <1>2 DEF IInv, TypeOK, Chained, Waiting, Sweeping, Shifting, Running

(***************************************************************************)
(* The invariant: wherever the engine is, in a loop or between             *)
(* instructions, the choice points are linked, nothing but their PrevB     *)
(* words can be taken for one, the callers of run_wam find theirs, and the *)
(* free global variables are listed once each.                             *)
(***************************************************************************)
THEOREM Invariant == Spec => []IInv
  <1>1. Init => IInv
    BY InitInv
  <1>2. IInv /\ [Next]_vars => IInv'
    BY NextInv, StutterInv
  <1>. QED BY <1>1, <1>2, PTL DEF Spec

(***************************************************************************)
(* The registers and the words of the area keep their ranges: TR and B     *)
(* never leave the trail area, the global variables never meet it.         *)
(***************************************************************************)
THEOREM TypeCorrect == Spec => []TypeOK
  <1>1. IInv => TypeOK
    BY DEF IInv
  <1>. QED BY <1>1, Invariant, PTL

(***************************************************************************)
(* After any cut, return and move of the trail, of any length, the words   *)
(* that point upward are exactly the links of the chain of choice points,  *)
(* and the choice points saved by the callers of run_wam are on it.        *)
(***************************************************************************)
THEOREM ChainStaysIntact == Spec => []ChainIntact
  BY Invariant, IntactInv, PTL

(***************************************************************************)
(* The global variables are always split into those in use and those on    *)
(* the free list, and the list has no cycle and no variable twice.         *)
(***************************************************************************)
THEOREM GlobalsStayPartitioned == Spec => []GlobalsPartitioned
  BY Invariant, PartitionedInv, PTL
------------------------------------------------------------------------------
(***************************************************************************)
(* The refinement: TrailStack implements ChoiceStack.                      *)
(*                                                                         *)
(* Sequences that list a set of addresses from the highest on              *)
(***************************************************************************)
Descends(t, S) ==
  /\ t \in Seq(Int)
  /\ \A i, j \in 1 .. Len(t) : i < j => t[i] > t[j]
  /\ \A i \in 1 .. Len(t) : t[i] \in S
  /\ \A c \in S : \E i \in 1 .. Len(t) : t[i] = c

LEMMA PlaceOnly ==
  ASSUME NEW S, NEW t, Descends(t, S),
         NEW i, i \in 1 .. Len(t), NEW j, j \in 1 .. Len(t)
  PROVE  /\ Len(t) \in Nat /\ i \in Int /\ j \in Int /\ t[i] \in Int /\ t[j] \in Int
         /\ i < j <=> t[i] > t[j]
         /\ i = j <=> t[i] = t[j]
  <1>1. Len(t) \in Nat /\ t[i] \in Int /\ t[j] \in Int
    BY DEF Descends
  <1>2. i \in Int /\ j \in Int
    BY <1>1
  <1>3. (i < j => t[i] > t[j]) /\ (j < i => t[j] > t[i])
    BY DEF Descends
  <1>4. i < j \/ j < i \/ i = j
    BY <1>2
  <1>. QED BY <1>1, <1>2, <1>3, <1>4

LEMMA CountIs ==
  ASSUME NEW S, NEW t, Descends(t, S)
  PROVE  Cardinality(S) = Len(t) /\ IsFiniteSet(S)
  <1>1. Len(t) \in Nat /\ t \in [1 .. Len(t) -> S]
    BY DEF Descends
  <1>2. \A i, j \in 1 .. Len(t) : t[i] = t[j] => i = j
    BY PlaceOnly
  <1>3. \A c \in S : \E i \in 1 .. Len(t) : t[i] = c
    BY DEF Descends
  <1>4. t \in Bijection(1 .. Len(t), S)
    BY <1>1, <1>2, <1>3 DEF Bijection, Injection, Surjection, IsInjective
  <1>5. ExistsBijection(1 .. Len(t), S)
    BY <1>4 DEF ExistsBijection
  <1>. QED BY <1>1, <1>5, FS_CountingElements, FS_NatBijection

(* The first k of them *)
LEMMA DescendsFirst ==
  ASSUME NEW S, NEW t, Descends(t, S), NEW k, k \in 1 .. Len(t)
  PROVE  /\ Descends(SubSeq(t, 1, k), {d \in S : d >= t[k]})
         /\ Len(SubSeq(t, 1, k)) = k
         /\ \A i \in 1 .. k : SubSeq(t, 1, k)[i] = t[i]
  <1>. DEFINE u == SubSeq(t, 1, k)
              D == {d \in S : d >= t[k]}
  <1>1. /\ t \in Seq(Int) /\ Len(t) \in Nat /\ k \in Nat /\ k <= Len(t)
        /\ \A i, j \in 1 .. Len(t) : i < j => t[i] > t[j]
        /\ \A i \in 1 .. Len(t) : t[i] \in S /\ t[i] \in Int
        /\ \A c \in S : \E i \in 1 .. Len(t) : t[i] = c
    BY DEF Descends
  <1>2. u \in Seq(Int) /\ Len(u) = k /\ \A i \in 1 .. k : u[i] = t[i]
    BY <1>1
  <1>. HIDE DEF u
  <1>3. \A i \in 1 .. k : i \in 1 .. Len(t)
    BY <1>1
  <1>4. \A i \in 1 .. k : u[i] \in D
    <2>1. ASSUME NEW i, i \in 1 .. k PROVE t[i] >= t[k]
      <3>1. i < k \/ i = k
        BY <1>1, <2>1
      <3>2. t[i] \in Int /\ t[k] \in Int
        BY <1>1, <1>3, <2>1
      <3>3. i < k => t[i] > t[k]
        BY <1>1, <1>3, <2>1
      <3>. QED BY <3>1, <3>2, <3>3
    <2>. QED BY <1>1, <1>2, <1>3, <2>1
  <1>5. ASSUME NEW c \in D PROVE \E i \in 1 .. k : u[i] = c
    <2>1. PICK i \in 1 .. Len(t) : t[i] = c
      BY <1>1
    <2>2. ~ (t[k] > t[i])
      BY <1>1, <2>1
    <2>3. ~ (k < i)
      BY <1>1, <2>2
    <2>4. i \in 1 .. k
      BY <1>1, <2>1, <2>3
    <2>. QED BY <1>2, <2>1, <2>4
  <1>6. \A i, j \in 1 .. k : i < j => u[i] > u[j]
    BY <1>1, <1>2, <1>3
  <1>. HIDE DEF D
  <1>7. Descends(u, D)
    BY <1>2, <1>4, <1>5, <1>6 DEF Descends
  <1>. QED BY <1>2, <1>7 DEF u, D

(* The place of an address is the number of those from it on. *)
LEMMA PlaceIs ==
  ASSUME NEW S, NEW t, Descends(t, S), NEW k, k \in 1 .. Len(t)
  PROVE  Cardinality({d \in S : d >= t[k]}) = k
  <1>. DEFINE D == {d \in S : d >= t[k]}
  <1>1. Descends(SubSeq(t, 1, k), D) /\ Len(SubSeq(t, 1, k)) = k
    BY DescendsFirst
  <1>. HIDE DEF D
  <1>2. Cardinality(D) = k
    BY <1>1, CountIs
  <1>. QED BY <1>2 DEF D

(* So only one sequence lists a set. *)
LEMMA OneOrder ==
  ASSUME NEW S, NEW t, Descends(t, S), NEW u, Descends(u, S)
  PROVE  t = u
  <1>. DEFINE rank(c) == Cardinality({d \in S : d >= c})
  <1>1. /\ Len(t) = Len(u) /\ Len(t) \in Nat /\ t \in Seq(Int) /\ u \in Seq(Int)
        /\ \A i \in 1 .. Len(t) : t[i] \in S
        /\ \A c \in S : \E i \in 1 .. Len(u) : u[i] = c
    <2>1. Cardinality(S) = Len(t) /\ Cardinality(S) = Len(u)
      BY CountIs
    <2>. QED BY <2>1 DEF Descends
  <1>2. /\ \A i \in 1 .. Len(t) : rank(t[i]) = i
        /\ \A i \in 1 .. Len(u) : rank(u[i]) = i
    BY PlaceIs
  <1>. HIDE DEF rank
  <1>3. ASSUME NEW i, i \in 1 .. Len(t) PROVE t[i] = u[i]
    <2>1. PICK j \in 1 .. Len(u) : u[j] = t[i]
      BY <1>1, <1>3
    <2>2. j = i
      BY <1>2, <1>3, <2>1
    <2>. QED BY <2>1, <2>2
  <1>4. t = [i \in 1 .. Len(t) |-> t[i]] /\ u = [i \in 1 .. Len(t) |-> u[i]]
    BY <1>1
  <1>. QED BY <1>3, <1>4

Sorted(S) ==
  CHOOSE t \in [1 .. Cardinality(S) -> S] : \A i, j \in DOMAIN t : i < j => t[i] > t[j]

LEMMA SortedIs ==
  ASSUME NEW S, NEW t, Descends(t, S)
  PROVE  Sorted(S) = t
  <1>. DEFINE n == Cardinality(S)
              u == Sorted(S)
  <1>1. /\ n = Len(t) /\ n \in Nat /\ IsFiniteSet(S) /\ t \in [1 .. n -> S]
        /\ \A c \in S : c \in Int
    <2>1. \A c \in S : c \in Int
      BY DEF Descends
    <2>. QED BY <2>1, CountIs DEF Descends
  <1>. HIDE DEF n
  <1>2. u \in [1 .. n -> S] /\ \A i, j \in DOMAIN u : i < j => u[i] > u[j]
    <2>1. \A i, j \in DOMAIN t : i < j => t[i] > t[j]
      BY DEF Descends
    <2>2. \E v \in [1 .. n -> S] : \A i, j \in DOMAIN v : i < j => v[i] > v[j]
      BY <1>1, <2>1
    <2>3. u = CHOOSE v \in [1 .. n -> S] : \A i, j \in DOMAIN v : i < j => v[i] > v[j]
      BY DEF Sorted, n
    <2>. HIDE DEF u
    <2>. QED BY <2>2, <2>3
  <1>. HIDE DEF u
  <1>3. u \in Injection(1 .. n, S)
    <2>1. ASSUME NEW i \in 1 .. n, NEW j \in 1 .. n, u[i] = u[j] PROVE i = j
      <3>1. u[i] \in Int /\ i \in Int /\ j \in Int
        BY <1>1, <1>2
      <3>2. ~ (u[i] > u[j]) /\ ~ (u[j] > u[i])
        BY <2>1, <3>1
      <3>3. ~ (i < j) /\ ~ (j < i)
        BY <1>2, <3>2
      <3>. QED BY <3>1, <3>3
    <2>. QED BY <1>2, <2>1 DEF Injection, IsInjective
  <1>4. Cardinality(1 .. n) = Cardinality(S)
    <2>1. Cardinality(1 .. n) = IF 1 > n THEN 0 ELSE n - 1 + 1
      <3>1. 1 \in Int /\ n \in Int
        BY <1>1
      <3>. QED BY <3>1, FS_Interval
    <2>2. Cardinality(1 .. n) = n
      BY <1>1, <2>1
    <2>. QED BY <2>2 DEF n
  <1>5. u \in Surjection(1 .. n, S)
    BY <1>1, <1>3, <1>4, FS_Injection
  <1>6. /\ u \in Seq(Int) /\ Len(u) = n
        /\ \A c \in S : \E i \in 1 .. n : u[i] = c
    BY <1>1, <1>2, <1>5 DEF Surjection
  <1>7. Descends(u, S)
    BY <1>2, <1>6 DEF Descends
  <1>8. u = t
    BY <1>7, OneOrder
  <1>. QED BY <1>8 DEF u

(* A lower one comes last. *)
LEMMA DescendsAppend ==
  ASSUME NEW S, NEW t, Descends(t, S), NEW m \in Int, \A c \in S : m < c
  PROVE  Descends(Append(t, m), S \cup {m})
  <1>. DEFINE u == Append(t, m)
              n == Len(t)
  <1>1. /\ t \in Seq(Int) /\ n \in Nat
        /\ \A i, j \in 1 .. n : i < j => t[i] > t[j]
        /\ \A i \in 1 .. n : t[i] \in S /\ t[i] \in Int
        /\ \A c \in S : \E i \in 1 .. n : t[i] = c
    BY DEF Descends
  <1>2. /\ u \in Seq(Int) /\ Len(u) = n + 1
        /\ \A i \in 1 .. n : u[i] = t[i]
        /\ u[n + 1] = m
    BY <1>1
  <1>. HIDE DEF u, n
  <1>3. \A i \in 1 .. n + 1 : i \in 1 .. n \/ i = n + 1
    BY <1>1
  <1>4. \A i, j \in 1 .. n + 1 : i < j => u[i] > u[j]
    <2>1. ASSUME NEW i, i \in 1 .. n + 1, NEW j, j \in 1 .. n + 1, i < j PROVE u[i] > u[j]
      <3>1. i \in 1 .. n
        BY <1>1, <2>1
      <3>2. CASE j \in 1 .. n
        BY <1>1, <1>2, <2>1, <3>1, <3>2
      <3>3. CASE j = n + 1
        <4>1. m < t[i] /\ t[i] \in Int
          BY <1>1, <3>1
        <4>. QED BY <1>2, <3>1, <3>3, <4>1
      <3>. QED BY <1>3, <2>1, <3>2, <3>3
    <2>. QED BY <2>1
  <1>5. \A i \in 1 .. n + 1 : u[i] \in S \cup {m}
    BY <1>1, <1>2, <1>3
  <1>6. \A i \in 1 .. n : i \in 1 .. n + 1
    BY <1>1
  <1>7. n + 1 \in 1 .. n + 1
    BY <1>1
  <1>8. \A c \in S \cup {m} : \E i \in 1 .. n + 1 : u[i] = c
    BY <1>1, <1>2, <1>6, <1>7
  <1>9. Descends(u, S \cup {m})
    BY <1>2, <1>4, <1>5, <1>8 DEF Descends
  <1>. QED BY <1>9 DEF u

LEMMA DescendsShifted ==
  ASSUME NEW S, NEW t, Descends(t, S), NEW s \in Int
  PROVE  Descends([i \in 1 .. Len(t) |-> t[i] - s], {c - s : c \in S})
  <1>. DEFINE u == [i \in 1 .. Len(t) |-> t[i] - s]
              n == Len(t)
  <1>1. /\ t \in Seq(Int) /\ n \in Nat
        /\ \A i, j \in 1 .. n : i < j => t[i] > t[j]
        /\ \A i \in 1 .. n : t[i] \in S /\ t[i] \in Int
        /\ \A c \in S : \E i \in 1 .. n : t[i] = c
    BY DEF Descends
  <1>2. u \in Seq(Int) /\ Len(u) = n /\ \A i \in 1 .. n : u[i] = t[i] - s
    BY <1>1
  <1>. HIDE DEF u, n
  <1>3. \A i, j \in 1 .. n : i < j => u[i] > u[j]
    <2>1. ASSUME NEW i, i \in 1 .. n, NEW j, j \in 1 .. n, i < j PROVE u[i] > u[j]
      <3>1. t[i] > t[j] /\ t[i] \in Int /\ t[j] \in Int
        BY <1>1, <2>1
      <3>2. t[i] - s > t[j] - s
        BY <3>1
      <3>. QED BY <1>2, <2>1, <3>2
    <2>. QED BY <2>1
  <1>4. ASSUME NEW i, i \in 1 .. n PROVE u[i] \in {c - s : c \in S}
    <2>1. t[i] \in S /\ u[i] = t[i] - s
      BY <1>1, <1>2, <1>4
    <2>. QED BY <2>1
  <1>5. ASSUME NEW c \in {e - s : e \in S} PROVE \E i \in 1 .. n : u[i] = c
    <2>1. PICK e \in S : c = e - s
      OBVIOUS
    <2>2. PICK i \in 1 .. n : t[i] = e
      BY <1>1
    <2>. QED BY <1>2, <2>1, <2>2
  <1>6. Descends(u, {c - s : c \in S})
    BY <1>2, <1>3, <1>4, <1>5 DEF Descends
  <1>. QED BY <1>6 DEF u, n

LEMMA DescendsExists ==
  ASSUME NEW a \in Int, NEW z \in Int, NEW S \in SUBSET (a .. z)
  PROVE  \E t : Descends(t, S)
  <1>. DEFINE X == {n \in Nat : \A T \in SUBSET (z + 1 - n .. z) : \E t : Descends(t, T)}
  <1>1. 0 \in X
    <2>1. ASSUME NEW T \in SUBSET (z + 1 - 0 .. z) PROVE Descends(<< >>, T)
      <3>1. T = {}
        BY <2>1
      <3>2. << >> \in Seq(Int) /\ Len(<< >>) = 0 /\ 1 .. 0 = {}
        OBVIOUS
      <3>. QED BY <3>1, <3>2 DEF Descends
    <2>. QED BY <2>1
  <1>2. ASSUME NEW n \in Nat, n \in X PROVE n + 1 \in X
    <2>1. ASSUME NEW T \in SUBSET (z + 1 - (n + 1) .. z) PROVE \E t : Descends(t, T)
      <3>. DEFINE m == z - n
                  U == T \ {m}
      <3>1. m \in Int /\ U \in SUBSET (z + 1 - n .. z) /\ \A c \in U : m < c
        BY <1>2, <2>1
      <3>2. PICK t : Descends(t, U)
        BY <1>2, <3>1
      <3>3. CASE m \in T
        <4>1. T = U \cup {m}
          BY <3>3
        <4>. HIDE DEF m, U
        <4>. QED BY <3>1, <3>2, <4>1, DescendsAppend
      <3>4. CASE m \notin T
        <4>1. T = U
          BY <3>4
        <4>. HIDE DEF U
        <4>. QED BY <3>2, <4>1
      <3>. QED BY <3>3, <3>4
    <2>. HIDE DEF Descends
    <2>. QED BY <2>1
  <1>3. Nat \subseteq X
    <2>. HIDE DEF X
    <2>. QED BY <1>1, <1>2, Induction
  <1>4. CASE a <= z + 1
    <2>1. z + 1 - a \in X /\ z + 1 - (z + 1 - a) = a
      <3>1. z + 1 - a \in Nat /\ z + 1 - (z + 1 - a) = a
        BY <1>4
      <3>. HIDE DEF X
      <3>. QED BY <1>3, <3>1
    <2>. QED BY <2>1
  <1>5. CASE z + 1 < a
    <2>1. 0 \in X /\ S \in SUBSET (z + 1 - 0 .. z)
      BY <1>1, <1>5
    <2>. QED BY <2>1
  <1>. QED BY <1>4, <1>5
------------------------------------------------------------------------------
(***************************************************************************)
(* What the steps of ChoiceStack do, choice point by choice point          *)
(***************************************************************************)
Choice == [hb : Int, spb : Int, trail : SUBSET Int]

(* What every stack of choice points is: a choice point protects no more   *)
(* than the newer ones, and only what it protects is trailed for it.       *)
Sound(ch) ==
  /\ ch \in Seq(Choice) /\ Len(ch) > 0
  /\ \A i \in 1 .. Len(ch) : \A r \in ch[i].trail : ch[i].spb <= r /\ r < ch[i].hb
  /\ \A i, j \in 1 .. Len(ch) : i < j => ch[i].hb <= ch[j].hb

SameRegs(c, d) == c.hb = d.hb /\ c.spb = d.spb

LEMMA SameChoices ==
  ASSUME NEW old \in Seq(Choice), NEW new \in Seq(Choice), Len(old) = Len(new),
         \A i \in 1 .. Len(old) : SameRegs(old[i], new[i]) /\ old[i].trail = new[i].trail
  PROVE  old = new
  <1>1. ASSUME NEW i, i \in 1 .. Len(old) PROVE old[i] = new[i]
    <2>1. /\ old[i] \in Choice /\ new[i] \in Choice
          /\ old[i].hb = new[i].hb /\ old[i].spb = new[i].spb /\ old[i].trail = new[i].trail
      BY <1>1 DEF SameRegs
    <2>2. \A c \in Choice : c = [hb |-> c.hb, spb |-> c.spb, trail |-> c.trail]
      BY DEF Choice
    <2>. QED BY <2>1, <2>2
  <1>2. old = [i \in 1 .. Len(old) |-> old[i]] /\ new = [i \in 1 .. Len(old) |-> new[i]]
    OBVIOUS
  <1>. QED BY <1>1, <1>2

(* Another trail for the choice point k *)
Retrailed(new, old, k, s) ==
  /\ new \in Seq(Choice) /\ Len(new) = Len(old)
  /\ \A i \in 1 .. Len(old) : SameRegs(new[i], old[i])
                              /\ new[i].trail = IF i = k THEN s ELSE old[i].trail

LEMMA RetrailedIs ==
  ASSUME NEW old \in Seq(Choice), NEW k, k \in 1 .. Len(old), NEW s \in SUBSET Int
  PROVE  Retrailed([old EXCEPT ![k].trail = s], old, k, s)
  <1>. DEFINE c == [old[k] EXCEPT !.trail = s]
              new == [old EXCEPT ![k] = c]
  <1>1. old[k] \in Choice /\ \A i \in 1 .. Len(old) : old[i] \in Choice
    OBVIOUS
  <1>2. c \in Choice /\ c.trail = s /\ c.hb = old[k].hb /\ c.spb = old[k].spb
    BY <1>1 DEF Choice
  <1>. HIDE DEF c
  <1>3. new \in Seq(Choice) /\ Len(new) = Len(old)
        /\ \A i \in 1 .. Len(old) : new[i] = IF i = k THEN c ELSE old[i]
    BY <1>2
  <1>4. [old EXCEPT ![k].trail = s] = new
    BY DEF c
  <1>. HIDE DEF new
  <1>5. \A i \in 1 .. Len(old) : SameRegs(new[i], old[i]) /\ new[i].trail = IF i = k THEN s ELSE old[i].trail
    BY <1>2, <1>3 DEF SameRegs
  <1>. QED BY <1>3, <1>4, <1>5 DEF Retrailed

LEMMA TrailsIs ==
  ASSUME NEW old, Sound(old), NEW new \in Seq(Choice), Len(new) = Len(old),
         \A i \in 1 .. Len(old) : SameRegs(new[i], old[i]),
         \A i \in 1 .. Len(old) : i # Len(old) => new[i].trail = old[i].trail,
         NEW r, new[Len(old)].trail = old[Len(old)].trail \cup {r},
         old[Len(old)].spb <= r, r < old[Len(old)].hb, r \in Int
  PROVE  Stack!Trails(old, new) /\ Sound(new)
  <1>. DEFINE n == Len(old)
              added == Last(new).trail \ Last(old).trail
              s == old[n].trail \cup added
  <1>1. /\ n \in Nat /\ n \in 1 .. n /\ old \in Seq(Choice)
        /\ \A i \in 1 .. n : old[i] \in Choice /\ new[i] \in Choice
        /\ Last(new) = new[n] /\ Last(old) = old[n]
    BY DEF Sound, Last
  <1>2. added \subseteq {r} /\ s = new[n].trail /\ s \in SUBSET Int
    BY <1>1 DEF Choice
  <1>3. added \subseteq Last(old).spb .. Last(old).hb - 1
    <2>1. old[n].spb \in Int /\ old[n].hb \in Int
      BY <1>1 DEF Choice
    <2>2. r \in old[n].spb .. old[n].hb - 1
      BY <2>1
    <2>. QED BY <1>1, <1>2, <2>2
  <1>4. new = [old EXCEPT ![n].trail = s]
    <2>. DEFINE ex == [old EXCEPT ![n].trail = s]
    <2>1. Retrailed(ex, old, n, s)
      <3>. HIDE DEF s
      <3>. QED BY <1>1, <1>2, RetrailedIs
    <2>. HIDE DEF ex, s
    <2>2. \A i \in 1 .. n : SameRegs(new[i], ex[i]) /\ new[i].trail = ex[i].trail
      BY <1>2, <2>1 DEF SameRegs, Retrailed
    <2>3. new = ex
      BY <2>1, <2>2, SameChoices DEF Retrailed
    <2>. QED BY <2>3 DEF ex
  <1>5. Stack!Trails(old, new)
    BY <1>1, <1>3, <1>4 DEF Stack!Trails, Stack!Last, Last
  <1>6. Sound(new)
    <2>1. \A i \in 1 .. n : \A x \in new[i].trail : new[i].spb <= x /\ x < new[i].hb
      BY <1>1 DEF Sound, SameRegs
    <2>2. \A i, j \in 1 .. n : i < j => new[i].hb <= new[j].hb
      BY DEF Sound, SameRegs
    <2>. QED BY <2>1, <2>2, <1>1 DEF Sound
  <1>. QED BY <1>5, <1>6

LEMMA PushesIs ==
  ASSUME NEW old, Sound(old), NEW new \in Seq(Choice), Len(new) = Len(old) + 1,
         \A i \in 1 .. Len(old) : SameRegs(new[i], old[i]) /\ new[i].trail = old[i].trail,
         new[Len(new)].trail = {},
         new[Len(new)].hb >= old[Len(old)].hb, new[Len(new)].spb <= old[Len(old)].spb
  PROVE  Stack!Pushes(old, new) /\ Sound(new)
  <1>. DEFINE n == Len(old)
  <1>1. /\ n \in Nat /\ n \in 1 .. n /\ old \in Seq(Choice) /\ n + 1 \in 1 .. n + 1
        /\ \A i \in 1 .. n : old[i] \in Choice /\ i \in 1 .. n + 1
        /\ \A i \in 1 .. n + 1 : new[i] \in Choice
        /\ Last(new) = new[n + 1] /\ Last(old) = old[n] /\ Len(new) = n + 1
    BY DEF Sound, Last
  <1>2. Front(new) = old
    <2>. DEFINE f == SubSeq(new, 1, n)
    <2>1. Front(new) = f
      BY <1>1 DEF Front
    <2>2. f \in Seq(Choice) /\ Len(f) = n /\ \A i \in 1 .. n : f[i] = new[i]
      BY <1>1
    <2>. HIDE DEF f
    <2>3. \A i \in 1 .. n : SameRegs(f[i], old[i]) /\ f[i].trail = old[i].trail
      BY <2>2
    <2>4. f = old
      BY <1>1, <2>2, <2>3, SameChoices
    <2>. QED BY <2>1, <2>4
  <1>3. Stack!Pushes(old, new)
    BY <1>1, <1>2 DEF Stack!Pushes, Stack!Front, Stack!Last, Front, Last
  <1>4. Sound(new)
    <2>1. \A i \in 1 .. n + 1 : i \in 1 .. n \/ i = n + 1
      BY <1>1
    <2>2. \A i \in 1 .. n + 1 : \A x \in new[i].trail : new[i].spb <= x /\ x < new[i].hb
      BY <1>1, <2>1 DEF Sound, SameRegs
    <2>3. \A i \in 1 .. n : old[i].hb <= new[n + 1].hb
      <3>1. ASSUME NEW i, i \in 1 .. n PROVE old[i].hb <= new[n + 1].hb
        <4>1. old[i].hb \in Int /\ old[n].hb \in Int /\ new[n + 1].hb \in Int
          BY <1>1, <3>1 DEF Choice
        <4>2. i < n \/ i = n
          BY <1>1, <3>1
        <4>3. i < n => old[i].hb <= old[n].hb
          BY <1>1, <3>1 DEF Sound
        <4>4. old[n].hb <= new[n + 1].hb
          BY <1>1, <4>1
        <4>. QED BY <4>1, <4>2, <4>3, <4>4
      <3>. QED BY <3>1
    <2>4. ASSUME NEW i, i \in 1 .. n + 1, NEW j, j \in 1 .. n + 1, i < j PROVE new[i].hb <= new[j].hb
      <3>1. i \in 1 .. n
        BY <1>1, <2>4
      <3>2. CASE j \in 1 .. n
        BY <2>4, <3>1, <3>2 DEF Sound, SameRegs
      <3>3. CASE j = n + 1
        BY <2>3, <3>1, <3>3 DEF SameRegs
      <3>. QED BY <2>1, <2>4, <3>2, <3>3
    <2>5. Len(new) > 0
      BY <1>1
    <2>. HIDE DEF n
    <2>. QED BY <1>1, <2>2, <2>4, <2>5 DEF Sound
  <1>. QED BY <1>3, <1>4

LEMMA RetriesIs ==
  ASSUME NEW old, Sound(old), NEW new \in Seq(Choice), Len(new) = Len(old),
         \A i \in 1 .. Len(old) : SameRegs(new[i], old[i]),
         \A i \in 1 .. Len(old) : i # Len(old) => new[i].trail = old[i].trail,
         new[Len(old)].trail = {}
  PROVE  Stack!Retries(old, new) /\ Sound(new)
  <1>. DEFINE n == Len(old)
              ex == [old EXCEPT ![n].trail = {}]
  <1>1. n \in Nat /\ n \in 1 .. n /\ old \in Seq(Choice)
    BY DEF Sound
  <1>2. Retrailed(ex, old, n, {})
    BY <1>1, RetrailedIs
  <1>. HIDE DEF ex
  <1>3. \A i \in 1 .. n : SameRegs(new[i], ex[i]) /\ new[i].trail = ex[i].trail
    BY <1>2 DEF SameRegs, Retrailed
  <1>4. new = ex
    BY <1>2, <1>3, SameChoices DEF Retrailed
  <1>5. Sound(new)
    <2>1. \A i \in 1 .. n : \A x \in new[i].trail : new[i].spb <= x /\ x < new[i].hb
      BY <1>1 DEF Sound, SameRegs
    <2>2. \A i, j \in 1 .. n : i < j => new[i].hb <= new[j].hb
      BY DEF Sound, SameRegs
    <2>. QED BY <2>1, <2>2, <1>1 DEF Sound
  <1>. QED BY <1>4, <1>5 DEF Stack!Retries, ex

LEMMA FrontIs ==
  ASSUME NEW old, Sound(old), NEW new \in Seq(Choice), Len(new) = Len(old) - 1, Len(old) > 1,
         \A i \in 1 .. Len(new) : SameRegs(new[i], old[i]) /\ new[i].trail = old[i].trail
  PROVE  new = Front(old) /\ Sound(new)
  <1>. DEFINE n == Len(old)
              f == SubSeq(old, 1, n - 1)
  <1>1. /\ n \in Nat /\ n - 1 \in Nat /\ old \in Seq(Choice) /\ Len(new) = n - 1
        /\ \A i \in 1 .. n - 1 : i \in 1 .. n
    BY DEF Sound
  <1>2. f \in Seq(Choice) /\ Len(f) = n - 1 /\ \A i \in 1 .. n - 1 : f[i] = old[i]
    BY <1>1
  <1>3. Front(old) = f
    BY DEF Front
  <1>. HIDE DEF f
  <1>4. \A i \in 1 .. n - 1 : SameRegs(new[i], f[i]) /\ new[i].trail = f[i].trail
    BY <1>1, <1>2
  <1>5. new = f
    BY <1>1, <1>2, <1>4, SameChoices
  <1>6. Sound(new)
    <2>1. \A i \in 1 .. n - 1 : \A x \in new[i].trail : new[i].spb <= x /\ x < new[i].hb
      BY <1>1 DEF Sound, SameRegs
    <2>2. \A i, j \in 1 .. n - 1 : i < j => new[i].hb <= new[j].hb
      BY <1>1 DEF Sound, SameRegs
    <2>. QED BY <2>1, <2>2, <1>1 DEF Sound
  <1>. QED BY <1>3, <1>5, <1>6

LEMMA KeepsIs ==
  ASSUME NEW old, Sound(old), NEW k, k \in 1 .. Len(old), NEW new \in Seq(Choice), Len(new) = k,
         \A i \in 1 .. k : SameRegs(new[i], old[i]),
         \A i \in 1 .. k : i # k => new[i].trail = old[i].trail,
         \A r : r \in new[k].trail <=> /\ \E i \in k .. Len(old) : r \in old[i].trail
                                       /\ r < old[k].hb /\ r >= old[k].spb
  PROVE  Stack!KeepsFirst(old, new, k) /\ Sound(new)
  <1>. DEFINE n == Len(old)
              s == SubSeq(old, 1, k)
              trailed == UNION {old[i].trail : i \in k .. n}
              needed == {r \in trailed : r < old[k].hb /\ r >= old[k].spb}
              ex == [s EXCEPT ![k].trail = needed]
  <1>1. /\ n \in Nat /\ old \in Seq(Choice) /\ k \in Nat /\ k <= n /\ k \in 1 .. k
        /\ \A i \in k .. n : i \in 1 .. n
        /\ \A i \in 1 .. k : i \in 1 .. n
        /\ \A i \in 1 .. n : old[i] \in Choice
    BY DEF Sound
  <1>2. s \in Seq(Choice) /\ Len(s) = k /\ \A i \in 1 .. k : s[i] = old[i]
    BY <1>1
  <1>3. needed = new[k].trail /\ needed \in SUBSET Int
    <2>1. \A r : r \in trailed <=> \E i \in k .. n : r \in old[i].trail
      OBVIOUS
    <2>2. new[k].trail \in SUBSET Int
      BY <1>1 DEF Choice
    <2>. HIDE DEF trailed
    <2>. QED BY <2>1, <2>2
  <1>4. Retrailed(ex, s, k, needed)
    <2>. HIDE DEF s, needed
    <2>. QED BY <1>1, <1>2, <1>3, RetrailedIs
  <1>5. Stack!KeepsFirst(old, new, k) <=> new = ex
    BY DEF Stack!KeepsFirst
  <1>. HIDE DEF ex, s, needed
  <1>6. \A i \in 1 .. k : SameRegs(new[i], ex[i]) /\ new[i].trail = ex[i].trail
    BY <1>2, <1>3, <1>4 DEF SameRegs, Retrailed
  <1>7. new = ex
    BY <1>2, <1>4, <1>6, SameChoices DEF Retrailed
  <1>8. Sound(new)
    <2>1. ASSUME NEW i, i \in 1 .. k, NEW x \in new[i].trail PROVE new[i].spb <= x /\ x < new[i].hb
      <3>1. CASE i # k
        BY <1>1, <2>1, <3>1 DEF Sound, SameRegs
      <3>2. CASE i = k
        <4>1. x \in Int /\ old[k].spb \in Int
          BY <1>1, <2>1, <3>2 DEF Choice
        <4>2. x < old[k].hb /\ x >= old[k].spb
          BY <2>1, <3>2
        <4>. QED BY <1>1, <2>1, <3>2, <4>1, <4>2 DEF SameRegs
      <3>. QED BY <3>1, <3>2
    <2>2. \A i, j \in 1 .. k : i < j => new[i].hb <= new[j].hb
      BY <1>1 DEF Sound, SameRegs
    <2>3. Len(new) > 0
      BY <1>1
    <2>. QED BY <2>1, <2>2, <2>3 DEF Sound
  <1>. QED BY <1>5, <1>7, <1>8

LEMMA ProtectsIs ==
  ASSUME NEW old, Sound(old), NEW n, n \in 0 .. Len(old), NEW new \in Seq(Choice),
         Len(new) = Len(old), NEW h \in Int,
         \A i \in 1 .. Len(old) : /\ new[i].spb = old[i].spb /\ new[i].trail = old[i].trail
                                  /\ new[i].hb = IF i <= n THEN h ELSE old[i].hb,
         n > 0 => h >= old[n].hb, n # Len(old) => h = old[n + 1].hb
  PROVE  Stack!Protects(old, new, n) /\ Sound(new)
  <1>. DEFINE m == Len(old)
              g == IF n = m THEN new[n].hb ELSE old[n + 1].hb
              ex == [i \in 1 .. m |-> IF i <= n THEN [old[i] EXCEPT !.hb = g] ELSE old[i]]
  <1>1. /\ m \in Nat /\ m > 0 /\ n \in Int /\ 0 <= n /\ n <= m /\ old \in Seq(Choice)
        /\ \A i \in 1 .. m : old[i] \in Choice /\ new[i] \in Choice /\ i \in Int
    BY DEF Sound
  <1>2. g = h
    BY <1>1
  <1>3. ASSUME NEW i, i \in 1 .. m PROVE new[i] = ex[i]
    <2>1. \A c \in Choice : c = [hb |-> c.hb, spb |-> c.spb, trail |-> c.trail]
      BY DEF Choice
    <2>2. old[i] \in Choice /\ new[i] \in Choice
      BY <1>1, <1>3
    <2>3. \A c \in Choice : [c EXCEPT !.hb = h] = [hb |-> h, spb |-> c.spb, trail |-> c.trail]
      BY DEF Choice
    <2>4. ex[i] = IF i <= n THEN [old[i] EXCEPT !.hb = h] ELSE old[i]
      BY <1>2, <1>3
    <2>. HIDE DEF ex, m
    <2>. QED BY <1>3, <2>1, <2>2, <2>3, <2>4 DEF m
  <1>4. new = ex
    <2>1. new = [i \in 1 .. m |-> new[i]]
      BY <1>1
    <2>2. ex = [i \in 1 .. m |-> ex[i]]
      OBVIOUS
    <2>. HIDE DEF ex
    <2>. QED BY <1>3, <2>1, <2>2
  <1>5. n > 0 => g >= old[n].hb
    BY <1>2
  <1>6. Stack!Protects(old, new, n)
    <2>. HIDE DEF ex
    <2>1. Stack!Protects(old, new, n) <=> (n > 0 => g >= old[n].hb) /\ new = ex
      BY Zenon DEF Stack!Protects, ex, g
    <2>. HIDE DEF g
    <2>. QED BY <1>4, <1>5, <2>1
  <1>. HIDE DEF g, ex
  <1>7. \A i \in 1 .. m : old[i].hb \in Int /\ new[i].hb \in Int
    BY <1>1 DEF Choice
  <1>8. \A i, j \in 1 .. m : i < j => old[i].hb <= old[j].hb
    BY DEF Sound
  <1>9. \A i \in 1 .. m : i <= n => old[i].hb <= h
    <2>1. ASSUME NEW i, i \in 1 .. m, i <= n PROVE old[i].hb <= h
      <3>1. n \in 1 .. m /\ n > 0
        BY <1>1, <2>1
      <3>2. i < n \/ i = n
        BY <1>1, <2>1
      <3>3. old[i].hb <= old[n].hb
        BY <1>7, <1>8, <2>1, <3>1, <3>2
      <3>. QED BY <1>7, <2>1, <3>1, <3>3
    <2>. QED BY <2>1
  <1>10. ASSUME NEW i, i \in 1 .. m, NEW x \in new[i].trail PROVE new[i].spb <= x /\ x < new[i].hb
    <2>1. x \in Int /\ old[i].spb <= x /\ x < old[i].hb
      BY <1>1, <1>10 DEF Sound, Choice
    <2>. QED BY <1>7, <1>9, <1>10, <2>1
  <1>11. ASSUME NEW i, i \in 1 .. m, NEW j, j \in 1 .. m, i < j PROVE new[i].hb <= new[j].hb
    <2>1. CASE j <= n
      <3>1. i <= n
        BY <1>1, <1>11, <2>1
      <3>. QED BY <1>11, <2>1, <3>1
    <2>2. CASE ~ (j <= n) /\ i <= n
      <3>1. n # m /\ n + 1 \in 1 .. m /\ (n + 1 < j \/ n + 1 = j)
        BY <1>1, <1>11, <2>2
      <3>2. h <= old[j].hb
        BY <1>7, <1>8, <1>11, <3>1
      <3>. QED BY <1>11, <2>2, <3>2
    <2>3. CASE ~ (j <= n) /\ ~ (i <= n)
      BY <1>8, <1>11, <2>3
    <2>. QED BY <2>1, <2>2, <2>3
  <1>. HIDE DEF m
  <1>. QED BY <1>1, <1>6, <1>10, <1>11 DEF Sound, m
------------------------------------------------------------------------------
(***************************************************************************)
(* The stack of choice points that is seen in a trail w from l, with the   *)
(* choice points t, oldest first; pend is still to be trailed for the      *)
(* newest.                                                                 *)
(***************************************************************************)
Shown(w, t, l, i) ==
  {w[x] : x \in (IF i = Len(t) THEN l ELSE t[i + 1] + 4) .. t[i] - 1}

Shows(ch, w, t, l, pend) ==
  /\ ch \in Seq(Choice) /\ Len(ch) = Len(t)
  /\ \A i \in 1 .. Len(t) :
       /\ ch[i].hb = w[t[i] + 1] /\ ch[i].spb = w[t[i] + 2]
       /\ ch[i].trail = IF i = Len(t) THEN Shown(w, t, l, i) \cup pend ELSE Shown(w, t, l, i)

Viewed(ch, w, l, n, top, t, pend) ==
  /\ l \in Int /\ n \in Int /\ top \in Int /\ Low <= l /\ l <= n
  /\ ChainOf(w, n, top)
  /\ \A x \in l .. n - 1 : Plain(w[x])
  /\ Descends(t, ChoicesOf(w, n, top))
  /\ Shows(ch, w, t, l, pend)

LEMMA ViewFacts ==
  ASSUME NEW ch, NEW w, NEW l, NEW n, NEW top, NEW t, NEW pend, Viewed(ch, w, l, n, top, t, pend)
  PROVE  /\ t \in Seq(Int) /\ Len(t) \in Nat /\ Len(t) > 0 /\ Len(t) \in 1 .. Len(t)
         /\ t[Len(t)] = n /\ n <= top - 4
         /\ \A i \in 1 .. Len(t) : /\ t[i] \in ChoicesOf(w, n, top) /\ t[i] \in Int
                                   /\ n <= t[i] /\ t[i] <= top - 4 /\ i \in Int
         /\ \A i \in 1 .. Len(t) : i # Len(t) => i + 1 \in 1 .. Len(t) /\ t[i + 1] + 4 <= t[i]
         /\ ch \in Seq(Choice) /\ Len(ch) = Len(t)
         /\ \A i \in 1 .. Len(t) : ch[i] \in Choice
  <1>. DEFINE S == ChoicesOf(w, n, top)
  <1>1. /\ n \in Int /\ top \in Int /\ ChainOf(w, n, top) /\ Descends(t, S)
        /\ ch \in Seq(Choice) /\ Len(ch) = Len(t)
    BY DEF Viewed, Shows
  <1>2. n \in S /\ \A c \in S : c \in Int /\ n <= c /\ c <= top - 4
    BY <1>1 DEF ChainOf, ChoicesOf
  <1>3. /\ t \in Seq(Int) /\ Len(t) \in Nat
        /\ \A i \in 1 .. Len(t) : t[i] \in S
        /\ \A c \in S : \E i \in 1 .. Len(t) : t[i] = c
    BY <1>1 DEF Descends
  <1>4. PICK k \in 1 .. Len(t) : t[k] = n
    BY <1>2, <1>3
  <1>5. Len(t) > 0 /\ Len(t) \in 1 .. Len(t)
    BY <1>3, <1>4
  <1>6. k = Len(t)
    <2>1. ~ (n > t[Len(t)])
      BY <1>2, <1>3, <1>5
    <2>2. ~ (k < Len(t))
      BY <1>1, <1>4, <1>5, <2>1 DEF Descends
    <2>. QED BY <1>3, <1>4, <2>2
  <1>7. ASSUME NEW i, i \in 1 .. Len(t), i # Len(t) PROVE i + 1 \in 1 .. Len(t) /\ t[i + 1] + 4 <= t[i]
    <2>1. i + 1 \in 1 .. Len(t) /\ i < i + 1
      BY <1>3, <1>7
    <2>2. t[i + 1] < t[i]
      BY <1>1, <1>7, <2>1, PlaceOnly
    <2>. QED BY <1>1, <1>3, <1>7, <2>1, <2>2, ChoicesApart
  <1>8. \A i \in 1 .. Len(t) : /\ t[i] \in S /\ t[i] \in Int
                                /\ n <= t[i] /\ t[i] <= top - 4 /\ i \in Int
    BY <1>2, <1>3
  <1>9. \A i \in 1 .. Len(t) : ch[i] \in Choice
    BY <1>1
  <1>10. n <= top - 4
    BY <1>2
  <1>. HIDE DEF S
  <1>. QED BY <1>1, <1>3, <1>4, <1>5, <1>6, <1>7, <1>8, <1>9, <1>10 DEF S

LEMMA NewestPlace ==
  ASSUME NEW ch, NEW w, NEW l, NEW n, NEW top, NEW t, NEW pend, Viewed(ch, w, l, n, top, t, pend),
         NEW i, i \in 1 .. Len(t), t[i] = n
  PROVE  i = Len(t)
  <1>1. Len(t) \in 1 .. Len(t) /\ t[Len(t)] = n /\ Descends(t, ChoicesOf(w, n, top))
    BY ViewFacts DEF Viewed
  <1>2. i = Len(t) <=> t[i] = t[Len(t)]
    BY <1>1, PlaceOnly
  <1>. QED BY <1>1, <1>2

(***************************************************************************)
(* One view goes on from a choice point of another: up to it they show the *)
(* same, but for what is trailed for it.                                   *)
(***************************************************************************)
Continues(new, u, old, t) ==
  LET k == Len(u)
  IN  /\ k \in 1 .. Len(t) /\ u = SubSeq(t, 1, k)
      /\ \A i \in 1 .. k : u[i] = t[i] /\ SameRegs(new[i], old[i])
      /\ \A i \in 1 .. k : i # k => new[i].trail = old[i].trail

LEMMA ContinuesFrom ==
  ASSUME NEW old, NEW w, NEW l, NEW n, NEW top, NEW t, NEW p, Viewed(old, w, l, n, top, t, p),
         NEW new, NEW v, NEW m, NEW c, NEW u, NEW q, Viewed(new, v, m, c, top, u, q),
         c \in ChoicesOf(w, n, top), \A x \in c .. top - 1 : v[x] = w[x]
  PROVE  Continues(new, u, old, t) /\ t[Len(u)] = c
  <1>. DEFINE S == ChoicesOf(w, n, top)
              k == Len(u)
  <1>1. /\ n \in Int /\ top \in Int /\ c \in Int
        /\ ChainOf(w, n, top) /\ Descends(t, S) /\ Descends(u, ChoicesOf(v, c, top))
    BY DEF Viewed
  <1>2. ChoicesOf(v, c, top) = {d \in S : d >= c}
    <2>1. ChainOf(w, c, top) /\ ChoicesOf(w, c, top) = {d \in S : d >= c}
      BY <1>1, ChainDrop
    <2>2. ChoicesOf(v, c, top) = ChoicesOf(w, c, top)
      BY <1>1, <2>1, ChainFrame
    <2>. QED BY <2>1, <2>2
  <1>3. PICK j \in 1 .. Len(t) : t[j] = c
    BY <1>1 DEF Descends
  <1>4. /\ Descends(SubSeq(t, 1, j), {d \in S : d >= c})
        /\ Len(SubSeq(t, 1, j)) = j
        /\ \A i \in 1 .. j : SubSeq(t, 1, j)[i] = t[i]
    BY <1>1, <1>3, DescendsFirst
  <1>5. u = SubSeq(t, 1, j)
    BY <1>1, <1>2, <1>4, OneOrder
  <1>6. k = j /\ u = SubSeq(t, 1, k) /\ \A i \in 1 .. k : u[i] = t[i]
    BY <1>4, <1>5
  <1>7. /\ Len(t) \in Nat /\ k \in Nat /\ k \in 1 .. Len(t) /\ k \in 1 .. k
        /\ \A i \in 1 .. k : i \in 1 .. Len(t) /\ i \in Int
        /\ \A i \in 1 .. k : i # k => i + 1 \in 1 .. k /\ i # Len(t)
        /\ \A i \in 1 .. k : t[i] \in Int /\ c <= t[i] /\ t[i] <= top - 4
    <2>1. /\ Len(t) \in Nat
          /\ \A i \in 1 .. Len(u) : u[i] \in Int /\ c <= u[i] /\ u[i] <= top - 4
      BY ViewFacts
    <2>. QED BY <1>3, <1>6, <2>1
  <1>. HIDE DEF S, k
  <1>8. \A i \in 1 .. k : SameRegs(new[i], old[i])
    <2>1. ASSUME NEW i, i \in 1 .. k PROVE SameRegs(new[i], old[i])
      <3>1. /\ old[i].hb = w[t[i] + 1] /\ old[i].spb = w[t[i] + 2]
            /\ new[i].hb = v[u[i] + 1] /\ new[i].spb = v[u[i] + 2]
        BY <1>7, <2>1 DEF Viewed, Shows, k
      <3>2. u[i] = t[i] /\ t[i] + 1 \in c .. top - 1 /\ t[i] + 2 \in c .. top - 1
        BY <1>1, <1>6, <1>7, <2>1
      <3>. QED BY <3>1, <3>2 DEF SameRegs
    <2>. QED BY <2>1
  <1>9. ASSUME NEW i, i \in 1 .. k, i # k PROVE new[i].trail = old[i].trail
    <2>. DEFINE X == t[i + 1] + 4 .. t[i] - 1
    <2>1. /\ old[i].trail = {w[x] : x \in X}
          /\ new[i].trail = {v[x] : x \in u[i + 1] + 4 .. u[i] - 1}
      BY <1>7, <1>9 DEF Viewed, Shows, Shown, k
    <2>2. u[i] = t[i] /\ u[i + 1] = t[i + 1]
      BY <1>6, <1>7, <1>9
    <2>3. \A x \in X : x \in c .. top - 1
      BY <1>1, <1>7, <1>9
    <2>4. new[i].trail = {v[x] : x \in X}
      BY <2>1, <2>2
    <2>5. \A x \in X : v[x] = w[x]
      BY <2>3
    <2>. HIDE DEF X
    <2>. QED BY <2>1, <2>4, <2>5
  <1>10. t[k] = c
    BY <1>3, <1>6
  <1>. QED BY <1>6, <1>7, <1>8, <1>9, <1>10 DEF Continues, k

(* What is trailed for the newest *)
LEMMA NewestTrail ==
  ASSUME NEW ch, NEW w, NEW l, NEW n, NEW top, NEW t, NEW pend, Viewed(ch, w, l, n, top, t, pend)
  PROVE  /\ ch[Len(t)].trail = {w[x] : x \in l .. n - 1} \cup pend
         /\ ch[Len(t)].hb = w[n + 1] /\ ch[Len(t)].spb = w[n + 2]
  <1>1. Len(t) \in 1 .. Len(t) /\ t[Len(t)] = n
    BY ViewFacts
  <1>. QED BY <1>1 DEF Viewed, Shows, Shown

(* The words from one address to another *)
Values(w, from, to) == {w[x] : x \in from .. to}

LEMMA SameView ==
  ASSUME NEW old, NEW w, NEW l, NEW n, NEW top, NEW t, NEW p, Viewed(old, w, l, n, top, t, p),
         NEW new, NEW v, NEW m, NEW u, NEW q, Viewed(new, v, m, n, top, u, q),
         \A x \in n .. top - 1 : v[x] = w[x],
         Values(v, m, n - 1) \cup q = Values(w, l, n - 1) \cup p
  PROVE  u = t /\ new = old
  <1>1. n \in ChoicesOf(w, n, top)
    BY DEF Viewed, ChainOf
  <1>2. Continues(new, u, old, t) /\ t[Len(u)] = n
    BY <1>1, ContinuesFrom
  <1>3. /\ t \in Seq(Int) /\ Len(t) \in Nat /\ t[Len(t)] = n /\ Len(t) \in 1 .. Len(t)
        /\ old \in Seq(Choice) /\ Len(old) = Len(t) /\ new \in Seq(Choice) /\ Len(new) = Len(u)
        /\ Descends(t, ChoicesOf(w, n, top))
    BY ViewFacts DEF Viewed
  <1>4. Len(u) = Len(t)
    <2>1. Len(u) \in 1 .. Len(t)
      BY <1>2 DEF Continues
    <2>. QED BY <1>2, <2>1, NewestPlace
  <1>5. u = t
    BY <1>2, <1>3, <1>4 DEF Continues
  <1>6. new[Len(t)].trail = old[Len(t)].trail
    <2>1. old[Len(t)].trail = {w[x] : x \in l .. n - 1} \cup p
      BY NewestTrail
    <2>2. new[Len(u)].trail = {v[x] : x \in m .. n - 1} \cup q
      BY NewestTrail
    <2>. QED BY <1>4, <2>1, <2>2 DEF Values
  <1>7. \A i \in 1 .. Len(t) : SameRegs(new[i], old[i]) /\ new[i].trail = old[i].trail
    BY <1>2, <1>4, <1>6 DEF Continues
  <1>8. new = old
    BY <1>3, <1>4, <1>7, SameChoices
  <1>. QED BY <1>5, <1>8

LEMMA TrailView ==
  ASSUME NEW old, NEW w, NEW l, NEW n, NEW top, NEW t, Viewed(old, w, l, n, top, t, {}), Sound(old),
         NEW new, NEW v, NEW u, Viewed(new, v, l - 1, n, top, u, {}),
         \A x \in l .. top - 1 : v[x] = w[x],
         v[l - 1] \in Int, w[n + 2] <= v[l - 1], v[l - 1] < w[n + 1]
  PROVE  u = t /\ Stack!Trails(old, new) /\ Sound(new)
  <1>. DEFINE r == v[l - 1]
              k == Len(t)
  <1>1. /\ l \in Int /\ n \in Int /\ top \in Int /\ l <= n
        /\ n \in ChoicesOf(w, n, top) /\ Descends(t, ChoicesOf(w, n, top))
    BY DEF Viewed, ChainOf
  <1>2. Continues(new, u, old, t) /\ t[Len(u)] = n
    <2>1. \A x \in n .. top - 1 : v[x] = w[x]
      BY <1>1
    <2>. QED BY <1>1, <2>1, ContinuesFrom
  <1>3. /\ t \in Seq(Int) /\ k \in Nat /\ t[k] = n /\ k \in 1 .. k /\ n <= top - 4
        /\ old \in Seq(Choice) /\ Len(old) = k /\ new \in Seq(Choice) /\ Len(new) = Len(u)
    BY ViewFacts
  <1>4. Len(u) = k
    <2>1. Len(u) \in 1 .. k
      BY <1>2 DEF Continues
    <2>. QED BY <1>2, <2>1, NewestPlace
  <1>5. u = t
    <2>1. u = SubSeq(t, 1, k)
      BY <1>2, <1>4 DEF Continues
    <2>2. t = SubSeq(t, 1, k)
      BY <1>3
    <2>. QED BY <2>1, <2>2
  <1>6. new[k].trail = old[k].trail \cup {r}
    <2>1. old[k].trail = {w[x] : x \in l .. n - 1} \cup {}
      BY NewestTrail
    <2>2. new[k].trail = {v[x] : x \in l - 1 .. n - 1} \cup {}
      BY <1>4, NewestTrail
    <2>3. \A x \in l - 1 .. n - 1 : x = l - 1 \/ x \in l .. n - 1
      BY <1>1
    <2>4. l - 1 \in l - 1 .. n - 1 /\ \A x \in l .. n - 1 : x \in l - 1 .. n - 1 /\ x \in l .. top - 1
      BY <1>1, <1>3
    <2>5. \A x \in l .. n - 1 : v[x] = w[x]
      BY <2>4
    <2>6. {v[x] : x \in l - 1 .. n - 1} = {v[x] : x \in l .. n - 1} \cup {v[l - 1]}
      BY <2>3, <2>4
    <2>7. {v[x] : x \in l .. n - 1} = {w[x] : x \in l .. n - 1}
      BY <2>5
    <2>. QED BY <2>1, <2>2, <2>6, <2>7
  <1>7. old[k].hb = w[n + 1] /\ old[k].spb = w[n + 2]
    BY NewestTrail
  <1>8. /\ \A i \in 1 .. k : SameRegs(new[i], old[i])
        /\ \A i \in 1 .. k : i # k => new[i].trail = old[i].trail
    BY <1>2, <1>4 DEF Continues
  <1>9. r \in Int /\ old[k].spb <= r /\ r < old[k].hb
    BY <1>7
  <1>. HIDE DEF r
  <1>. QED BY <1>3, <1>4, <1>5, <1>6, <1>8, <1>9, TrailsIs

LEMMA RetryView ==
  ASSUME NEW old, NEW w, NEW l, NEW n, NEW top, NEW t, Viewed(old, w, l, n, top, t, {}), Sound(old),
         NEW new, NEW v, NEW u, Viewed(new, v, n, n, top, u, {}),
         \A x \in n .. top - 1 : v[x] = w[x]
  PROVE  u = t /\ Stack!Retries(old, new) /\ Sound(new)
  <1>. DEFINE k == Len(t)
  <1>1. n \in Int /\ n \in ChoicesOf(w, n, top) /\ Descends(t, ChoicesOf(w, n, top))
    BY DEF Viewed, ChainOf
  <1>2. Continues(new, u, old, t) /\ t[Len(u)] = n
    BY <1>1, ContinuesFrom
  <1>3. /\ t \in Seq(Int) /\ k \in Nat /\ t[k] = n /\ k \in 1 .. k
        /\ old \in Seq(Choice) /\ Len(old) = k /\ new \in Seq(Choice) /\ Len(new) = Len(u)
    BY ViewFacts
  <1>4. Len(u) = k
    <2>1. Len(u) \in 1 .. k
      BY <1>2 DEF Continues
    <2>. QED BY <1>2, <2>1, NewestPlace
  <1>5. u = t
    BY <1>2, <1>3, <1>4 DEF Continues
  <1>6. new[k].trail = {}
    <2>1. new[k].trail = {v[x] : x \in n .. n - 1} \cup {}
      BY <1>4, NewestTrail
    <2>2. n .. n - 1 = {}
      BY <1>1
    <2>. QED BY <2>1, <2>2
  <1>7. /\ \A i \in 1 .. k : SameRegs(new[i], old[i])
        /\ \A i \in 1 .. k : i # k => new[i].trail = old[i].trail
    BY <1>2, <1>4 DEF Continues
  <1>. QED BY <1>3, <1>4, <1>5, <1>6, <1>7, RetriesIs

(* A choice point is pushed at m. *)
LEMMA PushView ==
  ASSUME NEW old, NEW w, NEW l, NEW n, NEW top, NEW t, Viewed(old, w, l, n, top, t, {}), Sound(old),
         NEW new, NEW v, NEW m, NEW u, Viewed(new, v, m, m, top, u, {}), m = l - 4,
         \A x \in l .. top - 1 : v[x] = w[x],
         ChoicesOf(v, m, top) = ChoicesOf(w, n, top) \cup {m},
         v[m + 1] >= w[n + 1], v[m + 2] <= w[n + 2]
  PROVE  /\ Len(u) = Len(t) + 1 /\ \A i \in 1 .. Len(t) : u[i] = t[i]
         /\ Stack!Pushes(old, new) /\ Sound(new)
  <1>. DEFINE k == Len(t)
              S == ChoicesOf(w, n, top)
  <1>1. /\ l \in Int /\ n \in Int /\ m \in Int /\ top \in Int /\ l <= n
        /\ n \in S /\ Descends(u, S \cup {m})
    BY DEF Viewed, ChainOf
  <1>2. Continues(old, t, new, u) /\ u[k] = n
    <2>1. \A x \in n .. top - 1 : w[x] = v[x]
      BY <1>1
    <2>. QED BY <1>1, <2>1, ContinuesFrom
  <1>3. /\ k \in Nat /\ k \in 1 .. k /\ n <= top - 4 /\ \A i \in 1 .. k : t[i] \in S
        /\ \A c \in S : \E i \in 1 .. k : t[i] = c
        /\ old \in Seq(Choice) /\ Len(old) = k /\ new \in Seq(Choice) /\ Len(new) = Len(u)
    <2>1. /\ k \in Nat /\ k \in 1 .. k /\ n <= top - 4 /\ \A i \in 1 .. k : t[i] \in S
          /\ old \in Seq(Choice) /\ Len(old) = k
      BY ViewFacts
    <2>2. new \in Seq(Choice) /\ Len(new) = Len(u)
      BY ViewFacts
    <2>3. \A c \in S : \E i \in 1 .. k : t[i] = c
      BY DEF Viewed, Descends
    <2>. QED BY <2>1, <2>2, <2>3
  <1>4. Len(u) \in Nat /\ Len(u) \in 1 .. Len(u) /\ u[Len(u)] = m
    BY ViewFacts
  <1>5. k \in 1 .. Len(u) /\ \A i \in 1 .. k : u[i] = t[i]
    BY <1>2 DEF Continues
  <1>6. m \notin S
    BY <1>1 DEF ChoicesOf
  <1>7. Len(u) = k + 1
    <2>1. k # Len(u)
      BY <1>1, <1>2, <1>4
    <2>2. k + 1 \in 1 .. Len(u)
      BY <1>3, <1>4, <1>5, <2>1
    <2>3. u[k + 1] \notin S
      <3>1. ASSUME NEW i, i \in 1 .. k PROVE u[k + 1] # u[i]
        <4>1. i \in 1 .. Len(u) /\ i # k + 1
          BY <1>3, <1>4, <1>5, <3>1
        <4>2. k + 1 = i <=> u[k + 1] = u[i]
          BY <1>1, <2>2, <4>1, PlaceOnly
        <4>. QED BY <4>1, <4>2
      <3>2. ASSUME u[k + 1] \in S PROVE FALSE
        <4>1. PICK i \in 1 .. k : t[i] = u[k + 1]
          BY <1>3, <3>2
        <4>2. u[i] = u[k + 1]
          BY <1>5, <4>1
        <4>. QED BY <3>1, <4>2
      <3>. QED BY <3>2
    <2>4. u[k + 1] = m
      <3>1. u[k + 1] \in S \cup {m}
        BY <1>1, <2>2 DEF Descends
      <3>. QED BY <2>3, <3>1
    <2>5. k + 1 = Len(u) <=> u[k + 1] = u[Len(u)]
      BY <1>1, <1>4, <2>2, PlaceOnly
    <2>. QED BY <1>4, <2>4, <2>5
  <1>8. \A i \in 1 .. k : SameRegs(new[i], old[i])
    BY <1>2 DEF Continues, SameRegs
  <1>9. new[k].trail = old[k].trail
    <2>1. old[k].trail = {w[x] : x \in l .. n - 1} \cup {}
      BY NewestTrail
    <2>2. k \in 1 .. Len(u) /\ k # Len(u) /\ u[k + 1] = m /\ u[k] = n /\ m + 4 = l
      BY <1>1, <1>2, <1>3, <1>4, <1>7
    <2>3. new[k].trail = {v[x] : x \in l .. n - 1}
      BY <2>2 DEF Viewed, Shows, Shown
    <2>4. \A x \in l .. n - 1 : v[x] = w[x]
      BY <1>1, <1>3
    <2>. QED BY <2>1, <2>3, <2>4
  <1>10. \A i \in 1 .. k : new[i].trail = old[i].trail
    BY <1>2, <1>9 DEF Continues
  <1>11. new[Len(u)].trail = {}
    <2>1. new[Len(u)].trail = {v[x] : x \in m .. m - 1} \cup {}
      BY NewestTrail
    <2>2. m .. m - 1 = {}
      BY <1>1
    <2>. QED BY <2>1, <2>2
  <1>12. new[Len(u)].hb >= old[k].hb /\ new[Len(u)].spb <= old[k].spb
    <2>1. old[k].hb = w[n + 1] /\ old[k].spb = w[n + 2]
      BY NewestTrail
    <2>2. new[Len(u)].hb = v[m + 1] /\ new[Len(u)].spb = v[m + 2]
      BY NewestTrail
    <2>. QED BY <2>1, <2>2
  <1>13. Stack!Pushes(old, new) /\ Sound(new)
    <2>. HIDE DEF k, S
    <2>. QED BY <1>3, <1>7, <1>8, <1>10, <1>11, <1>12, PushesIs DEF k
  <1>. QED BY <1>5, <1>7, <1>13

(* The newest choice point goes, and the next older one, q, takes its place. *)
Uncovers(w, n, top, q, v, m, p) ==
  /\ n # top - 4 /\ q = w[n + 3]
  /\ \A x \in q .. top - 1 : v[x] = w[x]
  /\ Values(v, m, q - 1) \cup p = Values(w, n + 4, q - 1)

LEMMA FrontView ==
  ASSUME NEW old, NEW w, NEW l, NEW n, NEW top, NEW t, Viewed(old, w, l, n, top, t, {}), Sound(old),
         NEW q, NEW new, NEW v, NEW m, NEW u, NEW p, Viewed(new, v, m, q, top, u, p),
         Uncovers(w, n, top, q, v, m, p)
  PROVE  /\ Len(u) = Len(t) - 1 /\ Len(t) > 1 /\ \A i \in 1 .. Len(u) : u[i] = t[i]
         /\ new = Front(old) /\ Sound(new)
  <1>. DEFINE k == Len(u)
              S == ChoicesOf(w, n, top)
  <1>0. /\ n # top - 4 /\ q = w[n + 3]
        /\ \A x \in q .. top - 1 : v[x] = w[x]
        /\ Values(v, m, q - 1) \cup p = Values(w, n + 4, q - 1)
    BY DEF Uncovers
  <1>1. /\ n \in Int /\ top \in Int /\ n \in S /\ ChainOf(w, n, top) /\ Descends(t, S)
    BY DEF Viewed, ChainOf
  <1>2. q \in S /\ (\A d \in S : d > n => d >= q) /\ \A d \in S : d \in Int /\ d >= n
    BY <1>0, <1>1 DEF ChainOf, ChoicesOf
  <1>3. q > n
    BY <1>0, <1>1, <1>2 DEF ChoicesOf
  <1>4. Continues(new, u, old, t) /\ t[k] = q
    BY <1>0, <1>2, ContinuesFrom
  <1>5. /\ Len(t) \in Nat /\ t[Len(t)] = n /\ Len(t) \in 1 .. Len(t)
        /\ old \in Seq(Choice) /\ Len(old) = Len(t) /\ new \in Seq(Choice) /\ Len(new) = k
        /\ \A i \in 1 .. Len(t) : t[i] \in S
    BY ViewFacts
  <1>6. k \in 1 .. Len(t) /\ k \in Nat /\ k > 0 /\ \A i \in 1 .. k : u[i] = t[i]
    BY <1>4, ViewFacts DEF Continues
  <1>7. k = Len(t) - 1
    <2>1. k # Len(t)
      BY <1>1, <1>3, <1>4, <1>5
    <2>2. k + 1 \in 1 .. Len(t) /\ k < k + 1
      BY <1>5, <1>6, <2>1
    <2>3. t[k] > t[k + 1]
      BY <1>1, <1>6, <2>2, PlaceOnly
    <2>4. ~ (t[k + 1] > n)
      <3>1. t[k + 1] \in S
        BY <1>5, <2>2
      <3>. QED BY <1>2, <1>4, <2>3, <3>1
    <2>5. t[k + 1] = t[Len(t)]
      BY <1>1, <1>2, <1>5, <2>2, <2>4
    <2>6. k + 1 = Len(t) <=> t[k + 1] = t[Len(t)]
      BY <1>1, <1>5, <2>2, PlaceOnly
    <2>. QED BY <1>5, <1>6, <2>5, <2>6
  <1>8. new[k].trail = old[k].trail
    <2>1. new[k].trail = {v[x] : x \in m .. q - 1} \cup p
      BY NewestTrail
    <2>2. k \in 1 .. Len(t) /\ k # Len(t) /\ t[k + 1] = n /\ t[k] = q
      BY <1>4, <1>5, <1>6, <1>7
    <2>3. old[k].trail = {w[x] : x \in n + 4 .. q - 1}
      BY <2>2 DEF Viewed, Shows, Shown
    <2>. QED BY <1>0, <2>1, <2>3 DEF Values
  <1>9. \A i \in 1 .. k : SameRegs(new[i], old[i]) /\ new[i].trail = old[i].trail
    BY <1>4, <1>8 DEF Continues
  <1>10. Len(t) > 1
    BY <1>5, <1>6, <1>7
  <1>11. new = Front(old) /\ Sound(new)
    <2>. HIDE DEF k
    <2>. QED BY <1>5, <1>7, <1>9, <1>10, FrontIs
  <1>. QED BY <1>6, <1>7, <1>10, <1>11

Bottom(t, l, i) == IF i = Len(t) THEN l ELSE t[i + 1] + 4

(***************************************************************************)
(* The words shown as trail entries are those that neither point upward    *)
(* nor lie in the three words below one that does: so RETRAIL's reading of *)
(* the trail finds them.                                                   *)
(***************************************************************************)
LEMMA EntryIs ==
  ASSUME NEW ch, NEW w, NEW l, NEW n, NEW top, NEW t, NEW pend, Viewed(ch, w, l, n, top, t, pend),
         NEW i, i \in 1 .. Len(t), NEW x, x \in Bottom(t, l, i) .. t[i] - 1
  PROVE  /\ x \in l .. top - 1 /\ Plain(w[x])
         /\ \A z \in x .. x + 3 : w[z] <= z
  <1>. DEFINE S == ChoicesOf(w, n, top)
  <1>1. /\ l \in Int /\ n \in Int /\ top \in Int /\ Low <= l /\ l <= n /\ Low \in Int
        /\ ChainOf(w, n, top) /\ Descends(t, S) /\ \A y \in l .. n - 1 : Plain(w[y])
    BY AreaAssumption DEF Viewed
  <1>2. /\ Len(t) \in Nat /\ t[Len(t)] = n
        /\ \A j \in 1 .. Len(t) : t[j] \in S /\ t[j] \in Int /\ n <= t[j] /\ t[j] <= top - 4 /\ j \in Int
        /\ \A j \in 1 .. Len(t) : j # Len(t) => j + 1 \in 1 .. Len(t) /\ t[j + 1] + 4 <= t[j]
        /\ \A c \in S : \E j \in 1 .. Len(t) : t[j] = c
    BY <1>1, ViewFacts DEF Descends
  <1>3. x \in Int /\ l <= x /\ x < t[i] /\ t[i] <= top - 4 /\ (i # Len(t) => t[i + 1] + 4 <= x)
    <2>1. t[i] \in Int /\ (i # Len(t) => t[i + 1] \in Int /\ n <= t[i + 1])
      BY <1>2
    <2>. QED BY <1>1, <1>2, <2>1 DEF Bottom
  <1>4. ASSUME NEW z, z \in x .. x + 3, ~ (w[z] <= z) PROVE FALSE
    <2>1. z \in Int /\ x <= z /\ z <= x + 3 /\ z <= top - 1 /\ l <= z
      <3>1. z \in Int /\ x <= z /\ z <= x + 3
        BY <1>3, <1>4
      <3>2. t[i] \in Int /\ x < t[i] /\ t[i] <= top - 4
        BY <1>2, <1>3
      <3>. QED BY <1>1, <1>3, <3>1, <3>2
    <2>2. ~ Plain(w[z])
      BY <1>1, <1>4, <2>1 DEF Plain
    <2>3. z >= n
      BY <1>1, <2>1, <2>2
    <2>4. z - 3 \in S
      BY <1>1, <2>1, <2>2, <2>3 DEF ChainOf
    <2>5. PICK j \in 1 .. Len(t) : t[j] = z - 3
      BY <1>2, <2>4
    <2>6. t[j] < t[i]
      BY <1>2, <1>3, <2>1, <2>5
    <2>7. i < j
      BY <1>1, <1>2, <2>6, PlaceOnly
    <2>8. i # Len(t) /\ i + 1 \in 1 .. Len(t)
      BY <1>2, <2>7
    <2>9. t[i + 1] < t[j]
      BY <1>2, <1>3, <2>1, <2>5, <2>8
    <2>10. j < i + 1
      BY <1>1, <1>2, <2>8, <2>9, PlaceOnly
    <2>. QED BY <1>2, <2>7, <2>10
  <1>5. x \in l .. top - 1
    <2>1. t[i] \in Int
      BY <1>2
    <2>. QED BY <1>1, <1>3, <2>1
  <1>6. Plain(w[x])
    <2>1. CASE x < n
      BY <1>1, <1>3, <2>1
    <2>2. CASE x >= n
      <3>1. x \in n .. top - 1 /\ x \in x .. x + 3
        BY <1>1, <1>3, <1>5, <2>2
      <3>2. Plain(w[x]) \/ w[x] > x
        BY <1>1, <3>1 DEF ChainOf
      <3>3. CASE w[x] > x
        <4>1. w[x] <= x
          BY <1>4, <3>1
        <4>2. x - 3 \in S
          BY <1>1, <3>1, <3>3, <4>1 DEF ChainOf, Plain
        <4>3. PICK j \in 1 .. Len(t) : t[j] = x - 3
          BY <1>2, <4>2
        <4>4. i < j
          <5>1. t[j] < t[i]
            BY <1>2, <1>3, <4>3
          <5>. QED BY <1>1, <5>1, PlaceOnly
        <4>5. i # Len(t) /\ i + 1 \in 1 .. Len(t)
          BY <1>2, <4>4
        <4>6. t[i + 1] < t[j]
          BY <1>2, <1>3, <4>3, <4>5
        <4>7. j < i + 1
          BY <1>1, <1>2, <4>5, <4>6, PlaceOnly
        <4>. QED BY <1>2, <4>4, <4>7
      <3>. QED BY <3>2, <3>3
    <2>. QED BY <1>1, <1>3, <2>1, <2>2
  <1>. QED BY <1>4, <1>5, <1>6

LEMMA EntryOf ==
  ASSUME NEW ch, NEW w, NEW l, NEW n, NEW top, NEW t, NEW pend, Viewed(ch, w, l, n, top, t, pend),
         NEW k, k \in 1 .. Len(t), NEW x, x \in l .. t[k] - 1, \A z \in x .. x + 3 : w[z] <= z
  PROVE  \E i \in k .. Len(t) : x \in Bottom(t, l, i) .. t[i] - 1
  <1>. DEFINE S == ChoicesOf(w, n, top)
              X == {i \in k .. Len(t) : t[i] <= x}
  <1>1. /\ l \in Int /\ n \in Int /\ top \in Int /\ l <= n /\ Low \in Int
        /\ ChainOf(w, n, top) /\ Descends(t, S)
    BY AreaAssumption DEF Viewed
  <1>2. /\ Len(t) \in Nat /\ t[Len(t)] = n
        /\ \A j \in 1 .. Len(t) : t[j] \in S /\ t[j] \in Int /\ n <= t[j] /\ t[j] <= top - 4 /\ j \in Int
    BY ViewFacts
  <1>3. x \in Int /\ l <= x /\ x < t[k] /\ t[k] <= top - 4 /\ k \in Int /\ 1 <= k /\ k <= Len(t)
    BY <1>1, <1>2
  <1>4. CASE x < n
    <2>1. Len(t) \in k .. Len(t) /\ Bottom(t, l, Len(t)) = l
      BY <1>2, <1>3 DEF Bottom
    <2>2. x \in l .. t[Len(t)] - 1
      BY <1>1, <1>2, <1>3, <1>4
    <2>. QED BY <2>1, <2>2
  <1>5. CASE x >= n
    <2>1. Len(t) \in X /\ X \subseteq 0 .. Len(t)
      BY <1>2, <1>3, <1>5
    <2>2. PICK m \in X : \A y \in X : m <= y
      <3>. HIDE DEF X
      <3>. QED BY <1>2, <2>1, LeastOf
    <2>3. m \in k .. Len(t) /\ t[m] <= x /\ m # k /\ m \in 1 .. Len(t)
      BY <1>2, <1>3, <2>2
    <2>. DEFINE i == m - 1
    <2>4. i \in k .. Len(t) /\ i \in 1 .. Len(t) /\ i # Len(t) /\ i + 1 = m /\ i < m
      BY <1>2, <1>3, <2>3
    <2>5. t[i] > x
      <3>1. i \notin X
        <4>1. ~ (m <= i)
          BY <1>2, <2>3, <2>4
        <4>. QED BY <2>2, <4>1
      <3>. QED BY <1>2, <1>3, <2>4, <3>1
    <2>6. x >= t[m] + 4
      <3>. SUFFICES ASSUME x < t[m] + 4 PROVE FALSE
        BY <1>2, <1>3, <2>3
      <3>. DEFINE z == t[m] + 3
      <3>1. z \in x .. x + 3 /\ t[m] # top - 4
        BY <1>2, <1>3, <2>3
      <3>2. w[z] > z
        BY <1>2, <2>3, <3>1 DEF ChoicesOf
      <3>3. w[z] <= z
        BY <3>1
      <3>4. t[m] \in S /\ z \in Int
        BY <1>2, <2>3
      <3>5. w[z] \in Int
        <4>1. w[t[m] + 3] \in S
          BY <1>1, <3>1, <3>4 DEF ChainOf
        <4>2. \A c \in S : c \in Int
          BY DEF ChoicesOf
        <4>. QED BY <4>1, <4>2
      <3>. HIDE DEF z
      <3>. QED BY <3>2, <3>3, <3>4, <3>5
    <2>7. x \in Bottom(t, l, i) .. t[i] - 1
      <3>1. Bottom(t, l, i) = t[m] + 4 /\ t[i] \in Int /\ t[m] \in Int
        BY <1>2, <2>3, <2>4 DEF Bottom
      <3>. HIDE DEF i
      <3>. QED BY <1>3, <2>5, <2>6, <3>1
    <2>. HIDE DEF i
    <2>. QED BY <2>4, <2>7
  <1>. QED BY <1>1, <1>3, <1>4, <1>5

(* Back to the choice point c, with what of the swept trail matters to it *)
LEMMA KeepView ==
  ASSUME NEW old, NEW w, NEW l, NEW n, NEW top, NEW t, Viewed(old, w, l, n, top, t, {}), Sound(old),
         NEW c, c \in ChoicesOf(w, n, top), c # n,
         NEW new, NEW v, NEW u, NEW p, Viewed(new, v, c, c, top, u, p),
         \A x \in c .. top - 1 : v[x] = w[x],
         \A r : r \in p <=> /\ \E x \in l .. c - 1 : (\A z \in x .. x + 3 : w[z] <= z) /\ w[x] = r
                            /\ r < w[c + 1] /\ r >= w[c + 2]
  PROVE  /\ Len(u) \in 1 .. Len(t) - 1 /\ t[Len(u)] = c /\ \A i \in 1 .. Len(u) : u[i] = t[i]
         /\ Stack!KeepsFirst(old, new, Len(u)) /\ Sound(new)
  <1>. DEFINE k == Len(u)
  <1>1. /\ l \in Int /\ c \in Int /\ Viewed(old, w, l, n, top, t, {})
    BY DEF Viewed
  <1>2. Continues(new, u, old, t) /\ t[k] = c
    BY ContinuesFrom
  <1>3. /\ Len(t) \in Nat /\ t[Len(t)] = n /\ Len(old) = Len(t) /\ old \in Seq(Choice)
        /\ \A i \in 1 .. Len(t) : t[i] <= t[i]
    BY ViewFacts
  <1>4. new \in Seq(Choice) /\ Len(new) = k
    BY ViewFacts
  <1>5. k \in 1 .. Len(t) /\ k # Len(t) /\ k \in 1 .. Len(t) - 1 /\ \A i \in 1 .. k : u[i] = t[i]
    <2>1. k \in 1 .. Len(t) /\ \A i \in 1 .. k : u[i] = t[i]
      BY <1>2 DEF Continues
    <2>2. k # Len(t)
      <3>. HIDE DEF k
      <3>. QED BY <1>2, <1>3
    <2>. HIDE DEF k
    <2>. QED BY <1>3, <2>1, <2>2
  <1>6. \A i \in 1 .. k : SameRegs(new[i], old[i])
    BY <1>2 DEF Continues
  <1>7. \A i \in 1 .. k : i # k => new[i].trail = old[i].trail
    BY <1>2 DEF Continues
  <1>8. new[k].trail = p /\ new[k].hb = w[c + 1] /\ new[k].spb = w[c + 2]
    <2>1. new[k].trail = {v[x] : x \in c .. c - 1} \cup p /\ new[k].hb = v[c + 1] /\ new[k].spb = v[c + 2]
      BY NewestTrail
    <2>2. c .. c - 1 = {}
      BY <1>1
    <2>3. v[c + 1] = w[c + 1] /\ v[c + 2] = w[c + 2]
      <3>1. top \in Int /\ c <= top - 4
        BY DEF Viewed, ChoicesOf
      <3>. QED BY <1>1, <3>1
    <2>. QED BY <2>1, <2>2, <2>3
  <1>9. old[k].hb = w[c + 1] /\ old[k].spb = w[c + 2]
    <2>1. k \in 1 .. k
      BY <1>5
    <2>. QED BY <1>6, <1>8, <2>1 DEF SameRegs
  <1>10. \A i \in k .. Len(t) : old[i].trail = {w[x] : x \in Bottom(t, l, i) .. t[i] - 1}
    <2>1. \A i \in k .. Len(t) : i \in 1 .. Len(t)
      BY <1>3, <1>5
    <2>. QED BY <2>1 DEF Viewed, Shows, Shown, Bottom
  <1>11. ASSUME NEW i, i \in k .. Len(t), NEW x, x \in Bottom(t, l, i) .. t[i] - 1
         PROVE  x \in l .. c - 1 /\ \A z \in x .. x + 3 : w[z] <= z
    <2>1. i \in 1 .. Len(t)
      BY <1>3, <1>5, <1>11
    <2>2. x \in l .. top - 1 /\ \A z \in x .. x + 3 : w[z] <= z
      BY <1>11, <2>1, EntryIs
    <2>3. t[i] <= c /\ t[i] \in Int
      <3>1. Descends(t, ChoicesOf(w, n, top))
        BY DEF Viewed
      <3>2. t[i] \in Int /\ (k < i <=> t[k] > t[i]) /\ (k = i <=> t[k] = t[i])
        BY <1>5, <2>1, <3>1, PlaceOnly
      <3>3. k < i \/ k = i
        BY <1>3, <1>5, <1>11
      <3>. QED BY <1>1, <1>2, <3>2, <3>3
    <2>4. x \in Int /\ x <= t[i] - 1
      <3>1. Bottom(t, l, i) \in Int
        BY <1>1, <2>1, ViewFacts DEF Bottom
      <3>. QED BY <1>11, <2>3, <3>1
    <2>. QED BY <1>1, <2>2, <2>3, <2>4
  <1>12. ASSUME NEW x, x \in l .. c - 1, \A z \in x .. x + 3 : w[z] <= z
         PROVE  \E i \in k .. Len(t) : x \in Bottom(t, l, i) .. t[i] - 1
    <2>1. x \in l .. t[k] - 1
      BY <1>2, <1>12
    <2>. QED BY <1>1, <1>5, <1>12, <2>1, EntryOf
  <1>13. ASSUME NEW r
         PROVE  (\E i \in k .. Len(t) : r \in old[i].trail)
                  <=> \E x \in l .. c - 1 : (\A z \in x .. x + 3 : w[z] <= z) /\ w[x] = r
    <2>1. ASSUME NEW i, i \in k .. Len(t), r \in old[i].trail
          PROVE  \E x \in l .. c - 1 : (\A z \in x .. x + 3 : w[z] <= z) /\ w[x] = r
      <3>1. PICK x \in Bottom(t, l, i) .. t[i] - 1 : w[x] = r
        BY <1>10, <2>1
      <3>2. x \in l .. c - 1 /\ \A z \in x .. x + 3 : w[z] <= z
        BY <1>11, <2>1, <3>1
      <3>. QED BY <3>1, <3>2
    <2>2. ASSUME NEW x, x \in l .. c - 1, \A z \in x .. x + 3 : w[z] <= z, w[x] = r
          PROVE  \E i \in k .. Len(t) : r \in old[i].trail
      <3>1. PICK i \in k .. Len(t) : x \in Bottom(t, l, i) .. t[i] - 1
        BY <1>12, <2>2
      <3>. QED BY <1>10, <2>2, <3>1
    <2>. QED BY <2>1, <2>2
  <1>14. \A r : r \in new[k].trail <=> /\ \E i \in k .. Len(old) : r \in old[i].trail
                                       /\ r < old[k].hb /\ r >= old[k].spb
    BY <1>3, <1>8, <1>9, <1>13
  <1>. HIDE DEF k
  <1>15. Stack!KeepsFirst(old, new, k) /\ Sound(new)
    BY <1>3, <1>4, <1>5, <1>6, <1>7, <1>14, KeepsIs
  <1>. QED BY <1>2, <1>5, <1>15 DEF k

(***************************************************************************)
(* The k oldest choice points get g for their HB.                          *)
(***************************************************************************)
RaisedTo(v, w, l, top, t, k, g) ==
  \A x \in l .. top - 1 : v[x] = IF \E i \in 1 .. k : x = t[i] + 1 THEN g ELSE w[x]

LEMMA RaiseView ==
  ASSUME NEW old, NEW w, NEW l, NEW n, NEW top, NEW t, Viewed(old, w, l, n, top, t, {}), Sound(old),
         NEW new, NEW v, NEW u, Viewed(new, v, l, n, top, u, {}),
         ChoicesOf(v, n, top) = ChoicesOf(w, n, top),
         NEW k, k \in 0 .. Len(t), NEW g \in Int, RaisedTo(v, w, l, top, t, k, g),
         k > 0 => g >= w[t[k] + 1], k # Len(t) => g = w[t[k + 1] + 1]
  PROVE  u = t /\ Stack!Protects(old, new, k) /\ Sound(new)
  <1>. DEFINE S == ChoicesOf(w, n, top)
              raised(x) == \E i \in 1 .. k : x = t[i] + 1
  <1>1. /\ l \in Int /\ n \in Int /\ top \in Int /\ l <= n
        /\ ChainOf(w, n, top) /\ Descends(t, S) /\ Descends(u, ChoicesOf(v, n, top))
    BY DEF Viewed
  <1>2. u = t
    BY <1>1, OneOrder
  <1>3. /\ Len(t) \in Nat /\ Len(old) = Len(t) /\ old \in Seq(Choice)
        /\ \A i \in 1 .. Len(t) : t[i] \in S /\ t[i] \in Int /\ n <= t[i] /\ t[i] <= top - 4 /\ i \in Int
        /\ \A i \in 1 .. Len(t) : i # Len(t) => i + 1 \in 1 .. Len(t) /\ t[i + 1] + 4 <= t[i]
        /\ \A i \in 1 .. Len(t) : old[i] \in Choice
    BY ViewFacts
  <1>4. new \in Seq(Choice) /\ Len(new) = Len(t)
    BY <1>2, ViewFacts
  <1>5. k \in Int /\ \A i \in 1 .. k : i \in 1 .. Len(t)
    BY <1>3
  <1>. HIDE DEF S
  <1>6. \A x \in l .. top - 1 : v[x] = IF raised(x) THEN g ELSE w[x]
    BY DEF RaisedTo
  <1>7. ASSUME NEW i, i \in 1 .. Len(t)
        PROVE  /\ v[t[i] + 1] = IF i <= k THEN g ELSE w[t[i] + 1]
               /\ v[t[i] + 2] = w[t[i] + 2]
    <2>1. t[i] + 1 \in l .. top - 1 /\ t[i] + 2 \in l .. top - 1 /\ t[i] \in Int /\ i \in Int
      BY <1>1, <1>3, <1>7
    <2>2. raised(t[i] + 1) <=> i <= k
      <3>1. ASSUME NEW j, j \in 1 .. k, t[i] + 1 = t[j] + 1 PROVE i <= k
        <4>1. j \in 1 .. Len(t) /\ t[j] \in Int /\ j <= k
          BY <1>3, <1>5, <3>1
        <4>2. t[i] = t[j]
          BY <2>1, <3>1, <4>1
        <4>3. i = j
          BY <1>1, <1>7, <4>1, <4>2, PlaceOnly
        <4>. QED BY <4>1, <4>3
      <3>2. i <= k => i \in 1 .. k
        BY <1>3, <1>5, <1>7
      <3>. QED BY <3>1, <3>2
    <2>3. ~ raised(t[i] + 2)
      <3>. SUFFICES ASSUME NEW j, j \in 1 .. k, t[i] + 2 = t[j] + 1 PROVE FALSE
        OBVIOUS
      <3>1. j \in 1 .. Len(t)
        BY <1>5
      <3>2. t[j] \in S /\ t[j] \in Int /\ t[i] \in S /\ t[i] < t[j]
        BY <1>3, <1>7, <3>1
      <3>3. t[i] + 4 <= t[j]
        BY <1>1, <3>2, ChoicesApart DEF S
      <3>. QED BY <2>1, <3>2, <3>3
    <2>. HIDE DEF raised
    <2>. QED BY <1>6, <2>1, <2>2, <2>3
  <1>8. ASSUME NEW i, i \in 1 .. Len(t), NEW x, x \in Bottom(t, l, i) .. t[i] - 1
        PROVE  v[x] = w[x]
    <2>1. x \in l .. top - 1 /\ \A z \in x .. x + 3 : w[z] <= z
      BY <1>8, EntryIs
    <2>2. x \in Int /\ x < t[i] /\ t[i] <= top - 4
      <3>1. t[i] \in Int /\ t[i] <= top - 4
        BY <1>3, <1>8
      <3>. QED BY <1>1, <1>8, <2>1, <3>1
    <2>3. ~ raised(x)
      <3>. SUFFICES ASSUME NEW j, j \in 1 .. k, x = t[j] + 1 PROVE FALSE
        OBVIOUS
      <3>1. j \in 1 .. Len(t) /\ t[j] \in S /\ t[j] \in Int
        BY <1>3, <1>5
      <3>2. t[j] # top - 4 /\ t[j] + 3 \in x .. x + 3 /\ t[i] \in S /\ t[j] < t[i] /\ t[i] \in Int
        <4>1. t[i] \in S /\ t[i] \in Int
          BY <1>3, <1>8
        <4>2. t[j] \in Int /\ x = t[j] + 1
          BY <3>1
        <4>3. top \in Int
          BY <1>1
        <4>4. t[j] + 3 \in x .. x + 3
          BY <4>2
        <4>5. t[j] < t[i] /\ t[j] # top - 4
          BY <2>2, <4>1, <4>2, <4>3
        <4>. QED BY <4>1, <4>4, <4>5
      <3>3. w[t[j] + 3] \in S
        BY <1>1, <3>1, <3>2 DEF ChainOf, S
      <3>4. w[t[j] + 3] \in Int
        BY <3>3 DEF S, ChoicesOf
      <3>5. w[t[j] + 3] > t[j] + 3
        BY <3>1, <3>2 DEF S, ChoicesOf
      <3>6. w[t[j] + 3] <= t[j] + 3
        BY <2>1, <3>2
      <3>. QED BY <3>1, <3>4, <3>5, <3>6
    <2>. HIDE DEF raised
    <2>. QED BY <1>6, <2>1, <2>3
  <1>. HIDE DEF raised
  <1>9. ASSUME NEW i, i \in 1 .. Len(t)
        PROVE  /\ new[i].spb = old[i].spb /\ new[i].trail = old[i].trail
               /\ new[i].hb = IF i <= k THEN g ELSE old[i].hb
    <2>1. /\ old[i].hb = w[t[i] + 1] /\ old[i].spb = w[t[i] + 2]
          /\ old[i].trail = {w[x] : x \in Bottom(t, l, i) .. t[i] - 1}
      BY <1>9 DEF Viewed, Shows, Shown, Bottom
    <2>2. /\ new[i].hb = v[t[i] + 1] /\ new[i].spb = v[t[i] + 2]
          /\ new[i].trail = {v[x] : x \in Bottom(t, l, i) .. t[i] - 1}
      BY <1>2, <1>9 DEF Viewed, Shows, Shown, Bottom
    <2>3. \A x \in Bottom(t, l, i) .. t[i] - 1 : v[x] = w[x]
      BY <1>8, <1>9
    <2>4. new[i].trail = old[i].trail
      BY <2>1, <2>2, <2>3
    <2>. QED BY <1>7, <1>9, <2>1, <2>2, <2>4
  <1>10. k > 0 => g >= old[k].hb
    <2>1. k > 0 => k \in 1 .. Len(t)
      BY <1>3, <1>5
    <2>. QED BY <2>1 DEF Viewed, Shows
  <1>11. k # Len(t) => g = old[k + 1].hb
    <2>1. k # Len(t) => k + 1 \in 1 .. Len(t)
      BY <1>3, <1>5
    <2>. QED BY <2>1 DEF Viewed, Shows
  <1>12. k \in 0 .. Len(old) /\ Len(new) = Len(old)
    BY <1>3, <1>4
  <1>13. \A i \in 1 .. Len(old) : /\ new[i].spb = old[i].spb /\ new[i].trail = old[i].trail
                                  /\ new[i].hb = IF i <= k THEN g ELSE old[i].hb
    BY <1>3, <1>9
  <1>14. k # Len(old) => g = old[k + 1].hb
    BY <1>3, <1>11
  <1>15. Stack!Protects(old, new, k) /\ Sound(new)
    BY <1>4, <1>10, <1>12, <1>13, <1>14, ProtectsIs
  <1>. QED BY <1>2, <1>15

(***************************************************************************)
(* All of the trail moves down by GV_SHIFT words.                          *)
(***************************************************************************)
LEMMA MovedView ==
  ASSUME NEW old, NEW w, NEW l, NEW n, NEW top, NEW t, Viewed(old, w, l, n, top, t, {}),
         NEW new, NEW v, NEW m, m = l - GV_SHIFT, NEW c, c = n - GV_SHIFT,
         NEW head, head = top - GV_SHIFT,
         NEW u, Viewed(new, v, m, c, head, u, {}),
         Shifted(w, v, m, head - 1)
  PROVE  /\ Len(u) = Len(t) /\ \A i \in 1 .. Len(t) : u[i] = t[i] - GV_SHIFT
         /\ new = old
  <1>. DEFINE S == GV_SHIFT
              B == ChoicesOf(w, n, top)
              D == ChoicesOf(v, c, head)
              moved == [i \in 1 .. Len(t) |-> t[i] - S]
  <1>1. /\ l \in Int /\ n \in Int /\ top \in Int /\ l <= n /\ S \in Nat /\ Low \in Int
        /\ Low <= m /\ m <= c /\ m \in Int /\ c \in Int /\ head \in Int
        /\ ChainOf(w, n, top) /\ Descends(t, B) /\ Descends(u, D)
    BY AreaAssumption DEF Viewed
  <1>2. /\ \A d \in Int : d - S \in D <=> d \in B
        /\ \A d \in B : v[d - S + 1] = w[d + 1] /\ v[d - S + 2] = w[d + 2]
    <2>1. Low <= n - S
      BY <1>1
    <2>2. Shifted(w, v, n - S, top - S - 1)
      <3>1. \A x \in n - S .. top - S - 1 : x \in m .. head - 1
        BY <1>1
      <3>. QED BY <3>1 DEF Shifted
    <2>. QED BY <1>1, <2>1, <2>2, ChainShift
  <1>3. /\ Len(t) \in Nat /\ Len(old) = Len(t) /\ old \in Seq(Choice)
        /\ \A i \in 1 .. Len(t) : t[i] \in B /\ t[i] \in Int /\ n <= t[i] /\ t[i] <= top - 4 /\ i \in Int
        /\ \A i \in 1 .. Len(t) : i # Len(t) => i + 1 \in 1 .. Len(t) /\ t[i + 1] + 4 <= t[i]
    BY ViewFacts
  <1>4. new \in Seq(Choice) /\ Len(new) = Len(u)
    BY ViewFacts
  <1>5. D = {d - S : d \in B}
    <2>1. \A d \in B : d \in Int
      BY DEF ChoicesOf
    <2>2. \A d \in D : d \in Int /\ d + S \in Int /\ (d + S) - S = d
      BY <1>1 DEF ChoicesOf
    <2>. HIDE DEF B, D, S
    <2>. QED BY <1>2, <2>1, <2>2
  <1>6. Descends(moved, D)
    <2>1. S \in Int
      BY <1>1
    <2>. HIDE DEF B, D, S
    <2>. QED BY <1>1, <1>5, <2>1, DescendsShifted
  <1>7. u = moved
    <2>. HIDE DEF moved, D
    <2>. QED BY <1>1, <1>6, OneOrder
  <1>8. Len(u) = Len(t) /\ \A i \in 1 .. Len(t) : u[i] = t[i] - S
    BY <1>3, <1>7
  <1>. HIDE DEF moved, B, D
  <1>9. ASSUME NEW i, i \in 1 .. Len(t)
        PROVE  Bottom(u, m, i) = Bottom(t, l, i) - S /\ Bottom(t, l, i) \in Int
    <2>1. CASE i = Len(t)
      BY <1>1, <1>8, <2>1 DEF Bottom
    <2>2. CASE i # Len(t)
      <3>1. /\ i + 1 \in 1 .. Len(t) /\ t[i + 1] \in Int /\ u[i + 1] = t[i + 1] - S
            /\ Bottom(t, l, i) = t[i + 1] + 4 /\ Bottom(u, m, i) = u[i + 1] + 4
        BY <1>3, <1>8, <1>9, <2>2 DEF Bottom
      <3>. QED BY <1>1, <3>1
    <2>. QED BY <2>1, <2>2
  <1>10. ASSUME NEW i, i \in 1 .. Len(t), NEW x, x \in Bottom(t, l, i) .. t[i] - 1
         PROVE  x \in Int /\ v[x - S] = w[x]
    <2>1. x \in l .. top - 1 /\ \A z \in x .. x + 3 : w[z] <= z
      BY <1>10, EntryIs
    <2>2. Plain(w[x])
      BY <1>10, EntryIs
    <2>3. x \in Int /\ x - S \in m .. head - 1 /\ (x - S) + S = x /\ x \in x .. x + 3
      BY <1>1, <2>1
    <2>4. ~ (w[x] > x)
      BY <1>1, <2>1, <2>2, <2>3 DEF Plain
    <2>. QED BY <2>3, <2>4 DEF Shifted
  <1>11. ASSUME NEW i, i \in 1 .. Len(t)
         PROVE  SameRegs(old[i], new[i]) /\ old[i].trail = new[i].trail
    <2>. DEFINE bot == Bottom(t, l, i)
    <2>1. /\ old[i].hb = w[t[i] + 1] /\ old[i].spb = w[t[i] + 2]
          /\ old[i].trail = {w[x] : x \in bot .. t[i] - 1}
      BY <1>11 DEF Viewed, Shows, Shown, Bottom
    <2>2. /\ new[i].hb = v[u[i] + 1] /\ new[i].spb = v[u[i] + 2]
          /\ new[i].trail = {v[x] : x \in Bottom(u, m, i) .. u[i] - 1}
      BY <1>8, <1>11 DEF Viewed, Shows, Shown, Bottom
    <2>3. u[i] = t[i] - S /\ t[i] \in B /\ t[i] \in Int /\ bot \in Int /\ Bottom(u, m, i) = bot - S
      BY <1>3, <1>8, <1>9, <1>11
    <2>4. v[u[i] + 1] = w[t[i] + 1] /\ v[u[i] + 2] = w[t[i] + 2]
      BY <1>2, <2>3
    <2>5. \A x \in bot .. t[i] - 1 : x \in Int /\ v[x - S] = w[x]
      BY <1>10, <1>11
    <2>6. {v[y] : y \in bot - S .. (t[i] - S) - 1} = {v[x - S] : x \in bot .. t[i] - 1}
      <3>1. \A y \in bot - S .. (t[i] - S) - 1 : y + S \in bot .. t[i] - 1 /\ (y + S) - S = y
        BY <1>1, <2>3
      <3>2. \A x \in bot .. t[i] - 1 : x - S \in bot - S .. (t[i] - S) - 1
        BY <1>1, <2>3
      <3>. HIDE DEF bot, S
      <3>. QED BY <3>1, <3>2
    <2>7. {v[x - S] : x \in bot .. t[i] - 1} = {w[x] : x \in bot .. t[i] - 1}
      <3>. HIDE DEF bot, S
      <3>. QED BY <2>5
    <2>. HIDE DEF bot, S
    <2>. QED BY <2>1, <2>2, <2>3, <2>4, <2>6, <2>7 DEF SameRegs
  <1>12. old = new
    BY <1>3, <1>4, <1>8, <1>11, SameChoices
  <1>. QED BY <1>8, <1>12

(***************************************************************************)
(* The calls: each at the place of its caller's choice point               *)
(***************************************************************************)
CallsShow(cl, t, regs, k) ==
  /\ k \in Nat /\ cl \in Seq(Nat) /\ Len(cl) = k
  /\ \A i \in 1 .. k : cl[i] \in 1 .. Len(t) /\ t[cl[i]] = regs[i].b

LEMMA SameCalls ==
  ASSUME NEW S, NEW t, Descends(t, S), NEW regs, NEW k, NEW cl, CallsShow(cl, t, regs, k),
         NEW u, NEW calls, NEW new, CallsShow(new, u, calls, k),
         \A i \in 1 .. k : \A j \in 1 .. Len(u) :
           u[j] = calls[i].b => j \in 1 .. Len(t) /\ t[j] = regs[i].b
  PROVE  new = cl
  <1>1. /\ k \in Nat /\ cl \in Seq(Nat) /\ Len(cl) = k /\ new \in Seq(Nat) /\ Len(new) = k
    BY DEF CallsShow
  <1>2. ASSUME NEW i, i \in 1 .. k PROVE new[i] = cl[i]
    <2>1. cl[i] \in 1 .. Len(t) /\ t[cl[i]] = regs[i].b
      BY <1>2 DEF CallsShow
    <2>2. new[i] \in 1 .. Len(u) /\ u[new[i]] = calls[i].b
      BY <1>2 DEF CallsShow
    <2>3. new[i] \in 1 .. Len(t) /\ t[new[i]] = regs[i].b
      BY <1>2, <2>2
    <2>. QED BY <2>1, <2>3, PlaceOnly
  <1>3. cl = [i \in 1 .. k |-> cl[i]] /\ new = [i \in 1 .. k |-> new[i]]
    BY <1>1
  <1>. QED BY <1>2, <1>3
------------------------------------------------------------------------------
(***************************************************************************)
(* What the engine's state is seen as: between instructions, in the sweeps *)
(* and in gv_alloc's loop                                                  *)
(***************************************************************************)
Kept == {r \in Pending : r < hb /\ r >= spb}

Seen(w, pend, k) ==
  \E t : /\ Viewed(AsChoices, w, tr, b, trailbase, t, pend)
         /\ CallsShow(AsCalls, t, regstack, k)

SeenRun == pc = "run" => Seen(word, {}, Len(regstack))
SeenSweep == pc \in {"cut", "return"} => Seen(word, Kept, Waiting)
SeenShift == pc = "shift" => Seen(Was, {}, Len(regstack))
Seeing == SeenRun /\ SeenSweep /\ SeenShift

Now == IF pc = "shift" THEN Was ELSE word

LEMMA NowFacts ==
  ASSUME IInv
  PROVE  /\ Holds(Now, tr, b, trailbase, hb, spb, regstack, Waiting)
         /\ Waiting \in Nat /\ Waiting <= Len(regstack) /\ Len(regstack) \in Nat
         /\ tr \in Int /\ Low \in Int /\ Low <= tr /\ tr <= b /\ b \in Int /\ b <= trailbase - 4
         /\ trailbase \in Int
         /\ ChainOf(Now, b, trailbase)
         /\ \A x \in tr .. b - 1 : Plain(Now[x])
         /\ \A x \in tr .. trailbase - 1 : Area[x] = Now[x] /\ Now[x] \in Int
  <1>1. Holds(Now, tr, b, trailbase, hb, spb, regstack, Waiting)
    BY DEF IInv, Chained, Now
  <1>2. ChainOf(Now, b, trailbase) /\ tr <= b /\ \A x \in tr .. b - 1 : Plain(Now[x])
    BY <1>1 DEF Holds
  <1>3. /\ tr \in Int /\ Low \in Int /\ Low <= tr /\ b \in Int /\ trailbase \in Int
        /\ regstack \in Seq(Caller) /\ Len(regstack) \in Nat
    BY AreaAssumption DEF IInv, TypeOK, Caller
  <1>4. b <= trailbase - 4
    BY <1>2, <1>3 DEF ChainOf, ChoicesOf
  <1>5. Waiting \in Nat /\ Waiting <= Len(regstack)
    <2>1. pc = "return" => regstack # << >>
      BY DEF IInv, Sweeping
    <2>2. regstack # << >> => Len(regstack) # 0
      BY <1>3
    <2>. QED BY <1>3, <2>1, <2>2 DEF Waiting
  <1>6. ASSUME NEW x \in tr .. trailbase - 1 PROVE Area[x] = Now[x] /\ Now[x] \in Int
    <2>1. Area[x] = Now[x]
      BY DEF Area, Now, Was, Unmoved
    <2>2. Plain(Now[x]) \/ Now[x] \in Int
      BY <1>1, <1>3, AnyWord
    <2>. QED BY <1>3, <2>1, <2>2 DEF Plain
  <1>. QED BY <1>1, <1>2, <1>3, <1>4, <1>5, <1>6

LEMMA Sees ==
  ASSUME IInv
  PROVE  Seeing
  <1>. DEFINE S == ChoicesOf(Now, b, trailbase)
              k == Waiting
  <1>1. /\ Holds(Now, tr, b, trailbase, hb, spb, regstack, k)
        /\ k \in Nat /\ k <= Len(regstack) /\ Len(regstack) \in Nat
        /\ tr \in Int /\ Low <= tr /\ tr <= b /\ b \in Int /\ b <= trailbase - 4
        /\ trailbase \in Int
        /\ ChainOf(Now, b, trailbase)
        /\ \A x \in tr .. b - 1 : Plain(Now[x])
        /\ \A x \in tr .. trailbase - 1 : Area[x] = Now[x] /\ Now[x] \in Int
    BY NowFacts
  <1>2. S \in SUBSET (b .. trailbase - 4) /\ trailbase - 4 \in Int
    BY <1>1 DEF ChoicesOf
  <1>3. PICK t : Descends(t, S)
    <2>. HIDE DEF S
    <2>. QED BY <1>1, <1>2, DescendsExists
  <1>4. \A c \in b .. trailbase - 4 :
          /\ c + 1 \in tr .. trailbase - 1 /\ c + 2 \in tr .. trailbase - 1 /\ c + 3 \in tr .. trailbase - 1
          /\ IsChoice(Area, c) <=> c \in S
    <2>1. \A c \in b .. trailbase - 4 :
            c + 1 \in tr .. trailbase - 1 /\ c + 2 \in tr .. trailbase - 1 /\ c + 3 \in tr .. trailbase - 1
      BY <1>1
    <2>2. \A c \in b .. trailbase - 4 : Area[c + 3] = Now[c + 3]
      BY <1>1, <2>1
    <2>. QED BY <2>1, <2>2 DEF IsChoice, ChoicesOf
  <1>5. OldestFirst(Area) = t
    <2>. DEFINE base == {c \in b .. trailbase - 4 : IsChoice(Area, c)}
    <2>1. base = S
      <3>. HIDE DEF S
      <3>. QED BY <1>2, <1>4
    <2>2. OldestFirst(Area) = Sorted(base)
      BY DEF OldestFirst, Sorted
    <2>. HIDE DEF base, S
    <2>. QED BY <1>3, <2>1, <2>2, SortedIs
  <1>6. /\ t \in Seq(Int) /\ Len(t) \in Nat
        /\ \A i \in 1 .. Len(t) : t[i] \in S /\ t[i] \in Int /\ b <= t[i] /\ t[i] <= trailbase - 4
        /\ \A i \in 1 .. Len(t) : i # Len(t) => i + 1 \in 1 .. Len(t)
        /\ \A c \in S : \E i \in 1 .. Len(t) : t[i] = c
    <2>1. /\ t \in Seq(Int) /\ \A i \in 1 .. Len(t) : t[i] \in S
          /\ \A c \in S : \E i \in 1 .. Len(t) : t[i] = c
      BY <1>3 DEF Descends
    <2>2. Len(t) \in Nat
      BY <2>1
    <2>3. \A c \in S : c \in Int /\ b <= c /\ c <= trailbase - 4
      BY <1>1, <1>2
    <2>4. \A i \in 1 .. Len(t) : i # Len(t) => i + 1 \in 1 .. Len(t)
      BY <2>2
    <2>. QED BY <2>1, <2>2, <2>3, <2>4
  <1>. HIDE DEF S
  <1>. DEFINE rec(i) == [hb |-> Area[t[i] + 1], spb |-> Area[t[i] + 2],
                         trail |-> IF i = Len(t) THEN Shown(Area, t, tr, i) \cup Kept
                                   ELSE Shown(Area, t, tr, i)]
  <1>7. AsChoices = [i \in 1 .. Len(t) |-> rec(i)]
    BY Zenon, <1>5 DEF AsChoices, Shown, Kept
  <1>8. Kept \in SUBSET Int
    <2>1. pc \in {"cut", "return"} => \A x \in end .. at : word[x] \in Int
      <3>1. ASSUME pc \in {"cut", "return"}, NEW x \in end .. at PROVE word[x] \in Int
        <4>1. /\ \A y \in end .. GVBase - 1 : word[y] \in 0 .. GVBase - 1
              /\ tr <= b /\ b <= trailbase - 4 /\ trailbase <= GVBase /\ GVBase \in Int
              /\ at \in Int /\ end \in Int /\ at < tr /\ tr \in Int /\ b \in Int /\ trailbase \in Int
          BY <3>1, SweepFacts
        <4>2. x \in end .. GVBase - 1
          BY <3>1, <4>1
        <4>. QED BY <4>1, <4>2
      <3>. QED BY <3>1
    <2>. QED BY <2>1 DEF Kept, Pending
  <1>9. ASSUME NEW i, i \in 1 .. Len(t)
        PROVE  /\ Area[t[i] + 1] = Now[t[i] + 1] /\ Area[t[i] + 1] \in Int
               /\ Area[t[i] + 2] = Now[t[i] + 2] /\ Area[t[i] + 2] \in Int
               /\ Shown(Area, t, tr, i) = Shown(Now, t, tr, i) /\ Shown(Now, t, tr, i) \in SUBSET Int
    <2>1. t[i] \in b .. trailbase - 4 /\ t[i] \in Int
      BY <1>1, <1>6, <1>9
    <2>2. t[i] + 1 \in tr .. trailbase - 1 /\ t[i] + 2 \in tr .. trailbase - 1
      BY <1>4, <2>1
    <2>. DEFINE X == (IF i = Len(t) THEN tr ELSE t[i + 1] + 4) .. t[i] - 1
    <2>3. \A x \in X : x \in tr .. trailbase - 1
      <3>1. CASE i = Len(t)
        BY <1>1, <2>1, <3>1
      <3>2. CASE i # Len(t)
        <4>1. t[i + 1] \in Int /\ b <= t[i + 1]
          BY <1>6, <1>9, <3>2
        <4>. QED BY <1>1, <2>1, <3>2, <4>1
      <3>. QED BY <3>1, <3>2
    <2>. HIDE DEF X
    <2>4. \A x \in X : Area[x] = Now[x] /\ Now[x] \in Int
      BY <1>1, <2>3
    <2>5. Shown(Area, t, tr, i) = {Area[x] : x \in X} /\ Shown(Now, t, tr, i) = {Now[x] : x \in X}
      BY DEF Shown, X
    <2>6. {Area[x] : x \in X} = {Now[x] : x \in X} /\ {Now[x] : x \in X} \in SUBSET Int
      BY <2>4
    <2>7. /\ Area[t[i] + 1] = Now[t[i] + 1] /\ Now[t[i] + 1] \in Int
          /\ Area[t[i] + 2] = Now[t[i] + 2] /\ Now[t[i] + 2] \in Int
      BY <1>1, <2>2
    <2>. QED BY <2>5, <2>6, <2>7
  <1>10. \A i \in 1 .. Len(t) : rec(i) \in Choice
    BY <1>8, <1>9 DEF Choice
  <1>11. /\ AsChoices \in Seq(Choice) /\ Len(AsChoices) = Len(t)
         /\ \A i \in 1 .. Len(t) : AsChoices[i] = rec(i)
    <2>. HIDE DEF rec
    <2>. QED BY <1>6, <1>7, <1>10
  <1>12. Shows(AsChoices, Now, t, tr, Kept)
    <2>1. ASSUME NEW i, i \in 1 .. Len(t)
          PROVE  /\ AsChoices[i].hb = Now[t[i] + 1] /\ AsChoices[i].spb = Now[t[i] + 2]
                 /\ AsChoices[i].trail = IF i = Len(t) THEN Shown(Now, t, tr, i) \cup Kept
                                         ELSE Shown(Now, t, tr, i)
      <3>1. AsChoices[i] = rec(i)
        BY <1>11, <2>1
      <3>2. /\ rec(i).hb = Area[t[i] + 1] /\ rec(i).spb = Area[t[i] + 2]
            /\ rec(i).trail = IF i = Len(t) THEN Shown(Area, t, tr, i) \cup Kept
                              ELSE Shown(Area, t, tr, i)
        OBVIOUS
      <3>. HIDE DEF rec
      <3>. QED BY <1>9, <2>1, <3>1, <3>2
    <2>. QED BY <1>11, <2>1 DEF Shows
  <1>13. Viewed(AsChoices, Now, tr, b, trailbase, t, Kept)
    BY <1>1, <1>3, <1>12 DEF Viewed, S
  <1>. HIDE DEF rec
  <1>14. CallersOnly = SubSeq(regstack, 1, k) /\ regstack \in Seq(Caller)
    <2>1. regstack \in Seq(Caller)
      BY DEF IInv, TypeOK, Caller
    <2>2. SubSeq(regstack, 1, Len(regstack)) = regstack
      BY <2>1
    <2>. QED BY <2>1, <2>2 DEF CallersOnly, Waiting, Front
  <1>15. /\ DOMAIN CallersOnly = 1 .. k /\ \A i \in 1 .. k : CallersOnly[i] = regstack[i]
    <2>. HIDE DEF k
    <2>. QED BY <1>1, <1>14
  <1>16. ASSUME NEW i, i \in 1 .. k
         PROVE  Depth(regstack[i].b) \in 1 .. Len(t) /\ t[Depth(regstack[i].b)] = regstack[i].b
    <2>. DEFINE c == regstack[i].b
    <2>1. c \in S
      BY <1>1, <1>16 DEF Holds, CallerOf, S
    <2>2. PICK j \in 1 .. Len(t) : t[j] = c
      BY <1>6, <2>1
    <2>. HIDE DEF c
    <2>3. {d \in c .. trailbase - 4 : IsChoice(Area, d)} = {d \in S : d >= t[j]}
      <3>1. c \in b .. trailbase - 4 /\ c \in Int /\ b \in Int /\ trailbase \in Int
        BY <1>1, <1>2, <2>1 DEF S
      <3>2. \A d : d \in c .. trailbase - 4 <=> d \in b .. trailbase - 4 /\ d >= c
        BY <3>1
      <3>3. \A d \in S : d \in b .. trailbase - 4
        BY <1>2 DEF S
      <3>. QED BY <1>4, <2>2, <3>2, <3>3
    <2>4. Depth(c) = j
      BY <1>3, <2>2, <2>3, PlaceIs DEF Depth
    <2>. QED BY <2>2, <2>4 DEF c
  <1>17. CallsShow(AsCalls, t, regstack, k)
    <2>1. AsCalls = [i \in 1 .. k |-> Depth(regstack[i].b)]
      BY <1>15 DEF AsCalls
    <2>2. \A i \in 1 .. k : Depth(regstack[i].b) \in Nat
      BY <1>6, <1>16
    <2>. HIDE DEF k
    <2>3. AsCalls \in Seq(Nat) /\ Len(AsCalls) = k
      BY <1>1, <2>1, <2>2
    <2>4. \A i \in 1 .. k : AsCalls[i] = Depth(regstack[i].b)
      BY <2>1
    <2>. QED BY <1>1, <1>16, <2>3, <2>4 DEF CallsShow
  <1>. HIDE DEF k
  <1>18. Kept = {} \/ pc \in {"cut", "return"}
    BY DEF Kept, Pending
  <1>19. SeenRun
    <2>1. ASSUME pc = "run" PROVE Now = word /\ Kept = {} /\ k = Len(regstack)
      BY <1>18, <2>1 DEF Now, Waiting, k
    <2>. QED BY <1>13, <1>17, <2>1 DEF SeenRun, Seen
  <1>20. SeenSweep
    <2>1. ASSUME pc \in {"cut", "return"} PROVE Now = word
      BY <2>1 DEF Now
    <2>. QED BY <1>13, <1>17, <2>1 DEF SeenSweep, Seen, k
  <1>21. SeenShift
    <2>1. ASSUME pc = "shift" PROVE Now = Was /\ Kept = {} /\ k = Len(regstack)
      BY <1>18, <2>1 DEF Now, Waiting, k
    <2>. QED BY <1>13, <1>17, <2>1 DEF SeenShift, Seen
  <1>. QED BY <1>19, <1>20, <1>21 DEF Seeing
------------------------------------------------------------------------------
FloorOf(cl) == IF cl = << >> THEN 1 ELSE Last(cl) + 1

(* A choice point that all the callers' are older than may be newest. *)
LEMMA FloorBelow ==
  ASSUME NEW S, NEW t, Descends(t, S), NEW regs, NEW k, NEW cl, CallsShow(cl, t, regs, k),
         NEW n, n \in 1 .. Len(t), \A i \in 1 .. k : regs[i].b > t[n]
  PROVE  FloorOf(cl) \in Nat /\ FloorOf(cl) <= n
  <1>1. k \in Nat /\ cl \in Seq(Nat) /\ Len(cl) = k /\ n \in Int /\ 1 <= n
    BY DEF CallsShow, Descends
  <1>2. CASE k = 0
    <2>1. cl = << >>
      BY <1>1, <1>2
    <2>. QED BY <1>1, <2>1 DEF FloorOf
  <1>3. CASE k # 0
    <2>1. k \in 1 .. k /\ cl # << >> /\ Last(cl) = cl[k]
      BY <1>1, <1>3 DEF Last
    <2>2. cl[k] \in 1 .. Len(t) /\ t[cl[k]] = regs[k].b /\ cl[k] \in Nat
      BY <1>1, <2>1 DEF CallsShow
    <2>3. t[cl[k]] > t[n]
      BY <2>1, <2>2
    <2>4. n > cl[k]
      <3>1. /\ n < cl[k] => t[n] > t[cl[k]]
            /\ n = cl[k] => t[n] = t[cl[k]]
            /\ t[n] \in Int /\ t[cl[k]] \in Int
        BY <2>2, PlaceOnly
      <3>2. n < cl[k] \/ n = cl[k] \/ n > cl[k]
        BY <1>1, <2>2
      <3>. QED BY <2>3, <3>1, <3>2
    <2>. QED BY <1>1, <2>1, <2>2, <2>4 DEF FloorOf
  <1>. QED BY <1>2, <1>3

(* The innermost call returns: of its caller's choice point it is the      *)
(* newest.                                                                 *)
LEMMA FrontCalls ==
  ASSUME NEW S, NEW t, Descends(t, S), NEW regs, NEW k, NEW cl, CallsShow(cl, t, regs, k), k > 0,
         NEW u, NEW new, CallsShow(new, u, regs, k - 1),
         Len(u) \in 1 .. Len(t), \A i \in 1 .. Len(u) : u[i] = t[i], u[Len(u)] = regs[k].b
  PROVE  /\ cl # << >> /\ Last(cl) = Len(u) /\ FloorOf(cl) = Len(u) + 1
         /\ new = Front(cl)
  <1>1. /\ k \in Nat /\ k - 1 \in Nat /\ cl \in Seq(Nat) /\ Len(cl) = k
        /\ new \in Seq(Nat) /\ Len(new) = k - 1
        /\ k \in 1 .. k /\ \A i \in 1 .. k - 1 : i \in 1 .. k
    BY DEF CallsShow
  <1>2. Len(t) \in Nat /\ Len(u) \in 1 .. Len(u) /\ \A i \in 1 .. Len(u) : i \in 1 .. Len(t)
    BY DEF Descends
  <1>3. cl # << >> /\ Last(cl) = cl[k] /\ cl[k] \in Nat
    BY <1>1 DEF Last
  <1>4. cl[k] = Len(u)
    <2>1. cl[k] \in 1 .. Len(t) /\ t[cl[k]] = regs[k].b
      BY <1>1 DEF CallsShow
    <2>2. t[Len(u)] = t[cl[k]]
      BY <1>2, <2>1
    <2>. QED BY <2>1, <2>2, PlaceOnly
  <1>5. ASSUME NEW i, i \in 1 .. k - 1 PROVE new[i] = cl[i]
    <2>1. cl[i] \in 1 .. Len(t) /\ t[cl[i]] = regs[i].b
      BY <1>1, <1>5 DEF CallsShow
    <2>2. new[i] \in 1 .. Len(u) /\ u[new[i]] = regs[i].b
      BY <1>5 DEF CallsShow
    <2>3. new[i] \in 1 .. Len(t) /\ t[new[i]] = regs[i].b
      BY <1>2, <2>2
    <2>. QED BY <2>1, <2>3, PlaceOnly
  <1>6. new = Front(cl)
    <2>. DEFINE f == SubSeq(cl, 1, k - 1)
    <2>1. Front(cl) = f
      BY <1>1 DEF Front
    <2>2. f \in Seq(Nat) /\ Len(f) = k - 1 /\ \A i \in 1 .. k - 1 : f[i] = cl[i]
      <3>1. k - 1 <= Len(cl) /\ \A i \in 1 .. k - 1 : 1 + i - 1 = i
        BY <1>1
      <3>2. f = [i \in 1 .. k - 1 |-> cl[i]]
        BY <1>1, <3>1
      <3>3. \A i \in 1 .. k - 1 : cl[i] \in Nat
        BY <1>1
      <3>. HIDE DEF f
      <3>. QED BY <1>1, <3>2, <3>3
    <2>. HIDE DEF f
    <2>3. new = [i \in 1 .. k - 1 |-> new[i]] /\ f = [i \in 1 .. k - 1 |-> f[i]]
      BY <1>1, <2>2
    <2>. QED BY <1>5, <2>1, <2>2, <2>3
  <1>. QED BY <1>3, <1>4, <1>6 DEF FloorOf

(* A call of run_wam: the newest choice point is the caller's. *)
LEMMA MoreCalls ==
  ASSUME NEW D, NEW u, Descends(u, D), NEW regs, NEW k, NEW cl, NEW t, CallsShow(cl, t, regs, k),
         NEW calls, NEW new, CallsShow(new, u, calls, k + 1),
         Len(t) \in Nat, Len(t) > 0, Len(u) = Len(t) + 1, \A i \in 1 .. Len(t) : u[i] = t[i],
         \A i \in 1 .. k : calls[i].b = regs[i].b, calls[k + 1].b = t[Len(t)]
  PROVE  new = Append(cl, Len(t))
  <1>1. /\ k \in Nat /\ cl \in Seq(Nat) /\ Len(cl) = k /\ new \in Seq(Nat) /\ Len(new) = k + 1
        /\ k + 1 \in 1 .. k + 1 /\ \A i \in 1 .. k : i \in 1 .. k + 1
    BY DEF CallsShow
  <1>2. /\ Len(t) \in 1 .. Len(t) /\ \A i \in 1 .. Len(t) : i \in 1 .. Len(u)
    OBVIOUS
  <1>3. ASSUME NEW i, i \in 1 .. k PROVE new[i] = cl[i]
    <2>1. cl[i] \in 1 .. Len(t) /\ t[cl[i]] = regs[i].b
      BY <1>3 DEF CallsShow
    <2>2. new[i] \in 1 .. Len(u) /\ u[new[i]] = calls[i].b
      BY <1>1, <1>3 DEF CallsShow
    <2>3. cl[i] \in 1 .. Len(u) /\ u[cl[i]] = u[new[i]]
      BY <1>2, <1>3, <2>1, <2>2
    <2>. QED BY <2>2, <2>3, PlaceOnly
  <1>4. new[k + 1] = Len(t)
    <2>1. new[k + 1] \in 1 .. Len(u) /\ u[new[k + 1]] = calls[k + 1].b
      BY <1>1 DEF CallsShow
    <2>2. Len(t) \in 1 .. Len(u) /\ u[Len(t)] = u[new[k + 1]]
      BY <1>2, <2>1
    <2>. QED BY <2>1, <2>2, PlaceOnly
  <1>. DEFINE a == Append(cl, Len(t))
  <1>5. /\ a \in Seq(Nat) /\ Len(a) = k + 1 /\ \A i \in 1 .. k : a[i] = cl[i]
        /\ a[k + 1] = Len(t)
    BY <1>1
  <1>. HIDE DEF a
  <1>6. ASSUME NEW i, i \in 1 .. k + 1 PROVE new[i] = a[i]
    <2>1. i \in 1 .. k \/ i = k + 1
      BY <1>1, <1>6
    <2>. QED BY <1>3, <1>4, <1>5, <2>1
  <1>7. new = [i \in 1 .. k + 1 |-> new[i]] /\ a = [i \in 1 .. k + 1 |-> a[i]]
    BY <1>1, <1>5
  <1>. QED BY <1>6, <1>7 DEF a

(* The next to newest choice point *)
LEMMA NextOldest ==
  ASSUME NEW ch, NEW w, NEW l, NEW n, NEW top, NEW t, NEW p, Viewed(ch, w, l, n, top, t, p),
         n # top - 4
  PROVE  Len(t) - 1 \in 1 .. Len(t) /\ t[Len(t) - 1] = w[n + 3]
  <1>. DEFINE S == ChoicesOf(w, n, top)
              q == w[n + 3]
  <1>1. /\ n \in Int /\ top \in Int /\ n \in S /\ ChainOf(w, n, top) /\ Descends(t, S)
    BY DEF Viewed, ChainOf
  <1>2. q \in S /\ (\A d \in S : d > n => d >= q) /\ \A d \in S : d \in Int /\ d >= n
    BY <1>1 DEF ChainOf, ChoicesOf
  <1>3. q > n
    BY <1>1, <1>2 DEF ChoicesOf
  <1>4. /\ Len(t) \in Nat /\ t[Len(t)] = n /\ Len(t) \in 1 .. Len(t)
        /\ \A i \in 1 .. Len(t) : t[i] \in S
    BY ViewFacts
  <1>. HIDE DEF S, q
  <1>5. PICK j \in 1 .. Len(t) : t[j] = q
    BY <1>1, <1>2 DEF Descends
  <1>6. j # Len(t) /\ j \in Int
    BY <1>1, <1>3, <1>4, <1>5
  <1>7. Len(t) - 1 \in 1 .. Len(t) /\ j <= Len(t) - 1 /\ Len(t) - 1 < Len(t)
    BY <1>4, <1>5, <1>6
  <1>8. t[Len(t) - 1] > n
    <2>1. Len(t) - 1 < Len(t) <=> t[Len(t) - 1] > t[Len(t)]
      BY <1>1, <1>4, <1>7, PlaceOnly
    <2>. QED BY <1>4, <1>7, <2>1
  <1>9. t[Len(t) - 1] >= q
    <2>1. t[Len(t) - 1] \in S
      BY <1>4, <1>7
    <2>. QED BY <1>2, <1>8, <2>1
  <1>10. ~ (j < Len(t) - 1)
    <2>1. j < Len(t) - 1 => t[j] > t[Len(t) - 1]
      BY <1>1, <1>7, PlaceOnly
    <2>2. t[Len(t) - 1] \in Int /\ t[j] \in Int
      BY <1>1, <1>7, PlaceOnly
    <2>. QED BY <1>5, <1>9, <2>1, <2>2
  <1>11. j = Len(t) - 1
    BY <1>4, <1>6, <1>7, <1>10
  <1>. QED BY <1>5, <1>7, <1>11 DEF q
------------------------------------------------------------------------------
(***************************************************************************)
(* Step by step: between instructions                                      *)
(***************************************************************************)
Answers == Sound(AsChoices') /\ [Stack!Next]_(Stack!absvars)

(* A step of the stack that changes neither the calls nor the variables *)
LEMMA StepAnswers ==
  ASSUME AsCalls' = AsCalls, allocated' = allocated, Sound(AsChoices'),
         \/ Stack!Trails(AsChoices, AsChoices')
         \/ Stack!Pushes(AsChoices, AsChoices')
         \/ Stack!Retries(AsChoices, AsChoices')
         \/ Len(AsChoices) > FloorOf(AsCalls) /\ AsChoices' = Front(AsChoices)
         \/ \E k \in FloorOf(AsCalls) .. Len(AsChoices) - 1 : Stack!KeepsFirst(AsChoices, AsChoices', k)
         \/ /\ Len(AsChoices') = Len(AsChoices)
            /\ \E n \in 0 .. Len(AsChoices) : Stack!Protects(AsChoices, AsChoices', n)
  PROVE  Answers
  <1>1. Stack!Floor = FloorOf(AsCalls)
    BY DEF Stack!Floor, FloorOf, Last, Stack!Last
  <1>2. Stack!Step(AsChoices, AsChoices')
    BY <1>1 DEF Stack!Step, Front, Stack!Front
  <1>3. Stack!Next
    BY <1>2 DEF Stack!Next
  <1>. QED BY <1>3 DEF Answers

LEMMA StutterAnswers ==
  ASSUME AsChoices' = AsChoices, AsCalls' = AsCalls, allocated' = allocated, Sound(AsChoices)
  PROVE  Answers
  BY DEF Answers, Stack!absvars

LEMMA TrailAnswers ==
  ASSUME IInv, Seeing, Seeing', Sound(AsChoices), NEW r \in Cell, Trail(r)
  PROVE  Answers
  <1>1. /\ Running /\ r < hb /\ r >= spb /\ tr' = tr - 1 /\ word' = Push(<< r >>)
        /\ UNCHANGED <<choiceRegs, gvars, regstack, loop>>
    BY DEF Trail
  <1>2. /\ DOMAIN word = tr .. GVBase - 1
        /\ tr \in Int /\ tr <= b /\ b \in Int /\ b <= trailbase - 4
        /\ trailbase \in Int /\ trailbase <= GVBase /\ GVBase \in Int
        /\ hb = word[b + 1] /\ spb = word[b + 2]
    BY <1>1, RunFacts
  <1>3. word' = [x \in tr - 1 .. GVBase - 1 |-> IF x < tr THEN << r >>[x - tr + 1 + 1] ELSE word[x]]
    BY <1>1 DEF Push
  <1>4. word'[tr - 1] = r /\ \A x \in tr .. trailbase - 1 : word'[x] = word[x]
    <2>1. tr - 1 \in tr - 1 .. GVBase - 1 /\ (tr - 1) - tr + 1 + 1 = 1 /\ tr - 1 < tr
      BY <1>2
    <2>2. \A x \in tr .. trailbase - 1 : x \in tr - 1 .. GVBase - 1 /\ ~ (x < tr)
      BY <1>2
    <2>. QED BY <1>3, <2>1, <2>2
  <1>5. PICK t : /\ Viewed(AsChoices, word, tr, b, trailbase, t, {})
                 /\ CallsShow(AsCalls, t, regstack, Len(regstack))
    BY <1>1 DEF Seeing, SeenRun, Seen, Running
  <1>6. PICK u : /\ Viewed(AsChoices', word', tr - 1, b, trailbase, u, {})
                 /\ CallsShow(AsCalls', u, regstack, Len(regstack))
    BY <1>1 DEF Seeing, SeenRun, Seen, Running, loop, gvars, choiceRegs
  <1>7. u = t /\ Stack!Trails(AsChoices, AsChoices') /\ Sound(AsChoices')
    <2>1. r \in Int /\ word[b + 2] <= r /\ r < word[b + 1]
      BY <1>1, <1>2, AreaAssumption DEF Cell, IInv, TypeOK, StackTop
    <2>. QED BY <1>4, <1>5, <1>6, <2>1, TrailView
  <1>8. AsCalls' = AsCalls
    <2>1. Descends(t, ChoicesOf(word, b, trailbase))
      BY <1>5 DEF Viewed
    <2>. QED BY <1>5, <1>6, <1>7, <2>1, SameCalls
  <1>9. allocated' = allocated
    BY <1>1 DEF gvars
  <1>. QED BY <1>7, <1>8, <1>9, StepAnswers

(* What is seen when a choice point is pushed *)
LEMMA PushSeen ==
  ASSUME IInv, Running, NEW h \in HeapTop, NEW sp \in StackTop, NewChoice(h, sp),
         UNCHANGED trailbase, Sound(AsChoices),
         NEW t, Viewed(AsChoices, word, tr, b, trailbase, t, {}),
         NEW u, Viewed(AsChoices', word', tr - 4, tr - 4, trailbase, u, {})
  PROVE  /\ Len(u) = Len(t) + 1 /\ \A i \in 1 .. Len(t) : u[i] = t[i]
         /\ Stack!Pushes(AsChoices, AsChoices') /\ Sound(AsChoices')
  <1>1. /\ Holds(word, tr, b, trailbase, hb, spb, regstack, Len(regstack))
        /\ tr \in Int /\ Low <= tr /\ tr <= b /\ b \in Int /\ b <= trailbase - 4
        /\ trailbase \in Int /\ trailbase <= GVBase /\ Low \in Int /\ GVBase \in Int
        /\ Len(regstack) \in Nat /\ hb = word[b + 1] /\ spb = word[b + 2]
    BY RunFacts
  <1>2. /\ \A x \in tr .. GVBase - 1 : word'[x] = word[x]
        /\ word'[tr - 4] = 0 /\ word'[tr - 4 + 1] = h /\ word'[tr - 4 + 2] = sp
        /\ word'[tr - 4 + 3] = b
        /\ Low <= tr - 4 /\ sp <= spb
    BY NewChoiceWrites
  <1>3. \A x \in tr .. trailbase - 1 : word'[x] = word[x]
    BY <1>1, <1>2
  <1>4. ChoicesOf(word', tr - 4, trailbase) = ChoicesOf(word, b, trailbase) \cup {tr - 4}
    <2>. DEFINE k == Len(regstack)
    <2>1. tr - 4 \in Int /\ tr - 4 + 4 = tr /\ k \in Int
      BY <1>1
    <2>2. Holds(word, tr, b, trailbase, hb, spb, regstack, k)
      BY <1>1
    <2>. HIDE DEF k
    <2>. QED BY <1>1, <1>2, <1>3, <2>1, <2>2, HoldsPush
  <1>5. h >= hb
    BY DEF NewChoice
  <1>. DEFINE m == tr - 4
  <1>6. m = tr - 4 /\ word'[m + 1] >= word[b + 1] /\ word'[m + 2] <= word[b + 2]
    BY <1>1, <1>2, <1>5
  <1>. HIDE DEF m
  <1>7. Viewed(AsChoices', word', m, m, trailbase, u, {})
    BY <1>6
  <1>8. ChoicesOf(word', m, trailbase) = ChoicesOf(word, b, trailbase) \cup {m}
    BY <1>4, <1>6
  <1>. QED BY <1>3, <1>6, <1>7, <1>8, PushView

LEMMA TryAnswers ==
  ASSUME IInv, Seeing, Seeing', Sound(AsChoices), NEW h \in HeapTop, NEW sp \in StackTop, Try(h, sp)
  PROVE  Answers
  <1>1. Running /\ NewChoice(h, sp) /\ UNCHANGED <<gvars, regstack, loop>>
    BY DEF Try
  <1>2. tr' = tr - 4 /\ b' = tr - 4
    BY <1>1 DEF NewChoice
  <1>3. PICK t : /\ Viewed(AsChoices, word, tr, b, trailbase, t, {})
                 /\ CallsShow(AsCalls, t, regstack, Len(regstack))
    BY <1>1 DEF Seeing, SeenRun, Seen, Running
  <1>4. PICK u : /\ Viewed(AsChoices', word', tr - 4, tr - 4, trailbase, u, {})
                 /\ CallsShow(AsCalls', u, regstack, Len(regstack))
    BY <1>1, <1>2 DEF Seeing, SeenRun, Seen, Running, loop, gvars
  <1>5. UNCHANGED <<trailbase, allocated>>
    BY <1>1 DEF gvars
  <1>6. /\ Len(u) = Len(t) + 1 /\ \A i \in 1 .. Len(t) : u[i] = t[i]
        /\ Stack!Pushes(AsChoices, AsChoices') /\ Sound(AsChoices')
    BY <1>1, <1>3, <1>4, <1>5, PushSeen
  <1>7. AsCalls = AsCalls'
    <2>1. Descends(u, ChoicesOf(word', tr - 4, trailbase))
      BY <1>4 DEF Viewed
    <2>2. Len(t) \in Nat
      BY <1>3, ViewFacts
    <2>3. \A j \in 1 .. Len(t) : j \in 1 .. Len(u)
      BY <1>6, <2>2
    <2>4. \A i \in 1 .. Len(regstack) : \A j \in 1 .. Len(t) :
            t[j] = regstack[i].b => j \in 1 .. Len(u) /\ u[j] = regstack[i].b
      BY <1>6, <2>3
    <2>. QED BY <1>3, <1>4, <2>1, <2>4, SameCalls
  <1>. QED BY <1>5, <1>6, <1>7, StepAnswers

LEMMA CallAnswers ==
  ASSUME IInv, Seeing, Seeing', Sound(AsChoices), NEW h \in HeapTop, NEW sp \in StackTop, Call(h, sp)
  PROVE  Answers
  <1>. DEFINE k == Len(regstack)
              r == [b |-> b, spb |-> spb, sp |-> sp]
  <1>1. /\ Running /\ sp > 1 /\ regstack' = Append(regstack, r)
        /\ NewChoice(h, sp - 1) /\ UNCHANGED <<gvars, loop>>
    BY DEF Call
  <1>2. tr' = tr - 4 /\ b' = tr - 4 /\ sp - 1 \in StackTop
    BY <1>1, AreaAssumption DEF NewChoice, StackTop
  <1>3. /\ regstack \in Seq(Caller) /\ k \in Nat
    BY <1>1, RunFacts
  <1>4. /\ Len(regstack') = k + 1 /\ \A i \in 1 .. k : regstack'[i] = regstack[i]
        /\ regstack'[k + 1].b = b
    <2>1. r \in Caller /\ r.b = b
      <3>1. b \in Low .. GVBase - 4 /\ spb \in StackTop
        BY DEF IInv, TypeOK
      <3>. QED BY <3>1 DEF Caller
    <2>. HIDE DEF r
    <2>. QED BY <1>1, <1>3, <2>1
  <1>5. PICK t : /\ Viewed(AsChoices, word, tr, b, trailbase, t, {})
                 /\ CallsShow(AsCalls, t, regstack, k)
    BY <1>1 DEF Seeing, SeenRun, Seen, Running
  <1>6. PICK u : /\ Viewed(AsChoices', word', tr - 4, tr - 4, trailbase, u, {})
                 /\ CallsShow(AsCalls', u, regstack', k + 1)
    BY <1>1, <1>2, <1>4 DEF Seeing, SeenRun, Seen, Running, loop, gvars
  <1>7. UNCHANGED <<trailbase, allocated>>
    BY <1>1 DEF gvars
  <1>8. /\ Len(u) = Len(t) + 1 /\ \A i \in 1 .. Len(t) : u[i] = t[i]
        /\ Stack!Pushes(AsChoices, AsChoices') /\ Sound(AsChoices')
    BY <1>1, <1>2, <1>5, <1>6, <1>7, PushSeen
  <1>9. AsCalls' = Append(AsCalls, Len(t))
    <2>1. Descends(u, ChoicesOf(word', tr - 4, trailbase))
      BY <1>6 DEF Viewed
    <2>2. Len(t) \in Nat /\ Len(t) > 0 /\ t[Len(t)] = b
      BY <1>5, ViewFacts
    <2>3. regstack'[k + 1].b = t[Len(t)] /\ \A i \in 1 .. k : regstack'[i].b = regstack[i].b
      BY <1>4, <2>2
    <2>. HIDE DEF k
    <2>. QED BY <1>5, <1>6, <1>8, <2>1, <2>2, <2>3, MoreCalls
  <1>10. Len(AsChoices) = Len(t)
    BY <1>5, ViewFacts
  <1>11. Stack!Call(AsChoices, AsChoices')
    BY <1>7, <1>8, <1>9, <1>10 DEF Stack!Call
  <1>12. Stack!Next
    BY <1>11 DEF Stack!Next
  <1>. QED BY <1>8, <1>12 DEF Answers

LEMMA RetryAnswers ==
  ASSUME IInv, Seeing, Seeing', Sound(AsChoices), Retry
  PROVE  Answers
  <1>1. Running /\ tr' = b /\ word' = Drop(b) /\ UNCHANGED <<choiceRegs, gvars, regstack, loop>>
    BY DEF Retry
  <1>2. /\ b \in Int /\ trailbase \in Int /\ trailbase <= GVBase /\ GVBase \in Int
    BY <1>1, RunFacts
  <1>3. \A x \in b .. trailbase - 1 : word'[x] = word[x]
    <2>1. \A x \in b .. trailbase - 1 : x \in b .. GVBase - 1
      BY <1>2
    <2>. QED BY <1>1, <2>1 DEF Drop
  <1>4. PICK t : /\ Viewed(AsChoices, word, tr, b, trailbase, t, {})
                 /\ CallsShow(AsCalls, t, regstack, Len(regstack))
    BY <1>1 DEF Seeing, SeenRun, Seen, Running
  <1>5. PICK u : /\ Viewed(AsChoices', word', b, b, trailbase, u, {})
                 /\ CallsShow(AsCalls', u, regstack, Len(regstack))
    BY <1>1 DEF Seeing, SeenRun, Seen, Running, loop, gvars, choiceRegs
  <1>6. u = t /\ Stack!Retries(AsChoices, AsChoices') /\ Sound(AsChoices')
    BY <1>3, <1>4, <1>5, RetryView
  <1>7. AsCalls' = AsCalls
    <2>1. Descends(t, ChoicesOf(word, b, trailbase))
      BY <1>4 DEF Viewed
    <2>. QED BY <1>4, <1>5, <1>6, <2>1, SameCalls
  <1>8. allocated' = allocated
    BY <1>1 DEF gvars
  <1>. QED BY <1>6, <1>7, <1>8, StepAnswers

(* The callers' choice points stay older than the newest. *)
LEMMA CallersBelow ==
  ASSUME IInv', pc' \in {"run", "cut", "return"},
         NEW k, k = IF pc' = "return" THEN Len(regstack') - 1 ELSE Len(regstack'), k \in Int
  PROVE  \A i \in 1 .. k : regstack'[i].b > b'
  <1>1. Holds(word', tr', b', trailbase', hb', spb', regstack', k)
    BY DEF IInv, Chained, Waiting
  <1>2. tr' \in Int /\ b' \in Int /\ trailbase' \in Int
    BY AreaAssumption DEF IInv, TypeOK
  <1>. QED BY <1>1, <1>2, CallersOlder

LEMMA TrustAnswers ==
  ASSUME IInv, IInv', Seeing, Seeing', Sound(AsChoices), Trust
  PROVE  Answers
  <1>. DEFINE q == word[b + 3]
              k == Len(regstack)
  <1>1. /\ Running /\ PopChoice /\ tr' = b + 4
        /\ UNCHANGED <<gvars, regstack, loop>>
    BY DEF Trust
  <1>2. /\ b \in Int /\ trailbase \in Int /\ trailbase <= GVBase /\ GVBase \in Int /\ k \in Nat
        /\ Bases = ChoicesOf(word, b, trailbase)
        /\ \A c \in Bases : c \in b .. trailbase - 4
    BY <1>1, RunFacts
  <1>3. /\ b' = q /\ q \in Bases /\ q \in Int /\ b + 4 <= q /\ b # trailbase - 4
        /\ \A x \in b + 4 .. GVBase - 1 : word'[x] = word[x]
    BY <1>1, PopLeaves
  <1>4. q <= trailbase - 4
    BY <1>2, <1>3
  <1>5. PICK t : /\ Viewed(AsChoices, word, tr, b, trailbase, t, {})
                 /\ CallsShow(AsCalls, t, regstack, k)
    BY <1>1 DEF Seeing, SeenRun, Seen, Running
  <1>6. PICK u : /\ Viewed(AsChoices', word', b + 4, q, trailbase, u, {})
                 /\ CallsShow(AsCalls', u, regstack, k)
    BY <1>1, <1>3 DEF Seeing, SeenRun, Seen, Running, loop, gvars
  <1>7. /\ Len(u) = Len(t) - 1 /\ Len(t) > 1 /\ \A i \in 1 .. Len(u) : u[i] = t[i]
        /\ AsChoices' = Front(AsChoices) /\ Sound(AsChoices')
    <2>. DEFINE v == word'
                new == AsChoices'
    <2>1. \A x \in q .. trailbase - 1 : v[x] = word[x]
      BY <1>2, <1>3
    <2>2. Values(v, b + 4, q - 1) \cup {} = Values(word, b + 4, q - 1)
      <3>1. \A x \in b + 4 .. q - 1 : v[x] = word[x]
        BY <1>2, <1>3, <1>4
      <3>. HIDE DEF q, v
      <3>. QED BY <3>1 DEF Values
    <2>3. q = word[b + 3] /\ Viewed(new, v, b + 4, q, trailbase, u, {})
      BY <1>6
    <2>4. Uncovers(word, b, trailbase, q, v, b + 4, {})
      BY <1>3, <2>1, <2>2, <2>3 DEF Uncovers
    <2>. HIDE DEF q, v, new
    <2>5. /\ Len(u) = Len(t) - 1 /\ Len(t) > 1 /\ \A i \in 1 .. Len(u) : u[i] = t[i]
          /\ new = Front(AsChoices) /\ Sound(new)
      BY <1>5, <2>3, <2>4, FrontView
    <2>. QED BY <2>5 DEF new
  <1>8. /\ Len(t) \in Nat /\ Len(u) \in 1 .. Len(t) /\ Len(AsChoices) = Len(t)
        /\ t[Len(u)] = q /\ \A j \in 1 .. Len(u) : j \in 1 .. Len(t)
    <2>1. Len(t) \in Nat /\ Len(AsChoices) = Len(t)
      BY <1>5, ViewFacts
    <2>2. Len(u) \in 1 .. Len(u) /\ u[Len(u)] = q
      BY <1>6, ViewFacts
    <2>. HIDE DEF q
    <2>. QED BY <1>7, <2>1, <2>2
  <1>9. Descends(t, ChoicesOf(word, b, trailbase))
    BY <1>5 DEF Viewed
  <1>. HIDE DEF k
  <1>10. AsCalls' = AsCalls
    <2>1. \A i \in 1 .. k : \A j \in 1 .. Len(u) :
            u[j] = regstack[i].b => j \in 1 .. Len(t) /\ t[j] = regstack[i].b
      BY <1>7, <1>8
    <2>. QED BY <1>5, <1>6, <1>9, <2>1, SameCalls
  <1>11. Len(AsChoices) > FloorOf(AsCalls)
    <2>1. \A i \in 1 .. k : regstack[i].b > t[Len(u)]
      <3>1. /\ pc' = "run" /\ regstack' = regstack
        BY <1>1 DEF loop, Running
      <3>2. k = (IF pc' = "return" THEN Len(regstack') - 1 ELSE Len(regstack')) /\ k \in Int
        BY <1>2, <3>1 DEF k
      <3>3. \A i \in 1 .. k : regstack'[i].b > b'
        BY <3>1, <3>2, CallersBelow
      <3>. QED BY <1>3, <1>8, <3>1, <3>3
    <2>2. FloorOf(AsCalls) \in Nat /\ FloorOf(AsCalls) <= Len(u)
      BY <1>5, <1>8, <1>9, <2>1, FloorBelow
    <2>. QED BY <1>7, <1>8, <2>2
  <1>12. allocated' = allocated
    BY <1>1 DEF gvars
  <1>. QED BY <1>7, <1>10, <1>11, <1>12, StepAnswers
------------------------------------------------------------------------------
(***************************************************************************)
(* Step by step: the sweeps                                                *)
(*                                                                         *)
(* What is ahead of a sweep is whole choice points: the words that point   *)
(* upward are at least four apart, and none is just behind.                *)
(***************************************************************************)
Spaced ==
  /\ \A z \in at + 1 .. at + 3 : word[z] <= z
  /\ \A x, z \in end .. at : x < z /\ word[x] > x /\ word[z] > z => x + 4 <= z

Spacing == pc \in {"cut", "return"} => Spaced

LEMMA LinksApart ==
  ASSUME NEW w, NEW l \in Int, NEW n \in Int, NEW top \in Int, ChainOf(w, n, top), Low <= l,
         \A x \in l .. n - 1 : Plain(w[x])
  PROVE  /\ \A c \in ChoicesOf(w, n, top) : \A z \in c .. c + 2 : l <= n => w[z] <= z
         /\ \A x, z \in l .. top - 1 : x < z /\ w[x] > x /\ w[z] > z => x + 4 <= z
  <1>. DEFINE S == ChoicesOf(w, n, top)
  <1>1. /\ \A x \in n .. top - 1 : Plain(w[x]) \/ (w[x] > x /\ x - 3 \in S)
        /\ \A c \in S : c \in n .. top - 4
        /\ \A c, d \in S : c < d => c + 4 <= d
    BY ChoicesApart DEF ChainOf, ChoicesOf
  <1>2. Low \in Int /\ \A v : Plain(v) => v \in Int /\ v <= Low
    BY AreaAssumption DEF Plain
  <1>. HIDE DEF S
  <1>3. ASSUME NEW c \in S, NEW z \in c .. c + 2, l <= n PROVE w[z] <= z
    <2>1. c \in n .. top - 4 /\ z \in n .. top - 1 /\ z \in Int /\ c \in Int
      BY <1>1, <1>3
    <2>2. ~ (z - 3 \in S)
      <3>1. z - 3 < c /\ ~ ((z - 3) + 4 <= c)
        BY <1>3, <2>1
      <3>. QED BY <1>1, <3>1
    <2>3. Plain(w[z])
      BY <1>1, <2>1, <2>2
    <2>4. w[z] \in Int /\ w[z] <= Low
      BY <1>2, <2>3
    <2>. QED BY <1>2, <1>3, <2>1, <2>4
  <1>4. ASSUME NEW x \in l .. top - 1, w[x] > x PROVE x - 3 \in S
    <2>1. ~ Plain(w[x])
      <3>1. w[x] \in Int /\ w[x] <= Low => FALSE
        BY <1>2, <1>4
      <3>. QED BY <1>2, <3>1
    <2>2. x \in n .. top - 1
      <3>1. ~ (x \in l .. n - 1)
        BY <2>1
      <3>. QED BY <1>4, <3>1
    <2>. QED BY <1>1, <2>1, <2>2
  <1>5. ASSUME NEW x \in l .. top - 1, NEW z \in l .. top - 1, x < z, w[x] > x, w[z] > z
        PROVE  x + 4 <= z
    <2>1. x - 3 \in S /\ z - 3 \in S /\ x - 3 < z - 3
      BY <1>4, <1>5
    <2>2. (x - 3) + 4 <= z - 3
      BY <1>1, <2>1
    <2>. QED BY <2>2
  <1>. QED BY <1>3, <1>5 DEF S

(* What a sweep has still to look at *)
PendingIn(w, from, to) == {w[x] : x \in {y \in from .. to : \A z \in y .. y + 3 : w[z] <= z}}

KeptIn(w, from, to, h, s) == {r \in PendingIn(w, from, to) : r < h /\ r >= s}

(* A sweep begins at c. *)
LEMMA SweepSeen ==
  ASSUME IInv, Running, Sound(AsChoices), NEW c \in Bases, c # b, NEW where \in {"cut", "return"},
         SweepFrom(c, where), UNCHANGED <<word, gvars, regstack>>,
         NEW t, Viewed(AsChoices, word, tr, b, trailbase, t, {}),
         NEW u, Viewed(AsChoices', word', tr', b', trailbase', u, Kept')
  PROVE  /\ Len(u) \in 1 .. Len(t) - 1 /\ t[Len(u)] = c /\ \A i \in 1 .. Len(u) : u[i] = t[i]
         /\ Stack!KeepsFirst(AsChoices, AsChoices', Len(u)) /\ Sound(AsChoices')
  <1>1. /\ Bases = ChoicesOf(word, b, trailbase) /\ c \in Int
        /\ spb = word[b + 2]
    BY RunFacts
  <1>2. /\ b' = c /\ hb' = word[c + 1] /\ spb' = word[c + 2] /\ end' = tr /\ tr' = c
        /\ at' = c - 1 /\ pc' = where
        /\ word' = word /\ trailbase' = trailbase
    BY <1>1 DEF SweepFrom, SPBOf, gvars
  <1>3. Kept' = {r \in PendingIn(word, tr, c - 1) : r < word[c + 1] /\ r >= word[c + 2]}
    BY <1>2 DEF Kept, Pending, PendingIn
  <1>4. \A r : r \in PendingIn(word, tr, c - 1) <=>
                 \E x \in tr .. c - 1 : (\A z \in x .. x + 3 : word[z] <= z) /\ word[x] = r
    BY DEF PendingIn
  <1>. DEFINE p == Kept'
  <1>5. \A r : r \in p <=> /\ \E x \in tr .. c - 1 : (\A z \in x .. x + 3 : word[z] <= z) /\ word[x] = r
                           /\ r < word[c + 1] /\ r >= word[c + 2]
    BY <1>3, <1>4
  <1>6. Viewed(AsChoices', word, c, c, trailbase, u, p)
    BY <1>2
  <1>7. c \in ChoicesOf(word, b, trailbase) /\ \A x \in c .. trailbase - 1 : word[x] = word[x]
    BY <1>1
  <1>. HIDE DEF p
  <1>. QED BY <1>5, <1>6, <1>7, KeepView

LEMMA CutAnswers ==
  ASSUME IInv, IInv', Seeing, Seeing', Sound(AsChoices), NEW e \in 1 .. HeapBase - 1, Cut(e)
  PROVE  Answers
  <1>. DEFINE k == Len(regstack)
  <1>1. Running /\ spb <= e /\ UNCHANGED <<word, gvars, regstack>>
    BY DEF Cut
  <1>2. PICK c \in Bases : StopsAt(c, e) /\ SweepFrom(c, "cut")
    BY DEF Cut
  <1>3. k \in Nat /\ k \in Int
    BY <1>1, RunFacts
  <1>4. c # b
    <2>1. c = b => spb > e
      BY <1>2 DEF StopsAt
    <2>2. spb \in Int /\ e \in Int
      BY AreaAssumption DEF IInv, TypeOK, StackTop
    <2>. QED BY <1>1, <2>1, <2>2
  <1>5. /\ pc' = "cut" /\ b' = c /\ regstack' = regstack /\ allocated' = allocated
    BY <1>1, <1>2 DEF SweepFrom, gvars
  <1>6. PICK t : /\ Viewed(AsChoices, word, tr, b, trailbase, t, {})
                 /\ CallsShow(AsCalls, t, regstack, k)
    BY <1>1 DEF Seeing, SeenRun, Seen, Running
  <1>7. PICK u : /\ Viewed(AsChoices', word', tr', b', trailbase', u, Kept')
                 /\ CallsShow(AsCalls', u, regstack, k)
    <2>1. Waiting' = k
      BY <1>5 DEF Waiting
    <2>. HIDE DEF k
    <2>. QED BY <1>5, <2>1 DEF Seeing, SeenSweep, Seen
  <1>8. /\ Len(u) \in 1 .. Len(t) - 1 /\ t[Len(u)] = c /\ \A i \in 1 .. Len(u) : u[i] = t[i]
        /\ Stack!KeepsFirst(AsChoices, AsChoices', Len(u)) /\ Sound(AsChoices')
    BY <1>1, <1>2, <1>4, <1>6, <1>7, SweepSeen
  <1>9. /\ Len(t) \in Nat /\ Len(AsChoices) = Len(t) /\ Len(u) \in 1 .. Len(t) /\ Len(u) \in Nat
        /\ \A j \in 1 .. Len(u) : j \in 1 .. Len(t)
    <2>1. Len(t) \in Nat /\ Len(AsChoices) = Len(t)
      BY <1>6, ViewFacts
    <2>. QED BY <1>8, <2>1
  <1>10. Descends(t, ChoicesOf(word, b, trailbase))
    BY <1>6 DEF Viewed
  <1>11. \A i \in 1 .. k : regstack[i].b > t[Len(u)]
    <2>1. k = IF pc' = "return" THEN Len(regstack') - 1 ELSE Len(regstack')
      BY <1>5
    <2>2. \A i \in 1 .. k : regstack'[i].b > b'
      <3>. HIDE DEF k
      <3>. QED BY <1>3, <1>5, <2>1, CallersBelow
    <2>. QED BY <1>5, <1>8, <2>2
  <1>. HIDE DEF k
  <1>12. AsCalls' = AsCalls
    <2>1. \A i \in 1 .. k : \A j \in 1 .. Len(u) :
            u[j] = regstack[i].b => j \in 1 .. Len(t) /\ t[j] = regstack[i].b
      BY <1>8, <1>9
    <2>. QED BY <1>6, <1>7, <1>10, <2>1, SameCalls
  <1>13. Len(u) \in FloorOf(AsCalls) .. Len(AsChoices) - 1
    <2>1. FloorOf(AsCalls) \in Nat /\ FloorOf(AsCalls) <= Len(u)
      BY <1>6, <1>9, <1>10, <1>11, FloorBelow
    <2>. QED BY <1>8, <1>9, <2>1
  <1>. QED BY <1>5, <1>8, <1>12, <1>13, StepAnswers

(* The return of run_wam, by success or by failure *)
LEMMA ReturnAnswers ==
  ASSUME AsCalls # << >>, AsCalls' = Front(AsCalls), allocated' = allocated, Sound(AsChoices'),
         \/ Stack!KeepsFirst(AsChoices, AsChoices', Last(AsCalls))
         \/ Len(AsChoices) = FloorOf(AsCalls) /\ AsChoices' = Front(AsChoices)
  PROVE  Answers
  <1>1. Stack!Floor = FloorOf(AsCalls)
    BY DEF Stack!Floor, FloorOf, Last, Stack!Last
  <1>2. Stack!Return(AsChoices, AsChoices')
    BY <1>1 DEF Stack!Return, Last, Stack!Last, Front, Stack!Front
  <1>3. Stack!Next
    BY <1>2 DEF Stack!Next
  <1>. QED BY <1>3 DEF Answers

LEMMA SucceedAnswers ==
  ASSUME IInv, IInv', Seeing, Seeing', Sound(AsChoices), Succeed
  PROVE  Answers
  <1>. DEFINE k == Len(regstack)
  <1>1. Running /\ regstack # << >> /\ UNCHANGED <<word, gvars, regstack>>
    BY DEF Succeed
  <1>2. PICK c \in Bases : SweepFrom(c, "return")
    BY DEF Succeed
  <1>3. /\ Holds(word, tr, b, trailbase, hb, spb, regstack, k)
        /\ k \in Nat /\ k \in Int /\ k # 0 /\ tr \in Int /\ b \in Int /\ trailbase \in Int
    <2>1. regstack \in Seq(Caller)
      BY <1>1, RunFacts
    <2>. QED BY <1>1, <2>1, RunFacts
  <1>4. /\ pc' = "return" /\ b' = c /\ regstack' = regstack /\ allocated' = allocated
    BY <1>1, <1>2 DEF SweepFrom, gvars
  <1>5. regstack[k].b = c
    BY <1>4 DEF IInv, Sweeping
  <1>6. c # b
    <2>1. k \in 1 .. k
      BY <1>3
    <2>. HIDE DEF k
    <2>2. regstack[k].b > b
      BY <1>3, <2>1, CallersOlder
    <2>. QED BY <1>3, <1>5, <2>2
  <1>7. PICK t : /\ Viewed(AsChoices, word, tr, b, trailbase, t, {})
                 /\ CallsShow(AsCalls, t, regstack, k)
    BY <1>1 DEF Seeing, SeenRun, Seen, Running
  <1>8. PICK u : /\ Viewed(AsChoices', word', tr', b', trailbase', u, Kept')
                 /\ CallsShow(AsCalls', u, regstack, k - 1)
    <2>1. Waiting' = k - 1
      BY <1>4 DEF Waiting
    <2>. HIDE DEF k
    <2>. QED BY <1>4, <2>1 DEF Seeing, SeenSweep, Seen
  <1>9. /\ Len(u) \in 1 .. Len(t) - 1 /\ t[Len(u)] = c /\ \A i \in 1 .. Len(u) : u[i] = t[i]
        /\ Stack!KeepsFirst(AsChoices, AsChoices', Len(u)) /\ Sound(AsChoices')
    BY <1>1, <1>2, <1>6, <1>7, <1>8, SweepSeen
  <1>10. /\ Len(u) \in 1 .. Len(t) /\ u[Len(u)] = c
    <2>1. Len(t) \in Nat
      BY <1>7, ViewFacts
    <2>2. Len(u) \in 1 .. Len(u)
      BY <1>8, ViewFacts
    <2>. QED BY <1>9, <2>1, <2>2
  <1>11. Descends(t, ChoicesOf(word, b, trailbase))
    BY <1>7 DEF Viewed
  <1>12. AsCalls # << >> /\ Last(AsCalls) = Len(u) /\ AsCalls' = Front(AsCalls)
    <2>1. k > 0 /\ u[Len(u)] = regstack[k].b
      BY <1>3, <1>5, <1>10
    <2>. HIDE DEF k
    <2>. QED BY <1>7, <1>8, <1>9, <1>10, <1>11, <2>1, FrontCalls
  <1>. QED BY <1>4, <1>9, <1>12, ReturnAnswers

(* What was trailed between two choice points is what matters to the       *)
(* older one, all of it.                                                   *)
LEMMA BetweenKept ==
  ASSUME NEW ch, NEW w, NEW l, NEW n, NEW top, NEW t, Viewed(ch, w, l, n, top, t, {}), Sound(ch),
         n # top - 4, NEW q, q = w[n + 3]
  PROVE  \A x \in n + 4 .. q - 1 : /\ \A z \in x .. x + 3 : w[z] <= z
                                   /\ w[x] < w[q + 1] /\ w[x] >= w[q + 2]
  <1>. DEFINE i == Len(t) - 1
  <1>1. i \in 1 .. Len(t) /\ t[i] = q
    BY NextOldest
  <1>2. Len(t) \in Nat /\ t[Len(t)] = n /\ i + 1 = Len(t) /\ i # Len(t)
    BY ViewFacts
  <1>. HIDE DEF i
  <1>3. ch[i].hb = w[q + 1] /\ ch[i].spb = w[q + 2] /\ ch[i].trail = Shown(w, t, l, i)
    BY <1>1, <1>2 DEF Viewed, Shows
  <1>4. Shown(w, t, l, i) = {w[x] : x \in n + 4 .. q - 1}
    BY <1>1, <1>2 DEF Shown
  <1>5. Bottom(t, l, i) = n + 4
    BY <1>2 DEF Bottom
  <1>6. i \in 1 .. Len(ch)
    BY <1>1, ViewFacts
  <1>. SUFFICES ASSUME NEW x \in n + 4 .. q - 1
                PROVE  /\ \A z \in x .. x + 3 : w[z] <= z
                       /\ w[x] < w[q + 1] /\ w[x] >= w[q + 2]
    OBVIOUS
  <1>7. x \in Bottom(t, l, i) .. t[i] - 1
    BY <1>1, <1>5
  <1>8. \A z \in x .. x + 3 : w[z] <= z
    BY <1>1, <1>7, EntryIs
  <1>9. w[x] \in ch[i].trail
    BY <1>3, <1>4
  <1>10. ch[i].spb <= w[x] /\ w[x] < ch[i].hb
    BY <1>6, <1>9 DEF Sound
  <1>11. w[x] \in Int /\ ch[i].spb \in Int
    <2>1. ch[i] \in Choice
      BY <1>1, ViewFacts
    <2>. QED BY <1>9, <2>1 DEF Choice
  <1>. QED BY <1>3, <1>8, <1>10, <1>11

LEMMA FailAnswers ==
  ASSUME IInv, IInv', Seeing, Seeing', Sound(AsChoices), Fail
  PROVE  Answers
  <1>. DEFINE q == word[b + 3]
              k == Len(regstack)
  <1>1. /\ Running /\ IsCallBase /\ PopChoice
        /\ end' = b + 4 /\ tr' = q /\ at' = q - 1 /\ pc' = "return"
        /\ UNCHANGED <<gvars, regstack>>
    BY DEF Fail, PrevB
  <1>2. /\ b \in Int /\ trailbase \in Int /\ trailbase <= GVBase /\ GVBase \in Int
        /\ Bases = ChoicesOf(word, b, trailbase)
        /\ \A c \in Bases : c \in b .. trailbase - 4
        /\ k \in Nat /\ k \in Int /\ regstack \in Seq(Caller)
    BY <1>1, RunFacts
  <1>3. /\ q \in Bases /\ q \in Int /\ b + 4 <= q /\ b # trailbase - 4
        /\ b' = q /\ hb' = word[q + 1] /\ spb' = word[q + 2]
        /\ \A x \in b + 4 .. GVBase - 1 : word'[x] = word[x]
    BY <1>1, PopLeaves
  <1>4. q <= trailbase - 4
    BY <1>2, <1>3
  <1>5. k > 0 /\ q = regstack[k].b /\ regstack' = regstack /\ trailbase' = trailbase
        /\ allocated' = allocated
    <2>1. regstack # << >> /\ q = regstack[k].b
      BY <1>1 DEF IsCallBase, PrevB
    <2>. QED BY <1>1, <1>2, <2>1 DEF gvars
  <1>6. PICK t : /\ Viewed(AsChoices, word, tr, b, trailbase, t, {})
                 /\ CallsShow(AsCalls, t, regstack, k)
    BY <1>1 DEF Seeing, SeenRun, Seen, Running
  <1>7. PICK u : /\ Viewed(AsChoices', word', q, q, trailbase, u, Kept')
                 /\ CallsShow(AsCalls', u, regstack, k - 1)
    <2>1. Waiting' = k - 1
      BY <1>1, <1>5 DEF Waiting
    <2>. HIDE DEF k, q
    <2>. QED BY <1>1, <1>3, <1>5, <2>1 DEF Seeing, SeenSweep, Seen
  <1>8. q = word[b + 3]
    OBVIOUS
  <1>. HIDE DEF q, k
  <1>9. \A x \in b + 4 .. q - 1 : /\ \A z \in x .. x + 3 : word[z] <= z
                                  /\ word[x] < word[q + 1] /\ word[x] >= word[q + 2]
    BY <1>3, <1>6, <1>8, BetweenKept
  <1>10. \A x \in b + 4 .. trailbase - 1 : word'[x] = word[x]
    BY <1>2, <1>3
  <1>11. Kept' = {word[x] : x \in b + 4 .. q - 1}
    <2>1. Kept' = {r \in PendingIn(word', b + 4, q - 1) : r < word[q + 1] /\ r >= word[q + 2]}
      BY <1>1, <1>3 DEF Kept, Pending, PendingIn
    <2>2. \A x \in b + 4 .. q - 1 : /\ x \in b + 4 .. trailbase - 1
                                    /\ \A z \in x .. x + 3 : z \in b + 4 .. trailbase - 1
      BY <1>2, <1>3, <1>4
    <2>3. \A x \in b + 4 .. q - 1 : /\ word'[x] = word[x]
                                    /\ \A z \in x .. x + 3 : word'[z] <= z
      BY <1>9, <1>10, <2>2
    <2>4. {y \in b + 4 .. q - 1 : \A z \in y .. y + 3 : word'[z] <= z} = b + 4 .. q - 1
      BY <2>3
    <2>5. PendingIn(word', b + 4, q - 1) = {word'[x] : x \in b + 4 .. q - 1}
      BY <2>4 DEF PendingIn
    <2>6. {word'[x] : x \in b + 4 .. q - 1} = {word[x] : x \in b + 4 .. q - 1}
      BY <2>3
    <2>. QED BY <1>9, <2>1, <2>5, <2>6
  <1>12. /\ Len(u) = Len(t) - 1 /\ Len(t) > 1 /\ \A i \in 1 .. Len(u) : u[i] = t[i]
         /\ AsChoices' = Front(AsChoices) /\ Sound(AsChoices')
    <2>. DEFINE p == Kept'
                v == word'
                new == AsChoices'
    <2>1. \A x \in q .. trailbase - 1 : v[x] = word[x]
      BY <1>2, <1>3, <1>10
    <2>2. Values(v, q, q - 1) \cup p = Values(word, b + 4, q - 1)
      <3>1. q .. q - 1 = {}
        BY <1>3
      <3>. QED BY <1>11, <3>1 DEF Values
    <2>3. Viewed(new, v, q, q, trailbase, u, p)
      BY <1>7
    <2>4. Uncovers(word, b, trailbase, q, v, q, p)
      BY <1>3, <1>8, <2>1, <2>2 DEF Uncovers
    <2>. HIDE DEF p, v, new
    <2>5. /\ Len(u) = Len(t) - 1 /\ Len(t) > 1 /\ \A i \in 1 .. Len(u) : u[i] = t[i]
          /\ new = Front(AsChoices) /\ Sound(new)
      BY <1>6, <2>3, <2>4, FrontView
    <2>. QED BY <2>5 DEF new
  <1>13. /\ Len(t) \in Nat /\ Len(u) \in 1 .. Len(t) /\ Len(AsChoices) = Len(t)
         /\ u[Len(u)] = q
    <2>1. Len(t) \in Nat /\ Len(AsChoices) = Len(t)
      BY <1>6, ViewFacts
    <2>2. Len(u) \in 1 .. Len(u) /\ u[Len(u)] = q
      BY <1>7, ViewFacts
    <2>. QED BY <1>12, <2>1, <2>2
  <1>14. Descends(t, ChoicesOf(word, b, trailbase))
    BY <1>6 DEF Viewed
  <1>15. /\ AsCalls # << >> /\ Last(AsCalls) = Len(u) /\ FloorOf(AsCalls) = Len(u) + 1
         /\ AsCalls' = Front(AsCalls)
    BY <1>5, <1>6, <1>7, <1>12, <1>13, <1>14, FrontCalls
  <1>16. Len(AsChoices) = FloorOf(AsCalls)
    BY <1>12, <1>13, <1>15
  <1>. QED BY <1>5, <1>12, <1>15, <1>16, ReturnAnswers

(* Nothing changes for the callers. *)
LEMMA CallsStay ==
  ASSUME NEW w, NEW l, NEW n, NEW top, NEW t, NEW ch, NEW p, Viewed(ch, w, l, n, top, t, p),
         NEW regs, NEW k, NEW cl, CallsShow(cl, t, regs, k),
         NEW calls, NEW new, CallsShow(new, t, calls, k), \A i \in 1 .. k : calls[i].b = regs[i].b
  PROVE  new = cl
  <1>1. Descends(t, ChoicesOf(w, n, top))
    BY DEF Viewed
  <1>. QED BY <1>1, SameCalls

(* What SweepEntry takes from what is pending it adds to the trail, if     *)
(* RETRAIL keeps it.                                                       *)
LEMMA EntryMoves ==
  ASSUME NEW w, NEW v, NEW from \in Int, NEW a \in Int, NEW l \in Int, NEW n \in Int, NEW m,
         NEW h \in Int, NEW s \in Int, Low <= from, from <= a, a < l, l <= n,
         Plain(w[a]), \A z \in a + 1 .. a + 3 : w[z] <= z,
         \/ w[a] < h /\ w[a] >= s /\ m = l - 1 /\ v[l - 1] = w[a]
         \/ ~ (w[a] < h /\ w[a] >= s) /\ m = l,
         \A z \in from .. n - 1 : z # l - 1 => v[z] = w[z],
         \A z \in n .. n + 3 : v[z] = w[z],
         m = l => v[l - 1] = w[l - 1],
         NEW p, p = KeptIn(w, from, a, h, s),
         NEW q, q = KeptIn(v, from, a - 1, h, s)
  PROVE  Values(v, m, n - 1) \cup q = Values(w, l, n - 1) \cup p
  <1>1. Low \in Int /\ w[a] \in Int /\ w[a] <= Low /\ m \in Int
    BY AreaAssumption DEF Plain
  <1>2. \A z \in a .. a + 3 : w[z] <= z
    <2>1. w[a] <= a
      BY <1>1
    <2>2. \A z \in a .. a + 3 : z = a \/ z \in a + 1 .. a + 3
      OBVIOUS
    <2>. QED BY <2>1, <2>2
  <1>3. \A z \in from .. a + 2 : v[z] <= z <=> w[z] <= z
    <2>. SUFFICES ASSUME NEW z \in from .. a + 2 PROVE v[z] <= z <=> w[z] <= z
      OBVIOUS
    <2>1. CASE v[z] = w[z]
      BY <2>1
    <2>2. CASE v[z] # w[z]
      <3>1. z = l - 1 /\ v[z] = w[a]
        <4>1. z \in from .. n - 1 \/ z \in n .. n + 3
          OBVIOUS
        <4>2. z = l - 1
          BY <2>2, <4>1
        <4>. QED BY <2>2, <4>2
      <3>2. z \in a .. a + 3 /\ w[a] <= z
        BY <1>1, <3>1
      <3>. QED BY <1>2, <3>1, <3>2
    <2>. QED BY <2>1, <2>2
  <1>. DEFINE P == {y \in from .. a : \A z \in y .. y + 3 : w[z] <= z}
              Q == {y \in from .. a - 1 : \A z \in y .. y + 3 : v[z] <= z}
  <1>4. P = Q \cup {a} /\ a \notin Q
    <2>1. a \in P
      BY <1>2
    <2>2. \A y \in from .. a - 1 : y \in P <=> y \in Q
      <3>. SUFFICES ASSUME NEW y \in from .. a - 1 PROVE y \in P <=> y \in Q
        OBVIOUS
      <3>1. y \in from .. a /\ \A z \in y .. y + 3 : z \in from .. a + 2
        OBVIOUS
      <3>. QED BY <1>3, <3>1
    <2>3. \A y \in from .. a : y = a \/ y \in from .. a - 1
      OBVIOUS
    <2>4. a \notin from .. a - 1 /\ Q \subseteq from .. a - 1 /\ P \subseteq from .. a
      OBVIOUS
    <2>. HIDE DEF P, Q
    <2>. QED BY <2>1, <2>2, <2>3, <2>4
  <1>5. \A y \in Q : v[y] = w[y]
    <2>1. \A y \in from .. a - 1 : y \in from .. n - 1 /\ y # l - 1
      OBVIOUS
    <2>. QED BY <2>1
  <1>6. p = {r \in {w[y] : y \in P} : r < h /\ r >= s} /\ q = {r \in {v[y] : y \in Q} : r < h /\ r >= s}
    BY DEF PendingIn, KeptIn
  <1>. HIDE DEF P, Q
  <1>7. \A r : r \in p <=> r \in q \/ (r = w[a] /\ r < h /\ r >= s)
    BY <1>4, <1>5, <1>6
  <1>8. \A x \in l .. n - 1 : v[x] = w[x]
    <2>1. \A x \in l .. n - 1 : x \in from .. n - 1 /\ x # l - 1
      OBVIOUS
    <2>. QED BY <2>1
  <1>. DEFINE V == {v[x] : x \in m .. n - 1}
              W == {w[x] : x \in l .. n - 1}
  <1>9. CASE w[a] < h /\ w[a] >= s
    <2>1. m = l - 1 /\ v[l - 1] = w[a]
      BY <1>9
    <2>2. \A x : x \in m .. n - 1 <=> x = l - 1 \/ x \in l .. n - 1
      BY <2>1
    <2>3. V = W \cup {w[a]}
      BY <1>8, <2>1, <2>2
    <2>. HIDE DEF V, W, Values
    <2>4. \A r : r \in p <=> r \in q \/ r = w[a]
      BY <1>7, <1>9
    <2>5. V \cup q = W \cup p
      BY <2>3, <2>4
    <2>. QED BY <2>5 DEF V, W, Values
  <1>10. CASE ~ (w[a] < h /\ w[a] >= s)
    <2>1. m = l
      BY <1>10
    <2>2. V = W
      BY <1>8, <2>1
    <2>. HIDE DEF V, W, Values
    <2>3. p = q
      BY <1>7, <1>10
    <2>4. V \cup q = W \cup p
      BY <2>2, <2>3
    <2>. QED BY <2>4 DEF V, W, Values
  <1>. QED BY <1>9, <1>10

LEMMA SweepAnswers ==
  ASSUME IInv, Spacing, Seeing, Seeing', Sound(AsChoices), Sweep
  PROVE  Answers
  <1>. DEFINE k == IF pc = "return" THEN Len(regstack) - 1 ELSE Len(regstack)
  <1>1. /\ pc \in {"cut", "return"} /\ at >= end /\ (SweepChoice \/ SweepEntry)
        /\ UNCHANGED <<choiceRegs, gvars, regstack, pc, end>>
    BY DEF Sweep
  <1>2. /\ Sweeping /\ \A x \in end .. GVBase - 1 : word[x] \in 0 .. GVBase - 1
        /\ tr \in Int /\ tr <= b /\ b \in Int /\ b <= trailbase - 4 /\ Low <= tr
        /\ trailbase \in Int /\ trailbase <= GVBase /\ Low \in Int /\ GVBase \in Int
        /\ at \in Int /\ end \in Int /\ end <= at + 1 /\ at < tr /\ 0 <= Low /\ Low <= end
    BY <1>1, SweepFacts
  <1>3. /\ b' = b /\ hb' = hb /\ spb' = spb /\ trailbase' = trailbase /\ allocated' = allocated
        /\ regstack' = regstack /\ pc' = pc /\ end' = end /\ Waiting' = Waiting
    BY <1>1 DEF choiceRegs, gvars, Waiting
  <1>4. PICK t : /\ Viewed(AsChoices, word, tr, b, trailbase, t, Kept)
                 /\ CallsShow(AsCalls, t, regstack, Waiting)
    BY <1>1 DEF Seeing, SeenSweep, Seen
  <1>5. PICK u : /\ Viewed(AsChoices', word', tr', b, trailbase, u, Kept')
                 /\ CallsShow(AsCalls', u, regstack, Waiting)
    BY <1>1, <1>3 DEF Seeing, SeenSweep, Seen
  <1>6. hb \in Int /\ spb \in Int
    BY AreaAssumption DEF IInv, TypeOK, HeapTop, StackTop
  <1>7. /\ Kept = KeptIn(word, end, at, hb, spb)
        /\ Kept' = KeptIn(word', end, at', hb, spb)
    BY <1>1, <1>3 DEF Kept, Pending, PendingIn, KeptIn
  <1>8. /\ \A x \in b .. trailbase - 1 : word'[x] = word[x]
        /\ Values(word', tr', b - 1) \cup Kept' = Values(word, tr, b - 1) \cup Kept
    <2>1. CASE SweepChoice
      <3>1. word[at] > at /\ at' = at - 4 /\ word' = word /\ tr' = tr
        BY <2>1 DEF SweepChoice
      <3>. DEFINE P(z) == {y \in end .. z : \A x \in y .. y + 3 : word[x] <= x}
      <3>2. \A y \in at - 3 .. at : at \in y .. y + 3
        BY <1>2
      <3>3. ~ (word[at] <= at)
        <4>1. at \in end .. GVBase - 1
          BY <1>1, <1>2
        <4>2. word[at] \in Int
          BY <1>2, <4>1
        <4>. QED BY <1>2, <3>1, <4>2
      <3>4. \A y \in end .. at : y \in end .. at - 4 \/ y \in at - 3 .. at
        BY <1>2
      <3>5. \A y \in end .. at - 4 : y \in end .. at
        BY <1>2
      <3>6. P(at) = P(at - 4)
        BY <3>2, <3>3, <3>4, <3>5
      <3>7. PendingIn(word', end, at') = PendingIn(word, end, at)
        BY <3>1, <3>6 DEF PendingIn
      <3>8. Kept' = Kept
        BY <1>7, <3>7 DEF KeptIn
      <3>. QED BY <3>1, <3>8
    <2>2. CASE SweepEntry
      <3>1. word[at] <= at /\ at' = at - 1
        BY <2>2 DEF SweepEntry
      <3>2. Plain(word[at]) /\ at \in end .. at
        <4>1. at \in end .. at /\ word[at] \in Int
          <5>1. at \in end .. at /\ at \in end .. GVBase - 1
            BY <1>1, <1>2
          <5>. QED BY <1>2, <5>1
        <4>. QED BY <1>2, <3>1, <4>1 DEF Sweeping
      <3>3. /\ \/ /\ word[at] < hb /\ word[at] >= spb /\ tr' = tr - 1 /\ word'[tr - 1] = word[at]
               \/ /\ ~ (word[at] < hb /\ word[at] >= spb) /\ tr' = tr /\ word' = word
            /\ \A x \in end .. GVBase - 1 : x # tr - 1 => word'[x] = word[x]
        <4>1. DOMAIN word = end .. GVBase - 1 /\ tr - 1 \in DOMAIN word
          BY <1>1, <1>2 DEF Sweeping
        <4>2. CASE word[at] < hb /\ word[at] >= spb
          <5>1. tr' = tr - 1 /\ word' = [word EXCEPT ![tr - 1] = word[at]]
            BY <2>2, <4>2 DEF SweepEntry
          <5>. QED BY <4>1, <4>2, <5>1
        <4>3. CASE ~ (word[at] < hb /\ word[at] >= spb)
          BY <2>2, <4>3 DEF SweepEntry
        <4>. QED BY <4>2, <4>3
      <3>4. /\ \A z \in end .. b - 1 : z # tr - 1 => word'[z] = word[z]
            /\ \A z \in b .. trailbase - 1 : word'[z] = word[z]
            /\ \A z \in b .. b + 3 : word'[z] = word[z]
            /\ tr' = tr => word'[tr - 1] = word[tr - 1]
        <4>1. /\ \A z \in end .. b - 1 : z \in end .. GVBase - 1
              /\ \A z \in b .. trailbase - 1 : z \in end .. GVBase - 1 /\ z # tr - 1
              /\ \A z \in b .. b + 3 : z \in b .. trailbase - 1
          BY <1>2
        <4>2. tr' = tr => word' = word
          BY <1>2, <3>3
        <4>. QED BY <3>3, <4>1, <4>2
      <3>5. \A z \in at + 1 .. at + 3 : word[z] <= z
        BY <1>1 DEF Spacing, Spaced
      <3>. DEFINE q == Kept'
                  l == tr'
                  v == word'
      <3>6. q = KeptIn(v, end, at - 1, hb, spb)
        BY <1>7, <3>1
      <3>7. \/ word[at] < hb /\ word[at] >= spb /\ l = tr - 1 /\ v[tr - 1] = word[at]
            \/ ~ (word[at] < hb /\ word[at] >= spb) /\ l = tr
        BY <3>3
      <3>8. /\ \A z \in end .. b - 1 : z # tr - 1 => v[z] = word[z]
            /\ \A z \in b .. b + 3 : v[z] = word[z]
            /\ l = tr => v[tr - 1] = word[tr - 1]
        BY <3>4
      <3>9. Values(v, l, b - 1) \cup q = Values(word, tr, b - 1) \cup Kept
        <4>. HIDE DEF q, l, v
        <4>. QED BY <1>1, <1>2, <1>6, <1>7, <3>2, <3>5, <3>6, <3>7, <3>8, EntryMoves
      <3>. QED BY <3>4, <3>9
    <2>. QED BY <1>1, <2>1, <2>2
  <1>9. u = t /\ AsChoices' = AsChoices
    <2>. DEFINE q == Kept'
                l == tr'
                v == word'
                new == AsChoices'
    <2>1. /\ Viewed(new, v, l, b, trailbase, u, q) /\ \A x \in b .. trailbase - 1 : v[x] = word[x]
          /\ Values(v, l, b - 1) \cup q = Values(word, tr, b - 1) \cup Kept
      BY <1>5, <1>8
    <2>. HIDE DEF q, l, v, new
    <2>2. u = t /\ new = AsChoices
      BY <1>4, <2>1, SameView
    <2>. QED BY <2>2 DEF new
  <1>10. AsCalls' = AsCalls
    BY <1>4, <1>5, <1>9, CallsStay
  <1>. QED BY <1>3, <1>9, <1>10, StutterAnswers

LEMMA SweepDoneAnswers ==
  ASSUME IInv, Seeing, Seeing', Sound(AsChoices), SweepDone
  PROVE  Answers
  <1>. DEFINE k == IF pc = "return" THEN Len(regstack) - 1 ELSE Len(regstack)
  <1>1. /\ pc \in {"cut", "return"} /\ at < end /\ word' = Drop(tr) /\ pc' = "run"
        /\ UNCHANGED <<tr, b, hb, gvars>>
    BY DEF SweepDone
  <1>2. /\ tr \in Int /\ tr <= b /\ b \in Int /\ b <= trailbase - 4
        /\ trailbase \in Int /\ trailbase <= GVBase /\ GVBase \in Int
        /\ at \in Int /\ end \in Int /\ k \in Int
        /\ regstack \in Seq(Caller) /\ Sweeping
    BY <1>1, SweepFacts
  <1>3. Len(regstack') = k /\ \A i \in 1 .. k : regstack'[i] = regstack[i]
    <2>1. CASE pc = "return"
      <3>1. regstack # << >> /\ regstack' = Front(regstack)
        BY <1>2, <2>1 DEF SweepDone, Sweeping
      <3>2. regstack' = SubSeq(regstack, 1, k) /\ k = Len(regstack) - 1
        BY <2>1, <3>1 DEF Front
      <3>3. Len(regstack) \in Nat /\ Len(regstack) # 0
        BY <1>2, <3>1
      <3>. QED BY <1>2, <3>2, <3>3
    <2>2. CASE pc # "return"
      <3>1. regstack' = regstack
        BY <2>2 DEF SweepDone
      <3>. QED BY <2>2, <3>1
    <2>. QED BY <2>1, <2>2
  <1>4. Waiting = k
    BY DEF Waiting
  <1>. HIDE DEF k
  <1>5. Kept = {}
    <2>1. end .. at = {}
      BY <1>1, <1>2
    <2>. QED BY <2>1 DEF Kept, Pending
  <1>6. PICK t : /\ Viewed(AsChoices, word, tr, b, trailbase, t, {})
                 /\ CallsShow(AsCalls, t, regstack, k)
    BY <1>1, <1>4, <1>5 DEF Seeing, SeenSweep, Seen
  <1>7. PICK u : /\ Viewed(AsChoices', word', tr, b, trailbase, u, {})
                 /\ CallsShow(AsCalls', u, regstack', k)
    BY <1>1, <1>3 DEF Seeing, SeenRun, Seen, gvars
  <1>8. u = t /\ AsChoices' = AsChoices
    <2>. DEFINE v == word'
                new == AsChoices'
    <2>1. \A x \in tr .. trailbase - 1 : v[x] = word[x]
      <3>1. \A x \in tr .. trailbase - 1 : x \in tr .. GVBase - 1
        BY <1>2
      <3>. QED BY <1>1, <3>1 DEF Drop
    <2>2. /\ \A x \in b .. trailbase - 1 : v[x] = word[x]
          /\ \A x \in tr .. b - 1 : v[x] = word[x]
      BY <1>2, <2>1
    <2>3. Viewed(new, v, tr, b, trailbase, u, {})
      BY <1>7
    <2>. HIDE DEF v, new
    <2>4. Values(v, tr, b - 1) \cup {} = Values(word, tr, b - 1) \cup {}
      BY <2>2 DEF Values
    <2>5. u = t /\ new = AsChoices
      BY <1>6, <2>2, <2>3, <2>4, SameView
    <2>. QED BY <2>5 DEF new
  <1>9. AsCalls' = AsCalls
    <2>1. \A i \in 1 .. k : regstack'[i].b = regstack[i].b
      BY <1>3
    <2>. QED BY <1>6, <1>7, <1>8, <2>1, CallsStay
  <1>10. allocated' = allocated
    BY <1>1 DEF gvars
  <1>. QED BY <1>8, <1>9, <1>10, StutterAnswers

(***************************************************************************)
(* Every sweep begins with whole choice points ahead and goes on so.       *)
(***************************************************************************)
LEMMA BeginSpaced ==
  ASSUME IInv, Running, NEW c \in Bases, NEW where, SweepFrom(c, where), word' = word
  PROVE  Spaced'
  <1>1. /\ tr \in Int /\ Low <= tr /\ tr <= b /\ b \in Int /\ trailbase \in Int
        /\ Bases = ChoicesOf(word, b, trailbase) /\ c \in b .. trailbase - 4
        /\ ChainOf(word, b, trailbase)
        /\ Holds(word, tr, b, trailbase, hb, spb, regstack, Len(regstack))
    BY RunFacts
  <1>2. end' = tr /\ at' = c - 1
    BY DEF SweepFrom
  <1>3. /\ \A z \in c .. c + 2 : word[z] <= z
        /\ \A x, z \in tr .. trailbase - 1 : x < z /\ word[x] > x /\ word[z] > z => x + 4 <= z
    <2>1. \A x \in tr .. b - 1 : Plain(word[x])
      BY <1>1 DEF Holds
    <2>. QED BY <1>1, <2>1, LinksApart
  <1>4. /\ \A z \in at' + 1 .. at' + 3 : z \in c .. c + 2
        /\ \A x \in end' .. at' : x \in tr .. trailbase - 1
    BY <1>1, <1>2
  <1>. QED BY <1>3, <1>4 DEF Spaced

LEMMA FailSpaced ==
  ASSUME IInv, Fail
  PROVE  Spaced'
  <1>. DEFINE q == word[b + 3]
  <1>1. Running /\ PopChoice /\ end' = b + 4 /\ at' = q - 1
    BY DEF Fail, PrevB
  <1>2. /\ tr \in Int /\ Low <= tr /\ tr <= b /\ b \in Int
        /\ trailbase \in Int /\ trailbase <= GVBase /\ Low \in Int /\ GVBase \in Int
        /\ Bases = ChoicesOf(word, b, trailbase)
        /\ \A c \in Bases : c \in b .. trailbase - 4
        /\ ChainOf(word, b, trailbase)
    BY <1>1, RunFacts
  <1>3. /\ q \in Bases /\ q \in Int /\ b + 4 <= q
        /\ \A x \in b + 4 .. GVBase - 1 : word'[x] = word[x]
    BY <1>1, PopLeaves
  <1>4. q <= trailbase - 4
    BY <1>2, <1>3
  <1>. HIDE DEF q
  <1>5. /\ \A z \in q .. q + 2 : word[z] <= z
        /\ \A x, z \in b .. trailbase - 1 : x < z /\ word[x] > x /\ word[z] > z => x + 4 <= z
    <2>1. /\ \A x \in b .. b - 1 : Plain(word[x])
          /\ Low <= b /\ b <= b
      BY <1>2
    <2>. QED BY <1>2, <1>3, <2>1, LinksApart
  <1>6. /\ \A z \in at' + 1 .. at' + 3 : z \in q .. q + 2 /\ z \in b + 4 .. GVBase - 1
        /\ \A x \in end' .. at' : x \in b .. trailbase - 1 /\ x \in b + 4 .. GVBase - 1
    BY <1>1, <1>2, <1>3, <1>4
  <1>. QED BY <1>3, <1>5, <1>6 DEF Spaced

LEMMA SweepSpaced ==
  ASSUME IInv, Spacing, Sweep
  PROVE  Spaced'
  <1>1. /\ pc \in {"cut", "return"} /\ at >= end /\ (SweepChoice \/ SweepEntry) /\ end' = end
    BY DEF Sweep
  <1>. DEFINE k == IF pc = "return" THEN Len(regstack) - 1 ELSE Len(regstack)
  <1>2. /\ Sweeping /\ \A x \in end .. GVBase - 1 : word[x] \in 0 .. GVBase - 1
        /\ tr \in Int /\ tr <= b /\ b \in Int /\ b <= trailbase - 4
        /\ trailbase \in Int /\ trailbase <= GVBase /\ Low \in Int /\ GVBase \in Int
        /\ at \in Int /\ end \in Int /\ at < tr /\ Low <= end
    BY <1>1, SweepFacts
  <1>3. Spaced
    BY <1>1 DEF Spacing
  <1>4. /\ \A z \in at + 1 .. at + 3 : word[z] <= z
        /\ \A x, z \in end .. at : x < z /\ word[x] > x /\ word[z] > z => x + 4 <= z
    BY <1>3 DEF Spaced
  <1>5. \A x \in end .. GVBase - 1 : word[x] \in Int
    BY <1>2
  <1>6. at \in end .. at /\ at \in end .. GVBase - 1
    BY <1>1, <1>2
  <1>7. CASE SweepChoice
    <2>1. word[at] > at /\ at' = at - 4 /\ word' = word
      BY <1>7 DEF SweepChoice
    <2>2. at - 3 >= end
      <3>1. ~ Plain(word[at])
        <4>1. word[at] \in Int
          BY <1>5, <1>6
        <4>. QED BY <1>1, <1>2, <2>1, <4>1 DEF Plain
      <3>. QED BY <1>2, <1>6, <3>1 DEF Sweeping
    <2>3. ASSUME NEW z \in at - 3 .. at - 1 PROVE word[z] <= z
      <3>1. z \in end .. at /\ z < at /\ ~ (z + 4 <= at) /\ z \in end .. GVBase - 1 /\ z \in Int
        BY <1>2, <2>2
      <3>2. ~ (word[z] > z)
        BY <1>4, <1>6, <2>1, <3>1
      <3>3. word[z] \in Int
        BY <1>5, <3>1
      <3>. QED BY <3>1, <3>2, <3>3
    <2>4. \A x \in end .. at - 4 : x \in end .. at
      BY <1>2
    <2>5. at - 4 + 1 = at - 3 /\ at - 4 + 3 = at - 1
      BY <1>2
    <2>. QED BY <1>1, <1>4, <2>1, <2>3, <2>4, <2>5 DEF Spaced
  <1>8. CASE SweepEntry
    <2>1. word[at] <= at /\ at' = at - 1
      BY <1>8 DEF SweepEntry
    <2>2. Plain(word[at])
      <3>1. word[at] \in Int
        BY <1>5, <1>6
      <3>. QED BY <1>2, <1>6, <2>1, <3>1 DEF Sweeping
    <2>3. \A x \in end .. GVBase - 1 : word'[x] = word[x] \/ (x = tr - 1 /\ word'[x] = word[at])
      <3>1. DOMAIN word = end .. GVBase - 1 /\ tr - 1 \in DOMAIN word
        BY <1>1, <1>2 DEF Sweeping
      <3>2. word' = [word EXCEPT ![tr - 1] = word[at]] \/ word' = word
        BY <1>8 DEF SweepEntry
      <3>. QED BY <3>1, <3>2
    <2>4. ASSUME NEW z \in at .. at + 2 PROVE word'[z] <= z
      <3>1. z \in end .. GVBase - 1 /\ (z = at \/ z \in at + 1 .. at + 3) /\ z \in Int /\ end <= z
        BY <1>1, <1>2
      <3>2. word[z] <= z
        BY <1>4, <2>1, <3>1
      <3>3. word[at] <= z
        <4>1. word[at] \in Int /\ word[at] <= Low
          BY <1>2, <2>2 DEF Plain
        <4>. QED BY <1>2, <3>1, <4>1
      <3>. QED BY <2>3, <3>1, <3>2, <3>3
    <2>5. \A x \in end .. at - 1 : word'[x] = word[x] /\ x \in end .. at
      <3>1. \A x \in end .. at - 1 : x \in end .. GVBase - 1 /\ x # tr - 1 /\ x \in end .. at
        BY <1>2
      <3>. QED BY <2>3, <3>1
    <2>6. at - 1 + 1 = at /\ at - 1 + 3 = at + 2
      BY <1>2
    <2>. QED BY <1>1, <1>4, <2>1, <2>4, <2>5, <2>6 DEF Spaced
  <1>. QED BY <1>1, <1>7, <1>8
------------------------------------------------------------------------------
(***************************************************************************)
(* Step by step: global variables                                          *)
(***************************************************************************)

(* Those that protect what lies at p are the newest ones. *)
LEMMA SplitsAt ==
  ASSUME NEW w, NEW S, NEW t, Descends(t, S), NEW p
  PROVE  \E k \in 0 .. Len(t) :
           \A j \in 1 .. Len(t) : (\A d \in S : d <= t[j] => w[d + 1] > p) <=> j > k
  <1>. DEFINE Up(i) == \A j \in 1 .. Len(t) : j > i => w[t[j] + 1] > p
              P == {i \in 0 .. Len(t) : Up(i)}
  <1>1. /\ Len(t) \in Nat
        /\ \A j \in 1 .. Len(t) : t[j] \in S /\ t[j] \in Int /\ j \in Int /\ 1 <= j /\ j <= Len(t)
        /\ \A d \in S : \E j \in 1 .. Len(t) : t[j] = d
    BY DEF Descends
  <1>2. Len(t) \in P
    BY <1>1
  <1>3. P \subseteq 0 .. Len(t) /\ P # {}
    BY <1>2
  <1>4. PICK k \in P : \A i \in P : k <= i
    <2>. HIDE DEF P
    <2>. QED BY <1>1, <1>3, LeastOf
  <1>5. k \in 0 .. Len(t) /\ k \in Int /\ Up(k)
    BY <1>1, <1>4
  <1>6. \A i \in 0 .. Len(t) : Up(i) => k <= i
    BY <1>4
  <1>. HIDE DEF P
  <1>7. ASSUME NEW j, j \in 1 .. Len(t), j > k PROVE \A d \in S : d <= t[j] => w[d + 1] > p
    <2>. SUFFICES ASSUME NEW d \in S, d <= t[j] PROVE w[d + 1] > p
      OBVIOUS
    <2>1. PICK m \in 1 .. Len(t) : t[m] = d
      BY <1>1
    <2>2. ~ (m < j)
      <3>1. m < j => t[m] > t[j]
        BY <1>7, PlaceOnly
      <3>2. t[m] \in Int /\ t[j] \in Int
        BY <1>1, <1>7
      <3>. QED BY <2>1, <3>1, <3>2
    <2>3. m > k
      BY <1>1, <1>5, <1>7, <2>2
    <2>. QED BY <1>5, <2>1, <2>3
  <1>8. ASSUME NEW j, j \in 1 .. Len(t), \A d \in S : d <= t[j] => w[d + 1] > p PROVE j > k
    <2>1. Up(j - 1)
      <3>. SUFFICES ASSUME NEW m, m \in 1 .. Len(t), m > j - 1 PROVE w[t[m] + 1] > p
        OBVIOUS
      <3>1. j < m \/ j = m
        BY <1>1, <1>8
      <3>2. t[m] <= t[j]
        <4>1. (j < m => t[j] > t[m]) /\ (j = m => t[j] = t[m]) /\ t[m] \in Int /\ t[j] \in Int
          BY <1>8, PlaceOnly
        <4>. QED BY <3>1, <4>1
      <3>. QED BY <1>1, <1>8, <3>2
    <2>2. j - 1 \in 0 .. Len(t)
      BY <1>1, <1>8
    <2>. HIDE DEF Up
    <2>3. k <= j - 1
      BY <1>6, <2>1, <2>2
    <2>. QED BY <1>1, <1>5, <1>8, <2>3
  <1>. QED BY <1>5, <1>7, <1>8

(* Newer choice points protect more. *)
LEMMA NewerProtect ==
  ASSUME NEW ch, NEW w, NEW l, NEW n, NEW top, NEW t, NEW p, Viewed(ch, w, l, n, top, t, p), Sound(ch)
  PROVE  /\ \A i \in 1 .. Len(t) : w[t[i] + 1] \in Int
         /\ \A i, j \in 1 .. Len(t) : i <= j => w[t[i] + 1] <= w[t[j] + 1]
  <1>1. /\ Len(t) \in Nat /\ Len(ch) = Len(t)
        /\ \A i \in 1 .. Len(t) : ch[i] \in Choice /\ ch[i].hb = w[t[i] + 1]
    <2>1. /\ Len(t) \in Nat /\ Len(ch) = Len(t) /\ ch \in Seq(Choice)
      BY ViewFacts
    <2>2. \A i \in 1 .. Len(t) : ch[i].hb = w[t[i] + 1]
      BY DEF Viewed, Shows
    <2>. QED BY <2>1, <2>2
  <1>2. \A i \in 1 .. Len(t) : w[t[i] + 1] \in Int
    BY <1>1 DEF Choice
  <1>3. ASSUME NEW i, i \in 1 .. Len(t), NEW j, j \in 1 .. Len(t), i <= j
        PROVE  w[t[i] + 1] <= w[t[j] + 1]
    <2>1. i < j \/ i = j
      BY <1>1, <1>3
    <2>2. i < j => ch[i].hb <= ch[j].hb
      BY <1>1, <1>3 DEF Sound
    <2>. QED BY <1>1, <1>2, <1>3, <2>1, <2>2
  <1>. QED BY <1>2, <1>3

LEMMA GvSetAnswers ==
  ASSUME IInv, Seeing, Seeing', Sound(AsChoices),
         NEW newp \in HeapBase .. Low - 1, NEW h \in HeapTop, GvSet(newp, h)
  PROVE  Answers
  <1>. DEFINE protecting == {c \in Bases : \A d \in Bases : d <= c => word[d + 1] > newp}
              tops == {word[c + 1] : c \in protecting}
              hbl == IF protecting = {} THEN h
                     ELSE CHOOSE v \in tops : \A c \in protecting : v <= word[c + 1]
              raised == {c + 1 : c \in Bases \ protecting}
  <1>1. /\ Running /\ word' = [x \in DOMAIN word |-> IF x \in raised THEN hbl ELSE word[x]]
        /\ h >= hb
        /\ UNCHANGED <<tr, b, spb, gvars, regstack, loop>>
    BY DEF GvSet
  <1>2. /\ Holds(word, tr, b, trailbase, hb, spb, regstack, Len(regstack))
        /\ DOMAIN word = tr .. GVBase - 1
        /\ tr \in Int /\ Low <= tr /\ tr <= b /\ b \in Int /\ b <= trailbase - 4
        /\ trailbase \in Int /\ trailbase <= GVBase /\ Low \in Int /\ GVBase \in Int
        /\ Bases = ChoicesOf(word, b, trailbase)
        /\ hb = word[b + 1] /\ ChainOf(word, b, trailbase)
        /\ \A c \in Bases : c \in b .. trailbase - 4 /\ c \in Int
    BY <1>1, RunFacts
  <1>3. PICK t : /\ Viewed(AsChoices, word, tr, b, trailbase, t, {})
                 /\ CallsShow(AsCalls, t, regstack, Len(regstack))
    BY <1>1 DEF Seeing, SeenRun, Seen, Running
  <1>4. PICK u : /\ Viewed(AsChoices', word', tr, b, trailbase, u, {})
                 /\ CallsShow(AsCalls', u, regstack, Len(regstack))
    BY <1>1 DEF Seeing, SeenRun, Seen, Running, loop, gvars
  <1>5. Descends(t, Bases)
    BY <1>2, <1>3 DEF Viewed
  <1>6. /\ Len(t) \in Nat /\ Len(t) \in 1 .. Len(t) /\ t[Len(t)] = b
        /\ \A i \in 1 .. Len(t) : t[i] \in Bases /\ i \in Int
        /\ \A c \in Bases : \E i \in 1 .. Len(t) : t[i] = c
        /\ Len(AsChoices) = Len(t) /\ AsChoices \in Seq(Choice)
    BY <1>2, <1>3, <1>5, ViewFacts DEF Descends
  <1>7. PICK k \in 0 .. Len(t) :
          \A j \in 1 .. Len(t) : (\A d \in Bases : d <= t[j] => word[d + 1] > newp) <=> j > k
    BY <1>5, SplitsAt
  <1>8. k \in Int /\ \A j \in 1 .. Len(t) : t[j] \in protecting <=> j > k
    BY <1>6, <1>7
  <1>9. \A c \in protecting : c \in Bases
    OBVIOUS
  <1>10. \A v : v \in tops <=> \E c \in protecting : v = word[c + 1]
    OBVIOUS
  <1>11. /\ protecting = {} => hbl = h
         /\ protecting # {} => hbl = CHOOSE v \in tops : \A c \in protecting : v <= word[c + 1]
    OBVIOUS
  <1>12. \A x : x \in raised <=> \E c \in Bases : c \notin protecting /\ x = c + 1
    OBVIOUS
  <1>. HIDE DEF protecting, tops, hbl, raised
  <1>13. /\ \A i \in 1 .. Len(t) : word[t[i] + 1] \in Int
         /\ \A i, j \in 1 .. Len(t) : i <= j => word[t[i] + 1] <= word[t[j] + 1]
    BY <1>3, NewerProtect
  <1>14. ASSUME k = Len(t) PROVE hbl = h
    <2>1. protecting = {}
      <3>. SUFFICES ASSUME NEW c \in protecting PROVE FALSE
        OBVIOUS
      <3>1. PICK i \in 1 .. Len(t) : t[i] = c
        BY <1>6, <1>9
      <3>2. i > k /\ i <= Len(t) /\ i \in Int
        BY <1>6, <1>8, <3>1
      <3>. QED BY <1>6, <1>14, <3>2
    <2>. QED BY <1>11, <2>1
  <1>15. ASSUME k # Len(t) PROVE hbl = word[t[k + 1] + 1]
    <2>. DEFINE m == word[t[k + 1] + 1]
    <2>1. k + 1 \in 1 .. Len(t) /\ k + 1 > k
      BY <1>6, <1>8, <1>15
    <2>2. t[k + 1] \in protecting
      BY <1>8, <2>1
    <2>3. \A c \in protecting : m <= word[c + 1] /\ word[c + 1] \in Int
      <3>. SUFFICES ASSUME NEW c \in protecting PROVE m <= word[c + 1] /\ word[c + 1] \in Int
        OBVIOUS
      <3>1. PICK i \in 1 .. Len(t) : t[i] = c
        BY <1>6, <1>9
      <3>2. i > k /\ i \in Int
        BY <1>6, <1>8, <3>1
      <3>3. k + 1 <= i
        BY <1>8, <3>2
      <3>. QED BY <1>13, <2>1, <3>1, <3>3
    <2>4. m \in tops /\ m \in Int
      BY <1>10, <2>2, <2>3
    <2>5. hbl \in tops /\ \A c \in protecting : hbl <= word[c + 1]
      <3>1. \E v \in tops : \A c \in protecting : v <= word[c + 1]
        BY <2>3, <2>4
      <3>2. hbl = CHOOSE v \in tops : \A c \in protecting : v <= word[c + 1]
        BY <1>11, <2>2
      <3>. QED BY <3>1, <3>2
    <2>6. PICK c \in protecting : hbl = word[c + 1]
      BY <1>10, <2>5
    <2>7. hbl \in Int /\ m <= hbl /\ hbl <= m
      BY <2>2, <2>3, <2>5, <2>6
    <2>8. hbl = m
      BY <2>4, <2>7
    <2>. QED BY <2>8
  <1>16. hbl \in HeapTop /\ hbl \in Int
    <2>1. \A x \in HeapTop : x \in Int
      BY AreaAssumption DEF HeapTop
    <2>2. CASE k = Len(t)
      BY <1>14, <2>1, <2>2
    <2>3. CASE k # Len(t)
      <3>1. k + 1 \in 1 .. Len(t)
        BY <1>6, <1>8, <2>3
      <3>2. word[t[k + 1] + 1] \in HeapTop
        BY <1>2, <1>6, <3>1 DEF ChainOf
      <3>. QED BY <1>15, <2>1, <2>3, <3>2
    <2>. QED BY <2>2, <2>3
  <1>17. k > 0 => hbl >= word[t[k] + 1]
    <2>. SUFFICES ASSUME k > 0 PROVE hbl >= word[t[k] + 1]
      OBVIOUS
    <2>1. k \in 1 .. Len(t)
      BY <1>6, <1>8
    <2>2. CASE k = Len(t)
      BY <1>1, <1>2, <1>6, <1>14, <2>2
    <2>3. CASE k # Len(t)
      <3>1. k + 1 \in 1 .. Len(t) /\ k <= k + 1
        BY <1>6, <1>8, <2>3
      <3>2. word[t[k] + 1] <= word[t[k + 1] + 1] /\ word[t[k] + 1] \in Int
        BY <1>13, <2>1, <3>1
      <3>. QED BY <1>15, <1>16, <2>3, <3>2
    <2>. QED BY <2>2, <2>3
  <1>18. \A x : x \in raised <=> \E i \in 1 .. k : x = t[i] + 1
    <2>1. ASSUME NEW c \in Bases, c \notin protecting PROVE \E i \in 1 .. k : c = t[i]
      <3>1. PICK i \in 1 .. Len(t) : t[i] = c
        BY <1>6
      <3>2. ~ (i > k)
        BY <1>8, <2>1, <3>1
      <3>3. i \in 1 .. k
        BY <1>6, <1>8, <3>1, <3>2
      <3>. QED BY <3>1, <3>3
    <2>2. ASSUME NEW i, i \in 1 .. k PROVE t[i] \in Bases /\ t[i] \notin protecting
      <3>1. i \in 1 .. Len(t) /\ ~ (i > k)
        BY <1>6, <1>8, <2>2
      <3>. QED BY <1>6, <1>8, <3>1
    <2>. QED BY <1>12, <2>1, <2>2
  <1>. DEFINE v == word'
              new == AsChoices'
  <1>19. \A x \in tr .. GVBase - 1 : v[x] = IF x \in raised THEN hbl ELSE word[x]
    BY <1>1, <1>2
  <1>20. Viewed(new, v, tr, b, trailbase, u, {})
    BY <1>4
  <1>. HIDE DEF v, new
  <1>21. RaisedTo(v, word, tr, trailbase, t, k, hbl)
    <2>1. \A x \in tr .. trailbase - 1 : x \in tr .. GVBase - 1
      BY <1>2
    <2>. QED BY <1>18, <1>19, <2>1 DEF RaisedTo
  <1>22. ChoicesOf(v, b, trailbase) = ChoicesOf(word, b, trailbase)
    <2>1. Raises(word, v, b, trailbase)
      <3>. SUFFICES ASSUME NEW x \in b .. trailbase - 1
                    PROVE  v[x] = word[x] \/ (v[x] \in HeapTop /\ x - 1 \in Bases)
        BY <1>2 DEF Raises
      <3>1. x \in tr .. GVBase - 1
        BY <1>2
      <3>2. CASE x \in raised
        <4>1. PICK c \in Bases : x = c + 1
          BY <1>12, <3>2
        <4>2. x - 1 = c
          BY <1>2, <4>1
        <4>. QED BY <1>16, <1>19, <3>1, <3>2, <4>2
      <3>. QED BY <1>19, <3>1, <3>2
    <2>2. Low <= b
      BY <1>2
    <2>. QED BY <1>2, <2>1, <2>2, ChainRaise
  <1>23. k # Len(t) => hbl = word[t[k + 1] + 1]
    BY <1>15
  <1>24. u = t /\ Stack!Protects(AsChoices, new, k) /\ Sound(new)
    BY <1>3, <1>7, <1>16, <1>17, <1>20, <1>21, <1>22, <1>23, RaiseView
  <1>25. Len(new) = Len(AsChoices) /\ k \in 0 .. Len(AsChoices)
    <2>1. Len(new) = Len(u)
      BY <1>20, ViewFacts
    <2>. QED BY <1>6, <1>24, <2>1
  <1>26. AsCalls' = AsCalls
    BY <1>3, <1>4, <1>24, CallsStay
  <1>27. allocated' = allocated
    BY <1>1 DEF gvars
  <1>28. /\ Sound(AsChoices') /\ Len(AsChoices') = Len(AsChoices)
         /\ \E n \in 0 .. Len(AsChoices) : Stack!Protects(AsChoices, AsChoices', n)
    BY <1>24, <1>25 DEF new
  <1>. QED BY <1>26, <1>27, <1>28, StepAnswers

(* What is the same word by word is seen as the same stack. *)
LEMMA SameTrail ==
  ASSUME NEW old, NEW w, NEW l, NEW n, NEW top, NEW t, Viewed(old, w, l, n, top, t, {}),
         NEW new, NEW v, NEW u, Viewed(new, v, l, n, top, u, {}),
         \A x \in l .. top - 1 : v[x] = w[x],
         NEW regs, NEW k, NEW cl, CallsShow(cl, t, regs, k), NEW after, CallsShow(after, u, regs, k)
  PROVE  new = old /\ after = cl
  <1>1. l \in Int /\ n \in Int /\ top \in Int /\ l <= n /\ n <= top - 4
    BY ViewFacts DEF Viewed
  <1>2. (\A x \in n .. top - 1 : v[x] = w[x]) /\ \A x \in l .. n - 1 : v[x] = w[x]
    <2>1. /\ \A x \in n .. top - 1 : x \in l .. top - 1
          /\ \A x \in l .. n - 1 : x \in l .. top - 1
      BY <1>1
    <2>. QED BY <2>1
  <1>3. Values(v, l, n - 1) \cup {} = Values(w, l, n - 1) \cup {}
    BY <1>2 DEF Values
  <1>4. u = t /\ new = old
    BY <1>2, <1>3, SameView
  <1>5. after = cl
    BY <1>4, CallsStay
  <1>. QED BY <1>4, <1>5

(* Only the words of global variables change. *)
LEMMA GlobalsOnly ==
  ASSUME IInv, Seeing, Seeing', Running, pc' = "run", tr' = tr, b' = b, trailbase' = trailbase,
         regstack' = regstack, \A x \in tr .. trailbase - 1 : word'[x] = word[x]
  PROVE  AsChoices' = AsChoices /\ AsCalls' = AsCalls
  <1>1. PICK t : /\ Viewed(AsChoices, word, tr, b, trailbase, t, {})
                 /\ CallsShow(AsCalls, t, regstack, Len(regstack))
    BY DEF Seeing, SeenRun, Seen, Running
  <1>2. PICK u : /\ Viewed(AsChoices', word', tr, b, trailbase, u, {})
                 /\ CallsShow(AsCalls', u, regstack, Len(regstack))
    BY DEF Seeing, SeenRun, Seen
  <1>. DEFINE v == word'
              new == AsChoices'
              after == AsCalls'
  <1>3. /\ Viewed(new, v, tr, b, trailbase, u, {}) /\ CallsShow(after, u, regstack, Len(regstack))
        /\ \A x \in tr .. trailbase - 1 : v[x] = word[x]
    BY <1>2
  <1>. HIDE DEF v, new, after
  <1>4. new = AsChoices /\ after = AsCalls
    BY <1>1, <1>3, SameTrail
  <1>. QED BY <1>4 DEF new, after

LEMMA AllocAnswers ==
  ASSUME AsChoices' = AsChoices, AsCalls' = AsCalls, Sound(AsChoices),
         NEW v, v \notin allocated, allocated' = allocated \cup {v}
  PROVE  Answers
  <1>1. Stack!Allocate
    BY DEF Stack!Allocate
  <1>2. Stack!Next
    BY <1>1 DEF Stack!Next
  <1>. QED BY <1>2 DEF Answers

LEMMA ReleaseAnswers ==
  ASSUME AsChoices' = AsChoices, AsCalls' = AsCalls, Sound(AsChoices),
         NEW v \in allocated, allocated' = allocated \ {v}
  PROVE  Answers
  <1>1. Stack!Release
    BY DEF Stack!Release
  <1>2. Stack!Next
    BY <1>1 DEF Stack!Next
  <1>. QED BY <1>2 DEF Answers

LEMMA GvAllocFromListAnswers ==
  ASSUME IInv, Seeing, Seeing', Sound(AsChoices), GvAllocFromList
  PROVE  Answers
  <1>1. /\ Running /\ freelist # 0 /\ word' = [word EXCEPT ![freelist] = 0]
        /\ allocated' = allocated \cup {GVBase - freelist}
        /\ UNCHANGED <<tr, choiceRegs, trailbase, regstack, loop>>
    BY DEF GvAllocFromList
  <1>2. /\ FreeListed(word, freelist, FreeVars(trailbase, allocated))
        /\ tr \in Int /\ trailbase \in Int /\ GVBase \in Int /\ trailbase <= GVBase
        /\ DOMAIN word = tr .. GVBase - 1
    BY <1>1, RunFacts
  <1>3. freelist \in FreeVars(trailbase, allocated)
    BY <1>1, <1>2, HeadFree
  <1>4. /\ freelist \in trailbase .. GVBase - 1
        /\ GVBase - freelist \notin allocated
    <2>1. /\ freelist \in trailbase .. GVBase - 1
          /\ \A v \in allocated : freelist # GVBase - v
      BY <1>3 DEF FreeVars
    <2>2. GVBase - (GVBase - freelist) = freelist
      BY <1>2, <2>1
    <2>. QED BY <2>1, <2>2
  <1>5. \A x \in tr .. trailbase - 1 : word'[x] = word[x]
    <2>1. \A x \in tr .. trailbase - 1 : x \in DOMAIN word /\ x # freelist
      BY <1>2, <1>4
    <2>. QED BY <1>1, <2>1
  <1>6. AsChoices' = AsChoices /\ AsCalls' = AsCalls
    <2>1. pc' = "run" /\ tr' = tr /\ b' = b /\ trailbase' = trailbase /\ regstack' = regstack
      BY <1>1 DEF Running, loop, choiceRegs
    <2>. QED BY <1>1, <1>5, <2>1, GlobalsOnly
  <1>. QED BY <1>1, <1>4, <1>6, AllocAnswers

LEMMA GvFreeAnswers ==
  ASSUME IInv, Seeing, Seeing', Sound(AsChoices), NEW v \in allocated, GvFree(v)
  PROVE  Answers
  <1>1. /\ Running /\ word' = [word EXCEPT ![GVBase - v] = freelist]
        /\ allocated' = allocated \ {v}
        /\ UNCHANGED <<tr, choiceRegs, trailbase, regstack, loop>>
    BY DEF GvFree
  <1>2. /\ tr \in Int /\ trailbase \in Int /\ GVBase \in Int /\ trailbase <= GVBase
        /\ DOMAIN word = tr .. GVBase - 1
    BY <1>1, RunFacts
  <1>3. v \in 1 .. GVBase - trailbase
    BY DEF IInv, TypeOK
  <1>4. \A x \in tr .. trailbase - 1 : word'[x] = word[x]
    <2>1. \A x \in tr .. trailbase - 1 : x \in DOMAIN word /\ x # GVBase - v
      BY <1>2, <1>3
    <2>. QED BY <1>1, <2>1
  <1>5. AsChoices' = AsChoices /\ AsCalls' = AsCalls
    <2>1. pc' = "run" /\ tr' = tr /\ b' = b /\ trailbase' = trailbase /\ regstack' = regstack
      BY <1>1 DEF Running, loop, choiceRegs
    <2>. QED BY <1>1, <1>4, <2>1, GlobalsOnly
  <1>. QED BY <1>1, <1>5, ReleaseAnswers

(* The loop of gv_alloc begins and goes on: what was there is still seen. *)
LEMMA GvAllocShiftAnswers ==
  ASSUME IInv, Seeing, Seeing', Sound(AsChoices), GvAllocShift
  PROVE  Answers
  <1>1. Running /\ pc' = "shift" /\ UNCHANGED <<word, tr, choiceRegs, gvars, regstack, end>>
    BY DEF GvAllocShift
  <1>2. \A x \in tr .. trailbase - 1 : Was'[x] = word[x]
    BY GvAllocShiftInv
  <1>3. PICK t : /\ Viewed(AsChoices, word, tr, b, trailbase, t, {})
                 /\ CallsShow(AsCalls, t, regstack, Len(regstack))
    BY <1>1 DEF Seeing, SeenRun, Seen, Running
  <1>4. PICK u : /\ Viewed(AsChoices', Was', tr, b, trailbase, u, {})
                 /\ CallsShow(AsCalls', u, regstack, Len(regstack))
    BY <1>1 DEF Seeing, SeenShift, Seen, choiceRegs, gvars
  <1>. DEFINE v == Was'
              new == AsChoices'
              after == AsCalls'
  <1>5. /\ Viewed(new, v, tr, b, trailbase, u, {}) /\ CallsShow(after, u, regstack, Len(regstack))
        /\ \A x \in tr .. trailbase - 1 : v[x] = word[x]
    BY <1>2, <1>4
  <1>. HIDE DEF v, new, after
  <1>6. new = AsChoices /\ after = AsCalls
    BY <1>3, <1>5, SameTrail
  <1>. QED BY <1>1, <1>6, StutterAnswers DEF new, after, gvars

LEMMA ShiftAnswers ==
  ASSUME IInv, Seeing, Seeing', Sound(AsChoices), Shift
  PROVE  Answers
  <1>1. pc = "shift" /\ UNCHANGED <<tr, choiceRegs, gvars, regstack, pc, end>>
    BY DEF Shift
  <1>2. \A x \in tr .. trailbase - 1 : Was'[x] = Was[x]
    BY ShiftInv
  <1>3. PICK t : /\ Viewed(AsChoices, Was, tr, b, trailbase, t, {})
                 /\ CallsShow(AsCalls, t, regstack, Len(regstack))
    BY <1>1 DEF Seeing, SeenShift, Seen
  <1>4. PICK u : /\ Viewed(AsChoices', Was', tr, b, trailbase, u, {})
                 /\ CallsShow(AsCalls', u, regstack, Len(regstack))
    BY <1>1 DEF Seeing, SeenShift, Seen, choiceRegs, gvars
  <1>. DEFINE v == Was'
              new == AsChoices'
              after == AsCalls'
  <1>5. /\ Viewed(new, v, tr, b, trailbase, u, {}) /\ CallsShow(after, u, regstack, Len(regstack))
        /\ \A x \in tr .. trailbase - 1 : v[x] = Was[x]
    BY <1>2, <1>4
  <1>. HIDE DEF v, new, after
  <1>6. new = AsChoices /\ after = AsCalls
    BY <1>3, <1>5, SameTrail
  <1>. QED BY <1>1, <1>6, StutterAnswers DEF new, after, gvars

LEMMA ShiftDoneAnswers ==
  ASSUME IInv, Seeing, Seeing', Sound(AsChoices), ShiftDone
  PROVE  Answers
  <1>1. /\ pc = "shift" /\ FixPtrs /\ NewVariables /\ pc' = "run"
    BY DEF ShiftDone
  <1>2. /\ b' = b - GV_SHIFT /\ tr' = tr - GV_SHIFT /\ trailbase' = trailbase - GV_SHIFT
        /\ allocated' = allocated \cup {GVBase - (trailbase - 1)}
    BY <1>1 DEF FixPtrs, NewVariables
  <1>3. /\ Shifted(Was, word', tr - GV_SHIFT, trailbase - GV_SHIFT - 1)
        /\ CallsShifted(regstack, regstack', Len(regstack)) /\ Len(regstack') = Len(regstack)
    BY ShiftDoneInv
  <1>4. /\ tr \in Int /\ b \in Int /\ trailbase \in Int /\ GVBase \in Int /\ GV_SHIFT \in Int
        /\ allocated \subseteq 1 .. GVBase - trailbase
        /\ regstack \in Seq(Caller)
        /\ \A i \in 1 .. Len(regstack) : regstack[i].b \in Int
    <2>1. /\ tr \in Int /\ b \in Int /\ trailbase \in Int /\ GVBase \in Int /\ GV_SHIFT \in Int
          /\ allocated \subseteq 1 .. GVBase - trailbase /\ regstack \in Seq(Caller)
      BY AreaAssumption DEF IInv, TypeOK, Caller
    <2>2. \A i \in 1 .. Len(regstack) : regstack[i] \in Caller
      BY <2>1
    <2>3. \A c \in Caller : c.b \in Int
      BY AreaAssumption DEF Caller
    <2>. QED BY <2>1, <2>2, <2>3
  <1>5. PICK t : /\ Viewed(AsChoices, Was, tr, b, trailbase, t, {})
                 /\ CallsShow(AsCalls, t, regstack, Len(regstack))
    BY <1>1 DEF Seeing, SeenShift, Seen
  <1>6. PICK u : /\ Viewed(AsChoices', word', tr', b', trailbase', u, {})
                 /\ CallsShow(AsCalls', u, regstack', Len(regstack))
    BY <1>1, <1>3 DEF Seeing, SeenRun, Seen
  <1>7. Len(u) = Len(t) /\ (\A i \in 1 .. Len(t) : u[i] = t[i] - GV_SHIFT) /\ AsChoices' = AsChoices
    <2>. DEFINE v == word'
                new == AsChoices'
                l == tr'
                n == b'
                top == trailbase'
    <2>1. /\ Viewed(new, v, l, n, top, u, {})
          /\ l = tr - GV_SHIFT /\ n = b - GV_SHIFT /\ top = trailbase - GV_SHIFT
          /\ Shifted(Was, v, l, top - 1)
      BY <1>2, <1>3, <1>6
    <2>. HIDE DEF v, new, l, n, top
    <2>2. Len(u) = Len(t) /\ (\A i \in 1 .. Len(t) : u[i] = t[i] - GV_SHIFT) /\ new = AsChoices
      BY <1>5, <2>1, MovedView
    <2>. QED BY <2>2 DEF new
  <1>8. AsCalls' = AsCalls
    <2>. DEFINE after == AsCalls'
                calls == regstack'
    <2>1. /\ CallsShow(after, u, calls, Len(regstack))
          /\ \A i \in 1 .. Len(regstack) : calls[i].b = regstack[i].b - GV_SHIFT
      BY <1>3, <1>6 DEF CallsShifted
    <2>. HIDE DEF after, calls
    <2>2. Descends(t, ChoicesOf(Was, b, trailbase)) /\ \A i \in 1 .. Len(t) : t[i] \in Int
      BY <1>5, ViewFacts DEF Viewed
    <2>3. ASSUME NEW i, i \in 1 .. Len(regstack), NEW j, j \in 1 .. Len(u), u[j] = calls[i].b
          PROVE  j \in 1 .. Len(t) /\ t[j] = regstack[i].b
      <3>1. j \in 1 .. Len(t) /\ t[j] - GV_SHIFT = regstack[i].b - GV_SHIFT
        BY <1>7, <2>1, <2>3
      <3>2. t[j] \in Int /\ regstack[i].b \in Int
        BY <1>4, <2>2, <2>3, <3>1
      <3>. QED BY <1>4, <3>1, <3>2
    <2>4. after = AsCalls
      BY <1>5, <2>1, <2>2, <2>3, SameCalls
    <2>. QED BY <2>4 DEF after
  <1>9. GVBase - (trailbase - 1) \notin allocated
    <2>1. GVBase - (trailbase - 1) \notin 1 .. GVBase - trailbase
      BY <1>4
    <2>. QED BY <1>4, <2>1
  <1>. QED BY <1>2, <1>7, <1>8, <1>9, AllocAnswers
------------------------------------------------------------------------------
(***************************************************************************)
(* All together                                                            *)
(***************************************************************************)
LEMMA NextAnswers ==
  ASSUME IInv, IInv', Seeing, Seeing', Spacing, Sound(AsChoices), Next
  PROVE  Answers
  <1>1. CASE \E r \in Cell : Trail(r)
    BY <1>1, TrailAnswers
  <1>2. CASE \E h \in HeapTop, sp \in StackTop : Try(h, sp)
    BY <1>2, TryAnswers
  <1>3. CASE Retry
    BY <1>3, RetryAnswers
  <1>4. CASE Trust
    BY <1>4, TrustAnswers
  <1>5. CASE \E e \in 1 .. HeapBase - 1 : Cut(e)
    BY <1>5, CutAnswers
  <1>6. CASE Sweep
    BY <1>6, SweepAnswers
  <1>7. CASE SweepDone
    BY <1>7, SweepDoneAnswers
  <1>8. CASE \E h \in HeapTop, sp \in StackTop : Call(h, sp)
    BY <1>8, CallAnswers
  <1>9. CASE Succeed
    BY <1>9, SucceedAnswers
  <1>10. CASE Fail
    BY <1>10, FailAnswers
  <1>11. CASE \E newp \in HeapBase .. Low - 1, h \in HeapTop : GvSet(newp, h)
    BY <1>11, GvSetAnswers
  <1>12. CASE GvAllocFromList
    BY <1>12, GvAllocFromListAnswers
  <1>13. CASE GvAllocShift
    BY <1>13, GvAllocShiftAnswers
  <1>14. CASE Shift
    BY <1>14, ShiftAnswers
  <1>15. CASE ShiftDone
    BY <1>15, ShiftDoneAnswers
  <1>16. CASE \E v \in allocated : GvFree(v)
    BY <1>16, GvFreeAnswers
  <1>. QED BY <1>1, <1>2, <1>3, <1>4, <1>5, <1>6, <1>7, <1>8, <1>9, <1>10, <1>11, <1>12, <1>13,
              <1>14, <1>15, <1>16 DEF Next

LEMMA NextSpaced ==
  ASSUME IInv, Spacing, Next
  PROVE  Spacing'
  <1>1. CASE Sweep
    BY <1>1, SweepSpaced DEF Spacing
  <1>2. CASE \E e \in 1 .. HeapBase - 1 : Cut(e)
    <2>1. PICK e \in 1 .. HeapBase - 1 : Cut(e)
      BY <1>2
    <2>2. Running /\ word' = word /\ \E c \in Bases : SweepFrom(c, "cut")
      BY <2>1 DEF Cut
    <2>. QED BY <2>2, BeginSpaced DEF Spacing
  <1>3. CASE Succeed
    <2>1. Running /\ word' = word /\ \E c \in Bases : SweepFrom(c, "return")
      BY <1>3 DEF Succeed
    <2>. QED BY <2>1, BeginSpaced DEF Spacing
  <1>4. CASE Fail
    BY <1>4, FailSpaced DEF Spacing
  <1>5. CASE ~ (Sweep \/ Succeed \/ Fail \/ \E e \in 1 .. HeapBase - 1 : Cut(e))
    <2>1. pc' \notin {"cut", "return"}
      BY <1>5 DEF Next, Trail, Try, Retry, Trust, SweepDone, Call, GvSet, GvAllocFromList,
                  GvAllocShift, Shift, ShiftDone, GvFree, Running, loop
    <2>. QED BY <2>1 DEF Spacing
  <1>. QED BY <1>1, <1>2, <1>3, <1>4, <1>5

LEMMA StutterSeen ==
  ASSUME Spacing, Sound(AsChoices), UNCHANGED vars
  PROVE  Answers /\ Spacing'
  <1>1. /\ word' = word /\ tr' = tr /\ b' = b /\ hb' = hb /\ spb' = spb /\ trailbase' = trailbase
        /\ allocated' = allocated /\ regstack' = regstack /\ pc' = pc /\ at' = at /\ end' = end
    BY DEF vars, choiceRegs, gvars, loop
  <1>2. Area' = Area /\ Pending' = Pending
    BY <1>1 DEF Area, Unmoved, Pending
  <1>3. AsChoices' = AsChoices
    <2>1. OldestFirst(Area)' = OldestFirst(Area)
      BY <1>1, <1>2 DEF OldestFirst, IsChoice
    <2>. QED BY <1>1, <1>2, <2>1 DEF AsChoices
  <1>4. AsCalls' = AsCalls
    BY <1>1, <1>2 DEF AsCalls, CallersOnly, Depth, IsChoice
  <1>5. Spacing'
    BY <1>1 DEF Spacing, Spaced
  <1>. QED BY <1>1, <1>3, <1>4, <1>5, StutterAnswers

(* The stack begins with one choice point, for which nothing is trailed. *)
LEMMA InitSeen ==
  ASSUME Init
  PROVE  Stack!Init /\ Sound(AsChoices) /\ Spacing
  <1>1. /\ b = GVBase - 4 /\ tr = b /\ trailbase = GVBase /\ allocated = {} /\ regstack = << >>
        /\ pc = "run" /\ GVBase \in Int
    BY AreaAssumption DEF Init
  <1>2. IInv
    BY InitInv
  <1>3. PICK t : /\ Viewed(AsChoices, word, b, b, GVBase, t, {})
                 /\ CallsShow(AsCalls, t, regstack, 0)
    BY <1>1, <1>2, Sees DEF Seeing, SeenRun, Seen
  <1>4. /\ Len(t) \in Nat /\ Len(t) > 0 /\ Len(AsChoices) = Len(t) /\ AsChoices \in Seq(Choice)
        /\ \A i \in 1 .. Len(t) : t[i] = b
    <2>1. /\ Len(t) \in Nat /\ Len(t) > 0 /\ Len(AsChoices) = Len(t) /\ AsChoices \in Seq(Choice)
          /\ \A i \in 1 .. Len(t) : t[i] \in Int /\ b <= t[i] /\ t[i] <= GVBase - 4
      BY <1>3, ViewFacts
    <2>. QED BY <1>1, <2>1
  <1>5. Len(t) = 1
    <2>1. 1 \in 1 .. Len(t) /\ t[1] = b
      BY <1>4
    <2>. QED BY <1>3, <2>1, NewestPlace
  <1>6. AsChoices[1].trail = {}
    <2>1. AsChoices[Len(t)].trail = {word[x] : x \in b .. b - 1} \cup {}
      BY <1>3, NewestTrail
    <2>2. b .. b - 1 = {}
      BY <1>1
    <2>. QED BY <1>5, <2>1, <2>2
  <1>7. AsCalls = << >>
    BY <1>3 DEF CallsShow
  <1>8. Sound(AsChoices)
    BY <1>4, <1>5, <1>6 DEF Sound
  <1>9. Stack!Init
    BY <1>1, <1>4, <1>5, <1>6, <1>7 DEF Stack!Init
  <1>10. Spacing
    BY <1>1 DEF Spacing
  <1>. QED BY <1>8, <1>9, <1>10

(***************************************************************************)
(* Word by word the area does what the stack of choice points does.  No    *)
(* cut, return of run_wam or move of the trail takes an entry for part of  *)
(* a choice point or the other way round, and none loses an address that a *)
(* choice point needs: what happens in the middle of them is not seen.     *)
(***************************************************************************)
THEOREM Implements == Spec => ImplementsChoiceStack
  <1>1. Init => Stack!Init /\ Sound(AsChoices) /\ Spacing
    BY InitSeen
  <1>2. IInv => Seeing
    BY Sees
  <1>3. IInv /\ IInv' /\ Seeing /\ Seeing' /\ Spacing /\ Sound(AsChoices) /\ [Next]_vars
          => Answers /\ Spacing'
    BY NextAnswers, NextSpaced, StutterSeen
  <1>4. Answers => Sound(AsChoices)' /\ [Stack!Next]_(Stack!absvars)
    BY DEF Answers
  <1>. QED BY <1>1, <1>2, <1>3, <1>4, Invariant, PTL DEF Spec, ImplementsChoiceStack, Stack!Spec
==============================================================================
