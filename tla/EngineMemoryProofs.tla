-------------------------- MODULE EngineMemoryProofs --------------------------
(***************************************************************************)
(* Proofs about EngineMemory, for every size of stack, heap and block, any *)
(* number of changes of sizes, global variables and nested runs.           *)
(*                                                                         *)
(* IInv, the inductive invariant, says of the engine that its bounds and   *)
(* all registers are in order (Good), those saved by run_wam being no      *)
(* newer than the present ones, and that the global variables not handed   *)
(* out are on the free list (FreeListed), as long as nothing has gone      *)
(* astray.                                                                 *)
(***************************************************************************)
EXTENDS EngineMemory, SequenceTheorems, TLAPS

Words == [tag : {"ptr", "const", "fence", "chars"}, val : Int]

Registers == [SP : Int, E : Int, SPB : Int, HB : Int, H : Int, TR : Int, B : Int]

Engines ==
  [memory_base : Bases, stack_size : Int, heap_size : Int, stack_max : Int,
   heap_base : Int, trail_base : Int, globals_base : Int, free_list : Int,
   reg : Registers, regs : Seq(Registers)]

(* The registers rs are in order in the engine e. *)
InOrder(e, rs) ==
  /\ e.stack_max < rs.SP /\ rs.SP <= rs.SPB /\ rs.SPB <= e.heap_base
  /\ rs.SP <= rs.E /\ rs.E <= e.heap_base
  /\ e.heap_base <= rs.HB /\ rs.HB <= rs.H /\ rs.H < rs.TR /\ rs.TR <= e.trail_base
  /\ rs.B # Null => rs.TR <= rs.B /\ rs.B <= e.trail_base - 4

(* The registers old are those of a moment before rs. *)
Older(old, rs) == rs.SP <= old.SP /\ old.H <= rs.H /\ rs.TR <= old.TR

Bounded(e) ==
  /\ e.stack_max = e.memory_base
  /\ e.memory_base <= e.heap_base /\ e.heap_base <= e.trail_base
  /\ e.trail_base = e.memory_base + e.stack_size + e.heap_size - 1
  /\ e.trail_base <= e.globals_base /\ e.globals_base - e.trail_base <= MaxGlobals

AllInOrder(e) ==
  /\ InOrder(e, e.reg)
  /\ \A i \in DOMAIN e.regs : InOrder(e, e.regs[i]) /\ Older(e.regs[i], e.reg)

Area(e) == Block(e.memory_base, e.stack_size, e.heap_size, e.globals_base - e.trail_base)

Good(m, e, used) ==
  /\ e \in Engines /\ m \in [Area(e) -> Words]
  /\ Bounded(e) /\ AllInOrder(e)
  /\ used \subseteq 1 .. e.globals_base - e.trail_base

(* The global variables that are not handed out, and the links between     *)
(* them: each leads to another one or ends the list, and no two to the     *)
(* same one, nor any to the first.                                         *)
Vacant(e, used) == {a \in e.trail_base .. e.globals_base - 1 : e.globals_base - a \notin used}

FreeListed(m, e, used) ==
  LET F == Vacant(e, used)
  IN  /\ e.free_list \in F \cup {Null}
      /\ \A a \in F : /\ m[a].tag = "ptr" /\ m[a].val \in F \cup {Null}
                      /\ m[a].val = Null \/ m[a].val # e.free_list
      /\ \A a, b \in F : a # b /\ m[a].val = m[b].val => m[a].val = Null

IInv == Good(mem, pe, inuse) /\ (intact => FreeListed(mem, pe, inuse))

------------------------------------------------------------------------------
(***************************************************************************)
(* What the program does: it writes below the global variables.            *)
(***************************************************************************)
LEMMA GoodFacts ==
  ASSUME NEW m, NEW e, NEW used, Good(m, e, used)
  PROVE  /\ e.memory_base \in Nat \ {0} /\ e.stack_size \in Int /\ e.heap_size \in Int
         /\ e.stack_max \in Int /\ e.heap_base \in Int /\ e.trail_base \in Int
         /\ e.globals_base \in Int /\ e.free_list \in Int
         /\ e.reg \in Registers /\ e.regs \in Seq(Registers) /\ e \in Engines
         /\ DOMAIN m = e.memory_base .. e.globals_base
         /\ m \in [e.memory_base .. e.globals_base -> Words]
  <1>1. e \in Engines
    BY DEF Good
  <1>2. e.memory_base \in Nat \ {0}
    BY <1>1, SizeAssumption DEF Engines
  <1>3. /\ e.stack_size \in Int /\ e.heap_size \in Int
        /\ e.stack_max \in Int /\ e.heap_base \in Int /\ e.trail_base \in Int
        /\ e.globals_base \in Int /\ e.free_list \in Int
        /\ e.reg \in Registers /\ e.regs \in Seq(Registers)
    BY <1>1 DEF Engines
  <1>4. e.memory_base + e.stack_size + e.heap_size + (e.globals_base - e.trail_base) - 1 = e.globals_base
    <2>1. e.trail_base = e.memory_base + e.stack_size + e.heap_size - 1
      BY DEF Good, Bounded
    <2>. DEFINE b == e.memory_base
                s == e.stack_size
                h == e.heap_size
                t == e.trail_base
                g == e.globals_base
    <2>2. b \in Int /\ s \in Int /\ h \in Int /\ t \in Int /\ g \in Int /\ t = b + s + h - 1
      BY <1>2, <1>3, <2>1
    <2>3. b + s + h + (g - t) - 1 = g
      <3>. HIDE DEF b, s, h, t, g
      <3>. QED BY <2>2
    <2>. QED BY <2>3
  <1>. QED BY <1>1, <1>2, <1>3, <1>4 DEF Good, Area, Block

(* The registers are rs, those saved are saved. *)
With(e, rs, saved) == [e EXCEPT !.reg = rs, !.regs = saved]

LEMMA WithIs ==
  ASSUME NEW e \in Engines, NEW rs \in Registers, NEW saved \in Seq(Registers)
  PROVE  LET r == With(e, rs, saved)
         IN  /\ r \in Engines /\ r.reg = rs /\ r.regs = saved
             /\ r.memory_base = e.memory_base /\ r.stack_size = e.stack_size
             /\ r.heap_size = e.heap_size /\ r.stack_max = e.stack_max
             /\ r.heap_base = e.heap_base /\ r.trail_base = e.trail_base
             /\ r.globals_base = e.globals_base /\ r.free_list = e.free_list
  BY DEF With, Engines

Saves(e, rs, saved) == \A i \in DOMAIN saved : InOrder(e, saved[i]) /\ Older(saved[i], rs)

LEMMA ProgramKeeps ==
  ASSUME NEW m, NEW e, NEW used, Good(m, e, used), FreeListed(m, e, used),
         NEW m2, m2 \in [DOMAIN m -> Words],
         NEW rs \in Registers, NEW saved \in Seq(Registers), InOrder(e, rs), Saves(e, rs, saved),
         \A a \in e.trail_base .. e.globals_base : m2[a] = m[a]
  PROVE  Good(m2, With(e, rs, saved), used) /\ FreeListed(m2, With(e, rs, saved), used)
  <1>. DEFINE r == With(e, rs, saved)
  <1>1. /\ r \in Engines /\ r.reg = rs /\ r.regs = saved
        /\ r.memory_base = e.memory_base /\ r.stack_size = e.stack_size
        /\ r.heap_size = e.heap_size /\ r.stack_max = e.stack_max
        /\ r.heap_base = e.heap_base /\ r.trail_base = e.trail_base
        /\ r.globals_base = e.globals_base /\ r.free_list = e.free_list
    BY GoodFacts, WithIs
  <1>. HIDE DEF r
  <1>2. Area(r) = Area(e) /\ DOMAIN m = Area(e)
    BY <1>1 DEF Area, Good
  <1>3. AllInOrder(r)
    BY <1>1 DEF AllInOrder, Saves, InOrder
  <1>4. Good(m2, r, used)
    BY <1>1, <1>2, <1>3 DEF Good, Bounded
  <1>5. Vacant(r, used) = Vacant(e, used)
    BY <1>1 DEF Vacant
  <1>6. \A a \in Vacant(e, used) : m2[a] = m[a]
    BY GoodFacts DEF Vacant
  <1>7. FreeListed(m2, r, used)
    BY <1>1, <1>5, <1>6 DEF FreeListed
  <1>. QED BY <1>4, <1>7 DEF r

LEMMA WrittenIs ==
  ASSUME Good(mem, pe, inuse), NEW at \in Int, NEW words \in Seq(Words),
         at + Len(words) <= pe.trail_base
  PROVE  /\ Written(at, words) \in [DOMAIN mem -> Words]
         /\ \A a \in pe.trail_base .. pe.globals_base : Written(at, words)[a] = mem[a]
  <1>1. /\ pe.trail_base \in Int /\ pe.globals_base \in Int /\ pe.memory_base \in Int
        /\ DOMAIN mem = pe.memory_base .. pe.globals_base
        /\ mem \in [pe.memory_base .. pe.globals_base -> Words]
    BY GoodFacts
  <1>2. DOMAIN words = 1 .. Len(words) /\ Len(words) \in Nat
        /\ \A i \in 1 .. Len(words) : words[i] \in Words
    OBVIOUS
  <1>3. \A a \in DOMAIN mem : a \in Int /\ mem[a] \in Words
    BY <1>1
  <1>4. Written(at, words) \in [DOMAIN mem -> Words]
    BY <1>2, <1>3 DEF Written
  <1>5. pe.memory_base <= pe.trail_base
    <2>1. Bounded(pe)
      BY DEF Good
    <2>2. pe.heap_base \in Int /\ pe.memory_base \in Int /\ pe.trail_base \in Int
      BY GoodFacts
    <2>. QED BY <2>1, <2>2 DEF Bounded
  <1>6. ASSUME NEW a \in pe.trail_base .. pe.globals_base PROVE Written(at, words)[a] = mem[a]
    <2>1. a \in DOMAIN mem /\ a - at + 1 \notin 1 .. Len(words)
      BY <1>1, <1>2, <1>5
    <2>. QED BY <2>1, <1>2 DEF Written
  <1>. QED BY <1>4, <1>6

LEMMA WordsTyped ==
  ASSUME NEW a \in Int, Good(mem, pe, inuse)
  PROVE  /\ Ptr(a) \in Words /\ Const \in Words /\ Fence(a) \in Words /\ Chars(a) \in Words
         /\ Newest(a) \in Words
  BY GoodFacts DEF Ptr, Const, Fence, Chars, Newest, Words, H, Registers

------------------------------------------------------------------------------
(* What the registers and bounds are, in numbers *)
LEMMA Numbers ==
  ASSUME Good(mem, pe, inuse)
  PROVE  /\ pe.memory_base \in Nat \ {0} /\ pe.stack_max = pe.memory_base
         /\ pe.heap_base \in Int /\ pe.trail_base \in Int /\ pe.globals_base \in Int
         /\ pe.heap_base > 0 /\ pe.heap_base <= pe.trail_base /\ pe.trail_base <= pe.globals_base
         /\ SP \in Int /\ H \in Int /\ TR \in Int /\ SP <= pe.heap_base
         /\ pe.heap_base <= H /\ H < TR /\ TR <= pe.trail_base
         /\ InOrder(pe, pe.reg) /\ Saves(pe, pe.reg, pe.regs)
  <1>1. InOrder(pe, pe.reg) /\ Saves(pe, pe.reg, pe.regs)
    BY DEF Good, AllInOrder, Saves
  <1>2. pe.reg \in Registers /\ pe.regs \in Seq(Registers)
    BY GoodFacts
  <1>3. SP \in Int /\ H \in Int /\ TR \in Int
    BY <1>2 DEF Registers, SP, H, TR
  <1>4. Bounded(pe)
    BY DEF Good
  <1>5. /\ pe.memory_base \in Nat \ {0} /\ pe.heap_base \in Int /\ pe.trail_base \in Int
        /\ pe.globals_base \in Int
    BY GoodFacts
  <1>6. pe.stack_max = pe.memory_base /\ pe.memory_base <= pe.heap_base
        /\ pe.heap_base <= pe.trail_base /\ pe.trail_base <= pe.globals_base
    BY <1>4 DEF Bounded
  <1>7. /\ SP <= pe.reg.SPB /\ pe.reg.SPB <= pe.heap_base /\ pe.heap_base <= pe.reg.HB
        /\ pe.reg.HB <= H /\ H < TR /\ TR <= pe.trail_base
    BY <1>1 DEF InOrder, SP, H, TR
  <1>8. pe.reg.SPB \in Int /\ pe.reg.HB \in Int
    BY <1>2 DEF Registers
  <1>. QED BY <1>1, <1>3, <1>5, <1>6, <1>7, <1>8

LEMMA ProgramStep ==
  ASSUME IInv, intact, NEW rs \in Registers, NEW saved \in Seq(Registers),
         InOrder(pe, rs), Saves(pe, rs, saved), pe' = With(pe, rs, saved),
         mem' \in [DOMAIN mem -> Words],
         \A a \in pe.trail_base .. pe.globals_base : mem'[a] = mem[a],
         UNCHANGED <<inuse, intact>>
  PROVE  IInv'
  <1>1. Good(mem, pe, inuse) /\ FreeListed(mem, pe, inuse)
    BY DEF IInv
  <1>2. Good(mem', With(pe, rs, saved), inuse) /\ FreeListed(mem', With(pe, rs, saved), inuse)
    BY <1>1, ProgramKeeps
  <1>. QED BY <1>2 DEF IInv

LEMMA OlderStill ==
  ASSUME NEW e, NEW old \in Registers, NEW rs \in Registers, NEW saved \in Seq(Registers),
         Saves(e, old, saved), Older(old, rs)
  PROVE  Saves(e, rs, saved)
  <1>1. ASSUME NEW i \in DOMAIN saved PROVE InOrder(e, saved[i]) /\ Older(saved[i], rs)
    <2>1. saved[i] \in Registers /\ InOrder(e, saved[i]) /\ Older(saved[i], old)
      BY DEF Saves
    <2>2. \A r \in Registers : r.SP \in Int /\ r.H \in Int /\ r.TR \in Int
      BY DEF Registers
    <2>3. \A r \in Registers : Older(r, old) => Older(r, rs)
      <3>1. TAKE r \in Registers
      <3>2. /\ r.SP \in Int /\ r.H \in Int /\ r.TR \in Int /\ rs.SP \in Int /\ rs.H \in Int
            /\ rs.TR \in Int /\ old.SP \in Int /\ old.H \in Int /\ old.TR \in Int
        BY <2>2
      <3>3. rs.SP <= old.SP /\ old.H <= rs.H /\ rs.TR <= old.TR
        BY DEF Older
      <3>. QED BY <3>2, <3>3 DEF Older
    <2>. QED BY <2>1, <2>3
  <1>. QED BY <1>1 DEF Saves

LEMMA PushFrameStep ==
  ASSUME IInv, intact, NEW w \in Words, PushFrame(w)
  PROVE  IInv'
  <1>. DEFINE rs == [pe.reg EXCEPT !.SP = SP - 2, !.E = SP - 2]
              words == << Ptr(pe.reg.E), w >>
  <1>0. Good(mem, pe, inuse) /\ pe \in Engines /\ pe.reg \in Registers /\ pe.regs \in Seq(Registers)
    BY GoodFacts DEF IInv
  <1>1. /\ SP \in Int /\ SP - 2 > pe.stack_max /\ SP - 2 \in Int /\ SP <= pe.heap_base
        /\ pe.heap_base <= pe.trail_base /\ pe.heap_base \in Int /\ pe.trail_base \in Int
        /\ InOrder(pe, pe.reg) /\ Saves(pe, pe.reg, pe.regs)
    BY <1>0, Numbers DEF PushFrame
  <1>2. /\ rs \in Registers /\ rs.SP = SP - 2 /\ rs.E = SP - 2 /\ rs.SPB = pe.reg.SPB
        /\ rs.HB = pe.reg.HB /\ rs.H = pe.reg.H /\ rs.TR = pe.reg.TR /\ rs.B = pe.reg.B
    BY <1>0, <1>1 DEF Registers
  <1>3. pe' = With(pe, rs, pe.regs)
    BY <1>0 DEF PushFrame, With, Engines, Registers
  <1>4. words \in Seq(Words) /\ Len(words) = 2
    <2>1. Ptr(pe.reg.E) \in Words
      BY <1>0 DEF Ptr, Words, Registers
    <2>. QED BY <2>1
  <1>5. mem' = Written(SP - 2, words)
    BY DEF PushFrame
  <1>. HIDE DEF rs, words
  <1>6. InOrder(pe, rs)
    <2>1. /\ pe.reg.SP <= pe.reg.SPB /\ pe.reg.SPB <= pe.heap_base
          /\ pe.heap_base <= pe.reg.HB /\ pe.reg.HB <= pe.reg.H
          /\ pe.reg.H < pe.reg.TR /\ pe.reg.TR <= pe.trail_base
          /\ pe.reg.B # Null => pe.reg.TR <= pe.reg.B /\ pe.reg.B <= pe.trail_base - 4
      BY <1>1 DEF InOrder
    <2>2. SP = pe.reg.SP /\ pe.reg.SPB \in Int
      BY <1>0 DEF SP, Registers
    <2>3. /\ pe.stack_max < SP - 2 /\ SP - 2 <= pe.reg.SPB /\ SP - 2 <= SP - 2
          /\ SP - 2 <= pe.heap_base
      BY <1>1, <2>1, <2>2
    <2>. QED BY Zenon, <1>2, <2>1, <2>3 DEF InOrder
  <1>7. Saves(pe, rs, pe.regs)
    <2>1. Older(pe.reg, rs)
      BY <1>0, <1>1, <1>2 DEF Older, Registers, SP, H, TR
    <2>2. Saves(pe, pe.reg, pe.regs)
      BY <1>1
    <2>. QED BY <1>0, <1>2, <2>1, <2>2, OlderStill
  <1>8. SP - 2 + Len(words) <= pe.trail_base
    BY <1>1, <1>4
  <1>9. mem' \in [DOMAIN mem -> Words] /\ \A a \in pe.trail_base .. pe.globals_base : mem'[a] = mem[a]
    BY <1>0, <1>1, <1>4, <1>5, <1>8, WrittenIs
  <1>. QED BY <1>0, <1>2, <1>3, <1>6, <1>7, <1>9, ProgramStep DEF PushFrame

LEMMA NewTermStep ==
  ASSUME IInv, intact, NEW words \in Seq(Words), NewTerm(words)
  PROVE  IInv'
  <1>. DEFINE rs == [pe.reg EXCEPT !.H = H + Len(words)]
  <1>0. Good(mem, pe, inuse) /\ pe \in Engines /\ pe.reg \in Registers /\ pe.regs \in Seq(Registers)
    BY GoodFacts DEF IInv
  <1>1. /\ H \in Int /\ TR \in Int /\ Len(words) \in Nat /\ H + Len(words) < TR
        /\ TR <= pe.trail_base /\ pe.trail_base \in Int
        /\ InOrder(pe, pe.reg) /\ Saves(pe, pe.reg, pe.regs)
    BY <1>0, Numbers DEF NewTerm
  <1>2. /\ rs \in Registers /\ rs.H = H + Len(words) /\ rs.SP = pe.reg.SP /\ rs.E = pe.reg.E
        /\ rs.SPB = pe.reg.SPB /\ rs.HB = pe.reg.HB /\ rs.TR = pe.reg.TR /\ rs.B = pe.reg.B
    <2>1. H + Len(words) \in Int
      BY <1>1
    <2>. HIDE DEF H
    <2>. QED BY <1>0, <2>1 DEF Registers
  <1>3. pe' = With(pe, rs, pe.regs)
    BY <1>0 DEF NewTerm, With, Engines, Registers
  <1>5. mem' = Written(H, words)
    BY DEF NewTerm
  <1>. HIDE DEF rs
  <1>6. InOrder(pe, rs)
    <2>1. /\ pe.stack_max < pe.reg.SP /\ pe.reg.SP <= pe.reg.SPB /\ pe.reg.SPB <= pe.heap_base
          /\ pe.reg.SP <= pe.reg.E /\ pe.reg.E <= pe.heap_base
          /\ pe.heap_base <= pe.reg.HB /\ pe.reg.HB <= pe.reg.H
          /\ pe.reg.H < pe.reg.TR /\ pe.reg.TR <= pe.trail_base
          /\ pe.reg.B # Null => pe.reg.TR <= pe.reg.B /\ pe.reg.B <= pe.trail_base - 4
      BY <1>1 DEF InOrder
    <2>2. H = pe.reg.H /\ TR = pe.reg.TR /\ pe.reg.HB \in Int
      BY <1>0 DEF H, TR, Registers
    <2>3. pe.reg.HB <= H + Len(words) /\ H + Len(words) < pe.reg.TR
      BY <1>1, <2>1, <2>2
    <2>. QED BY Zenon, <1>2, <2>1, <2>3 DEF InOrder
  <1>7. Saves(pe, rs, pe.regs)
    <2>1. Older(pe.reg, rs)
      BY <1>0, <1>1, <1>2 DEF Older, Registers, SP, H, TR
    <2>2. Saves(pe, pe.reg, pe.regs)
      BY <1>1
    <2>. QED BY <1>0, <1>2, <2>1, <2>2, OlderStill
  <1>8. H + Len(words) <= pe.trail_base
    BY <1>1
  <1>9. mem' \in [DOMAIN mem -> Words] /\ \A a \in pe.trail_base .. pe.globals_base : mem'[a] = mem[a]
    BY <1>0, <1>1, <1>5, <1>8, WrittenIs
  <1>. QED BY <1>0, <1>2, <1>3, <1>6, <1>7, <1>9, ProgramStep DEF NewTerm

LEMMA NewChoiceStep ==
  ASSUME IInv, intact, NEW saved \in Seq(Registers), Saves(pe, pe.reg, saved), NewChoice(saved)
  PROVE  IInv'
  <1>. DEFINE rs == [pe.reg EXCEPT !.TR = TR - 4, !.B = TR - 4, !.HB = H, !.SPB = SP]
              words == << Const, Ptr(H), Ptr(SP), Ptr(pe.reg.B) >>
  <1>0. Good(mem, pe, inuse) /\ pe \in Engines /\ pe.reg \in Registers
    BY GoodFacts DEF IInv
  <1>1. /\ H \in Int /\ SP \in Int /\ TR \in Int /\ TR - 4 > H /\ TR - 4 \in Int
        /\ TR <= pe.trail_base /\ pe.trail_base \in Int
        /\ InOrder(pe, pe.reg)
    BY <1>0, Numbers DEF NewChoice
  <1>2. /\ rs \in Registers /\ rs.H = pe.reg.H /\ rs.SP = pe.reg.SP /\ rs.E = pe.reg.E
        /\ rs.SPB = SP /\ rs.HB = H /\ rs.TR = TR - 4 /\ rs.B = TR - 4
    BY <1>0, <1>1 DEF Registers
  <1>3. pe' = With(pe, rs, saved)
    BY <1>0 DEF NewChoice, With, Engines, Registers
  <1>4. words \in Seq(Words) /\ Len(words) = 4
    <2>1. Const \in Words /\ Ptr(H) \in Words /\ Ptr(SP) \in Words /\ Ptr(pe.reg.B) \in Words
      BY <1>0, <1>1 DEF Const, Ptr, Words, Registers
    <2>. QED BY <2>1
  <1>5. mem' = Written(TR - 4, words)
    BY DEF NewChoice
  <1>. HIDE DEF rs, words
  <1>6. InOrder(pe, rs)
    <2>1. /\ pe.stack_max < pe.reg.SP /\ pe.reg.SP <= pe.reg.SPB /\ pe.reg.SPB <= pe.heap_base
          /\ pe.reg.SP <= pe.reg.E /\ pe.reg.E <= pe.heap_base
          /\ pe.heap_base <= pe.reg.HB /\ pe.reg.HB <= pe.reg.H
          /\ pe.reg.H < pe.reg.TR /\ pe.reg.TR <= pe.trail_base
          /\ pe.reg.B # Null => pe.reg.TR <= pe.reg.B /\ pe.reg.B <= pe.trail_base - 4
      BY <1>1 DEF InOrder
    <2>2. SP = pe.reg.SP /\ H = pe.reg.H /\ TR = pe.reg.TR
      BY DEF SP, H, TR
    <2>3. pe.reg.SPB \in Int /\ pe.reg.HB \in Int /\ pe.heap_base \in Int /\ SP \in Int /\ H \in Int
      BY <1>0 DEF Registers, Engines, SP, H
    <2>4. /\ SP <= SP /\ SP <= pe.heap_base /\ pe.heap_base <= H /\ H <= H
      BY <2>1, <2>2, <2>3
    <2>5. H < TR - 4 /\ TR - 4 <= pe.trail_base /\ TR - 4 <= TR - 4 /\ TR - 4 <= pe.trail_base - 4
      BY <1>1
    <2>. QED BY Zenon, <1>2, <2>1, <2>2, <2>4, <2>5 DEF InOrder
  <1>7. Saves(pe, rs, saved)
    <2>1. Older(pe.reg, rs)
      BY <1>0, <1>1, <1>2 DEF Older, Registers, SP, H, TR
    <2>2. Saves(pe, pe.reg, saved)
      BY <1>1
    <2>. QED BY <1>0, <1>2, <2>1, <2>2, OlderStill
  <1>8. TR - 4 + Len(words) <= pe.trail_base
    BY <1>1, <1>4
  <1>9. mem' \in [DOMAIN mem -> Words] /\ \A a \in pe.trail_base .. pe.globals_base : mem'[a] = mem[a]
    BY <1>0, <1>1, <1>4, <1>5, <1>8, WrittenIs
  <1>. QED BY <1>0, <1>2, <1>3, <1>6, <1>7, <1>9, ProgramStep DEF NewChoice

LEMMA TryStep ==
  ASSUME IInv, intact, Try
  PROVE  IInv'
  <1>1. Good(mem, pe, inuse) /\ pe.regs \in Seq(Registers)
    BY GoodFacts DEF IInv
  <1>2. Saves(pe, pe.reg, pe.regs)
    BY <1>1, Numbers
  <1>. QED BY <1>1, <1>2, NewChoiceStep DEF Try

LEMMA CallStep ==
  ASSUME IInv, intact, Call
  PROVE  IInv'
  <1>. DEFINE saved == Append(pe.regs, pe.reg)
  <1>1. Good(mem, pe, inuse) /\ pe.regs \in Seq(Registers) /\ pe.reg \in Registers
    BY GoodFacts DEF IInv
  <1>2. Saves(pe, pe.reg, pe.regs) /\ InOrder(pe, pe.reg)
    BY <1>1, Numbers
  <1>3. saved \in Seq(Registers) /\ DOMAIN saved = 1 .. Len(pe.regs) + 1
        /\ \A i \in DOMAIN saved : saved[i] = IF i = Len(pe.regs) + 1 THEN pe.reg ELSE pe.regs[i]
    BY <1>1
  <1>4. Older(pe.reg, pe.reg)
    BY <1>1 DEF Older, Registers
  <1>5. Saves(pe, pe.reg, saved)
    BY <1>1, <1>2, <1>3, <1>4 DEF Saves
  <1>6. NewChoice(saved)
    BY DEF Call
  <1>. HIDE DEF saved
  <1>. QED BY <1>3, <1>5, <1>6, NewChoiceStep

LEMMA TrailStep ==
  ASSUME IInv, intact, NEW x \in Int, Trail(x)
  PROVE  IInv'
  <1>. DEFINE rs == [pe.reg EXCEPT !.TR = TR - 1]
              words == << Ptr(x) >>
  <1>0. Good(mem, pe, inuse) /\ pe \in Engines /\ pe.reg \in Registers /\ pe.regs \in Seq(Registers)
    BY GoodFacts DEF IInv
  <1>1. /\ H \in Int /\ TR \in Int /\ TR - 1 > H /\ TR - 1 \in Int
        /\ TR <= pe.trail_base /\ pe.trail_base \in Int
        /\ InOrder(pe, pe.reg) /\ Saves(pe, pe.reg, pe.regs)
    BY <1>0, Numbers DEF Trail
  <1>2. /\ rs \in Registers /\ rs.H = pe.reg.H /\ rs.SP = pe.reg.SP /\ rs.E = pe.reg.E
        /\ rs.SPB = pe.reg.SPB /\ rs.HB = pe.reg.HB /\ rs.TR = TR - 1 /\ rs.B = pe.reg.B
    BY <1>0, <1>1 DEF Registers
  <1>3. pe' = With(pe, rs, pe.regs)
    BY <1>0 DEF Trail, With, Engines, Registers
  <1>4. words \in Seq(Words) /\ Len(words) = 1
    BY DEF Ptr, Words
  <1>5. mem' = Written(TR - 1, words)
    BY DEF Trail
  <1>. HIDE DEF rs, words
  <1>6. InOrder(pe, rs)
    <2>1. /\ pe.stack_max < pe.reg.SP /\ pe.reg.SP <= pe.reg.SPB /\ pe.reg.SPB <= pe.heap_base
          /\ pe.reg.SP <= pe.reg.E /\ pe.reg.E <= pe.heap_base
          /\ pe.heap_base <= pe.reg.HB /\ pe.reg.HB <= pe.reg.H
          /\ pe.reg.H < pe.reg.TR /\ pe.reg.TR <= pe.trail_base
          /\ pe.reg.B # Null => pe.reg.TR <= pe.reg.B /\ pe.reg.B <= pe.trail_base - 4
      BY <1>1 DEF InOrder
    <2>2. H = pe.reg.H /\ TR = pe.reg.TR /\ pe.reg.B \in Int
      BY <1>0 DEF H, TR, Registers
    <2>3. pe.reg.H < TR - 1 /\ TR - 1 <= pe.trail_base /\ (TR <= pe.reg.B => TR - 1 <= pe.reg.B)
      BY <1>1, <2>2
    <2>. QED BY Zenon, <1>2, <2>1, <2>2, <2>3 DEF InOrder
  <1>7. Saves(pe, rs, pe.regs)
    <2>1. Older(pe.reg, rs)
      BY <1>0, <1>1, <1>2 DEF Older, Registers, SP, H, TR
    <2>2. Saves(pe, pe.reg, pe.regs)
      BY <1>1
    <2>. QED BY <1>0, <1>2, <2>1, <2>2, OlderStill
  <1>8. TR - 1 + Len(words) <= pe.trail_base
    BY <1>1, <1>4
  <1>9. mem' \in [DOMAIN mem -> Words] /\ \A a \in pe.trail_base .. pe.globals_base : mem'[a] = mem[a]
    BY <1>0, <1>1, <1>4, <1>5, <1>8, WrittenIs
  <1>. QED BY <1>0, <1>2, <1>3, <1>6, <1>7, <1>9, ProgramStep DEF Trail

------------------------------------------------------------------------------
(***************************************************************************)
(* The global variables                                                    *)
(***************************************************************************)
LEMMA VacantIs ==
  ASSUME Good(mem, pe, inuse)
  PROVE  /\ \A a \in Vacant(pe, inuse) :
              /\ a \in Int /\ pe.trail_base <= a /\ a < pe.globals_base /\ a # Null
              /\ a \in DOMAIN mem /\ mem[a] \in Words
              /\ pe.globals_base - a \in 1 .. pe.globals_base - pe.trail_base
              /\ pe.globals_base - a \notin inuse
         /\ \A a : a \in Vacant(pe, inuse) <=> /\ a \in pe.trail_base .. pe.globals_base - 1
                                               /\ pe.globals_base - a \notin inuse
         /\ \A v \in inuse : /\ v \in Int /\ pe.globals_base - v \in DOMAIN mem
                             /\ pe.trail_base <= pe.globals_base - v
                             /\ pe.globals_base - v < pe.globals_base
                             /\ pe.globals_base - v # Null
  <1>1. /\ pe.trail_base \in Int /\ pe.globals_base \in Int /\ pe.memory_base \in Nat
        /\ DOMAIN mem = pe.memory_base .. pe.globals_base
        /\ mem \in [pe.memory_base .. pe.globals_base -> Words]
    BY GoodFacts
  <1>2. /\ pe.trail_base > 0 /\ pe.memory_base <= pe.trail_base
        /\ inuse \subseteq 1 .. pe.globals_base - pe.trail_base
    <2>1. pe.heap_base > 0 /\ pe.heap_base <= pe.trail_base /\ pe.heap_base \in Int
      BY Numbers
    <2>2. pe.memory_base <= pe.heap_base
      BY DEF Good, Bounded
    <2>. QED BY <1>1, <2>1, <2>2 DEF Good
  <1>3. \A a : a \in Vacant(pe, inuse) <=> /\ a \in pe.trail_base .. pe.globals_base - 1
                                           /\ pe.globals_base - a \notin inuse
    BY DEF Vacant
  <1>4. ASSUME NEW a \in Vacant(pe, inuse)
        PROVE  /\ a \in Int /\ pe.trail_base <= a /\ a < pe.globals_base /\ a # Null
               /\ a \in DOMAIN mem /\ mem[a] \in Words
               /\ pe.globals_base - a \in 1 .. pe.globals_base - pe.trail_base
               /\ pe.globals_base - a \notin inuse
    BY <1>1, <1>2, <1>3 DEF Null
  <1>5. ASSUME NEW v \in inuse
        PROVE  /\ v \in Int /\ pe.globals_base - v \in DOMAIN mem
               /\ pe.trail_base <= pe.globals_base - v
               /\ pe.globals_base - v < pe.globals_base
               /\ pe.globals_base - v # Null
    <2>1. v \in Int /\ 1 <= v /\ v <= pe.globals_base - pe.trail_base
      BY <1>1, <1>2
    <2>. QED BY <1>1, <1>2, <2>1 DEF Null
  <1>. QED BY <1>3, <1>4, <1>5

(* Only the words and the list of free global variables change. *)
LEMMA ListStep ==
  ASSUME Good(mem, pe, inuse), NEW x \in Int, pe' = [pe EXCEPT !.free_list = x],
         mem' \in [DOMAIN mem -> Words],
         inuse' \subseteq 1 .. pe.globals_base - pe.trail_base
  PROVE  /\ Good(mem', pe', inuse')
         /\ pe'.free_list = x /\ pe'.trail_base = pe.trail_base /\ pe'.globals_base = pe.globals_base
  <1>1. pe \in Engines /\ DOMAIN mem = Area(pe) /\ Bounded(pe) /\ AllInOrder(pe)
    BY DEF Good
  <1>2. /\ pe' \in Engines /\ pe'.reg = pe.reg /\ pe'.regs = pe.regs
        /\ pe'.memory_base = pe.memory_base /\ pe'.stack_size = pe.stack_size
        /\ pe'.heap_size = pe.heap_size /\ pe'.stack_max = pe.stack_max
        /\ pe'.heap_base = pe.heap_base /\ pe'.trail_base = pe.trail_base
        /\ pe'.globals_base = pe.globals_base /\ pe'.free_list = x
    BY <1>1 DEF Engines
  <1>3. Area(pe') = Area(pe) /\ Bounded(pe')
    BY <1>1, <1>2 DEF Area, Bounded
  <1>4. AllInOrder(pe')
    BY <1>1, <1>2 DEF AllInOrder, InOrder
  <1>. QED BY <1>1, <1>2, <1>3, <1>4 DEF Good

LEMMA GvAllocFromListStep ==
  ASSUME IInv, intact, GvAllocFromList
  PROVE  IInv'
  <1>. DEFINE a == pe.free_list
              F == Vacant(pe, inuse)
  <1>1. Good(mem, pe, inuse) /\ FreeListed(mem, pe, inuse) /\ pe \in Engines
    BY DEF IInv, Good
  <1>2. a \in F /\ a # Null /\ mem[a].tag = "ptr" /\ mem[a].val \in F \cup {Null}
    BY <1>1 DEF GvAllocFromList, FreeListed
  <1>3. /\ a \in Int /\ a \in DOMAIN mem /\ mem[a] \in Words
        /\ pe.globals_base - a \in 1 .. pe.globals_base - pe.trail_base
    BY <1>1, <1>2, VacantIs
  <1>4. /\ pe' = [pe EXCEPT !.free_list = mem[a].val]
        /\ mem' = [mem EXCEPT ![a] = Const]
        /\ inuse' = inuse \cup {pe.globals_base - a} /\ intact' = intact
    BY <1>1 DEF GvAllocFromList, Engines
  <1>5. mem' \in [DOMAIN mem -> Words] /\ \A b \in DOMAIN mem : b # a => mem'[b] = mem[b]
    <2>1. Const \in Words /\ \A b \in DOMAIN mem : mem[b] \in Words
      BY <1>1, WordsTyped, GoodFacts
    <2>2. mem \in [DOMAIN mem -> Words]
      BY <1>1, GoodFacts
    <2>. QED BY <1>3, <1>4, <2>1, <2>2
  <1>6. mem[a].val \in Int
    BY <1>3 DEF Words
  <1>7. inuse' \subseteq 1 .. pe.globals_base - pe.trail_base
    BY <1>1, <1>3, <1>4 DEF Good
  <1>8. /\ Good(mem', pe', inuse')
        /\ pe'.free_list = mem[a].val /\ pe'.trail_base = pe.trail_base
        /\ pe'.globals_base = pe.globals_base
    BY <1>1, <1>4, <1>5, <1>6, <1>7, ListStep
  <1>9. pe.globals_base \in Int /\ pe.trail_base \in Int
    BY <1>1, GoodFacts
  <1>10. \A b : b \in Vacant(pe', inuse') <=> b \in F /\ b # a
    <2>1. \A b : b \in Vacant(pe', inuse') <=>
                   b \in pe.trail_base .. pe.globals_base - 1 /\ pe.globals_base - b \notin inuse'
      BY <1>8 DEF Vacant
    <2>2. \A b \in pe.trail_base .. pe.globals_base - 1 :
            pe.globals_base - b = pe.globals_base - a <=> b = a
      BY <1>3, <1>9
    <2>. HIDE DEF a
    <2>. QED BY <1>4, <2>1, <2>2 DEF Vacant
  <1>. DEFINE G == Vacant(pe', inuse')
  <1>11. /\ \A b \in F : /\ mem[b].tag = "ptr" /\ mem[b].val \in F \cup {Null}
                         /\ mem[b].val = Null \/ mem[b].val # a
         /\ \A b, c \in F : b # c /\ mem[b].val = mem[c].val => mem[b].val = Null
    BY <1>1 DEF FreeListed
  <1>12. \A b \in G : b \in F /\ b # a /\ mem'[b] = mem[b]
    <2>1. \A b \in F : b \in DOMAIN mem
      BY <1>1, VacantIs
    <2>. QED BY <1>5, <1>10, <2>1
  <1>. HIDE DEF F, G, a
  <1>13. mem[a].val \in G \cup {Null}
    BY <1>2, <1>10, <1>11 DEF G
  <1>14. \A b \in G : /\ mem'[b].tag = "ptr" /\ mem'[b].val \in G \cup {Null}
                      /\ mem'[b].val = Null \/ mem'[b].val # mem[a].val
    BY <1>2, <1>10, <1>11, <1>12 DEF G
  <1>15. \A b, c \in G : b # c /\ mem'[b].val = mem'[c].val => mem'[b].val = Null
    BY <1>11, <1>12
  <1>16. FreeListed(mem', pe', inuse')
    BY <1>8, <1>13, <1>14, <1>15 DEF FreeListed, G
  <1>. QED BY <1>8, <1>16 DEF IInv

LEMMA GvSetStep ==
  ASSUME IInv, intact, NEW v, NEW w \in Words, GvSet(v, w)
  PROVE  IInv'
  <1>. DEFINE a == pe.globals_base - v
  <1>1. Good(mem, pe, inuse) /\ FreeListed(mem, pe, inuse) /\ v \in inuse
    BY DEF IInv, GvSet
  <1>2. mem \in [DOMAIN mem -> Words] /\ DOMAIN mem = Area(pe)
    BY <1>1, GoodFacts DEF Good
  <1>3. /\ mem' = [mem EXCEPT ![a] = w] /\ pe' = pe /\ inuse' = inuse /\ intact' = intact
    BY DEF GvSet
  <1>4. mem' \in [DOMAIN mem -> Words] /\ \A b \in DOMAIN mem : b # a => mem'[b] = mem[b]
    BY <1>2, <1>3
  <1>5. Good(mem', pe', inuse')
    BY <1>1, <1>2, <1>3, <1>4 DEF Good
  <1>6. \A b \in Vacant(pe, inuse) : mem'[b] = mem[b]
    <2>1. \A b \in Vacant(pe, inuse) : b \in DOMAIN mem /\ b \in Int /\ pe.globals_base - b \notin inuse
      BY <1>1, VacantIs
    <2>2. v \in Int /\ pe.globals_base \in Int
      BY <1>1, VacantIs, GoodFacts
    <2>3. \A b \in Int : b = pe.globals_base - v => pe.globals_base - b = v
      BY <2>2
    <2>. QED BY <1>1, <1>4, <2>1, <2>3
  <1>7. FreeListed(mem', pe', inuse')
    BY <1>1, <1>3, <1>6 DEF FreeListed
  <1>. QED BY <1>5, <1>7 DEF IInv

LEMMA GvFreeStep ==
  ASSUME IInv, intact, NEW v, GvFree(v)
  PROVE  IInv'
  <1>. DEFINE a == pe.globals_base - v
              F == Vacant(pe, inuse)
              G == Vacant(pe', inuse')
  <1>1. Good(mem, pe, inuse) /\ FreeListed(mem, pe, inuse) /\ v \in inuse /\ pe \in Engines
    BY DEF IInv, GvFree, Good
  <1>2. /\ v \in Int /\ a \in DOMAIN mem /\ pe.trail_base <= a /\ a < pe.globals_base /\ a # Null
        /\ pe.globals_base \in Int /\ pe.trail_base \in Int /\ a \in Int /\ pe.free_list \in Int
    BY <1>1, VacantIs, GoodFacts
  <1>3. /\ pe' = [pe EXCEPT !.free_list = a]
        /\ mem' = [mem EXCEPT ![a] = Ptr(pe.free_list)]
        /\ inuse' = inuse \ {v} /\ intact' = intact
    BY DEF GvFree
  <1>4. mem' \in [DOMAIN mem -> Words] /\ \A b \in DOMAIN mem : b # a => mem'[b] = mem[b]
    <2>1. mem \in [DOMAIN mem -> Words] /\ Ptr(pe.free_list) \in Words
      BY <1>1, <1>2, GoodFacts, WordsTyped
    <2>. QED BY <1>2, <1>3, <2>1
  <1>5. mem'[a].tag = "ptr" /\ mem'[a].val = pe.free_list
    BY <1>2, <1>3 DEF Ptr
  <1>6. inuse' \subseteq 1 .. pe.globals_base - pe.trail_base
    BY <1>1, <1>3 DEF Good
  <1>7. /\ Good(mem', pe', inuse')
        /\ pe'.free_list = a /\ pe'.trail_base = pe.trail_base /\ pe'.globals_base = pe.globals_base
    BY <1>1, <1>2, <1>3, <1>4, <1>6, ListStep
  <1>8. \A b : b \in G <=> b \in F \/ b = a
    <2>1. \A b : b \in G <=>
                   b \in pe.trail_base .. pe.globals_base - 1 /\ pe.globals_base - b \notin inuse'
      BY <1>7 DEF Vacant
    <2>2. \A b \in pe.trail_base .. pe.globals_base - 1 : pe.globals_base - b = v <=> b = a
      BY <1>2
    <2>3. a \in pe.trail_base .. pe.globals_base - 1
      BY <1>2
    <2>. HIDE DEF a
    <2>. QED BY <1>3, <2>1, <2>2, <2>3 DEF Vacant
  <1>9. a \notin F
    <2>1. pe.globals_base - a = v
      BY <1>2
    <2>. QED BY <1>1, <2>1 DEF Vacant
  <1>10. /\ \A b \in F : /\ mem[b].tag = "ptr" /\ mem[b].val \in F \cup {Null}
                         /\ mem[b].val = Null \/ mem[b].val # pe.free_list
         /\ \A b, c \in F : b # c /\ mem[b].val = mem[c].val => mem[b].val = Null
         /\ pe.free_list \in F \cup {Null}
    BY <1>1 DEF FreeListed
  <1>11. \A b \in F : mem'[b] = mem[b]
    <2>1. \A b \in F : b \in DOMAIN mem
      BY <1>1, VacantIs
    <2>. QED BY <1>4, <1>9, <2>1
  <1>. HIDE DEF F, G, a
  <1>12. \A b \in G : /\ mem'[b].tag = "ptr" /\ mem'[b].val \in G \cup {Null}
                      /\ mem'[b].val = Null \/ mem'[b].val # a
    BY <1>5, <1>8, <1>9, <1>10, <1>11
  <1>13. \A b, c \in G : b # c /\ mem'[b].val = mem'[c].val => mem'[b].val = Null
    BY <1>5, <1>8, <1>9, <1>10, <1>11
  <1>14. FreeListed(mem', pe', inuse')
    BY <1>7, <1>8, <1>12, <1>13 DEF FreeListed, G
  <1>. QED BY <1>3, <1>7, <1>14 DEF IInv

LEMMA LoweredIs ==
  ASSUME NEW rs \in Registers
  PROVE  LET r == Lowered(rs)
         IN  /\ r \in Registers /\ r.SP = rs.SP /\ r.E = rs.E /\ r.SPB = rs.SPB /\ r.HB = rs.HB
             /\ r.H = rs.H /\ r.TR = rs.TR - GV_SHIFT
             /\ r.B = IF rs.B = Null THEN Null ELSE rs.B - GV_SHIFT
  <1>. DEFINE t == rs.TR - GV_SHIFT
              b == IF rs.B = Null THEN Null ELSE rs.B - GV_SHIFT
  <1>1. t \in Int /\ b \in Int
    BY SizeAssumption DEF Registers, Null
  <1>2. Lowered(rs) = [rs EXCEPT !.TR = t, !.B = b]
    BY DEF Lowered, Registers
  <1>. HIDE DEF t, b
  <1>3. LET r == Lowered(rs)
        IN  /\ r \in Registers /\ r.SP = rs.SP /\ r.E = rs.E /\ r.SPB = rs.SPB /\ r.HB = rs.HB
            /\ r.H = rs.H /\ r.TR = t /\ r.B = b
    BY <1>1, <1>2 DEF Registers
  <1>. QED BY <1>3 DEF t, b

LEMMA LoweredInOrder ==
  ASSUME NEW e, NEW e2, NEW rs \in Registers, InOrder(e, rs), rs.H < rs.TR - GV_SHIFT,
         e.trail_base \in Int, e2.stack_max = e.stack_max, e2.heap_base = e.heap_base,
         e2.trail_base = e.trail_base - GV_SHIFT
  PROVE  InOrder(e2, Lowered(rs))
  <1>. DEFINE r == Lowered(rs)
  <1>1. /\ r.SP = rs.SP /\ r.E = rs.E /\ r.SPB = rs.SPB /\ r.HB = rs.HB
        /\ r.H = rs.H /\ r.TR = rs.TR - GV_SHIFT
        /\ r.B = IF rs.B = Null THEN Null ELSE rs.B - GV_SHIFT
    BY LoweredIs
  <1>2. rs.TR \in Int /\ rs.B \in Int /\ GV_SHIFT \in Int
    BY SizeAssumption DEF Registers
  <1>. HIDE DEF r
  <1>3. /\ e2.stack_max < r.SP /\ r.SP <= r.SPB /\ r.SPB <= e2.heap_base
        /\ r.SP <= r.E /\ r.E <= e2.heap_base
        /\ e2.heap_base <= r.HB /\ r.HB <= r.H /\ r.H < r.TR
    BY <1>1 DEF InOrder
  <1>4. r.TR <= e2.trail_base
    <2>1. rs.TR <= e.trail_base
      BY DEF InOrder
    <2>. QED BY <1>1, <1>2, <2>1
  <1>5. ASSUME r.B # Null PROVE r.TR <= r.B /\ r.B <= e2.trail_base - 4
    <2>1. rs.B # Null /\ r.B = rs.B - GV_SHIFT
      BY <1>1, <1>5
    <2>2. rs.TR <= rs.B /\ rs.B <= e.trail_base - 4
      BY <2>1 DEF InOrder
    <2>. QED BY <1>1, <1>2, <2>1, <2>2
  <1>. QED BY <1>3, <1>4, <1>5 DEF InOrder, r

(* The words of the trail move, and the variables made room for are linked. *)
LEMMA ShiftedIs ==
  ASSUME Good(mem, pe, inuse), GvAllocShift
  PROVE  LET tb == pe.trail_base - GV_SHIFT
         IN  /\ mem' \in [DOMAIN mem -> Words]
             /\ \A a \in pe.trail_base .. pe.globals_base : mem'[a] = mem[a]
             /\ \A a \in tb .. pe.trail_base - 2 :
                  mem'[a] = IF a = tb THEN Ptr(Null) ELSE Ptr(a - 1)
  <1>. DEFINE tb == pe.trail_base - GV_SHIFT
              moved(a) == IF mem[a].val > a /\ mem[a].val < pe.trail_base
                          THEN Ptr(mem[a].val - GV_SHIFT) ELSE mem[a]
              word(a) == IF a \in TR - GV_SHIFT .. tb - 1 THEN moved(a + GV_SHIFT)
                         ELSE IF a = tb THEN Ptr(Null)
                         ELSE IF a \in tb + 1 .. pe.trail_base - 2 THEN Ptr(a - 1)
                         ELSE IF a = pe.trail_base - 1 THEN Const
                         ELSE mem[a]
  <1>1. mem' = [a \in DOMAIN mem |-> word(a)]
    BY DEF GvAllocShift
  <1>2. /\ pe.trail_base \in Int /\ pe.globals_base \in Int /\ pe.memory_base \in Nat /\ TR \in Int
        /\ GV_SHIFT \in Int /\ GV_SHIFT > 0
        /\ DOMAIN mem = pe.memory_base .. pe.globals_base
        /\ mem \in [pe.memory_base .. pe.globals_base -> Words]
        /\ pe.memory_base < TR - GV_SHIFT /\ TR <= pe.trail_base /\ pe.trail_base <= pe.globals_base
    <2>1. /\ H \in Int /\ TR \in Int /\ pe.heap_base \in Int /\ pe.heap_base <= H
          /\ TR <= pe.trail_base /\ pe.trail_base <= pe.globals_base
      BY Numbers
    <2>2. pe.memory_base <= pe.heap_base
      BY DEF Good, Bounded
    <2>3. TR - GV_SHIFT > H
      BY DEF GvAllocShift
    <2>4. GV_SHIFT \in Int /\ GV_SHIFT > 0
      BY SizeAssumption
    <2>5. /\ pe.trail_base \in Int /\ pe.globals_base \in Int /\ pe.memory_base \in Nat
          /\ DOMAIN mem = pe.memory_base .. pe.globals_base
          /\ mem \in [pe.memory_base .. pe.globals_base -> Words]
      BY GoodFacts
    <2>. QED BY <2>1, <2>2, <2>3, <2>4, <2>5
  <1>3. \A a \in Int : Ptr(a) \in Words /\ Const \in Words
    BY WordsTyped
  <1>4. \A a \in DOMAIN mem : a \in Int /\ mem[a] \in Words /\ mem[a].val \in Int
    BY <1>2 DEF Words
  <1>5. ASSUME NEW a \in DOMAIN mem PROVE word(a) \in Words
    <2>1. CASE a \in TR - GV_SHIFT .. tb - 1
      <3>1. a + GV_SHIFT \in DOMAIN mem
        BY <1>2, <2>1
      <3>2. moved(a + GV_SHIFT) \in Words
        <4>. DEFINE b == a + GV_SHIFT
        <4>. HIDE DEF b
        <4>1. b \in DOMAIN mem => moved(b) \in Words
          BY <1>2, <1>3, <1>4
        <4>. QED BY <3>1, <4>1 DEF b
      <3>. QED BY <2>1, <3>2
    <2>2. CASE a \notin TR - GV_SHIFT .. tb - 1
      <3>1. Ptr(Null) \in Words /\ Ptr(a - 1) \in Words /\ Const \in Words /\ mem[a] \in Words
        BY <1>3, <1>4 DEF Null
      <3>. HIDE DEF moved, tb
      <3>. QED BY <2>2, <3>1
    <2>. QED BY <2>1, <2>2
  <1>6. mem' \in [DOMAIN mem -> Words]
    <2>. HIDE DEF word
    <2>. QED BY <1>1, <1>5
  <1>7. ASSUME NEW a \in pe.trail_base .. pe.globals_base PROVE mem'[a] = mem[a]
    <2>1. /\ a \in DOMAIN mem /\ a \notin TR - GV_SHIFT .. tb - 1 /\ a # tb
          /\ a \notin tb + 1 .. pe.trail_base - 2 /\ a # pe.trail_base - 1
      BY <1>2
    <2>2. word(a) = mem[a]
      <3>. HIDE DEF moved, tb
      <3>. QED BY <2>1
    <2>. HIDE DEF word
    <2>. QED BY <1>1, <2>1, <2>2
  <1>8. ASSUME NEW a \in tb .. pe.trail_base - 2
        PROVE  mem'[a] = IF a = tb THEN Ptr(Null) ELSE Ptr(a - 1)
    <2>1. /\ a \in DOMAIN mem /\ a \notin TR - GV_SHIFT .. tb - 1
          /\ a # tb => a \in tb + 1 .. pe.trail_base - 2
      <3>1. /\ a \in Int /\ pe.trail_base - GV_SHIFT <= a /\ a <= pe.trail_base - 2
            /\ TR - GV_SHIFT <= a
        BY <1>2
      <3>2. pe.memory_base <= a /\ a <= pe.globals_base
        BY <1>2, <3>1
      <3>. QED BY <1>2, <3>1, <3>2
    <2>2. word(a) = IF a = tb THEN Ptr(Null) ELSE Ptr(a - 1)
      <3>. HIDE DEF moved, tb
      <3>. QED BY <2>1
    <2>. HIDE DEF word
    <2>. QED BY <1>1, <2>1, <2>2
  <1>. QED BY <1>6, <1>7, <1>8

LEMMA GvAllocShiftGood ==
  ASSUME Good(mem, pe, inuse), GvAllocShift
  PROVE  /\ Good(mem', pe', inuse')
         /\ pe'.trail_base = pe.trail_base - GV_SHIFT /\ pe'.globals_base = pe.globals_base
         /\ pe'.free_list = IF GV_SHIFT = 1 THEN Null ELSE pe.trail_base - 2
  <1>. DEFINE tb == pe.trail_base - GV_SHIFT
              link == IF GV_SHIFT = 1 THEN Null ELSE pe.trail_base - 2
              saved == [i \in DOMAIN pe.regs |-> Lowered(pe.regs[i])]
  <1>1. /\ pe \in Engines /\ pe.reg \in Registers /\ pe.regs \in Seq(Registers)
        /\ pe.memory_base \in Nat \ {0} /\ pe.stack_size \in Int /\ pe.heap_size \in Int
        /\ pe.stack_max \in Int /\ pe.heap_base \in Int /\ pe.trail_base \in Int
        /\ pe.globals_base \in Int /\ Bounded(pe) /\ DOMAIN mem = Area(pe)
        /\ inuse \subseteq 1 .. pe.globals_base - pe.trail_base
    BY GoodFacts DEF Good
  <1>2. /\ GV_SHIFT \in Int /\ GV_SHIFT > 0
        /\ pe.globals_base - pe.trail_base + GV_SHIFT <= MaxGlobals
        /\ TR - GV_SHIFT > H
        /\ inuse' = inuse \cup {pe.globals_base - (pe.trail_base - 1)}
    BY SizeAssumption DEF GvAllocShift, Globals
  <1>3. pe' = [pe EXCEPT !.trail_base = tb, !.heap_size = pe.heap_size - GV_SHIFT,
                         !.free_list = link, !.reg = Lowered(pe.reg), !.regs = saved]
    BY <1>1 DEF GvAllocShift, Engines
  <1>4. saved \in Seq(Registers) /\ DOMAIN saved = DOMAIN pe.regs
    <2>1. \A i \in DOMAIN pe.regs : Lowered(pe.regs[i]) \in Registers
      BY <1>1, LoweredIs
    <2>. QED BY <1>1, <2>1
  <1>5. Lowered(pe.reg) \in Registers /\ link \in Int /\ tb \in Int /\ pe.heap_size - GV_SHIFT \in Int
    BY <1>1, <1>2, LoweredIs DEF Null
  <1>. HIDE DEF tb, link, saved
  <1>6. /\ pe' \in Engines /\ pe'.reg = Lowered(pe.reg) /\ pe'.regs = saved
        /\ pe'.memory_base = pe.memory_base /\ pe'.stack_size = pe.stack_size
        /\ pe'.heap_size = pe.heap_size - GV_SHIFT /\ pe'.stack_max = pe.stack_max
        /\ pe'.heap_base = pe.heap_base /\ pe'.trail_base = tb
        /\ pe'.globals_base = pe.globals_base /\ pe'.free_list = link
    <2>. DEFINE hs == pe.heap_size - GV_SHIFT
                rs == Lowered(pe.reg)
    <2>1. pe' = [pe EXCEPT !.trail_base = tb, !.heap_size = hs,
                           !.free_list = link, !.reg = rs, !.regs = saved]
      BY <1>3
    <2>2. rs \in Registers /\ hs \in Int
      BY <1>5
    <2>. HIDE DEF hs, rs
    <2>3. /\ pe' \in Engines /\ pe'.reg = rs /\ pe'.regs = saved
          /\ pe'.memory_base = pe.memory_base /\ pe'.stack_size = pe.stack_size
          /\ pe'.heap_size = hs /\ pe'.stack_max = pe.stack_max
          /\ pe'.heap_base = pe.heap_base /\ pe'.trail_base = tb
          /\ pe'.globals_base = pe.globals_base /\ pe'.free_list = link
      BY <1>1, <1>4, <1>5, <2>1, <2>2 DEF Engines
    <2>. QED BY <2>3 DEF hs, rs
  <1>7. Area(pe') = Area(pe)
    <2>. DEFINE b == pe.memory_base
                s == pe.stack_size
                h == pe.heap_size
                t == pe.trail_base
                g == pe.globals_base
    <2>1. b + s + (h - GV_SHIFT) + (g - (t - GV_SHIFT)) - 1 = b + s + h + (g - t) - 1
      <3>1. /\ b \in Int /\ s \in Int /\ h \in Int /\ t \in Int /\ g \in Int /\ GV_SHIFT \in Int
        BY <1>1, <1>2
      <3>. HIDE DEF b, s, h, t, g
      <3>. QED BY <3>1
    <2>2. /\ pe'.memory_base = pe.memory_base /\ pe'.stack_size = pe.stack_size
          /\ pe'.heap_size = pe.heap_size - GV_SHIFT
          /\ pe'.globals_base - pe'.trail_base = pe.globals_base - (pe.trail_base - GV_SHIFT)
      BY <1>6 DEF tb
    <2>. QED BY <2>1, <2>2, Zenon DEF Area, Block
  <1>8. /\ H \in Int /\ TR \in Int /\ pe.heap_base <= H /\ TR <= pe.trail_base
        /\ InOrder(pe, pe.reg) /\ Saves(pe, pe.reg, pe.regs)
    BY Numbers
  <1>9. Bounded(pe')
    <2>1. pe.heap_base <= tb
      BY <1>1, <1>2, <1>8 DEF tb
    <2>2. tb <= pe.globals_base /\ pe.globals_base - tb <= MaxGlobals
      BY <1>1, <1>2, BoundAssumption DEF tb, Bounded
    <2>3. tb = pe.memory_base + pe.stack_size + (pe.heap_size - GV_SHIFT) - 1
      BY <1>1, <1>2 DEF tb, Bounded
    <2>. QED BY <1>1, <1>6, <2>1, <2>2, <2>3 DEF Bounded
  <1>10. pe.reg.H < pe.reg.TR - GV_SHIFT
    BY <1>1, <1>2, <1>8 DEF H, TR
  <1>11. InOrder(pe', pe'.reg)
    BY <1>1, <1>6, <1>8, <1>10, LoweredInOrder DEF tb
  <1>12. ASSUME NEW i \in DOMAIN saved PROVE InOrder(pe', saved[i]) /\ Older(saved[i], pe'.reg)
    <2>. DEFINE rs == pe.regs[i]
    <2>1. rs \in Registers /\ saved[i] = Lowered(rs)
      BY <1>1, <1>4 DEF saved
    <2>2. InOrder(pe, rs) /\ Older(rs, pe.reg)
      BY <1>4, <1>8 DEF Saves
    <2>. HIDE DEF rs
    <2>3. /\ rs.SP \in Int /\ rs.H \in Int /\ rs.TR \in Int /\ pe.reg.SP \in Int /\ pe.reg.H \in Int
          /\ pe.reg.TR \in Int
      BY <1>1, <2>1 DEF Registers
    <2>4. pe.reg.SP <= rs.SP /\ rs.H <= pe.reg.H /\ pe.reg.TR <= rs.TR
      BY <2>2 DEF Older
    <2>5. rs.H < rs.TR - GV_SHIFT
      BY <1>2, <1>10, <2>3, <2>4
    <2>6. InOrder(pe', Lowered(rs))
      BY <1>1, <1>6, <2>1, <2>2, <2>5, LoweredInOrder DEF tb
    <2>7. Older(Lowered(rs), Lowered(pe.reg))
      <3>1. /\ Lowered(rs).SP = rs.SP /\ Lowered(rs).H = rs.H /\ Lowered(rs).TR = rs.TR - GV_SHIFT
            /\ Lowered(pe.reg).SP = pe.reg.SP /\ Lowered(pe.reg).H = pe.reg.H
            /\ Lowered(pe.reg).TR = pe.reg.TR - GV_SHIFT
        BY <1>1, <2>1, LoweredIs
      <3>. QED BY <1>2, <2>3, <2>4, <3>1 DEF Older
    <2>. QED BY <1>6, <2>1, <2>6, <2>7
  <1>13. AllInOrder(pe')
    BY <1>6, <1>11, <1>12 DEF AllInOrder
  <1>14. inuse' \subseteq 1 .. pe'.globals_base - pe'.trail_base
    <2>1. pe.globals_base - (pe.trail_base - 1) \in 1 .. pe.globals_base - tb
      <3>1. pe.trail_base <= pe.globals_base
        BY <1>1 DEF Bounded
      <3>2. \A g, x, k \in Int : x <= g /\ k > 0 => g - (x - 1) \in 1 .. g - (x - k)
        OBVIOUS
      <3>. QED BY <1>1, <1>2, <3>1, <3>2 DEF tb
    <2>2. inuse \subseteq 1 .. pe.globals_base - tb
      BY <1>1, <1>2 DEF tb
    <2>. QED BY <1>2, <1>6, <2>1, <2>2
  <1>15. mem' \in [DOMAIN mem -> Words]
    BY ShiftedIs
  <1>16. Good(mem', pe', inuse')
    BY <1>1, <1>6, <1>7, <1>9, <1>13, <1>14, <1>15 DEF Good
  <1>. QED BY <1>6, <1>16 DEF tb, link

LEMMA GvAllocShiftStep ==
  ASSUME IInv, intact, GvAllocShift
  PROVE  IInv'
  <1>. DEFINE tb == pe.trail_base - GV_SHIFT
              F == Vacant(pe, inuse)
              N == tb .. pe.trail_base - 2
              G == Vacant(pe', inuse')
              link == IF GV_SHIFT = 1 THEN Null ELSE pe.trail_base - 2
  <1>1. Good(mem, pe, inuse) /\ FreeListed(mem, pe, inuse) /\ pe.free_list = Null
    BY DEF IInv, GvAllocShift
  <1>2. /\ Good(mem', pe', inuse') /\ pe'.trail_base = tb /\ pe'.globals_base = pe.globals_base
        /\ pe'.free_list = link
    BY <1>1, GvAllocShiftGood
  <1>3. /\ \A a \in pe.trail_base .. pe.globals_base : mem'[a] = mem[a]
        /\ \A a \in N : mem'[a] = IF a = tb THEN Ptr(Null) ELSE Ptr(a - 1)
    BY <1>1, ShiftedIs
  <1>4. /\ GV_SHIFT \in Int /\ GV_SHIFT > 0 /\ pe.trail_base \in Int /\ pe.globals_base \in Int
        /\ tb \in Int /\ pe.trail_base <= pe.globals_base /\ tb > 0
        /\ inuse \subseteq 1 .. pe.globals_base - pe.trail_base
    <2>1. /\ H \in Int /\ TR \in Int /\ pe.heap_base \in Int /\ pe.heap_base > 0 /\ pe.heap_base <= H
          /\ TR <= pe.trail_base /\ pe.trail_base <= pe.globals_base
      BY <1>1, Numbers
    <2>2. TR - GV_SHIFT > H
      BY DEF GvAllocShift
    <2>3. /\ GV_SHIFT \in Int /\ GV_SHIFT > 0 /\ pe.trail_base \in Int /\ pe.globals_base \in Int
      BY <1>1, SizeAssumption, GoodFacts
    <2>4. inuse \subseteq 1 .. pe.globals_base - pe.trail_base
      BY <1>1 DEF Good
    <2>. QED BY <2>1, <2>2, <2>3, <2>4
  <1>5. inuse' = inuse \cup {pe.globals_base - (pe.trail_base - 1)} /\ intact' = intact
    BY DEF GvAllocShift
  <1>6. \A a : a \in G <=> a \in F \/ a \in N
    <2>1. \A a : a \in G <=> a \in tb .. pe.globals_base - 1 /\ pe.globals_base - a \notin inuse'
      BY <1>2 DEF Vacant
    <2>2. \A a \in Int : /\ pe.globals_base - a = pe.globals_base - (pe.trail_base - 1) <=> a = pe.trail_base - 1
                         /\ a < pe.trail_base => pe.globals_base - a \notin inuse
      BY <1>4
    <2>3. \A a : a \in tb .. pe.globals_base - 1 /\ a # pe.trail_base - 1
                   <=> a \in pe.trail_base .. pe.globals_base - 1 \/ a \in N
      BY <1>4
    <2>4. \A a : a \in F <=> a \in pe.trail_base .. pe.globals_base - 1 /\ pe.globals_base - a \notin inuse
      BY DEF Vacant
    <2>5. \A a : a \in tb .. pe.globals_base - 1 => a \in Int
      BY <1>4
    <2>6. \A a : a \in N => a \in Int /\ a < pe.trail_base
      BY <1>4
    <2>. HIDE DEF F, G, N, tb
    <2>7. ASSUME NEW a, a \in G PROVE a \in F \/ a \in N
      <3>1. a \in tb .. pe.globals_base - 1 /\ a \in Int /\ pe.globals_base - a \notin inuse
        BY <1>5, <2>1, <2>5, <2>7
      <3>2. a # pe.trail_base - 1
        BY <1>5, <2>1, <2>7
      <3>. QED BY <2>3, <2>4, <3>1, <3>2
    <2>8. ASSUME NEW a, a \in F \/ a \in N PROVE a \in G
      <3>1. a \in tb .. pe.globals_base - 1 /\ a # pe.trail_base - 1
        BY <2>3, <2>4, <2>8
      <3>2. a \in Int /\ pe.globals_base - a \notin inuse
        BY <2>2, <2>4, <2>5, <2>6, <2>8, <3>1
      <3>3. pe.globals_base - a # pe.globals_base - (pe.trail_base - 1)
        BY <2>2, <3>1, <3>2
      <3>. QED BY <1>5, <2>1, <3>1, <3>2, <3>3
    <2>. QED BY <2>7, <2>8
  <1>7. /\ \A b \in F : /\ mem[b].tag = "ptr" /\ mem[b].val \in F \cup {Null}
        /\ \A b, c \in F : b # c /\ mem[b].val = mem[c].val => mem[b].val = Null
        /\ \A b \in F : mem'[b] = mem[b] /\ b \in Int /\ pe.trail_base <= b
    <2>1. \A b \in F : b \in pe.trail_base .. pe.globals_base
      BY <1>4 DEF Vacant
    <2>2. \A b \in F : b \in Int /\ pe.trail_base <= b
      BY <1>4, <2>1
    <2>. QED BY <1>1, <1>3, <2>1, <2>2 DEF FreeListed
  <1>8. /\ \A b \in N : /\ b \in Int /\ b < pe.trail_base - 1
                        /\ mem'[b].tag = "ptr" /\ mem'[b].val = IF b = tb THEN Null ELSE b - 1
        /\ \A b \in N : b = tb \/ b - 1 \in N
    <2>1. \A b \in N : b \in Int /\ b < pe.trail_base - 1 /\ (b = tb \/ b - 1 \in N)
      BY <1>4
    <2>2. \A b \in N : mem'[b].tag = "ptr" /\ mem'[b].val = IF b = tb THEN Null ELSE b - 1
      <3>1. \A x : Ptr(x).tag = "ptr" /\ Ptr(x).val = x
        BY DEF Ptr
      <3>. HIDE DEF N, tb
      <3>2. TAKE b \in N
      <3>3. CASE b = tb
        BY <1>3, <3>1, <3>3
      <3>4. CASE b # tb
        BY <1>3, <3>1, <3>4
      <3>. QED BY <3>3, <3>4
    <2>. HIDE DEF N, tb
    <2>. QED BY <2>1, <2>2
  <1>9. link \in G \cup {Null}
    <2>1. GV_SHIFT # 1 => pe.trail_base - 2 \in N
      BY <1>4
    <2>. QED BY <1>6, <2>1
  <1>10. \A b \in N : b - 1 # link
    BY <1>4 DEF Null
  <1>11. \A b \in F : b # link
    BY <1>4, <1>7, <1>8 DEF Null
  <1>. HIDE DEF F, N, G, tb, link
  <1>12. \A b \in G : /\ mem'[b].tag = "ptr" /\ mem'[b].val \in G \cup {Null}
                      /\ mem'[b].val = Null \/ mem'[b].val # link
    BY <1>6, <1>7, <1>8, <1>10, <1>11
  <1>13. ASSUME NEW b \in G, NEW c \in G, b # c, mem'[b].val = mem'[c].val
         PROVE  mem'[b].val = Null
    <2>1. CASE b \in F /\ c \in F
      BY <1>7, <1>13, <2>1
    <2>2. CASE b \in N /\ c \in N
      <3>1. \A x, y \in Int : x - 1 = y - 1 => x = y
        OBVIOUS
      <3>. QED BY <1>8, <1>13, <2>2, <3>1
    <2>3. ASSUME NEW x \in F, NEW y \in N, mem'[x].val = mem'[y].val PROVE mem'[x].val = Null
      <3>1. mem'[x].val \in F \cup {Null}
        BY <1>7
      <3>2. y # tb => y - 1 \notin F
        <4>1. y \in Int /\ y < pe.trail_base - 1
          BY <1>8
        <4>2. ~ (pe.trail_base <= y - 1)
          BY <1>4, <4>1
        <4>. QED BY <1>7, <4>2
      <3>. QED BY <1>8, <2>3, <3>1, <3>2
    <2>. QED BY <1>6, <1>13, <2>1, <2>2, <2>3
  <1>14. FreeListed(mem', pe', inuse')
    BY <1>2, <1>9, <1>12, <1>13 DEF FreeListed, G
  <1>. QED BY <1>2, <1>14 DEF IInv

------------------------------------------------------------------------------
(***************************************************************************)
(* A change of sizes: where bounds and registers come to be.               *)
(***************************************************************************)
LEMMA MovedIs ==
  ASSUME NEW rs \in Registers, NEW sh \in Int, NEW t \in Int
  PROVE  LET r == Moved(rs, sh, t)
         IN  /\ r \in Registers /\ r.SP = rs.SP + sh /\ r.E = rs.E + sh /\ r.SPB = rs.SPB + sh
             /\ r.HB = rs.HB + sh /\ r.H = rs.H + sh /\ r.TR = rs.TR + t
             /\ r.B = IF rs.B = Null THEN Null ELSE rs.B + t
  BY DEF Moved, Registers, Null

LEMMA MovedTwice ==
  ASSUME NEW rs \in Registers, NEW a \in Int, NEW b \in Int, NEW s \in Int, NEW t \in Int,
         rs.B # Null /\ rs.B + s = Null => t = 0
  PROVE  Moved(Moved(rs, a, s), b, t) = Moved(rs, a + b, s + t)
  <1>1. /\ rs.SP \in Int /\ rs.E \in Int /\ rs.SPB \in Int /\ rs.HB \in Int /\ rs.H \in Int
        /\ rs.TR \in Int /\ rs.B \in Int
    BY DEF Registers
  <1>2. /\ (rs.SP + a) + b = rs.SP + (a + b) /\ (rs.E + a) + b = rs.E + (a + b)
        /\ (rs.SPB + a) + b = rs.SPB + (a + b) /\ (rs.HB + a) + b = rs.HB + (a + b)
        /\ (rs.H + a) + b = rs.H + (a + b) /\ (rs.TR + s) + t = rs.TR + (s + t)
        /\ (rs.B + s) + t = rs.B + (s + t)
    BY <1>1
  <1>3. (IF (IF rs.B = Null THEN Null ELSE rs.B + s) = Null THEN Null
         ELSE (IF rs.B = Null THEN Null ELSE rs.B + s) + t)
          = IF rs.B = Null THEN Null ELSE rs.B + (s + t)
    BY <1>1, <1>2 DEF Null
  <1>. QED BY <1>2, <1>3 DEF Moved

LEMMA MovedInOrder ==
  ASSUME NEW e, NEW e2, NEW rs \in Registers, InOrder(e, rs), NEW sh \in Int, NEW t \in Int,
         e.trail_base \in Int, e.heap_base \in Int,
         e2.heap_base = e.heap_base + sh, e2.trail_base = e.trail_base + t,
         e2.stack_max < rs.SP + sh, rs.H + sh < rs.TR + t
  PROVE  InOrder(e2, Moved(rs, sh, t))
  <1>. DEFINE r == Moved(rs, sh, t)
  <1>1. /\ r.SP = rs.SP + sh /\ r.E = rs.E + sh /\ r.SPB = rs.SPB + sh
        /\ r.HB = rs.HB + sh /\ r.H = rs.H + sh /\ r.TR = rs.TR + t
        /\ r.B = IF rs.B = Null THEN Null ELSE rs.B + t
    BY MovedIs
  <1>2. /\ rs.SP \in Int /\ rs.E \in Int /\ rs.SPB \in Int /\ rs.HB \in Int /\ rs.H \in Int
        /\ rs.TR \in Int /\ rs.B \in Int
    BY DEF Registers
  <1>. HIDE DEF r
  <1>3. /\ rs.SP <= rs.SPB /\ rs.SPB <= e.heap_base /\ rs.SP <= rs.E /\ rs.E <= e.heap_base
        /\ e.heap_base <= rs.HB /\ rs.HB <= rs.H /\ rs.TR <= e.trail_base
    BY DEF InOrder
  <1>4. /\ e2.stack_max < r.SP /\ r.SP <= r.SPB /\ r.SPB <= e2.heap_base
        /\ r.SP <= r.E /\ r.E <= e2.heap_base
        /\ e2.heap_base <= r.HB /\ r.HB <= r.H /\ r.H < r.TR /\ r.TR <= e2.trail_base
    BY <1>1, <1>2, <1>3
  <1>5. ASSUME r.B # Null PROVE r.TR <= r.B /\ r.B <= e2.trail_base - 4
    <2>1. rs.B # Null /\ r.B = rs.B + t
      BY <1>1, <1>5
    <2>2. rs.TR <= rs.B /\ rs.B <= e.trail_base - 4
      BY <2>1 DEF InOrder
    <2>. QED BY <1>1, <1>2, <2>1, <2>2
  <1>. QED BY <1>4, <1>5 DEF InOrder, r

Shifted(x, offset) == IF x = Null THEN Null ELSE x + offset

(* An engine after an update of its fields: a record set as large as this  *)
(* one is expanded here and nowhere else.                                  *)
Updated(e, base, stack, heap, a1, a2, a3, a4, f, g) ==
  [e EXCEPT !.memory_base = base, !.stack_size = stack, !.heap_size = heap,
            !.stack_max = a1, !.heap_base = a2, !.trail_base = a3,
            !.globals_base = a4, !.free_list = f, !.reg = g]

UpdatedTo(r, base, stack, heap, a1, a2, a3, a4, f, g, saved) ==
  /\ r \in Engines
  /\ r.memory_base = base /\ r.stack_size = stack /\ r.heap_size = heap
  /\ r.stack_max = a1 /\ r.heap_base = a2 /\ r.trail_base = a3 /\ r.globals_base = a4
  /\ r.free_list = f /\ r.reg = g /\ r.regs = saved

LEMMA UpdatedEngine ==
  ASSUME NEW e \in Engines, NEW base \in Bases, NEW stack \in Int, NEW heap \in Int,
         NEW a1 \in Int, NEW a2 \in Int, NEW a3 \in Int, NEW a4 \in Int,
         NEW f \in Int, NEW g \in Registers
  PROVE  UpdatedTo(Updated(e, base, stack, heap, a1, a2, a3, a4, f, g),
                   base, stack, heap, a1, a2, a3, a4, f, g, e.regs)
  <1>. DEFINE saved == e.regs
              r == Updated(e, base, stack, heap, a1, a2, a3, a4, f, g)
              x == [memory_base |-> base, stack_size |-> stack, heap_size |-> heap,
                    stack_max |-> a1, heap_base |-> a2, trail_base |-> a3,
                    globals_base |-> a4, free_list |-> f, reg |-> g, regs |-> saved]
  <1>1. saved \in Seq(Registers)
    BY DEF Engines
  <1>2. e = [memory_base |-> e.memory_base, stack_size |-> e.stack_size,
             heap_size |-> e.heap_size, stack_max |-> e.stack_max, heap_base |-> e.heap_base,
             trail_base |-> e.trail_base, globals_base |-> e.globals_base,
             free_list |-> e.free_list, reg |-> e.reg, regs |-> e.regs]
    BY DEF Engines
  <1>3. r = x
    <2>1. r = [e EXCEPT !.memory_base = base, !.stack_size = stack, !.heap_size = heap,
                        !.stack_max = a1, !.heap_base = a2, !.trail_base = a3,
                        !.globals_base = a4, !.free_list = f, !.reg = g]
      BY DEF Updated
    <2>. HIDE DEF r
    <2>. QED BY <1>2, <2>1
  <1>. HIDE DEF saved, r
  <1>4. x \in Engines
    BY <1>1 DEF Engines
  <1>5. /\ x.memory_base = base /\ x.stack_size = stack /\ x.heap_size = heap
        /\ x.stack_max = a1 /\ x.heap_base = a2 /\ x.trail_base = a3 /\ x.globals_base = a4
        /\ x.free_list = f /\ x.reg = g /\ x.regs = saved
    OBVIOUS
  <1>. HIDE DEF x
  <1>. QED BY <1>3, <1>4, <1>5 DEF saved, r, UpdatedTo

LEMMA ResizeIs ==
  ASSUME NEW s, s.pe \in Engines, NEW D, s.mem \in [D -> Words],
         NEW stack \in Int, NEW heap \in Int, NEW base \in Bases
  PROVE  LET r == Resize(s, stack, heap, base)
             o == base - s.pe.memory_base
         IN  /\ r.mem \in [Block(base, stack, heap, s.pe.globals_base - s.pe.trail_base) -> Words]
             /\ r.pe \in Engines /\ o \in Int
             /\ r.pe.memory_base = base /\ r.pe.stack_size = stack /\ r.pe.heap_size = heap
             /\ r.pe.stack_max = s.pe.stack_max + o /\ r.pe.heap_base = s.pe.heap_base + o
             /\ r.pe.trail_base = s.pe.trail_base + o /\ r.pe.globals_base = s.pe.globals_base + o
             /\ r.pe.free_list = Shifted(s.pe.free_list, o)
             /\ r.pe.reg = Moved(s.pe.reg, o, o) /\ r.pe.regs = s.pe.regs
  <1>. DEFINE e == s.pe
              o == base - s.pe.memory_base
              r == Resize(s, stack, heap, base)
              B == Block(base, stack, heap, e.globals_base - e.trail_base)
              f == Shifted(e.free_list, o)
              g == Moved(e.reg, o, o)
              a1 == e.stack_max + o
              a2 == e.heap_base + o
              a3 == e.trail_base + o
              a4 == e.globals_base + o
  <1>1. /\ e.memory_base \in Int /\ base \in Int /\ e.stack_max \in Int /\ e.heap_base \in Int
        /\ e.trail_base \in Int /\ e.globals_base \in Int /\ e.free_list \in Int
        /\ e.reg \in Registers /\ e.regs \in Seq(Registers)
    <2>1. \A b \in Bases : b \in Int
      BY SizeAssumption
    <2>2. /\ e.memory_base \in Bases /\ e.stack_max \in Int /\ e.heap_base \in Int
          /\ e.trail_base \in Int /\ e.globals_base \in Int /\ e.free_list \in Int
          /\ e.reg \in Registers /\ e.regs \in Seq(Registers)
      BY DEF Engines
    <2>. QED BY <2>1, <2>2
  <1>2. o \in Int
    BY <1>1
  <1>3. /\ f \in Int /\ g \in Registers /\ a1 \in Int /\ a2 \in Int /\ a3 \in Int /\ a4 \in Int
    <2>. HIDE DEF e, o
    <2>1. g \in Registers
      BY <1>1, <1>2, MovedIs
    <2>2. f \in Int
      BY <1>1, <1>2 DEF Shifted, Null
    <2>3. \A x, y \in Int : x + y \in Int
      OBVIOUS
    <2>4. a1 \in Int /\ a2 \in Int /\ a3 \in Int /\ a4 \in Int
      BY Zenon, <1>1, <1>2, <2>3
    <2>. QED BY <2>1, <2>2, <2>4
  <1>4. r.mem = [a \in B |-> IF a - o \in DOMAIN s.mem THEN s.mem[a - o] ELSE Const]
    BY DEF Resize
  <1>5. r.pe = [e EXCEPT !.memory_base = base, !.stack_size = stack, !.heap_size = heap,
                         !.stack_max = a1, !.heap_base = a2, !.trail_base = a3,
                         !.globals_base = a4, !.free_list = f, !.reg = g]
    BY DEF Resize, Engines, Shifted
  <1>6. r.mem \in [B -> Words]
    <2>1. Const \in Words /\ \A a \in DOMAIN s.mem : s.mem[a] \in Words
      BY DEF Const, Words
    <2>. HIDE DEF B, o
    <2>. QED BY <1>4, <2>1
  <1>. HIDE DEF o, f, g, a1, a2, a3, a4, r
  <1>7. /\ r.pe \in Engines
        /\ r.pe.memory_base = base /\ r.pe.stack_size = stack /\ r.pe.heap_size = heap
        /\ r.pe.stack_max = a1 /\ r.pe.heap_base = a2
        /\ r.pe.trail_base = a3 /\ r.pe.globals_base = a4
        /\ r.pe.free_list = f /\ r.pe.reg = g /\ r.pe.regs = e.regs
    <2>1. r.pe = Updated(e, base, stack, heap, a1, a2, a3, a4, f, g)
      BY <1>5 DEF Updated
    <2>2. UpdatedTo(r.pe, base, stack, heap, a1, a2, a3, a4, f, g, e.regs)
      BY <1>3, <2>1, UpdatedEngine
    <2>. QED BY <2>2 DEF UpdatedTo
  <1>. QED BY <1>2, <1>6, <1>7 DEF o, f, g, a1, a2, a3, a4, r

LEMMA MoveTyped ==
  ASSUME NEW D, NEW m, m \in [D -> Words], NEW from, NEW to, NEW offset, from .. to - 1 \subseteq D
  PROVE  Move(m, from, to, offset) \in [D -> Words]
  BY DEF Move

ShiftsTo(s, r, D, stack, heap) ==
  LET sh == (s.pe.memory_base + stack) - s.pe.heap_base
      t == (s.pe.memory_base + stack + heap - 1) - s.pe.trail_base
  IN  /\ r.mem \in [D -> Words] /\ r.pe \in Engines /\ sh \in Int /\ t \in Int
      /\ r.pe.memory_base = s.pe.memory_base /\ r.pe.stack_size = s.pe.stack_size
      /\ r.pe.heap_size = s.pe.heap_size /\ r.pe.stack_max = s.pe.stack_max
      /\ r.pe.heap_base = s.pe.heap_base + sh
      /\ r.pe.trail_base = s.pe.trail_base + t /\ r.pe.globals_base = s.pe.globals_base + t
      /\ r.pe.free_list = Shifted(s.pe.free_list, t)
      /\ r.pe.reg = Moved(s.pe.reg, sh, t) /\ r.pe.regs = s.pe.regs

Holds(s, D) ==
  /\ s.pe \in Engines /\ s.mem \in [D -> Words]
  /\ s.pe.reg.SP .. s.pe.reg.H - 1 \subseteq D
  /\ s.pe.reg.TR .. s.pe.globals_base - 1 \subseteq D

LEMMA ShiftIs ==
  ASSUME NEW s, NEW D, Holds(s, D), NEW stack \in Int, NEW heap \in Int
  PROVE  ShiftsTo(s, Shift(s, stack, heap), D, stack, heap)
  <1>. DEFINE e == s.pe
              sh == (e.memory_base + stack) - e.heap_base
              t == (e.memory_base + stack + heap - 1) - e.trail_base
              t2 == (e.heap_base + sh + heap - 1) - e.trail_base
              r == Shift(s, stack, heap)
              f == Shifted(e.free_list, t)
              g == Moved(e.reg, sh, t)
              a2 == e.heap_base + sh
              a3 == e.trail_base + t
              a4 == e.globals_base + t
              m == Move(s.mem, e.reg.SP, e.reg.H, sh)
  <1>0. /\ e \in Engines /\ s.mem \in [D -> Words]
        /\ e.reg.SP .. e.reg.H - 1 \subseteq D /\ e.reg.TR .. e.globals_base - 1 \subseteq D
    BY DEF Holds
  <1>1. /\ e.memory_base \in Int /\ e.stack_max \in Int /\ e.heap_base \in Int
        /\ e.trail_base \in Int /\ e.globals_base \in Int /\ e.free_list \in Int
        /\ e.reg \in Registers /\ e.regs \in Seq(Registers)
    <2>1. \A b \in Bases : b \in Int
      BY SizeAssumption
    <2>2. /\ e.memory_base \in Bases /\ e.stack_max \in Int /\ e.heap_base \in Int
          /\ e.trail_base \in Int /\ e.globals_base \in Int /\ e.free_list \in Int
          /\ e.reg \in Registers /\ e.regs \in Seq(Registers)
      BY <1>0 DEF Engines
    <2>. QED BY <2>1, <2>2
  <1>2. sh \in Int /\ t \in Int /\ t2 = t
    BY <1>1
  <1>3. /\ f \in Int /\ g \in Registers /\ a2 \in Int /\ a3 \in Int /\ a4 \in Int
    <2>. HIDE DEF e, sh, t
    <2>1. g \in Registers
      BY <1>1, <1>2, MovedIs
    <2>2. f \in Int
      BY <1>1, <1>2 DEF Shifted, Null
    <2>3. a2 \in Int /\ a3 \in Int /\ a4 \in Int
      <3>1. \A x, y \in Int : x + y \in Int
        OBVIOUS
      <3>. QED BY Zenon, <1>1, <1>2, <3>1
    <2>. QED BY <2>1, <2>2, <2>3
  <1>4. r.mem = Move(m, e.reg.TR, e.globals_base, t2)
    BY DEF Shift
  <1>5. m \in [D -> Words]
    BY <1>0, MoveTyped
  <1>6. r.mem \in [D -> Words]
    <2>. HIDE DEF m, r, t2
    <2>. QED BY <1>0, <1>4, <1>5, MoveTyped
  <1>7. r.pe = [e EXCEPT !.heap_base = a2, !.trail_base = e.trail_base + t2,
                         !.globals_base = e.globals_base + t2,
                         !.free_list = IF e.free_list = Null THEN Null ELSE e.free_list + t2,
                         !.reg = Moved(e.reg, sh, t2)]
    BY <1>0 DEF Shift, Engines
  <1>8. r.pe = [e EXCEPT !.heap_base = a2, !.trail_base = a3, !.globals_base = a4,
                         !.free_list = f, !.reg = g]
    <2>. HIDE DEF t, t2, sh, r, a2
    <2>. QED BY <1>2, <1>7 DEF Shifted
  <1>. HIDE DEF sh, t, t2, f, g, a2, a3, a4, r
  <1>9. /\ r.pe \in Engines
        /\ r.pe.memory_base = e.memory_base /\ r.pe.stack_size = e.stack_size
        /\ r.pe.heap_size = e.heap_size /\ r.pe.stack_max = e.stack_max
        /\ r.pe.heap_base = a2 /\ r.pe.trail_base = a3 /\ r.pe.globals_base = a4
        /\ r.pe.free_list = f /\ r.pe.reg = g /\ r.pe.regs = e.regs
    <2>1. /\ e.memory_base \in Bases /\ e.stack_size \in Int /\ e.heap_size \in Int
          /\ e.stack_max \in Int
      BY <1>0 DEF Engines
    <2>. DEFINE b == e.memory_base
                ss == e.stack_size
                hs == e.heap_size
                a1 == e.stack_max
    <2>2. r.pe = Updated(e, b, ss, hs, a1, a2, a3, a4, f, g)
      BY <1>0, <1>8 DEF Engines, Updated
    <2>. HIDE DEF b, ss, hs, a1
    <2>3. UpdatedTo(r.pe, b, ss, hs, a1, a2, a3, a4, f, g, e.regs)
      BY <1>0, <1>3, <2>1, <2>2, UpdatedEngine DEF b, ss, hs, a1
    <2>. QED BY <2>3 DEF UpdatedTo, b, ss, hs, a1
  <1>. QED BY <1>2, <1>6, <1>9 DEF ShiftsTo, sh, t, f, g, a2, a3, a4, r

LEMMA ShiftedTwice ==
  ASSUME NEW x \in Int, NEW s \in Int, NEW t \in Int, x # Null /\ x + s = Null => t = 0
  PROVE  Shifted(Shifted(x, s), t) = Shifted(x, s + t)
  BY DEF Shifted, Null

(* The engine e with the sizes stack and heap, its block at base *)
Placed(e, r, stack, heap, base) ==
  LET sh == base + stack - e.heap_base
      t == base + stack + heap - 1 - e.trail_base
  IN  /\ r.mem \in [Block(base, stack, heap, e.globals_base - e.trail_base) -> Words]
      /\ r.pe \in Engines /\ sh \in Int /\ t \in Int
      /\ r.pe.memory_base = base /\ r.pe.stack_max = base
      /\ r.pe.stack_size + r.pe.heap_size = stack + heap
      /\ r.pe.heap_base = e.heap_base + sh /\ r.pe.trail_base = e.trail_base + t
      /\ r.pe.globals_base = e.globals_base + t
      /\ r.pe.free_list = Shifted(e.free_list, t)
      /\ r.pe.reg = Moved(e.reg, sh, t) /\ r.pe.regs = e.regs

(* All that is in use is in the block, above 0. *)
LEMMA InBlock ==
  ASSUME NEW m, NEW e, NEW used, Good(m, e, used)
  PROVE  /\ e.memory_base \in Int /\ e.memory_base > 0 /\ e.memory_base = e.stack_max
         /\ e.stack_size \in Int /\ e.heap_size \in Int
         /\ e.heap_base \in Int /\ e.trail_base \in Int /\ e.globals_base \in Int
         /\ e.free_list \in Int
         /\ e.reg \in Registers /\ e.reg.SP \in Int /\ e.reg.H \in Int /\ e.reg.TR \in Int
         /\ e.reg.B \in Int
         /\ e.memory_base < e.reg.SP /\ e.reg.SP <= e.heap_base
         /\ e.heap_base <= e.reg.H /\ e.reg.H < e.reg.TR /\ e.reg.TR <= e.trail_base
         /\ e.trail_base <= e.globals_base
         /\ e.reg.B # Null => e.memory_base < e.reg.B
         /\ e.trail_base = e.memory_base + e.stack_size + e.heap_size - 1
  <1>1. /\ e.memory_base \in Int /\ e.memory_base > 0
        /\ e.stack_size \in Int /\ e.heap_size \in Int
        /\ e.heap_base \in Int /\ e.trail_base \in Int /\ e.globals_base \in Int
        /\ e.free_list \in Int /\ e.reg \in Registers
    <2>1. /\ e.memory_base \in Nat \ {0}
          /\ e.stack_size \in Int /\ e.heap_size \in Int
          /\ e.heap_base \in Int /\ e.trail_base \in Int /\ e.globals_base \in Int
          /\ e.free_list \in Int /\ e.reg \in Registers
      BY GoodFacts
    <2>. QED BY <2>1
  <1>2. /\ e.reg.SP \in Int /\ e.reg.H \in Int /\ e.reg.TR \in Int /\ e.reg.B \in Int
        /\ e.reg.SPB \in Int /\ e.reg.HB \in Int
    BY <1>1 DEF Registers
  <1>3. Bounded(e) /\ InOrder(e, e.reg)
    BY DEF Good, AllInOrder
  <1>4. /\ e.memory_base = e.stack_max /\ e.memory_base <= e.heap_base
        /\ e.trail_base <= e.globals_base
        /\ e.trail_base = e.memory_base + e.stack_size + e.heap_size - 1
    BY <1>3 DEF Bounded
  <1>5. /\ e.stack_max < e.reg.SP /\ e.reg.SP <= e.reg.SPB /\ e.reg.SPB <= e.heap_base
        /\ e.heap_base <= e.reg.HB /\ e.reg.HB <= e.reg.H /\ e.reg.H < e.reg.TR
        /\ e.reg.TR <= e.trail_base
        /\ e.reg.B # Null => e.reg.TR <= e.reg.B
    BY <1>3 DEF InOrder
  <1>. QED BY <1>1, <1>2, <1>4, <1>5

LEMMA SizedIs ==
  ASSUME Good(mem, pe, inuse), NEW stack \in Int, NEW heap \in Int, NEW base \in Bases,
         base = pe.memory_base \/ stack + heap > pe.stack_size + pe.heap_size,
         pe.free_list = Null \/ pe.trail_base <= pe.free_list
  PROVE  Placed(pe, Sized(stack, heap, base), stack, heap, base)
  <1>. DEFINE s == [mem |-> mem, pe |-> pe]
              G == pe.globals_base - pe.trail_base
              D == Block(pe.memory_base, pe.stack_size, pe.heap_size, G)
              B == Block(base, stack, heap, G)
              sh == base + stack - pe.heap_base
              t == base + stack + heap - 1 - pe.trail_base
              d == (stack + heap) - (pe.stack_size + pe.heap_size)
              o == base - pe.memory_base
  <1>1. /\ pe \in Engines /\ s.pe = pe /\ s.mem \in [D -> Words]
    BY DEF Good, Area
  <1>2. base \in Int /\ base > 0
    BY SizeAssumption
  <1>3. /\ pe.memory_base \in Int /\ pe.memory_base > 0 /\ pe.memory_base = pe.stack_max
        /\ pe.stack_size \in Int /\ pe.heap_size \in Int
        /\ pe.heap_base \in Int /\ pe.trail_base \in Int /\ pe.globals_base \in Int
        /\ pe.free_list \in Int
        /\ pe.reg \in Registers /\ pe.reg.SP \in Int /\ pe.reg.H \in Int /\ pe.reg.TR \in Int
        /\ pe.reg.B \in Int
        /\ pe.memory_base < pe.reg.SP /\ pe.reg.SP <= pe.heap_base
        /\ pe.heap_base <= pe.reg.H /\ pe.reg.H < pe.reg.TR /\ pe.reg.TR <= pe.trail_base
        /\ pe.trail_base <= pe.globals_base
        /\ pe.reg.B # Null => pe.memory_base < pe.reg.B
        /\ pe.trail_base = pe.memory_base + pe.stack_size + pe.heap_size - 1
    BY InBlock
  <1>4. sh \in Int /\ t \in Int /\ d \in Int /\ o \in Int /\ G \in Int
    BY <1>2, <1>3
  <1>5. /\ pe.reg.SP .. pe.reg.H - 1 \subseteq D
        /\ pe.reg.TR .. pe.globals_base - 1 \subseteq D
    BY <1>3 DEF Block
  <1>6. CASE d > 0
    <2>. DEFINE s1 == Resize(s, stack, heap, base)
                s2 == Shift(s1, stack, heap)
                sh2 == (s1.pe.memory_base + stack) - s1.pe.heap_base
                t2 == (s1.pe.memory_base + stack + heap - 1) - s1.pe.trail_base
    <2>1. Sized(stack, heap, base) = s2
      BY <1>6 DEF Sized
    <2>2. /\ s1.mem \in [B -> Words]
          /\ s1.pe \in Engines
          /\ s1.pe.memory_base = base /\ s1.pe.stack_size = stack /\ s1.pe.heap_size = heap
          /\ s1.pe.stack_max = pe.stack_max + o /\ s1.pe.heap_base = pe.heap_base + o
          /\ s1.pe.trail_base = pe.trail_base + o /\ s1.pe.globals_base = pe.globals_base + o
          /\ s1.pe.free_list = Shifted(pe.free_list, o)
          /\ s1.pe.reg = Moved(pe.reg, o, o) /\ s1.pe.regs = pe.regs
      <3>. HIDE DEF s, D
      <3>. QED BY <1>1, ResizeIs
    <2>3. s1.pe.reg.SP = pe.reg.SP + o /\ s1.pe.reg.H = pe.reg.H + o /\ s1.pe.reg.TR = pe.reg.TR + o
      BY <1>3, <1>4, <2>2, MovedIs
    <2>. HIDE DEF s1
    <2>4. /\ s1.pe.reg.SP .. s1.pe.reg.H - 1 \subseteq B
          /\ s1.pe.reg.TR .. s1.pe.globals_base - 1 \subseteq B
      <3>1. G >= 0
        BY <1>3
      <3>2. /\ base <= s1.pe.reg.SP /\ s1.pe.reg.H - 1 <= base + stack + heap + G - 1
            /\ base <= s1.pe.reg.TR /\ s1.pe.globals_base - 1 <= base + stack + heap + G - 1
        BY <1>2, <1>3, <1>6, <2>2, <2>3
      <3>3. /\ s1.pe.reg.SP \in Int /\ s1.pe.reg.H \in Int /\ s1.pe.reg.TR \in Int
            /\ s1.pe.globals_base \in Int
        BY <1>3, <1>4, <2>2, <2>3
      <3>. HIDE DEF G
      <3>. QED BY <1>2, <1>4, <3>2, <3>3 DEF Block
    <2>5. /\ s2.mem \in [B -> Words] /\ s2.pe \in Engines /\ sh2 \in Int /\ t2 \in Int
          /\ s2.pe.memory_base = s1.pe.memory_base /\ s2.pe.stack_size = s1.pe.stack_size
          /\ s2.pe.heap_size = s1.pe.heap_size /\ s2.pe.stack_max = s1.pe.stack_max
          /\ s2.pe.heap_base = s1.pe.heap_base + sh2
          /\ s2.pe.trail_base = s1.pe.trail_base + t2 /\ s2.pe.globals_base = s1.pe.globals_base + t2
          /\ s2.pe.free_list = Shifted(s1.pe.free_list, t2)
          /\ s2.pe.reg = Moved(s1.pe.reg, sh2, t2) /\ s2.pe.regs = s1.pe.regs
      <3>. HIDE DEF B
      <3>1. Holds(s1, B)
        BY <2>2, <2>4 DEF Holds
      <3>2. ShiftsTo(s1, s2, B, stack, heap)
        BY <3>1, ShiftIs
      <3>. HIDE DEF s2
      <3>. QED BY <3>2 DEF ShiftsTo
    <2>6. o + sh2 = sh /\ o + t2 = t
      BY <1>2, <1>3, <2>2
    <2>. HIDE DEF s2, sh2, t2, o, sh, t
    <2>7. s2.pe.reg = Moved(pe.reg, sh, t)
      <3>1. pe.reg.B # Null => pe.reg.B + o # Null
        BY <1>2, <1>3 DEF o, Null
      <3>2. Moved(Moved(pe.reg, o, o), sh2, t2) = Moved(pe.reg, o + sh2, o + t2)
        <4>1. pe.reg.B # Null /\ pe.reg.B + o = Null => t2 = 0
          BY <3>1
        <4>2. pe.reg \in Registers /\ o \in Int /\ sh2 \in Int /\ t2 \in Int
          BY <1>3, <1>4, <2>5
        <4>. QED BY <4>1, <4>2, MovedTwice
      <3>. QED BY <2>2, <2>5, <2>6, <3>2
    <2>8. s2.pe.free_list = Shifted(pe.free_list, t)
      <3>1. pe.free_list # Null => pe.free_list + o # Null
        BY <1>2, <1>3 DEF o, Null
      <3>2. Shifted(Shifted(pe.free_list, o), t2) = Shifted(pe.free_list, o + t2)
        <4>1. pe.free_list # Null /\ pe.free_list + o = Null => t2 = 0
          BY <3>1
        <4>2. pe.free_list \in Int /\ o \in Int /\ t2 \in Int
          BY <1>3, <1>4, <2>5
        <4>. QED BY <4>1, <4>2, ShiftedTwice
      <3>3. s2.pe.free_list = Shifted(Shifted(pe.free_list, o), t2)
        BY <2>2, <2>5
      <3>. QED BY <2>6, <3>2, <3>3
    <2>9. /\ s2.pe.heap_base = pe.heap_base + sh /\ s2.pe.trail_base = pe.trail_base + t
          /\ s2.pe.globals_base = pe.globals_base + t
      BY <1>3, <1>4, <2>2, <2>5, <2>6
    <2>10. s2.pe.stack_max = base
      BY <1>2, <1>3, <2>2, <2>5 DEF o
    <2>. QED BY <1>4, <2>1, <2>2, <2>5, <2>7, <2>8, <2>9, <2>10 DEF Placed, sh, t
  <1>7. ASSUME ~ (d > 0)
        PROVE  /\ base = pe.memory_base
               /\ LET r == Shift(s, stack, heap)
                  IN  /\ r.mem \in [D -> Words] /\ r.pe \in Engines
                      /\ r.pe.memory_base = base /\ r.pe.stack_size = pe.stack_size
                      /\ r.pe.heap_size = pe.heap_size /\ r.pe.stack_max = base
                      /\ r.pe.heap_base = pe.heap_base + sh
                      /\ r.pe.trail_base = pe.trail_base + t
                      /\ r.pe.globals_base = pe.globals_base + t
                      /\ r.pe.free_list = Shifted(pe.free_list, t)
                      /\ r.pe.reg = Moved(pe.reg, sh, t) /\ r.pe.regs = pe.regs
    <2>. DEFINE r == Shift(s, stack, heap)
                sh1 == (pe.memory_base + stack) - pe.heap_base
                t1 == (pe.memory_base + stack + heap - 1) - pe.trail_base
    <2>1. base = pe.memory_base
      BY <1>3, <1>7
    <2>2. sh1 = sh /\ t1 = t
      BY <1>2, <1>3, <2>1
    <2>3. /\ r.mem \in [D -> Words] /\ r.pe \in Engines
          /\ r.pe.memory_base = pe.memory_base /\ r.pe.stack_size = pe.stack_size
          /\ r.pe.heap_size = pe.heap_size /\ r.pe.stack_max = pe.stack_max
          /\ r.pe.heap_base = pe.heap_base + sh1
          /\ r.pe.trail_base = pe.trail_base + t1 /\ r.pe.globals_base = pe.globals_base + t1
          /\ r.pe.free_list = Shifted(pe.free_list, t1)
          /\ r.pe.reg = Moved(pe.reg, sh1, t1) /\ r.pe.regs = pe.regs
      <3>. HIDE DEF s, D
      <3>1. Holds(s, D)
        BY <1>1, <1>5 DEF Holds
      <3>2. ShiftsTo(s, r, D, stack, heap)
        BY <3>1, ShiftIs
      <3>. HIDE DEF r
      <3>. QED BY <1>1, <3>2 DEF ShiftsTo
    <2>. HIDE DEF r, sh1, t1, sh, t
    <2>. QED BY <1>3, <2>1, <2>2, <2>3 DEF r
  <1>8. CASE d = 0
    <2>1. Sized(stack, heap, base) = Shift(s, stack, heap) /\ ~ (d > 0)
      BY <1>8 DEF Sized
    <2>2. D = B /\ pe.stack_size + pe.heap_size = stack + heap
      <3>1. base = pe.memory_base /\ pe.stack_size + pe.heap_size = stack + heap
        <4>1. base = pe.memory_base
          BY <1>7, <2>1
        <4>2. \A a, b, c, e \in Int : (a + b) - (c + e) = 0 => c + e = a + b
          OBVIOUS
        <4>. QED BY <1>3, <1>8, <4>1, <4>2
      <3>2. pe.memory_base + pe.stack_size + pe.heap_size + G - 1 = base + stack + heap + G - 1
        BY <1>3, <1>4, <3>1
      <3>. QED BY <3>1, <3>2 DEF Block
    <2>. HIDE DEF D, B, sh, t, s
    <2>. QED BY <1>4, <1>7, <2>1, <2>2 DEF Placed, B, sh, t
  <1>9. CASE ~ (d > 0) /\ d # 0
    <2>. DEFINE s1 == Shift(s, stack, heap)
                s2 == Resize(s1, stack, heap, base)
    <2>1. Sized(stack, heap, base) = s2
      BY <1>9 DEF Sized
    <2>2. /\ base = pe.memory_base
          /\ s1.mem \in [D -> Words] /\ s1.pe \in Engines
          /\ s1.pe.memory_base = base /\ s1.pe.stack_size = pe.stack_size
          /\ s1.pe.heap_size = pe.heap_size /\ s1.pe.stack_max = base
          /\ s1.pe.heap_base = pe.heap_base + sh
          /\ s1.pe.trail_base = pe.trail_base + t
          /\ s1.pe.globals_base = pe.globals_base + t
          /\ s1.pe.free_list = Shifted(pe.free_list, t)
          /\ s1.pe.reg = Moved(pe.reg, sh, t) /\ s1.pe.regs = pe.regs
      BY <1>7, <1>9
    <2>. DEFINE o1 == base - s1.pe.memory_base
    <2>. HIDE DEF s1, sh, t, D
    <2>3. LET r == s2
          IN  /\ r.mem \in [Block(base, stack, heap, s1.pe.globals_base - s1.pe.trail_base) -> Words]
              /\ r.pe \in Engines /\ o1 \in Int
              /\ r.pe.memory_base = base /\ r.pe.stack_size = stack /\ r.pe.heap_size = heap
              /\ r.pe.stack_max = s1.pe.stack_max + o1 /\ r.pe.heap_base = s1.pe.heap_base + o1
              /\ r.pe.trail_base = s1.pe.trail_base + o1 /\ r.pe.globals_base = s1.pe.globals_base + o1
              /\ r.pe.free_list = Shifted(s1.pe.free_list, o1)
              /\ r.pe.reg = Moved(s1.pe.reg, o1, o1) /\ r.pe.regs = s1.pe.regs
      BY <2>2, ResizeIs
    <2>4. o1 = 0
      BY <1>2, <2>2
    <2>5. s1.pe.globals_base - s1.pe.trail_base = G
      <3>1. \A a, b, c \in Int : (a + c) - (b + c) = a - b
        OBVIOUS
      <3>. QED BY <1>3, <1>4, <2>2, <3>1
    <2>. HIDE DEF s2, o1
    <2>6. s2.pe.reg = Moved(pe.reg, sh, t)
      <3>1. s2.pe.reg = Moved(Moved(pe.reg, sh, t), 0, 0)
        BY <2>2, <2>3, <2>4
      <3>2. Moved(Moved(pe.reg, sh, t), 0, 0) = Moved(pe.reg, sh + 0, t + 0)
        BY <1>3, <1>4, MovedTwice
      <3>3. sh + 0 = sh /\ t + 0 = t
        BY <1>4
      <3>. QED BY <3>1, <3>2, <3>3
    <2>7. s2.pe.free_list = Shifted(pe.free_list, t)
      BY <1>3, <1>4, <2>2, <2>3, <2>4 DEF Shifted, Null
    <2>8. /\ s2.pe.heap_base = pe.heap_base + sh /\ s2.pe.trail_base = pe.trail_base + t
          /\ s2.pe.globals_base = pe.globals_base + t /\ s2.pe.stack_max = base
      <3>1. \A x \in Int : x + 0 = x
        OBVIOUS
      <3>2. pe.heap_base + sh \in Int /\ pe.trail_base + t \in Int /\ pe.globals_base + t \in Int
        BY <1>3, <1>4
      <3>. QED BY <1>2, <2>2, <2>3, <2>4, <3>1, <3>2
    <2>. HIDE DEF G
    <2>9. s2.mem \in [B -> Words]
      BY <2>3, <2>5
    <2>. QED BY <1>4, <2>1, <2>2, <2>3, <2>6, <2>7, <2>8, <2>9 DEF Placed, sh, t, G
  <1>. QED BY <1>4, <1>6, <1>8, <1>9

------------------------------------------------------------------------------
(***************************************************************************)
(* What relocation does to the words: their places stay.                   *)
(***************************************************************************)
LEMMA OffsetTyped ==
  ASSUME NEW w \in Words, NEW offset \in Int
  PROVE  Offset(w, offset) \in Words
  BY DEF Offset, Words

Relocated(s, r, D, sh, t) ==
  /\ r.mem \in [D -> Words]
  /\ r.pe = [s.pe EXCEPT !.regs = [i \in DOMAIN s.pe.regs |-> Moved(s.pe.regs[i], sh, t)]]

LEMMA RelocateIs ==
  ASSUME NEW s, NEW D, s.pe \in Engines, s.mem \in [D -> Words], NEW old \in Int, NEW sh \in Int, NEW t \in Int
  PROVE  Relocated(s, Relocate(s, old, sh, t), D, sh, t)
  <1>. DEFINE m == s.mem
              e == s.pe
              chain == Chain(m, e, t)
              inChain == UNION {c .. c + 3 : c \in chain}
              oldest == CHOOSE c \in chain : \A d \in chain : d <= c
              freed == Freed(m, e, t)
              global(a) ==
                IF a \in freed THEN IF m[a].val = Null THEN m[a] ELSE Offset(m[a], t)
                ELSE IF m[a].val \in e.trail_base .. e.globals_base - 1 THEN m[a]
                ELSE Offset(m[a], sh)
              scanned == Scanned(m, e) \cup OnStack(m, e, old, t)
                           \cup {c + k : c \in chain, k \in 1 .. 2}
                           \cup {a \in e.reg.TR .. e.trail_base - 1 :
                                   chain # {} /\ a < oldest /\ a \notin inChain}
              links == {c + 3 : c \in {d \in chain : m[d + 3].val # Null}}
              word(a) ==
                IF a \in scanned THEN Offset(m[a], sh)
                ELSE IF a \in links THEN Offset(m[a], t)
                ELSE IF a \in e.trail_base .. e.globals_base - 1 /\ e.free_list # Null
                THEN global(a)
                ELSE m[a]
              r == Relocate(s, old, sh, t)
  <1>1. r.mem = [a \in DOMAIN m |-> word(a)]
    BY DEF Relocate
  <1>2. r.pe = [e EXCEPT !.regs = [i \in DOMAIN e.regs |-> Moved(e.regs[i], sh, t)]]
    BY DEF Relocate, Engines
  <1>3. ASSUME NEW a \in D PROVE word(a) \in Words
    <2>1. m[a] \in Words
      OBVIOUS
    <2>2. Offset(m[a], sh) \in Words /\ Offset(m[a], t) \in Words
      BY <2>1, OffsetTyped
    <2>. HIDE DEF m, scanned, links, freed
    <2>. QED BY <2>1, <2>2
  <1>. HIDE DEF r, word
  <1>4. r.mem \in [D -> Words]
    BY <1>1, <1>3
  <1>. QED BY <1>2, <1>4 DEF Relocated, r

LiveOf(D, m, e) ==
  /\ Live(m, e) \in [D -> Words]
  /\ \A a \in D : a \in e.reg.TR .. e.globals_base - 1 => Live(m, e)[a] = m[a]

LEMMA LiveIs ==
  ASSUME NEW D, NEW m, m \in [D -> Words], NEW e
  PROVE  LiveOf(D, m, e)
  BY DEF LiveOf, Live, Const, Words

(* The bounds and registers of the engine are in order afterwards, if what *)
(* is in use fits in.                                                      *)
LEMMA PlacedInOrder ==
  ASSUME Good(mem, pe, inuse), NEW stack \in Int, NEW heap \in Int, NEW base \in Bases,
         NEW s, Placed(pe, s, stack, heap, base),
         Fits(stack, heap), NEW e \in Engines,
         e = [s.pe EXCEPT !.regs =
               [i \in DOMAIN s.pe.regs |->
                 Moved(s.pe.regs[i], s.pe.heap_base - pe.heap_base, s.pe.trail_base - pe.trail_base)]]
  PROVE  Bounded(e) /\ AllInOrder(e)
  <1>. DEFINE sh == base + stack - pe.heap_base
              t == base + stack + heap - 1 - pe.trail_base
  <1>1. /\ s.pe \in Engines /\ sh \in Int /\ t \in Int
        /\ s.pe.memory_base = base /\ s.pe.stack_max = base
        /\ s.pe.stack_size + s.pe.heap_size = stack + heap
        /\ s.pe.heap_base = pe.heap_base + sh /\ s.pe.trail_base = pe.trail_base + t
        /\ s.pe.globals_base = pe.globals_base + t
        /\ s.pe.reg = Moved(pe.reg, sh, t) /\ s.pe.regs = pe.regs
    BY DEF Placed
  <1>2. base \in Int /\ base > 0
    BY SizeAssumption
  <1>3. /\ pe.memory_base \in Int /\ pe.memory_base > 0 /\ pe.memory_base = pe.stack_max
        /\ pe.heap_base \in Int /\ pe.trail_base \in Int /\ pe.globals_base \in Int
        /\ pe.reg \in Registers /\ pe.reg.SP \in Int /\ pe.reg.H \in Int /\ pe.reg.TR \in Int
        /\ pe.memory_base < pe.reg.SP /\ pe.reg.SP <= pe.heap_base
        /\ pe.heap_base <= pe.reg.H /\ pe.reg.H < pe.reg.TR /\ pe.reg.TR <= pe.trail_base
        /\ pe.trail_base <= pe.globals_base
    BY InBlock
  <1>4. /\ pe.heap_base - pe.reg.SP < stack
        /\ (pe.reg.H - pe.heap_base) + (pe.trail_base - pe.reg.TR) < heap - 1
    BY DEF Fits, SP, H, TR
  <1>5. s.pe.heap_base - pe.heap_base = sh /\ s.pe.trail_base - pe.trail_base = t
    <2>. HIDE DEF sh, t
    <2>1. \A x, y \in Int : (x + y) - x = y
      OBVIOUS
    <2>. QED BY <1>1, <1>3, <2>1
  <1>6. /\ base < pe.reg.SP + sh /\ pe.reg.H + sh < pe.reg.TR + t
    BY <1>2, <1>3, <1>4
  <1>7. /\ pe.heap_base + sh = base + stack /\ pe.trail_base + t = base + stack + heap - 1
        /\ stack > 0 /\ heap > 1
    BY <1>2, <1>3, <1>4
  <1>. HIDE DEF sh, t
  <1>8. e = [s.pe EXCEPT !.regs = [i \in DOMAIN pe.regs |-> Moved(pe.regs[i], sh, t)]]
    BY <1>1, <1>5
  <1>9. /\ e.memory_base = base /\ e.stack_max = base
        /\ e.stack_size + e.heap_size = stack + heap
        /\ e.heap_base = pe.heap_base + sh /\ e.trail_base = pe.trail_base + t
        /\ e.globals_base = pe.globals_base + t
        /\ e.reg = Moved(pe.reg, sh, t)
        /\ e.regs = [i \in DOMAIN pe.regs |-> Moved(pe.regs[i], sh, t)]
        /\ e.stack_size \in Int /\ e.heap_size \in Int
    BY <1>1, <1>8 DEF Engines
  <1>10. InOrder(pe, pe.reg) /\ Saves(pe, pe.reg, pe.regs) /\ pe.regs \in Seq(Registers)
    BY Numbers, GoodFacts
  <1>11. InOrder(e, e.reg)
    <2>1. e.stack_max < pe.reg.SP + sh
      BY <1>6, <1>9
    <2>2. InOrder(e, Moved(pe.reg, sh, t))
      BY <1>1, <1>3, <1>6, <1>9, <1>10, <2>1, MovedInOrder
    <2>. QED BY <1>9, <2>2
  <1>12. ASSUME NEW i \in DOMAIN e.regs PROVE InOrder(e, e.regs[i]) /\ Older(e.regs[i], e.reg)
    <2>. DEFINE rs == pe.regs[i]
    <2>1. rs \in Registers /\ e.regs[i] = Moved(rs, sh, t) /\ InOrder(pe, rs) /\ Older(rs, pe.reg)
      BY <1>9, <1>10 DEF Saves
    <2>. HIDE DEF rs
    <2>2. rs.SP \in Int /\ rs.H \in Int /\ rs.TR \in Int
      BY <2>1 DEF Registers
    <2>3. pe.reg.SP <= rs.SP /\ rs.H <= pe.reg.H /\ pe.reg.TR <= rs.TR
      BY <2>1 DEF Older
    <2>4. base < rs.SP + sh /\ rs.H + sh < rs.TR + t
      <3>1. /\ base \in Int /\ sh \in Int /\ t \in Int
            /\ pe.reg.SP \in Int /\ pe.reg.H \in Int /\ pe.reg.TR \in Int
        BY <1>1, <1>2, <1>3
      <3>. QED BY <1>6, <2>2, <2>3, <3>1
    <2>5. InOrder(e, Moved(rs, sh, t))
      BY <1>1, <1>3, <1>9, <2>1, <2>4, MovedInOrder
    <2>6. /\ Moved(rs, sh, t).SP = rs.SP + sh /\ Moved(rs, sh, t).H = rs.H + sh
          /\ Moved(rs, sh, t).TR = rs.TR + t
          /\ e.reg.SP = pe.reg.SP + sh /\ e.reg.H = pe.reg.H + sh /\ e.reg.TR = pe.reg.TR + t
      <3>1. \A x \in Registers : /\ Moved(x, sh, t).SP = x.SP + sh /\ Moved(x, sh, t).H = x.H + sh
                                 /\ Moved(x, sh, t).TR = x.TR + t
        <4>1. sh \in Int /\ t \in Int
          BY <1>1
        <4>. QED BY <4>1, MovedIs
      <3>2. pe.reg \in Registers /\ e.reg = Moved(pe.reg, sh, t)
        BY <1>3, <1>9
      <3>. QED BY Zenon, <2>1, <3>1, <3>2
    <2>7. Older(Moved(rs, sh, t), e.reg)
      BY <1>1, <1>3, <2>2, <2>3, <2>6 DEF Older
    <2>. QED BY <2>1, <2>5, <2>7
  <1>13. AllInOrder(e)
    BY <1>11, <1>12 DEF AllInOrder
  <1>14. e.globals_base - e.trail_base = pe.globals_base - pe.trail_base
    <2>1. \A x, y, z \in Int : (x + z) - (y + z) = x - y
      OBVIOUS
    <2>. QED BY <1>1, <1>3, <1>9, <2>1
  <1>15. Bounded(e)
    <2>1. pe.globals_base - pe.trail_base <= MaxGlobals
      BY DEF Good, Bounded
    <2>2. e.trail_base <= e.globals_base
      BY <1>1, <1>3, <1>9
    <2>3. \A a, b, c, d \in Int : c + d = a + b => base + a + b - 1 = base + c + d - 1
      BY <1>2
    <2>4. e.trail_base = e.memory_base + e.stack_size + e.heap_size - 1
      BY <1>7, <1>9, <2>3
    <2>5. e.memory_base <= e.heap_base /\ e.heap_base <= e.trail_base
      BY <1>2, <1>7, <1>9
    <2>. QED BY <1>9, <1>14, <2>1, <2>2, <2>4, <2>5 DEF Bounded
  <1>. QED BY <1>13, <1>15

------------------------------------------------------------------------------
(***************************************************************************)
(* The image of the engine tells where the free list is.                   *)
(***************************************************************************)
Rel(e, a) ==
  IF a = Null THEN << "null" >>
  ELSE IF a \in e.reg.SP .. e.reg.H THEN << "cell", a - e.heap_base >>
  ELSE IF a \in e.reg.TR .. e.globals_base THEN << "trail", a - e.trail_base >>
  ELSE << "astray", a >>

Seen(m, e, a) == IF m[a].tag = "ptr" THEN Rel(e, m[a].val) ELSE << m[a].tag, m[a].val >>

LEMMA ImageIs ==
  ASSUME NEW m, NEW e
  PROVE  /\ Image(m, e).trail = [d \in e.reg.TR - e.trail_base .. e.globals_base - 1 - e.trail_base |->
                                  Seen(m, e, e.trail_base + d)]
         /\ Image(m, e).free = Rel(e, e.free_list)
  BY DEF Image, Seen, Rel

(* Both engines are laid out alike, the trail area of e2 t words higher. *)
Alike(e, e2, t) ==
  /\ e.reg.TR \in Int /\ e.trail_base \in Int /\ e.globals_base \in Int /\ t \in Int
  /\ e2.reg.TR = e.reg.TR + t /\ e2.trail_base = e.trail_base + t
  /\ e2.globals_base = e.globals_base + t
  /\ 0 < e.reg.SP /\ e.reg.H < e.reg.TR /\ e.reg.TR <= e.trail_base /\ e.reg.SP \in Int /\ e.reg.H \in Int
  /\ e2.reg.SP \in Int /\ e2.reg.H \in Int /\ 0 < e2.reg.SP /\ e2.reg.SP <= e2.reg.H
  /\ e2.reg.H < e2.reg.TR

LEMMA RelApart ==
  ASSUME NEW e, NEW e2, NEW t, Alike(e, e2, t), NEW x \in Int, NEW y \in Int,
         Rel(e, x) = Rel(e2, y), x = Null \/ x \in e.trail_base .. e.globals_base - 1
  PROVE  y = IF x = Null THEN Null ELSE x + t
  <1>1. CASE x = Null
    BY <1>1 DEF Rel
  <1>2. CASE x # Null
    <2>1. /\ x \in e.trail_base .. e.globals_base - 1 /\ x \notin e.reg.SP .. e.reg.H
          /\ x \in e.reg.TR .. e.globals_base
      BY <1>2 DEF Alike
    <2>2. Rel(e, x) = << "trail", x - e.trail_base >>
      BY <1>2, <2>1 DEF Rel
    <2>3. y # Null /\ y \notin e2.reg.SP .. e2.reg.H /\ y \in e2.reg.TR .. e2.globals_base
      BY <2>2 DEF Rel
    <2>4. Rel(e2, y) = << "trail", y - e2.trail_base >>
      BY <2>3 DEF Rel
    <2>5. x - e.trail_base = y - e2.trail_base
      <3>1. \A u, v : << "trail", u >> = << "trail", v >> => u = v
        OBVIOUS
      <3>. QED BY <2>2, <2>4, <3>1, Zenon
    <2>6. y = x + t
      BY <2>5 DEF Alike
    <2>. QED BY <1>2, <2>6
  <1>. QED BY <1>1, <1>2

LEMMA WordsAlike ==
  ASSUME NEW m, NEW e, NEW m2, NEW e2, NEW t, Alike(e, e2, t), Image(m2, e2) = Image(m, e),
         NEW a \in e.trail_base .. e.globals_base - 1, m[a] \in Words, m2[a + t] \in Words,
         m[a].tag = "ptr", m[a].val = Null \/ m[a].val \in e.trail_base .. e.globals_base - 1
  PROVE  m2[a + t].tag = "ptr" /\ m2[a + t].val = IF m[a].val = Null THEN Null ELSE m[a].val + t
  <1>. DEFINE d == a - e.trail_base
              D == e.reg.TR - e.trail_base .. e.globals_base - 1 - e.trail_base
              D2 == e2.reg.TR - e2.trail_base .. e2.globals_base - 1 - e2.trail_base
  <1>1. d \in D /\ d \in D2 /\ e.trail_base + d = a /\ e2.trail_base + d = a + t
    BY DEF Alike
  <1>2. [x \in D |-> Seen(m, e, e.trail_base + x)] = [x \in D2 |-> Seen(m2, e2, e2.trail_base + x)]
    <2>1. Image(m, e).trail = [x \in D |-> Seen(m, e, e.trail_base + x)]
      BY ImageIs
    <2>2. Image(m2, e2).trail = [x \in D2 |-> Seen(m2, e2, e2.trail_base + x)]
      BY ImageIs
    <2>. QED BY <2>1, <2>2
  <1>3. Seen(m, e, e.trail_base + d) = Seen(m2, e2, e2.trail_base + d)
    <2>. HIDE DEF d, D, D2
    <2>1. [x \in D |-> Seen(m, e, e.trail_base + x)][d] = [x \in D2 |-> Seen(m2, e2, e2.trail_base + x)][d]
      BY <1>2
    <2>. QED BY <1>1, <2>1
  <1>4. Seen(m, e, a) = Seen(m2, e2, a + t)
    <2>. HIDE DEF d
    <2>. QED BY <1>1, <1>3
  <1>5. Seen(m, e, a) = Rel(e, m[a].val)
    BY DEF Seen
  <1>6. Seen(m, e, a)[1] \in {"null", "trail"}
    <2>1. CASE m[a].val = Null
      BY <1>5, <2>1 DEF Rel
    <2>2. CASE m[a].val # Null
      <3>1. /\ m[a].val \notin e.reg.SP .. e.reg.H /\ m[a].val \in e.reg.TR .. e.globals_base
        BY <2>2 DEF Alike
      <3>. QED BY <1>5, <2>2, <3>1 DEF Rel
    <2>. QED BY <2>1, <2>2
  <1>7. m2[a + t].tag = "ptr"
    <2>1. ASSUME m2[a + t].tag # "ptr" PROVE FALSE
      <3>1. Seen(m2, e2, a + t)[1] = m2[a + t].tag
        BY <2>1 DEF Seen
      <3>2. m2[a + t].tag \in {"const", "fence", "chars"}
        BY <2>1 DEF Words
      <3>. QED BY <1>4, <1>6, <3>1, <3>2
    <2>. QED BY <2>1
  <1>8. Rel(e, m[a].val) = Rel(e2, m2[a + t].val)
    BY <1>4, <1>5, <1>7 DEF Seen
  <1>9. m[a].val \in Int /\ m2[a + t].val \in Int
    BY DEF Words
  <1>. QED BY <1>7, <1>8, <1>9, RelApart

LEMMA FreeListKept ==
  ASSUME NEW m, NEW e, NEW m2, NEW e2, NEW used, NEW t, Alike(e, e2, t), FreeListed(m, e, used),
         Image(m2, e2) = Image(m, e), e.free_list \in Int, e2.free_list \in Int, e.trail_base > 0,
         e2.trail_base > 0,
         \A a \in e.trail_base .. e.globals_base - 1 : m[a] \in Words /\ m2[a + t] \in Words
  PROVE  FreeListed(m2, e2, used)
  <1>. DEFINE F == Vacant(e, used)
              G == Vacant(e2, used)
  <1>1. /\ e.trail_base \in Int /\ e.globals_base \in Int /\ t \in Int
        /\ e2.trail_base = e.trail_base + t /\ e2.globals_base = e.globals_base + t
    BY DEF Alike
  <1>2. \A a \in F : a \in e.trail_base .. e.globals_base - 1 /\ a \in Int /\ a # Null /\ a + t # Null
    BY <1>1 DEF Vacant, Null
  <1>3. \A a \in Int : a + t \in G <=> a \in F
    <2>1. \A a \in Int : /\ a + t \in e2.trail_base .. e2.globals_base - 1 <=> a \in e.trail_base .. e.globals_base - 1
                         /\ e2.globals_base - (a + t) = e.globals_base - a
      BY <1>1
    <2>. QED BY <2>1 DEF Vacant
  <1>4. \A b \in G : \E a \in F : b = a + t
    <2>1. \A b \in G : b \in Int
      BY <1>1 DEF Vacant
    <2>2. ASSUME NEW b \in G PROVE \E a \in F : b = a + t
      <3>1. b - t \in Int /\ b = (b - t) + t
        BY <1>1, <2>1
      <3>2. b - t \in F
        BY <1>3, <3>1
      <3>. QED BY <3>1, <3>2
    <2>. QED BY <2>2
  <1>5. /\ e.free_list \in F \cup {Null}
        /\ \A a \in F : /\ m[a].tag = "ptr" /\ m[a].val \in F \cup {Null}
                        /\ m[a].val = Null \/ m[a].val # e.free_list
        /\ \A a, b \in F : a # b /\ m[a].val = m[b].val => m[a].val = Null
    BY DEF FreeListed
  <1>6. e2.free_list = IF e.free_list = Null THEN Null ELSE e.free_list + t
    <2>1. Image(m, e).free = Rel(e, e.free_list) /\ Image(m2, e2).free = Rel(e2, e2.free_list)
      BY ImageIs
    <2>2. e.free_list = Null \/ e.free_list \in e.trail_base .. e.globals_base - 1
      BY <1>2, <1>5
    <2>. QED BY <2>1, <2>2, RelApart
  <1>7. ASSUME NEW a \in F
        PROVE  m2[a + t].tag = "ptr" /\ m2[a + t].val = IF m[a].val = Null THEN Null ELSE m[a].val + t
    <2>1. m[a].tag = "ptr" /\ (m[a].val = Null \/ m[a].val \in e.trail_base .. e.globals_base - 1)
      BY <1>2, <1>5
    <2>2. a \in e.trail_base .. e.globals_base - 1 /\ m[a] \in Words /\ m2[a + t] \in Words
      BY <1>2
    <2>. QED BY <2>1, <2>2, WordsAlike
  <1>8. \A x, y \in Int : x + t = y + t => x = y
    BY <1>1
  <1>. HIDE DEF F, G
  <1>9. e2.free_list \in G \cup {Null}
    BY <1>2, <1>3, <1>5, <1>6
  <1>10. \A a \in F : m[a].val = Null \/ (m[a].val \in F /\ m[a].val \in Int)
    BY <1>2, <1>5
  <1>11. ASSUME NEW b \in G
         PROVE  /\ m2[b].tag = "ptr" /\ m2[b].val \in G \cup {Null}
                /\ m2[b].val = Null \/ m2[b].val # e2.free_list
    <2>1. PICK a \in F : b = a + t
      BY <1>4
    <2>2. m2[b].tag = "ptr" /\ m2[b].val = IF m[a].val = Null THEN Null ELSE m[a].val + t
      BY <1>7, <2>1
    <2>3. CASE m[a].val = Null
      BY <2>2, <2>3
    <2>4. CASE m[a].val # Null
      <3>1. m2[b].val = m[a].val + t /\ m[a].val \in F /\ m[a].val \in Int /\ m[a].val # e.free_list
        BY <1>5, <1>10, <2>2, <2>4
      <3>2. m[a].val + t \in G /\ m[a].val + t # Null
        BY <1>2, <1>3, <3>1
      <3>3. m[a].val + t # e2.free_list
        BY <1>6, <1>8, <3>1, <3>2
      <3>. QED BY <2>2, <3>1, <3>2, <3>3
    <2>. QED BY <2>3, <2>4
  <1>12. ASSUME NEW b \in G, NEW c \in G, b # c, m2[b].val = m2[c].val PROVE m2[b].val = Null
    <2>1. PICK x \in F : b = x + t
      BY <1>4
    <2>2. PICK y \in F : c = y + t
      BY <1>4
    <2>3. x # y
      BY <1>12, <2>1, <2>2
    <2>4. /\ m2[b].val = IF m[x].val = Null THEN Null ELSE m[x].val + t
          /\ m2[c].val = IF m[y].val = Null THEN Null ELSE m[y].val + t
      BY <1>7, <2>1, <2>2
    <2>5. CASE m[x].val = Null \/ m[y].val = Null
      BY <1>12, <2>4, <2>5
    <2>6. CASE m[x].val # Null /\ m[y].val # Null
      <3>1. m[x].val \in Int /\ m[y].val \in Int /\ m[x].val + t = m[y].val + t
        BY <1>10, <1>12, <2>4, <2>6
      <3>2. m[x].val = m[y].val
        BY <1>8, <3>1
      <3>. QED BY <1>5, <2>3, <2>6, <3>2
    <2>. QED BY <2>5, <2>6
  <1>. QED BY <1>9, <1>11, <1>12 DEF FreeListed, G

LEMMA SizeEngineStep ==
  ASSUME IInv, intact, NEW stack \in Int, NEW heap \in Int, NEW base \in Bases,
         SizeEngine(stack, heap, base)
  PROVE  IInv'
  <1>. DEFINE s == Sized(stack, heap, base)
              sh == s.pe.heap_base - pe.heap_base
              t == s.pe.trail_base - pe.trail_base
              old == s.pe.stack_max - pe.stack_max
              r == Relocate(s, old, sh, t)
              D == Block(base, stack, heap, pe.globals_base - pe.trail_base)
  <1>1. Good(mem, pe, inuse) /\ FreeListed(mem, pe, inuse)
    BY DEF IInv
  <1>2. /\ Fits(stack, heap) /\ mem' = Live(r.mem, r.pe) /\ pe' = r.pe /\ inuse' = inuse
        /\ intact' = (Image(r.mem, r.pe) = Image(mem, pe))
        /\ (base = pe.memory_base \/ stack + heap > pe.stack_size + pe.heap_size)
    BY DEF SizeEngine
  <1>3. pe.free_list = Null \/ pe.trail_base <= pe.free_list
    <2>1. pe.free_list \in Vacant(pe, inuse) \cup {Null}
      BY <1>1 DEF FreeListed
    <2>. QED BY <1>1, <2>1, VacantIs
  <1>4. Placed(pe, s, stack, heap, base)
    BY <1>1, <1>2, <1>3, SizedIs
  <1>5. /\ pe.memory_base \in Int /\ pe.memory_base > 0 /\ pe.memory_base = pe.stack_max
        /\ pe.stack_size \in Int /\ pe.heap_size \in Int
        /\ pe.heap_base \in Int /\ pe.trail_base \in Int /\ pe.globals_base \in Int
        /\ pe.free_list \in Int
        /\ pe.reg \in Registers /\ pe.reg.SP \in Int /\ pe.reg.H \in Int /\ pe.reg.TR \in Int
        /\ pe.memory_base < pe.reg.SP /\ pe.reg.SP <= pe.heap_base
        /\ pe.heap_base <= pe.reg.H /\ pe.reg.H < pe.reg.TR /\ pe.reg.TR <= pe.trail_base
        /\ pe.trail_base <= pe.globals_base
    BY <1>1, InBlock
  <1>. HIDE DEF s
  <1>6. /\ s.mem \in [D -> Words] /\ s.pe \in Engines
        /\ s.pe.memory_base = base /\ s.pe.stack_max = base /\ base \in Int
        /\ s.pe.stack_size + s.pe.heap_size = stack + heap
        /\ s.pe.heap_base = pe.heap_base + (base + stack - pe.heap_base)
        /\ s.pe.trail_base = pe.trail_base + (base + stack + heap - 1 - pe.trail_base)
        /\ s.pe.globals_base = pe.globals_base + (base + stack + heap - 1 - pe.trail_base)
        /\ s.pe.reg = Moved(pe.reg, base + stack - pe.heap_base, base + stack + heap - 1 - pe.trail_base)
        /\ s.pe.regs = pe.regs
    <2>. HIDE DEF D
    <2>1. base \in Int
      BY SizeAssumption
    <2>. QED BY <1>4, <2>1 DEF Placed, D
  <1>7. /\ sh = base + stack - pe.heap_base /\ t = base + stack + heap - 1 - pe.trail_base
        /\ sh \in Int /\ t \in Int /\ old \in Int
    BY <1>5, <1>6
  <1>. HIDE DEF sh, t, old, D
  <1>8. Relocated(s, r, D, sh, t)
    BY <1>6, <1>7, RelocateIs
  <1>. HIDE DEF r
  <1>9. /\ r.mem \in [D -> Words]
        /\ r.pe = [s.pe EXCEPT !.regs = [i \in DOMAIN s.pe.regs |-> Moved(s.pe.regs[i], sh, t)]]
    BY <1>8 DEF Relocated
  <1>10. r.pe \in Engines
    <2>. DEFINE saved == [i \in DOMAIN pe.regs |-> Moved(pe.regs[i], sh, t)]
    <2>1. pe.regs \in Seq(Registers)
      BY <1>1, GoodFacts
    <2>2. saved \in Seq(Registers)
      <3>1. \A i \in DOMAIN pe.regs : Moved(pe.regs[i], sh, t) \in Registers
        BY <1>7, <2>1, MovedIs
      <3>. QED BY <2>1, <3>1
    <2>. HIDE DEF saved
    <2>3. r.pe = [s.pe EXCEPT !.regs = saved]
      BY <1>6, <1>9 DEF saved
    <2>. QED BY <1>6, <2>2, <2>3 DEF Engines
  <1>11. /\ r.pe.memory_base = base /\ r.pe.stack_size = s.pe.stack_size
         /\ r.pe.heap_size = s.pe.heap_size /\ r.pe.trail_base = s.pe.trail_base
         /\ r.pe.globals_base = s.pe.globals_base /\ r.pe.reg = s.pe.reg
         /\ r.pe.stack_size \in Int /\ r.pe.heap_size \in Int
    BY <1>6, <1>9, <1>10 DEF Engines
  <1>12. Bounded(r.pe) /\ AllInOrder(r.pe)
    BY <1>1, <1>2, <1>4, <1>9, <1>10, PlacedInOrder DEF sh, t
  <1>13. /\ r.pe.trail_base = pe.trail_base + t /\ r.pe.globals_base = pe.globals_base + t
         /\ r.pe.globals_base - r.pe.trail_base = pe.globals_base - pe.trail_base
         /\ r.pe.reg = Moved(pe.reg, sh, t)
    <2>1. \A x, y, z \in Int : (x + z) - (y + z) = x - y
      OBVIOUS
    <2>2. /\ r.pe.trail_base = pe.trail_base + t /\ r.pe.globals_base = pe.globals_base + t
          /\ r.pe.reg = Moved(pe.reg, sh, t)
      BY <1>6, <1>7, <1>11
    <2>. QED BY <1>5, <1>7, <2>1, <2>2
  <1>14. Area(r.pe) = D
    <2>1. \A a, b, c, d, g \in Int : a + b = c + d => base + a + b + g - 1 = base + c + d + g - 1
      BY <1>6
    <2>2. r.pe.memory_base + r.pe.stack_size + r.pe.heap_size + (r.pe.globals_base - r.pe.trail_base) - 1
            = base + stack + heap + (pe.globals_base - pe.trail_base) - 1
      BY <1>5, <1>6, <1>11, <1>13, <2>1
    <2>. QED BY <1>11, <2>2 DEF Area, Block, D
  <1>15. Live(r.mem, r.pe) \in [D -> Words]
         /\ \A a \in D : a \in r.pe.reg.TR .. r.pe.globals_base - 1 => Live(r.mem, r.pe)[a] = r.mem[a]
    <2>1. \A m, e : m \in [D -> Words] => LiveOf(D, m, e)
      BY LiveIs
    <2>2. LiveOf(D, r.mem, r.pe)
      BY <1>9, <2>1
    <2>. QED BY <2>2 DEF LiveOf
  <1>16. Good(mem', pe', inuse')
    BY <1>1, <1>2, <1>10, <1>12, <1>13, <1>14, <1>15 DEF Good
  <1>17. ASSUME intact' PROVE FreeListed(mem', pe', inuse')
    <2>1. Image(r.mem, r.pe) = Image(mem, pe)
      BY <1>2, <1>17
    <2>2. /\ r.pe.memory_base > 0
          /\ r.pe.reg.SP \in Int /\ r.pe.reg.H \in Int /\ r.pe.reg.TR \in Int
          /\ r.pe.memory_base < r.pe.reg.SP /\ r.pe.reg.SP <= r.pe.heap_base
          /\ r.pe.heap_base <= r.pe.reg.H /\ r.pe.reg.H < r.pe.reg.TR /\ r.pe.reg.TR <= r.pe.trail_base
          /\ r.pe.free_list \in Int /\ r.pe.memory_base \in Int /\ r.pe.heap_base \in Int
          /\ r.pe.trail_base \in Int /\ r.pe.globals_base \in Int
          /\ r.pe.trail_base <= r.pe.globals_base
      BY <1>2, <1>16, InBlock
    <2>3. r.pe.reg.TR = pe.reg.TR + t
      BY <1>5, <1>7, <1>13, MovedIs
    <2>4. Alike(pe, r.pe, t)
      BY <1>5, <1>7, <1>13, <2>2, <2>3 DEF Alike
    <2>5. ASSUME NEW a \in pe.trail_base .. pe.globals_base - 1
          PROVE  /\ mem[a] \in Words /\ r.mem[a + t] \in Words
                 /\ a + t \in D /\ a + t \in r.pe.reg.TR .. r.pe.globals_base - 1
      <3>1. a \in DOMAIN mem /\ mem[a] \in Words
        <4>1. DOMAIN mem = pe.memory_base .. pe.globals_base /\ \A x \in DOMAIN mem : mem[x] \in Words
          BY <1>1, GoodFacts
        <4>2. a \in pe.memory_base .. pe.globals_base
          BY <1>5
        <4>. QED BY <4>1, <4>2
      <3>2. a + t \in r.pe.reg.TR .. r.pe.globals_base - 1
        BY <1>5, <1>7, <1>13, <2>3
      <3>3. a + t \in D
        <4>1. DOMAIN mem' = r.pe.memory_base .. r.pe.globals_base
          BY <1>2, <1>16, GoodFacts
        <4>2. DOMAIN mem' = D
          BY <1>2, <1>15
        <4>3. a + t \in r.pe.memory_base .. r.pe.globals_base
          BY <2>2, <3>2
        <4>. QED BY <4>1, <4>2, <4>3
      <3>. QED BY <1>9, <3>1, <3>2, <3>3
    <2>6. pe.trail_base > 0 /\ r.pe.trail_base > 0
      BY <1>5, <2>2
    <2>7. FreeListed(r.mem, r.pe, inuse)
      BY <1>1, <1>5, <2>1, <2>2, <2>4, <2>5, <2>6, FreeListKept
    <2>8. \A a \in Vacant(r.pe, inuse) : Live(r.mem, r.pe)[a] = r.mem[a]
      <3>1. \A a \in Vacant(r.pe, inuse) : a \in r.pe.trail_base .. r.pe.globals_base - 1
        BY DEF Vacant
      <3>2. \A a \in r.pe.trail_base .. r.pe.globals_base - 1 :
              a \in r.pe.reg.TR .. r.pe.globals_base - 1 /\ a - t \in pe.trail_base .. pe.globals_base - 1
              /\ (a - t) + t = a
        BY <1>5, <1>7, <1>13, <2>2
      <3>. QED BY <1>15, <2>5, <3>1, <3>2
    <2>9. FreeListed(Live(r.mem, r.pe), r.pe, inuse)
      BY <2>7, <2>8 DEF FreeListed
    <2>. QED BY <1>2, <2>9
  <1>. QED BY <1>16, <1>17 DEF IInv

------------------------------------------------------------------------------
(***************************************************************************)
(* The theorems                                                            *)
(***************************************************************************)
LEMMA Initially ==
  Init => IInv
  <1>. SUFFICES ASSUME Init PROVE IInv
    OBVIOUS
  <1>. DEFINE base == CHOOSE x \in Bases : TRUE
              stack == FirstSizes[1]
              size == FirstSizes[2]
              heap == base + stack
              trail == heap + size - 1
              rs == [SP |-> heap, E |-> heap, SPB |-> heap, HB |-> heap,
                     H |-> heap, TR |-> trail, B |-> Null]
              saved == << >>
  <1>1. base \in Bases /\ base \in Nat /\ base > 0
    <2>1. base \in Bases
      BY SizeAssumption
    <2>. HIDE DEF base
    <2>. QED BY <2>1, SizeAssumption
  <1>2. stack \in Nat /\ stack > 0 /\ size \in Nat /\ size > 1
    BY SizeAssumption
  <1>3. /\ mem = [a \in Block(base, stack, size, 0) |-> Const]
        /\ pe = [memory_base |-> base, stack_size |-> stack, heap_size |-> size,
                 stack_max |-> base, heap_base |-> heap,
                 trail_base |-> trail, globals_base |-> trail, free_list |-> Null,
                 reg |-> rs, regs |-> saved]
        /\ inuse = {}
    BY DEF Init
  <1>. HIDE DEF base, stack, size
  <1>4. heap \in Int /\ trail \in Int /\ base < heap /\ heap < trail
    BY <1>1, <1>2
  <1>5. trail = base + stack + size - 1
    BY <1>1, <1>2
  <1>. HIDE DEF heap, trail
  <1>6. /\ rs \in Registers /\ rs.SP = heap /\ rs.E = heap /\ rs.SPB = heap /\ rs.HB = heap
        /\ rs.H = heap /\ rs.TR = trail /\ rs.B = Null
    BY <1>4 DEF Registers, Null
  <1>7. saved \in Seq(Registers) /\ DOMAIN saved = {}
    OBVIOUS
  <1>. HIDE DEF rs, saved
  <1>8. /\ pe \in Engines /\ pe.memory_base = base /\ pe.stack_size = stack
        /\ pe.heap_size = size /\ pe.stack_max = base /\ pe.heap_base = heap
        /\ pe.trail_base = trail /\ pe.globals_base = trail /\ pe.free_list = Null
        /\ pe.reg = rs /\ pe.regs = saved
    BY <1>1, <1>2, <1>3, <1>4, <1>6, <1>7 DEF Engines, Null
  <1>9. pe.globals_base - pe.trail_base = 0
    BY <1>4, <1>8
  <1>10. mem \in [Area(pe) -> Words]
    <2>1. Const \in Words
      BY DEF Const, Words
    <2>2. Area(pe) = Block(base, stack, size, 0)
      BY <1>8, <1>9 DEF Area
    <2>. QED BY <1>3, <2>1, <2>2
  <1>11. Bounded(pe)
    BY <1>1, <1>4, <1>5, <1>8, <1>9, BoundAssumption DEF Bounded
  <1>12. InOrder(pe, rs)
    BY <1>4, <1>6, <1>8 DEF InOrder
  <1>13. AllInOrder(pe)
    BY <1>7, <1>8, <1>12 DEF AllInOrder
  <1>14. Good(mem, pe, inuse)
    BY <1>3, <1>8, <1>10, <1>11, <1>13 DEF Good
  <1>15. Vacant(pe, inuse) = {}
    BY <1>4, <1>8 DEF Vacant
  <1>16. FreeListed(mem, pe, inuse)
    BY <1>8, <1>15 DEF FreeListed
  <1>. QED BY <1>14, <1>16 DEF IInv

LEMMA ProgramPreserves ==
  ASSUME IInv, intact, Program
  PROVE  IInv'
  <1>1. Good(mem, pe, inuse)
    BY DEF IInv
  <1>2. SP \in Int /\ H \in Int /\ pe.heap_base \in Int
    BY <1>1, Numbers
  <1>3. pe.reg.SPB \in Int /\ pe.reg.HB \in Int
    BY <1>1, GoodFacts DEF Registers
  <1>4. ASSUME NEW w \in {Ptr(SP - 1), Newest(SP - 1)}, PushFrame(w) PROVE IInv'
    <2>1. SP - 1 \in Int
      BY <1>2
    <2>2. Ptr(SP - 1) \in Words /\ Newest(SP - 1) \in Words
      BY <1>1, <2>1, WordsTyped
    <2>3. w \in Words
      BY <1>4, <2>2
    <2>. QED BY <1>4, <2>3, PushFrameStep
  <1>5. ASSUME NewTerm(<< Newest(H) >>) PROVE IInv'
    <2>1. Newest(H) \in Words
      BY <1>1, <1>2, WordsTyped
    <2>2. << Newest(H) >> \in Seq(Words)
      BY <2>1
    <2>. QED BY <1>5, <2>2, NewTermStep
  <1>6. ASSUME NEW a \in {pe.heap_base}, NewUIA(a) PROVE IInv'
    <2>1. Fence(2) \in Words /\ Chars(a) \in Words
      BY <1>1, <1>2, <1>6, WordsTyped
    <2>. DEFINE words == << Fence(2), Chars(a), Fence(2) >>
    <2>2. words \in Seq(Words)
      BY <2>1
    <2>3. NewTerm(words)
      BY <1>6 DEF NewUIA
    <2>. HIDE DEF words
    <2>. QED BY <2>2, <2>3, NewTermStep
  <1>7. ASSUME NEW a \in {pe.reg.SPB, pe.reg.HB - 1}, Trail(a) PROVE IInv'
    <2>1. a \in Int
      BY <1>3, <1>7
    <2>. QED BY <1>7, <2>1, TrailStep
  <1>8. ASSUME NEW v \in inuse, GvSet(v, Newest(H)) PROVE IInv'
    <2>1. Newest(H) \in Words
      BY <1>1, <1>2, WordsTyped
    <2>. QED BY <1>8, <2>1, GvSetStep
  <1>9. ASSUME NEW v \in inuse, GvFree(v) PROVE IInv'
    BY <1>9, GvFreeStep
  <1>. QED BY <1>4, <1>5, <1>6, <1>7, <1>8, <1>9, TryStep, CallStep, GvAllocFromListStep,
              GvAllocShiftStep DEF Program

LEMMA ResizingPreserves ==
  ASSUME IInv, intact, NEW base \in Bases, GrowHeap(base) \/ ResizeMemory(base)
  PROVE  IInv'
  <1>1. pe.stack_size \in Int /\ pe.heap_size + Growth \in Int
    BY GoodFacts, SizeAssumption DEF IInv
  <1>2. CASE GrowHeap(base)
    BY <1>1, <1>2, SizeEngineStep DEF GrowHeap
  <1>3. CASE ResizeMemory(base)
    <2>1. PICK size \in Sizes : SizeEngine(size[1], size[2], base)
      BY <1>3 DEF ResizeMemory
    <2>2. size[1] \in Int /\ size[2] \in Int
      BY SizeAssumption
    <2>. QED BY <2>1, <2>2, SizeEngineStep
  <1>. QED BY <1>2, <1>3

LEMMA NextPreserves ==
  ASSUME IInv, [Next]_vars
  PROVE  IInv'
  <1>1. CASE Next
    BY <1>1, ProgramPreserves, ResizingPreserves DEF Next
  <1>2. CASE UNCHANGED vars
    BY <1>2 DEF vars, IInv
  <1>. QED BY <1>1, <1>2

(***************************************************************************)
(* Whatever the sizes asked for, in size_prolog_engine the bounds of the   *)
(* engine and all its registers, those saved by run_wam included, stay in  *)
(* order, and as long as nothing went astray the free list of gv_alloc and *)
(* gv_free still holds every global variable that is not handed out.       *)
(***************************************************************************)
THEOREM Invariant == Spec => []IInv
  <1>1. Init => IInv
    BY Initially
  <1>2. IInv /\ [Next]_vars => IInv'
    BY NextPreserves
  <1>. QED BY <1>1, <1>2, PTL DEF Spec

LEMMA InvariantTyped ==
  IInv => TypeOK
  <1>. SUFFICES ASSUME IInv PROVE TypeOK
    OBVIOUS
  <1>1. /\ pe.reg \in Registers /\ pe.regs \in Seq(Registers) /\ DOMAIN mem = Area(pe)
        /\ Bounded(pe) /\ AllInOrder(pe) /\ inuse \subseteq 1 .. pe.globals_base - pe.trail_base
    BY GoodFacts DEF IInv, Good
  <1>2. /\ pe.memory_base \in Int /\ pe.stack_max \in Int /\ pe.heap_base \in Int
        /\ pe.trail_base \in Int /\ pe.globals_base \in Int
    BY GoodFacts DEF IInv
  <1>3. ASSUME NEW rs \in RegisterSets
        PROVE  rs \in Registers /\ InOrder(pe, rs)
    BY <1>1 DEF RegisterSets, AllInOrder
  <1>4. ASSUME NEW rs \in RegisterSets
        PROVE  /\ rs.SP \in pe.stack_max + 1 .. rs.SPB /\ rs.SPB <= pe.heap_base
               /\ rs.E \in rs.SP .. pe.heap_base
               /\ rs.HB \in pe.heap_base .. rs.H /\ rs.H < rs.TR
               /\ rs.B # Null => rs.B \in rs.TR .. pe.trail_base - 4
               /\ rs.TR <= pe.trail_base
    <2>1. /\ rs.SP \in Int /\ rs.E \in Int /\ rs.SPB \in Int /\ rs.HB \in Int /\ rs.H \in Int
          /\ rs.TR \in Int /\ rs.B \in Int
      BY <1>3 DEF Registers
    <2>. QED BY <1>2, <1>3, <2>1 DEF InOrder
  <1>5. /\ pe.stack_max = pe.memory_base
        /\ pe.heap_base \in pe.memory_base .. pe.trail_base
        /\ pe.trail_base = pe.memory_base + pe.stack_size + pe.heap_size - 1
        /\ Globals \in 0 .. MaxGlobals
    BY <1>1, <1>2, BoundAssumption DEF Bounded, Globals
  <1>. QED BY <1>1, <1>4, <1>5 DEF TypeOK, Globals, Area

(***************************************************************************)
(* What prolog_engine_invariant asserts of the bounds and registers holds  *)
(* at all times, in every set of registers that run_wam will restore.      *)
(***************************************************************************)
THEOREM TypeCorrect == Spec => []TypeOK
  BY Invariant, InvariantTyped, PTL
===============================================================================
