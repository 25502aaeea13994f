----------------------------- MODULE EngineMemory -----------------------------
(***************************************************************************)
(* The one block of memory of a Prolog engine, and how size_prolog_engine  *)
(* gives it other sizes: the block is reallocated, its two halves are      *)
(* moved within it, and every pointer into it is relocated.                *)
(*                                                                         *)
(*  stack_max    SP  heap_base    H        TR      trail_base globals_base *)
(*  |            | stack | heap   |        | trail |  globals |            *)
(*                                                                         *)
(* The program between two such calls appears only as far as it lays out   *)
(* what has to be relocated: frames, terms, choice points, trail entries,  *)
(* global variables and the registers that run_wam saved.                  *)
(***************************************************************************)
EXTENDS Integers, Sequences

CONSTANTS
  Bases,      (* where mmap may put a block: far enough from each other    *)
  FirstSizes, (* the sizes of stack and heap, a pair, to begin with        *)
  Sizes,      (* the pairs that are asked for                              *)
  MaxResized, (* how often: a bound                                        *)
  Growth,     (* by how many cells gc has the heap grow                    *)
  MaxFrames,  (* the most words of frames: a bound                         *)
  MaxCells,   (* the most cells on the heap: a bound                       *)
  GV_SHIFT,   (* how many global variables gv_alloc makes room for         *)
  MaxGlobals, (* the most global variables: a bound                        *)
  MaxRegs     (* the most nested calls of run_wam: a bound                 *)

(* Nothing of the program is at address 0; the stack has a word to begin   *)
(* with and the heap has two, as its last one is kept below the trail.     *)
ASSUME SizeAssumption ==
  /\ Bases # {} /\ Bases \subseteq Nat \ {0}
  /\ FirstSizes \in (Nat \ {0}) \X (Nat \ {0, 1})
  /\ Sizes \subseteq Nat \X Nat /\ Growth \in Nat /\ GV_SHIFT \in Nat \ {0}
ASSUME BoundAssumption == MaxGlobals \in Nat

VARIABLES
  mem,        (* the words of the block, address -> word                   *)
  pe,         (* the engine: its bounds, its registers and those saved     *)
  inuse,      (* the global variables handed out, by number                *)
  intact,     (* nothing went astray in the last change of sizes           *)
  resized     (* how many changes of sizes there were                      *)

vars == <<mem, pe, inuse, intact, resized>>

(***************************************************************************)
(* A word with the tag of a variable, a structure or a list is a pointer,  *)
(* and so is what choice points and frames hold; the links of the free     *)
(* list of globals look the same.  The characters of a UIA lie between two *)
(* fences that tell their number, and may look like a pointer as well.  A  *)
(* UIA is referred to by its distance from heap_base: a constant here.     *)
(***************************************************************************)
Ptr(a) == [tag |-> "ptr", val |-> a]
Const == [tag |-> "const", val |-> 0]
Fence(n) == [tag |-> "fence", val |-> n]
Chars(a) == [tag |-> "chars", val |-> a]

Null == 0

Globals == pe.globals_base - pe.trail_base

(* The block of an engine with these sizes, at base *)
Block(base, stack, heap, globals) == base .. base + stack + heap + globals - 1

Init ==
  LET base == CHOOSE base \in Bases : TRUE
      heap == base + FirstSizes[1]
      trail == heap + FirstSizes[2] - 1
  IN  /\ mem = [a \in Block(base, FirstSizes[1], FirstSizes[2], 0) |-> Const]
      /\ pe = [memory_base |-> base, stack_size |-> FirstSizes[1], heap_size |-> FirstSizes[2],
               stack_max |-> base, heap_base |-> heap,
               trail_base |-> trail, globals_base |-> trail, free_list |-> Null,
               reg |-> [SP |-> heap, E |-> heap, SPB |-> heap, HB |-> heap,
                        H |-> heap, TR |-> trail, B |-> Null],
               regs |-> << >>]
      /\ inuse = {}
      /\ intact = TRUE /\ resized = 0
------------------------------------------------------------------------------
(***************************************************************************)
(* What the program does in between                                        *)
(***************************************************************************)

SP == pe.reg.SP
H == pe.reg.H
TR == pe.reg.TR

Written(at, words) ==
  [a \in DOMAIN mem |-> IF a - at + 1 \in DOMAIN words THEN words[a - at + 1] ELSE mem[a]]

(* What a new cell at a, of a frame or the heap, holds: a pointer to the   *)
(* newest cell of the heap, or a variable if there is none.                *)
Newest(a) == IF H = pe.heap_base THEN Ptr(a) ELSE Ptr(H - 1)

(* The word for the continuation, an address outside the block, is left out. *)
PushFrame(w) ==
  /\ SP - 2 > pe.stack_max /\ pe.heap_base - SP + 2 <= MaxFrames
  /\ mem' = Written(SP - 2, << Ptr(pe.reg.E), w >>)
  /\ pe' = [pe EXCEPT !.reg.SP = SP - 2, !.reg.E = SP - 2]
  /\ UNCHANGED <<inuse, intact, resized>>

NewTerm(words) ==
  /\ H + Len(words) < TR /\ H + Len(words) - pe.heap_base <= MaxCells
  /\ mem' = Written(H, words)
  /\ pe' = [pe EXCEPT !.reg.H = H + Len(words)]
  /\ UNCHANGED <<inuse, intact, resized>>

(* The characters look like the address a. *)
NewUIA(a) == NewTerm(<< Fence(2), Chars(a), Fence(2) >>)

(* TRY_ME, with the registers that run_wam saved before it, or as before *)
NewChoice(regs) ==
  /\ TR - 4 > H
  /\ mem' = Written(TR - 4, << Const, Ptr(H), Ptr(SP), Ptr(pe.reg.B) >>)
  /\ pe' = [pe EXCEPT !.reg.TR = TR - 4, !.reg.B = TR - 4, !.reg.HB = H, !.reg.SPB = SP,
                      !.regs = regs]
  /\ UNCHANGED <<inuse, intact, resized>>

Try == NewChoice(pe.regs)

(* run_wam, called from the emulator: push_register_stack, and its TRY_ME *)
Call ==
  /\ Len(pe.regs) < MaxRegs
  /\ NewChoice(Append(pe.regs, pe.reg))

Trail(a) ==
  /\ TR - 1 > H
  /\ pe.reg.B = TR
  /\ a \in pe.reg.SPB .. pe.reg.HB - 1
  /\ mem' = Written(TR - 1, << Ptr(a) >>)
  /\ pe' = [pe EXCEPT !.reg.TR = TR - 1]
  /\ UNCHANGED <<inuse, intact, resized>>

(***************************************************************************)
(* Global variables: module TrailStack has the details.                    *)
(***************************************************************************)
GvAllocFromList ==
  /\ pe.free_list # Null
  /\ pe' = [pe EXCEPT !.free_list = mem[@].val]
  /\ mem' = [mem EXCEPT ![pe.free_list] = Const]
  /\ inuse' = inuse \cup {pe.globals_base - pe.free_list}
  /\ UNCHANGED <<intact, resized>>

(* A pointer to a higher word of the trail area moves with it. *)
Lowered(rs) == [rs EXCEPT !.TR = @ - GV_SHIFT, !.B = IF @ = Null THEN Null ELSE @ - GV_SHIFT]

GvAllocShift ==
  LET tb == pe.trail_base - GV_SHIFT
      moved(a) == IF mem[a].val > a /\ mem[a].val < pe.trail_base
                  THEN Ptr(mem[a].val - GV_SHIFT) ELSE mem[a]
  IN  /\ pe.free_list = Null
      /\ Globals + GV_SHIFT <= MaxGlobals
      /\ TR - GV_SHIFT > H
      /\ mem' = [a \in DOMAIN mem |->
                  IF a \in TR - GV_SHIFT .. tb - 1 THEN moved(a + GV_SHIFT)
                  ELSE IF a = tb THEN Ptr(Null)
                  ELSE IF a \in tb + 1 .. pe.trail_base - 2 THEN Ptr(a - 1)
                  ELSE IF a = pe.trail_base - 1 THEN Const
                  ELSE mem[a]]
      /\ pe' = [pe EXCEPT !.trail_base = tb, !.heap_size = @ - GV_SHIFT,
                          !.free_list = IF GV_SHIFT = 1 THEN Null ELSE pe.trail_base - 2,
                          !.reg = Lowered(@),
                          !.regs = [i \in DOMAIN @ |-> Lowered(@[i])]]
      /\ inuse' = inuse \cup {pe.globals_base - (pe.trail_base - 1)}
      /\ UNCHANGED <<intact, resized>>

GvSet(v, w) ==
  /\ v \in inuse
  /\ mem' = [mem EXCEPT ![pe.globals_base - v] = w]
  /\ UNCHANGED <<pe, inuse, intact, resized>>

GvFree(v) ==
  /\ v \in inuse
  /\ mem' = [mem EXCEPT ![pe.globals_base - v] = Ptr(pe.free_list)]
  /\ pe' = [pe EXCEPT !.free_list = pe.globals_base - v]
  /\ inuse' = inuse \ {v}
  /\ UNCHANGED <<intact, resized>>
------------------------------------------------------------------------------
(***************************************************************************)
(* size_prolog_engine.  Its three steps are functions of the words and the *)
(* engine, s = [mem, pe].                                                  *)
(***************************************************************************)
(* Mutant of Moved: the engine without a choice point is forgotten. *)
MovedAlways(rs, stack_heap, trail) ==
  [SP |-> rs.SP + stack_heap, E |-> rs.E + stack_heap, SPB |-> rs.SPB + stack_heap,
   HB |-> rs.HB + stack_heap, H |-> rs.H + stack_heap, TR |-> rs.TR + trail,
   B |-> rs.B + trail]

Moved(rs, stack_heap, trail) ==
  [SP |-> rs.SP + stack_heap, E |-> rs.E + stack_heap, SPB |-> rs.SPB + stack_heap,
   HB |-> rs.HB + stack_heap, H |-> rs.H + stack_heap, TR |-> rs.TR + trail,
   B |-> IF rs.B = Null THEN Null ELSE rs.B + trail]

(* The block is reallocated: a larger one is mapped elsewhere, and what    *)
(* the old one held is copied.                                             *)
Resize(s, stack, heap, base) ==
  LET e == s.pe
      offset == base - e.memory_base
  IN  [mem |-> [a \in Block(base, stack, heap, e.globals_base - e.trail_base) |->
                 IF a - offset \in DOMAIN s.mem THEN s.mem[a - offset] ELSE Const],
       pe |-> [e EXCEPT !.memory_base = base, !.stack_size = stack, !.heap_size = heap,
                        !.stack_max = @ + offset, !.heap_base = @ + offset,
                        !.trail_base = @ + offset, !.globals_base = @ + offset,
                        !.free_list = IF @ = Null THEN Null ELSE @ + offset,
                        !.reg = Moved(@, offset, offset)]]

(* memmove of the words from .. to - 1 *)
Move(m, from, to, offset) ==
  [a \in DOMAIN m |-> IF a - offset \in from .. to - 1 THEN m[a - offset] ELSE m[a]]

(* The stack and the heap are moved, then the trail and the globals. *)
Shift(s, stack, heap) ==
  LET e == s.pe
      stack_heap == (e.memory_base + stack) - e.heap_base
      trail == (e.heap_base + stack_heap + heap - 1) - e.trail_base
  IN  [mem |-> Move(Move(s.mem, e.reg.SP, e.reg.H, stack_heap),
                    e.reg.TR, e.globals_base, trail),
       pe |-> [e EXCEPT !.heap_base = @ + stack_heap,
                        !.trail_base = @ + trail, !.globals_base = @ + trail,
                        !.free_list = IF @ = Null THEN Null ELSE @ + trail,
                        !.reg = Moved(@, stack_heap, trail)]]
------------------------------------------------------------------------------
(***************************************************************************)
(* relocate_prolog_memory.  m and e are the words where they are now, and  *)
(* the engine; the offsets are how far they came.                          *)
(***************************************************************************)

(* do_offset: what it does to a word ... *)
Offset(w, offset) == IF w.tag \in {"ptr", "chars"} THEN [w EXCEPT !.val = @ + offset] ELSE w

(* Mutant of CellSize: the closing fence is not counted. *)
CellSizeShort(w) == IF w.tag = "fence" THEN w.val ELSE 1

(* ... and how many words it tells the caller to go on by. *)
CellSize(w) == IF w.tag = "fence" THEN w.val + 1 ELSE 1

(* The cells of the heap that the scan from heap_base meets *)
Scanned(m, e) ==
  LET Met[a \in e.heap_base .. e.reg.H] ==
        \/ a = e.heap_base
        \/ \E c \in e.heap_base .. a - 1 : Met[c] /\ c + CellSize(m[c]) = a
  IN  {a \in e.heap_base .. e.reg.H - 1 : Met[a]}

(* Every word of the stack that could be a pointer into the old block, as  *)
(* what it is cannot be known: a frame does not tell its size.             *)
OnStack(m, e, stack_max, trail) ==
  {a \in e.reg.E .. e.heap_base - 1 :
     m[a].val > e.stack_max - stack_max /\ m[a].val < e.trail_base - trail}

(* The choice points from B on, their links relocated as they are met *)
Chain(m, e, trail) ==
  LET On[a \in e.reg.TR .. e.trail_base - 1] ==
        \/ a = e.reg.B
        \/ \E c \in e.reg.TR .. a - 4 : On[c] /\ m[c + 3].val # Null /\ m[c + 3].val + trail = a
  IN  {a \in DOMAIN On : On[a]}

(* Mutant of Freed: the links are followed as they were. *)
FreedUnmoved(m, e, trail) ==
  LET variable == e.trail_base .. e.globals_base - 1
      On[n \in 0 .. e.globals_base - e.trail_base] ==
        IF n = 0 THEN e.free_list
        ELSE IF On[n - 1] \in variable THEN m[On[n - 1]].val ELSE Null
  IN  {On[n] : n \in DOMAIN On} \cap variable

(* The free global variables, the list's links relocated as they are met.  *)
(* A list that was written over is not followed out of the globals.        *)
Freed(m, e, trail) ==
  LET variable == e.trail_base .. e.globals_base - 1
      On[n \in 0 .. e.globals_base - e.trail_base] ==
        IF n = 0 THEN e.free_list
        ELSE IF On[n - 1] \in variable /\ m[On[n - 1]].val # Null
        THEN m[On[n - 1]].val + trail
        ELSE Null
  IN  {On[n] : n \in DOMAIN On} \cap variable

Relocate(s, stack_max, stack_heap, trail) ==
  LET m == s.mem
      e == s.pe
      chain == Chain(m, e, trail)
      inChain == UNION {c .. c + 3 : c \in chain}
      oldest == CHOOSE c \in chain : \A d \in chain : d <= c
      freed == Freed(m, e, trail)
      (* the free list, then what of the others does not look like a link *)
      global(a) ==
        IF a \in freed THEN IF m[a].val = Null THEN m[a] ELSE Offset(m[a], trail)
        ELSE IF m[a].val \in e.trail_base .. e.globals_base - 1 THEN m[a]
        ELSE Offset(m[a], stack_heap)
      scanned == Scanned(m, e) \cup OnStack(m, e, stack_max, trail)
                   \cup {c + k : c \in chain, k \in 1 .. 2}
                   \cup {a \in e.reg.TR .. e.trail_base - 1 :
                           chain # {} /\ a < oldest /\ a \notin inChain}
      links == {c + 3 : c \in {d \in chain : m[d + 3].val # Null}}
  IN  [mem |-> [a \in DOMAIN m |->
                 IF a \in scanned THEN Offset(m[a], stack_heap)
                 ELSE IF a \in links THEN Offset(m[a], trail)
                 ELSE IF a \in e.trail_base .. e.globals_base - 1 /\ e.free_list # Null
                 THEN global(a)
                 ELSE m[a]],
       pe |-> [e EXCEPT !.regs = [i \in DOMAIN @ |-> Moved(@[i], stack_heap, trail)]]]

(* The words and the engine before they are relocated *)
Sized(stack, heap, base) ==
  LET s == [mem |-> mem, pe |-> pe]
      diff == (stack + heap) - (pe.stack_size + pe.heap_size)
  IN  IF diff > 0 THEN Shift(Resize(s, stack, heap, base), stack, heap)
      ELSE IF diff = 0 THEN Shift(s, stack, heap)
      ELSE Resize(Shift(s, stack, heap), stack, heap, base)

(***************************************************************************)
(* What an engine holds, wherever its block is and however large: every    *)
(* pointer to a cell of stack or heap as its distance from heap_base, every *)
(* other one as its distance from trail_base.                              *)
(***************************************************************************)
Image(m, e) ==
  LET rel(a) == IF a = Null THEN << "null" >>
                ELSE IF a \in e.reg.SP .. e.reg.H THEN << "cell", a - e.heap_base >>
                ELSE IF a \in e.reg.TR .. e.globals_base THEN << "trail", a - e.trail_base >>
                ELSE << "astray", a >>
      word(a) == IF m[a].tag = "ptr" THEN rel(m[a].val) ELSE << m[a].tag, m[a].val >>
      regs(rs) == [r \in DOMAIN rs |-> rel(rs[r])]
  IN  [cells |-> [d \in e.reg.SP - e.heap_base .. e.reg.H - 1 - e.heap_base |-> word(e.heap_base + d)],
       trail |-> [d \in e.reg.TR - e.trail_base .. e.globals_base - 1 - e.trail_base |->
                   word(e.trail_base + d)],
       free |-> rel(e.free_list),
       reg |-> regs(e.reg),
       regs |-> [i \in DOMAIN e.regs |-> regs(e.regs[i])]]

(* What is in use.  Whatever else is left in the block is never read. *)
Live(m, e) ==
  [a \in DOMAIN m |->
    IF a \in e.reg.SP .. e.reg.H - 1 \cup e.reg.TR .. e.globals_base - 1 THEN m[a] ELSE Const]

(* The callers ask for no less than what is in use. *)
Fits(stack, heap) ==
  /\ pe.heap_base - SP < stack
  /\ (H - pe.heap_base) + (pe.trail_base - TR) < heap - 1

SizeEngine(stack, heap, base) ==
  LET grows == stack + heap > pe.stack_size + pe.heap_size
      s == Sized(stack, heap, base)
      r == Relocate(s, s.pe.stack_max - pe.stack_max, s.pe.heap_base - pe.heap_base,
                    s.pe.trail_base - pe.trail_base)
  IN  /\ resized < MaxResized /\ resized' = resized + 1
      /\ Fits(stack, heap)
      /\ IF grows THEN base # pe.memory_base ELSE base = pe.memory_base
      /\ mem' = Live(r.mem, r.pe)
      /\ pe' = r.pe
      /\ intact' = (Image(r.mem, r.pe) = Image(mem, pe))
      /\ UNCHANGED inuse

(* At the end of gc, when too little is left *)
GrowHeap(base) == SizeEngine(pe.stack_size, pe.heap_size + Growth, base)

(* resize_memory/2 *)
ResizeMemory(base) == \E size \in Sizes : SizeEngine(size[1], size[2], base)
------------------------------------------------------------------------------
Program ==
  \/ \E w \in {Ptr(SP - 1), Newest(SP - 1)} : PushFrame(w)
  \/ NewTerm(<< Newest(H) >>)
  \/ \E a \in {pe.heap_base} : NewUIA(a)
  \/ Try
  \/ \E a \in {pe.reg.SPB, pe.reg.HB - 1} : Trail(a)
  \/ Call
  \/ GvAllocFromList
  \/ GvAllocShift
  \/ \E v \in inuse : H > pe.heap_base /\ GvSet(v, Newest(H))
  \/ \E v \in inuse : GvFree(v)

(* What went astray is not followed. *)
Next ==
  /\ intact
  /\ \/ Program
     \/ \E base \in Bases : GrowHeap(base)
     \/ \E base \in Bases : ResizeMemory(base)

Spec == Init /\ [][Next]_vars
------------------------------------------------------------------------------
(***************************************************************************)
(* Properties                                                              *)
(***************************************************************************)
RegisterSets == {pe.reg} \cup {pe.regs[i] : i \in DOMAIN pe.regs}

(* prolog_engine_invariant, of the bounds and the registers *)
TypeOK ==
  /\ DOMAIN mem = Block(pe.memory_base, pe.stack_size, pe.heap_size, Globals)
  /\ pe.stack_max = pe.memory_base
  /\ pe.heap_base \in pe.memory_base .. pe.trail_base
  /\ pe.trail_base = pe.memory_base + pe.stack_size + pe.heap_size - 1
  /\ Globals \in 0 .. MaxGlobals /\ inuse \subseteq 1 .. Globals
  /\ \A rs \in RegisterSets :
       /\ rs.SP \in pe.stack_max + 1 .. rs.SPB /\ rs.SPB <= pe.heap_base
       /\ rs.E \in rs.SP .. pe.heap_base
       /\ rs.HB \in pe.heap_base .. rs.H /\ rs.H < rs.TR
       /\ rs.B # Null => rs.B \in rs.TR .. pe.trail_base - 4
       /\ rs.TR <= pe.trail_base

Resizing == resized' # resized

Pointed == {mem[pe.globals_base - v].val : v \in inuse} \ {Null}

(* What the sizes are meant to tell *)
SizesHold == pe.heap_base = pe.memory_base + pe.stack_size

(***************************************************************************)
(* A change of sizes leaves an engine that holds what it held: every       *)
(* register, those that callers of run_wam will get back too, every cell,  *)
(* frame, choice point, trail entry and global variable is in its place    *)
(* and points to where it pointed, whichever way stack and heap changed.   *)
(* This takes three conditions, of which the code checks none: in a larger *)
(* block, the heap ends below the trail where that was before; some global *)
(* variable is free, unless none points to the heap; and none points to a  *)
(* cell where the global variables come to lie.                            *)
(***************************************************************************)
ResizePreserves ==
  [][ /\ Resizing
      /\ pe'.memory_base # pe.memory_base => H + (pe'.heap_base - pe'.memory_base) <= TR + (pe.heap_base - pe.memory_base)
      /\ Pointed # {} => pe.free_list # Null
      /\ Pointed \cap (pe'.trail_base .. pe'.globals_base - 1) = {}
      => intact' ]_vars

(***************************************************************************)
(* What gc does, when a larger heap is all it asks for, needs only the     *)
(* second of them, as long as the sizes in the engine are the true ones,   *)
(* which resize_memory leaves behind if it changes both and not the sum.   *)
(***************************************************************************)
GrowthPreserves ==
  [][ /\ Resizing /\ \E base \in Bases : GrowHeap(base)
      /\ SizesHold
      /\ Pointed # {} => pe.free_list # Null
      => intact' /\ SizesHold' /\ pe'.trail_base - pe'.heap_base = pe.trail_base - pe.heap_base + Growth ]_vars

(***************************************************************************)
(* global_cell_invariant, asserted after a change of sizes: a global       *)
(* variable that points somewhere points into the heap or, if free, to     *)
(* another one.                                                            *)
(***************************************************************************)
GlobalsPointIntoHeap ==
  \A a \in pe.trail_base .. pe.globals_base - 1 :
    mem[a].val # Null =>
      mem[a].val \in pe.trail_base .. pe.globals_base - 1 \cup pe.heap_base .. H - 1
==============================================================================
