-------------------------------- MODULE Words --------------------------------
(***************************************************************************)
(* The memory words of the ALS Prolog engine, and the order of its         *)
(* addresses.  The argument/environment stack and the heap share one       *)
(* address range: the stack grows down from HeapBase, the heap grows up    *)
(* from it, so "older" is a higher address among stack cells, a lower      *)
(* one among heap cells, and every heap cell is above every stack cell.    *)
(*                                                                         *)
(* A word is a reference to a cell, a pointer to the argument cell of a    *)
(* structure on the heap (lists, structures and UIAs are alike here: the   *)
(* functor or fence is left out, and one argument cell stands for all),    *)
(* or a constant (all of them alike).  An unbound variable is a cell that  *)
(* refers to itself.                                                       *)
(***************************************************************************)
EXTENDS Integers

CONSTANTS
  HeapBase,  (* wm_heapbase: stack cells are below it, heap cells at or above *)
  HeapEnd    (* the first address the heap may not reach: a bound            *)

ASSUME HeapBaseAssumption == HeapBase \in Nat
ASSUME HeapEndAssumption == HeapEnd \in Nat /\ HeapEnd >= HeapBase

StackAddr == 0 .. HeapBase - 1
Addr == 0 .. HeapEnd - 1

Word == [tag : {"ref", "str", "con"}, p : Nat]

Ref(a) == [tag |-> "ref", p |-> a]
Str(a) == [tag |-> "str", p |-> a]
Con == [tag |-> "con", p |-> 0]

IsPointer(w) == w.tag # "con"

(* M_ISVAR, and the cell refers to itself: the variable in cell a is unbound *)
Unbound(m, a) == m[a] = Ref(a)

(***************************************************************************)
(* Whether cell a of a memory with cells below hi may hold w: a             *)
(* stack cell refers to itself, to an older stack cell or to the heap, a   *)
(* heap cell only to the heap, and a structure is always on the heap.      *)
(***************************************************************************)
MayHold(w, a, hi) ==
  IsPointer(w) =>
    /\ w.p < hi
    /\ IF a < HeapBase /\ w.tag = "ref" THEN w.p >= a ELSE w.p >= HeapBase

(* A memory with cells lo .. hi - 1 in which no word dangles *)
ClosedOn(m, lo, hi) == \A a \in lo .. hi - 1 : MayHold(m[a], a, hi)
==============================================================================
