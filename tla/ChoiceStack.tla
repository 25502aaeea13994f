------------------------------ MODULE ChoiceStack ------------------------------
(***************************************************************************)
(* What the trail area of the engine stands for: a stack of choice points, *)
(* each with what it protects and the set of the addresses trailed since   *)
(* it became the newest, the sizes the stack had when C code re-entered    *)
(* the emulator, and the set of the global variables in use.               *)
(***************************************************************************)
EXTENDS Integers, SequencesExt

VARIABLES
  choices,  (* oldest first: [hb, spb, trail]                               *)
  calls,    (* for each running run_wam but the outermost, the number of    *)
            (* choice points there were when it was called                  *)
  globals   (* the numbers of the allocated global variables                *)

absvars == <<choices, calls, globals>>

(* The choice points that the innermost run_wam may not remove *)
Floor == IF calls = << >> THEN 1 ELSE Last(calls) + 1

(***************************************************************************)
(* How the choice points may change from old to new                        *)
(***************************************************************************)

(* An address that the newest choice point protects is trailed. *)
Trails(old, new) ==
  /\ Len(new) = Len(old)
  /\ LET added == Last(new).trail \ Last(old).trail
     IN  /\ added \subseteq Last(old).spb .. Last(old).hb - 1
         /\ new = [old EXCEPT ![Len(old)].trail = @ \cup added]

(* A choice point protects what the others do, or more. *)
Pushes(old, new) ==
  /\ Len(new) = Len(old) + 1
  /\ Front(new) = old
  /\ Last(new).hb >= Last(old).hb /\ Last(new).spb <= Last(old).spb
  /\ Last(new).trail = {}

Retries(old, new) == new = [old EXCEPT ![Len(old)].trail = {}]

(* The first k stay, and the newest of them takes over what was trailed    *)
(* for the others and matters to it.                                       *)
KeepsFirst(old, new, k) ==
  LET trailed == UNION {old[i].trail : i \in k .. Len(old)}
      needed == {r \in trailed : r < old[k].hb /\ r >= old[k].spb}
  IN  new = [SubSeq(old, 1, k) EXCEPT ![k].trail = needed]

(***************************************************************************)
(* The n oldest are made to protect more of the heap: as much as the next  *)
(* newer one did, or more if there is none.                                *)
(***************************************************************************)
Protects(old, new, n) ==
  LET hb == IF n = Len(old) THEN new[n].hb ELSE old[n + 1].hb
  IN  /\ n > 0 => hb >= old[n].hb
      /\ new = [i \in 1 .. Len(old) |-> IF i <= n THEN [old[i] EXCEPT !.hb = hb] ELSE old[i]]
------------------------------------------------------------------------------
(* Between calls and returns of run_wam *)
Step(old, new) ==
  /\ \/ Trails(old, new)
     \/ Pushes(old, new)
     \/ Retries(old, new)
     \/ Len(old) > Floor /\ new = Front(old)
     \/ \E k \in Floor .. Len(old) - 1 : KeepsFirst(old, new, k)
     \/ Len(new) = Len(old) /\ \E n \in 0 .. Len(old) : Protects(old, new, n)
  /\ UNCHANGED <<calls, globals>>

Call(old, new) ==
  /\ Pushes(old, new)
  /\ calls' = Append(calls, Len(old))
  /\ UNCHANGED globals

(* Success keeps the bindings that the choice points below still trail,    *)
(* failure leaves the choice points as they were at the call.              *)
Return(old, new) ==
  /\ calls # << >>
  /\ \/ KeepsFirst(old, new, Last(calls))
     \/ Len(old) = Floor /\ new = Front(old)
  /\ calls' = Front(calls)
  /\ UNCHANGED globals

Allocate ==
  /\ \E v \in globals' : v \notin globals /\ globals' = globals \cup {v}
  /\ UNCHANGED <<choices, calls>>

Release ==
  /\ \E v \in globals : globals' = globals \ {v}
  /\ UNCHANGED <<choices, calls>>

Init ==
  /\ Len(choices) = 1 /\ choices[1].trail = {}
  /\ calls = << >>
  /\ globals = {}

Next ==
  LET old == choices
      new == choices'
  IN  \/ Allocate
      \/ Release
      \/ Step(old, new)
      \/ Call(old, new)
      \/ Return(old, new)

Spec == Init /\ [][Next]_absvars
==============================================================================
