------------------------------ MODULE Interrupts ------------------------------
(***************************************************************************)
(* The interrupt slot of the emulator.  Signals, errors raised by builtins *)
(* written in C, undefined procedures, the debugger's forced interrupts    *)
(* and the wake-up of delayed (frozen) goals all go through two words:     *)
(* wm_interrupt_caught says what happened, wm_safety makes the overflow    *)
(* check of the next call notice it and call '$interrupt'/3.               *)
(*                                                                         *)
(* A signal handler may run between any two accesses of the emulator to    *)
(* these words, so each of its accesses is a step of its own.              *)
(*                                                                         *)
(* Of the Prolog program itself there is its stack of choice points, and   *)
(* for each what has been trailed since: the bindings of delay variables   *)
(* whose goals have not been collected yet.  clct_tr sweeps the newest     *)
(* segment of the trail only, newest entry first, and stops at the first   *)
(* entry of a delay variable whose goal has been collected already.        *)
(*                                                                         *)
(* Binding a delay variable to another one starts a nested run_wam in the  *)
(* middle of a head unification, whatever interrupt is pending then.       *)
(***************************************************************************)
EXTENDS Integers, Sequences, SequencesExt

CONSTANTS
  Signals,     (* the signals with a handler                               *)
  SOURCE,      (* 0: no cause recorded, a forced interrupt                 *)
  WAKE,        (* 3: a delay variable was bound                            *)
  UNDEFINED,   (* ALSSIG_UNDEFINED_PRED                                    *)
  ERROR,       (* ALSSIG_ERROR                                             *)
  MaxChoices,  (* the most choice points: a bound                          *)
  MaxNested    (* the most handlers interrupted by one another: a bound    *)

ASSUME CausesDiffer ==
  /\ Signals \cap {SOURCE, WAKE, UNDEFINED, ERROR} = {}
  /\ WAKE \notin {SOURCE, UNDEFINED, ERROR}
  /\ ERROR \notin {SOURCE, UNDEFINED}

ASSUME BoundsAssumption ==
  /\ MaxChoices \in Nat \ {0}
  /\ MaxNested \in Nat \ {0}

VARIABLES
  safety,    (* wm_safety: "normal", or "armed" when it is negative        *)
  caught,    (* wm_interrupt_caught                                        *)
  pc,        (* "run": between instructions; else inside one               *)
  segments,  (* for each choice point, oldest first: which uncollected     *)
             (* delay bindings are trailed in its segment?  The oldest is  *)
             (* one the program goes on from again and again.              *)
  runs,      (* the nested runs of run_wam, oldest first: how many choice  *)
             (* points there were when each was started                    *)
  handlers,  (* '$interrupt'(3,..) calls that have not collected yet, and  *)
             (* handlers of other interrupts that interrupted them         *)
  due,       (* signals and errors raised and not passed to '$interrupt'   *)
  disturbed  (* while a woken goal waited, did a signal come or was a      *)
             (* delay variable bound to another variable?                  *)

vars == <<safety, caught, pc, segments, runs, handlers, due, disturbed>>

Slot == Signals \cup {SOURCE, WAKE, UNDEFINED, ERROR}

(* Of the uncollected bindings of a segment clct_tr reaches some and stops *)
(* before the others, hidden behind a binding that has been collected.     *)
Bindings == {"reached", "hidden"}

Waiting(s) == \E i \in DOMAIN s : s[i] # {}

(* What becomes of a segment's bindings b when other delay variables are   *)
(* trailed above them: clct_tr may stop at one of those now.               *)
Buried(b) ==
  {h \in SUBSET (b \cup {"hidden"}) :
     (h = {} <=> b = {}) /\ ("hidden" \in b => "hidden" \in h)}

(* clct_tr is the next goal: '$interrupt'(3,..) calls it first.            *)
Collecting == handlers # << >> /\ Last(handlers).cause = WAKE

Running == pc = "run" /\ ~ Collecting

(* The choice point the present run_wam made first *)
Floor == IF runs = << >> THEN 1 ELSE Last(runs) + 1

(* Is the present run_wam in a handler?  Those of its callers are older.   *)
Handling == handlers # << >> /\ Last(handlers).depth >= Floor

(* The program is at a call whose overflow check found nothing to do.      *)
Called == Running /\ safety = "normal"

Init ==
  /\ safety = "normal"
  /\ caught = SOURCE
  /\ pc = "run"
  /\ segments = << {} >>
  /\ runs = << >>
  /\ handlers = << >>
  /\ due = {}
  /\ disturbed = FALSE
------------------------------------------------------------------------------
(***************************************************************************)
(* Who raises interrupts                                                   *)
(***************************************************************************)

(* signal_handler, asynchronously, while run_wam is active *)
Signal(n) ==
  /\ safety' = "armed"
  /\ caught' = n
  /\ due' = due \cup {n}
  /\ disturbed' = (disturbed \/ Waiting(segments))
  /\ UNCHANGED <<pc, segments, runs, handlers>>

(* BIND of a delay variable: the binding is trailed, then wm_safety and    *)
(* wm_interrupt_caught are set.                                            *)
Bind ==
  /\ Running
  /\ Len(handlers) + 2 <= MaxNested
  /\ segments' = [segments EXCEPT ![Len(segments)] = @ \cup {"reached"}]
  /\ safety' = "armed"
  /\ pc' = "bind"
  /\ UNCHANGED <<caught, runs, handlers, due, disturbed>>

(* Mutant of BindDone: a cause already in the slot is left there. *)
BindDoneKeepsCause ==
  /\ pc = "bind"
  /\ caught' = IF caught = SOURCE THEN WAKE ELSE caught
  /\ pc' = "run"
  /\ UNCHANGED <<safety, segments, runs, handlers, due, disturbed>>

BindDone ==
  /\ pc = "bind"
  /\ caught' = WAKE
  /\ pc' = "run"
  /\ UNCHANGED <<safety, segments, runs, handlers, due, disturbed>>

(* VVBIND of a delay variable and an ordinary one: the delay variable is   *)
(* trailed as if it were bound.  If it is trailed again, by another VVBIND *)
(* or by BIND, clct_tr stops here, as it has collected its goal before.    *)
BindVariable ==
  /\ Running
  /\ \E b \in Buried(Last(segments)) :
       segments' = [segments EXCEPT ![Len(segments)] = b]
  /\ disturbed' = (disturbed \/ Waiting(segments))
  /\ UNCHANGED <<safety, caught, pc, runs, handlers, due>>

(* VVBIND of two delay variables: combin_dels runs '$combine_dvars'/2 in a *)
(* run_wam of its own.  wm_rungoal_code makes a choice point and goes to   *)
(* the overflow check of its goal, with whatever is pending.               *)
Combine ==
  /\ Running
  /\ Len(segments) < MaxChoices
  /\ \E b \in Buried(Last(segments)) :
       segments' = Append([segments EXCEPT ![Len(segments)] = b], {})
  /\ runs' = Append(runs, Len(segments))
  /\ pc' = IF safety = "armed" THEN "check" ELSE "run"
  /\ disturbed' = (disturbed \/ Waiting(segments))
  /\ UNCHANGED <<safety, caught, handlers, due>>

(* resolve_reference finds no procedure, and goes back to the check *)
CallUndefined ==
  /\ Called
  /\ caught' = UNDEFINED
  /\ pc' = "undefined"
  /\ UNCHANGED <<safety, segments, runs, handlers, due, disturbed>>

UndefinedDone ==
  /\ pc = "undefined"
  /\ safety' = "armed"
  /\ pc' = "check"
  /\ UNCHANGED <<caught, segments, runs, handlers, due, disturbed>>

(* A builtin raises an error and fails: forcePrologError *)
CallError ==
  /\ Called
  /\ caught' = ERROR
  /\ due' = due \cup {ERROR}
  /\ pc' = "error"
  /\ UNCHANGED <<safety, segments, runs, handlers, disturbed>>

(* forcePrologInterrupt, callWithDelayedInterrupt, and spying *)
CallForced ==
  /\ Called
  /\ safety' = "armed"
  /\ UNCHANGED <<caught, pc, segments, runs, handlers, due, disturbed>>

(* Mutant of CallReset: wm_safety is not tested. *)
CallResetUntested ==
  /\ Running
  /\ pc' = "reset"
  /\ UNCHANGED <<safety, caught, segments, runs, handlers, due, disturbed>>

(* pbi_reset_wm_normal: the test of wm_safety, then the assignment *)
CallReset ==
  /\ Called
  /\ pc' = "reset"
  /\ UNCHANGED <<safety, caught, segments, runs, handlers, due, disturbed>>

ResetDone ==
  /\ pc = "reset"
  /\ safety' = "normal"
  /\ pc' = "run"
  /\ UNCHANGED <<caught, segments, runs, handlers, due, disturbed>>
------------------------------------------------------------------------------
(***************************************************************************)
(* Choice points: what was trailed in the newest segment is undone by a    *)
(* failure, and so are the interrupts delivered since, the last ones.      *)
(***************************************************************************)
Backtracked(s) ==
  /\ segments' = s
  /\ \E n \in 0 .. Len(handlers) :
       /\ \A i \in 1 .. Len(handlers) : i <= n <=> handlers[i].depth < Len(segments)
       /\ handlers' = SubSeq(handlers, 1, n)
  /\ disturbed' = (disturbed /\ Waiting(segments'))

(* A nested run has only its first choice point left. *)
AtBottom == runs # << >> /\ Len(segments) = Floor

Retried ==
  /\ ~ AtBottom
  /\ Backtracked([segments EXCEPT ![Len(segments)] = {}])
  /\ UNCHANGED runs

(* The first choice point of a nested run ends it: TRUST_ME and RETURN 0.  *)
(* combin_dels does not ask, and the head unification goes on.             *)
RunFailed ==
  /\ AtBottom
  /\ Backtracked(Front(segments))
  /\ runs' = Front(runs)

Retry ==
  /\ Running
  /\ Retried
  /\ UNCHANGED <<safety, caught, pc, due>>

RunFails ==
  /\ Running
  /\ RunFailed
  /\ UNCHANGED <<safety, caught, pc, due>>

(* Mutant of Trust: the oldest choice point, too, is removed. *)
TrustAny ==
  /\ Running
  /\ Backtracked(Front(segments))
  /\ UNCHANGED <<safety, caught, pc, runs, due>>

Trust ==
  /\ Running
  /\ Len(segments) > Floor
  /\ Backtracked(Front(segments))
  /\ UNCHANGED <<safety, caught, pc, runs, due>>

(* Mutant of ErrorDone: wm_safety is not set. *)
ErrorDoneUnarmed ==
  /\ pc = "error"
  /\ pc' = "run"
  /\ Retried \/ RunFailed
  /\ UNCHANGED <<safety, caught, due>>

(* The builtin's return: the failure of W_FOREIGN_JUMP *)
ErrorDone ==
  /\ pc = "error"
  /\ safety' = "armed"
  /\ pc' = "run"
  /\ Retried \/ RunFailed
  /\ UNCHANGED <<caught, due>>

Try ==
  /\ Called
  /\ Len(segments) < MaxChoices
  /\ segments' = Append(segments, {})
  /\ UNCHANGED <<safety, caught, pc, runs, handlers, due, disturbed>>

(* The choice points after the n-th go, what they trailed stays.           *)
CutTo(n) ==
  /\ \E b \in Buried(UNION {segments[i] : i \in n .. Len(segments) - 1}) :
       segments' = Append(SubSeq(segments, 1, n - 1), b \cup Last(segments))
  /\ handlers' = [i \in DOMAIN handlers |->
       [handlers[i] EXCEPT !.depth = IF @ > n THEN n ELSE @]]

Cut ==
  /\ Called
  /\ Len(segments) > Floor
  /\ CutTo(Len(segments) - 1)
  /\ UNCHANGED <<safety, caught, pc, runs, due, disturbed>>

(* The goal of a nested run succeeds: get_out cuts back to what the caller *)
(* had, and the head unification goes on.                                  *)
RunReturns ==
  /\ Running
  /\ runs # << >>
  /\ ~ Handling
  /\ CutTo(Last(runs))
  /\ runs' = Front(runs)
  /\ UNCHANGED <<safety, caught, pc, due, disturbed>>
------------------------------------------------------------------------------
(***************************************************************************)
(* The overflow check, or cut, finds wm_safety negative: wm_safety is      *)
(* reset, wm_interrupt_caught becomes the first argument of '$interrupt'/3 *)
(* and is then reset.                                                      *)
(***************************************************************************)
Notice ==
  /\ pc \in {"run", "check"}
  /\ safety = "armed"
  /\ safety' = "normal"
  /\ pc' = "noticed"
  /\ UNCHANGED <<caught, segments, runs, handlers, due, disturbed>>

(* What the handlers do besides is up to the program; one that interrupts  *)
(* the call of clct_tr comes back to it.                                   *)
Deliver(cause) ==
  handlers' = IF cause = WAKE \/ Collecting
              THEN Append(handlers, [cause |-> cause, depth |-> Len(segments)])
              ELSE handlers

Read ==
  /\ pc = "noticed"
  /\ Deliver(caught)
  /\ due' = due \ {caught}
  /\ pc' = "read"
  /\ UNCHANGED <<safety, caught, segments, runs, disturbed>>

(* Mutant of Clear: the cause stays in the slot. *)
ClearNothing ==
  /\ pc = "read"
  /\ pc' = "run"
  /\ UNCHANGED <<safety, caught, segments, runs, handlers, due, disturbed>>

Clear ==
  /\ pc = "read"
  /\ caught' = SOURCE
  /\ pc' = "run"
  /\ UNCHANGED <<safety, segments, runs, handlers, due, disturbed>>

(* clct_tr collects the woken goals of the newest segment.  Whether it     *)
(* stops before the hidden ones is up to the entries before them: failing  *)
(* takes some away.                                                        *)
Collect ==
  /\ pc = "run" /\ Collecting
  /\ safety = "normal"
  /\ \E left \in SUBSET (Last(segments) \ {"reached"}) :
       segments' = [segments EXCEPT ![Len(segments)] = left]
  /\ handlers' = Front(handlers)
  /\ disturbed' = (disturbed /\ Waiting(segments'))
  /\ UNCHANGED <<safety, caught, pc, runs, due>>

(* The handler that interrupted clct_tr goes on with it. *)
Return ==
  /\ Running
  /\ Handling
  /\ handlers' = Front(handlers)
  /\ UNCHANGED <<safety, caught, pc, segments, runs, due, disturbed>>
------------------------------------------------------------------------------
Inside == BindDone \/ UndefinedDone \/ ErrorDone \/ ResetDone \/ Read \/ Clear

Next ==
  \/ \E n \in Signals : Signal(n)
  \/ Bind \/ BindVariable \/ Combine \/ RunReturns \/ RunFails
  \/ CallUndefined \/ CallError \/ CallForced \/ CallReset
  \/ Retry \/ Trust \/ Try \/ Cut
  \/ Notice \/ Collect \/ Return
  \/ Inside

(* An instruction ends, and a program that goes on makes calls: between    *)
(* two overflow checks there is only straight-line code.                   *)
Fairness == WF_vars(Inside) /\ SF_vars(Notice)

Spec == Init /\ [][Next]_vars /\ Fairness
------------------------------------------------------------------------------
(***************************************************************************)
(* Properties                                                              *)
(***************************************************************************)
TypeOK ==
  /\ safety \in {"normal", "armed"}
  /\ caught \in Slot
  /\ pc \in {"run", "bind", "undefined", "check", "error", "reset", "noticed", "read"}
  /\ segments \in Seq(SUBSET Bindings) /\ Len(segments) \in 1 .. MaxChoices
  /\ runs \in Seq(1 .. Len(segments) - 1)
  /\ handlers \in Seq([cause : Slot, depth : 1 .. Len(segments)])
  /\ Len(handlers) <= MaxNested
  /\ due \subseteq Signals \cup {ERROR}
  /\ disturbed \in BOOLEAN

(***************************************************************************)
(* What is in the slot has not been delivered yet: no signal and no error  *)
(* is passed to '$interrupt'/3 twice, whatever interrupts come between.    *)
(***************************************************************************)
DeliveredOnce ==
  caught \in Signals \cup {ERROR} /\ pc # "read" => caught \in due

(***************************************************************************)
(* An interrupt with a cause is noticed at the next call.  The one step    *)
(* that can disarm it is the assignment of pbi_reset_wm_normal, with the   *)
(* signal come after its test.                                             *)
(***************************************************************************)
Disarmed == pc = "run" /\ caught # SOURCE /\ safety = "normal"

DisarmedOnlyByReset == [][Disarmed' => Disarmed \/ ResetDone]_vars

(***************************************************************************)
(* An armed interrupt is delivered: '$interrupt'/3 is called, however many *)
(* signals come in the meantime.                                           *)
(***************************************************************************)
ArmedIsNoticed == (pc = "run" /\ safety = "armed") ~> (pc = "read")

(***************************************************************************)
(* When a call finds nothing to do, every delayed goal whose variable has  *)
(* been bound has been collected, unless a signal came while it waited or  *)
(* a delay variable was bound to another variable in the same head: no     *)
(* other binding, cut, failure, error, forced interrupt or return from a   *)
(* nested run hides it.                                                    *)
(***************************************************************************)
WakesServed ==
  Called /\ ~ disturbed => ~ Waiting(segments)

(***************************************************************************)
(* What the user guide says of freeze: when the variable becomes           *)
(* instantiated the goal is run, at that time.  Signals or not.            *)
(***************************************************************************)
FrozenGoalsRun ==
  Called /\ handlers = << >> /\ runs = << >> => ~ Waiting(segments)

(***************************************************************************)
(* What alssig.h says of ALSSIG_ERROR: the builtin throws the error.  It   *)
(* is in the slot until it is delivered.                                   *)
(***************************************************************************)
ErrorsThrown == ERROR \in due => caught = ERROR
==============================================================================
