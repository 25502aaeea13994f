------------------------------ MODULE Exceptions ------------------------------
(***************************************************************************)
(* catch and throw, and the nested calls of the emulator (run_wam) that a  *)
(* throw must not leave.  Nothing in the engine records which catches      *)
(* enclose the running goal: throw finds one by going down the choice      *)
(* points, knows catch0/4's by the address of its second clause, and       *)
(* leaves it to that clause to look at a structure, SWIG, which says       *)
(* whether the goal of this catch is running or has exited.                *)
(***************************************************************************)
EXTENDS Naturals, Sequences, SequencesExt

CONSTANTS
  MaxCatches, (* the most catches whose choice points exist: a bound       *)
  MaxChoices, (* the most choice points: a bound                           *)
  MaxRuns     (* the most calls of run_wam at a time: a bound, of which the *)
              (* code has one too, REGISTER_STACK_MAX                      *)

VARIABLES
  choices,    (* the choice points, oldest first                           *)
  runs,       (* the calls of run_wam: the choice points before it, what   *)
              (* it was called for, whether it has executed catch22        *)
              (* (c22dat), and the scopes of the goal that called it       *)
  cont,       (* the catches whose goals are running, outermost first: the *)
              (* frames to return to, of which the engine sees nothing     *)
  swig,       (* catch -> the argument of its SWIG, 1 in the goal, 2 after *)
  pc,         (* what the emulator does: run a goal, fail, throw           *)
  thrown,     (* the scopes at the last throw, and what the run that made  *)
              (* it was called for                                         *)
  unwinding,  (* it has been neither handled nor has it ended the run      *)
  caught,     (* the catch whose handler was called last, or 0             *)
  astray      (* throw went below the choice points of its run             *)

vars == <<choices, runs, cont, swig, pc, thrown, unwinding, caught, astray>>
ghosts == <<thrown, unwinding, caught, astray>>

CatchId == 1 .. MaxCatches

Choice(kind, id, scopes) == [kind |-> kind, id |-> id, cont |-> scopes, next |-> "throw"]

Run == runs[Len(runs)]
OldB == Run.oldB
Top == choices[Len(choices)]
Upto(n) == SubSeq(choices, 1, n)

(* A command starts with two choice points, both leading to the code for a *)
(* query that fails; a goal called from C with one.                        *)
Bottoms(for) == IF for = "command" THEN 2 ELSE 1

NewRun(for) ==
  [oldB |-> Len(choices), for |-> for, c22 |-> FALSE, cont |-> cont]

Init ==
  /\ runs = << [oldB |-> 0, for |-> "command", c22 |-> FALSE, cont |-> << >>] >>
  /\ choices = [i \in 1 .. 2 |-> Choice("bottom", 0, << >>)]
  /\ cont = << >>
  /\ swig = [id \in CatchId |-> 1]
  /\ pc = "run"
  /\ thrown = [scopes |-> << >>, from |-> "command"]
  /\ unwinding = FALSE /\ caught = 0 /\ astray = FALSE
------------------------------------------------------------------------------
(***************************************************************************)
(* The goals of the program                                                *)
(***************************************************************************)
Running == pc = "run" /\ ~ astray
RoomFor(n) == Len(choices) + n <= MaxChoices

(* A call of a procedure with several clauses *)
Try ==
  /\ Running /\ RoomFor(1)
  /\ choices' = Append(choices, Choice("clauses", 0, cont))
  /\ UNCHANGED <<runs, cont, swig, pc, ghosts>>

Position(kind, id) == {i \in DOMAIN choices : choices[i].kind = kind /\ choices[i].id = id}

(* catch0: the choice point of catch0/4 is there when its first clause     *)
(* executes catch22, then comes the one of (Module:Goal ; !, fail).  Which *)
(* number a catch has makes no difference: it takes the lowest.            *)
Catch(id) ==
  /\ Running /\ RoomFor(2)
  /\ Position("catch", id) = {}
  /\ \A k \in 1 .. id - 1 : Position("catch", k) # {}
  /\ choices' = choices \o << Choice("catch", id, cont), Choice("goal", id, cont) >>
  /\ runs' = [runs EXCEPT ![Len(runs)].c22 = TRUE]
  /\ cont' = Append(cont, id)
  /\ swig' = [swig EXCEPT ![id] = 1]
  /\ UNCHANGED <<pc, ghosts>>

(* Mutant of Exit: what resets SWIG is not left behind. *)
ExitForGood ==
  /\ Running /\ cont # << >>
  /\ cont' = Front(cont)
  /\ swig' = [swig EXCEPT ![Last(cont)] = 2]
  /\ UNCHANGED <<choices, runs, pc, ghosts>>

(* The goal succeeds: mangle(1,SWIG,2) ; mangle(1,SWIG,1), fail *)
Exit ==
  /\ Running /\ cont # << >> /\ RoomFor(1)
  /\ cont' = Front(cont)
  /\ choices' = Append(choices, Choice("reset", Last(cont), Front(cont)))
  /\ swig' = [swig EXCEPT ![Last(cont)] = 2]
  /\ UNCHANGED <<runs, pc, ghosts>>

(* A cut in the goal of a catch, or in that of the run, goes no further    *)
(* than the goal; one in a clause that has called catch goes back to       *)
(* before it did.                                                          *)
Cut(n) ==
  /\ Running
  /\ n < Len(choices)
  /\ IF cont = << >> THEN n >= OldB + Bottoms(Run.for)
     ELSE \A i \in Position("goal", Last(cont)) : i <= n
  /\ \A i \in 1 .. n : choices[i].kind = "catch" =>
       \/ choices[i].id \in ToSet(cont) \/ i <= OldB
       \/ \E j \in Position("reset", choices[i].id) : j <= n
  /\ choices' = Upto(n)
  /\ UNCHANGED <<runs, cont, swig, pc, ghosts>>

Fail ==
  /\ Running
  /\ pc' = "fail"
  /\ UNCHANGED <<choices, runs, cont, swig, ghosts>>

Throw ==
  /\ Running
  /\ pc' = "throw"
  /\ thrown' = [scopes |-> cont, from |-> Run.for]
  /\ unwinding' = TRUE /\ caught' = 0
  /\ UNCHANGED <<choices, runs, cont, swig, astray>>

(* A builtin in C calls w_rungoal, or executes a command. *)
Call(for) ==
  /\ Running /\ RoomFor(Bottoms(for)) /\ Len(runs) < MaxRuns
  /\ runs' = Append(runs, NewRun(for))
  /\ choices' = choices \o [i \in 1 .. Bottoms(for) |-> Choice("bottom", 0, << >>)]
  /\ cont' = << >>
  /\ UNCHANGED <<swig, pc, ghosts>>

(* Mutant of EndRun: the register stack is popped twice. *)
EndRunPopsTwice ==
  IF Len(runs) = 1
  THEN /\ choices' = Upto(2) /\ pc' = "run"
       /\ cont' = << >>
       /\ runs' = [runs EXCEPT ![1].c22 = FALSE]
  ELSE /\ choices' = Upto(OldB)
       /\ pc' \in {"run", "fail"}
       /\ cont' = Run.cont
       /\ runs' = Front(Front(runs))

(***************************************************************************)
(* run_wam returns, its choice points cut away; the builtin that called it *)
(* goes on or fails.  After the outermost, the shell runs the next one.    *)
(***************************************************************************)
EndRun ==
  IF Len(runs) = 1
  THEN /\ choices' = Upto(2) /\ pc' = "run"
       /\ cont' = << >>
       /\ runs' = [runs EXCEPT ![1].c22 = FALSE]
  ELSE /\ choices' = Upto(OldB)
       /\ pc' \in {"run", "fail"}
       /\ cont' = Run.cont
       /\ runs' = Front(runs)

Return ==
  /\ Running /\ cont = << >>
  /\ EndRun
  /\ UNCHANGED <<swig, ghosts>>
------------------------------------------------------------------------------
(***************************************************************************)
(* Failure: the newest choice point tells what comes next.                 *)
(***************************************************************************)
Resuming(kind) == pc = "fail" /\ ~ astray /\ Top.kind = kind

Pop == choices' = Front(choices)

ResumeClauses ==
  /\ Resuming("clauses")
  /\ Pop \/ UNCHANGED choices
  /\ cont' = Top.cont
  /\ pc' = "run"
  /\ UNCHANGED <<runs, swig, ghosts>>

(* The goal of a catch has failed: !, fail *)
ResumeGoal ==
  /\ Resuming("goal")
  /\ \E i \in Position("catch", Top.id) : choices' = Upto(i - 1)
  /\ UNCHANGED <<runs, cont, swig, pc, ghosts>>

(* Mutant of ResumeReset: SWIG keeps its argument. *)
ResumeResetNot ==
  /\ Resuming("reset")
  /\ Pop
  /\ UNCHANGED <<runs, cont, swig, pc, ghosts>>

(* mangle(1,SWIG,1), fail *)
ResumeReset ==
  /\ Resuming("reset")
  /\ swig' = [swig EXCEPT ![Top.id] = 1]
  /\ Pop
  /\ UNCHANGED <<runs, cont, pc, ghosts>>

(* Mutant of SecondClause: it does not look at SWIG. *)
SecondClauseFails ==
  /\ Resuming("catch") /\ Top.next = "throw"
  /\ choices' = [choices EXCEPT ![Len(choices)].next = "handler"]
  /\ UNCHANGED <<runs, cont, swig, pc, ghosts>>

(* Mutant of SecondClause: the choice point still names this clause when   *)
(* throw looks at it.                                                      *)
SecondClauseStays ==
  /\ Resuming("catch") /\ Top.next = "throw"
  /\ pc' = IF swig[Top.id] = 2 THEN "throw" ELSE "fail"
  /\ choices' = IF swig[Top.id] = 2 THEN choices
                ELSE [choices EXCEPT ![Len(choices)].next = "handler"]
  /\ UNCHANGED <<runs, cont, swig, ghosts>>

(* catch0/4's second clause: SWIG = foo(2), throw *)
SecondClause ==
  /\ Resuming("catch") /\ Top.next = "throw"
  /\ choices' = [choices EXCEPT ![Len(choices)].next = "handler"]
  /\ pc' = IF swig[Top.id] = 2 THEN "throw" ELSE "fail"
  /\ UNCHANGED <<runs, cont, swig, ghosts>>

(* ... and its third: Module:Exception.  A handler whose pattern does not  *)
(* match throws again.  When it succeeds catch0/3 goes on with its         *)
(* mangle, as after the goal; nothing looks at this SWIG any more.         *)
ThirdClause ==
  /\ Resuming("catch") /\ Top.next = "handler"
  /\ Pop
  /\ cont' = Top.cont
  /\ pc' = "run"
  /\ caught' = Top.id /\ unwinding' = FALSE
  /\ UNCHANGED <<runs, swig, thrown, astray>>

(* A goal called from C fails; after a command the failure is reported. *)
ResumeBottom ==
  /\ Resuming("bottom")
  /\ EndRun
  /\ unwinding' = FALSE
  /\ UNCHANGED <<swig, thrown, caught, astray>>

(***************************************************************************)
(* THROW: choice points are dropped until the newest is one of catch0/4    *)
(* with its second clause to come, or the second of this run.              *)
(***************************************************************************)
(* Mutant of StopsAt: the bottom is not looked for. *)
StopsAtCatch(i) == Run.c22 /\ choices[i].kind = "catch" /\ choices[i].next = "throw"

(* Mutant of StopsAt: it is looked for one choice point too high. *)
StopsAtThird(i) ==
  \/ Run.c22 /\ choices[i].kind = "catch" /\ choices[i].next = "throw"
  \/ i = OldB + 3

StopsAt(i) ==
  \/ Run.c22 /\ choices[i].kind = "catch" /\ choices[i].next = "throw"
  \/ i = OldB + 2

(* Below its run, throw may meet a catch there, or the end of the stack. *)
Unwind ==
  LET stops == {i \in DOMAIN choices : StopsAt(i) /\ i > OldB}
  IN  /\ pc = "throw" /\ ~ astray
      /\ pc' = "fail"
      /\ IF stops = {}
         THEN astray' = TRUE /\ UNCHANGED choices
         ELSE /\ \E i \in stops : (\A j \in stops : j <= i) /\ choices' = Upto(i)
              /\ UNCHANGED astray
      /\ UNCHANGED <<runs, cont, swig, thrown, unwinding, caught>>
------------------------------------------------------------------------------
Resume ==
  \/ ResumeClauses \/ ResumeGoal \/ ResumeReset
  \/ SecondClause \/ ThirdClause \/ ResumeBottom

Next ==
  \/ Try
  \/ \E id \in CatchId : Catch(id)
  \/ Exit
  \/ \E n \in DOMAIN choices : Cut(n)
  \/ Fail
  \/ Throw
  \/ \E for \in {"command", "rungoal"} : Call(for)
  \/ Return
  \/ Resume
  \/ Unwind

Spec == Init /\ [][Next]_vars

(* The emulator goes on with what it has begun. *)
FairSpec == Spec /\ WF_vars(Resume \/ Unwind)
------------------------------------------------------------------------------
(***************************************************************************)
(* Properties                                                              *)
(***************************************************************************)
TypeOK ==
  /\ choices \in Seq([kind : {"bottom", "clauses", "catch", "goal", "reset"},
                      id : CatchId \union {0}, cont : Seq(CatchId),
                      next : {"throw", "handler"}])
  /\ runs \in Seq([oldB : Nat, for : {"command", "rungoal"},
                   c22 : BOOLEAN, cont : Seq(CatchId)]) \ {<< >>}
  /\ cont \in Seq(CatchId)
  /\ swig \in [CatchId -> 1 .. 2]
  /\ pc \in {"run", "fail", "throw"}
  /\ thrown \in [scopes : Seq(CatchId), from : {"command", "rungoal"}]
  /\ unwinding \in BOOLEAN /\ astray \in BOOLEAN
  /\ caught \in CatchId \union {0}

(* Something holds what was thrown: a catch in the same run, or a command. *)
Held == thrown.scopes # << >> \/ thrown.from = "command"

(* The handler that runs is that of the innermost catch whose goal was     *)
(* running when the throw was made: never of one that has exited, never of *)
(* one further out, and after a throw outside of all catches none.         *)
(* (builtins.pro catch0/4, wam.c W_THROW)                                  *)
InnermostCatches ==
  caught # 0 /\ Held => thrown.scopes # << >> /\ caught = Last(thrown.scopes)

(* No alternative of the goals that a throw leaves is resumed, also not    *)
(* that of a goal whose catch has exited.  (wam.c W_THROW)                 *)
ThrowNotResumed == unwinding /\ Held => pc # "run"

(* A throw stays in its run_wam: the choice points at the bottom of each   *)
(* are there as long as it has not returned.  (wam.c:2091)                 *)
ThrowStaysInRun ==
  /\ Held => ~ astray
  /\ ~ astray => \A r \in DOMAIN runs : \A i \in 1 .. Bottoms(runs[r].for) :
                   /\ runs[r].oldB + i \in DOMAIN choices
                   /\ choices[runs[r].oldB + i].kind = "bottom"

(* While a goal runs, SWIG tells of each catch whose choice point is left  *)
(* whether its goal is running or has exited, in all runs, however often   *)
(* goals have exited, failed and been entered again.                       *)
(* (builtins.pro:635, catch0/3)                                            *)
ScopesIn(r) == IF r = Len(runs) THEN cont ELSE runs[r + 1].cont
EndOf(r) == IF r = Len(runs) THEN Len(choices) ELSE runs[r + 1].oldB

SwigTells ==
  pc = "run" /\ ~ astray =>
    \A r \in DOMAIN runs : \A i \in runs[r].oldB + 1 .. EndOf(r) :
      choices[i].kind = "catch" /\ choices[i].next = "throw" =>
        (swig[choices[i].id] = 1 <=> choices[i].id \in ToSet(ScopesIn(r)))

(* A throw comes to its end: a handler is called or the run is over.       *)
(* (wam.c W_THROW, which catch0/4's second clause executes again and again *)
(* on its way down)                                                        *)
ThrowEnds == (unwinding /\ Held) ~> ~ unwinding

(* The guide, 9-Freeze,-Exceptions,-Events,-Interrupts,-Signals.md:258:    *)
(* "instead of backtracking to the most recent choicepoint, the system     *)
(* will instead backtrack to the state it was in just before the most      *)
(* recent enclosing catch/2", and with none "aborts to the Prolog shell".  *)
(* The throw of a goal called from C, which has but one choice point at    *)
(* its bottom, resumes the oldest alternative of that goal.  (wam.c:2091)  *)
ThrowLeavesAlternatives == unwinding => pc # "run"
==============================================================================
