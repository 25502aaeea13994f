# A verification development for the ALS Prolog engine

ALS Prolog is a Prolog system: a compiler to WAM code and an emulator written in
C (`core/alsp_src/port`, `core/alsp_src/generic`), builtins and libraries written
in Prolog (`core/alsp_src/builtins`, `core/alsp_src/library`), and a development
environment (`core/als_dev`).  The modules here model the engine: what it keeps
in memory and how backtracking undoes it, how the garbage collector and a change
of sizes move it, how clauses change while they run, how a throw finds its catch,
and how interrupts reach the program.
Paths below are relative to `core/alsp_src` unless they start with `core/` or
`docs/`.  The build modelled is the portable, threaded emulator with delays
(`Portable`, `Threaded`, `FREEZE`), without `TRAILVALS` and `INTCONSTR`.

Contents: 1 inventory, 2 plan, 3 modules and code, 4 runs, 5 fairness,
6 disagreements found, 7 proofs, 8 what is not modelled.

## 1. Inventory

Each component with its state, its operations, what it shares with the others,
what is hard about it, and what makes it correct.

**WAM store** (`port/wam.c`, `generic/chpt.h`, `generic/hztypes.h`).
State: the argument/environment stack (grows down) and the heap (grows up) in
one address range, the registers SP, H, and HB, SPB as copies of fields of the
newest choice point, the trail with the choice points in it.
Operations: the get/put/unify instructions, UNIFY, BIND, TRY/RETRY/TRUST, cut.
Shared with: everything else.
Hard: which of two variables refers to the other, what must be trailed and what
need not, the sweep of the trail by cut.  An error is silent and shows only in
some later failure or read.
Correct when: no word ever leads to a cell that is gone, now or after any
failure, and failing to a choice point restores exactly what was there when it
was made.

**Global variables** (`generic/gv.c`, `generic/bgv.c`).
State: the variables between `wm_trailbase` and `wm_gvbase`, the free list
threaded through them.
Operations: `gv_alloc` (moves the whole trail when the list is empty), `gv_free`,
`gv_set` (raises the HB of older choice points so that failure cannot take the
value), `gv_get`.
Shared with: the trail (one memory area), choice points, saved registers.
Hard: the value must survive failures to choice points older than itself; the
shift must find every pointer into the trail, the saved ones included.
Correct when: a value never dangles, and the shift changes nothing but addresses.

**Nested engines, catch and throw** (`port/wam.c`, `generic/engine.c`,
`generic/cexception.c`).
State: the register stack, one register set for each caller of `run_wam`; the fail
stack of the C exceptions.
Operations: `run_wam` called from C that the emulator called, `get_out` after
success or failure, CATCH, THROW.
Hard: the return cuts by a stack address back to the caller's choice point and
merges trails; THROW recognises the bottom of its run by comparing choice points
with the register stack.
Correct when: the caller finds its choice points as it left them, a throw never
unwinds past its own run.

**Interrupts and signals** (`generic/sig.c`, `generic/winter.c`,
`generic/bsystem.c`, `generic/module.c`, the overflow check of `port/wam.c`,
`'$interrupt'/3` in `builtins/builtins.pro`).
State: two words, `wm_safety` and `wm_interrupt_caught`.
Operations: `signal_handler` (asynchronous), BIND of a delay variable, undefined
calls, errors of builtins, forced interrupts, `pbi_reset_wm_normal`; the overflow
check of every call and cut, which delivers.
Hard: one slot with many writers, each access interleaved with signals; a nested run
that unification starts delivers what was meant for its caller.
Correct when: nothing is delivered twice, nothing armed is forgotten.

**Delays** (`generic/freeze.c`, `builtins/blt_frez.pro`).
State: delay terms on the heap, chained; delay variables; what was trailed.
Operations: `$delay`, binding, combination of two delayed variables, which calls
Prolog in the middle of a head unification, `clct_tr`, which collects woken goals from
the newest trail segment.
Hard: goals wait for the next call, with cuts, failures, interrupts and combinations
between.
Correct when: a goal runs once, when its variable is bound, unless a failure
undoes the binding first.

**Garbage collector** (`generic/gc.c`).  Marks from registers, environments,
choice points, trail and globals, and compacts by threading pointers.  Hard: the
order of the phases, cells reachable only after failure, trail entries of dead
cells.  Correct when: the reachable store is isomorphic to what it was, for every
choice point.

**Engine memory** (`generic/engine.c`, `generic/alloc.c`).  Resizing moves stack,
heap, trail and globals and relocates every pointer.  Hard: four regions that
overlap their old places, an invariant of its own asserted at the end, failing
system calls in the middle.

**Clause store** (`generic/wintcode.c`, `generic/index.c`, `port/icode*.c`).
Clause chains, erasure while choice points still refer to clauses, indexing
blocks, collection of code space.  Hard: retract of what is running; the
logical-update view.

**Modules and procedure resolution** (`generic/module.c`, `generic/wdisp.c`):
name table, import chains, default procedures, undefined procedures.

**Symbol table** (`generic/symtab.c`), **compiler and parser**
(`generic/compile.c`, `generic/parser.c`, `generic/lexan.c`, ...), **database and
saved states** (`generic/bdb.c`, `generic/mem.c`, ...), **streams**
(`generic/bsio.c`, `builtins/sio.pro`), **foreign interface**
(`generic/cinterf.c`, ...), **library in Prolog**, **job server**
(`core/als_dev/c_s`), **development environment and platform ports**: see section 8.

How they interact.  C code runs between two instructions and sees the same
registers; it may call the emulator again (register stack).  Prolog code reaches C
through foreign calls that succeed or fail.  Signals are the only concurrency, and
touch only the interrupt slot.  Everything that is not erased by failure goes
through global variables, clauses or C memory.  `PROJECT.json` lists the hazards
of all this by line, with the properties that cover them and the reason where none
does yet.

## 2. Plan

| step | modules | what is stated | state |
|---|---|---|---|
| 1 | `Words`, `Snapshots`, `Backtrack` | the store; backtracking restores snapshots | modelled, checked, safety and refinement proved |
| 2 | `ChoiceStack`, `TrailStack` | the trail area word by word; it implements a stack of sets | modelled, checked, safety and refinement proved |
| 3 | `Interrupts` | the interrupt slot; delivery, wake-ups | modelled, checked, safety proved |
| 4 | `Clauses` | which clauses a call runs while they are added, erased, indexed, collected | modelled, checked, safety proved |
| 5 | `EngineMemory` | a change of sizes preserves every pointer; `engine.c`'s own invariant | modelled, checked, types and free list proved |
| 6 | `Exceptions` | a throw reaches the innermost catch and stays in its run | modelled, checked, safety proved |
| 7 | `GC` | the reachable store is what it was, for every choice point | modelled, checked |
| 8 | delays, on `Words` and `Interrupts` | delay terms, combination, the order of collection; each goal woken once | |
| 9 | modules, symbol table, `mem.c`, stream buffers, workers | as capacity allows | |

What composes what: `Backtrack` and `Snapshots` extend `Words`; `Backtrack`
implements `Snapshots`, `TrailStack` implements `ChoiceStack` (each by `INSTANCE`
with a refinement mapping).  `Backtrack` abstracts the trail to a set per choice
point, which is what `TrailStack` is shown to implement: together they cover the
path from a trail word to what a failure restores.  `EngineMemory` and `GC` state
refinements of a simpler kind: `ResizePreserves` and `GcPreserves` say that the
step is invisible to an image of the memory from which the addresses are
abstracted.  `Exceptions` takes the choice points as a sequence, which
`ChoiceStack` justifies.  Step 8 extends `Interrupts`.

Worth proving next: `ResizePreserves` and `GrowthPreserves` of `EngineMemory`, for
which the invariant has to say what every word in use points to.  These modules have
no RECURSIVE operators for that reason; only `GC` has.

## 3. Modules and code

### Words, Backtrack, Snapshots

`Words` has the addresses and words.  A word is a reference, a structure pointer
(list, structure and UIA alike, one argument cell for all) or a constant.
An unbound variable refers to itself, as in the code.

| `Backtrack` | code |
|---|---|
| `store`, `sp`, `h` | stack and heap, `mr_SP`, `mr_H`; cells outside `sp .. h-1` do not exist, so a read of one is an error TLC reports |
| `hb`, `spb` | `mr_HB`, `mr_SPB`, apart from the choice point's own fields |
| `cps` | choice points with what was trailed since each became newest |
| `gv` | contents of the global variables |
| `BindValue`, `UnifyVars` | BIND, UNIFY, VVBIND, with the TRAIL test on the registers |
| `InitYVar`, `Move`, `PutXVar`, `PutStructure` | the classes of instructions that make cells; `PutStructure` is write mode with `unify_local_value` |
| `LastCall` | `put_unsafe_value`, then deallocate or trim |
| `Try`, `Retry`, `Trust` | `W_TRY_ME`, `W_RETRY_ME`, `W_TRUST_ME` with UNWINDTRAIL |
| `Cut` | the search for the choice point and the sweep; one step |
| `GvSet` | `gv_set` with its walk down the choice points |

Operands are dereferenced: an operand is any live unbound variable or non-variable
word, so whatever chain DEREF follows is covered.  The clause code is not there;
any instruction may follow any other.  What a compiler guarantees appears as guards
(a last call cuts back to what the newest choice point bounds).

`Snapshots` is the promise: every choice point holds a copy of the memory.
`Backtrack` implements it with `View(i)`, what failing back to `i` would leave;
`SnapshotsProofs` proves it.

### TrailStack, ChoiceStack

One memory of words from `tr` to `wm_gvbase`.  Nothing marks a word as a trail
entry or part of a choice point; the sweeps go by values, one word a step
(`SweepChoice`, `SweepEntry`), and so does the loop of `gv_alloc` (`Shift`).  `pc`
is `cut` or `return` in a sweep, `shift` in that loop.  `Call`, `Succeed` and
`Fail` are `run_wam` called from C, with the fields of the saved register set that
matter.  Cells of stack and heap are addresses only.  `GvSet` is here for what it
does to the words HB.  `ChoiceStack` is a sequence of choice points with sets of
trailed addresses, the depth at each call, and the set of allocated variables.
`GvAllocShift` makes GV_SHIFT new variables below `trailbase`; the trail may be
shorter than that, so that some of them lie below the words that are moved.

### Interrupts

Two words, with each access of the emulator as a step of its own, because a signal
handler may come between any two; a signal handler itself runs to its end.

| `Interrupts` | code |
|---|---|
| `safety`, `caught` | `wm_safety`, `wm_interrupt_caught` |
| `Signal` | `signal_handler`, `generic/sig.c` |
| `Bind`, `BindDone` | BIND3 of a delay variable: trail and `wm_safety`, then the cause |
| `CallUndefined`, `UndefinedDone` | `resolve_reference`: cause, then `wm_safety` |
| `CallError`, `ErrorDone` | `pbi_forcePrologError`, then the failure of the foreign call |
| `CallForced` | `pbi_ouch` and the other forced interrupts: `wm_safety` only |
| `CallReset`, `ResetDone` | the test and the assignment of `pbi_reset_wm_normal` |
| `Notice`, `Read`, `Clear` | the overflow check: reset `wm_safety`, read the cause, clear it |
| `handlers` | `'$interrupt'(3,..)` before `clct_tr`, and what interrupted it |
| `segments` | for each choice point: which delay bindings are trailed in its segment and not collected, those that `clct_tr` reaches (`"reached"`) and those before which it stops (`"hidden"`) |
| `runs` | the register stack: how many choice points there were when each nested run was started |
| `BindVariable` | VVBIND of a delay variable and an ordinary one: the delay variable is trailed, and stays unbound |
| `Combine` | VVBIND of two delay variables: `combin_dels` runs `'$combine_dvars'/2`, whose choice point is made with whatever is pending |
| `RunReturns`, `RunFails` | the end of that run: `get_out`, or `wm_rungoal_code`'s TRUST_ME and RETURN 0; the head unification goes on in either case |
| `Try`, `Retry`, `Trust`, `Cut` | what becomes of the segments |
| `Collect` | `clct_tr`: the newest segment only, newest entry first |

A run fails only to its own choice points and a handler returns only in its own run
(`Floor`, `Handling`); an error of a builtin fails in the same way (`ErrorDone`).
`Buried` is what a further trail entry of some delay variable does to the bindings
below it: `clct_tr` may stop there now, if it has collected that variable's goal.
`due` and `disturbed` are history: causes raised and not delivered, and whether a
signal came, or a delay variable was bound to another variable, while a woken goal
waited.  The oldest segment stands for the base of
the program, which goes on from again after failure.

### Clauses

One procedure while it runs.  A clause is a block of code space with the two words
of choice code a failure jumps to; nothing else says which clauses a choice point
has left.

| `Clauses` | code |
|---|---|
| `proc` | the name table entry: first and last clause, `nt->flags`' usage, entry code, index block, the countdown to indexing, `lo_id` and `hi_id` |
| `block` | choice code (`retry`, `trust`, `try`, `deleted`), `nextClauseAddr`, the clause's id, its first argument |
| `cps` | choice points: the code address they resume at, the call they belong to, its first argument; `todo`, `ran`, `astray` are history |
| `walk` | an enumeration by `clause/2` or `retract/1`, which holds a database reference: the address of the next clause and its id |
| `AddClause` | `w_addclause`: id by group, place in the chain, choice and entry code |
| `Erase`, `EraseAgain` | `w_erase` of a clause, and of one erased already |
| `Abolish`, `AbolishAny` | `w_abolish_cg`, by file or altogether, with the index block |
| `CollectOther` | `w_collect`: what is neither named by a choice point nor by a reference whose id is an integer becomes free (`Marked`) |
| `Call` | entry code, with `do_indexing` when the countdown has run out |
| `Fail` | what the choice code or the index node at the saved address does |
| `WalkFirst`, `WalkNext` | `next_clause` through a reference to a clause that may be erased, if `w_validate_dbref` finds the id there (`ReferenceGood`) |
| `WalkEnds` | `'$clauseinfo'` of a reference that is good no more fails, and the enumeration with it |

`NukeIndexing` and `FixChoicePoints` are what every change does first to a
procedure that is indexed: the index block goes, and choice points in it are sent
to the chain.  Terms as first arguments are constants, a variable, a constant that
no clause has and a list.  An id outside the integers of Prolog is put on the heap as
a double (`IsPrologInteger`), which `w_collect` does not recognise.  Groups are files between the two groups of assert, as
in `w_assertz` and `w_asserta`; `BoundedSpec` has enumerations and calls at
different times, each against all the edits; `w_reconstamp` is never set by anything in the
repository, so adding a clause never abolishes.

### EngineMemory

The block of an engine word by word: bounds, registers, register stack (`pe`),
the words (`mem`), and which globals are handed out (`inuse`).  `Sized` is
`size_prolog_engine`: reallocate, then shift and resize stack and heap, in the
order the code chooses by which of them grow; `Relocate` is the pass over
registers, stack, heap, trail and globals.  A word that only looks like a pointer
inside the fences of a UIA is there, and so are the links of the free globals.
`GrowHeap` is the request at the end of `gc`, `ResizeMemory` is `resize_memory/2`.
The program between two changes (`Program`) lays out frames, terms, choice points,
trail entries, globals and saved registers.  `Image` is the engine with every
pointer replaced by what it points to, region and distance; `intact` compares it
before and after.  The steps of a change are not observable in between (no signal
handler looks at the memory), so a change is one step.

### Exceptions

| `Exceptions` | code |
|---|---|
| `choices` | choice points by what made them: the bottom of a run, a procedure with several clauses, `catch0/4`, the disjunction around its goal, the one that resets SWIG |
| `runs` | the register stack: the choice points of the caller, whether a command or a goal from C was called, `c22dat` |
| `swig` | the argument of SWIG: 1 while the goal runs, 2 after it has exited |
| `cont` | the catches whose goals are running; in the engine only the return addresses say so |
| `Catch`, `Exit` | `catch0/3`, `catch0/4` and `catch22` of `builtins.pro`, with the destructive updates of SWIG |
| `Throw`, `Unwind` | W_THROW: the walk down the choice points to the next that is `catch0/4`'s with its second clause to come, or to the bottom |
| `Cut` | a cut of the goal or of a clause around it, as far as it reaches |
| `Fail`, `Resume` | the failure to the newest choice point; `SecondClause` looks at SWIG and throws on, `ThirdClause` calls the handler |
| `Call`, `Return` | `run_wam` for a command (`w_exec`) or a goal (`wm_rungoal`) |

The walk of THROW is one step; a catch that has exited, and a handler whose
pattern does not match, throws again.  `thrown`, `unwinding`, `caught` and `astray` are history.

### GC

`gc.c` with the forms of words it distinguishes, and one bit for what the code
puts in the low bits.  The definitions follow the phases:
`Mark` and its cases (the pointer-reversing walk, `mark`), `Rev` and `MarkFrom`
(threading a pointer from outside as soon as its target is marked), the trail and
the choice points from the newest to the oldest with the environments they keep
(`FrameWords`, by the mask of each return address), the registers and the global
variable (`Roots`), and the two sweeps (`SweepDown`, `SweepUp`, with `rev_update`).  `Gc` is the whole of it, one step:
nothing looks at the memory in between.  The compaction bit of a choice point, by
which the next collection leaves the heap below its HB alone, is a bit of its SPB
word, and `gvset` is `gv_setcnt # 0`, which switches that off.  The build is the one
with `chptBeforeTrail` and `FREEZE`, no `TRAILVALS`, no bias.

The program that makes heaps has procedures of one argument and clauses with at
most one environment variable: `Unify` binds a variable to an operand or to a new
term of one of the `Kinds` (`Delay` raises the HB of every choice point,
`update_chpt_slots`), `Call`, `Return`, `Try`, `Fail`, `Cut`, `GvSet`, and
`RunCommand`, `RunGoal`, `EndRun` for nested runs.

## 4. Runs

| run | instance | distinct states | asks |
|---|---|---|---|
| `backtrack` | 2 stack cells, 2 heap cells, 3 choice points, 1 global variable | 538,577 | types; order of choice points (`ChoicesOrdered`); nothing dangles now (`NoDangling`) or after failing back to any choice point (`FailureSafe`); exact restoration (`RestoresSnapshots`) |
| `trail_stack` | 2 stack and 2 heap addresses, 15 words of area, `GV_SHIFT` 2, 1 nested run, 4 global variables | 306,632 | types; the chain after cut, return and shift (`ChainIntact`); free list and variables in use partition the area (`GlobalsPartitioned`); `ImplementsChoiceStack` |
| `interrupts` | 1 signal, 3 choice points, 4 nested handlers | 1,004,811 | types; `DeliveredOnce`; `WakesServed`; `DisarmedOnlyByReset`; `ArmedIsNoticed` |
| `clauses` | 3 blocks, 2 choice points, 1 constant, 1 file, the counters of ids at most 1 apart, and ids 1 from the beginning of a group; ids of files are integers, ids of the groups of assert are not | 487,460 | types; the chain, choice code and ids agree (`ChainLinked`); a call runs every clause that was there at the call and stays (`NoneSkipped`), in their order (`InOrder`); nothing resumes at a freed block, and a reference with an integer stays good (`NoFreedClause`) |
| `engine_memory` | sizes of stack and heap (4,11), (8,10), (3,12), (3,9), 2 changes, 2 words of frames, 4 cells, 2 globals, 1 nested run | 786,547 | types; a change of sizes preserves the engine when three conditions hold (`ResizePreserves`), the growth for `gc` when one does (`GrowthPreserves`) |
| `exceptions` | 3 catches, 10 choice points, 3 nested runs | 1,240,000 | types; `InnermostCatches`; `ThrowNotResumed`; `ThrowStaysInRun`; `SwigTells`; `ThrowEnds` |
| `gc` | 4 cells (3 with environment variables), 1 choice point and 1 trail entry beside those of runs, 1 nested run, 2 collections, every kind of term; and, lists only and 3 cells, two frames below a nested run | 527,658 | types; `NothingDangles`; the image of the store is kept (`GcPreserves`), also where the frames of the outer run are marked through the register stack; dead cells go (`GcCollects`) |
| `frozen_goals` | 2 signals, 3 choice points, 4 nested handlers | stops at the violation | the user guide's word on freeze (`FrozenGoalsRun`) |
| `errors_thrown` | the same without signals | stops at the violation | `alssig.h`'s word on errors (`ErrorsThrown`) |
| `reference_freed` | `clauses` | stops at the violation | the manual's word on `clause/2` (`EnumerationGoesOn`) |
| `globals_left` | `engine_memory` | stops at the violation | `engine.c`'s assertion on globals (`GlobalsPointIntoHeap`) |
| `uncaught` | 1 catch, 5 choice points, 2 runs | stops at the violation | the guide's word on throw (`ThrowLeavesAlternatives`) |

Why the bounds are enough.  Two cells of each kind give an older and a newer one,
so every direction of a reference and every comparison with HB and SPB occurs
with <, = and >.  Three choice points give one with neighbours on both sides: cut
removes one or two, `gv_set` raises some and not others.  In the trail area three
choice points with entries between them, or two and a shift, and a second shift
with variables allocated and freed before it, fit into the 15 words; one nested
call has the caller's registers to fix and its trail to merge.  Four nested
handlers leave room for a wake-up, a handler that interrupts it, and the same
again inside; three choice points for a combination inside a combination, or a choice
point of the program below or inside one.  A signal may come again while it is
delivered, and at any other moment; a second one (4.5 million states) gave the same
answers.  Three blocks of code give a first, a middle and a last clause, an erased one
between two others, and a freed one used again; two choice points are
one in the index block under one in the chain, or two of different calls.  In
`engine_memory` the four pairs of sizes make each of stack and heap grow, shrink
and stay while the other does any of these, and the second change meets what the
first left.  Three catches in three runs give a catch that has exited between two
whose goals run, and the same below another run.  Four cells hold a shared cell, a
chain and a dead cell below a live one; the second collection meets the bits of
the first.  `BoundedSpec` of `MCGC` keeps three instances in one run: every kind of term
on a stack of nine words, with environment variables and three cells or without and four,
and on twelve words two frames below a nested run, with lists only.  Larger instances of `GC` gave the same answers: delays with 5 cells, 2
trail entries and 2 choice points; delays with 7 cells and 2 trail entries; lists
and delays with one more word of stack.

The limits of lists (`HeapEnd`, `Low`, `MaxHeap`, `MaxCells`, `MaxFrames`,
`MaxTrail`, `MaxVars`), of calls (`MaxChoice`, `MaxChoices`, `MaxCalls`, `MaxRuns`,
`MaxRegs`, `MaxNested`, `MaxCatches`), of variables and blocks (`MaxGlobals`,
`MaxBlocks`, `MaxId`) and of repetitions (`MaxResized`, `MaxGcs`) are bounds of the
models: the code has no such test at the step, or a much larger one.  The store
safety and the interrupt safety are proved for every value of them (section 7).

`NeverAstray`, the constraint of `clauses`, stops at the two steps of section 6
(indexing under a choice point, entry code after abolish) after which a failure no
longer follows the chain, and checks everything else.
Deadlock is checked except in `engine_memory`, `globals_left`, `exceptions` and
`uncaught`: there a step that goes wrong ends the behaviour, and the last of
the bounded changes of sizes may leave no room for another step.  No symmetry is
used.

## 5. Fairness

`Interrupts` and `Exceptions` state liveness.

In `Interrupts`, `Fairness` is weak for the steps inside an
instruction (`Inside`): they are straight-line C code and nothing makes them wait.
It is strong for `Notice`: the code between two overflow checks has no loops of
its own (a Prolog program loops by calls, and every call checks), so a running
program reaches a check again and again; it is not continuously enabled, since
signals and other instructions come between.  No fairness is assumed of signals, of
failure, or of what the program does; `Collect` and `Return` are not fair.
`ArmedIsNoticed` is about reaching `'$interrupt'/3`, not about a handler ending.

In `Exceptions`, `FairSpec` is weak for `Resume \/ Unwind`: once the emulator fails
or throws it goes on until a goal runs, with no call of the program in between.
Nothing is assumed of goals: they may run for ever, and `ThrowEnds` does not need
that they do not.

The other modules are safety only: a program may stop anywhere.

## 6. Disagreements found

*A frozen goal lost to a signal* (run `frozen_goals`).  BIND3 announces a wake-up
in the same word that `signal_handler` assigns.  A signal between the binding and
the next check replaces it: the signal's handler runs, nothing calls `clct_tr`, and
the goal waits for a later binding, or is lost when a choice point hides its
segment of the trail.  The user guide
(`docs/docs/guide/9-Freeze,-Exceptions,-Events,-Interrupts,-Signals.md:27-28`) says
that the goal is run when the variable becomes instantiated.

*A frozen goal lost without one*.  Two other things can
happen to a woken goal before the next check, in the rest of the same head
unification.  A delay variable that is bound to an older ordinary variable is trailed
as if it were bound (`port/wam.c:496`, 505-507).  `clct_tr` collects its goal, although the
variable is unbound, and when it comes to a second such entry of the same variable it
takes the goal for collected before and stops (`generic/freeze.c:340`).  With X and R
frozen, R younger than F and G, a head `p(a,Z,Z,Z)` called as `p(X,R,F,G)` trails X, R
and R again: X is bound to `a` and its goal is not run.  And two delay variables bound to
each other start a nested run in mid-head, with a choice point made before any check
(`combin_dels`, `port/wam.c:713-732`): a wake-up that was pending is delivered inside,
where `clct_tr` sweeps the segment of that choice point only.  `WakesServed` shows that a
signal and these two are all: bindings of delay variables to values, cuts, failures,
errors, forced interrupts and returns from nested runs lose nothing.  The goal that is
run too early and a failure of `'$combine_dvars'/2`, which `combin_dels` ignores, are in
the model only as far as they concern which goals are collected.  With no signals at all
(`Signals = {}` in `MCFrozenGoals.cfg`) TLC finds `FrozenGoalsRun` violated in this way.

*An error lost to a wake-up* (run `errors_thrown`).  A builtin that raises an error
stores the cause and fails.  The failure retries a clause; when its head binds a
delay variable the cause is overwritten before any check.  `generic/alssig.h:21`
says the builtin should throw the error.  No signal is involved.

`DisarmedOnlyByReset` names a third: `pbi_reset_wm_normal` tests `wm_safety` and
then assigns it, and a signal between stays in the slot, disarmed, until something
else arms it.  It is in the model as the code has it; the property says that it is
the only such step.

*Globals left behind* (run `globals_left`).  The pass over the globals is under the
test for a non-empty free list (`generic/engine.c:833-835`): when all are handed
out none is relocated, and each points to where its value was.  The assertion at
the end (`generic/engine.c:623-624`, compiled into debugging builds only) says that
a global that points somewhere points into the heap.

*An uncaught throw resumes a goal* (run `uncaught`).  THROW recognises the bottom of
its run by comparing the choice point two below the newest one with the saved B
(`port/wam.c:2091`).  A command begins with two choice points; a goal called by
`wm_rungoal` with one, so the walk stops one choice point early, and the failure
resumes the oldest alternative of the goal that threw.  The guide
(`9-Freeze,...md:258-261`) says that the throw backtracks to the enclosing catch, or
aborts to the shell.  The properties of `exceptions` say `Held` where they exclude
this case: a throw that a catch of its run, or a command, holds.

*A reference freed* (run `reference_freed`).  `w_collect` looks for database references
on the heap and marks the erased clauses they refer to.  It takes the id out of a
reference with MINTEGER (`generic/wintcode.c:2297`); `make_dbref` puts it there with
`make_number` (`wintcode.c:1990`).  The ids of the two groups of assert are near
±255·2^23, outside the integers of Prolog (`generic/wd_size.h:26-27`), so that they are
doubles (`generic/arith.c:571-594`): the word is a pointer and never the id.  Three
clauses are asserted, `clause/2` returns the first and refers to the second, the second
is erased and a collection comes: the second is freed, `'$clauseinfo'` of it fails, and
the enumeration ends without the third.  The manual (`docs/docs/ref/clause.md:26`) says
that successive clauses are generated upon backtracking, and `retract/1` goes the same
way.  The groups of the first consulted files (below 16) have ids that are integers, and
`NoFreedClause` says that references to their clauses are kept good.

What follows is in the models as the code has it and has no run of its own.

*Conditions of a change of sizes.*  `ResizePreserves` holds under three conditions
that the code does not check: the heap may be moved over the trail before the trail
is moved (`engine.c:728`); some global is free, or none has a value
(`engine.c:833-835`); and no global points where the globals come to lie
(`engine.c:842`).  When both sizes change and the sum does not, the bounds are left
as they were (`engine.c:861`) while stack and heap move: `SizesHold`.  Nothing asks
whether the contents fit the new sizes; the model asks (`Fits`).

*Indexing under a choice point.*  `do_indexing` writes TRY_ME over the RETRY_ME of
the first clause (`generic/index.c:245`).  `assertz` of two clauses, a call that
leaves a choice point, `asserta`, erasure of the newer first clause: the first clause is
again what that choice point resumes at.  If the procedure is then indexed, the
failure executes TRY_ME, which pushes another choice point and does not undo the
trail.  A comment (`generic/wintcode.h:297`) says RETRY_ME is there because a
choice point may come to it.

*Entry code after abolish.*  `w_abolish_cg` leaves entry code that names a second
clause it has erased (`wintcode.c:1603`), where `w_erase` rewrites it and says why
(`wintcode.c:1188`).  Choice code of the clause before may be left over as
RETRY_ME to an erased clause (`wintcode.c:1613-1618`), which is harmless: an erased
clause fails on to the next; `ChainLinked` allows for it.

*Entry into the first clause.*  `w_addclause` writes the entry code with the offset of
the clause it adds, not of the first one (`wintcode.c:1528`, against the comment at
1254); `own` in the entry code says whether they are the same clause.

*References.*  A database reference is an address and an id.  After 2^23
calls of assertz an id leaves its group (`wintcode.c:1402` does not look).  A reference to a
block that was freed may meet a new clause with the same id at the same address
(`wintcode.c:2015`), and is good again: with assert, once the procedure has lost all its
clauses, and with a file numbered 16 or above, once the last clause of the file was
erased.  This is in `Clauses`, and the enumeration skips nothing by it (`NoneSkipped`).

*Saved B after a collection.*  `gc` moves choice points and the B register with them,
but not the Bs in the register stack (`generic/gc.c:547`).  With a trail entry that
`gc` drops below the choice points of the caller, as after `Delay`, `Call`, `Try`,
`Call`, `RunGoal`, `Gc` of module `GC`, the saved B is one word off the choice point it
was; THROW (`wam.c:2085`) compares with it.  In a run by `w_exec` the compaction bit
that WAM_START2 sets protects the older choice points, unless `gv_setcnt` is not 0.

*Cyclic terms.*  A cyclic term, which unification makes for want of an occurs check
(`docs/docs/ref/unify.md:20`), can be misread by the walk of `mark` (`gc.c:974`).

## 7. Proofs

The theorems hold for every value of the constants, from the named assumptions only:
`HeapBase`, `HeapEnd` and the bounds are naturals (bounds on lists at least one), the
causes of `Interrupts` are distinct from the signals and, where it matters, from each
other, GV_SHIFT is at least one, the trail area is below the global variables.

| module | about | obligations |
|---|---|---|
| `BacktrackProofs` | `Backtrack` | 1767 |
| `SnapshotsProofs` | `Backtrack` implements `Snapshots` | 513 |
| `InterruptsProofs` | `Interrupts` | 1049 |
| `ExceptionsProofs` | `Exceptions` | 3874 |
| `TrailStackProofs` | `TrailStack`, and that it implements `ChoiceStack` | 7275 |
| `ClauseChainProofs` | the chain of `Clauses`, and what edits make of it | 4418 |
| `ClausesProofs` | `Clauses` | 6297 |
| `EngineMemoryProofs` | `EngineMemory` | 2076 |

**Backtrack.**  `IInv == TypeOK /\ ChoicesOrdered /\ NoDangling /\ FailureSafe`.
None of the parts is inductive alone.  That nothing dangles after `Retry` is what
`FailureSafe` said of the newest choice point before; that `FailureSafe` survives a
binding needs that the binding is trailed or made in cells no choice point protects,
which needs the registers to be the newest choice point's fields
(`ChoicesOrdered`); that `Trust` and `Cut` keep it needs all choice points, not only
the newest.  The argument: `ViewsKept` says when the views of the older choice points
are untouched by a change of store and trail; `ForwardStep` says that a change which
keeps the views and leaves a closed memory keeps the invariant; each forward
instruction is then shown to be such a change (`BindTrails`, `GrowHeap`, `GrowStack`,
`RestrictMemory`).  `gv_set` needs `RaiseHBProperties`: where the walk stops, what is
raised protects the value, and what a raised choice point newly protects is unbound
or closed already (`Protected`, `StillProtected`).  Theorems: `Invariant`,
`TypeCorrect`, `ChoicesStayOrdered`, `NothingDangles`, `FailureIsSafe`.

**Backtrack implements Snapshots.**  `BacktrackingRestores`.  The mapping gives each
choice point the memory `View(i)` that failing back to it would leave, so that a step
refines when it keeps the views of the choice points that stay (which
`BacktrackProofs` has for every instruction, as `KeepsViews`) and changes the
current memory in the way the abstract step allows.  A forward instruction is the
abstract change of the store, `Try` records a view that is the memory of that moment,
`Retry` and `Trust` are shown to leave exactly the view of the newest choice point,
and after `gv_set` each view holds what it held, and besides only heap cells that the
next newer view has too.

**Interrupts.**  `IInv` adds to `TypeOK` and `DeliveredOnce` four facts.
`StaysArmed`: an instruction that arms before it stores its cause is still armed when
it does.  `Room`: the bound on handlers leaves place for a wake-up on its way.
`RunsNested`: each nested run was started with more choice points than its caller, so
that its end does not go below what the caller had.  `WakesOnTheirWay`: a woken goal
that nothing disturbed is in the newest segment, where `clct_tr` reaches it, and its
wake-up is in one of four places: between the assignments of BIND, in the slot and
armed, noticed, or delivered.  At a call with nothing to do it can be in none of these, which
is `WakesServed`; that the older segments are clean is what cut, failure and a new
choice point rely on.  Theorems: `Invariant`, `TypeCorrect`, `DeliveredAtMostOnce`,
`WakesAreServed`, `OnlyResetDisarms` (an action property).

**Exceptions.**  `IInv` adds to `TypeOK` and `InnermostCatches` that a throw goes
astray only if nothing holds it, and otherwise `Structure`.  The choice points of the
runs are in blocks, each with the choice points of `run_wam` at its bottom
(`Bottomed`); from the newest down, the catches that have not exited are those of
the scopes, innermost first, and between them are only catches that have exited
(`Linked`); no catch has two choice points (`Distinct`); and a run that waits for a
nested one is in this order too, with the scopes its call was made in (`Waits`).
While a throw is in flight, the newest choice point that stops it is the one it is
meant for or lies above that and is of a catch that has exited (`OnItsWay`); while none is, the scopes
are the goals that run and SWIG agrees with them (`Settled`).  `SwigTells` alone is
not inductive, because a failure goes back to a goal that had exited: that it was in
the scope is what the order of the choice points says.  One lemma per action.
Theorems: `Invariant`, `TypeCorrect`, `CaughtByInnermost`, `NothingResumed`,
`StaysInRun`, `SwigTellsAlways`.

**TrailStack.**  `ChainIntact` speaks of the moments between instructions; the
invariant has to say where the loops are in the middle of their work.  `Holds` says
which words are choice points: a sequence that starts at `wm_B`, each linked to the
next, such that exactly their PrevB words point upward and every other word is below
the trail area; that the saved SPBs ascend; and that each waiting caller's B is one of
them.  `Sweeping`: what cut and return have still to read is as it was, and what they
have written lies above.  `Shifting`: the words `gv_alloc` has moved, read back by the
distance they were moved (`Was`), are the trail before the move.  `FreeListed`: a
sequence lists each free variable once.  The chain is changed in five ways only, and
each is a lemma about memories, without variables: a write elsewhere, a new choice
point, one dropped, a word HB raised, the whole moved (`ChainFrame`, `ChainPush`,
`ChainDrop`, `ChainRaise`, `ChainShift`).  What the recursive function `FreeLinks`
computes is proved by `Induction`, which takes the set of numbers for which the
statement holds and no operator.  Looking for this invariant showed that the model
left out the new variables below a trail shorter than GV_SHIFT (32, `gv.c:13`), which
is in it now.  Theorems: `Invariant`, `TypeCorrect`, `ChainStaysIntact`,
`GlobalsStayPartitioned`.

**TrailStack implements ChoiceStack.**  `Implements`.  `Viewed` says that a sequence of
choice points is what is seen in a trail: the choice points of the chain from the oldest
on (`Descends`, which `OldestFirst` is shown to compute), each with the HB and SPB of
its words and the values of the words between it and the next newer one.  `Seeing` says
which trail that is: the words themselves between instructions, in a sweep besides the
addresses that RETRAIL will keep of what is ahead (`Kept`), in the loop of `gv_alloc` the
trail before the move (`Was`); it follows from `IInv` (`Sees`).  A lemma without variables
for each change says what two such views have to do with each other: `TrailView`,
`PushView`, `RetryView`, `FrontView`, `KeepView` (cut and return), `RaiseView` (`gv_set`),
`MovedView` (the shift), `SameView`; the calls follow the places of the saved B in the
sequence (`CallsShow`).  Two more facts go along with a behaviour.  `Sound`, of the
abstract stack: a newer choice point protects no less of the heap, and only protected
addresses are trailed.  `Spacing`, of a sweep: words ahead of it that point upward are at
least four apart and none is just behind, so that a step over four words never begins in
the middle of a choice point.  Then `NextAnswers`, one lemma per action: the steps inside
the loops leave the abstract stack as it is, what a cut or a return does is done where its
sweep begins, and the shift is seen only as the new variable at its end.

**Clauses.**  The constants are only assumed to make sense: the groups are numbers
between those of `asserta` and `assertz` (`GroupAssumption`), the constants of first
arguments are not named like its other kinds (`KeyAssumption`), and the bounds are
naturals that keep the ids of a group apart from those of the next (`BoundAssumption`).  The theorems are about `Spec`: they
need neither the run's constraint `NeverAstray` nor `BoundedSpec`; a choice point that
has gone astray (section 6) is left out of `NoneSkipped`, `InOrder` and
`NoFreedClause`, and the others are not disturbed by it.  `IInv` is `TypeOK` and three
statements about the chain w.  `Chained`: ids ascend along w and each block leads to
the next (`Links`); choice code, entry code, flags and index are those of w (`Coded`,
where `LeftOver` is the code that abolishing all clauses but the first leaves in it);
and `lo_id` and `hi_id` bound the ids (`Numbered`), without which a new clause would
not get its place.  `Awaited`: the choice points of a call are neighbours, at most a
node of the index and an older one (`Pair`), each goes on to a block that is not free
and after all that has run (`Goes`), and together they hold what is still to be run
(`Sound`).  `Walked` says of an enumeration that its id is no later than what it has to return,
and that its reference is good if the id is an integer; where the reference is good
`NextClause` then leads to all of it.  About the integers it is only assumed that
MAXPROLOGINT is a natural, so that it holds however many of the ids are integers.  `Ahead` is why this is
inductive where `NoneSkipped` is not: it is everything in the chain from the block
named, by id, so that it says what becomes of a choice point if that block is erased
(its id remains, the choice code leads to the next one) or another is put in front of
it; that following the choice code block by block visits just these, in order, is
`PathIs`.  What an edit does to the chain is one of four changes (`Grows`, `Shrinks`,
a change of index, a collection), each shown to keep `Chained`, and `Awaited` is then
shown for every such change at once.  The index adds the order of nodes and tables:
entering a node leaves choice points for the rest of the table and the rest of the
nodes, and `w_fixchoicepoints` sends both to the same place in the chain.  Theorems:
`Invariant`, `TypeCorrect`, `ChainStaysLinked`, `NoClauseSkipped`, `ClausesInOrder`,
`NothingFreedEarly`.

**EngineMemory.**  `SizeAssumption` says that no block is at address 0, that the stack
has a word to begin with and the heap two, and that sizes are naturals; nothing is
assumed of how large the sizes asked for are, nor of how blocks are placed to each
other.  `IInv` is `Good`, and `FreeListed` as long as nothing went astray.  `Good` has
`TypeOK` and one fact more: the registers that `run_wam` saved are not newer than the
present ones (`Older`: no deeper stack, no higher heap, no longer trail).  A change of
sizes asks only whether what is in use *now* has room (`Fits`), so this is why the
saved registers are in bounds after the stack or heap shrank.  Of the two sizes in the
engine only the sum is in the invariant: when `resize_memory` changes both and not the
sum they stay as they were, and each bound is computed from the others, which is
enough.  `FreeListed` says that the variables not handed out are those of the list: the
first and all links are to one of them or end it, and no two links, nor a link and the
first, are the same.  Without it `gv_alloc` could hand out a variable twice or take
a word outside the globals.  After a change of sizes it is read off the
image that is compared: if the images are the same, the free list has moved as a whole
(`FreeListKept`).  `ShiftIs`, `ResizeIs`, `RelocateIs` say what the three steps do to
bounds and registers; `SizedIs` puts the first two together in each of the orders the
code chooses (`Placed`), where `MovedTwice` has to see that a pointer is not 0 in
between.  Theorems: `Invariant`, `TypeCorrect`.

**Only model-checked**: `ResizePreserves` and `GrowthPreserves` of `EngineMemory`; everything of `GC`, whose marking is a
RECURSIVE operator, which the proof system does not take; and `ArmedIsNoticed` and
`ThrowEnds`: liveness under fairness, with ENABLED in it, is outside what the proof
system handles.

## 8. Not modelled, and why

Within the modelled components.  Control flow of clause code, indexing
instructions, and the environments' own words (CE, CP) are left out of `Backtrack`:
any instruction may follow any other, which is more than a compiled clause does.
The emulator's delay variables appear in `Interrupts` by what they trail only, and a
nested run there is one that `combin_dels` starts: the other calls of the emulator from C
begin at a call with nothing waiting.  That an exception leaves such a run is not
modelled there, but in `Exceptions`.
Moving the trail has no test for room in the code and `TrailStack` stays within
its bound.  Heap overflow shares the interrupt slot; its branch calls the
collector, which is `GC`.  A signal that comes outside `run_wam` is handled by
Prolog calls from the handler.  `Clauses` is one procedure: the code space is a set
of blocks of one size, `w_collect` does not look at return addresses (a running
clause that is erased), and does not look at the frame at `spb`; `w_freecount`, which
counts the header of the code area too, is a statistic.  `EngineMemory` leaves out the mark area, which is
unused between collections, and the saved images that `generic/alloc.c` loads at
other addresses.  `Exceptions` leaves out the abort of a command
(`wm_aborted`, `reissue_cntrlc`), the choice point that mangles after a handler,
and the fail stack of `cexception.c`, which no Prolog goal sees.  `GC` has acyclic
terms, one argument, one environment variable; the growth of the heap at its end
is `GrowHeap` of `EngineMemory`; compaction bits stay set after a full collection
(`gc.c:451`), which the model has and which is harmless.

Components of the plan not begun: delay terms and what their combination makes, modules
(steps 8 and 9).

Left out for good: the compiler and parser (translation of unbounded terms, nothing
concurrent, and small instances say little); streams and files, packaging of saved
states, the foreign interface, Tcl/Tk and platform code (conversion and
operating-system calls); the library in Prolog, which runs on what is modelled.
The symbol table, the block allocator of `generic/mem.c`, stream buffers and the job
server are candidates for step 9.
