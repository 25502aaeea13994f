-------------------------------- MODULE Clauses --------------------------------
(***************************************************************************)
(* One Prolog procedure while it is running (wintcode.c, index.c and the   *)
(* choice instructions of wam.c): its clauses in a chain, the two words of *)
(* choice code in each clause that a failure jumps to, the entry code, the *)
(* index block, and the choice points and clause/2 enumerations that hold  *)
(* addresses of all these while clauses are added and erased.              *)
(*                                                                         *)
(* An address of code is a tuple: <<"clause", b>> is the choice entry of   *)
(* block b; <<"top", i>> and <<"bottom", i>> are in the index block, where *)
(* clause i of the index, or the node that begins with it, is tried;       *)
(* <<"fail">> is wm_trust_fail.  First arguments are constants, except     *)
(* "var" (unbound) and, in calls only, "other" (a constant of no clause)    *)
(* and "list" (of a type no clause has).                                   *)
(***************************************************************************)
EXTENDS Integers, SequencesExt, FiniteSetsExt

CONSTANTS
  MaxBlocks,  (* blocks of code space                                      *)
  MaxChoice,  (* choice points, a bound of the model                       *)
  Constants,  (* first arguments of clauses and calls                      *)
  Asserta,    (* CGI_ASSERTA, CGI_ASSERTZ: the groups of assert; the other *)
  Assertz,    (* groups are the consulted files                            *)
  Files,
  IdSpan,     (* 2^CGI_OFFSET: the ids of a group                          *)
  MaxInt,     (* MAXPROLOGINT                                              *)
  MaxId       (* a bound of the model on the counters of ids               *)

ASSUME GroupAssumption ==
  /\ Asserta \in Int /\ Assertz \in Int /\ Asserta < Assertz /\ Files \subseteq Int
  /\ \A g \in Files : Asserta < g /\ g < Assertz
ASSUME BoundAssumption ==
  /\ MaxBlocks \in Nat \ {0} /\ MaxChoice \in Nat \ {0} /\ MaxId \in Nat
  /\ IdSpan \in Nat /\ IdSpan > 2 * MaxId /\ IdSpan > 1 /\ MaxInt \in Nat
ASSUME KeyAssumption == {"var", "other", "list"} \cap Constants = {}

VARIABLES
  proc,   (* the name table entry                                          *)
  block,  (* the clause blocks                                             *)
  cps,    (* the choice points of the procedure, oldest first              *)
  walk    (* an enumeration by clause/2 or retract/1: the reference it has *)
          (* to the next clause                                            *)

vars == <<proc, block, cps, walk>>

None == 0
Blocks == 1 .. MaxBlocks
Keys == Constants \cup {"var"}
CallKeys == Keys \cup {"other", "list"}

(* Entry code: "empty" stands for resolve_ref and for the fail of a        *)
(* dynamic procedure.  own: does the jump to the first clause use the      *)
(* offset of that clause.                                                  *)
Empty == [op |-> "empty", first |-> None, second |-> None, own |-> TRUE]
Jump(b) == [Empty EXCEPT !.op = "jump", !.first = b]
TryMeJump(b, c, o) == [op |-> "try_me_jump", first |-> b, second |-> c, own |-> o]
SwitchOnTerm == [Empty EXCEPT !.op = "switch"]

(* Choice code of a block; "free" is a block that is no clause at all.     *)
RetryMe(c) == [op |-> "retry", to |-> c]
TrustMe == [op |-> "trust", to |-> None]
TryMe(c) == [op |-> "try", to |-> c]
Deleted == [op |-> "deleted", to |-> None]
Free == [op |-> "free", to |-> None]

Procedures ==
  [first: Blocks \cup {None}, last: Blocks \cup {None},
   usage: {"undefined", "single", "multiple", "switch"},
   entry: [op: {"empty", "jump", "try_me_jump", "switch"},
           first: Blocks \cup {None}, second: Blocks \cup {None}, own: BOOLEAN],
   index: Seq(Blocks), counting: BOOLEAN, lo: Int, hi: Int]
ClauseBlocks ==
  [code: [op: {"retry", "trust", "try", "deleted", "free"}, to: Blocks \cup {None}],
   next: Blocks \cup {None}, id: Int, key: Keys]
ChoicePoints ==
  [next: {<<"fail">>} \cup ({"clause", "top", "bottom"} \X Blocks),
   call: 1 .. MaxChoice, key: CallKeys,
   todo: SUBSET Blocks, ran: SUBSET Blocks, astray: BOOLEAN]

Enumerations == [next: Blocks \cup {None}, id: Int, todo: SUBSET Blocks]

TypeOK ==
  /\ proc \in Procedures /\ block \in [Blocks -> ClauseBlocks]
  /\ cps \in Seq(ChoicePoints) /\ Len(cps) <= MaxChoice
  /\ walk \in Enumerations

(***************************************************************************)
(* The chain.  d is a database: procedure, blocks and choice points.       *)
(***************************************************************************)
db == [p |-> proc, b |-> block, c |-> cps]

ChainFrom(d, b) ==
  LET chain[a \in Blocks \cup {None}] ==
        IF a = None THEN << >> ELSE <<a>> \o chain[d.b[a].next]
  IN  chain[b]
Chain(d) == ChainFrom(d, d.p.first)

IsDeleted(d, b) == d.b[b].code.op = "deleted"

(* The clause where a walk of the chain that looks for an id stops *)
FirstFrom(d, id) ==
  LET c == Chain(d)
      from == {i \in DOMAIN c : d.b[c[i]].id >= id}
  IN  IF from = {} THEN None ELSE c[Min(from)]

(* Mutant of NextClause: an erased clause is not told from a live one. *)
NextClauseUnmarked(d, b) == IF b = None THEN None ELSE d.b[b].next

NextClause(d, b) ==
  CASE b = None -> None
    [] b # None /\ IsDeleted(d, b) -> FirstFrom(d, d.b[b].id)
    [] OTHER -> d.b[b].next

Group(id) == id \div IdSpan

InstallEntry(d, e) == [d EXCEPT !.p.entry = e, !.p.counting = FALSE]
InstallChoice(d, b, code) == [d EXCEPT !.b[b].code = code]

(* Count down to indexing if there are several clauses *)
SetICount(d) == IF d.p.usage = "multiple" THEN [d EXCEPT !.p.counting = TRUE] ELSE d

(***************************************************************************)
(* The index block.  What it tries is named by positions in p.index.       *)
(***************************************************************************)
KeyAt(d, i) == d.b[d.p.index[i]].key
After(S, i) == {j \in S : j > i}

(* Where the top-level nodes for a call begin: a clause whose first        *)
(* argument is a variable stands alone, those between two such are a node. *)
(* For a list only the clauses with a variable are left.                   *)
Nodes(d, key) ==
  {i \in DOMAIN d.p.index :
     IF key = "list" THEN KeyAt(d, i) = "var"
     ELSE i = 1 \/ KeyAt(d, i - 1) = "var" \/ KeyAt(d, i) = "var"}

(* From i to the end of its node *)
Node(d, i) == {j \in DOMAIN d.p.index : i <= j /\ (i = j \/ \A k \in i .. j : KeyAt(d, k) # "var")}

(* Several clauses are looked up in a table. *)
IsTable(d, i) == Node(d, i) # {i}

(* Those which a call runs *)
Matches(d, i, key) ==
  IF IsTable(d, i) THEN {j \in Node(d, i) : KeyAt(d, j) = key} ELSE {i}

(* The current chain is what indexing would give. *)
ChainSuffices(d, key) == Nodes(d, key) = DOMAIN d.p.index

DoIndexing(d) ==
  LET d1 == [d EXCEPT !.p.index = Chain(d)]
  IN  IF d.p.usage # "multiple" THEN d
      ELSE IF \A k \in CallKeys \ {"var"} : ChainSuffices(d1, k) THEN d
      ELSE [InstallEntry(InstallChoice(d1, d.p.first, TryMe(d.b[d.p.first].next)),
                         SwitchOnTerm)
            EXCEPT !.p.usage = "switch"]

InBlock(cp) == cp.next[1] \in {"top", "bottom"}

(* Mutant of NextInChain: beside a table, its last clause is looked at. *)
NextInChainPastTable(d, cp) ==
  LET i == cp.next[2]
  IN  IF cp.next[1] = "bottom" THEN <<"clause", d.p.index[i]>>
      ELSE <<"clause", d.b[d.p.index[Max(Node(d, i))]].next>>

(* The choice entry of the clause that a choice point in the index block   *)
(* would have come to next: of a table, the one after the clause beside it *)
NextInChain(d, cp) ==
  LET i == cp.next[2]
  IN  IF cp.next[1] = "top" /\ IsTable(d, i) THEN <<"clause", d.b[d.p.index[i - 1]].next>>
      ELSE <<"clause", d.p.index[i]>>

(* Mutant of FixChoicePoints: each choice point is taken by itself. *)
FixChoicePointsAlone(d) ==
  [d EXCEPT !.c = [k \in DOMAIN d.c |->
     IF InBlock(d.c[k]) THEN [d.c[k] EXCEPT !.next = NextInChain(d, d.c[k])] ELSE d.c[k]]]

(***************************************************************************)
(* The choice points leave the index block.  Where two of one call are in  *)
(* it the older, made for the nodes, has nothing left to try once the      *)
(* newer goes on along the chain.                                          *)
(***************************************************************************)
FixChoicePoints(d) ==
  LET newerHasIt(k) ==
        \E j \in k + 1 .. Len(d.c) :
          /\ InBlock(d.c[j]) /\ d.c[j].call = d.c[k].call
          /\ \A i \in k + 1 .. j - 1 : ~InBlock(d.c[i])
      fixed(k) ==
        CASE ~InBlock(d.c[k]) -> d.c[k]
          [] InBlock(d.c[k]) /\ newerHasIt(k) -> [d.c[k] EXCEPT !.next = <<"fail">>]
          [] OTHER -> [d.c[k] EXCEPT !.next = NextInChain(d, d.c[k])]
  IN  [d EXCEPT !.c = [k \in DOMAIN d.c |-> fixed(k)]]

NukeIndexing(d) ==
  LET first == d.p.first
      second == d.b[first].next
      d1 == [FixChoicePoints(d) EXCEPT !.p.index = << >>]
  IN  IF d.p.usage # "switch" THEN d
      ELSE IF second = None THEN [InstallEntry(d1, Jump(first)) EXCEPT !.p.usage = "single"]
      ELSE [InstallChoice(InstallEntry(d1, TryMeJump(first, second, TRUE)),
                          first, RetryMe(second))
            EXCEPT !.p.usage = "multiple"]

(***************************************************************************)
(* Erasing.  Blocks are kept while something may still come to them.       *)
(***************************************************************************)
FreeClauses(d, gone) ==
  [d EXCEPT !.b = [b \in Blocks |->
     IF b \in gone THEN [d.b[b] EXCEPT !.next = None, !.code = Deleted, !.key = "var"]
     ELSE d.b[b]]]

(* A database reference is the address of a clause and its id.  It is good *)
(* while that id is found there.                                           *)
ReferenceGood(d) ==
  walk.next # None /\ d.b[walk.next].code # Free /\ d.b[walk.next].id = walk.id

(* Any other number is put on the heap as a double. *)
IsPrologInteger(n) == - MaxInt - 1 <= n /\ n <= MaxInt

(* Mutant of Marked: Step 3 is left out. *)
MarkedByReferences(d) == {b \in {walk.next} : ReferenceGood(d) /\ IsPrologInteger(walk.id)}

(* What w_collect marks: the next clauses of the choice points, and what   *)
(* the database references on the heap refer to, but only those whose id   *)
(* is an integer: Step 2 takes the pointer to a double for the id itself.  *)
Marked(d) ==
  {b \in {walk.next} : ReferenceGood(d) /\ IsPrologInteger(walk.id)}
    \cup {b \in Blocks : \E k \in DOMAIN d.c : d.c[k].next = <<"clause", b>>}

Collected(d) ==
  [d EXCEPT !.b = [b \in Blocks |->
     IF IsDeleted(d, b) /\ b \notin Marked(d)
     THEN [code |-> Free, next |-> None, id |-> 0, key |-> "var"] ELSE d.b[b]]]

(* The procedure has lost its last clause. *)
Emptied(d) == [InstallEntry(d, Empty) EXCEPT !.p.first = None, !.p.last = None,
                                             !.p.usage = "undefined"]

(* Mutant of Only: the procedure is not made single. *)
OnlyStaysMultiple(d, b) == InstallEntry(d, Jump(b))

(* b is the only clause left. *)
Only(d, b) == [InstallEntry(d, Jump(b)) EXCEPT !.p.usage = "single"]

(* The first clause of several *)
HeadOf(d, b) == InstallEntry(d, TryMeJump(b, d.b[b].next, TRUE))

Unlinked(d, a) ==
  LET p == CHOOSE b \in ToSet(Chain(d)) : d.b[b].next = a
      q == d.b[a].next
      cut == [d EXCEPT !.b[p].next = q]
  IN  CASE a = d.p.first /\ q = None -> Emptied(d)
        [] a = d.p.first /\ q # None ->
             LET d1 == [d EXCEPT !.p.first = q]
             IN  IF d.b[q].next = None THEN Only(d1, q) ELSE HeadOf(d1, q)
        [] a # d.p.first /\ q = None ->
             LET d1 == [InstallChoice(cut, p, TrustMe) EXCEPT !.p.last = p]
             IN  IF p = d.p.first THEN Only(d1, p) ELSE d1
        [] OTHER ->
             LET d1 == InstallChoice(cut, p, RetryMe(q))
             IN  IF p = d.p.first THEN HeadOf(d1, p) ELSE d1

(* What was erased is no longer part of what a call ran or has to run. *)
Forget(d, gone) ==
  [d EXCEPT !.c = [k \in DOMAIN d.c |-> [d.c[k] EXCEPT !.todo = @ \ gone, !.ran = @ \ gone]]]

(***************************************************************************)
(* abolish of the clauses in the set gone, consecutive in the chain.       *)
(* collect is how many of them are on the free list when w_collect comes.  *)
(***************************************************************************)
Abolished(d, gone, collect) ==
  LET chain == Chain(d)
      at == {i \in DOMAIN chain : chain[i] \in gone}
      eb1 == IF Min(at) = 1 THEN None ELSE chain[Min(at) - 1]
      p == d.b[chain[Max(at)]].next
      sooner == {chain[i] : i \in {j \in at : j < Min(at) + collect}}
      swept == IF collect = 0 THEN d ELSE Collected(FreeClauses(d, sooner))
      freed == FreeClauses(swept, gone \ sooner)
      linked == [freed EXCEPT !.b[eb1].next = p]
  IN  CASE eb1 # None /\ p # None -> InstallChoice(linked, eb1, RetryMe(p))
        [] eb1 # None /\ p = None ->
             LET d1 == [linked EXCEPT !.p.last = eb1]
             IN  IF eb1 = d.p.first THEN Only(d1, eb1) ELSE InstallChoice(d1, eb1, TrustMe)
        [] eb1 = None /\ p # None ->
             LET d1 == [freed EXCEPT !.p.first = p]
             IN  IF d1.b[p].next = None THEN Only(d1, p) ELSE HeadOf(d1, p)
        [] OTHER -> Emptied(freed)

AbolishGroup(d, gone, collect) ==
  LET d1 == NukeIndexing(d)
  IN  IF gone = {} THEN d1 ELSE Forget(Abolished(d1, gone, collect), gone)

(***************************************************************************)
(* Adding clause n with first argument key to group cg                     *)
(***************************************************************************)
Filled(d, n, id, key, next, code) ==
  [d EXCEPT !.b[n] = [code |-> code, next |-> next, id |-> id, key |-> key]]

Linked(d, n, id, key, next, code, prev) ==
  [InstallChoice(Filled(d, n, id, key, next, code), prev, RetryMe(n)) EXCEPT !.b[prev].next = n]

AddedToNone(d, n, cg, key) ==
  [InstallEntry(Filled(d, n, cg * IdSpan, key, None, TrustMe), Jump(n))
   EXCEPT !.p.first = n, !.p.last = n, !.p.usage = "single"]

AddedAtEnd(d, n, cg, key) ==
  LET last == d.p.last
      id == CASE cg = Assertz -> cg * IdSpan + d.p.hi + 1
              [] cg # Assertz /\ cg = Group(d.b[last].id) -> d.b[last].id + 1
              [] OTHER -> cg * IdSpan
      d1 == [Linked(d, n, id, key, None, TrustMe, last)
             EXCEPT !.p.last = n, !.p.hi = IF cg = Assertz THEN @ + 1 ELSE @]
  IN  IF d.p.usage = "single"
      THEN [InstallEntry(d1, TryMeJump(last, n, TRUE)) EXCEPT !.p.usage = "multiple"]
      ELSE d1

AddedInFront(d, n, id, key) ==
  LET next == d.p.first
      only == d.b[next].next = None
      d1 == Filled(d, n, id, key, next, RetryMe(next))
      d2 == IF only THEN [InstallChoice(d1, next, TrustMe) EXCEPT !.p.usage = "multiple"] ELSE d1
  IN  [InstallEntry(d2, TryMeJump(n, next, TRUE)) EXCEPT !.p.first = n]

(* The entry code of a procedure whose first clause is prev is given the   *)
(* offset of the new clause.                                               *)
AddedBetween(d, n, id, key, prev) ==
  LET next == d.b[prev].next
      d1 == Linked(d, n, id, key, next, RetryMe(next), prev)
  IN  IF prev = d.p.first THEN InstallEntry(d1, TryMeJump(prev, n, FALSE)) ELSE d1

Added(d, n, cg, key) ==
  LET chain == Chain(d)
      upto == {i \in DOMAIN chain : d.b[chain[i]].id < (cg + 1) * IdSpan - 1}
      prev == chain[Max(upto)]
      id == IF upto # {} /\ Group(d.b[prev].id) = cg THEN d.b[prev].id + 1 ELSE cg * IdSpan
  IN  CASE d.p.first = None -> AddedToNone(d, n, cg, key)
        [] d.p.first # None /\ cg # Asserta /\ cg >= Group(d.b[d.p.last].id) ->
             AddedAtEnd(d, n, cg, key)
        [] d.p.first # None /\ cg = Asserta ->
             [AddedInFront(d, n, cg * IdSpan + d.p.lo - 1, key) EXCEPT !.p.lo = @ - 1]
        [] OTHER ->
             IF upto = {} THEN AddedInFront(d, n, id, key)
                             ELSE AddedBetween(d, n, id, key, prev)

(***************************************************************************)
(* Calling and failing.  A result is the choice points left and the clause *)
(* that is entered, or None if the call fails.                             *)
(***************************************************************************)
Enter(c, b) == [cps |-> c, clause |-> b]

NewChoice(next, call, key, todo, astray) ==
  [next |-> next, call |-> call, key |-> key, todo |-> todo, ran |-> {}, astray |-> astray]

(* Table or clause of a node.  A table with several matching clauses makes *)
(* a choice point of its own.                                              *)
EnterNode(d, c, i, cp) ==
  LET m == Matches(d, i, cp.key)
      first == Min(m)
      more == After(m, first)
  IN  CASE m = {} -> Enter(c, None)
        [] m # {} /\ more = {} -> Enter(c, d.p.index[first])
        [] OTHER -> Enter(Append(c, [cp EXCEPT !.next = <<"bottom", Min(more)>>]),
                          d.p.index[first])

(* TRY_ME of a first clause: the choice point is made in addition to what  *)
(* there is.                                                               *)
EnterFirst(d, c, cp) ==
  LET first == d.p.first
      code == d.b[first].code
  IN  Enter(Append(c, [cp EXCEPT !.next = <<"clause", code.to>>]), first)

(* The first argument counts only where the index tells it from others. *)
LookedUp(d, key) ==
  IF d.p.usage = "switch" /\ ~ChainSuffices(d, key) THEN key ELSE "var"

Fitting(d, key) == {b \in ToSet(Chain(d)) : key \in {"var", d.b[b].key} \/ d.b[b].key = "var"}

Called(d, cp) ==
  LET e == d.p.entry
      nodes == Nodes(d, cp.key)
      more == After(nodes, Min(nodes))
  IN  CASE e.op = "empty" -> Enter(d.c, None)
        [] e.op = "jump" -> Enter(d.c, e.first)
        [] e.op = "try_me_jump" ->
             Enter(Append(d.c, [cp EXCEPT !.next = <<"clause", e.second>>,
                                          !.astray = e.second # d.b[e.first].next]), e.first)
        [] e.op = "switch" /\ LookedUp(d, cp.key) = "var" -> EnterFirst(d, d.c, cp)
        [] e.op = "switch" /\ LookedUp(d, cp.key) # "var" ->
             IF nodes = {} THEN Enter(d.c, None)
             ELSE IF more = {} THEN EnterNode(d, d.c, Min(nodes), cp)
             ELSE EnterNode(d, Append(d.c, [cp EXCEPT !.next = <<"top", Min(more)>>]),
                            Min(nodes), cp)

(* A call that has left its way is not followed any further: history only. *)
Lost(c, call) ==
  [k \in DOMAIN c |-> IF c[k].call = call THEN [c[k] EXCEPT !.astray = TRUE] ELSE c[k]]

(* The choice entry of block b, for a failure to the newest choice point   *)
Resumed(d, b) ==
  LET n == Len(d.c)
      code == d.b[b].code
      lost == Lost(d.c, d.c[n].call)
      kept == IF code.to = d.b[b].next THEN d.c ELSE lost
  IN  CASE code.op = "retry" -> Enter([kept EXCEPT ![n].next = <<"clause", code.to>>], b)
        [] code.op = "trust" -> Enter(Front(d.c), b)
        [] code.op = "try" ->
             Enter(Append(lost, [lost[n] EXCEPT !.next = <<"clause", code.to>>]), b)
        [] OTHER -> Enter(lost, None)

Failed(d) ==
  LET n == Len(d.c)
      cp == d.c[n]
      i == cp.next[2]
      target == IF IsDeleted(d, i) THEN NextClause(d, i) ELSE i
      nodes == After(Nodes(d, cp.key), i)
      clauses == After(Matches(d, i, cp.key), i)
      (* the choice point after an instruction in the index block *)
      on(kind, more) ==
        IF more = {} THEN Front(d.c) ELSE [d.c EXCEPT ![n].next = <<kind, Min(more)>>]
  IN  CASE cp.next[1] = "fail" -> Enter(Front(d.c), None)
        [] cp.next[1] = "clause" ->
             IF target = None THEN Enter(Front(d.c), None) ELSE Resumed(d, target)
        [] cp.next[1] = "top" -> EnterNode(d, on("top", nodes), i, cp)
        [] cp.next[1] = "bottom" -> Enter(on("bottom", clauses), d.p.index[i])

(* Clause b runs in the call numbered call: history only. *)
Ran(c, call, b) ==
  [k \in DOMAIN c |-> IF c[k].call = call
                      THEN [c[k] EXCEPT !.todo = @ \ {b}, !.ran = @ \cup ({b} \ {None})] ELSE c[k]]

NoWalk == [next |-> None, id |-> 0, todo |-> {}]

(* make_dbref of the clause that the enumeration is to return next *)
ReferTo(b, todo) == [next |-> b, id |-> IF b = None THEN 0 ELSE block[b].id, todo |-> todo]

(***************************************************************************)
(* Actions                                                                 *)
(***************************************************************************)
Init ==
  /\ proc = [first |-> None, last |-> None, usage |-> "undefined", entry |-> Empty,
             index |-> << >>, counting |-> FALSE, lo |-> 0, hi |-> 0]
  /\ block = [b \in Blocks |-> [code |-> Free, next |-> None, id |-> 0, key |-> "var"]]
  /\ cps = << >>
  /\ walk = NoWalk

(* Only an index block looks at the first argument once more. *)
KeyForgotten(c) ==
  [k \in DOMAIN c |-> IF InBlock(c[k]) THEN c[k] ELSE [c[k] EXCEPT !.key = "var"]]

Becomes(d) == \E e \in {d} : proc' = e.p /\ block' = e.b /\ cps' = KeyForgotten(e.c)

InGroup(d, cg) == {b \in ToSet(Chain(d)) : Group(d.b[b].id) = cg}

(* w_addclause.  w_reconstamp is never set, so no clause is abolished      *)
(* here: a reconsult abolishes the clauses of its file beforehand.         *)
AddClause(cg, key) ==
  LET d == NukeIndexing(db)
      free == {b \in Blocks : block[b].code = Free}
      added == Added(d, Min(free), cg, key)
  IN  /\ free # {}
      /\ added.b[Min(free)].id \in cg * IdSpan - MaxId .. cg * IdSpan + MaxId
      /\ added.p.hi - added.p.lo <= MaxId
      /\ Becomes(SetICount(added))
      /\ UNCHANGED walk

Erase(a) ==
  LET d1 == Unlinked(NukeIndexing(db), a)
      d2 == Forget(FreeClauses(d1, {a}), {a})
  IN  /\ a \in ToSet(Chain(db))
      /\ \E collect \in BOOLEAN :
           Becomes(SetICount(IF collect THEN Collected(d2) ELSE d2))
      /\ walk' = [walk EXCEPT !.todo = @ \ {a}]

(* $erase of a reference to a clause already erased fails, but only after  *)
(* the indexing is gone.                                                   *)
EraseAgain(a) ==
  /\ IsDeleted(db, a) /\ proc.usage = "switch"
  /\ Becomes(NukeIndexing(db))
  /\ UNCHANGED walk

(* w_collect, when clauses of other procedures are erased *)
CollectOther ==
  /\ Collected(db) # db
  /\ Becomes(Collected(db))
  /\ UNCHANGED walk

(* abolish/3, or the clauses of one file *)
Abolish(gone) ==
  /\ proc.first # None
  /\ \E collect \in 0 .. Cardinality(gone) :
       Becomes(AbolishGroup(db, gone, collect))
  /\ walk' = [walk EXCEPT !.todo = @ \ gone]

AbolishAny == Abolish(ToSet(Chain(db))) \/ \E cg \in Files : Abolish(InGroup(db, cg))

(* A call of the procedure, from anywhere *)
Call(key) ==
  LET d == IF proc.counting THEN [DoIndexing(db) EXCEPT !.p.counting = FALSE] ELSE db
      call == Min(1 .. MaxChoice + 1 \ {cps[k].call : k \in DOMAIN cps})
      k == LookedUp(d, key)
      r == Called(d, NewChoice(<<"fail">>, call, k, Fitting(d, k), FALSE))
  IN  /\ Len(r.cps) <= MaxChoice
      /\ Becomes([d EXCEPT !.c = Ran(r.cps, call, r.clause)])
      /\ UNCHANGED walk

Fail ==
  /\ cps # << >>
  /\ LET r == Failed(db)
     IN  /\ Len(r.cps) <= MaxChoice
         /\ Becomes([db EXCEPT !.c = Ran(r.cps, Last(cps).call, r.clause)])
  /\ UNCHANGED walk

(* clauses/2 of blt_db.pro: with each clause that is returned the          *)
(* reference to the one after it is taken already.                         *)
WalkFirst ==
  /\ proc.first # None
  /\ walk' = ReferTo(NextClause(db, proc.first), ToSet(Chain(db)) \ {proc.first})
  /\ UNCHANGED <<proc, block, cps>>

WalkNext ==
  /\ ReferenceGood(db)
  /\ walk' = ReferTo(NextClause(db, walk.next), walk.todo \ {walk.next})
  /\ UNCHANGED <<proc, block, cps>>

(* $clauseinfo fails, and with it the enumeration. *)
WalkEnds ==
  /\ walk.next # None /\ ~ ReferenceGood(db)
  /\ walk' = NoWalk
  /\ UNCHANGED <<proc, block, cps>>

Edit ==
  \/ \E cg \in Files \cup {Asserta, Assertz}, key \in Keys : AddClause(cg, key)
  \/ \E a \in Blocks : Erase(a) \/ EraseAgain(a)
  \/ CollectOther \/ AbolishAny

Run == Fail \/ \E key \in CallKeys : Call(key)
Walk == WalkFirst \/ WalkNext \/ WalkEnds

Next == Edit \/ Run \/ Walk

Spec == Init /\ [][Next]_vars

(* A bound of the model: enumerations and calls one at a time *)
BoundedNext == Edit \/ (walk = NoWalk /\ Run) \/ (cps = << >> /\ Walk)
BoundedSpec == Init /\ [][BoundedNext]_vars

------------------------------------------------------------------------------
(***************************************************************************)
(* Properties                                                              *)
(***************************************************************************)
EntryIntact ==
  proc.entry.op = "try_me_jump" => proc.entry.second = block[proc.entry.first].next

(***************************************************************************)
(* Chain, choice code, entry code, flags and index agree at every moment:  *)
(* ids ascend, each clause goes on to the next and the last to none, the   *)
(* first one begins with TRY_ME exactly while the procedure is indexed,    *)
(* and what is not in the chain cannot be run (wintcode.c, index.c).       *)
(***************************************************************************)
ChainLinked ==
  LET c == Chain(db)
      n == Len(c)
      code(i) == IF i = n THEN TrustMe
                 ELSE IF i = 1 /\ proc.usage = "switch" THEN TryMe(c[2]) ELSE RetryMe(c[i + 1])
      leftOver == n = 1 /\ block[c[1]].code.op = "retry" /\ block[c[1]].code.to \notin ToSet(c)
  IN  /\ leftOver \/ \A i \in 1 .. n : block[c[i]].code = code(i)
      /\ \A i \in 1 .. n - 1 : block[c[i]].id < block[c[i + 1]].id
      /\ \A b \in Blocks \ ToSet(c) : block[b].code \in {Deleted, Free}
      /\ proc.last = IF n = 0 THEN None ELSE c[n]
      /\ CASE n = 0 -> proc.usage = "undefined" /\ proc.entry = Empty
           [] n = 1 -> proc.usage = "single" /\ proc.entry = Jump(c[1])
           [] OTHER -> \/ proc.usage = "multiple" /\ proc.entry.op = "try_me_jump"
                                                  /\ proc.entry.first = c[1]
                       \/ proc.usage = "switch" /\ proc.entry = SwitchOnTerm
      /\ proc.index = IF proc.usage = "switch" THEN c ELSE << >>

(* The clauses that a failure to the choice entry of b runs, one after the *)
(* other                                                                   *)
PathFrom(d, b) ==
  LET path[a \in Blocks \cup {None}] ==
        IF a = None THEN << >>
        ELSE LET code == d.b[a].code
             IN  CASE code.op \in {"retry", "try"} -> <<a>> \o path[code.to]
                   [] code.op = "trust" -> <<a>>
                   [] code.op = "deleted" -> path[NextClause(d, a)]
                   [] OTHER -> << >>
  IN  path[b]

(* The clauses that a choice point is still going to run *)
Pending(d, cp) ==
  LET i == cp.next[2]
      at == CASE cp.next[1] = "top" ->
                   UNION {Matches(d, j, cp.key) : j \in {k \in Nodes(d, cp.key) : k >= i}}
              [] cp.next[1] = "bottom" -> Matches(d, i, cp.key)
              [] OTHER -> {}
  IN  IF cp.next[1] = "clause" THEN ToSet(PathFrom(d, i)) ELSE {d.p.index[j] : j \in at}

(* What is left of a call, on all its choice points *)
Rest(d, call) == UNION {Pending(d, d.c[k]) : k \in {j \in DOMAIN d.c : d.c[j].call = call}}

OnTrack == {k \in DOMAIN cps : ~cps[k].astray}

(***************************************************************************)
(* A clause that was there when the call was made, and whose first         *)
(* argument fits, is tried, unless it is erased before, whatever is added, *)
(* erased or indexed meanwhile: for running calls, calls that might be     *)
(* made now, while none runs, and enumerations, whose reference may be to  *)
(* an erased clause or to one put in its place since.  Where the reference *)
(* is good no more the enumeration ends: NoFreedClause and                 *)
(* EnumerationGoesOn say when.                                             *)
(***************************************************************************)
NoneSkipped ==
  /\ \A k \in OnTrack : cps[k].todo \subseteq Rest(db, cps[k].call)
  /\ cps = << >> /\ EntryIntact => \A key \in CallKeys :
       LET r == Called(db, NewChoice(<<"fail">>, 1, key, Fitting(db, key), FALSE))
       IN  Fitting(db, key) \subseteq {r.clause} \cup Rest([db EXCEPT !.c = r.cps], 1)
  /\ ReferenceGood(db) =>
       walk.todo \subseteq {walk.next} \cup ToSet(ChainFrom(db, NextClause(db, walk.next)))

(***************************************************************************)
(* What a call is still going to run comes in the order of the chain and   *)
(* after everything it has run: no clause runs twice, and leaving the      *)
(* index block does not go back.                                           *)
(***************************************************************************)
Before(b, c) == block[b].id < block[c].id

InOrder ==
  \A k \in OnTrack :
    /\ cps[k].next[1] = "clause" =>
         LET path == PathFrom(db, cps[k].next[2])
         IN  \A i \in 1 .. Len(path) - 1 : Before(path[i], path[i + 1])
    /\ \A b \in Pending(db, cps[k]) :
         /\ \A a \in cps[k].ran : Before(a, b)
         /\ \A j \in k + 1 .. Len(cps) :
              cps[j].call = cps[k].call => \A a \in Pending(db, cps[j]) : Before(a, b)

(***************************************************************************)
(* w_collect frees no block that a choice point goes on to, whenever it    *)
(* comes, nor one that an enumeration has a reference to, if the id in the *)
(* reference is an integer.                                                *)
(***************************************************************************)
NoFreedClause ==
  /\ \A k \in OnTrack : cps[k].next[1] = "clause" => block[cps[k].next[2]].code # Free
  /\ walk.next # None /\ IsPrologInteger(walk.id) => ReferenceGood(db)

(***************************************************************************)
(* docs/docs/ref/clause.md:26, of clause/2: if more than one clause        *)
(* matches, successive ones are generated upon backtracking.  An           *)
(* enumeration that has clauses to return goes on to them.  It does not    *)
(* where the next clause was asserted and is erased meanwhile, and         *)
(* w_collect comes: see Marked.                                            *)
(***************************************************************************)
EnumerationGoesOn == walk.todo # {} => ReferenceGood(db)

(***************************************************************************)
(* The constraint of the run.  The code does not always keep a choice      *)
(* point on its way: indexing makes TRY_ME of a clause that one goes on to *)
(* (index.c:245), and the entry code may name an erased clause as the      *)
(* second (wintcode.c:1603).  What comes after such a step is not looked   *)
(* at here.                                                                *)
(***************************************************************************)
NeverAstray == \A k \in DOMAIN cps : ~cps[k].astray
================================================================================
