--------------------------- MODULE InterruptsProofs ---------------------------
(***************************************************************************)
(* Proofs about Interrupts, for every set of signals and every bound on    *)
(* choice points and nested handlers.                                      *)
(***************************************************************************)
EXTENDS Interrupts, SequenceTheorems, TLAPS

(***************************************************************************)
(* The inductive invariant adds four facts to what is to be shown.         *)
(***************************************************************************)

(* The instructions that assign wm_safety first are armed until they have  *)
(* assigned wm_interrupt_caught.                                           *)
StaysArmed == pc \in {"bind", "check"} => safety = "armed"

(* There is room for the wake-up on its way, and for a handler that        *)
(* interrupts it.                                                          *)
Room ==
  /\ Collecting => Len(handlers) + 1 <= MaxNested
  /\ pc = "bind" \/ (caught = WAKE /\ pc # "read") => Len(handlers) + 2 <= MaxNested

(* Each nested run was started with more choice points than its caller.    *)
RunsNested ==
  \A i, j \in 1 .. Len(runs) : i < j => runs[i] < runs[j]

(* An undisturbed woken goal is in the newest segment, where clct_tr will  *)
(* reach it, and its wake-up is on its way: between the two assignments of *)
(* BIND, in the slot and armed, noticed, or delivered with clct_tr as the  *)
(* next goal.                                                              *)
OnItsWay ==
  \/ pc = "bind"
  \/ pc = "run" /\ caught = WAKE /\ safety = "armed"
  \/ pc = "noticed" /\ caught = WAKE /\ safety = "normal"
  \/ pc \in {"read", "run"} /\ Collecting /\ safety = "normal"

WakesOnTheirWay ==
  Waiting(segments) /\ ~ disturbed =>
    /\ \A i \in 1 .. Len(segments) - 1 : segments[i] = {}
    /\ "hidden" \notin segments[Len(segments)]
    /\ OnItsWay

IInv ==
  /\ TypeOK
  /\ DeliveredOnce
  /\ StaysArmed
  /\ Room
  /\ RunsNested
  /\ WakesOnTheirWay

------------------------------------------------------------------------------
Handler(n) == [cause : Slot, depth : 1 .. n]

LEMMA FrontProperties ==
  ASSUME NEW S, NEW s \in Seq(S), Len(s) > 0
  PROVE  /\ Front(s) \in Seq(S)
         /\ Len(Front(s)) = Len(s) - 1
         /\ \A i \in 1 .. Len(s) - 1 : Front(s)[i] = s[i]
  <1>1. Len(s) \in Nat /\ Len(s) - 1 \in Int /\ \A i \in 1 .. Len(s) - 1 : s[i] \in S
    BY LenProperties, ElementOfSeq
  <1>2. ASSUME NEW n \in Nat, n = Len(s) - 1
        PROVE  /\ SubSeq(s, 1, n) \in Seq(S)
               /\ Len(SubSeq(s, 1, n)) = n
               /\ \A i \in 1 .. n : SubSeq(s, 1, n)[i] = s[i]
    BY <1>1, <1>2, SubSeqProperties
  <1>3. Len(s) - 1 \in Nat
    BY <1>1
  <1>. QED BY <1>2, <1>3 DEF Front

LEMMA SegmentsType ==
  ASSUME TypeOK
  PROVE  /\ segments \in Seq(SUBSET Bindings)
         /\ Len(segments) \in Nat /\ Len(segments) >= 1 /\ Len(segments) <= MaxChoices
         /\ DOMAIN segments = 1 .. Len(segments)
         /\ \A i \in 1 .. Len(segments) : segments[i] \in SUBSET Bindings
  <1>1. segments \in Seq(SUBSET Bindings) /\ Len(segments) \in 1 .. MaxChoices
    BY DEF TypeOK
  <1>2. Len(segments) \in Nat /\ DOMAIN segments = 1 .. Len(segments)
    BY <1>1, LenProperties
  <1>3. \A i \in 1 .. Len(segments) : segments[i] \in SUBSET Bindings
    BY <1>1, ElementOfSeq
  <1>. QED BY <1>1, <1>2, <1>3, BoundsAssumption

LEMMA HandlersType ==
  ASSUME TypeOK
  PROVE  /\ handlers \in Seq(Handler(Len(segments)))
         /\ Len(handlers) \in Nat /\ Len(handlers) <= MaxNested
         /\ DOMAIN handlers = 1 .. Len(handlers)
         /\ \A i \in 1 .. Len(handlers) : handlers[i] \in Handler(Len(segments))
         /\ handlers # << >> => Len(handlers) > 0
  <1>1. handlers \in Seq(Handler(Len(segments))) /\ Len(handlers) <= MaxNested
    BY DEF TypeOK, Handler
  <1>2. Len(handlers) \in Nat /\ DOMAIN handlers = 1 .. Len(handlers)
    BY <1>1, LenProperties
  <1>3. \A i \in 1 .. Len(handlers) : handlers[i] \in Handler(Len(segments))
    BY <1>1, ElementOfSeq
  <1>4. handlers # << >> => Len(handlers) > 0
    BY <1>1, <1>2, EmptySeq
  <1>. QED BY <1>1, <1>2, <1>3, <1>4

LEMMA RunsType ==
  ASSUME TypeOK
  PROVE  /\ runs \in Seq(1 .. Len(segments) - 1)
         /\ Len(runs) \in Nat
         /\ \A i \in 1 .. Len(runs) : runs[i] \in 1 .. Len(segments) - 1
         /\ runs # << >> => Len(runs) > 0 /\ Last(runs) = runs[Len(runs)]
  <1>1. runs \in Seq(1 .. Len(segments) - 1)
    BY DEF TypeOK
  <1>2. Len(runs) \in Nat
    BY <1>1, LenProperties
  <1>3. \A i \in 1 .. Len(runs) : runs[i] \in 1 .. Len(segments) - 1
    BY <1>1, ElementOfSeq
  <1>4. runs # << >> => Len(runs) > 0
    BY <1>1, <1>2, EmptySeq
  <1>. QED BY <1>1, <1>2, <1>3, <1>4 DEF Last

(* Choice points that go down to Floor leave those the callers had. *)
LEMMA RunsFit ==
  ASSUME TypeOK, RunsNested, NEW n \in Nat, Floor <= n
  PROVE  runs \in Seq(1 .. n - 1)
  <1>1. ASSUME NEW i \in 1 .. Len(runs) PROVE runs[i] \in 1 .. n - 1
    <2>1. runs # << >> /\ Len(runs) > 0 /\ Len(runs) \in 1 .. Len(runs)
      BY RunsType
    <2>2. Last(runs) = runs[Len(runs)] /\ Last(runs) + 1 <= n
      BY <2>1, RunsType DEF Floor
    <2>3. runs[i] <= runs[Len(runs)]
      <3>1. CASE i = Len(runs)
        BY <3>1, <2>1, RunsType, SegmentsType
      <3>2. CASE i < Len(runs)
        BY <3>2, <2>1, RunsType, SegmentsType DEF RunsNested
      <3>. QED BY <3>1, <3>2, <2>1, RunsType
    <2>4. runs[i] \in 1 .. Len(segments) - 1 /\ runs[Len(runs)] \in 1 .. Len(segments) - 1
            /\ Len(segments) \in Nat
      BY <2>1, RunsType, SegmentsType
    <2>. QED BY <2>2, <2>3, <2>4
  <1>. DEFINE S == 1 .. n - 1
  <1>2. runs \in [1 .. Len(runs) -> S] /\ Len(runs) \in Nat
    BY <1>1, RunsType, LenProperties
  <1>. HIDE DEF S
  <1>3. runs \in Seq(S)
    BY <1>2, SeqDef
  <1>. QED BY <1>3 DEF S

(* The newest run ends. *)
LEMMA RunsPopped ==
  ASSUME TypeOK, RunsNested, runs # << >>, runs' = Front(runs)
  PROVE  runs' \in Seq(1 .. Last(runs) - 1) /\ RunsNested'
  <1>1. /\ runs' \in Seq(1 .. Len(segments) - 1)
        /\ Len(runs') = Len(runs) - 1
        /\ \A i \in 1 .. Len(runs) - 1 : runs'[i] = runs[i]
        /\ Len(runs) \in Nat /\ Len(runs) > 0
    BY RunsType, FrontProperties
  <1>2. ASSUME NEW i \in 1 .. Len(runs') PROVE runs'[i] \in 1 .. Last(runs) - 1
    <2>1. i \in 1 .. Len(runs) /\ Len(runs) \in 1 .. Len(runs) /\ i < Len(runs)
            /\ runs'[i] = runs[i]
      BY <1>1
    <2>2. runs[i] < runs[Len(runs)]
      BY <2>1 DEF RunsNested
    <2>3. runs[i] \in 1 .. Len(segments) - 1 /\ runs[Len(runs)] \in 1 .. Len(segments) - 1
            /\ Last(runs) = runs[Len(runs)] /\ Len(segments) \in Nat
      BY <2>1, RunsType, SegmentsType
    <2>. QED BY <2>1, <2>2, <2>3
  <1>3. runs' \in Seq(1 .. Last(runs) - 1)
    <2>1. runs' \in [1 .. Len(runs') -> 1 .. Last(runs) - 1] /\ Len(runs') \in Nat
      BY <1>1, <1>2, LenProperties
    <2>. QED BY <2>1, SeqDef
  <1>4. RunsNested'
    <2>. SUFFICES ASSUME NEW i \in 1 .. Len(runs'), NEW j \in 1 .. Len(runs'), i < j
                  PROVE  runs'[i] < runs'[j]
      BY DEF RunsNested
    <2>1. i \in 1 .. Len(runs) /\ j \in 1 .. Len(runs) /\ runs'[i] = runs[i] /\ runs'[j] = runs[j]
      BY <1>1
    <2>. QED BY <2>1 DEF RunsNested
  <1>. QED BY <1>3, <1>4

(* All segments but the newest *)
LEMMA OlderProperties ==
  ASSUME TypeOK
  PROVE  /\ Front(segments) \in Seq(SUBSET Bindings)
         /\ Len(Front(segments)) = Len(segments) - 1
         /\ \A i \in 1 .. Len(segments) - 1 : Front(segments)[i] = segments[i]
  <1>1. segments \in Seq(SUBSET Bindings)
    BY SegmentsType
  <1>2. Len(segments) > 0
    BY SegmentsType
  <1>. HIDE DEF TypeOK
  <1>. QED BY <1>1, <1>2, FrontProperties, Zenon

(* Assigning to the newest segment *)
LEMMA NewestProperties ==
  ASSUME TypeOK, NEW b \in SUBSET Bindings
  PROVE  LET s == [segments EXCEPT ![Len(segments)] = b]
         IN  /\ s \in Seq(SUBSET Bindings)
             /\ Len(s) = Len(segments)
             /\ DOMAIN s = 1 .. Len(segments)
             /\ \A i \in 1 .. Len(segments) :
                  s[i] = IF i = Len(segments) THEN b ELSE segments[i]
  <1>1. Len(segments) \in 1 .. Len(segments) /\ segments \in Seq(SUBSET Bindings)
    BY SegmentsType
  <1>. DEFINE s == [segments EXCEPT ![Len(segments)] = b]
  <1>2. s \in Seq(SUBSET Bindings) /\ Len(s) = Len(segments)
    BY <1>1, ExceptSeq
  <1>3. DOMAIN s = 1 .. Len(segments)
    BY SegmentsType
  <1>4. \A i \in 1 .. Len(segments) : s[i] = IF i = Len(segments) THEN b ELSE segments[i]
    BY SegmentsType
  <1>. QED BY <1>2, <1>3, <1>4

(* What Retry, ErrorDone and Collect leave: only in older segments and     *)
(* behind what has been collected may a goal wait.                         *)
LEMMA OlderWait ==
  ASSUME IInv, NEW s, DOMAIN s \subseteq 1 .. Len(segments),
         \A i \in DOMAIN s : s[i] # {} =>
           /\ segments[i] # {}
           /\ i = Len(segments) => "hidden" \in segments[i],
         Waiting(s)
  PROVE  disturbed
  <1>1. PICK i \in DOMAIN s : s[i] # {}
    BY DEF Waiting
  <1>2. /\ segments[i] # {} /\ i \in DOMAIN segments
        /\ i \in 1 .. Len(segments) - 1 \/ "hidden" \in segments[Len(segments)]
    BY <1>1, SegmentsType DEF IInv
  <1>3. Waiting(segments)
    BY <1>2 DEF Waiting
  <1>. QED BY <1>2, <1>3 DEF IInv, WakesOnTheirWay

(* At a call with nothing to do no undisturbed goal waits: WakesServed. *)
LEMMA NothingWaits ==
  ASSUME IInv, Called \/ pc \in {"undefined", "check", "error", "reset"}, ~ disturbed
  PROVE  ~ Waiting(segments)
  <1>1. ~ OnItsWay
    BY DEF OnItsWay, Called, Running
  <1>. QED BY <1>1 DEF IInv, WakesOnTheirWay

(* A failure drops the last handlers, and only those the choice point that *)
(* is tried next was older than.                                           *)
LEMMA BacktrackedProperties ==
  ASSUME IInv, NEW s, s \in Seq(SUBSET Bindings), Len(s) \in 1 .. MaxChoices,
         Len(s) <= Len(segments), Len(segments) <= Len(s) + 1,
         \A i \in 1 .. Len(s) : s[i] # {} => i # Len(segments) /\ segments[i] # {},
         Backtracked(s), caught' = caught, pc # "read"
  PROVE  /\ handlers' \in Seq(Handler(Len(segments')))
         /\ Len(handlers') <= MaxNested
         /\ segments' \in Seq(SUBSET Bindings) /\ Len(segments') \in 1 .. MaxChoices
         /\ disturbed' \in BOOLEAN
         /\ pc' = "run" => Room' /\ WakesOnTheirWay'
  <1>. USE DEF IInv
  <1>1. segments' = s
    BY DEF Backtracked
  <1>2. PICK n \in 0 .. Len(handlers) :
          /\ \A i \in 1 .. Len(handlers) : i <= n <=> handlers[i].depth < Len(segments)
          /\ handlers' = SubSeq(handlers, 1, n)
    BY DEF Backtracked
  <1>3. /\ n \in Nat /\ n <= Len(handlers) /\ Len(handlers) \in Nat
        /\ \A i \in 1 .. n : handlers[i] \in Handler(Len(segments))
    BY <1>2, HandlersType
  <1>4. /\ Len(handlers') = n
        /\ handlers' \in Seq(Handler(Len(segments)))
        /\ \A i \in 1 .. n : handlers'[i] = handlers[i]
    BY <1>2, <1>3, SubSeqProperties
  <1>5. \A i \in 1 .. n : handlers'[i] \in Handler(Len(s))
    <2>. SUFFICES ASSUME NEW i \in 1 .. n PROVE handlers'[i] \in Handler(Len(s))
      OBVIOUS
    <2>1. handlers[i] \in Handler(Len(segments)) /\ handlers[i].depth < Len(segments)
      BY <1>2, <1>3, HandlersType
    <2>2. Len(s) \in Nat /\ Len(segments) \in Nat
      BY SegmentsType, LenProperties
    <2>3. handlers[i] \in Handler(Len(s))
      BY <2>1, <2>2 DEF Handler
    <2>. QED BY <2>3, <1>4
  <1>6. handlers' \in Seq(Handler(Len(s)))
    <2>1. handlers' \in [1 .. n -> Handler(Len(s))]
      BY <1>4, <1>5, LenProperties
    <2>. QED BY <2>1, <1>3, SeqDef
  <1>7. disturbed' = (disturbed /\ Waiting(segments'))
    BY DEF Backtracked
  <1>8. (pc' = "run" => Room' /\ WakesOnTheirWay') /\ disturbed' \in BOOLEAN
    <2>1. Waiting(segments') => disturbed
      <3>1. DOMAIN s = 1 .. Len(s) /\ Len(s) \in Nat /\ Len(segments) \in Nat
        BY LenProperties, SegmentsType
      <3>2. DOMAIN s \subseteq 1 .. Len(segments)
        BY <3>1
      <3>. QED BY <3>1, <3>2, <1>1, OlderWait
    <2>2. WakesOnTheirWay'
      BY <2>1, <1>7 DEF WakesOnTheirWay
    <2>3. Collecting' => Len(handlers') + 1 <= MaxNested
      <3>1. CASE n = Len(handlers)
        <4>1. handlers' # << >> => handlers # << >> /\ Last(handlers') = Last(handlers)
          BY <3>1, <1>3, <1>4, HandlersType, EmptySeq DEF Last
        <4>. QED BY <4>1, <3>1, <1>4 DEF Collecting, Room
      <3>2. CASE n < Len(handlers)
        BY <3>2, <1>3, <1>4, HandlersType, BoundsAssumption
      <3>. QED BY <3>1, <3>2, <1>3
    <2>4. Len(handlers) + 2 <= MaxNested => Len(handlers') + 2 <= MaxNested
      BY <1>3, <1>4, BoundsAssumption
    <2>. QED BY <2>2, <2>3, <2>4, <1>7 DEF Room, TypeOK
  <1>. QED BY <1>1, <1>3, <1>4, <1>6, <1>8, HandlersType, BoundsAssumption
------------------------------------------------------------------------------
LEMMA InitInv == ASSUME Init PROVE IInv
  <1>1. segments \in Seq(SUBSET Bindings) /\ Len(segments) = 1 /\ segments[1] = {}
    BY DEF Init
  <1>2. handlers \in Seq(Handler(Len(segments))) /\ Len(handlers) = 0
    BY DEF Init
  <1>3. DOMAIN segments = {1} /\ ~ Waiting(segments)
    <2>1. DOMAIN segments = 1 .. 1
      BY <1>1, LenProperties
    <2>. QED BY <2>1, <1>1 DEF Waiting
  <1>4. TypeOK
    <2>1. Len(segments) \in 1 .. MaxChoices /\ Len(handlers) <= MaxNested
      BY <1>1, <1>2, BoundsAssumption
    <2>2. /\ safety = "normal" /\ caught \in Slot /\ pc = "run"
          /\ due \subseteq Signals \cup {ERROR} /\ disturbed \in BOOLEAN
      BY DEF Init, Slot
    <2>3. runs \in Seq(1 .. Len(segments) - 1)
      BY DEF Init
    <2>. QED BY <1>1, <1>2, <2>1, <2>2, <2>3 DEF TypeOK, Handler
  <1>5. DeliveredOnce /\ StaysArmed /\ Room /\ RunsNested
    BY CausesDiffer DEF Init, DeliveredOnce, StaysArmed, Room, Collecting, RunsNested
  <1>6. WakesOnTheirWay
    BY <1>3 DEF WakesOnTheirWay
  <1>. QED BY <1>4, <1>5, <1>6 DEF IInv

(* The steps that change neither the segments nor the handlers *)
LEMMA ListsUnchanged ==
  ASSUME IInv, UNCHANGED <<segments, runs, handlers>>,
         safety' \in {"normal", "armed"}, caught' \in Slot,
         pc' \in {"run", "bind", "undefined", "check", "error", "reset", "noticed", "read"},
         due' \subseteq Signals \cup {ERROR}, disturbed' \in BOOLEAN
  PROVE  /\ TypeOK' /\ RunsNested'
         /\ Waiting(segments)' <=> Waiting(segments)
         /\ Collecting' <=> Collecting
         /\ (pc' # "bind" /\ caught' # WAKE) \/ pc = "bind"
               \/ (caught' = caught /\ pc' # "bind" /\ pc # "read") => Room'
  BY DEF IInv, TypeOK, Waiting, Collecting, Room, RunsNested

LEMMA SignalInv == ASSUME IInv, NEW n \in Signals, Signal(n) PROVE IInv'
  <1>. USE DEF Signal, IInv
  <1>1. n \in Slot /\ n # WAKE
    BY CausesDiffer DEF Slot
  <1>2. disturbed' \in BOOLEAN
    BY DEF TypeOK
  <1>3. TypeOK' /\ RunsNested' /\ (Waiting(segments)' <=> Waiting(segments))
    BY <1>1, <1>2, ListsUnchanged DEF TypeOK
  <1>4. Room'
    BY <1>1, <1>2 DEF Room, Collecting
  <1>5. DeliveredOnce' /\ StaysArmed'
    BY DEF DeliveredOnce, StaysArmed
  <1>6. WakesOnTheirWay'
    BY <1>3 DEF WakesOnTheirWay
  <1>. QED BY <1>3, <1>4, <1>5, <1>6

LEMMA BindInv == ASSUME IInv, Bind PROVE IInv'
  <1>. USE DEF Bind, IInv
  <1>. DEFINE b == segments[Len(segments)] \cup {"reached"}
  <1>1. b \in SUBSET Bindings
    BY SegmentsType DEF Bindings
  <1>2. segments' = [segments EXCEPT ![Len(segments)] = b]
    BY SegmentsType
  <1>3. /\ segments' \in Seq(SUBSET Bindings) /\ Len(segments') = Len(segments)
        /\ \A i \in 1 .. Len(segments) :
             segments'[i] = IF i = Len(segments) THEN b ELSE segments[i]
    <2>1. TypeOK
      OBVIOUS
    <2>. HIDE DEF b, Bind, IInv
    <2>. QED BY <2>1, <1>1, <1>2, NewestProperties
  <1>4. TypeOK'
    BY <1>3 DEF TypeOK
  <1>5. DeliveredOnce' /\ StaysArmed' /\ RunsNested'
    BY DEF DeliveredOnce, StaysArmed, RunsNested, Running
  <1>6. Room'
    BY DEF Room, Collecting, Running
  <1>7. ASSUME ~ disturbed
        PROVE  /\ \A i \in 1 .. Len(segments) - 1 : segments[i] = {}
               /\ "hidden" \notin segments[Len(segments)]
    <2>1. \A i \in 1 .. Len(segments) : i \in DOMAIN segments
      BY SegmentsType
    <2>2. CASE Waiting(segments)
      BY <2>2, <1>7 DEF WakesOnTheirWay
    <2>3. CASE ~ Waiting(segments)
      BY <2>1, <2>3, SegmentsType DEF Waiting
    <2>. QED BY <2>2, <2>3
  <1>8. WakesOnTheirWay'
    <2>1. Len(segments) \in Nat /\ Len(segments) \in 1 .. Len(segments)
      BY SegmentsType
    <2>2. \A i \in 1 .. Len(segments) - 1 : i \in 1 .. Len(segments) /\ i # Len(segments)
      BY <2>1
    <2>3. \A i \in 1 .. Len(segments') - 1 : segments'[i] = segments[i]
      BY <1>3, <2>2
    <2>4. segments'[Len(segments')] = b
      BY <1>3, <2>1
    <2>5. disturbed' = disturbed /\ OnItsWay'
      BY DEF OnItsWay
    <2>6. Len(segments') = Len(segments)
      BY <1>3
    <2>. HIDE DEF Bind
    <2>. QED BY <1>7, <2>3, <2>4, <2>5, <2>6 DEF WakesOnTheirWay
  <1>. QED BY <1>4, <1>5, <1>6, <1>8

(* Nothing is buried but what waits. *)
LEMMA BuriedType ==
  ASSUME NEW b \in SUBSET Bindings, NEW h \in Buried(b)
  PROVE  h \in SUBSET Bindings /\ (h = {} <=> b = {})
  BY DEF Buried, Bindings

LEMMA BindVariableInv == ASSUME IInv, BindVariable PROVE IInv'
  <1>. USE DEF BindVariable, IInv
  <1>1. PICK b \in Buried(Last(segments)) :
          segments' = [segments EXCEPT ![Len(segments)] = b]
    OBVIOUS
  <1>2. /\ Last(segments) = segments[Len(segments)]
        /\ segments[Len(segments)] \in SUBSET Bindings
        /\ b \in SUBSET Bindings /\ (b = {} <=> segments[Len(segments)] = {})
    BY SegmentsType, BuriedType DEF Last
  <1>3. /\ segments' \in Seq(SUBSET Bindings) /\ Len(segments') = Len(segments)
        /\ DOMAIN segments' = 1 .. Len(segments)
        /\ \A i \in 1 .. Len(segments) :
             segments'[i] = IF i = Len(segments) THEN b ELSE segments[i]
    BY <1>1, <1>2, NewestProperties
  <1>4. TypeOK'
    BY <1>3 DEF TypeOK
  <1>5. DeliveredOnce' /\ StaysArmed' /\ RunsNested'
    BY DEF DeliveredOnce, StaysArmed, RunsNested, Running
  <1>6. Room'
    BY DEF Room, Collecting
  <1>7. Waiting(segments') => Waiting(segments)
    BY <1>2, <1>3, SegmentsType DEF Waiting
  <1>8. WakesOnTheirWay'
    BY <1>7 DEF WakesOnTheirWay
  <1>. QED BY <1>4, <1>5, <1>6, <1>8

(* One choice point more *)
LEMMA HandlersStay ==
  ASSUME TypeOK
  PROVE  handlers \in Seq(Handler(Len(segments) + 1))
  <1>1. \A i \in 1 .. Len(handlers) : handlers[i] \in Handler(Len(segments) + 1)
    BY HandlersType, SegmentsType DEF Handler
  <1>2. handlers \in [1 .. Len(handlers) -> Handler(Len(segments) + 1)]
    BY <1>1, HandlersType, LenProperties
  <1>. QED BY <1>2, HandlersType, SeqDef

LEMMA RunsStay ==
  ASSUME TypeOK
  PROVE  runs \in Seq(1 .. Len(segments))
  <1>1. \A i \in 1 .. Len(runs) : runs[i] \in 1 .. Len(segments)
    BY RunsType, SegmentsType
  <1>2. runs \in [1 .. Len(runs) -> 1 .. Len(segments)]
    BY <1>1, RunsType, LenProperties
  <1>. QED BY <1>2, RunsType, SeqDef

LEMMA CombineInv == ASSUME IInv, Combine PROVE IInv'
  <1>. USE DEF Combine, IInv
  <1>1. PICK b \in Buried(Last(segments)) :
          segments' = Append([segments EXCEPT ![Len(segments)] = b], {})
    OBVIOUS
  <1>2. /\ Last(segments) = segments[Len(segments)]
        /\ segments[Len(segments)] \in SUBSET Bindings
        /\ b \in SUBSET Bindings /\ (b = {} <=> segments[Len(segments)] = {})
    BY SegmentsType, BuriedType DEF Last
  <1>. DEFINE s == [segments EXCEPT ![Len(segments)] = b]
  <1>3. /\ s \in Seq(SUBSET Bindings) /\ Len(s) = Len(segments)
        /\ \A i \in 1 .. Len(segments) :
             s[i] = IF i = Len(segments) THEN b ELSE segments[i]
    BY <1>2, NewestProperties
  <1>4. segments' = Append(s, {})
    BY <1>1
  <1>. HIDE DEF s
  <1>5. /\ segments' \in Seq(SUBSET Bindings) /\ Len(segments') = Len(segments) + 1
        /\ DOMAIN segments' = 1 .. Len(segments) + 1
        /\ \A i \in 1 .. Len(segments) : segments'[i] = s[i]
        /\ segments'[Len(segments) + 1] = {}
    <2>1. {} \in SUBSET Bindings
      OBVIOUS
    <2>. HIDE DEF Combine, IInv
    <2>2. /\ segments' \in Seq(SUBSET Bindings) /\ Len(segments') = Len(s) + 1
          /\ \A i \in 1 .. Len(s) : segments'[i] = s[i]
          /\ segments'[Len(s) + 1] = {}
      BY <2>1, <1>3, <1>4, AppendProperties
    <2>3. DOMAIN segments' = 1 .. Len(segments')
      BY <2>2, LenProperties
    <2>. QED BY <2>2, <2>3, <1>3
  <1>6. /\ runs' \in Seq(1 .. Len(segments)) /\ Len(runs') = Len(runs) + 1
        /\ \A i \in 1 .. Len(runs) : runs'[i] = runs[i]
        /\ runs'[Len(runs) + 1] = Len(segments)
    <2>. DEFINE S == 1 .. Len(segments)
                k == Len(segments)
    <2>1. runs \in Seq(S) /\ k \in S /\ runs' = Append(runs, k)
      BY RunsStay, SegmentsType
    <2>. HIDE DEF S, k, Combine, IInv
    <2>2. /\ Append(runs, k) \in Seq(S) /\ Len(Append(runs, k)) = Len(runs) + 1
          /\ \A i \in 1 .. Len(runs) : Append(runs, k)[i] = runs[i]
          /\ Append(runs, k)[Len(runs) + 1] = k
      BY <2>1, AppendProperties
    <2>. QED BY <2>1, <2>2 DEF S, k
  <1>7. TypeOK'
    <2>1. Len(segments') \in 1 .. MaxChoices /\ Len(segments') - 1 = Len(segments)
      <3>1. Len(segments) < MaxChoices /\ Len(segments) \in Nat /\ MaxChoices \in Nat
        BY SegmentsType, BoundsAssumption
      <3>2. Len(segments') = Len(segments) + 1
        BY <1>5
      <3>. HIDE DEF Combine, IInv
      <3>. QED BY <3>1, <3>2
    <2>2. handlers' \in Seq(Handler(Len(segments'))) /\ Len(handlers') <= MaxNested
      BY <1>5, HandlersStay, HandlersType
    <2>3. disturbed' \in BOOLEAN /\ pc' \in {"check", "run"}
      BY DEF TypeOK, Waiting
    <2>. QED BY <1>5, <1>6, <2>1, <2>2, <2>3 DEF TypeOK, Handler
  <1>8. DeliveredOnce' /\ StaysArmed' /\ Room'
    BY DEF DeliveredOnce, StaysArmed, Room, Collecting, Running
  <1>9. RunsNested'
    <2>. SUFFICES ASSUME NEW i \in 1 .. Len(runs'), NEW j \in 1 .. Len(runs'), i < j
                  PROVE  runs'[i] < runs'[j]
      BY DEF RunsNested
    <2>1. i \in 1 .. Len(runs) /\ (j \in 1 .. Len(runs) \/ j = Len(runs) + 1)
      BY <1>6, RunsType
    <2>2. CASE j \in 1 .. Len(runs)
      BY <2>1, <2>2, <1>6 DEF RunsNested
    <2>3. CASE j = Len(runs) + 1
      BY <2>1, <2>3, <1>6, RunsType, SegmentsType
    <2>. QED BY <2>1, <2>2, <2>3
  <1>10. Waiting(segments') => Waiting(segments)
    <2>. SUFFICES ASSUME NEW i \in DOMAIN segments', segments'[i] # {}
                  PROVE  Waiting(segments)
      BY DEF Waiting
    <2>1. i \in 1 .. Len(segments)
      <3>1. i # Len(segments) + 1 /\ i \in 1 .. Len(segments) + 1 /\ Len(segments) \in Nat
        BY <1>5, SegmentsType
      <3>. QED BY <3>1
    <2>2. segments[i] # {} /\ i \in DOMAIN segments
      BY <2>1, <1>2, <1>3, <1>5, SegmentsType
    <2>. QED BY <2>2 DEF Waiting
  <1>11. WakesOnTheirWay'
    BY <1>10 DEF WakesOnTheirWay
  <1>. QED BY <1>7, <1>8, <1>9, <1>11

LEMMA BindDoneInv == ASSUME IInv, BindDone PROVE IInv'
  <1>. USE DEF BindDone, IInv
  <1>1. WAKE \in Slot /\ disturbed \in BOOLEAN
    BY DEF Slot, TypeOK
  <1>2. TypeOK' /\ RunsNested' /\ (Waiting(segments)' <=> Waiting(segments)) /\ Room'
    BY <1>1, ListsUnchanged DEF TypeOK
  <1>3. DeliveredOnce' /\ StaysArmed'
    BY CausesDiffer DEF DeliveredOnce, StaysArmed
  <1>4. safety' = "armed"
    BY DEF StaysArmed
  <1>5. WakesOnTheirWay'
    BY <1>2, <1>4 DEF WakesOnTheirWay, OnItsWay
  <1>. QED BY <1>2, <1>3, <1>5

(* The steps that start or end another instruction than BIND.  No goal     *)
(* waits but undisturbed, and the slot is not left with a wake-up in it.   *)
LEMMA InstructionInv ==
  ASSUME IInv,
         CallUndefined \/ UndefinedDone \/ CallError \/ CallForced \/ CallReset \/ ResetDone
  PROVE  IInv'
  <1>. USE DEF IInv, CallUndefined, UndefinedDone, CallError, CallForced, CallReset, ResetDone
  <1>1. UNDEFINED \in Slot /\ ERROR \in Slot /\ disturbed \in BOOLEAN
        /\ UNDEFINED # WAKE /\ ERROR # WAKE /\ UNDEFINED \notin Signals \cup {ERROR}
    BY CausesDiffer DEF Slot, TypeOK
  <1>2. TypeOK' /\ RunsNested' /\ (Waiting(segments)' <=> Waiting(segments))
    BY <1>1, ListsUnchanged DEF TypeOK, Called, Running
  <1>3. Room'
    BY <1>1, ListsUnchanged DEF TypeOK, Called, Running
  <1>4. DeliveredOnce' /\ StaysArmed'
    BY <1>1 DEF DeliveredOnce, StaysArmed, Called, Running
  <1>5. WakesOnTheirWay'
    BY <1>2, NothingWaits DEF WakesOnTheirWay
  <1>. QED BY <1>2, <1>3, <1>4, <1>5

(* A failure, to the newest choice point or past it *)
LEMMA FailureInv ==
  ASSUME IInv, NEW s, s \in Seq(SUBSET Bindings), Len(s) \in 1 .. MaxChoices,
         Len(s) <= Len(segments), Len(segments) <= Len(s) + 1,
         \A i \in 1 .. Len(s) : s[i] # {} => i # Len(segments) /\ segments[i] # {},
         Backtracked(s), runs' \in Seq(1 .. Len(s) - 1), RunsNested',
         UNCHANGED <<caught, due>>,
         \/ pc = "run" /\ UNCHANGED <<safety, pc>>
         \/ pc = "error" /\ safety' = "armed" /\ pc' = "run"
  PROVE  IInv'
  <1>. USE DEF IInv
  <1>1. /\ handlers' \in Seq(Handler(Len(segments')))
        /\ Len(handlers') <= MaxNested
        /\ segments' \in Seq(SUBSET Bindings) /\ Len(segments') \in 1 .. MaxChoices
        /\ disturbed' \in BOOLEAN
        /\ Room' /\ WakesOnTheirWay'
    <2>1. pc # "read" /\ pc' = "run" /\ caught' = caught
      OBVIOUS
    <2>. QED BY <2>1, BacktrackedProperties
  <1>2. segments' = s
    BY DEF Backtracked
  <1>3. TypeOK'
    BY <1>1, <1>2 DEF TypeOK, Handler
  <1>4. DeliveredOnce' /\ StaysArmed'
    BY DEF DeliveredOnce, StaysArmed
  <1>. QED BY <1>1, <1>3, <1>4

LEMMA RetriedInv ==
  ASSUME IInv, Retried, UNCHANGED <<caught, due>>,
         \/ pc = "run" /\ UNCHANGED <<safety, pc>>
         \/ pc = "error" /\ safety' = "armed" /\ pc' = "run"
  PROVE  IInv'
  <1>. DEFINE s == [segments EXCEPT ![Len(segments)] = {}]
  <1>1. /\ s \in Seq(SUBSET Bindings) /\ Len(s) = Len(segments)
        /\ \A i \in 1 .. Len(s) : s[i] # {} => i # Len(segments) /\ segments[i] # {}
    <2>1. {} \in SUBSET Bindings
      OBVIOUS
    <2>. QED BY <2>1, NewestProperties DEF IInv
  <1>2. Backtracked(s) /\ runs' \in Seq(1 .. Len(s) - 1) /\ RunsNested'
    BY <1>1, RunsType DEF Retried, IInv, RunsNested
  <1>. HIDE DEF s
  <1>3. Len(s) \in 1 .. MaxChoices /\ Len(s) <= Len(segments) /\ Len(segments) <= Len(s) + 1
    BY <1>1, SegmentsType, BoundsAssumption DEF IInv
  <1>. QED BY <1>1, <1>2, <1>3, FailureInv

(* Trust and the end of a nested run: the newest choice point goes.        *)
LEMMA FrontInv ==
  ASSUME IInv, Backtracked(Front(segments)), Len(segments) > 1,
         runs' \in Seq(1 .. Len(segments) - 2), RunsNested',
         UNCHANGED <<caught, due>>,
         \/ pc = "run" /\ UNCHANGED <<safety, pc>>
         \/ pc = "error" /\ safety' = "armed" /\ pc' = "run"
  PROVE  IInv'
  <1>. DEFINE s == Front(segments)
  <1>1. s \in Seq(SUBSET Bindings) /\ Len(s) = Len(segments) - 1
          /\ \A i \in 1 .. Len(segments) - 1 : s[i] = segments[i]
    BY OlderProperties DEF IInv
  <1>2. Backtracked(s)
    OBVIOUS
  <1>. HIDE DEF s
  <1>3. /\ Len(s) \in 1 .. MaxChoices /\ Len(s) <= Len(segments) /\ Len(segments) <= Len(s) + 1
        /\ Len(s) - 1 = Len(segments) - 2
        /\ \A i \in 1 .. Len(s) : s[i] # {} => i # Len(segments) /\ segments[i] # {}
    BY <1>1, SegmentsType, BoundsAssumption DEF IInv
  <1>. QED BY <1>1, <1>2, <1>3, FailureInv

LEMMA TrustInv == ASSUME IInv, Trust PROVE IInv'
  <1>1. Len(segments) \in Nat /\ Len(segments) > Floor /\ Floor >= 1 /\ Floor \in Nat
    <2>1. runs # << >> => Last(runs) \in 1 .. Len(segments) - 1
      BY RunsType DEF IInv
    <2>2. Floor >= 1 /\ Floor \in Nat
      BY <2>1, SegmentsType DEF Floor, IInv
    <2>. QED BY <2>2, SegmentsType DEF Trust, IInv
  <1>2. Len(segments) - 1 \in Nat /\ Floor <= Len(segments) - 1 /\ Len(segments) > 1
    BY <1>1
  <1>3. runs' \in Seq(1 .. (Len(segments) - 1) - 1) /\ RunsNested'
    BY <1>2, RunsFit DEF Trust, IInv, RunsNested
  <1>4. (Len(segments) - 1) - 1 = Len(segments) - 2
    BY <1>1
  <1>. QED BY <1>2, <1>3, <1>4, FrontInv DEF Trust, Running

LEMMA RunFailedInv ==
  ASSUME IInv, RunFailed, UNCHANGED <<caught, due>>,
         \/ pc = "run" /\ UNCHANGED <<safety, pc>>
         \/ pc = "error" /\ safety' = "armed" /\ pc' = "run"
  PROVE  IInv'
  <1>1. /\ runs # << >> /\ Len(segments) = Last(runs) + 1
        /\ runs' = Front(runs) /\ Backtracked(Front(segments))
    BY DEF RunFailed, AtBottom, Floor
  <1>2. runs' \in Seq(1 .. Last(runs) - 1) /\ RunsNested'
    BY <1>1, RunsPopped DEF IInv
  <1>3. Len(segments) > 1 /\ Last(runs) - 1 = Len(segments) - 2
    BY <1>1, RunsType, SegmentsType DEF IInv
  <1>. QED BY <1>1, <1>2, <1>3, FrontInv

LEMMA TryInv == ASSUME IInv, Try PROVE IInv'
  <1>. USE DEF IInv, Try
  <1>1. /\ segments' \in Seq(SUBSET Bindings) /\ Len(segments') = Len(segments) + 1
        /\ \A i \in 1 .. Len(segments) : segments'[i] = segments[i]
        /\ segments'[Len(segments) + 1] = {}
    BY SegmentsType, AppendProperties
  <1>2. TypeOK'
    <2>1. Len(segments') \in 1 .. MaxChoices /\ Len(segments') - 1 = Len(segments)
      BY <1>1, SegmentsType, BoundsAssumption
    <2>2. handlers' \in Seq(Handler(Len(segments'))) /\ Len(handlers') <= MaxNested
      BY <1>1, HandlersStay, HandlersType
    <2>3. runs' \in Seq(1 .. Len(segments') - 1)
      BY <2>1, RunsStay
    <2>. QED BY <1>1, <2>1, <2>2, <2>3 DEF TypeOK, Handler
  <1>3. DeliveredOnce' /\ StaysArmed' /\ Room' /\ RunsNested'
    BY DEF DeliveredOnce, StaysArmed, Room, RunsNested, Collecting
  <1>4. ~ disturbed => ~ Waiting(segments')
    <2>. SUFFICES ASSUME ~ disturbed, NEW i \in DOMAIN segments' PROVE segments'[i] = {}
      BY DEF Waiting
    <2>1. ~ Waiting(segments)
      BY NothingWaits
    <2>2. i \in 1 .. Len(segments) + 1
      BY <1>1, LenProperties
    <2>3. CASE i = Len(segments) + 1
      BY <2>3, <1>1
    <2>4. CASE i \in 1 .. Len(segments)
      BY <2>4, <2>1, <1>1, SegmentsType DEF Waiting
    <2>. QED BY <2>2, <2>3, <2>4, SegmentsType
  <1>5. WakesOnTheirWay'
    BY <1>4 DEF WakesOnTheirWay
  <1>. QED BY <1>2, <1>3, <1>5

(* What a cut leaves: the first segments, and the newest of them with all  *)
(* that was trailed since.                                                 *)
LEMMA CutSegments ==
  ASSUME TypeOK, NEW n \in 1 .. Len(segments) - 1, CutTo(n)
  PROVE  /\ segments' \in Seq(SUBSET Bindings) /\ Len(segments') = n
         /\ \A i \in 1 .. n - 1 : segments'[i] = segments[i]
         /\ (\A i \in 1 .. Len(segments) - 1 : segments[i] = {})
              => segments'[n] = segments[Len(segments)]
  <1>. DEFINE older == UNION {segments[i] : i \in n .. Len(segments) - 1}
              t == SubSeq(segments, 1, n - 1)
  <1>1. PICK b \in Buried(older) : segments' = Append(t, b \cup Last(segments))
    BY DEF CutTo
  <1>2. Len(segments) \in Nat /\ n \in Nat /\ n - 1 \in Nat /\ n <= Len(segments)
          /\ Last(segments) = segments[Len(segments)]
          /\ segments[Len(segments)] \in SUBSET Bindings
    BY SegmentsType DEF Last
  <1>3. older \in SUBSET Bindings
    BY SegmentsType
  <1>4. b \in SUBSET Bindings /\ (b = {} <=> older = {})
    BY <1>1, <1>3, BuriedType
  <1>5. t \in Seq(SUBSET Bindings) /\ Len(t) = n - 1
          /\ \A i \in 1 .. n - 1 : t[i] = segments[i]
    <2>1. \A i \in 1 .. n - 1 : segments[i] \in SUBSET Bindings
      BY SegmentsType, <1>2
    <2>. QED BY <2>1, <1>2, SegmentsType, SubSeqProperties
  <1>6. (\A i \in 1 .. Len(segments) - 1 : segments[i] = {}) => older = {}
    BY <1>2
  <1>. HIDE DEF older, t
  <1>. DEFINE new == b \cup Last(segments)
  <1>7. new \in SUBSET Bindings
    BY <1>2, <1>4
  <1>8. older = {} => new = segments[Len(segments)]
    BY <1>2, <1>4
  <1>9. segments' = Append(t, new)
    BY <1>1
  <1>. HIDE DEF new
  <1>10. /\ segments' \in Seq(SUBSET Bindings) /\ Len(segments') = Len(t) + 1
         /\ \A i \in 1 .. Len(t) : segments'[i] = t[i]
         /\ segments'[Len(t) + 1] = new
    BY <1>5, <1>7, <1>9, AppendProperties
  <1>11. Len(t) + 1 = n
    BY <1>2, <1>5
  <1>. QED BY <1>5, <1>6, <1>8, <1>10, <1>11

(* The handlers go on, in the segment that is the newest then.             *)
LEMMA CutHandlers ==
  ASSUME TypeOK, NEW n \in 1 .. Len(segments) - 1, CutTo(n)
  PROVE  /\ handlers' \in Seq(Handler(n)) /\ Len(handlers') = Len(handlers)
         /\ Collecting' => Collecting
  <1>1. handlers' = [i \in DOMAIN handlers |->
                      [handlers[i] EXCEPT !.depth = IF @ > n THEN n ELSE @]]
    BY DEF CutTo
  <1>2. handlers' \in [1 .. Len(handlers) -> Handler(n)]
        /\ \A i \in 1 .. Len(handlers) : handlers'[i].cause = handlers[i].cause
    <2>1. Len(segments) \in Nat /\ n \in Nat /\ n >= 1
      BY SegmentsType
    <2>2. ASSUME NEW i \in 1 .. Len(handlers)
          PROVE  /\ [handlers[i] EXCEPT !.depth = IF @ > n THEN n ELSE @] \in Handler(n)
                 /\ [handlers[i] EXCEPT !.depth = IF @ > n THEN n ELSE @].cause = handlers[i].cause
      <3>1. handlers[i] \in Handler(Len(segments))
        BY HandlersType
      <3>. QED BY <3>1, <2>1 DEF Handler
    <2>3. DOMAIN handlers = 1 .. Len(handlers)
      BY HandlersType
    <2>. QED BY <1>1, <2>2, <2>3
  <1>3. handlers' \in Seq(Handler(n)) /\ Len(handlers') = Len(handlers)
    <2>1. handlers' \in Seq(Handler(n))
      BY <1>2, HandlersType, SeqDef
    <2>. QED BY <2>1, <1>2, HandlersType, LenProperties
  <1>4. Collecting' => Collecting
    <2>1. handlers' # << >> => Len(handlers') > 0
      BY <1>3, EmptySeq, LenProperties
    <2>2. handlers' # << >> => handlers # << >> /\ Last(handlers').cause = Last(handlers).cause
      BY <2>1, <1>2, <1>3, HandlersType DEF Last
    <2>. QED BY <2>2 DEF Collecting
  <1>. QED BY <1>3, <1>4

(* An undisturbed goal that waits after a cut was in the newest segment.   *)
LEMMA CutWakes ==
  ASSUME IInv, NEW n \in 1 .. Len(segments) - 1, CutTo(n), ~ disturbed, Waiting(segments')
  PROVE  /\ Waiting(segments)
         /\ \A i \in 1 .. n - 1 : segments'[i] = {}
         /\ "hidden" \notin segments'[n]
  <1>. USE DEF IInv
  <1>1. Len(segments) \in Nat /\ n \in Nat /\ n - 1 < Len(segments) /\ n <= Len(segments)
          /\ \A i \in 1 .. Len(segments) : i \in DOMAIN segments
    BY SegmentsType
  <1>2. \A i \in 1 .. Len(segments) - 1 : segments[i] = {}
    <2>1. CASE Waiting(segments)
      BY <2>1 DEF WakesOnTheirWay
    <2>2. CASE ~ Waiting(segments)
      BY <2>2, <1>1 DEF Waiting
    <2>. QED BY <2>1, <2>2
  <1>3. /\ segments' \in Seq(SUBSET Bindings) /\ Len(segments') = n
        /\ \A i \in 1 .. n - 1 : segments'[i] = {}
        /\ segments'[n] = segments[Len(segments)]
    <2>1. /\ segments' \in Seq(SUBSET Bindings) /\ Len(segments') = n
          /\ \A i \in 1 .. n - 1 : segments'[i] = segments[i]
          /\ segments'[n] = segments[Len(segments)]
      BY <1>2, CutSegments
    <2>2. \A i \in 1 .. n - 1 : i \in 1 .. Len(segments) - 1
      BY <1>1
    <2>. QED BY <2>1, <2>2, <1>2
  <1>4. Waiting(segments)
    <2>1. PICK i \in DOMAIN segments' : segments'[i] # {}
      BY DEF Waiting
    <2>2. i \in 1 .. n
      BY <2>1, <1>3, LenProperties
    <2>3. i = n
      BY <2>1, <2>2, <1>1, <1>3
    <2>. QED BY <2>1, <2>3, <1>1, <1>3 DEF Waiting
  <1>5. "hidden" \notin segments[Len(segments)]
    BY <1>4 DEF WakesOnTheirWay
  <1>. QED BY <1>3, <1>4, <1>5

(* Cut and the return from a nested run *)
LEMMA CutToInv ==
  ASSUME IInv, Running, NEW n \in 1 .. Len(segments) - 1, CutTo(n),
         runs' \in Seq(1 .. n - 1), RunsNested',
         UNCHANGED <<safety, caught, pc, due, disturbed>>
  PROVE  IInv'
  <1>. USE DEF IInv
  <1>1. /\ segments' \in Seq(SUBSET Bindings) /\ Len(segments') = n
        /\ handlers' \in Seq(Handler(n)) /\ Len(handlers') = Len(handlers)
        /\ Collecting' => Collecting
    BY CutSegments, CutHandlers
  <1>2. TypeOK'
    <2>1. Len(segments') \in 1 .. MaxChoices /\ Len(handlers') <= MaxNested
      BY <1>1, SegmentsType, HandlersType, BoundsAssumption
    <2>. QED BY <2>1, <1>1 DEF TypeOK, Handler
  <1>3. DeliveredOnce' /\ StaysArmed' /\ Room'
    BY <1>1 DEF DeliveredOnce, StaysArmed, Room
  <1>4. ASSUME ~ disturbed, Waiting(segments') PROVE OnItsWay'
    <2>1. OnItsWay
      BY <1>4, CutWakes DEF WakesOnTheirWay
    <2>. QED BY <2>1 DEF OnItsWay, Running
  <1>5. WakesOnTheirWay'
    <2>. SUFFICES ASSUME ~ disturbed, Waiting(segments')
                  PROVE  /\ \A i \in 1 .. n - 1 : segments'[i] = {}
                         /\ "hidden" \notin segments'[n]
      BY <1>1, <1>4 DEF WakesOnTheirWay
    <2>. QED BY CutWakes
  <1>. QED BY <1>2, <1>3, <1>5

LEMMA CutInv == ASSUME IInv, Cut PROVE IInv'
  <1>1. Len(segments) \in Nat /\ Len(segments) > Floor /\ Floor >= 1 /\ Floor \in Nat
    <2>1. runs # << >> => Last(runs) \in 1 .. Len(segments) - 1
      BY RunsType DEF IInv
    <2>2. Floor >= 1 /\ Floor \in Nat
      BY <2>1, SegmentsType DEF Floor, IInv
    <2>. QED BY <2>2, SegmentsType DEF Cut, IInv
  <1>2. Len(segments) - 1 \in 1 .. Len(segments) - 1 /\ Len(segments) - 1 \in Nat
          /\ Floor <= Len(segments) - 1
    BY <1>1
  <1>3. runs' \in Seq(1 .. (Len(segments) - 1) - 1) /\ RunsNested'
    BY <1>2, RunsFit DEF Cut, IInv, RunsNested
  <1>4. Running /\ CutTo(Len(segments) - 1) /\ UNCHANGED <<safety, caught, pc, due, disturbed>>
    BY DEF Cut, Called
  <1>. QED BY <1>2, <1>3, <1>4, CutToInv

LEMMA RunReturnsInv == ASSUME IInv, RunReturns PROVE IInv'
  <1>1. /\ runs # << >> /\ runs' = Front(runs) /\ Running /\ CutTo(Last(runs))
        /\ UNCHANGED <<safety, caught, pc, due, disturbed>>
    BY DEF RunReturns
  <1>2. runs' \in Seq(1 .. Last(runs) - 1) /\ RunsNested'
    BY <1>1, RunsPopped DEF IInv
  <1>3. Last(runs) \in 1 .. Len(segments) - 1
    BY <1>1, RunsType DEF IInv
  <1>. QED BY <1>1, <1>2, <1>3, CutToInv

LEMMA NoticeInv == ASSUME IInv, Notice PROVE IInv'
  <1>. USE DEF IInv, Notice
  <1>1. disturbed \in BOOLEAN
    BY DEF TypeOK
  <1>2. TypeOK' /\ RunsNested' /\ (Waiting(segments)' <=> Waiting(segments)) /\ Room'
    BY <1>1, ListsUnchanged DEF TypeOK
  <1>3. DeliveredOnce' /\ StaysArmed'
    BY DEF DeliveredOnce, StaysArmed
  <1>4. WakesOnTheirWay'
    BY <1>2 DEF WakesOnTheirWay, OnItsWay
  <1>. QED BY <1>2, <1>3, <1>4

LEMMA ReadInv == ASSUME IInv, Read PROVE IInv'
  <1>. USE DEF IInv, Read
  <1>. DEFINE new == [cause |-> caught, depth |-> Len(segments)]
  <1>1. new \in Handler(Len(segments)) /\ new.cause = caught
    BY SegmentsType DEF Handler, TypeOK
  <1>. HIDE DEF new
  <1>2. /\ Append(handlers, new) \in Seq(Handler(Len(segments)))
        /\ Len(Append(handlers, new)) = Len(handlers) + 1
        /\ Append(handlers, new)[Len(handlers) + 1] = new
    BY <1>1, HandlersType, AppendProperties
  <1>3. Append(handlers, new) # << >> /\ Last(Append(handlers, new)) = new
    BY <1>2, HandlersType, EmptySeq DEF Last
  <1>4. /\ handlers' \in Seq(Handler(Len(segments)))
        /\ Len(handlers') <= MaxNested
        /\ Collecting' <=> caught = WAKE
        /\ Collecting' => Len(handlers') + 1 <= MaxNested
    <2>1. CASE caught = WAKE \/ Collecting
      <3>1. handlers' = Append(handlers, new)
        BY <2>1 DEF Deliver, new
      <3>2. Collecting' <=> caught = WAKE
        BY <3>1, <1>1, <1>3 DEF Collecting
      <3>3. Len(handlers) + 1 <= MaxNested /\ (caught = WAKE => Len(handlers) + 2 <= MaxNested)
        BY <2>1, HandlersType, BoundsAssumption DEF Room
      <3>. QED BY <3>1, <3>2, <3>3, <1>2, HandlersType, BoundsAssumption
    <2>2. CASE caught # WAKE /\ ~ Collecting
      <3>1. handlers' = handlers
        BY <2>2 DEF Deliver
      <3>. QED BY <3>1, <2>2, HandlersType DEF Collecting
    <2>. QED BY <2>1, <2>2
  <1>5. TypeOK'
    BY <1>4 DEF TypeOK, Handler
  <1>6. DeliveredOnce' /\ StaysArmed' /\ Room' /\ RunsNested'
    BY <1>4 DEF DeliveredOnce, StaysArmed, Room, RunsNested
  <1>7. WakesOnTheirWay'
    BY <1>4 DEF WakesOnTheirWay, OnItsWay
  <1>. QED BY <1>5, <1>6, <1>7

LEMMA ClearInv == ASSUME IInv, Clear PROVE IInv'
  <1>. USE DEF IInv, Clear
  <1>1. disturbed \in BOOLEAN /\ SOURCE \in Slot /\ SOURCE # WAKE /\ SOURCE \notin Signals \cup {ERROR}
    BY CausesDiffer DEF TypeOK, Slot
  <1>2. TypeOK' /\ RunsNested' /\ (Waiting(segments)' <=> Waiting(segments)) /\ Room' /\ (Collecting' <=> Collecting)
    BY <1>1, ListsUnchanged DEF TypeOK
  <1>3. DeliveredOnce' /\ StaysArmed'
    BY <1>1 DEF DeliveredOnce, StaysArmed
  <1>4. WakesOnTheirWay'
    BY <1>2 DEF WakesOnTheirWay, OnItsWay
  <1>. QED BY <1>2, <1>3, <1>4

(* The newest of the handlers ends. *)
LEMMA FrontOfHandlers ==
  ASSUME TypeOK, handlers # << >>
  PROVE  /\ Front(handlers) \in Seq(Handler(Len(segments)))
         /\ Len(Front(handlers)) = Len(handlers) - 1
         /\ Len(handlers) \in Nat /\ Len(handlers) <= MaxNested
  BY HandlersType, FrontProperties

LEMMA CollectInv == ASSUME IInv, Collect PROVE IInv'
  <1>. USE DEF IInv, Collect
  <1>0. PICK left \in SUBSET (Last(segments) \ {"reached"}) :
          segments' = [segments EXCEPT ![Len(segments)] = left]
    OBVIOUS
  <1>. DEFINE s == [segments EXCEPT ![Len(segments)] = left]
  <1>1. /\ s \in Seq(SUBSET Bindings) /\ Len(s) = Len(segments) /\ DOMAIN s = 1 .. Len(segments)
        /\ \A i \in 1 .. Len(segments) : s[i] # {} =>
             /\ segments[i] # {}
             /\ i = Len(segments) => "hidden" \in segments[i]
    <2>1. /\ Last(segments) = segments[Len(segments)]
          /\ segments[Len(segments)] \in SUBSET Bindings
      BY SegmentsType DEF Last
    <2>2. left \in SUBSET Bindings
            /\ (left # {} => "hidden" \in segments[Len(segments)])
      BY <2>1 DEF Bindings
    <2>. QED BY <2>2, NewestProperties
  <1>2. segments' = s
    BY <1>0
  <1>. HIDE DEF s
  <1>3. /\ handlers' \in Seq(Handler(Len(segments)))
        /\ Len(handlers') = Len(handlers) - 1
        /\ Len(handlers) \in Nat /\ Len(handlers) <= MaxNested
    BY FrontOfHandlers DEF Collecting
  <1>4. TypeOK'
    <2>1. segments' \in Seq(SUBSET Bindings) /\ Len(segments') = Len(segments)
      BY <1>1, <1>2
    <2>2. Len(handlers') <= MaxNested /\ disturbed' \in BOOLEAN
      BY <1>3, BoundsAssumption DEF TypeOK
    <2>. QED BY <2>1, <2>2, <1>3 DEF TypeOK, Handler
  <1>5. Room'
    BY <1>3, BoundsAssumption DEF Room
  <1>6. DeliveredOnce' /\ StaysArmed' /\ RunsNested'
    BY DEF DeliveredOnce, StaysArmed, RunsNested
  <1>7. Waiting(s) => disturbed
    BY <1>1, OlderWait
  <1>8. WakesOnTheirWay'
    BY <1>2, <1>7 DEF WakesOnTheirWay
  <1>. QED BY <1>4, <1>5, <1>6, <1>8

LEMMA ReturnInv == ASSUME IInv, Return PROVE IInv'
  <1>. USE DEF IInv, Return
  <1>1. /\ handlers' \in Seq(Handler(Len(segments)))
        /\ Len(handlers') = Len(handlers) - 1
        /\ Len(handlers) \in Nat /\ Len(handlers) <= MaxNested
    BY FrontOfHandlers DEF Handling
  <1>2. TypeOK'
    BY <1>1, BoundsAssumption DEF TypeOK, Handler
  <1>3. Room'
    BY <1>1, BoundsAssumption DEF Room
  <1>4. DeliveredOnce' /\ StaysArmed' /\ RunsNested'
    BY DEF DeliveredOnce, StaysArmed, RunsNested
  <1>5. WakesOnTheirWay'
    BY DEF WakesOnTheirWay, OnItsWay, Running, Waiting
  <1>. QED BY <1>2, <1>3, <1>4, <1>5

LEMMA StutterInv == ASSUME IInv, UNCHANGED vars PROVE IInv'
  BY DEF IInv, vars, TypeOK, DeliveredOnce, StaysArmed, Room, Collecting, WakesOnTheirWay,
         OnItsWay, Waiting, RunsNested

LEMMA NextInv == ASSUME IInv, [Next]_vars PROVE IInv'
  <1>1. ASSUME NEW n \in Signals, Signal(n) PROVE IInv'
    BY <1>1, SignalInv
  <1>2. CASE CallUndefined \/ UndefinedDone \/ CallError \/ CallForced \/ CallReset \/ ResetDone
    BY <1>2, InstructionInv
  <1>3. CASE Bind
    BY <1>3, BindInv
  <1>4. CASE BindDone
    BY <1>4, BindDoneInv
  <1>5. CASE Retry
    BY <1>5, RetriedInv DEF Retry, Running
  <1>6. CASE ErrorDone
    BY <1>6, RetriedInv, RunFailedInv DEF ErrorDone
  <1>7. CASE Trust
    BY <1>7, TrustInv
  <1>8. CASE Try
    BY <1>8, TryInv
  <1>9. CASE Cut
    BY <1>9, CutInv
  <1>10. CASE Notice
    BY <1>10, NoticeInv
  <1>11. CASE Read
    BY <1>11, ReadInv
  <1>12. CASE Clear
    BY <1>12, ClearInv
  <1>13. CASE Collect
    BY <1>13, CollectInv
  <1>14. CASE Return
    BY <1>14, ReturnInv
  <1>15. CASE BindVariable
    BY <1>15, BindVariableInv
  <1>16. CASE Combine
    BY <1>16, CombineInv
  <1>17. CASE RunReturns
    BY <1>17, RunReturnsInv
  <1>18. CASE RunFails
    BY <1>18, RunFailedInv DEF RunFails, Running
  <1>19. CASE UNCHANGED vars
    BY <1>19, StutterInv
  <1>. QED BY <1>1, <1>2, <1>3, <1>4, <1>5, <1>6, <1>7, <1>8, <1>9, <1>10, <1>11,
              <1>12, <1>13, <1>14, <1>15, <1>16, <1>17, <1>18, <1>19 DEF Next, Inside
------------------------------------------------------------------------------
(* Every reachable state satisfies the inductive invariant. *)
THEOREM Invariant == Spec => []IInv
  <1>. QED BY InitInv, NextInv, PTL DEF Spec

(* The slot, wm_safety and the lists of segments and handlers have their   *)
(* types; the handlers stay within their bound and each knows a segment.   *)
THEOREM TypeCorrect == Spec => []TypeOK
  <1>1. IInv => TypeOK
    BY DEF IInv
  <1>. QED BY <1>1, Invariant, PTL

(* No signal and no error is passed to '$interrupt'/3 twice.               *)
THEOREM DeliveredAtMostOnce == Spec => []DeliveredOnce
  <1>1. IInv => DeliveredOnce
    BY DEF IInv
  <1>. QED BY <1>1, Invariant, PTL

(* At a call with nothing to do, no undisturbed delayed goal waits.        *)
THEOREM WakesAreServed == Spec => []WakesServed
  <1>1. IInv => WakesServed
    BY NothingWaits DEF WakesServed
  <1>. QED BY <1>1, Invariant, PTL

(* Only pbi_reset_wm_normal disarms an interrupt that has a cause.         *)
THEOREM OnlyResetDisarms == Spec => DisarmedOnlyByReset
  <1>1. ASSUME IInv, [Next]_vars, Disarmed' PROVE Disarmed \/ ResetDone \/ UNCHANGED vars
    <2>. USE <1>1 DEF Disarmed
    <2>1. CASE BindDone
      BY <2>1 DEF BindDone, IInv, StaysArmed
    <2>2. CASE \E n \in Signals : Signal(n)
      BY <2>2 DEF Signal
    <2>3. CASE Bind \/ CallUndefined \/ CallError \/ CallForced \/ CallReset
      BY <2>3 DEF Bind, CallUndefined, CallError, CallForced, CallReset
    <2>4. CASE Retry \/ Trust \/ Try \/ Cut \/ Return \/ Collect
      BY <2>4 DEF Retry, Trust, Try, Cut, Return, Collect, Running, Called
    <2>6. CASE BindVariable \/ Combine \/ RunReturns \/ RunFails
      BY <2>6 DEF BindVariable, Combine, RunReturns, RunFails, Running
    <2>5. CASE UndefinedDone \/ ErrorDone \/ Notice \/ Read \/ Clear
      BY <2>5 DEF UndefinedDone, ErrorDone, Notice, Read, Clear
    <2>. QED BY <2>1, <2>2, <2>3, <2>4, <2>5, <2>6 DEF Next, Inside
  <1>2. IInv /\ [Next]_vars => [Disarmed' => Disarmed \/ ResetDone]_vars
    BY <1>1
  <1>. QED BY <1>2, Invariant, PTL DEF Spec, DisarmedOnlyByReset
==============================================================================
