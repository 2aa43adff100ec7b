--------------------------- MODULE SpeculativeProofs ---------------------------
(***************************************************************************)
(* Proofs about SpeculativeLadder, for any ladder, gates, policies, costs, *)
(* number of calls ahead and order of their ends: the speculative engine   *)
(* implements the serial one, so that what LadderProofs shows of the       *)
(* serial climb holds of it too, and no call is made twice or left behind. *)
(***************************************************************************)
EXTENDS SpeculativeLadder, TLAPS

\* The serial climb this engine's steps are steps of, with what is proved about it.
Climb == INSTANCE LadderProofs WITH spent <- spent - wasted

-------------------------------------------------------------------------------
(* The rules that do not look at spent are the same on both sides.         *)

LEMMA SameCardinality ==
  ASSUME NEW S
  PROVE  Climb!Cardinality(S) = Cardinality(S) /\ Serial!Cardinality(S) = Cardinality(S)
BY DEF Cardinality, Climb!Cardinality, Serial!Cardinality

LEMMA SameWindow == Climb!RungEnd = RungEnd /\ Serial!RungEnd = RungEnd
BY DEF RungEnd, Climb!RungEnd, Serial!RungEnd, Least, Climb!Least, Serial!Least

LEMMA SameFailure ==
  ASSUME NEW kind
  PROVE  Climb!Failure(kind) = Failure(kind) /\ Serial!Failure(kind) = Failure(kind)
BY DEF Failure, Climb!Failure, Serial!Failure

LEMMA SameReplies ==
  ASSUME NEW j
  PROVE  Climb!Replies(j) = Replies(j) /\ Serial!Replies(j) = Replies(j)
BY DEF Replies, Climb!Replies, Serial!Replies

LEMMA SameGates ==
  /\ Climb!Elastic = Elastic /\ Serial!Elastic = Elastic
  /\ Climb!VisibleGates = VisibleGates /\ Serial!VisibleGates = VisibleGates
  /\ Climb!ExpensiveGates = ExpensiveGates /\ Serial!ExpensiveGates = ExpensiveGates
  /\ Climb!Foremost = Foremost /\ Serial!Foremost = Foremost
  /\ Climb!NextGate = NextGate /\ Serial!NextGate = NextGate
  /\ Climb!Gate = Gate /\ Serial!Gate = Gate
<1>1. Climb!Elastic = Elastic /\ Serial!Elastic = Elastic
  BY DEF Elastic, Climb!Elastic, Serial!Elastic
<1>2. Climb!VisibleGates = VisibleGates /\ Serial!VisibleGates = VisibleGates
  BY <1>1 DEF VisibleGates, Climb!VisibleGates, Serial!VisibleGates
<1>3. Climb!ExpensiveGates = ExpensiveGates /\ Serial!ExpensiveGates = ExpensiveGates
  BY DEF ExpensiveGates, Climb!ExpensiveGates, Serial!ExpensiveGates
<1>4. Climb!Foremost = Foremost /\ Serial!Foremost = Foremost
  BY DEF Foremost, Climb!Foremost, Serial!Foremost
<1>5. Climb!NextGate = NextGate /\ Serial!NextGate = NextGate
  BY <1>4 DEF NextGate, Climb!NextGate, Serial!NextGate
<1>6. Climb!Gate = Gate /\ Serial!Gate = Gate
  BY DEF Gate, Climb!Gate, Serial!Gate
<1> QED BY <1>1, <1>2, <1>3, <1>4, <1>5, <1>6

LEMMA SameScores ==
  ASSUME NEW rs
  PROVE  /\ Climb!Aggregate(rs) = Aggregate(rs) /\ Serial!Aggregate(rs) = Aggregate(rs)
         /\ Climb!ScoreAtFloor(rs) = ScoreAtFloor(rs)
         /\ Serial!ScoreAtFloor(rs) = ScoreAtFloor(rs)
         /\ \A t : /\ Climb!ScoreAtLeast(rs, t) = ScoreAtLeast(rs, t)
                   /\ Serial!ScoreAtLeast(rs, t) = ScoreAtLeast(rs, t)
<1>1. Climb!Aggregate(rs) = Aggregate(rs) /\ Serial!Aggregate(rs) = Aggregate(rs)
  BY DEF Aggregate, Climb!Aggregate, Serial!Aggregate, Blocking, Climb!Blocking, Serial!Blocking
<1>2. Climb!Scored(rs) = Scored(rs) /\ Serial!Scored(rs) = Scored(rs)
  BY DEF Scored, Climb!Scored, Serial!Scored
<1>3. Climb!Total(rs) = Total(rs) /\ Serial!Total(rs) = Total(rs)
  BY <1>2, SameCardinality DEF Total, Climb!Total, Serial!Total
<1>4. Climb!ScoreAtFloor(rs) = ScoreAtFloor(rs) /\ Serial!ScoreAtFloor(rs) = ScoreAtFloor(rs)
  BY <1>1, <1>2, <1>3 DEF ScoreAtFloor, Climb!ScoreAtFloor, Serial!ScoreAtFloor
<1>5. ASSUME NEW t
      PROVE  /\ Climb!ScoreAtLeast(rs, t) = ScoreAtLeast(rs, t)
             /\ Serial!ScoreAtLeast(rs, t) = ScoreAtLeast(rs, t)
  BY <1>1, <1>2, <1>3, SameCardinality DEF ScoreAtLeast, Climb!ScoreAtLeast, Serial!ScoreAtLeast
<1> QED BY <1>1, <1>4, <1>5

LEMMA SameVerdict ==
  /\ \A a : (Climb!Clears(a) <=> Clears(a)) /\ (Serial!Clears(a) <=> Clears(a))
  /\ \A a : (Climb!Graded(a) <=> Graded(a)) /\ (Serial!Graded(a) <=> Graded(a))
  /\ Climb!Regime = Regime /\ Serial!Regime = Regime
<1>1. \A a : (Climb!Clears(a) <=> Clears(a)) /\ (Serial!Clears(a) <=> Clears(a))
  BY SameScores DEF Clears, Climb!Clears, Serial!Clears,
                    ShouldServe, Climb!ShouldServe, Serial!ShouldServe
<1>2. Climb!Regime = Regime /\ Serial!Regime = Regime
  BY SameScores DEF Regime, Climb!Regime, Serial!Regime
<1> QED BY <1>1, <1>2 DEF Graded, Climb!Graded, Serial!Graded

LEMMA SameRecorded ==
  /\ \A h, errored : /\ Climb!Recorded(h, errored) = Recorded(h, errored)
                     /\ Serial!Recorded(h, errored) = Recorded(h, errored)
  /\ \A g, v : Climb!Record(g, v) = Record(g, v) /\ Serial!Record(g, v) = Record(g, v)
<1>1. \A q, errored : /\ Climb!Pushed(q, errored) = Pushed(q, errored)
                      /\ Serial!Pushed(q, errored) = Pushed(q, errored)
  BY DEF Pushed, Climb!Pushed, Serial!Pushed
<1>2. \A q : Climb!Errors(q) = Errors(q) /\ Serial!Errors(q) = Errors(q)
  BY SameCardinality DEF Errors, Climb!Errors, Serial!Errors
<1>3. \A h, errored : /\ Climb!Recorded(h, errored) = Recorded(h, errored)
                      /\ Serial!Recorded(h, errored) = Recorded(h, errored)
  BY <1>1, <1>2 DEF Recorded, Climb!Recorded, Serial!Recorded
<1>4. \A g, v : Climb!Record(g, v) = Record(g, v) /\ Serial!Record(g, v) = Record(g, v)
  BY <1>3 DEF Record, Climb!Record, Serial!Record
<1> QED BY <1>3, <1>4

LEMMA SameCondensing ==
  /\ (Climb!MayCondense <=> MayCondense) /\ (Serial!MayCondense <=> MayCondense)
  /\ (Climb!Condensed <=> Condensed) /\ (Serial!Condensed <=> Condensed)
BY DEF MayCondense, Climb!MayCondense, Serial!MayCondense, Condensed, Climb!Condensed,
       Serial!Condensed, Overflowed, Climb!Overflowed, Serial!Overflowed

-------------------------------------------------------------------------------
(* Each step of the speculative engine is the serial engine's step of the  *)
(* same name, when nothing has been wasted yet where spending is judged.   *)

ClimbStep == Climb!Next /\ Serial!Next

LEMMA BeginMaps ==
  ASSUME MissingProvider \/ CallProvider, UNCHANGED wasted
  PROVE  ClimbStep
<1>1. UNCHANGED spent /\ (spent - wasted)' = spent - wasted
  BY DEF MissingProvider, CallProvider, runVars
<1>2. CASE MissingProvider
  <2>1. Climb!MissingProvider
    BY <1>1, <1>2, SameWindow, SameFailure
       DEF MissingProvider, Climb!MissingProvider, gateVars, Climb!gateVars,
           healthVars, Climb!healthVars
  <2>2. Serial!MissingProvider
    BY <1>1, <1>2, SameWindow, SameFailure
       DEF MissingProvider, Serial!MissingProvider, gateVars, Serial!gateVars,
           healthVars, Serial!healthVars
  <2> QED BY <2>1, <2>2 DEF ClimbStep, Climb!Next, Climb!Step, Serial!Next, Serial!Step
<1>3. CASE CallProvider
  <2>1. Climb!CallProvider
    BY <1>1, <1>3, SameWindow
       DEF CallProvider, Climb!CallProvider, runVars, Climb!runVars, gateVars, Climb!gateVars,
           healthVars, Climb!healthVars
  <2>2. Serial!CallProvider
    BY <1>1, <1>3, SameWindow
       DEF CallProvider, Serial!CallProvider, runVars, Serial!runVars, gateVars, Serial!gateVars,
           healthVars, Serial!healthVars
  <2> QED BY <2>1, <2>2 DEF ClimbStep, Climb!Next, Climb!Step, Serial!Next, Serial!Step
<1> QED BY <1>2, <1>3

LEMMA CallMaps ==
  ASSUME NEW r \in Replies(idx), CallFails(r) \/ CallRejected(r) \/ CallAnswers(r),
         UNCHANGED wasted, spent \in Nat, wasted \in Nat, r.cost \in Nat
  PROVE  ClimbStep
<1>1. UNCHANGED spent => (spent - wasted)' = spent - wasted
  OBVIOUS
<1> USE DEF gateVars, Climb!gateVars, Serial!gateVars, healthVars, Climb!healthVars,
            Serial!healthVars
<1>2. CASE CallFails(r)
  <2>1. Climb!CallFails(r) /\ Serial!CallFails(r)
    BY <1>1, <1>2, SameFailure DEF CallFails, Climb!CallFails, Serial!CallFails
  <2> QED BY <2>1, SameReplies DEF ClimbStep, Climb!Next, Climb!Step, Climb!CallReturns,
                                   Serial!Next, Serial!Step, Serial!CallReturns
<1>3. CASE CallRejected(r)
  <2>1. Climb!CallRejected(r) /\ Serial!CallRejected(r)
    BY <1>1, <1>3, SameFailure DEF CallRejected, Climb!CallRejected, Serial!CallRejected
  <2> QED BY <2>1, SameReplies DEF ClimbStep, Climb!Next, Climb!Step, Climb!CallReturns,
                                   Serial!Next, Serial!Step, Serial!CallReturns
<1>4. CASE CallAnswers(r)
  <2>1. (spent - wasted)' = (spent - wasted) + r.cost
    BY <1>4 DEF CallAnswers
  <2>2. Climb!CallAnswers(r) /\ Serial!CallAnswers(r)
    BY <2>1, <1>4, SameGates DEF CallAnswers, Climb!CallAnswers, Serial!CallAnswers
  <2> QED BY <2>2, SameReplies DEF ClimbStep, Climb!Next, Climb!Step, Climb!CallReturns,
                                   Serial!Next, Serial!Step, Serial!CallReturns
<1> QED BY <1>2, <1>3, <1>4

LEMMA EvaluationMaps ==
  ASSUME LadderExhausted \/ Evaluation, UNCHANGED wasted, wasted = 0, spent \in Nat,
         gateSpend \in Nat
  PROVE  ClimbStep
<1> USE DEF runVars, Climb!runVars, Serial!runVars, gateVars, Climb!gateVars, Serial!gateVars,
            healthVars, Climb!healthVars, Serial!healthVars
<1> DEFINE SameMoney == (spent - wasted)' = spent - wasted
<1>1. CASE LadderExhausted
  <2>1. SameMoney
    BY <1>1 DEF LadderExhausted
  <2>2. Climb!LadderExhausted /\ Serial!LadderExhausted
    BY <1>1, <2>1, SameWindow DEF LadderExhausted, Climb!LadderExhausted, Serial!LadderExhausted
  <2> QED BY <2>2 DEF ClimbStep, Climb!Next, Climb!Step, Serial!Next, Serial!Step
<1>2. CASE SkipGate
  <2>1. SameMoney
    BY <1>2 DEF SkipGate
  <2>2. Climb!SkipGate /\ Serial!SkipGate
    BY <1>2, <2>1, SameGates DEF SkipGate, Climb!SkipGate, Serial!SkipGate
  <2> QED BY <2>2 DEF ClimbStep, Climb!Next, Climb!Step, Climb!Evaluation,
                      Serial!Next, Serial!Step, Serial!Evaluation
<1>3. CASE StartGate
  <2>1. SameMoney
    BY <1>3 DEF StartGate
  <2>2. Climb!StartGate /\ Serial!StartGate
    BY <1>3, <2>1, SameGates DEF StartGate, Climb!StartGate, Serial!StartGate
  <2> QED BY <2>2 DEF ClimbStep, Climb!Next, Climb!Step, Climb!Evaluation,
                      Serial!Next, Serial!Step, Serial!Evaluation
<1>4. CASE Classify
  <2>1. SameMoney
    BY <1>4 DEF Classify
  <2>2. Climb!Classify /\ Serial!Classify
    BY <1>4, <2>1, SameGates, SameVerdict DEF Classify, Climb!Classify, Serial!Classify
  <2> QED BY <2>2 DEF ClimbStep, Climb!Next, Climb!Step, Climb!Evaluation,
                      Serial!Next, Serial!Step, Serial!Evaluation
<1>5. CASE Grade
  <2>1. /\ spent - wasted + gateSpend = spent + gateSpend
        /\ (spent - wasted)' = spent + gateSpend
    BY <1>5 DEF Grade
  <2>2. /\ Climb!OverBudget(spent - wasted + gateSpend) <=> OverBudget(spent + gateSpend)
        /\ Serial!OverBudget(spent - wasted + gateSpend) <=> OverBudget(spent + gateSpend)
    BY <2>1, SameWindow DEF OverBudget, Climb!OverBudget, Serial!OverBudget,
                            CapReached, Climb!CapReached, Serial!CapReached
  <2>3. Climb!Grade
    BY <1>5, <2>1, <2>2, SameGates, SameVerdict DEF Grade, Climb!Grade
  <2>4. Serial!Grade
    BY <1>5, <2>1, <2>2, SameGates, SameVerdict DEF Grade, Serial!Grade
  <2> QED BY <2>3, <2>4 DEF ClimbStep, Climb!Next, Climb!Step, Climb!Evaluation,
                            Serial!Next, Serial!Step, Serial!Evaluation
<1>6. ASSUME NEW a \in Answers, NEW c \in GateCosts, GateAnswers(a, c)
      PROVE  ClimbStep
  <2>1. SameMoney
    BY <1>6 DEF GateAnswers
  <2>2. Climb!GateAnswers(a, c)
    BY <1>6, <2>1, SameGates, SameRecorded DEF GateAnswers, Climb!GateAnswers
  <2>3. Serial!GateAnswers(a, c)
    BY <1>6, <2>1, SameGates, SameRecorded DEF GateAnswers, Serial!GateAnswers
  <2> QED BY <2>2, <2>3 DEF ClimbStep, Climb!Next, Climb!Step, Climb!Evaluation,
                            Serial!Next, Serial!Step, Serial!Evaluation
<1> QED BY <1>1, <1>2, <1>3, <1>4, <1>5, <1>6 DEF Evaluation

LEMMA SettlementMaps ==
  ASSUME Settlement, UNCHANGED wasted, MayCondense => wasted = 0, spent \in Nat
  PROVE  ClimbStep
<1> USE DEF runVars, Climb!runVars, Serial!runVars, gateVars, Climb!gateVars, Serial!gateVars,
            healthVars, Climb!healthVars, Serial!healthVars
<1>1. CASE Condense
  <2>1. spent - wasted = spent /\ (spent - wasted)' = 0
    BY <1>1 DEF Condense
  <2>2. Climb!Condense /\ Serial!Condense
    BY <1>1, <2>1, SameCondensing DEF Condense, Climb!Condense, Serial!Condense
  <2> QED BY <2>2 DEF ClimbStep, Climb!Next, Climb!Step, Climb!Settlement,
                      Serial!Next, Serial!Step, Serial!Settlement
<1>2. CASE ServeCleared \/ ServeBest \/ FailRequest
  <2>1. (spent - wasted)' = spent - wasted
    BY <1>2 DEF ServeCleared, ServeBest, FailRequest, Settle
  <2>2. \A o : Settle(o) => Climb!Settle(o) /\ Serial!Settle(o)
    BY <2>1, SameCondensing DEF Settle, Climb!Settle, Serial!Settle
  <2>3. /\ Climb!ServeCleared \/ Climb!ServeBest \/ Climb!FailRequest
        /\ Serial!ServeCleared \/ Serial!ServeBest \/ Serial!FailRequest
    BY <1>2, <2>2 DEF ServeCleared, ServeBest, FailRequest, Climb!ServeCleared, Climb!ServeBest,
                      Climb!FailRequest, Serial!ServeCleared, Serial!ServeBest, Serial!FailRequest
  <2> QED BY <2>3 DEF ClimbStep, Climb!Next, Climb!Step, Climb!Settlement,
                      Serial!Next, Serial!Step, Serial!Settlement
<1> QED BY <1>1, <1>2 DEF Settlement

LEMMA ElsewhereMaps ==
  ASSUME Elsewhere, UNCHANGED wasted
  PROVE  ClimbStep
<1>1. PICK g \in Gate, errored \in BOOLEAN : OtherRequest(g, errored)
  BY DEF Elsewhere
<1>2. (spent - wasted)' = spent - wasted
  BY <1>1 DEF OtherRequest, runVars
<1>3. Climb!OtherRequest(g, errored) /\ Serial!OtherRequest(g, errored)
  BY <1>1, <1>2, SameRecorded
     DEF OtherRequest, Climb!OtherRequest, Serial!OtherRequest, runVars, Climb!runVars,
         Serial!runVars, gateVars, Climb!gateVars, Serial!gateVars
<1> QED BY <1>3, SameGates DEF ClimbStep, Climb!Next, Climb!Elsewhere, Serial!Next, Serial!Elsewhere

\* Calls that land, what the harvest bills and standing still are not steps of the climb.
LEMMA RestStutters ==
  ASSUME UNCHANGED <<policy, pc, idx, start, attempts, carried, best, served, hard, earlier,
                     gateVars, outcome, healthVars>>,
         (spent - wasted)' = spent - wasted
  PROVE  UNCHANGED Climb!ladderVars /\ UNCHANGED Serial!ladderVars
BY DEF Climb!ladderVars, Serial!ladderVars, runVars, Climb!runVars, Serial!runVars,
       gateVars, Climb!gateVars, Serial!gateVars, healthVars, Climb!healthVars, Serial!healthVars

-------------------------------------------------------------------------------
(* The tasks.                                                              *)

SomeGraded == \E i \in 1..Len(attempts) : Graded(attempts[i])
StoppedShort == \E i \in 1..Len(attempts) : attempts[i].kind \in {"rejected", "graded"}
Grading == pc \in {"gates", "evaluating"}

Money ==
  /\ spent \in Nat /\ wasted \in Nat /\ gateSpend \in Nat
  /\ carried = 0
  /\ spent # wasted => Grading \/ SomeGraded \/ pc = "gone"

\* Calls are out for rungs of the window that are not attempted yet, the one whose
\* answer is being graded being taken.
TasksInWindow ==
  /\ inflight = [j \in Rung |-> inflight[j]]
  /\ \A j \in Rung : inflight[j] # NoTask =>
       /\ inflight[j] = Running \/ inflight[j] \in Replies(j)
       /\ j \in policy.reachable
       /\ j \in start..(RungEnd - 1) /\ j >= start + Len(attempts) /\ j \in Ahead
  /\ Grading => idx \in Rung /\ inflight[idx] = NoTask
  /\ pc = "done" => Harvested

\* Waste is billed after the loop, and only when it stopped short of its window.
WasteIsLate == wasted # 0 => pc \in {"ran", "done"} /\ StoppedShort

TaskInv == Money /\ TasksInWindow /\ WasteIsLate
SpecInv == Climb!LadderInv /\ TaskInv


-------------------------------------------------------------------------------
\* What the climb's invariant says of the window and of the rung being tried.
LEMMA LadderFacts ==
  ASSUME Climb!LadderInv
  PROVE  /\ policy \in Policies /\ start \in Nat /\ idx \in Nat /\ Len(attempts) \in Nat
         /\ RungEnd \in Nat /\ start < RungEnd /\ RungEnd <= RungCount
         /\ Climb!IsSeq(attempts)
         /\ pc \in {"rung", "calling", "gates", "evaluating", "ran", "done", "gone"}
         /\ pc \in {"rung", "calling"} \/ Grading => idx = start + Len(attempts)
         /\ pc = "calling" => idx < RungEnd
         /\ \A i \in 1..Len(attempts) : attempts[i].rung = start + i - 1
         /\ pc = "ran" => start + Len(attempts) >= RungEnd \/ StoppedShort
<1>1. /\ policy \in Policies /\ start \in Rung /\ idx \in Nat /\ Len(attempts) \in Nat
      /\ Climb!IsSeq(attempts)
      /\ pc \in {"rung", "calling", "gates", "evaluating", "ran", "done", "gone"}
  BY DEF Climb!LadderInv, Climb!Types, Rung, Climb!Rung
<1>2. policy.maxRungs \in Nat \ {0} /\ start \in Nat /\ start < RungCount
  BY <1>1, LadderAssumption, PolicyAssumption DEF Policy, Rung
<1>3. RungEnd \in Nat /\ start < RungEnd /\ RungEnd <= RungCount
  BY <1>2, LadderAssumption DEF RungEnd, Least
<1>4. /\ pc \in {"rung", "calling"} \/ Grading => idx = start + Len(attempts)
      /\ pc = "calling" => idx < RungEnd
      /\ \A i \in 1..Len(attempts) : attempts[i].rung = start + i - 1
  BY SameWindow DEF Climb!LadderInv, Climb!InOrderSoFar, Climb!ClimbsInOrder, Climb!Climbing, Grading
<1>5. pc = "ran" => start + Len(attempts) >= RungEnd \/ StoppedShort
  BY SameWindow DEF Climb!LadderInv, Climb!WindowVisited, StoppedShort
<1> QED BY <1>1, <1>2, <1>3, <1>4, <1>5

\* One more attempt leaves the graded ones and the stops where they were.
LEMMA OneMoreAttempt ==
  ASSUME Climb!IsSeq(attempts), Len(attempts) \in Nat, NEW a, attempts' = Append(attempts, a)
  PROVE  /\ Len(attempts') = Len(attempts) + 1
         /\ SomeGraded => SomeGraded'
         /\ a.kind = "graded" => SomeGraded'
         /\ a.kind \in {"rejected", "graded"} => StoppedShort'
<1>1. /\ Len(attempts') = Len(attempts) + 1
      /\ \A i \in 1..Len(attempts) : attempts'[i] = attempts[i]
      /\ attempts'[Len(attempts) + 1] = a
  BY Climb!AppendAttempt
<1>2. /\ \A i \in 1..Len(attempts) : i \in 1..Len(attempts')
      /\ Len(attempts) + 1 \in 1..Len(attempts')
  BY <1>1
<1> QED BY <1>1, <1>2 DEF SomeGraded, StoppedShort, Graded

\* What a call comes to is told apart from no call and from one that runs.
LEMMA ReplyShape ==
  ASSUME NEW j, NEW r \in Replies(j)
  PROVE  r.kind \in {"unavailable", "overflow", "rejected", "answered"} /\ r.cost \in Nat
<1>1. CASE r \in [from : {j}, kind : {"unavailable", "overflow", "rejected"}, cost : {0}]
  BY <1>1
<1>2. CASE r \in [from : {j}, kind : {"answered"}, cost : CallCosts]
  BY <1>2, GateAssumption
<1> QED BY <1>1, <1>2 DEF Replies

\* The calls ahead of a rung are still ahead when the next is at hand, but for its own.
LEMMA AheadStays ==
  ASSUME idx \in Nat, RungEnd \in Nat, RungEnd' = RungEnd, NEW j \in Ahead,
         idx' = idx \/ (idx' = idx + 1 /\ j # idx)
  PROVE  j \in Ahead'
BY SpeculationAssumption DEF Ahead, Least

LEMMA BeginKeepsTasks ==
  ASSUME SpecInv, Begin PROVE TaskInv'
<1>1. /\ pc = "rung" /\ idx < RungEnd /\ pc' \in {"rung", "calling"}
      /\ UNCHANGED <<policy, start, spent, wasted, carried, gateSpend>>
      /\ \/ UNCHANGED <<attempts, idx>> /\ idx \in policy.reachable
         \/ attempts' = Append(attempts, Failure("unavailable")) /\ idx \notin policy.reachable
  BY DEF Begin, MissingProvider, CallProvider, runVars, gateVars
<1>2. /\ idx \in Nat /\ RungEnd \in Nat /\ RungEnd <= RungCount /\ start \in Nat
      /\ Len(attempts) \in Nat /\ Climb!IsSeq(attempts) /\ idx = start + Len(attempts)
  BY <1>1, LadderFacts DEF SpecInv
<1>3. /\ Len(attempts') \in Nat
      /\ UNCHANGED attempts \/ Len(attempts') = Len(attempts) + 1
      /\ SomeGraded => SomeGraded'
  <2>1. CASE UNCHANGED attempts
    BY <1>2, <2>1 DEF SomeGraded, Graded
  <2>2. CASE attempts' = Append(attempts, Failure("unavailable"))
    BY <1>2, <2>2, OneMoreAttempt
  <2> QED BY <1>1, <2>1, <2>2
<1>4. Money'
  BY <1>1, <1>3 DEF SpecInv, TaskInv, Money, Grading
<1>5. WasteIsLate'
  BY <1>1 DEF SpecInv, TaskInv, WasteIsLate
<1>6. TasksInWindow'
  <2>1. /\ inflight' = [j \in Rung |-> inflight'[j]]
        /\ \A j \in Rung : \/ inflight'[j] = inflight[j]
                           \/ /\ inflight'[j] = Running /\ j \in policy.reachable /\ j \in Ahead
    BY DEF Begin, Fire
  <2>2. RungEnd' = RungEnd
    BY <1>1 DEF RungEnd
  <2>4. idx' = idx \/ (idx' = idx + 1 /\ idx \notin policy.reachable)
    BY DEF Begin, MissingProvider, CallProvider, runVars
  <2>3. ASSUME NEW j \in Rung, inflight'[j] # NoTask
        PROVE  /\ inflight'[j] = Running \/ inflight'[j] \in Replies(j)
               /\ j \in policy'.reachable
               /\ j \in start'..(RungEnd' - 1) /\ j >= start' + Len(attempts') /\ j \in Ahead'
    <3>1. CASE inflight'[j] = Running /\ j \in policy.reachable /\ j \in Ahead
      <4>1. j \in idx..(RungEnd - 1)
        BY <1>2, <3>1, SpeculationAssumption DEF Ahead, Least
      <4>2. j \in Nat /\ (UNCHANGED attempts \/ j # idx)
        BY <1>1, <3>1, <4>1, <1>2
      <4>3. j >= start + Len(attempts')
        BY <1>2, <1>3, <4>1, <4>2
      <4>4. j \in Ahead'
        BY <1>2, <2>2, <2>4, <3>1, <4>1, AheadStays
      <4> QED BY <1>1, <1>2, <2>2, <3>1, <4>1, <4>3, <4>4
    <3>2. CASE inflight'[j] = inflight[j]
      <4>1. /\ inflight[j] = Running \/ inflight[j] \in Replies(j)
            /\ j \in policy.reachable
            /\ j \in start..(RungEnd - 1) /\ j >= start + Len(attempts) /\ j \in Ahead
        BY <2>3, <3>2 DEF SpecInv, TaskInv, TasksInWindow
      <4>2. UNCHANGED attempts \/ j # idx
        BY <1>1, <4>1
      <4>3. j >= start + Len(attempts')
        BY <1>2, <1>3, <4>1, <4>2
      <4>4. j \in Ahead'
        BY <1>2, <2>2, <2>4, <4>1, AheadStays
      <4> QED BY <1>1, <2>2, <3>2, <4>1, <4>3, <4>4
    <3> QED BY <2>1, <3>1, <3>2
  <2> QED BY <1>1, <2>1, <2>3 DEF TasksInWindow, Grading
<1> QED BY <1>4, <1>5, <1>6 DEF TaskInv

LEMMA ReturnKeepsTasks ==
  ASSUME SpecInv, NEW k \in Rung, NEW r \in Replies(k), CallReturns(r) PROVE TaskInv' /\ ClimbStep
<1>1. /\ pc = "calling" /\ inflight[idx] = r /\ inflight' = [inflight EXCEPT ![idx] = NoTask]
      /\ UNCHANGED <<wasted, policy, start, carried>>
  BY DEF CallReturns, Take, CallFails, CallRejected, CallAnswers
<1>2. /\ idx \in Nat /\ RungEnd \in Nat /\ RungEnd <= RungCount /\ start \in Nat
      /\ Len(attempts) \in Nat /\ Climb!IsSeq(attempts) /\ idx = start + Len(attempts)
      /\ idx < RungEnd
  BY <1>1, LadderFacts DEF SpecInv
<1>3. idx \in Rung
  BY <1>2, LadderAssumption DEF Rung
<1>4. r \in Replies(idx) /\ r.cost \in Nat
  <2>1. r.kind \in {"unavailable", "overflow", "rejected", "answered"} /\ r.cost \in Nat
    BY ReplyShape
  <2>2. r # NoTask /\ r # Running
    BY <2>1 DEF NoTask, Running
  <2> QED BY <1>1, <1>3, <2>1, <2>2 DEF SpecInv, TaskInv, TasksInWindow
<1>5. ClimbStep
  BY <1>1, <1>4, CallMaps DEF CallReturns, SpecInv, TaskInv, Money
<1>6. /\ wasted = 0 /\ UNCHANGED RungEnd
  BY <1>1 DEF SpecInv, TaskInv, WasteIsLate, RungEnd
<1>7. /\ inflight' = [j \in Rung |-> inflight'[j]] /\ inflight'[idx] = NoTask
      /\ \A j \in Rung : j # idx => inflight'[j] = inflight[j]
  BY <1>1, <1>3 DEF SpecInv, TaskInv, TasksInWindow
<1>8. /\ \/ /\ UNCHANGED <<attempts, idx>> /\ pc' = "gates" /\ spent' = spent + r.cost
            /\ gateSpend' = 0
         \/ /\ \E kind : attempts' = Append(attempts, Failure(kind))
            /\ pc' \in {"rung", "ran"} /\ UNCHANGED <<spent, gateSpend>>
  BY DEF CallReturns, CallFails, CallRejected, CallAnswers, gateVars
<1>9. /\ Len(attempts') \in Nat
      /\ UNCHANGED attempts \/ Len(attempts') = Len(attempts) + 1
      /\ SomeGraded => SomeGraded'
  <2>1. CASE UNCHANGED attempts
    BY <1>2, <2>1 DEF SomeGraded, Graded
  <2>2. ASSUME NEW kind, attempts' = Append(attempts, Failure(kind))
        PROVE  Len(attempts') = Len(attempts) + 1 /\ (SomeGraded => SomeGraded')
    BY <1>2, <2>2, OneMoreAttempt
  <2> QED BY <1>2, <1>8, <2>1, <2>2
<1>10. Money'
  BY <1>1, <1>4, <1>8, <1>9 DEF SpecInv, TaskInv, Money, Grading
<1>11. WasteIsLate'
  BY <1>1, <1>6 DEF WasteIsLate
<1>12. TasksInWindow'
  <2>1. ASSUME NEW j \in Rung, inflight'[j] # NoTask
        PROVE  /\ inflight'[j] = Running \/ inflight'[j] \in Replies(j)
               /\ j \in policy'.reachable
               /\ j \in start'..(RungEnd' - 1) /\ j >= start' + Len(attempts') /\ j \in Ahead'
    <3>1. j # idx /\ inflight'[j] = inflight[j]
      BY <1>7, <2>1
    <3>2. /\ inflight[j] = Running \/ inflight[j] \in Replies(j)
          /\ j \in policy.reachable
          /\ j \in start..(RungEnd - 1) /\ j >= start + Len(attempts) /\ j \in Ahead
      BY <2>1, <3>1 DEF SpecInv, TaskInv, TasksInWindow
    <3>3. j >= start + Len(attempts')
      BY <1>2, <1>9, <3>1, <3>2
    <3>4. idx' = idx \/ idx' = idx + 1
      BY DEF CallReturns, CallFails, CallRejected, CallAnswers
    <3>5. j \in Ahead'
      BY <1>2, <1>6, <3>1, <3>2, <3>4, AheadStays
    <3> QED BY <1>1, <1>6, <3>1, <3>2, <3>3, <3>5
  <2>2. Grading' => idx' \in Rung /\ inflight'[idx'] = NoTask
    BY <1>3, <1>7, <1>8 DEF Grading
  <2>3. pc' # "done"
    BY <1>8
  <2> QED BY <1>7, <2>1, <2>2, <2>3 DEF TasksInWindow
<1> QED BY <1>5, <1>10, <1>11, <1>12 DEF TaskInv

\* The loop's own steps but Grade leave the attempts, the tasks and the budget alone.
LEMMA EvaluationKeepsTasks ==
  ASSUME SpecInv, LadderExhausted \/ Evaluation, UNCHANGED tasks PROVE TaskInv' /\ ClimbStep
<1>1. /\ UNCHANGED <<wasted, inflight, policy, start, carried>>
      /\ spent \in Nat /\ gateSpend \in Nat /\ carried = 0
  BY DEF SpecInv, TaskInv, Money, tasks, LadderExhausted, Evaluation, SkipGate, StartGate, Classify,
         Grade, GateAnswers, runVars
<1>2. pc = "rung" \/ Grading
  BY DEF LadderExhausted, Evaluation, SkipGate, StartGate, Classify, Grade, GateAnswers, Grading
<1>3. wasted = 0 /\ UNCHANGED RungEnd
  BY <1>1, <1>2 DEF SpecInv, TaskInv, WasteIsLate, Grading, RungEnd
<1>4. ClimbStep
  BY <1>1, <1>3, EvaluationMaps
<1>5. WasteIsLate'
  BY <1>1, <1>3 DEF WasteIsLate
<1>6. CASE Grade
  <2> PICK a : attempts' = Append(attempts, a) /\ a.kind = "graded"
    BY <1>6 DEF Grade
  <2>1. /\ Grading /\ Len(attempts) \in Nat /\ Climb!IsSeq(attempts) /\ idx = start + Len(attempts)
        /\ start \in Nat
    BY <1>6, LadderFacts DEF SpecInv, Grade, Grading
  <2>2. Len(attempts') = Len(attempts) + 1 /\ SomeGraded'
    BY <2>1, OneMoreAttempt
  <2>3. Money'
    BY <1>1, <1>6, <2>2 DEF SpecInv, TaskInv, Money, Grade
  <2>4. pc' \in {"rung", "ran"}
    BY <1>6 DEF Grade
  <2>5. ASSUME NEW j \in Rung, inflight'[j] # NoTask
        PROVE  /\ inflight'[j] = Running \/ inflight'[j] \in Replies(j)
               /\ j \in policy'.reachable
               /\ j \in start'..(RungEnd' - 1) /\ j >= start' + Len(attempts') /\ j \in Ahead'
    <3>1. /\ inflight[j] = Running \/ inflight[j] \in Replies(j)
          /\ j \in policy.reachable
          /\ j \in start..(RungEnd - 1) /\ j >= start + Len(attempts) /\ j # idx /\ j \in Ahead
      BY <1>1, <2>1, <2>5 DEF SpecInv, TaskInv, TasksInWindow
    <3>2. idx' = idx \/ idx' = idx + 1
      BY <1>6 DEF Grade
    <3>3. idx \in Nat /\ RungEnd \in Nat
      BY LadderFacts DEF SpecInv
    <3>4. j \in Ahead'
      BY <1>3, <3>1, <3>2, <3>3, AheadStays
    <3>5. j \in start'..(RungEnd' - 1) /\ j >= start' + Len(attempts')
      BY <1>1, <1>3, <2>1, <2>2, <3>1, <3>3
    <3> QED BY <1>1, <3>1, <3>4, <3>5
  <2>6. TasksInWindow'
    BY <1>1, <2>4, <2>5 DEF SpecInv, TaskInv, TasksInWindow, Grading
  <2> QED BY <1>4, <1>5, <2>3, <2>6 DEF TaskInv
<1>7. CASE ~Grade
  <2>1. UNCHANGED <<attempts, idx, spent>>
    BY <1>7 DEF LadderExhausted, Evaluation, SkipGate, StartGate, Classify, GateAnswers, runVars
  <2>5. gateSpend' \in Nat
    <3>1. ASSUME NEW a \in Answers, NEW c \in GateCosts, GateAnswers(a, c)
          PROVE  gateSpend' \in Nat
      BY <1>1, <3>1, GateAssumption DEF GateAnswers
    <3>2. CASE LadderExhausted \/ SkipGate \/ StartGate \/ Classify
      BY <1>1, <3>2 DEF LadderExhausted, SkipGate, StartGate, Classify, gateVars
    <3> QED BY <1>7, <3>1, <3>2 DEF Evaluation
  <2>2. /\ pc' \in {"rung", "gates", "evaluating", "ran"}
        /\ Grading => Grading'
        /\ Grading' => Grading
    BY <1>7 DEF LadderExhausted, Evaluation, SkipGate, StartGate, Classify, GateAnswers, Grading
  <2>7. pc # "gone" /\ (SomeGraded <=> SomeGraded')
    BY <1>2, <2>1 DEF Grading, SomeGraded, Graded
  <2>3. Money'
    BY <1>1, <2>1, <2>2, <2>5, <2>7 DEF SpecInv, TaskInv, Money
  <2>6. UNCHANGED Ahead
    BY <1>3, <2>1 DEF Ahead
  <2>4. TasksInWindow'
    BY <1>1, <1>3, <2>1, <2>2, <2>6 DEF SpecInv, TaskInv, TasksInWindow
  <2> QED BY <1>4, <1>5, <2>3, <2>4 DEF TaskInv
<1> QED BY <1>6, <1>7

\* A call is billed for nothing only when the climb stopped short of its rung.
LEMMA HarvestKeepsTasks ==
  ASSUME SpecInv, NEW k \in Rung, Harvest(k)
  PROVE  TaskInv' /\ UNCHANGED Climb!ladderVars /\ UNCHANGED Serial!ladderVars
<1>1. /\ pc = "ran" /\ inflight[k] # NoTask /\ inflight' = [inflight EXCEPT ![k] = NoTask]
      /\ spent' = spent + inflight[k].cost /\ wasted' = wasted + inflight[k].cost
      /\ UNCHANGED <<policy, pc, idx, start, attempts, carried, gateSpend>>
  BY DEF Harvest, gateVars
<1>2. /\ spent \in Nat /\ wasted \in Nat /\ inflight[k].cost \in Nat
      /\ k \in start..(RungEnd - 1) /\ k >= start + Len(attempts)
  BY <1>1, ReplyShape DEF SpecInv, TaskInv, Money, TasksInWindow, Running
<1>3. StoppedShort /\ Len(attempts) \in Nat /\ start \in Nat /\ RungEnd \in Nat
  BY <1>1, <1>2, LadderFacts DEF SpecInv
<1>4. (spent - wasted)' = spent - wasted /\ (spent' # wasted' => spent # wasted)
  BY <1>1, <1>2
<1>5. UNCHANGED Climb!ladderVars /\ UNCHANGED Serial!ladderVars
  BY <1>4, RestStutters DEF Harvest
<1>6. Money'
  <2>1. (SomeGraded <=> SomeGraded') /\ (Grading <=> Grading')
    BY <1>1 DEF SomeGraded, Graded, Grading
  <2>2. spent' \in Nat /\ wasted' \in Nat /\ gateSpend' \in Nat /\ carried' = 0
    BY <1>1, <1>2 DEF SpecInv, TaskInv, Money
  <2> QED BY <1>1, <1>4, <2>1, <2>2 DEF SpecInv, TaskInv, Money
<1>7. WasteIsLate'
  BY <1>1, <1>3 DEF WasteIsLate, StoppedShort
<1>8. UNCHANGED <<RungEnd, Ahead>>
  BY <1>1 DEF RungEnd, Ahead
<1>9. TasksInWindow'
  BY <1>1, <1>8 DEF SpecInv, TaskInv, TasksInWindow, Grading
<1> QED BY <1>5, <1>6, <1>7, <1>9 DEF TaskInv

\* A run condenses only with nothing graded, so with nothing spent or wasted.
LEMMA SettlementKeepsTasks ==
  ASSUME SpecInv, Harvested, Settlement, UNCHANGED tasks PROVE TaskInv' /\ ClimbStep
<1>1. /\ UNCHANGED <<inflight, wasted, policy, gateSpend>> /\ pc = "ran"
      /\ spent \in Nat /\ wasted \in Nat
  BY DEF SpecInv, TaskInv, Money, tasks, Settlement, Condense, ServeCleared, ServeBest, FailRequest, Settle, runVars,
         gateVars
<1>2. MayCondense => wasted = 0 /\ spent = 0
  BY <1>1 DEF MayCondense, Overflowed, SpecInv, TaskInv, Money, WasteIsLate, StoppedShort, SomeGraded,
              Graded, Grading
<1>3. ClimbStep
  BY <1>1, <1>2, SettlementMaps
<1>4. TasksInWindow'
  BY <1>1 DEF Harvested, TasksInWindow, Settlement, Condense, ServeCleared, ServeBest, FailRequest,
              Settle, Grading, SpecInv, TaskInv
<1>5. CASE Condense
  <2>1. spent' = 0 /\ carried' = 0 /\ wasted' = 0
    BY <1>1, <1>2, <1>5 DEF Condense, SpecInv, TaskInv, Money
  <2> QED BY <1>1, <1>3, <1>4, <2>1 DEF TaskInv, SpecInv, Money, WasteIsLate
<1>6. CASE ServeCleared \/ ServeBest \/ FailRequest
  <2>1. UNCHANGED <<attempts, spent, carried>> /\ pc' = "done"
    BY <1>6 DEF ServeCleared, ServeBest, FailRequest, Settle, runVars
  <2> QED BY <1>1, <1>3, <1>4, <2>1 DEF TaskInv, SpecInv, Money, WasteIsLate, StoppedShort, SomeGraded,
                                        Graded, Grading
<1> QED BY <1>5, <1>6 DEF Settlement

LEMMA LandsKeepsTasks ==
  ASSUME SpecInv, NEW k \in Rung, NEW r \in Replies(k), Lands(k, r)
  PROVE  TaskInv' /\ UNCHANGED Climb!ladderVars /\ UNCHANGED Serial!ladderVars
<1>1. /\ inflight[k] = Running /\ inflight' = [inflight EXCEPT ![k] = r]
      /\ UNCHANGED <<ladderVars, wasted>>
  BY DEF Lands
<1>2. /\ UNCHANGED <<pc, policy, idx, start, attempts, spent, carried, gateSpend>>
      /\ UNCHANGED <<best, served, hard, earlier, gateVars, outcome, healthVars>>
  BY <1>1 DEF ladderVars, runVars, gateVars
<1>3. UNCHANGED Climb!ladderVars /\ UNCHANGED Serial!ladderVars
  BY <1>1, <1>2, RestStutters
<1>4. UNCHANGED <<RungEnd, Ahead>> /\ Running # NoTask
  BY <1>2 DEF RungEnd, Ahead, Running, NoTask
<1>5. Money' /\ WasteIsLate'
  BY <1>1, <1>2 DEF SpecInv, TaskInv, Money, WasteIsLate, StoppedShort, SomeGraded, Graded, Grading
<1>6. TasksInWindow'
  BY <1>1, <1>2, <1>4 DEF SpecInv, TaskInv, TasksInWindow, Grading, Harvested
<1> QED BY <1>3, <1>5, <1>6 DEF TaskInv

\* A run that is dropped leaves its tasks as they are, and has billed no waste.
LEMMA AbandonKeepsTasks ==
  ASSUME SpecInv, Abandon, UNCHANGED tasks PROVE TaskInv' /\ ClimbStep
<1>1. /\ pc \in {"calling", "evaluating"} /\ pc' = "gone"
      /\ UNCHANGED <<policy, idx, start, attempts, spent, carried, gateSpend, inflight, wasted>>
  BY DEF Abandon, tasks, runVars, gateVars
<1>2. wasted = 0
  BY <1>1 DEF SpecInv, TaskInv, WasteIsLate
<1>3. UNCHANGED <<RungEnd, Ahead>>
  BY <1>1 DEF RungEnd, Ahead
<1>4. Money' /\ WasteIsLate'
  BY <1>1, <1>2 DEF SpecInv, TaskInv, Money, WasteIsLate, SomeGraded, Graded
<1>5. TasksInWindow'
  BY <1>1, <1>3 DEF SpecInv, TaskInv, TasksInWindow, Grading
<1>6. (spent - wasted)' = spent - wasted
  BY <1>1
<1>7. Climb!Abandon /\ Serial!Abandon
  BY <1>1, <1>6 DEF Abandon, Climb!Abandon, Serial!Abandon, runVars, Climb!runVars, Serial!runVars,
     gateVars, Climb!gateVars, Serial!gateVars, healthVars, Climb!healthVars, Serial!healthVars
<1>8. ClimbStep
  BY <1>7 DEF ClimbStep, Climb!Next, Serial!Next
<1> QED BY <1>4, <1>5, <1>8 DEF TaskInv

LEMMA RestKeepsTasks ==
  ASSUME SpecInv, \/ Elsewhere /\ UNCHANGED tasks
                  \/ UNCHANGED vars
  PROVE  TaskInv' /\ (ClimbStep \/ UNCHANGED <<Climb!ladderVars, Serial!ladderVars>>)
<1>1. /\ UNCHANGED <<pc, policy, idx, start, attempts, spent, carried, gateSpend, inflight, wasted>>
  BY DEF Elsewhere, OtherRequest, vars, ladderVars, tasks, runVars, gateVars
<1>2. UNCHANGED <<RungEnd, Ahead>>
  BY <1>1 DEF RungEnd, Ahead
<1>3. TaskInv'
  BY <1>1, <1>2 DEF SpecInv, TaskInv, Money, WasteIsLate, TasksInWindow, StoppedShort, SomeGraded,
                    Graded, Grading, Harvested
<1>4. UNCHANGED vars => UNCHANGED <<Climb!ladderVars, Serial!ladderVars>>
  BY <1>1, RestStutters DEF vars, ladderVars, runVars
<1>5. Elsewhere => ClimbStep
  BY <1>1, ElsewhereMaps
<1> QED BY <1>3, <1>4, <1>5

-------------------------------------------------------------------------------
LEMMA InitMaps == InitSpeculative => Climb!Init /\ Serial!Init /\ TaskInv
<1> SUFFICES ASSUME InitSpeculative PROVE Climb!Init /\ Serial!Init /\ TaskInv
  OBVIOUS
<1>1. /\ Init /\ wasted = 0 /\ spent = 0 /\ spent - wasted = 0 /\ attempts = <<>> /\ pc = "rung"
      /\ inflight = [j \in Rung |-> NoTask] /\ gateSpend = 0 /\ carried = 0
  BY DEF InitSpeculative, Init
<1>2. /\ \A s : Climb!ClampedStart(s) = ClampedStart(s) /\ Serial!ClampedStart(s) = ClampedStart(s)
      /\ Climb!NewHealth = NewHealth /\ Serial!NewHealth = NewHealth
  BY DEF ClampedStart, Climb!ClampedStart, Serial!ClampedStart, Least, Climb!Least, Serial!Least,
         NewHealth, Climb!NewHealth, Serial!NewHealth
<1>3. Climb!Init /\ Serial!Init
  BY <1>1, <1>2, SameGates DEF Init, Climb!Init, Serial!Init
<1>4. TaskInv
  BY <1>1 DEF TaskInv, Money, TasksInWindow, WasteIsLate, Grading
<1> QED BY <1>3, <1>4

\* The serial climb's invariant is one of any behavior seen as a serial climb.
LEMMA ClimbKeepsLadder ==
  /\ Climb!Init => Climb!LadderInv
  /\ Climb!LadderInv /\ [Climb!Next]_(Climb!ladderVars) => Climb!LadderInv'
<1> USE LadderAssumption, PolicyAssumption, GateAssumption, WindowAssumption, MaxErrorsAssumption
        DEF Policy, Climb!Policy, Rung, Climb!Rung, Score, Climb!Score, Verdict, Climb!Verdict
<1>1. Climb!Init => Climb!LadderInv
  BY Climb!InitLadder
<1>2. Climb!LadderInv /\ [Climb!Next]_(Climb!ladderVars) => Climb!LadderInv'
  BY Climb!NextLadder
<1> QED BY <1>1, <1>2

LEMMA ClimbServesTheRightAnswer == Climb!Spec => []Climb!ServesTheRightAnswer
<1> USE LadderAssumption, PolicyAssumption, GateAssumption, WindowAssumption, MaxErrorsAssumption
        DEF Policy, Climb!Policy, Rung, Climb!Rung, Score, Climb!Score, Verdict, Climb!Verdict
<1> QED BY Climb!ServesTheRightAnswerAlways

\* Every step is a step of the climb or leaves it alone, and keeps the invariant.
LEMMA NextMaps ==
  SpecInv /\ [Next]_vars =>
    /\ TaskInv' /\ Climb!LadderInv'
    /\ [Climb!Next]_(Climb!ladderVars) /\ [Serial!Next]_(Serial!ladderVars)
<1> SUFFICES ASSUME SpecInv, [Next]_vars
             PROVE  /\ TaskInv' /\ Climb!LadderInv'
                    /\ [Climb!Next]_(Climb!ladderVars) /\ [Serial!Next]_(Serial!ladderVars)
  OBVIOUS
<1>1. TaskInv' /\ (ClimbStep \/ UNCHANGED <<Climb!ladderVars, Serial!ladderVars>>)
  <2>1. CASE Begin
    BY <2>1, BeginKeepsTasks, BeginMaps DEF Begin
  <2>2. ASSUME NEW j \in Rung, NEW r \in Replies(j), CallReturns(r)
        PROVE  TaskInv' /\ ClimbStep
    BY <2>2, ReturnKeepsTasks
  <2>3. CASE (LadderExhausted \/ Evaluation) /\ UNCHANGED tasks
    BY <2>3, EvaluationKeepsTasks
  <2>4. ASSUME NEW j \in Rung, Harvest(j)
        PROVE  TaskInv' /\ UNCHANGED <<Climb!ladderVars, Serial!ladderVars>>
    BY <2>4, HarvestKeepsTasks
  <2>5. CASE Harvested /\ Settlement /\ UNCHANGED tasks
    BY <2>5, SettlementKeepsTasks
  <2>6. ASSUME NEW j \in Rung, NEW r \in Replies(j), Lands(j, r)
        PROVE  TaskInv' /\ UNCHANGED <<Climb!ladderVars, Serial!ladderVars>>
    BY <2>6, LandsKeepsTasks
  <2>7. CASE Elsewhere /\ UNCHANGED tasks
    BY <2>7, RestKeepsTasks
  <2>8. CASE UNCHANGED vars
    BY <2>8, RestKeepsTasks
  <2>9. CASE Finished /\ UNCHANGED tasks
    BY <2>8, <2>9 DEF Finished, vars
  <2>10. CASE Abandon /\ UNCHANGED tasks
    BY <2>10, AbandonKeepsTasks
  <2> QED BY <2>1, <2>2, <2>3, <2>4, <2>5, <2>6, <2>7, <2>8, <2>9, <2>10 DEF Next, Step, Landing
<1>2. [Climb!Next]_(Climb!ladderVars) /\ [Serial!Next]_(Serial!ladderVars)
  BY <1>1 DEF ClimbStep
<1>3. Climb!LadderInv'
  BY <1>2, ClimbKeepsLadder DEF SpecInv
<1> QED BY <1>1, <1>2, <1>3

LEMMA SpecInvariant == Spec => []SpecInv
<1>1. InitSpeculative => SpecInv
  BY InitMaps, ClimbKeepsLadder DEF SpecInv
<1>2. SpecInv /\ [Next]_vars => SpecInv'
  BY NextMaps DEF SpecInv
<1> QED BY <1>1, <1>2, PTL DEF Spec

-------------------------------------------------------------------------------
\* Speculation changes nothing but latency and waste: for any number of calls ahead, ended
\* in any order, what a client and an auditor see is a behavior of the serial engine
\* (run_speculative's own claim).
THEOREM SpeculativeImplementsSerial == Spec => ImplementsSerial
<1>1. InitSpeculative => Serial!Init
  BY InitMaps
<1>2. SpecInv /\ [Next]_vars => [Serial!Next]_(Serial!ladderVars)
  BY NextMaps
<1> QED BY <1>1, <1>2, SpecInvariant, PTL DEF Spec, ImplementsSerial, Serial!Spec

\* No rung is called twice in a run, and none but the rung at hand and those ahead of it,
\* however calls and grading interleave: a run that ends leaves no call behind, one that
\* is dropped no more than these, and bills none (spawn_rung, the harvest).
THEOREM InFlightStaysInWindow == Spec => []InFlightInWindow
<1>1. SpecInv => InFlightInWindow
  <2> SUFFICES ASSUME SpecInv PROVE InFlightInWindow
    OBVIOUS
  <2>1. ASSUME NEW j \in Rung, inflight[j] # NoTask
        PROVE  /\ j \in Ahead
               /\ \A i \in 1..Len(attempts) : attempts[i].rung # j
    <3>1. j \in start..(RungEnd - 1) /\ j >= start + Len(attempts) /\ j \in Ahead
      BY <2>1 DEF SpecInv, TaskInv, TasksInWindow
    <3>2. /\ start \in Nat /\ Len(attempts) \in Nat /\ RungEnd \in Nat
          /\ \A i \in 1..Len(attempts) : attempts[i].rung = start + i - 1
      BY LadderFacts DEF SpecInv
    <3> QED BY <3>1, <3>2
  <2>2. (pc = "done" => Harvested) /\ (pc = "gone" => wasted = 0)
    BY DEF SpecInv, TaskInv, TasksInWindow, WasteIsLate
  <2> QED BY <2>1, <2>2 DEF InFlightInWindow
<1> QED BY <1>1, SpecInvariant, PTL

\* The condensed retry starts with nothing spent: a run that overflowed everywhere was
\* billed for nothing, calls ahead included (run_ladder carries spent_usd over).
THEOREM CondensingNeverCarriesSpend == Spec => []CondensingCarriesNoSpend
<1>1. SpecInv => CondensingCarriesNoSpend
  BY DEF SpecInv, TaskInv, Money, CondensingCarriesNoSpend
<1> QED BY <1>1, SpecInvariant, PTL

\* The receipt of a speculative run shows the climb a serial one would show.
THEOREM SpeculativeClimbsInOrder == Spec => []ClimbsInOrder
<1>1. Climb!LadderInv => Climb!ClimbsInOrder
  BY DEF Climb!LadderInv, Climb!InOrderSoFar
<1>2. Climb!ClimbsInOrder => ClimbsInOrder
  BY SameVerdict DEF Climb!ClimbsInOrder, ClimbsInOrder
<1>3. SpecInv => ClimbsInOrder
  BY <1>1, <1>2 DEF SpecInv
<1> QED BY <1>3, SpecInvariant, PTL

\* So does the answer the client gets: the first that clears, else the highest rung's.
THEOREM SpeculativeServesTheRightAnswer == Spec => []ServesTheRightAnswer
<1>1. Spec => Climb!Spec
  <2>1. InitSpeculative => Climb!Init
    BY InitMaps
  <2>2. SpecInv /\ [Next]_vars => [Climb!Next]_(Climb!ladderVars)
    BY NextMaps
  <2> QED BY <2>1, <2>2, SpecInvariant, PTL DEF Spec, Climb!Spec
<1>2. Climb!Spec => []Climb!ServesTheRightAnswer
  BY ClimbServesTheRightAnswer
<1>3. Climb!ServesTheRightAnswer => ServesTheRightAnswer
  BY SameVerdict DEF Climb!ServesTheRightAnswer, ServesTheRightAnswer
<1> QED BY <1>1, <1>2, <1>3, PTL

\* No rung is graded next once what the climb spent has reached the cap.
THEOREM SpeculativeBudgetStopsTheClimb == Spec => []BudgetStopsTheClimb
<1>1. SpecInv => BudgetStopsTheClimb
  <2> SUFFICES ASSUME SpecInv, pc = "calling", \E i \in 1..Len(attempts) : Graded(attempts[i])
               PROVE  ~CapReached(spent)
    BY DEF BudgetStopsTheClimb
  <2>1. spent \in Nat /\ wasted = 0
    BY DEF SpecInv, TaskInv, Money, WasteIsLate
  <2>2. Climb!SomeGraded /\ idx < Climb!RungEnd
    BY SameVerdict, SameWindow, LadderFacts DEF SpecInv, Climb!SomeGraded
  <2>3. ~Climb!CapReached(spent - wasted)
    BY <2>2 DEF SpecInv, Climb!LadderInv, Climb!WithinBudget
  <2> QED BY <2>1, <2>3 DEF Climb!CapReached, CapReached
<1> QED BY <1>1, SpecInvariant, PTL

\* And it is condensed only after every rung of its window said that it does not fit.
THEOREM SpeculativeCondensesAfterOverflow == Spec => []CondensedAfterOverflow
<1>1. Climb!LadderInv => Climb!CondensedAfterOverflow
  BY DEF Climb!LadderInv, Climb!WindowVisited
<1>2. Climb!CondensedAfterOverflow => CondensedAfterOverflow
  BY SameCondensing DEF Climb!CondensedAfterOverflow, CondensedAfterOverflow, Climb!ClampedStart,
     ClampedStart, Climb!Least, Least, Climb!SaidTooLong, SaidTooLong
<1>3. SpecInv => CondensedAfterOverflow
  BY <1>1, <1>2 DEF SpecInv
<1> QED BY <1>3, SpecInvariant, PTL
===============================================================================
