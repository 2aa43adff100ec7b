-------------------------------- MODULE Ladder --------------------------------
(***************************************************************************)
(* What the two enforce engines of router.rs share: the state of a run     *)
(* (LadderRun), gate evaluation, the serve decision, last-resort           *)
(* condensing and the tail of route_enforce.  Rungs count from 0, cheapest *)
(* first.  Money is counted in units, scores in steps of 1/ScoreMax.       *)
(* SerialLadder and SpeculativeLadder add how rungs are called.            *)
(***************************************************************************)
EXTENDS Integers, GateHealth

CONSTANTS
  RungCount,   \* ladder.len()
  Policies,    \* what a request may be routed under
  None,        \* an option left unset; a gate result without a score
  GateOrder,   \* the route's gates, in order
  FailClosed,  \* those with on_abstain = "fail_closed"
  Budgeted,    \* those with a registered error budget
  Expensive,   \* elastic.expensive_gates
  ScoreMax,
  Answers,     \* what a gate may answer: [verdict, score]
  CallCosts, GateCosts,
  MaxOthers    \* bound on outcomes other requests record meanwhile

Rung == 0..(RungCount - 1)
Gate == {GateOrder[i] : i \in 1..Len(GateOrder)}
Score == (0..ScoreMax) \cup {None}
Verdict == {"pass", "fail", "abstain"}

\* The rungs whose provider is registered, start_rung, max_rungs,
\* budget_per_request_usd, serve_threshold, elastic.lambda (None: elastic is off),
\* and whether condense is configured and has turns to drop.
Policy == [reachable : SUBSET Rung, startRung : Nat, maxRungs : Nat \ {0},
           cap : Nat \cup {None}, threshold : Score, lambda : Score, condensable : BOOLEAN]

ASSUME LadderAssumption == RungCount \in Nat \ {0}
ASSUME PolicyAssumption == Policies \subseteq Policy /\ None \notin Nat
ASSUME GateAssumption ==
  /\ ScoreMax \in Nat \ {0}
  /\ Answers \subseteq [verdict : Verdict, score : Score]
  /\ CallCosts \subseteq Nat /\ GateCosts \subseteq Nat /\ MaxOthers \in Nat

VARIABLES
  policy,    \* how this request is routed
  pc,        \* where the request is
  idx,       \* the rung being tried
  start,     \* the first rung of this run
  attempts,  \* the attempts of this run
  spent,     \* USD of this run
  carried,   \* USD of the run that overflowed
  best,      \* rung of the latest gradable answer of this run, or -1
  served,    \* rung that cleared, or -1
  hard,      \* a provider rejected the request itself
  earlier,   \* the attempts of the run that overflowed, before the condensed retry
  answer,    \* rung whose answer is being graded
  todo,      \* gates still to evaluate on it, as positions in GateOrder
  results,   \* gate results on the current answer
  skipped,   \* history: gates of that answer found out of budget when their turn came
  gateSpend, \* what they cost
  action,    \* elastic decision on the current answer
  outcome,   \* what route_enforce returns
  health,    \* per-gate error budgets, shared by all requests of the tenant
  others     \* outcomes recorded by other requests

runVars == <<policy, idx, start, attempts, spent, carried, best, served, hard, earlier>>
gateVars == <<answer, todo, results, skipped, gateSpend, action>>
healthVars == <<health, others>>
ladderVars == <<pc, runVars, gateVars, outcome, healthVars>>

-------------------------------------------------------------------------------
(* Pure rules.                                                             *)

Least(a, b) == IF a <= b THEN a ELSE b

\* start_rung is clamped to the ladder; max_rungs counts rungs from there.
ClampedStart(s) == Least(s, RungCount - 1)
\* Mutant: max_rungs is not cut to the rungs that are left.
RungEndUncut == start + policy.maxRungs
RungEnd == start + Least(policy.maxRungs, RungCount - start)

Elastic == policy.lambda # None
\* Gates are evaluated in the route's order: the next is the first still to do.
VisibleGates == {i \in 1..Len(GateOrder) : Elastic => GateOrder[i] \notin Expensive}
ExpensiveGates == {i \in 1..Len(GateOrder) : GateOrder[i] \in Expensive}
Foremost == CHOOSE i \in todo : \A k \in todo : i <= k
NextGate == GateOrder[Foremost]

\* aggregate_with_policy: a Fail or a fail-closed abstain blocks; nothing else does.
Blocking(r) ==
  r.verdict = "fail" \/ (r.verdict = "abstain" /\ r.gate \in FailClosed)
Aggregate(rs) ==
  IF \E i \in 1..Len(rs) : Blocking(rs[i]) THEN "fail" ELSE "pass"

\* gate_score: the mean of the numeric scores, or the verdict when there is none.
Scored(rs) == {i \in 1..Len(rs) : rs[i].score # None}
Total(rs) == Cardinality({p \in Scored(rs) \X (1..ScoreMax) : p[2] <= rs[p[1]].score})
ScoreAtLeast(rs, t) ==
  IF Scored(rs) = {} THEN (IF Aggregate(rs) = "pass" THEN ScoreMax ELSE 0) >= t
  ELSE Total(rs) >= t * Cardinality(Scored(rs))
ScoreAtFloor(rs) ==
  IF Scored(rs) = {} THEN Aggregate(rs) # "pass" ELSE Total(rs) = 0

\* should_serve: a calibrated threshold replaces the verdict.
ShouldServe(rs) ==
  IF policy.threshold # None THEN ScoreAtLeast(rs, policy.threshold) ELSE Aggregate(rs) = "pass"

\* What a call to a provider comes to: a failover (transport error, 5xx, a task
\* that panicked), a prompt too long for this rung, a rejected request, an answer.
Replies(j) ==
  [from : {j}, kind : {"unavailable", "overflow", "rejected"}, cost : {0}]
    \cup [from : {j}, kind : {"answered"}, cost : CallCosts]
Actions == {"none", "serve_skip", "escalate_now", "verified"}

Failure(kind) ==
  [rung |-> idx, kind |-> kind, answer |-> -1, results |-> <<>>, action |-> "none"]
Graded(a) == a.kind = "graded"
Clears(a) == a.action = "serve_skip" \/ ShouldServe(a.results)

-------------------------------------------------------------------------------
Init ==
  /\ policy \in Policies
  /\ pc = "rung" /\ start = ClampedStart(policy.startRung) /\ idx = start
  /\ attempts = <<>> /\ spent = 0 /\ carried = 0
  /\ best = -1 /\ served = -1 /\ hard = FALSE /\ earlier = <<>>
  /\ answer = -1 /\ todo = {} /\ results = <<>> /\ skipped = {}
  /\ gateSpend = 0 /\ action = "none"
  /\ outcome = [from |-> "none", rung |-> -1]
  /\ health = [g \in Gate |-> NewHealth] /\ others = 0

\* The rung names no registered provider: recorded, and the next rung is tried.
MissingProvider ==
  /\ pc = "rung" /\ idx < RungEnd /\ idx \notin policy.reachable
  /\ attempts' = Append(attempts, Failure("unavailable"))
  /\ idx' = idx + 1
  /\ UNCHANGED <<policy, pc, start, spent, carried, best, served, hard, earlier,
                 gateVars, outcome, healthVars>>

CallProvider ==
  /\ pc = "rung" /\ idx < RungEnd /\ idx \in policy.reachable
  /\ pc' = "calling"
  /\ UNCHANGED <<runVars, gateVars, outcome, healthVars>>

LadderExhausted ==
  /\ pc = "rung" /\ idx >= RungEnd
  /\ pc' = "ran"
  /\ UNCHANGED <<runVars, gateVars, outcome, healthVars>>

\* A failover-eligible error or an overflow: the ladder climbs.
\* Mutant: the answer a lower rung gave is forgotten.
CallFailsOverwriting(r) ==
  /\ pc = "calling" /\ r.kind \in {"unavailable", "overflow"}
  /\ attempts' = Append(attempts, Failure(r.kind))
  /\ idx' = idx + 1 /\ pc' = "rung" /\ best' = -1
  /\ UNCHANGED <<policy, start, spent, carried, served, hard, earlier,
                 gateVars, outcome, healthVars>>
CallFails(r) ==
  /\ pc = "calling" /\ r.kind \in {"unavailable", "overflow"}
  /\ attempts' = Append(attempts, Failure(r.kind))
  /\ idx' = idx + 1 /\ pc' = "rung"
  /\ UNCHANGED <<policy, start, spent, carried, best, served, hard, earlier,
                 gateVars, outcome, healthVars>>

\* Any other rejection: the request is the problem, the ladder stops.
\* Mutant: it climbs.
CallRejectedClimbs(r) ==
  /\ pc = "calling" /\ r.kind = "rejected"
  /\ attempts' = Append(attempts, Failure("rejected")) /\ hard' = TRUE
  /\ idx' = idx + 1 /\ pc' = "rung"
  /\ UNCHANGED <<policy, start, spent, carried, best, served, earlier,
                 gateVars, outcome, healthVars>>
CallRejected(r) ==
  /\ pc = "calling" /\ r.kind = "rejected"
  /\ attempts' = Append(attempts, Failure("rejected")) /\ hard' = TRUE
  /\ pc' = "ran"
  /\ UNCHANGED <<policy, idx, start, spent, carried, best, served, earlier,
                 gateVars, outcome, healthVars>>

CallAnswers(r) ==
  /\ pc = "calling" /\ r.kind = "answered"
  /\ spent' = spent + r.cost
  /\ answer' = r.from /\ todo' = VisibleGates
  /\ results' = <<>> /\ skipped' = {} /\ gateSpend' = 0 /\ action' = "none"
  /\ pc' = "gates"
  /\ UNCHANGED <<policy, idx, start, attempts, carried, best, served, hard, earlier,
                 outcome, healthVars>>

\* One gate of eval_gates: a gate out of budget is skipped ...
SkipGate ==
  /\ pc = "gates" /\ todo # {} /\ health[NextGate].disabled
  /\ todo' = todo \ {Foremost} /\ skipped' = skipped \cup {NextGate}
  /\ UNCHANGED <<pc, runVars, answer, results, gateSpend, action, outcome, healthVars>>

StartGate ==
  /\ pc = "gates" /\ todo # {} /\ ~health[NextGate].disabled
  /\ pc' = "evaluating"
  /\ UNCHANGED <<runVars, gateVars, outcome, healthVars>>

Record(g, verdict) ==
  IF g \in Budgeted
  THEN [health EXCEPT ![g] = Recorded(@, verdict = "abstain")] ELSE health

\* ... another is awaited, and what it says is recorded against its budget.
\* Mutant: what a gate says that went out of budget meanwhile is dropped.
GateAnswersUnlessDisabled(a, c) ==
  LET g == NextGate IN
  /\ pc = "evaluating"
  /\ results' = (IF health[g].disabled THEN results ELSE
       Append(results, [gate |-> g, verdict |-> a.verdict, score |-> a.score]))
  /\ gateSpend' = gateSpend + c
  /\ health' = Record(g, a.verdict)
  /\ todo' = todo \ {Foremost} /\ pc' = "gates"
  /\ UNCHANGED <<runVars, answer, skipped, action, outcome, others>>
GateAnswers(a, c) ==
  LET g == NextGate IN
  /\ pc = "evaluating"
  /\ results' =
       Append(results, [gate |-> g, verdict |-> a.verdict, score |-> a.score])
  /\ gateSpend' = gateSpend + c
  /\ health' = Record(g, a.verdict)
  /\ todo' = todo \ {Foremost} /\ pc' = "gates"
  /\ UNCHANGED <<runVars, answer, skipped, action, outcome, others>>

\* The three regimes of elastic verification, on the visible gates' score.
Regime ==
  IF ScoreAtLeast(results, policy.lambda) THEN "serve_skip"
  ELSE IF ScoreAtFloor(results) THEN "escalate_now" ELSE "verified"
\* Mutant: the ambiguous middle is decided without the expensive gates.
ClassifyCheaply ==
  /\ pc = "gates" /\ todo = {} /\ Elastic /\ action = "none"
  /\ action' = Regime
  /\ UNCHANGED <<pc, runVars, answer, todo, results, skipped, gateSpend, outcome, healthVars>>
Classify ==
  /\ pc = "gates" /\ todo = {} /\ Elastic /\ action = "none"
  /\ action' = Regime
  /\ todo' = IF Regime = "verified" THEN ExpensiveGates ELSE {}
  /\ UNCHANGED <<pc, runVars, answer, results, skipped, gateSpend, outcome, healthVars>>

\* Every gate that should have run has run: serve, stop on the budget, or climb.
CapReached(total) == policy.cap # None /\ total >= policy.cap
OverBudget(total) == CapReached(total) /\ idx + 1 < RungEnd
\* Mutants: the budget is not looked at; a cleared answer does not end the climb.
GradeUnstopped ==
  LET a == [rung |-> idx, kind |-> "graded", answer |-> answer,
            results |-> results, action |-> action]
  IN
  /\ pc = "gates" /\ todo = {} /\ (Elastic => action # "none")
  /\ attempts' = Append(attempts, a) /\ best' = idx
  /\ spent' = spent + gateSpend
  /\ served' = (IF Clears(a) THEN idx ELSE -1)
  /\ IF Clears(a) THEN pc' = "ran" /\ UNCHANGED idx
     ELSE pc' = "rung" /\ idx' = idx + 1
  /\ answer' = -1 /\ results' = <<>> /\ gateSpend' = 0 /\ action' = "none"
  /\ UNCHANGED <<policy, start, carried, hard, earlier, todo, skipped, outcome, healthVars>>
GradePastClearing ==
  LET a == [rung |-> idx, kind |-> "graded", answer |-> answer,
            results |-> results, action |-> action]
  IN
  /\ pc = "gates" /\ todo = {} /\ (Elastic => action # "none")
  /\ attempts' = Append(attempts, a) /\ best' = idx
  /\ spent' = spent + gateSpend
  /\ served' = (IF Clears(a) THEN idx ELSE served)
  /\ IF OverBudget(spent + gateSpend) THEN pc' = "ran" /\ UNCHANGED idx
     ELSE pc' = "rung" /\ idx' = idx + 1
  /\ answer' = -1 /\ results' = <<>> /\ gateSpend' = 0 /\ action' = "none"
  /\ UNCHANGED <<policy, start, carried, hard, earlier, todo, skipped, outcome, healthVars>>
Grade ==
  LET a == [rung |-> idx, kind |-> "graded", answer |-> answer,
            results |-> results, action |-> action]
  IN
  /\ pc = "gates" /\ todo = {} /\ (Elastic => action # "none")
  /\ attempts' = Append(attempts, a) /\ best' = idx
  /\ spent' = spent + gateSpend
  /\ served' = (IF Clears(a) THEN idx ELSE -1)
  /\ IF Clears(a) \/ OverBudget(spent + gateSpend)
     THEN pc' = "ran" /\ UNCHANGED idx
     ELSE pc' = "rung" /\ idx' = idx + 1
  /\ answer' = -1 /\ results' = <<>> /\ gateSpend' = 0 /\ action' = "none"
  /\ UNCHANGED <<policy, start, carried, hard, earlier, todo, skipped, outcome, healthVars>>

\* Every attempt of the run overflowed, and the conversation has turns to drop.
\* Mutants: one overflow is enough; only the last attempt counts.
OverflowedAtSome ==
  served = -1 /\ \E i \in 1..Len(attempts) : attempts[i].kind = "overflow"
OverflowedLast == served = -1 /\ attempts # <<>> /\ attempts[Len(attempts)].kind = "overflow"
Overflowed ==
  /\ served = -1 /\ attempts # <<>>
  /\ \A i \in 1..Len(attempts) : attempts[i].kind = "overflow"
Condensed == earlier # <<>>
MayCondense == ~Condensed /\ policy.condensable /\ Overflowed

\* One retry of the shortened request on the top rung; it cannot condense again.
\* Mutant: the retry may condense again.
CondenseForever ==
  /\ pc = "ran" /\ policy.condensable /\ Overflowed
  /\ attempts' = <<>>
  /\ start' = RungCount - 1 /\ idx' = RungCount - 1
  /\ carried' = carried + spent /\ spent' = 0
  /\ best' = -1 /\ hard' = FALSE
  /\ pc' = "rung"
  /\ UNCHANGED <<policy, served, earlier, gateVars, outcome, healthVars>>
Condense ==
  /\ pc = "ran" /\ MayCondense
  /\ earlier' = attempts /\ attempts' = <<>>
  /\ start' = RungCount - 1 /\ idx' = RungCount - 1
  /\ carried' = carried + spent /\ spent' = 0
  /\ best' = -1 /\ hard' = FALSE
  /\ pc' = "rung"
  /\ UNCHANGED <<policy, served, gateVars, outcome, healthVars>>

\* The tail of route_enforce: the rung that cleared, else the best attempt, else
\* an error.
Settle(o) ==
  /\ pc = "ran" /\ ~MayCondense
  /\ outcome' = o /\ pc' = "done"
  /\ UNCHANGED <<runVars, gateVars, healthVars>>
ServeCleared == served # -1 /\ Settle([from |-> "attempt", rung |-> served])
ServeBest == served = -1 /\ best # -1 /\ Settle([from |-> "best_attempt", rung |-> best])
FailRequest == best = -1 /\ Settle([from |-> "error", rung |-> -1])

\* The task of the request ends at an await: the client of a buffered request left,
\* or the gate it awaits panicked.  No outcome, no receipt, no gate result.
Abandon ==
  /\ pc \in {"calling", "evaluating"}
  /\ pc' = "gone"
  /\ UNCHANGED <<runVars, gateVars, outcome, healthVars>>

\* Another request of the tenant records an outcome of the same gate.
OtherRequest(g, errored) ==
  /\ others < MaxOthers /\ g \in Budgeted
  /\ others' = others + 1
  /\ health' = [health EXCEPT ![g] = Recorded(@, errored)]
  /\ UNCHANGED <<pc, runVars, gateVars, outcome>>

Evaluation ==
  \/ SkipGate \/ StartGate \/ Classify \/ Grade
  \/ \E a \in Answers, c \in GateCosts : GateAnswers(a, c)
Settlement == Condense \/ ServeCleared \/ ServeBest \/ FailRequest
Elsewhere == \E g \in Gate, errored \in BOOLEAN : OtherRequest(g, errored)
Over == pc \in {"done", "gone"}
Finished == Over /\ UNCHANGED ladderVars

\* The receipt lists both runs of a condensed request; who reads a served attempt
\* back takes the first one of its rung.
Receipt == earlier \o attempts
ReadBack(r) ==
  Receipt[CHOOSE i \in 1..Len(Receipt) :
            Receipt[i].rung = r /\ \A j \in 1..(i - 1) : Receipt[j].rung # r]

-------------------------------------------------------------------------------
(* Properties of both engines.                                             *)

\* Every variable keeps its type.
TypeOK ==
  /\ policy \in Policies
  /\ pc \in {"rung", "calling", "gates", "evaluating", "ran", "done", "gone"}
  /\ start \in Rung /\ idx \in 0..RungCount
  /\ \A i \in 1..Len(attempts) :
       /\ attempts[i].rung \in Rung
       /\ attempts[i].kind \in {"unavailable", "overflow", "rejected", "graded"}
       /\ attempts[i].action \in Actions
  /\ spent \in Nat /\ carried \in Nat /\ gateSpend \in Nat
  /\ best \in Rung \cup {-1} /\ served \in Rung \cup {-1} /\ hard \in BOOLEAN
  /\ action \in Actions /\ answer \in Rung \cup {-1}
  /\ health \in [Gate -> Health] /\ others \in 0..MaxOthers

\* The receipt shows a climb: rungs in ladder order from the first one of the
\* run, each tried once, and nothing tried after a rejection or a cleared rung
\* (the loops of run_serial and run_speculative, whatever fails on the way).
ClimbsInOrder ==
  \A i \in 1..Len(attempts) :
    /\ attempts[i].rung = start + i - 1
    /\ i < Len(attempts) =>
         /\ attempts[i].kind # "rejected"
         /\ Graded(attempts[i]) => ~Clears(attempts[i])

\* What the client gets: the first answer that clears; failing that the answer of
\* the highest rung that produced one; an error only when none did.
ServesTheRightAnswer ==
  LET G == {i \in 1..Len(attempts) : Graded(attempts[i])} IN
  pc = "done" =>
    CASE outcome.from = "error" -> G = {}
      [] outcome.from = "attempt" ->
           \E i \in G : /\ attempts[i].rung = outcome.rung /\ Clears(attempts[i])
                        /\ \A j \in G : j # i => ~Clears(attempts[j])
      [] OTHER ->
           \E i \in G : /\ attempts[i].rung = outcome.rung
                        /\ \A j \in G : j <= i /\ ~Clears(attempts[j])

\* Under the verdict rule an answer that clears got past every gate it had to: each
\* was found out of budget when its turn came, or has a result (whatever other requests
\* did to its budget while it was awaited), and no result blocks.  It had to get past
\* the visible gates, and past the expensive ones unless elastic verification decided
\* on the visible ones alone; only where these cleared lambda may one of them block.
HadToPass(a) ==
  IF Elastic /\ a.action # "verified" THEN VisibleGates ELSE 1..Len(GateOrder)
ServedPastNoGate ==
  served # -1 /\ policy.threshold = None =>
    LET a == attempts[Len(attempts)] IN
    /\ \A i \in HadToPass(a) :
         \/ \E k \in 1..Len(a.results) : a.results[k].gate = GateOrder[i]
         \/ GateOrder[i] \in skipped
    /\ IF a.action = "serve_skip" THEN ScoreAtLeast(a.results, policy.lambda)
       ELSE \A k \in 1..Len(a.results) : ~Blocking(a.results[k])

\* Once what was spent reaches the cap, no further rung of the run is called:
\* the answer in hand is served instead of climbing.
BudgetStopsTheClimb ==
  pc = "calling" /\ (\E i \in 1..Len(attempts) : Graded(attempts[i]))
    => ~CapReached(spent)

SaidTooLong(r) ==
  \E i \in 1..Len(earlier) : earlier[i].rung = r /\ earlier[i].kind = "overflow"

\* The conversation is condensed only when every rung the policy lets the request
\* visit said that it does not fit.
CondensedAfterOverflow ==
  Condensed =>
    LET first == ClampedStart(policy.startRung) IN
    \A r \in first..(first + Least(policy.maxRungs, RungCount - first) - 1) :
      SaidTooLong(r)

\* "The score MUST be the one the router actually served on, read back from the
\* stored trace" (the feedback handler, proxy.rs:1218): the attempt it reads back
\* is the one that cleared.
ServedScoreReadBack ==
  outcome.from = "attempt" =>
    LET a == ReadBack(outcome.rung) IN Graded(a) /\ Clears(a)

\* The retry starts with nothing spent, so a fresh cap bounds the whole request:
\* a run that overflowed everywhere was billed for nothing, wasted calls included.
CondensingCarriesNoSpend == carried = 0

\* Every request gets an outcome, or is dropped.
Terminates == <>Over
===============================================================================
