----------------------------- MODULE LadderProofs -----------------------------
(***************************************************************************)
(* Proofs about SerialLadder, for any ladder, gates, policies, costs and   *)
(* outcomes of calls: the order of the climb, what is served, where the    *)
(* budget stops it and when a request is condensed; for these, what scores *)
(* and verdicts amount to stays unexpanded.  Then types, and the gates an  *)
(* answer got past, which need the history of each.                        *)
(***************************************************************************)
EXTENDS SerialLadder, FiniteSetTheorems, TLAPS

Elements(s) == {s[i] : i \in 1..Len(s)}
IsSeq(s) == s \in Seq(Elements(s))

Climbing == pc \in {"rung", "calling", "gates", "evaluating"}
Stops(a) == a.kind = "rejected" \/ (Graded(a) /\ Clears(a))
SomeGraded == \E i \in 1..Len(attempts) : Graded(attempts[i])

Types ==
  /\ policy \in Policies
  /\ pc \in {"rung", "calling", "gates", "evaluating", "ran", "done", "gone"}
  /\ start \in Rung /\ idx \in Nat
  /\ IsSeq(attempts) /\ Len(attempts) \in Nat

\* The attempts are the rungs from the start up, and the next rung is the one after
\* them; an attempt that stops the climb is the last.
InOrderSoFar ==
  /\ ClimbsInOrder
  /\ Climbing => /\ idx = start + Len(attempts)
                 /\ \A i \in 1..Len(attempts) : ~Stops(attempts[i])
  /\ pc = "calling" => idx < RungEnd

\* best is the latest graded attempt; served the one that cleared, and it is the last.
BestSoFar ==
  /\ best = -1 => ~SomeGraded
  /\ best # -1 => \E i \in 1..Len(attempts) :
                    /\ Graded(attempts[i]) /\ attempts[i].rung = best
                    /\ \A j \in 1..Len(attempts) : Graded(attempts[j]) => j <= i
  /\ served = -1 => \A i \in 1..Len(attempts) : Graded(attempts[i]) => ~Clears(attempts[i])
  /\ served # -1 => LET last == attempts[Len(attempts)] IN
                    /\ pc \in {"ran", "done"} /\ Len(attempts) > 0
                    /\ Graded(last) /\ last.rung = served /\ Clears(last)

OutcomeSettled ==
  pc = "done" =>
    \/ outcome.from = "error" /\ best = -1
    \/ outcome.from = "attempt" /\ served # -1 /\ outcome.rung = served
    \/ outcome.from = "best_attempt" /\ served = -1 /\ best # -1 /\ outcome.rung = best

\* A rung is left to climb to only while the cap is not reached.
WithinBudget ==
  pc \in {"rung", "calling"} /\ SomeGraded /\ idx < RungEnd => ~CapReached(spent)

\* A run that ended without a rejection or a graded answer has visited its window,
\* and a retry remembers the one it follows.
WindowVisited ==
  /\ pc = "ran" =>
       \/ start + Len(attempts) >= RungEnd
       \/ \E i \in 1..Len(attempts) : attempts[i].kind \in {"rejected", "graded"}
  /\ ~Condensed => start = ClampedStart(policy.startRung)
  /\ CondensedAfterOverflow

LadderInv ==
  /\ Types /\ InOrderSoFar /\ BestSoFar /\ OutcomeSettled /\ WithinBudget /\ WindowVisited

-------------------------------------------------------------------------------
\* One more attempt leaves the earlier ones where they were.
LEMMA AppendAttempt ==
  ASSUME NEW s, IsSeq(s), Len(s) \in Nat, NEW e
  PROVE  /\ IsSeq(Append(s, e)) /\ Len(Append(s, e)) = Len(s) + 1
         /\ \A i \in 1..Len(s) : Append(s, e)[i] = s[i]
         /\ Append(s, e)[Len(s) + 1] = e
<1> DEFINE S == Elements(s) \cup {e}
<1>1. s \in Seq(S) /\ e \in S
  BY DEF IsSeq, Elements
<1>2. /\ Append(s, e) \in Seq(S) /\ Len(Append(s, e)) = Len(s) + 1
      /\ \A i \in 1..Len(s) : Append(s, e)[i] = s[i]
      /\ Append(s, e)[Len(s) + 1] = e
  BY <1>1
<1>3. \A i \in 1..Len(Append(s, e)) : Append(s, e)[i] \in Elements(Append(s, e))
  BY DEF Elements
<1>4. Append(s, e) \in Seq(Elements(Append(s, e)))
  BY <1>2, <1>3
<1> QED BY <1>2, <1>4 DEF IsSeq

\* The first rung is on the ladder, and the window of rungs ends on it.
LEMMA WindowOnLadder ==
  ASSUME NEW p \in Policies
  PROVE  ClampedStart(p.startRung) \in Rung
BY LadderAssumption, PolicyAssumption DEF ClampedStart, Least, Rung, Policy

LEMMA InitLadder == Init => LadderInv
<1> SUFFICES ASSUME Init PROVE LadderInv
  OBVIOUS
<1>1. attempts = <<>> /\ Len(attempts) = 0 /\ IsSeq(attempts)
  BY DEF Init, IsSeq, Elements
<1>2. start \in Rung /\ idx = start /\ start \in Nat
  BY WindowOnLadder, LadderAssumption DEF Init, Rung
<1>3. Types
  BY <1>1, <1>2 DEF Init, Types
<1>4. InOrderSoFar
  BY <1>1, <1>2 DEF Init, InOrderSoFar, ClimbsInOrder, Climbing
<1>5. BestSoFar /\ WithinBudget
  BY <1>1 DEF Init, BestSoFar, WithinBudget, SomeGraded
<1>6. OutcomeSettled /\ WindowVisited
  BY DEF Init, OutcomeSettled, WindowVisited, Condensed, CondensedAfterOverflow
<1> QED BY <1>3, <1>4, <1>5, <1>6 DEF LadderInv

-------------------------------------------------------------------------------
(* Steps that add an attempt.                                              *)

\* What clears depends on the policy, which a request keeps.
LEMMA ClearsStays ==
  ASSUME UNCHANGED policy, NEW i
  PROVE  /\ attempts'[i] = attempts[i] => (Clears(attempts[i])' <=> Clears(attempts[i]))
         /\ Graded(attempts[i])' <=> Graded(attempts'[i])
BY DEF Clears, ShouldServe, Graded

\* A rung that gave no answer is added: the climb goes on above it, or stops.
LEMMA FailureKeepsLadder ==
  ASSUME LadderInv, pc \in {"rung", "calling"}, idx < RungEnd,
         NEW kind \in {"unavailable", "overflow", "rejected"},
         attempts' = Append(attempts, Failure(kind)),
         IF kind = "rejected" THEN pc' = "ran" /\ UNCHANGED idx
                              ELSE pc' = "rung" /\ idx' = idx + 1,
         UNCHANGED <<policy, start, spent, best, served, earlier>>
  PROVE  LadderInv'
<1> DEFINE n == Len(attempts)
           a == Failure(kind)
<1> USE DEF LadderInv
<1>1. /\ IsSeq(attempts) /\ n \in Nat /\ idx = start + n /\ idx \in Nat /\ start \in Nat
      /\ \A i \in 1..n : ~Stops(attempts[i])
      /\ served = -1
  BY DEF Types, InOrderSoFar, Climbing, BestSoFar, Rung
<1>2. /\ IsSeq(attempts') /\ Len(attempts') = n + 1
      /\ \A i \in 1..n : attempts'[i] = attempts[i]
      /\ attempts'[n + 1] = a
  BY <1>1, AppendAttempt
<1>3. a.rung = idx /\ a.kind = kind /\ ~Graded(a)
  BY DEF Failure, Graded
<1>4. Types'
  BY <1>1, <1>2 DEF Types
<1>5. InOrderSoFar'
  <2>1. ASSUME NEW i \in 1..Len(attempts')
        PROVE  /\ attempts'[i].rung = start + i - 1
               /\ i < Len(attempts') => ~Stops(attempts[i])'
               /\ kind # "rejected" => ~Stops(attempts[i])'
    <3>1. CASE i = n + 1
      BY <1>1, <1>2, <1>3, <3>1 DEF Stops, Graded
    <3>2. CASE i \in 1..n
      BY <1>1, <1>2, <3>2, ClearsStays DEF InOrderSoFar, ClimbsInOrder, Stops, Graded
    <3>3. i = n + 1 \/ i \in 1..n
      BY <1>1, <1>2
    <3> QED BY <3>1, <3>2, <3>3
  <2>2. ClimbsInOrder'
    BY <2>1, Zenon DEF ClimbsInOrder, Stops
  <2>3. (Climbing => /\ idx = start + Len(attempts)
                     /\ \A i \in 1..Len(attempts) : ~Stops(attempts[i]))'
    BY <1>1, <1>2, <2>1 DEF Climbing
  <2> QED BY <2>2, <2>3 DEF InOrderSoFar
<1>6. BestSoFar'
  <2>1. ASSUME NEW i \in 1..Len(attempts')
        PROVE  Graded(attempts'[i]) => i \in 1..n /\ attempts'[i] = attempts[i]
    BY <1>1, <1>2, <1>3
  <2>2. \A i \in 1..n : i \in 1..Len(attempts')
    BY <1>1, <1>2
  <2>3. (best = -1 => ~SomeGraded)'
    BY <2>1 DEF BestSoFar, SomeGraded, Graded
  <2>4. (best # -1 => \E i \in 1..Len(attempts) :
                    /\ Graded(attempts[i]) /\ attempts[i].rung = best
                    /\ \A j \in 1..Len(attempts) : Graded(attempts[j]) => j <= i)'
    BY <1>2, <2>1, <2>2 DEF BestSoFar, Graded
  <2>5. (\A i \in 1..Len(attempts) : Graded(attempts[i]) => ~Clears(attempts[i]))'
    BY <1>1, <2>1, ClearsStays DEF BestSoFar, Graded
  <2> QED BY <1>1, <2>3, <2>4, <2>5 DEF BestSoFar
<1>7. WithinBudget'
  <2>1. SomeGraded' => SomeGraded
    BY <1>1, <1>2, <1>3 DEF SomeGraded, Graded
  <2>2. RungEnd' = RungEnd /\ RungEnd \in Int
    BY <1>1, LadderAssumption, PolicyAssumption DEF RungEnd, Least, Types, Policy
  <2> QED BY <1>1, <2>1, <2>2 DEF WithinBudget, CapReached
<1>8. WindowVisited'
  <2>1. pc' = "ran" => attempts'[n + 1].kind = "rejected" /\ n + 1 \in 1..Len(attempts')
    BY <1>1, <1>2, <1>3
  <2>2. UNCHANGED Condensed /\ CondensedAfterOverflow'
    BY DEF WindowVisited, Condensed, CondensedAfterOverflow, SaidTooLong
  <2> QED BY <2>1, <2>2 DEF WindowVisited
<1> QED BY <1>4, <1>5, <1>6, <1>7, <1>8 DEF OutcomeSettled

\* A graded answer is added: it is served, or the budget stops the climb, or it goes on.
LEMMA GradeKeepsLadder == LadderInv /\ Grade => LadderInv'
<1> SUFFICES ASSUME LadderInv, Grade PROVE LadderInv'
  OBVIOUS
<1> PICK n \in Nat : n = Len(attempts)
  BY DEF LadderInv, Types
<1> DEFINE a == [rung |-> idx, kind |-> "graded", answer |-> answer,
                 results |-> results, action |-> action]
<1>1. /\ IsSeq(attempts) /\ n = Len(attempts) /\ idx = start + n /\ idx \in Nat /\ start \in Nat
      /\ \A i \in 1..n : ~Stops(attempts[i])
      /\ served = -1 /\ pc = "gates"
  BY DEF LadderInv, Types, InOrderSoFar, Climbing, BestSoFar, Rung, Grade
<1>2. attempts' = Append(attempts, a) /\ UNCHANGED <<policy, start, earlier>> /\ best' = idx
  BY DEF Grade
<1>3. /\ IsSeq(attempts') /\ Len(attempts') = n + 1
      /\ \A i \in 1..n : attempts'[i] = attempts[i]
      /\ attempts'[n + 1] = a
  BY <1>1, <1>2, AppendAttempt
<1>4. a.rung = idx /\ a.kind = "graded" /\ Graded(a)
  BY DEF Graded
<1>5. /\ served' = IF Clears(a) THEN idx ELSE -1
      /\ IF Clears(a) \/ OverBudget(spent + gateSpend)
         THEN pc' = "ran" /\ UNCHANGED idx
         ELSE pc' = "rung" /\ idx' = idx + 1
      /\ spent' = spent + gateSpend
  BY DEF Grade
<1>6. Clears(attempts[n + 1])' <=> Clears(a)
  BY <1>2, <1>3 DEF Clears, ShouldServe
<1> HIDE DEF a
<1>7. Types'
  BY <1>1, <1>2, <1>3, <1>5 DEF LadderInv, Types
<1>8. InOrderSoFar'
  <2>1. ASSUME NEW i \in 1..Len(attempts')
        PROVE  /\ attempts'[i].rung = start + i - 1
               /\ i < Len(attempts') => ~Stops(attempts[i])'
               /\ ~Clears(a) => ~Stops(attempts[i])'
    <3>1. CASE i = n + 1
      BY <1>1, <1>2, <1>3, <1>4, <1>6, <3>1 DEF Stops, Graded
    <3>2. CASE i \in 1..n
      BY <1>1, <1>2, <1>3, <3>2, ClearsStays
         DEF LadderInv, InOrderSoFar, ClimbsInOrder, Stops, Graded
    <3>3. i = n + 1 \/ i \in 1..n
      BY <1>1, <1>3
    <3> QED BY <3>1, <3>2, <3>3
  <2>2. start' = start
    BY <1>2
  <2>3. ClimbsInOrder'
    BY <2>1, <2>2, Zenon DEF ClimbsInOrder, Stops
  <2>4. (Climbing => /\ idx = start + Len(attempts)
                     /\ \A i \in 1..Len(attempts) : ~Stops(attempts[i]))'
    BY <1>1, <1>3, <1>5, <2>1, <2>2 DEF Climbing
  <2> QED BY <1>5, <2>3, <2>4 DEF InOrderSoFar
<1>9. BestSoFar'
  <2>1. n + 1 \in 1..Len(attempts') /\ \A j \in 1..Len(attempts') : j <= n + 1
    BY <1>1, <1>3
  <2>2. /\ best' # -1
        /\ (\E i \in 1..Len(attempts) :
              /\ Graded(attempts[i]) /\ attempts[i].rung = best
              /\ \A j \in 1..Len(attempts) : Graded(attempts[j]) => j <= i)'
    BY <1>1, <1>2, <1>3, <1>4, <2>1 DEF Graded
  <2>3. CASE Clears(a)
    <3>1. served' # -1 /\ pc' = "ran" /\ Len(attempts') > 0
      BY <1>1, <1>3, <1>5, <2>3
    <3>2. /\ Graded(attempts[Len(attempts)])' /\ Clears(attempts[Len(attempts)])'
          /\ attempts'[Len(attempts')].rung = served'
      BY <1>3, <1>4, <1>5, <1>6, <2>3 DEF Graded
    <3> QED BY <2>2, <3>1, <3>2 DEF BestSoFar
  <2>4. CASE ~Clears(a)
    <3>1. served' = -1
      BY <1>5, <2>4
    <3>2. (\A i \in 1..Len(attempts) : Graded(attempts[i]) => ~Clears(attempts[i]))'
      <4> SUFFICES ASSUME NEW i \in 1..Len(attempts')
                   PROVE  Graded(attempts[i])' => ~Clears(attempts[i])'
        OBVIOUS
      <4>1. i = n + 1 \/ i \in 1..n
        BY <1>1, <1>3
      <4>2. CASE i \in 1..n
        BY <1>1, <1>2, <1>3, <4>2, ClearsStays DEF LadderInv, BestSoFar, Graded
      <4> QED BY <1>6, <2>4, <4>1, <4>2
    <3> QED BY <2>2, <3>1, <3>2 DEF BestSoFar
  <2> QED BY <2>3, <2>4
<1>10. WithinBudget'
  <2>1. RungEnd' = RungEnd
    BY <1>2 DEF RungEnd
  <2>2. CapReached(spent)' <=> CapReached(spent + gateSpend)
    BY <1>2, <1>5 DEF CapReached
  <2> QED BY <1>5, <2>1, <2>2 DEF WithinBudget, OverBudget
<1>11. WindowVisited'
  <2>1. n + 1 \in 1..Len(attempts') /\ attempts'[n + 1].kind \in {"rejected", "graded"}
    BY <1>1, <1>3, <1>4
  <2>2. UNCHANGED Condensed /\ CondensedAfterOverflow' /\ (~Condensed => start = ClampedStart(policy.startRung))'
    BY <1>2 DEF LadderInv, WindowVisited, Condensed, CondensedAfterOverflow, SaidTooLong
  <2> QED BY <2>1, <2>2 DEF WindowVisited
<1> QED BY <1>5, <1>7, <1>8, <1>9, <1>10, <1>11 DEF LadderInv, OutcomeSettled

-------------------------------------------------------------------------------
(* Steps that add none.                                                    *)

LEMMA SameAttemptsKeepLadder ==
  ASSUME LadderInv, UNCHANGED <<policy, idx, start, attempts, best, served, earlier>>,
         \/ UNCHANGED <<pc, spent, outcome>>
         \/ Climbing /\ pc' \in {"gates", "evaluating", "gone"}
         \/ pc = "rung" /\ idx < RungEnd /\ pc' = "calling" /\ UNCHANGED spent
         \/ pc = "rung" /\ idx >= RungEnd /\ pc' = "ran"
  PROVE  LadderInv'
<1>1. /\ \A i : Clears(attempts[i])' <=> Clears(attempts[i])
      /\ \A i : Graded(attempts[i])' <=> Graded(attempts[i])
      /\ RungEnd' = RungEnd /\ (CapReached(spent)' <=> policy.cap # None /\ spent' >= policy.cap)
  BY DEF Clears, ShouldServe, Graded, RungEnd, CapReached
<1>2. Types'
  BY DEF LadderInv, Types, Climbing
<1>3. InOrderSoFar'
  BY <1>1 DEF LadderInv, InOrderSoFar, ClimbsInOrder, Climbing, Stops
<1>4. BestSoFar'
  BY <1>1 DEF LadderInv, BestSoFar, SomeGraded, Climbing
<1>5. OutcomeSettled'
  BY DEF LadderInv, OutcomeSettled
<1>6. WithinBudget'
  BY <1>1 DEF LadderInv, WithinBudget, SomeGraded, CapReached
<1>7. WindowVisited'
  BY <1>1 DEF LadderInv, WindowVisited, InOrderSoFar, Climbing, Condensed,
              CondensedAfterOverflow, SaidTooLong
<1> QED BY <1>2, <1>3, <1>4, <1>5, <1>6, <1>7 DEF LadderInv

\* The tail of route_enforce.
LEMMA SettleKeepsLadder ==
  LadderInv /\ (ServeCleared \/ ServeBest \/ FailRequest) => LadderInv'
<1> SUFFICES ASSUME LadderInv, ServeCleared \/ ServeBest \/ FailRequest PROVE LadderInv'
  OBVIOUS
<1>1. /\ pc = "ran" /\ pc' = "done"
      /\ UNCHANGED <<policy, idx, start, attempts, best, served, earlier>>
  BY DEF ServeCleared, ServeBest, FailRequest, Settle, runVars
<1>2. \/ outcome' = [from |-> "attempt", rung |-> served] /\ served # -1
      \/ outcome' = [from |-> "best_attempt", rung |-> best] /\ served = -1 /\ best # -1
      \/ outcome' = [from |-> "error", rung |-> -1] /\ best = -1
  BY DEF ServeCleared, ServeBest, FailRequest, Settle
<1>3. /\ \A i : Clears(attempts[i])' <=> Clears(attempts[i])
      /\ \A i : Graded(attempts[i])' <=> Graded(attempts[i])
  BY <1>1 DEF Clears, ShouldServe, Graded
<1>4. Types'
  BY <1>1 DEF LadderInv, Types
<1>5. InOrderSoFar'
  BY <1>1, <1>3 DEF LadderInv, InOrderSoFar, ClimbsInOrder, Climbing
<1>6. BestSoFar'
  BY <1>1, <1>3 DEF LadderInv, BestSoFar, SomeGraded
<1>7. OutcomeSettled'
  BY <1>1, <1>2 DEF OutcomeSettled
<1>8. WithinBudget'
  BY <1>1 DEF WithinBudget
<1>9. WindowVisited'
  BY <1>1 DEF LadderInv, WindowVisited, Condensed, CondensedAfterOverflow, SaidTooLong
<1> QED BY <1>4, <1>5, <1>6, <1>7, <1>8, <1>9 DEF LadderInv

\* The retry begins with nothing attempted, and its predecessor had visited every rung
\* it might (run_ladder).
LEMMA CondenseKeepsLadder == LadderInv /\ Condense => LadderInv'
<1> SUFFICES ASSUME LadderInv, Condense PROVE LadderInv'
  OBVIOUS
<1>1. /\ pc = "ran" /\ pc' = "rung" /\ served = -1 /\ earlier = <<>> /\ attempts # <<>>
      /\ \A i \in 1..Len(attempts) : attempts[i].kind = "overflow"
      /\ earlier' = attempts /\ attempts' = <<>> /\ Len(attempts') = 0
      /\ start' = RungCount - 1 /\ idx' = RungCount - 1 /\ best' = -1
      /\ UNCHANGED <<policy, served>>
  BY DEF Condense, MayCondense, Overflowed, Condensed
<1>2. IsSeq(attempts') /\ start' \in Rung /\ idx' \in Nat
  BY <1>1, LadderAssumption DEF IsSeq, Elements, Rung
<1>3. Types'
  BY <1>1, <1>2 DEF LadderInv, Types
<1>4. InOrderSoFar'
  BY <1>1, <1>2, LadderAssumption DEF InOrderSoFar, ClimbsInOrder, Climbing
<1>5. BestSoFar' /\ WithinBudget' /\ OutcomeSettled'
  BY <1>1 DEF BestSoFar, WithinBudget, OutcomeSettled, SomeGraded
<1>6. WindowVisited'
  <2>1. /\ start = ClampedStart(policy.startRung)
        /\ start + Len(attempts) >= RungEnd
        /\ \A i \in 1..Len(attempts) : attempts[i].rung = start + i - 1
    BY <1>1 DEF LadderInv, WindowVisited, Condensed, InOrderSoFar, ClimbsInOrder
  <2>2. start \in Nat /\ Len(attempts) \in Nat /\ RungEnd \in Int
    BY LadderAssumption, PolicyAssumption DEF LadderInv, Types, Rung, RungEnd, Least, Policy
  <2>3. ASSUME NEW r \in start..(RungEnd - 1)
        PROVE  \E i \in 1..Len(attempts) :
                 attempts[i].rung = r /\ attempts[i].kind = "overflow"
    <3>1. PICK n \in Nat : n = Len(attempts)
      BY <2>2
    <3>2. PICK i \in 1..n : i = r - start + 1
      BY <2>1, <2>2, <3>1
    <3>3. attempts[i].rung = r /\ attempts[i].kind = "overflow"
      BY <1>1, <2>1, <2>2, <3>1, <3>2
    <3> QED BY <3>1, <3>2, <3>3
  <2>5. RungEnd = ClampedStart(policy.startRung)
                    + Least(policy.maxRungs, RungCount - ClampedStart(policy.startRung))
    BY <2>1 DEF RungEnd
  <2>6. \A r : SaidTooLong(r)' <=>
              \E i \in 1..Len(attempts) :
                attempts[i].rung = r /\ attempts[i].kind = "overflow"
    BY <1>1 DEF SaidTooLong
  <2>7. CondensedAfterOverflow'
    <3> DEFINE first == ClampedStart(policy.startRung)
               upto == first + Least(policy.maxRungs, RungCount - first) - 1
    <3>a. \A r \in start..(RungEnd - 1) : SaidTooLong(r)'
      BY <2>3, <2>6
    <3>b. first = start /\ upto = RungEnd - 1
      <4>1. first = start
        BY <2>1
      <4>2. first \in Nat /\ policy.maxRungs \in Nat
        BY <2>1, <2>2, PolicyAssumption DEF LadderInv, Types, Policy
      <4>3. Least(policy.maxRungs, RungCount - first) \in Int
        BY <4>2, LadderAssumption DEF Least
      <4>4. upto = RungEnd - 1
        BY <2>5, <4>2, <4>3
      <4> QED BY <4>1, <4>4
    <3>1. \A r \in first..upto : SaidTooLong(r)'
      <4> HIDE DEF first, upto
      <4> QED BY <3>a, <3>b
    <3>2. policy' = policy
      BY <1>1
    <3> QED BY <3>1, <3>2 DEF CondensedAfterOverflow, ClampedStart
  <2>4. Condensed'
    BY <1>1 DEF Condensed
  <2> QED BY <1>1, <2>4, <2>7 DEF WindowVisited
<1> QED BY <1>3, <1>4, <1>5, <1>6 DEF LadderInv

-------------------------------------------------------------------------------
LEMMA NextLadder == LadderInv /\ [Next]_ladderVars => LadderInv'
<1> SUFFICES ASSUME LadderInv, [Next]_ladderVars PROVE LadderInv'
  OBVIOUS
<1> USE DEF runVars, gateVars, healthVars
<1>1. CASE MissingProvider
  BY <1>1, FailureKeepsLadder DEF MissingProvider
<1>2. CASE CallProvider
  BY <1>2, SameAttemptsKeepLadder DEF CallProvider
<1>3. CASE LadderExhausted
  BY <1>3, SameAttemptsKeepLadder DEF LadderExhausted
<1>4. ASSUME NEW r \in Replies(idx), CallReturns(r) PROVE LadderInv'
  <2>1. pc = "calling" => idx < RungEnd
    BY DEF LadderInv, InOrderSoFar
  <2>2. CASE CallFails(r)
    BY <2>1, <2>2, FailureKeepsLadder DEF CallFails
  <2>3. CASE CallRejected(r)
    BY <2>1, <2>3, FailureKeepsLadder DEF CallRejected
  <2>4. CASE CallAnswers(r)
    BY <2>4, SameAttemptsKeepLadder DEF CallAnswers, Climbing
  <2> QED BY <1>4, <2>2, <2>3, <2>4 DEF CallReturns
<1>5. CASE SkipGate
  BY <1>5, SameAttemptsKeepLadder DEF SkipGate
<1>6. CASE StartGate
  BY <1>6, SameAttemptsKeepLadder DEF StartGate, Climbing
<1>7. CASE Classify
  BY <1>7, SameAttemptsKeepLadder DEF Classify
<1>8. CASE Grade
  BY <1>8, GradeKeepsLadder
<1>9. ASSUME NEW a \in Answers, NEW c \in GateCosts, GateAnswers(a, c) PROVE LadderInv'
  BY <1>9, SameAttemptsKeepLadder DEF GateAnswers, Climbing
<1>10. CASE Settlement
  BY <1>10, SettleKeepsLadder, CondenseKeepsLadder DEF Settlement
<1>11. ASSUME NEW g \in Gate, NEW errored \in BOOLEAN, OtherRequest(g, errored) PROVE LadderInv'
  BY <1>11, SameAttemptsKeepLadder DEF OtherRequest
<1>12. CASE UNCHANGED ladderVars
  BY <1>12, SameAttemptsKeepLadder DEF ladderVars
<1>13. CASE Abandon
  BY <1>13, SameAttemptsKeepLadder DEF Abandon, Climbing
<1> QED BY <1>1, <1>2, <1>3, <1>4, <1>5, <1>6, <1>7, <1>8, <1>9, <1>10, <1>11, <1>12, <1>13
        DEF Next, Step, Evaluation, Elsewhere, Finished

LEMMA LadderInvariant == Spec => []LadderInv
BY InitLadder, NextLadder, PTL DEF Spec

-------------------------------------------------------------------------------
\* The receipt shows a climb in ladder order, each rung once, and nothing after a
\* rejection or a cleared answer, whatever mixture of failures came on the way.
THEOREM ClimbsInOrderAlways == Spec => []ClimbsInOrder
<1>1. LadderInv => ClimbsInOrder
  BY DEF LadderInv, InOrderSoFar
<1> QED BY <1>1, LadderInvariant, PTL

\* Who asked gets the answer that cleared; failing that the one of the highest rung
\* that produced one; an error only when none did (route_enforce).
THEOREM ServesTheRightAnswerAlways == Spec => []ServesTheRightAnswer
<1>1. LadderInv => ServesTheRightAnswer
  <2> SUFFICES ASSUME LadderInv, pc = "done" PROVE ServesTheRightAnswer
    BY DEF ServesTheRightAnswer
  <2> DEFINE G == {i \in 1..Len(attempts) : Graded(attempts[i])}
  <2>1. CASE outcome.from = "error" /\ best = -1
    BY <2>1 DEF LadderInv, BestSoFar, SomeGraded, ServesTheRightAnswer
  <2>2. CASE outcome.from = "attempt" /\ served # -1 /\ outcome.rung = served
    <3>1. PICK n \in Nat : n = Len(attempts)
      BY DEF LadderInv, Types
    <3>2. /\ n \in G /\ attempts[n].rung = outcome.rung /\ Clears(attempts[n])
      BY <2>2, <3>1 DEF LadderInv, BestSoFar
    <3>3. \A j \in G : j # n => ~Clears(attempts[j])
      BY <3>1 DEF LadderInv, InOrderSoFar, ClimbsInOrder
    <3> QED BY <2>2, <3>2, <3>3 DEF ServesTheRightAnswer
  <2>3. CASE outcome.from = "best_attempt" /\ served = -1 /\ best # -1 /\ outcome.rung = best
    <3>1. PICK i \in G : attempts[i].rung = best /\ \A j \in G : j <= i
      BY <2>3 DEF LadderInv, BestSoFar
    <3>2. \A j \in G : ~Clears(attempts[j])
      BY <2>3 DEF LadderInv, BestSoFar
    <3> QED BY <2>3, <3>1, <3>2 DEF ServesTheRightAnswer
  <2> QED BY <2>1, <2>2, <2>3 DEF LadderInv, OutcomeSettled
<1> QED BY <1>1, LadderInvariant, PTL

\* No rung is called once what was spent has reached the cap and an answer is in hand.
THEOREM BudgetAlwaysStopsTheClimb == Spec => []BudgetStopsTheClimb
<1>1. LadderInv => BudgetStopsTheClimb
  BY DEF LadderInv, InOrderSoFar, WithinBudget, SomeGraded, BudgetStopsTheClimb
<1> QED BY <1>1, LadderInvariant, PTL

\* A conversation is condensed only after every rung its policy lets it visit has said
\* that it does not fit, wherever the window starts and ends.
THEOREM CondensedOnlyAfterOverflow == Spec => []CondensedAfterOverflow
<1>1. LadderInv => CondensedAfterOverflow
  BY DEF LadderInv, WindowVisited
<1> QED BY <1>1, LadderInvariant, PTL

-------------------------------------------------------------------------------
(* Types, and what became of every gate.                                   *)

InHand == pc \in {"gates", "evaluating"}

Typed ==
  /\ TypeOK
  /\ pc = "rung" => idx <= RungEnd
  /\ pc = "calling" \/ InHand => idx < RungEnd
  /\ IsSeq(attempts) /\ Len(attempts) \in Nat
  /\ IsSeq(results) /\ Len(results) \in Nat

\* While an answer is in hand every gate of the route is still to run, was out of budget
\* when its turn came, has answered, or is one that elastic verification may leave out.
Accounted(p) ==
  \/ p \in todo
  \/ GateOrder[p] \in skipped
  \/ \E i \in 1..Len(results) : results[i].gate = GateOrder[p]
  \/ Elastic /\ GateOrder[p] \in Expensive /\ action # "verified"

\* An answer that elastic verification lets through stands at lambda, and nothing is
\* asked about it any more.
LetThrough ==
  action = "serve_skip" => pc = "gates" /\ todo = {} /\ ScoreAtLeast(results, policy.lambda)

GateHistory == InHand => LetThrough /\ \A p \in 1..Len(GateOrder) : Accounted(p)

GateInv ==
  Typed /\ GateHistory /\ (served # -1 => pc \in {"ran", "done"}) /\ ServedPastNoGate

LEMMA QueueTyped ==
  ASSUME NEW S, NEW q \in Seq(S), NEW e \in S
  PROVE  /\ Append(q, e) \in Seq(S) /\ Len(q) \in Nat
         /\ Len(q) > 0 => Tail(q) \in Seq(S)
OBVIOUS

\* An outcome keeps a gate's record one, and never takes a gate back into use.
LEMMA RecordedHealth ==
  ASSUME NEW h \in Health, NEW errored \in BOOLEAN
  PROVE  Recorded(h, errored) \in Health /\ (h.disabled => Recorded(h, errored).disabled)
<1>1. h.outcomes \in Seq(BOOLEAN) /\ h.disabled \in BOOLEAN
  BY DEF Health
<1>2. Pushed(h.outcomes, errored) \in Seq(BOOLEAN)
  <2>1. /\ Len(h.outcomes) \in Nat /\ Append(h.outcomes, errored) \in Seq(BOOLEAN)
        /\ Len(h.outcomes) > 0 => Tail(h.outcomes) \in Seq(BOOLEAN)
    BY <1>1, QueueTyped, Zenon
  <2>2. ~(Len(h.outcomes) < Window) => Len(h.outcomes) > 0
    BY <2>1, WindowAssumption
  <2>3. ~(Len(h.outcomes) < Window) => Append(Tail(h.outcomes), errored) \in Seq(BOOLEAN)
    BY <2>1, <2>2, QueueTyped, Zenon
  <2> QED BY <2>1, <2>3, Zenon DEF Pushed
<1> QED BY <1>1, <1>2 DEF Recorded, Health

\* So recording one for any gate keeps the table, and the gates out of use stay out.
LEMMA HealthKept ==
  ASSUME health \in [Gate -> Health], NEW g, NEW errored \in BOOLEAN,
         NEW h, h = [health EXCEPT ![g] = Recorded(@, errored)]
  PROVE  /\ h \in [Gate -> Health]
         /\ \A k \in Gate : health[k].disabled => h[k].disabled
<1>1. ASSUME NEW k \in Gate
      PROVE  h[k] \in Health /\ (health[k].disabled => h[k].disabled)
  <2>1. CASE k = g
    <3>1. h[k] = Recorded(health[k], errored)
      BY <2>1
    <3> QED BY <3>1, RecordedHealth
  <2>2. CASE k # g
    BY <2>2
  <2> QED BY <2>1, <2>2
<1>2. h = [k \in Gate |-> h[k]]
  OBVIOUS
<1> QED BY <1>1, <1>2

LEMMA ReplyShape ==
  ASSUME NEW j, NEW r \in Replies(j)
  PROVE  r.from = j /\ r.cost \in Nat
<1>1. CASE r \in [from : {j}, kind : {"unavailable", "overflow", "rejected"}, cost : {0}]
  BY <1>1
<1>2. CASE r \in [from : {j}, kind : {"answered"}, cost : CallCosts]
  BY <1>2, GateAssumption
<1> QED BY <1>1, <1>2 DEF Replies

\* The window of rungs is on the ladder, and the rung being tried with it.
LEMMA WindowTyped ==
  ASSUME Typed
  PROVE  /\ RungEnd \in Nat /\ RungEnd <= RungCount /\ start \in Nat /\ start < RungEnd
         /\ idx \in Nat /\ (idx < RungEnd => idx \in Rung)
<1>1. policy.maxRungs \in Nat \ {0} /\ start \in Nat /\ start < RungCount /\ idx \in Nat
  BY LadderAssumption, PolicyAssumption DEF Typed, TypeOK, Policy, Rung
<1> QED BY <1>1, LadderAssumption DEF RungEnd, Least, Rung

LEMMA InitTyped == Init => Typed /\ GateHistory /\ ServedPastNoGate /\ served = -1
<1> SUFFICES ASSUME Init PROVE Typed /\ GateHistory /\ ServedPastNoGate /\ served = -1
  OBVIOUS
<1>1. /\ attempts = <<>> /\ results = <<>> /\ Len(attempts) = 0 /\ Len(results) = 0
      /\ IsSeq(attempts) /\ IsSeq(results)
  BY DEF Init, IsSeq, Elements
<1>2. policy \in Policies /\ start \in Rung /\ idx = start /\ start \in Nat /\ start < RungCount
  BY WindowOnLadder, LadderAssumption DEF Init, Rung
<1>3. NewHealth \in Health
  BY DEF NewHealth, Health
<1>4. TypeOK
  <2>1. health \in [Gate -> Health] /\ others \in 0..MaxOthers
    BY <1>3, GateAssumption DEF Init
  <2>2. idx \in 0..RungCount
    BY <1>2, LadderAssumption
  <2>3. hard \in BOOLEAN
    BY DEF Init
  <2> QED BY <1>1, <1>2, <2>1, <2>2, <2>3 DEF Init, TypeOK, Actions
<1>5. policy.maxRungs \in Nat \ {0}
  BY <1>2, PolicyAssumption DEF Policy
<1>6. idx <= RungEnd
  BY <1>2, <1>5, LadderAssumption DEF RungEnd, Least
<1>7. pc = "rung" /\ served = -1
  BY DEF Init
<1> QED BY <1>1, <1>4, <1>6, <1>7 DEF Typed, GateHistory, InHand, ServedPastNoGate

\* One more attempt of a known kind keeps the attempts typed.
LEMMA AttemptsTyped ==
  ASSUME Typed, idx < RungEnd,
         NEW a, a.rung = idx, a.kind \in {"unavailable", "overflow", "rejected", "graded"},
         a.action \in Actions, attempts' = Append(attempts, a)
  PROVE  /\ IsSeq(attempts') /\ Len(attempts') = Len(attempts) + 1
         /\ Len(attempts') \in Nat /\ attempts'[Len(attempts')] = a
         /\ \A i \in 1..Len(attempts') :
              /\ attempts'[i].rung \in Rung
              /\ attempts'[i].kind \in {"unavailable", "overflow", "rejected", "graded"}
              /\ attempts'[i].action \in Actions
<1>1. IsSeq(attempts) /\ Len(attempts) \in Nat
  BY DEF Typed
<1>2. /\ IsSeq(attempts') /\ Len(attempts') = Len(attempts) + 1
      /\ \A i \in 1..Len(attempts) : attempts'[i] = attempts[i]
      /\ attempts'[Len(attempts) + 1] = a
  BY <1>1, AppendAttempt
<1>3. idx \in Rung
  BY WindowTyped
<1>4. ASSUME NEW i \in 1..Len(attempts')
      PROVE  /\ attempts'[i].rung \in Rung
             /\ attempts'[i].kind \in {"unavailable", "overflow", "rejected", "graded"}
             /\ attempts'[i].action \in Actions
  <2>1. i \in 1..Len(attempts) \/ i = Len(attempts) + 1
    BY <1>1, <1>2
  <2>2. CASE i \in 1..Len(attempts)
    BY <1>2, <2>2 DEF Typed, TypeOK
  <2>3. CASE i = Len(attempts) + 1
    BY <1>2, <1>3, <2>3
  <2> QED BY <2>1, <2>2, <2>3
<1> QED BY <1>1, <1>2, <1>4

-------------------------------------------------------------------------------
(* Steps keep the types and the account of every gate.                     *)

\* What was served past which gates stays true while an answer that cleared keeps the
\* account of its gates.
LEMMA ServedPastKept ==
  ASSUME ServedPastNoGate, UNCHANGED <<policy, attempts, served>>, served # -1 => skipped' = skipped
  PROVE  ServedPastNoGate'
<1> DEFINE a == attempts[Len(attempts)]
<1>1. UNCHANGED <<a, HadToPass(a), ScoreAtLeast(a.results, policy.lambda)>>
  BY DEF HadToPass, Elastic, VisibleGates, ScoreAtLeast, Scored, Total, Aggregate, Blocking
<1> QED BY <1>1 DEF ServedPastNoGate, Blocking

LEMMA FailureKeepsTypes ==
  ASSUME Typed, served = -1, idx < RungEnd,
         NEW kind \in {"unavailable", "overflow", "rejected"},
         attempts' = Append(attempts, Failure(kind)),
         \/ pc' = "rung" /\ idx' = idx + 1 /\ UNCHANGED hard
         \/ pc' = "ran" /\ UNCHANGED idx /\ hard' = TRUE,
         UNCHANGED <<policy, start, spent, carried, best, served, earlier, gateVars, outcome, healthVars>>
  PROVE  Typed' /\ GateHistory' /\ ServedPastNoGate' /\ served' = -1
<1>1. /\ Failure(kind).rung = idx /\ Failure(kind).kind = kind /\ Failure(kind).action \in Actions
  BY DEF Failure, Actions
<1>2. /\ IsSeq(attempts') /\ Len(attempts') \in Nat
      /\ \A i \in 1..Len(attempts') :
              /\ attempts'[i].rung \in Rung
              /\ attempts'[i].kind \in {"unavailable", "overflow", "rejected", "graded"}
              /\ attempts'[i].action \in Actions
  BY <1>1, AttemptsTyped
<1>3. /\ RungEnd \in Nat /\ RungEnd <= RungCount /\ idx \in Nat
  BY WindowTyped
<1>4. RungEnd' = RungEnd
  BY DEF RungEnd
<1>5. idx' \in 0..RungCount /\ (pc' = "rung" => idx' <= RungEnd') /\ pc' \in {"rung", "ran"}
  BY <1>3, <1>4, LadderAssumption DEF Typed, TypeOK
<1>10. hard' \in BOOLEAN
  BY Zenon DEF Typed, TypeOK
<1>6. UNCHANGED <<answer, results, gateSpend, action, health, others>>
  BY DEF gateVars, healthVars
<1>7. TypeOK'
  BY <1>2, <1>5, <1>6, <1>10 DEF Typed, TypeOK
<1>8. Typed'
  BY <1>2, <1>5, <1>6, <1>7 DEF Typed, InHand
<1>9. GateHistory' /\ ServedPastNoGate' /\ served' = -1
  BY <1>5 DEF GateHistory, InHand, ServedPastNoGate
<1> QED BY <1>8, <1>9

\* The next rung is called, or there is none.
LEMMA RungKeepsTypes ==
  ASSUME GateInv, CallProvider \/ LadderExhausted PROVE GateInv'
<1>1. /\ pc = "rung" /\ \/ idx < RungEnd /\ pc' = "calling"
                        \/ idx >= RungEnd /\ pc' = "ran"
      /\ UNCHANGED <<policy, idx, start, attempts, spent, carried, best, served, hard, earlier,
                     answer, todo, results, skipped, gateSpend, action, health, others>>
  BY DEF CallProvider, LadderExhausted, runVars, gateVars, healthVars
<1>2. RungEnd' = RungEnd
  BY <1>1 DEF RungEnd
<1>3. TypeOK'
  BY <1>1 DEF GateInv, Typed, TypeOK
<1>4. Typed'
  BY <1>1, <1>2, <1>3 DEF GateInv, Typed, InHand
<1>5. ServedPastNoGate'
  BY <1>1, ServedPastKept DEF GateInv
<1>6. GateHistory'
  BY <1>1 DEF GateHistory, InHand
<1> QED BY <1>1, <1>4, <1>5, <1>6 DEF GateInv

\* An answer puts every visible gate on the list.
LEMMA AnswerKeepsTypes ==
  ASSUME GateInv, NEW r \in Replies(idx), CallAnswers(r) PROVE GateInv'
<1>1. /\ pc = "calling" /\ pc' = "gates" /\ spent' = spent + r.cost /\ answer' = r.from
      /\ todo' = VisibleGates /\ results' = <<>> /\ gateSpend' = 0 /\ action' = "none"
      /\ served = -1
      /\ UNCHANGED <<policy, idx, start, attempts, carried, best, served, hard, earlier, health, others>>
  BY DEF CallAnswers, healthVars, GateInv
<1>2. RungEnd' = RungEnd /\ idx < RungEnd
  BY <1>1 DEF RungEnd, GateInv, Typed
<1>3. answer' \in Rung /\ spent' \in Nat
  BY <1>1, <1>2, ReplyShape, WindowTyped DEF GateInv, Typed, TypeOK
<1>4. TypeOK'
  BY <1>1, <1>3 DEF GateInv, Typed, TypeOK, Actions
<1>5. IsSeq(results') /\ Len(results') = 0
  BY <1>1 DEF IsSeq, Elements
<1>6. Typed'
  BY <1>1, <1>2, <1>4, <1>5 DEF GateInv, Typed, InHand
<1>7. ServedPastNoGate'
  BY <1>1, ServedPastKept DEF GateInv
<1>8. GateHistory'
  <2>1. ASSUME NEW p \in 1..Len(GateOrder) PROVE Accounted(p)'
    BY <1>1 DEF Accounted, VisibleGates, Elastic
  <2> QED BY <1>1, <2>1 DEF GateHistory, LetThrough
<1>9. served' = -1
  BY <1>1 DEF GateInv
<1> QED BY <1>6, <1>7, <1>8, <1>9 DEF GateInv

\* A gate leaves the list out of budget or with an answer.
LEMMA GateKeepsTypes ==
  ASSUME GateInv, SkipGate \/ StartGate \/ \E a \in Answers, c \in GateCosts : GateAnswers(a, c)
  PROVE  GateInv'
<1>1. /\ InHand /\ InHand' /\ pc' \in {"gates", "evaluating"}
      /\ UNCHANGED <<policy, idx, start, attempts, spent, carried, best, served, hard, earlier,
                     answer, action, others>>
  BY DEF InHand, SkipGate, StartGate, GateAnswers, runVars, gateVars, healthVars
<1>2. RungEnd' = RungEnd
  BY <1>1 DEF RungEnd
<1>3. /\ \A k \in Gate : health[k].disabled => health'[k].disabled
      /\ health' \in [Gate -> Health]
  <2>1. CASE SkipGate \/ StartGate
    BY <2>1 DEF SkipGate, StartGate, healthVars, GateInv, Typed, TypeOK
  <2>2. ASSUME NEW a \in Answers, NEW c \in GateCosts, GateAnswers(a, c)
        PROVE  /\ \A k \in Gate : health[k].disabled => health'[k].disabled
               /\ health' \in [Gate -> Health]
    <3>1. health' = Record(NextGate, a.verdict) /\ health \in [Gate -> Health]
      BY <2>2 DEF GateAnswers, GateInv, Typed, TypeOK
    <3>2. CASE NextGate \in Budgeted
      <4>1. health' = [health EXCEPT ![NextGate] = Recorded(@, a.verdict = "abstain")]
        BY <3>1, <3>2 DEF Record
      <4>2. (a.verdict = "abstain") \in BOOLEAN
        OBVIOUS
      <4> QED BY <3>1, <4>1, <4>2, HealthKept
    <3>3. CASE NextGate \notin Budgeted
      BY <3>1, <3>3 DEF Record
    <3> QED BY <3>2, <3>3
  <2> QED BY <2>1, <2>2
<1>4. /\ IsSeq(results') /\ Len(results') \in Nat /\ gateSpend' \in Nat
      /\ \A i \in 1..Len(results) : i \in 1..Len(results') /\ results'[i] = results[i]
      /\ skipped \subseteq skipped'
      /\ \/ todo' = todo
         \/ todo' = todo \ {Foremost}
            /\ \/ NextGate \in skipped'
               \/ \E i \in 1..Len(results') : results'[i].gate = NextGate
  <2>1. CASE SkipGate \/ StartGate
    BY <1>1, <2>1 DEF SkipGate, StartGate, gateVars, GateInv, Typed, TypeOK
  <2>2. CASE \E a \in Answers, c \in GateCosts : GateAnswers(a, c)
    <3> PICK a \in Answers, c \in GateCosts : GateAnswers(a, c)
      BY <2>2
    <3> DEFINE e == [gate |-> NextGate, verdict |-> a.verdict, score |-> a.score]
    <3>1. /\ results' = Append(results, e) /\ gateSpend' = gateSpend + c
          /\ todo' = todo \ {Foremost} /\ skipped' = skipped
      BY DEF GateAnswers
    <3>2. IsSeq(results) /\ Len(results) \in Nat /\ gateSpend \in Nat
      BY <1>1 DEF GateInv, Typed, TypeOK
    <3>3. /\ IsSeq(results') /\ Len(results') = Len(results) + 1
          /\ \A i \in 1..Len(results) : results'[i] = results[i]
          /\ results'[Len(results) + 1] = e
      BY <3>1, <3>2, AppendAttempt
    <3>4. gateSpend' \in Nat
      BY <3>1, <3>2, GateAssumption
    <3>5. /\ \A i \in 1..Len(results) : i \in 1..Len(results')
          /\ Len(results) + 1 \in 1..Len(results')
      BY <3>2, <3>3
    <3> QED BY <3>1, <3>2, <3>3, <3>4, <3>5
  <2> QED BY <2>1, <2>2
<1>5. TypeOK'
  BY <1>1, <1>3, <1>4 DEF GateInv, Typed, TypeOK
<1>6. Typed'
  BY <1>1, <1>2, <1>4, <1>5 DEF GateInv, Typed, InHand
<1>7. ServedPastNoGate'
  BY <1>1, ServedPastKept DEF GateInv, InHand
<1>8. ASSUME NEW p \in 1..Len(GateOrder) PROVE Accounted(p)'
  <2>1. Accounted(p)
    BY <1>1 DEF GateInv, GateHistory
  <2>2. GateOrder[p] \in Gate
    BY DEF Gate
  <2>3. p \in todo /\ p \notin todo' => NextGate = GateOrder[p]
    BY <1>4 DEF NextGate
  <2> QED BY <1>1, <1>4, <2>1, <2>2, <2>3 DEF Accounted, Elastic
<1>9. LetThrough'
  BY <1>1 DEF GateInv, GateHistory, LetThrough, SkipGate, StartGate, GateAnswers
<1>10. served' = -1
  BY <1>1 DEF GateInv, InHand
<1> QED BY <1>4, <1>6, <1>7, <1>8, <1>9, <1>10 DEF GateInv, GateHistory

\* Elastic verification decides on the visible gates, or puts the expensive ones on the list.
LEMMA ClassifyKeepsTypes ==
  ASSUME GateInv, Classify PROVE GateInv'
<1>1. /\ pc = "gates" /\ pc' = "gates" /\ todo = {} /\ Elastic /\ action = "none"
      /\ action' = Regime /\ todo' = IF Regime = "verified" THEN ExpensiveGates ELSE {}
      /\ UNCHANGED <<policy, idx, start, attempts, spent, carried, best, served, hard, earlier,
                     answer, results, skipped, gateSpend, health, others>>
  BY DEF Classify, runVars, healthVars
<1>2. RungEnd' = RungEnd
  BY <1>1 DEF RungEnd
<1>3. Regime \in Actions /\ (Regime = "serve_skip" => ScoreAtLeast(results, policy.lambda))
  BY DEF Regime, Actions
<1>4. TypeOK'
  BY <1>1, <1>3 DEF GateInv, Typed, TypeOK
<1>5. Typed'
  BY <1>1, <1>2, <1>4 DEF GateInv, Typed, InHand
<1>6. ServedPastNoGate'
  BY <1>1, ServedPastKept DEF GateInv
<1>7. ASSUME NEW p \in 1..Len(GateOrder) PROVE Accounted(p)'
  BY <1>1 DEF GateInv, GateHistory, InHand, Accounted, Elastic, ExpensiveGates
<1>8. LetThrough'
  BY <1>1, <1>3 DEF LetThrough, ScoreAtLeast, Scored, Total, Aggregate, Blocking
<1>9. GateHistory'
  BY <1>1, <1>7, <1>8 DEF GateHistory
<1> QED BY <1>1, <1>5, <1>6, <1>9 DEF GateInv

\* An answer that clears has every gate accounted for, with nothing left to run.
LEMMA GradeKeepsTypes ==
  ASSUME GateInv, Grade PROVE GateInv'
<1> DEFINE a == [rung |-> idx, kind |-> "graded", answer |-> answer,
                 results |-> results, action |-> action]
<1>1. /\ pc = "gates" /\ todo = {} /\ (Elastic => action # "none")
      /\ attempts' = Append(attempts, a) /\ best' = idx /\ spent' = spent + gateSpend
      /\ served' = (IF Clears(a) THEN idx ELSE -1)
      /\ \/ pc' = "ran" /\ UNCHANGED idx
         \/ pc' = "rung" /\ idx' = idx + 1 /\ ~Clears(a)
      /\ answer' = -1 /\ results' = <<>> /\ gateSpend' = 0 /\ action' = "none"
      /\ UNCHANGED <<policy, start, carried, hard, earlier, skipped, health, others>>
  BY DEF Grade, healthVars
<1>2. /\ idx < RungEnd /\ idx \in Rung /\ RungEnd \in Nat /\ RungEnd <= RungCount /\ idx \in Nat
      /\ action \in Actions
  BY <1>1, WindowTyped DEF GateInv, Typed, TypeOK, InHand
<1>3. /\ IsSeq(attempts') /\ Len(attempts') \in Nat /\ attempts'[Len(attempts')] = a
      /\ \A i \in 1..Len(attempts') :
              /\ attempts'[i].rung \in Rung
              /\ attempts'[i].kind \in {"unavailable", "overflow", "rejected", "graded"}
              /\ attempts'[i].action \in Actions
  BY <1>1, <1>2, AttemptsTyped DEF GateInv
<1>4. RungEnd' = RungEnd
  BY <1>1 DEF RungEnd
<1>5. /\ idx' \in 0..RungCount /\ (pc' = "rung" => idx' <= RungEnd') /\ pc' \in {"rung", "ran"}
      /\ served' \in Rung \cup {-1} /\ best' \in Rung \cup {-1} /\ spent' \in Nat
  BY <1>1, <1>2, <1>4, LadderAssumption DEF GateInv, Typed, TypeOK
<1>6. TypeOK'
  BY <1>1, <1>3, <1>5 DEF GateInv, Typed, TypeOK, Actions
<1>7. IsSeq(results') /\ Len(results') = 0
  BY <1>1 DEF IsSeq, Elements
<1>8. Typed'
  BY <1>3, <1>5, <1>6, <1>7 DEF Typed, InHand
<1>9. ServedPastNoGate'
  <2>1. /\ \A p \in 1..Len(GateOrder) : Accounted(p)
        /\ action = "serve_skip" => ScoreAtLeast(results, policy.lambda)
    BY <1>1 DEF GateInv, GateHistory, LetThrough, InHand
  <2>2. ASSUME NEW p \in HadToPass(a)
        PROVE  \/ \E k \in 1..Len(results) : results[k].gate = GateOrder[p]
               \/ GateOrder[p] \in skipped
    BY <1>1, <2>1 DEF HadToPass, VisibleGates, Accounted
  <2>3. Clears(a) /\ policy.threshold = None =>
          IF action = "serve_skip" THEN ScoreAtLeast(results, policy.lambda)
          ELSE \A k \in 1..Len(results) : ~Blocking(results[k])
    BY <2>1 DEF Clears, ShouldServe, Aggregate
  <2> PICK b : b = a
    OBVIOUS
  <2>4. /\ HadToPass(b)' = HadToPass(b) /\ b.results = results /\ b.action = action
        /\ ScoreAtLeast(b.results, policy.lambda)' <=> ScoreAtLeast(b.results, policy.lambda)
    BY <1>1 DEF HadToPass, Elastic, VisibleGates, ScoreAtLeast, Scored, Total, Aggregate, Blocking
  <2>5. served' # -1 => Clears(b)
    BY <1>1
  <2>6. \A p \in HadToPass(b) : \/ \E k \in 1..Len(b.results) : b.results[k].gate = GateOrder[p]
                               \/ GateOrder[p] \in skipped
    BY <2>2, <2>4
  <2>7. Clears(b) /\ policy.threshold = None =>
          IF b.action = "serve_skip" THEN ScoreAtLeast(b.results, policy.lambda)
          ELSE \A k \in 1..Len(b.results) : ~Blocking(b.results[k])
    BY <2>3, <2>4
  <2>8. attempts'[Len(attempts')] = b /\ UNCHANGED <<policy, skipped>>
    BY <1>1, <1>3
  <2> HIDE DEF a
  <2> QED BY <2>4, <2>5, <2>6, <2>7, <2>8 DEF ServedPastNoGate, Blocking
<1>10. GateHistory' /\ (served' # -1 => pc' \in {"ran", "done"})
  BY <1>1 DEF GateHistory, InHand
<1> QED BY <1>8, <1>9, <1>10 DEF GateInv

\* The request settles, or is condensed with nothing cleared.
LEMMA SettlementKeepsTypes ==
  ASSUME GateInv, Settlement PROVE GateInv'
<1>1. CASE ServeCleared \/ ServeBest \/ FailRequest
  <2>1. /\ pc = "ran" /\ pc' = "done"
        /\ UNCHANGED <<policy, idx, start, attempts, spent, carried, best, served, hard, earlier,
                       answer, todo, results, skipped, gateSpend, action, health, others>>
    BY <1>1 DEF ServeCleared, ServeBest, FailRequest, Settle, runVars, gateVars, healthVars
  <2>2. TypeOK'
    BY <2>1 DEF GateInv, Typed, TypeOK
  <2>3. Typed'
    BY <2>1, <2>2 DEF GateInv, Typed, InHand
  <2>4. ServedPastNoGate'
    BY <2>1, ServedPastKept DEF GateInv
  <2> QED BY <2>1, <2>3, <2>4 DEF GateInv, GateHistory, InHand
<1>2. CASE Condense
  <2>1. /\ pc' = "rung" /\ attempts' = <<>> /\ start' = RungCount - 1 /\ idx' = RungCount - 1
        /\ carried' = carried + spent /\ spent' = 0 /\ best' = -1 /\ hard' = FALSE
        /\ served = -1
        /\ UNCHANGED <<policy, served, answer, todo, results, skipped, gateSpend, action, health, others>>
    BY <1>2 DEF Condense, MayCondense, Overflowed, gateVars, healthVars
  <2>7. hard' \in BOOLEAN
    BY <2>1
  <2>2. IsSeq(attempts') /\ Len(attempts') = 0
    BY <2>1 DEF IsSeq, Elements
  <2>3. start' \in Rung /\ idx' \in 0..RungCount /\ start' \in Nat /\ start' = RungCount - 1
    BY <2>1, LadderAssumption DEF Rung
  <2>4. TypeOK'
    BY <2>1, <2>2, <2>3, <2>7 DEF GateInv, Typed, TypeOK
  <2>5. idx' <= RungEnd'
    <3>1. policy'.maxRungs \in Nat \ {0}
      BY <2>1, PolicyAssumption DEF GateInv, Typed, TypeOK, Policy
    <3> QED BY <2>1, <2>3, <3>1, LadderAssumption DEF RungEnd, Least
  <2>6. Typed'
    BY <2>1, <2>2, <2>4, <2>5 DEF GateInv, Typed, InHand
  <2> QED BY <2>1, <2>6 DEF GateInv, GateHistory, InHand, ServedPastNoGate
<1> QED BY <1>1, <1>2 DEF Settlement

\* Other requests change budgets, and nothing of this one.
LEMMA ElsewhereKeepsTypes ==
  ASSUME GateInv, Elsewhere \/ UNCHANGED ladderVars PROVE GateInv'
<1>1. /\ UNCHANGED <<pc, policy, idx, start, attempts, spent, carried, best, served, hard, earlier>>
      /\ UNCHANGED <<answer, todo, results, skipped, gateSpend, action>>
  BY DEF Elsewhere, OtherRequest, ladderVars, runVars, gateVars
<1>2. /\ \A k \in Gate : health[k].disabled => health'[k].disabled
      /\ health' \in [Gate -> Health] /\ others' \in 0..MaxOthers
  <2>1. CASE UNCHANGED ladderVars
    BY <2>1 DEF ladderVars, healthVars, GateInv, Typed, TypeOK
  <2>2. ASSUME NEW g \in Gate, NEW errored \in BOOLEAN, OtherRequest(g, errored)
        PROVE  /\ \A k \in Gate : health[k].disabled => health'[k].disabled
               /\ health' \in [Gate -> Health] /\ others' \in 0..MaxOthers
    <3>1. /\ others < MaxOthers /\ others' = others + 1
          /\ health' = [health EXCEPT ![g] = Recorded(@, errored)]
      BY <2>2 DEF OtherRequest
    <3>2. health \in [Gate -> Health] /\ others \in 0..MaxOthers
      BY DEF GateInv, Typed, TypeOK
    <3>3. others' \in 0..MaxOthers
      BY <3>1, <3>2, GateAssumption
    <3> QED BY <3>1, <3>2, <3>3, HealthKept
  <2> QED BY <2>1, <2>2 DEF Elsewhere
<1>3. RungEnd' = RungEnd
  BY <1>1 DEF RungEnd
<1>4. TypeOK'
  BY <1>1, <1>2 DEF GateInv, Typed, TypeOK
<1>5. Typed'
  BY <1>1, <1>3, <1>4 DEF GateInv, Typed, InHand
<1>6. ServedPastNoGate'
  BY <1>1, ServedPastKept DEF GateInv
<1>7. GateHistory'
  BY <1>1 DEF GateInv, GateHistory, InHand, Accounted, Elastic, LetThrough, ScoreAtLeast, Scored,
              Total, Aggregate, Blocking
<1> QED BY <1>1, <1>5, <1>6, <1>7 DEF GateInv

\* A request that is dropped cleared nothing.
LEMMA AbandonKeepsTypes ==
  ASSUME GateInv, Abandon PROVE GateInv'
<1>1. /\ pc \in {"calling", "evaluating"} /\ pc' = "gone"
      /\ UNCHANGED <<policy, idx, start, attempts, spent, carried, best, served, hard, earlier,
                     answer, todo, results, skipped, gateSpend, action, health, others>>
  BY DEF Abandon, runVars, gateVars, healthVars
<1>2. TypeOK'
  BY <1>1 DEF GateInv, Typed, TypeOK
<1>3. Typed' /\ GateHistory'
  BY <1>1, <1>2 DEF GateInv, Typed, GateHistory, InHand
<1>4. ServedPastNoGate'
  BY <1>1, ServedPastKept DEF GateInv
<1> QED BY <1>1, <1>3, <1>4 DEF GateInv

LEMMA GateInvariant == Spec => []GateInv
<1>1. Init => GateInv
  BY InitTyped DEF GateInv
<1>2. GateInv /\ [Next]_ladderVars => GateInv'
  <2> SUFFICES ASSUME GateInv, [Next]_ladderVars PROVE GateInv'
    OBVIOUS
  <2>1. pc \in {"rung", "calling"} => served = -1
    BY DEF GateInv
  <2>2. CASE MissingProvider
    BY <2>1, <2>2, FailureKeepsTypes DEF MissingProvider, GateInv
  <2>3. ASSUME NEW r \in Replies(idx), CallReturns(r) PROVE GateInv'
    <3>1. pc = "calling" => idx < RungEnd
      BY DEF GateInv, Typed
    <3>2. CASE CallFails(r)
      BY <2>1, <3>1, <3>2, FailureKeepsTypes DEF CallFails, GateInv
    <3>3. CASE CallRejected(r)
      BY <2>1, <3>1, <3>3, FailureKeepsTypes DEF CallRejected, GateInv
    <3>4. CASE CallAnswers(r)
      BY <3>4, AnswerKeepsTypes
    <3> QED BY <2>3, <3>2, <3>3, <3>4 DEF CallReturns
  <2>4. CASE CallProvider \/ LadderExhausted
    BY <2>4, RungKeepsTypes
  <2>5. CASE Evaluation
    BY <2>5, GateKeepsTypes, ClassifyKeepsTypes, GradeKeepsTypes DEF Evaluation
  <2>6. CASE Settlement
    BY <2>6, SettlementKeepsTypes
  <2>7. CASE Elsewhere \/ UNCHANGED ladderVars
    BY <2>7, ElsewhereKeepsTypes
  <2>8. CASE Abandon
    BY <2>8, AbandonKeepsTypes
  <2> QED BY <2>2, <2>3, <2>4, <2>5, <2>6, <2>7, <2>8 DEF Next, Step, Finished
<1> QED BY <1>1, <1>2, PTL DEF Spec

\* Every variable of a run keeps its type, the rung being tried among them: no mixture of
\* window, missing providers and retry takes it off the ladder (run_serial's rung_end).
THEOREM TypesAlways == Spec => []TypeOK
<1>1. GateInv => TypeOK
  BY DEF GateInv, Typed
<1> QED BY <1>1, GateInvariant, PTL

\* Under the verdict rule nothing is served past a gate that was in use when its turn
\* came, whatever other requests do to the gates' budgets meanwhile, but by elastic
\* verification on visible gates that reached lambda (eval_gates, should_serve).
THEOREM ServedPastNoGateAlways == Spec => []ServedPastNoGate
<1>1. GateInv => ServedPastNoGate
  BY DEF GateInv
<1> QED BY <1>1, GateInvariant, PTL
===============================================================================
