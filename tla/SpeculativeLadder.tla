--------------------------- MODULE SpeculativeLadder ---------------------------
(***************************************************************************)
(* router.rs run_speculative: calls run ahead of the rung being graded, as *)
(* tasks that finish in any order, while answers are awaited and graded in *)
(* ladder order.  What was called for nothing is billed at the end.        *)
(***************************************************************************)
EXTENDS Ladder

CONSTANT Speculation   \* rungs called ahead

ASSUME SpeculationAssumption == Speculation \in Nat \ {0}
\* The engine ignores the route's elastic section: every gate runs.
ASSUME ElasticIgnored == \A p \in Policies : p.lambda = None

VARIABLES
  inflight,  \* rung -> its task: none, running, or what it came to
  wasted     \* part of spent billed for calls that were never graded

tasks == <<inflight, wasted>>
vars == <<ladderVars, tasks>>

NoTask == [from |-> -1, kind |-> "none", cost |-> 0]
Running == [from |-> -1, kind |-> "running", cost |-> 0]

InitSpeculative == Init /\ inflight = [j \in Rung |-> NoTask] /\ wasted = 0

\* The head of the loop: the rung to grade is called, those ahead of it while
\* the budget lasts.
Ahead == idx..Least(idx + Speculation, RungEnd - 1)
\* Mutant: a call whose answer was taken is made again.
FireAgain ==
  inflight' = [j \in Rung |->
    IF /\ j \in policy.reachable /\ inflight[j] = NoTask
       /\ j \in (idx - 1)..Least(idx + Speculation, RungEnd - 1)
    THEN Running ELSE inflight[j]]
Fire ==
  inflight' = [j \in Rung |->
    IF /\ j \in policy.reachable /\ inflight[j] = NoTask
       /\ j \in Ahead /\ (j = idx \/ ~CapReached(spent))
    THEN Running ELSE inflight[j]]

\* A task ends whenever it likes, in any order, after its run too; one that panicked
\* reads as unavailable.
Lands(j, r) ==
  /\ inflight[j] = Running
  /\ inflight' = [inflight EXCEPT ![j] = r]
  /\ UNCHANGED <<ladderVars, wasted>>

\* Answers are taken in ladder order, each from the task of its rung.
\* Mutant: the first task to end is taken for the rung being graded.
TakeAny(r) ==
  \E j \in Rung : inflight[j] = r /\ inflight' = [inflight EXCEPT ![j] = NoTask]
Take(r) == inflight[idx] = r /\ inflight' = [inflight EXCEPT ![idx] = NoTask]

Begin ==
  /\ MissingProvider \/ CallProvider
  /\ Fire /\ UNCHANGED wasted
CallReturns(r) ==
  /\ pc = "calling" /\ Take(r)
  /\ CallFails(r) \/ CallRejected(r) \/ CallAnswers(r)
  /\ UNCHANGED wasted

\* After the loop: what finished was billed, what still runs is aborted.
Harvest(j) ==
  /\ pc = "ran" /\ inflight[j] # NoTask
  /\ spent' = spent + inflight[j].cost /\ wasted' = wasted + inflight[j].cost
  /\ inflight' = [inflight EXCEPT ![j] = NoTask]
  /\ UNCHANGED <<policy, pc, idx, start, attempts, carried, best, served, hard, earlier,
                 gateVars, outcome, healthVars>>
Harvested == \A j \in Rung : inflight[j] = NoTask

Step ==
  \/ Begin
  \/ \E j \in Rung : \E r \in Replies(j) : CallReturns(r)
  \/ (LadderExhausted \/ Evaluation) /\ UNCHANGED tasks
  \/ \E j \in Rung : Harvest(j)
  \/ Harvested /\ Settlement /\ UNCHANGED tasks
Landing == \E j \in Rung : \E r \in Replies(j) : Lands(j, r)
\* A run that is dropped drops its JoinHandles with it, which detaches the tasks and
\* aborts none: Abandon leaves them, and they go on to land.
Next == Step \/ Landing \/ ((Abandon \/ Elsewhere \/ Finished) /\ UNCHANGED tasks)

Spec == InitSpeculative /\ [][Next]_vars
FairSpec == Spec /\ WF_vars(Step) /\ WF_vars(Landing)

-------------------------------------------------------------------------------
(* What a client and an auditor see is what the serial engine would show:  *)
(* the same attempts, answers and spend, but for the wasted calls.         *)
Serial == INSTANCE SerialLadder WITH spent <- spent - wasted

\* Speculation changes nothing but latency and honest waste (run_speculative's
\* own comment), whatever order the calls end in.
ImplementsSerial == Serial!Spec

\* No rung is called twice in a run, and none outside the calls ahead of the rung at
\* hand: a run that comes to its end leaves no call behind, and one that is dropped no
\* more than these, all of rungs it had not graded; it has billed none of them.
InFlightInWindow ==
  /\ \A j \in Rung : inflight[j] # NoTask =>
       /\ j \in Ahead
       /\ \A i \in 1..Len(attempts) : attempts[i].rung # j
  /\ pc = "done" => Harvested
  /\ pc = "gone" => wasted = 0

\* Calls ahead stop at the budget: waste alone never takes the total over it.
SpeculationWithinCap ==
  policy.cap # None /\ spent - wasted <= policy.cap => spent <= policy.cap
===============================================================================
