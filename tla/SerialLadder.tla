----------------------------- MODULE SerialLadder -----------------------------
(* router.rs run_serial: one rung at a time.  A request, with the          *)
(* outcomes other requests record meanwhile.                               *)
EXTENDS Ladder

CallReturns(r) == CallFails(r) \/ CallRejected(r) \/ CallAnswers(r)

Step ==
  \/ MissingProvider \/ CallProvider \/ LadderExhausted
  \/ \E r \in Replies(idx) : CallReturns(r)
  \/ Evaluation \/ Settlement
Next == Step \/ Abandon \/ Elsewhere \/ Finished

Spec == Init /\ [][Next]_ladderVars

\* The request is one task: it runs on, and every provider call and gate it
\* awaits answers or times out (a subprocess gate when SubprocessGate's
\* EndsIfHeeded applies to it).  Nothing is assumed of other requests, nor that a
\* client leaves or stays.
FairSpec == Spec /\ WF_ladderVars(Step)
===============================================================================
