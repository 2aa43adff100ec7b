---------------------------- MODULE MCSerialLadder ----------------------------
(* Instances of SerialLadder for TLC. *)
EXTENDS SerialLadder

CONSTANTS g1, g2
TwoGates == <<g1, g2>>

Routed(reachable, startRung, maxRungs, cap, threshold, lambda, condensable) ==
  [reachable |-> reachable, startRung |-> startRung, maxRungs |-> maxRungs,
   cap |-> cap, threshold |-> threshold, lambda |-> lambda, condensable |-> condensable]

\* The verdict rule with a cap and condensing; elastic verification over it, one
\* rung without a provider, and a lambda only a full score reaches or a failing one too;
\* a calibrated threshold with elastic verification, from rung 1 and uncapped.
SomePolicies ==
  {Routed(Rung, 0, 3, 2, None, None, TRUE),
   Routed({0, 2}, 0, 3, None, None, 2, FALSE),
   Routed({0, 2}, 1, 3, None, None, 1, FALSE),
   Routed(Rung, 1, 7, None, 1, 2, TRUE)}

Says(verdict, score) == [verdict |-> verdict, score |-> score]
\* Scores and verdicts need not agree.
SomeAnswers ==
  {Says("pass", 2), Says("pass", 0), Says("fail", 1), Says("fail", 0), Says("abstain", None)}
===============================================================================
