-------------------------- MODULE MCSpeculativeLadder --------------------------
(* Instances of SpeculativeLadder for TLC. *)
EXTENDS SpeculativeLadder

CONSTANTS g1, g2
OneGate == <<g1>>

\* A cap that two rungs reach, condensing on; a short climb from rung 1, uncapped;
\* and a cap one rung reaches, with a rung that has no provider.
SomePolicies ==
  {[reachable |-> Rung, startRung |-> 0, maxRungs |-> 3, cap |-> 2,
    threshold |-> None, lambda |-> None, condensable |-> TRUE],
   [reachable |-> Rung, startRung |-> 1, maxRungs |-> 1, cap |-> None,
    threshold |-> None, lambda |-> None, condensable |-> TRUE],
   [reachable |-> {0, 2}, startRung |-> 0, maxRungs |-> 3, cap |-> 1,
    threshold |-> None, lambda |-> None, condensable |-> FALSE]}

Verdicts == {[verdict |-> v, score |-> None] : v \in Verdict}
===============================================================================
