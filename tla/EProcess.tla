------------------------------ MODULE EProcess ------------------------------
(***************************************************************************)
(* Where an experiment stands (select.rs), as a function of the evidence   *)
(* it was shown, in order.  An item of evidence is one session's outcome   *)
(* of an arm (1 or 0), or one pair: the incumbent's outcome less the       *)
(* challenger's (-1, 0 or 1).                                              *)
(***************************************************************************)
EXTENDS Integers, Sequences, FiniteSets

CONSTANTS
  Level   \* the log-wealth that decides, in units of a tie's bet

ASSUME LevelAssumption == Level \in Nat \ {0}

Least(m, n) == IF m <= n THEN m ELSE n

\* The items of s at the positions of I, in their order.
Pick(s, I) ==
  [k \in 1..Cardinality(I) |-> s[CHOOSE i \in I : Cardinality({j \in I : j <= i}) = k]]

OfArm(evidence, arm) == Pick(evidence, {i \in 1..Len(evidence) : evidence[i].arm = arm})

\* Pairs come as they are; single outcomes pair up first come, first served, the
\* k-th of one arm with the k-th of the other (observe_outcome's queues).
Differences(evidence) ==
  LET pairs == OfArm(evidence, "pair")
      inc == OfArm(evidence, "incumbent")
      ch == OfArm(evidence, "challenger") IN
  [k \in 1..Len(pairs) |-> pairs[k].x]
    \o [k \in 1..Least(Len(inc), Len(ch)) |-> inc[k].x - ch[k].x]

Times(d, k, value) == Cardinality({i \in 1..k : d[i] = value})

\* One bet stands for the grid of bets, whose wealth moves the same way with each
\* difference: a tie is half a win for the bet that the challenger is no worse, and
\* half a loss for the bet that it is.
Certifies(d, k) == 2 * Times(d, k, -1) + Times(d, k, 0) - 2 * Times(d, k, 1) >= Level
Halts(d, k) == 2 * Times(d, k, 1) - Times(d, k, 0) - 2 * Times(d, k, -1) >= Level

\* The first pair that reaches the level decides, and the test is closed.
Status(evidence) ==
  LET d == Differences(evidence)
      decisive == {k \in 1..Len(d) : Certifies(d, k) \/ Halts(d, k)} IN
  IF decisive = {} THEN "undecided"
  ELSE LET first == CHOOSE k \in decisive : \A j \in decisive : k <= j IN
       IF Certifies(d, first) THEN "certified" ELSE "halted"

\* What has an item's session or trace id is not counted again (sessions,
\* applied_pair_ids).
Known(evidence, id) == \E i \in 1..Len(evidence) : evidence[i].id = id
\* Mutant: a record is counted whenever it comes.
CountedAgain(evidence, e) == Append(evidence, e)
Counted(evidence, e) == IF Known(evidence, e.id) THEN evidence ELSE Append(evidence, e)

\* What counts when the records s[first] .. s[last] come after this evidence: those not
\* known, and of several with one id the first.
New(evidence, s, first, last) ==
  {i \in first..last : /\ ~Known(evidence, s[i].id)
                       /\ \A k \in first..(i - 1) : s[k].id # s[i].id}
=============================================================================
