------------------------------ MODULE Guardrail ------------------------------
(***************************************************************************)
(* The guardrail of one route on one replica (guard.rs, guardrail.rs), as  *)
(* operators: a window of reported outcomes and the time until which the   *)
(* route is demoted.  An outcome is kept as the feedback post it came in.  *)
(***************************************************************************)
EXTENDS Naturals, Sequences, FiniteSets

CONSTANTS
  Window,      \* outcomes kept
  MinN,        \* min_n: fewer are not judged
  Tolerated,   \* the most failures whose confidence bound stays within alpha
  Cooldown     \* guardrail_cooldown_secs

ASSUME GuardAssumption ==
  /\ Window \in Nat \ {0} /\ MinN \in 1..Window
  /\ Tolerated \in Nat /\ Cooldown \in Nat

Calm == [outcomes |-> <<>>, until |-> 0]

Demoted(g, now) == now < g.until

\* A window may fail only if it failed at all: Guardrail::validate refuses a min_n
\* for which a window without failures would breach.
Breached(w, failed) ==
  Len(w) >= MinN /\ Cardinality({i \in 1..Len(w) : w[i] \in failed}) > Tolerated

Pushed(w, p) == IF Len(w) < Window THEN Append(w, p) ELSE Append(Tail(w), p)

\* Mutant: the window survives the demotion it caused.
RecordedKeepingWindow(g, p, failed, now) ==
  LET w == Pushed(g.outcomes, p) IN
  IF ~Demoted(g, now) /\ Breached(w, failed)
  THEN [outcomes |-> w, until |-> now + Cooldown]
  ELSE [g EXCEPT !.outcomes = w]

\* A demoted route goes on collecting outcomes and is not demoted again; a breach
\* demotes it and clears the window.
Recorded(g, p, failed, now) ==
  LET w == Pushed(g.outcomes, p) IN
  IF ~Demoted(g, now) /\ Breached(w, failed)
  THEN [outcomes |-> <<>>, until |-> now + Cooldown]
  ELSE [g EXCEPT !.outcomes = w]
===============================================================================
