------------------------------ MODULE GateHealth ------------------------------
(***************************************************************************)
(* The error budget of one gate for one tenant (gate.rs GateHealth): a     *)
(* rolling window of outcomes, and a latch that takes the gate out of use. *)
(***************************************************************************)
EXTENDS Naturals, Sequences, FiniteSets

CONSTANTS
  Window,      \* outcomes kept
  MaxErrors    \* the largest error count of a full window within max_error_rate

ASSUME WindowAssumption == Window \in Nat \ {0}
ASSUME MaxErrorsAssumption == MaxErrors \in Nat

Health == [outcomes : Seq(BOOLEAN), disabled : BOOLEAN]
NewHealth == [outcomes |-> <<>>, disabled |-> FALSE]

Errors(q) == Cardinality({i \in 1..Len(q) : q[i]})

\* push_back, then pop_front down to the window.
Pushed(q, errored) ==
  IF Len(q) < Window THEN Append(q, errored) ELSE Append(Tail(q), errored)

\* The budget is judged on full windows only; a disabled gate stays disabled.
Recorded(h, errored) ==
  LET q == Pushed(h.outcomes, errored) IN
  [outcomes |-> q,
   disabled |-> h.disabled \/ (Len(q) = Window /\ Errors(q) > MaxErrors)]
===============================================================================
