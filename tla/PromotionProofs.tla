--------------------------- MODULE PromotionProofs ---------------------------
(***************************************************************************)
(* Proofs about Promotion, for any ladder, thresholds and number of turns  *)
(* in flight: however overlapping turns overwrite each other's pin, a      *)
(* session is pinned no higher than one of its turns had to climb.         *)
(***************************************************************************)
EXTENDS Promotion, TLAPS

Served(t) == turn[t].pc \in {"read", "write"}

Earned(p) == p # None => p.rung <= climbed

\* A pin in the store, or in the hands of a turn about to change and write it back,
\* is no higher than the highest climb; and the climb of a turn that was served
\* above its start is in the history before the turn records it.
PinInv ==
  /\ TypeOK
  /\ Earned(pin)
  /\ \A t \in Turns :
       /\ Earned(turn[t].read)
       /\ Served(t) /\ turn[t].served > turn[t].start => turn[t].served <= climbed

-------------------------------------------------------------------------------
LEMMA FreshIsPin == FreshPin \in Pin
BY PromotionAssumption DEF FreshPin, Pin, Rung, Period, Higher

\* A decision stays on the ladder, whatever pin it saw (decide).
LEMMA StartOnLadder ==
  ASSUME NEW p \in Pin \cup {None}
  PROVE  Start(p) \in Rung
<1>1. CASE p = None
  BY <1>1, PromotionAssumption DEF Start, Probes, Promoted, Rung
<1>2. CASE p \in Pin
  BY <1>2, PromotionAssumption DEF Start, Probes, Promoted, Rung, Pin
<1> QED BY <1>1, <1>2

\* Changing a pin for a turn gives a pin, no higher than the one it was and the rung
\* the turn climbed to (record_async).
LEMMA RecordedIsEarned ==
  ASSUME NEW p \in Pin, NEW served \in Rung, NEW start \in Rung,
         NEW bound \in Nat, p.rung <= bound, served > start => served <= bound
  PROVE  /\ Recorded(p, served, start) \in Pin
         /\ Recorded(p, served, start).rung <= bound
<1> USE PromotionAssumption DEF Pin, Rung
<1>1. Period \in Nat /\ \A n \in Nat : Atmost(n, Period) \in 0..Period
  BY DEF Period, Higher, Atmost
<1>2. \A n \in Nat : Atmost(n, AfterFailures) \in 0..AfterFailures
  BY DEF Atmost
<1>3. CASE served > start
  <2>1. Recorded(p, served, start)
          = [rung |-> Higher(p.rung, served),
             failures |-> Atmost(p.failures + 1, AfterFailures), sinceProbe |-> 0]
    BY <1>3 DEF Recorded
  <2>2. Higher(p.rung, served) \in Rung /\ Higher(p.rung, served) <= bound
    BY <1>3 DEF Higher
  <2>3. Atmost(p.failures + 1, AfterFailures) \in 0..AfterFailures /\ 0 \in 0..Period
    BY <1>1, <1>2
  <2> QED BY <2>1, <2>2, <2>3
<1>4. CASE ~(served > start) /\ served < p.rung
  <2>1. Recorded(p, served, start) = [rung |-> served, failures |-> 0, sinceProbe |-> 0]
    BY <1>4 DEF Recorded
  <2> QED BY <1>1, <1>4, <2>1
<1>5. CASE ~(served > start) /\ ~(served < p.rung)
  <2>1. Recorded(p, served, start)
          = [p EXCEPT !.sinceProbe = Atmost(p.sinceProbe + 1, Period)]
    BY <1>5 DEF Recorded
  <2>2. Atmost(p.sinceProbe + 1, Period) \in 0..Period
    BY <1>1
  <2> QED BY <2>1, <2>2
<1> QED BY <1>3, <1>4, <1>5

-------------------------------------------------------------------------------
LEMMA InitPinned == Init => PinInv
<1> SUFFICES ASSUME Init PROVE PinInv
  OBVIOUS
<1>1. 0 \in Rung
  BY PromotionAssumption DEF Rung
<1>2. turn \in [Turns -> [pc : {"idle", "route", "read", "write"}, start : Rung,
                         served : Rung, read : Pin \cup {None}]]
  BY <1>1 DEF Init, Idle
<1>3. TypeOK
  BY <1>1, <1>2 DEF Init, TypeOK
<1> QED BY <1>3 DEF Init, PinInv, Earned, Served, Idle

\* Each step keeps it.
LEMMA NextPinned == PinInv /\ [Next]_vars => PinInv'
<1> SUFFICES ASSUME PinInv, [Next]_vars PROVE PinInv'
  OBVIOUS
<1> USE PromotionAssumption DEF PinInv
<1>0. /\ \A t \in Turns : /\ turn[t].start \in Rung /\ turn[t].served \in Rung
                          /\ turn[t].read \in Pin \cup {None}
      /\ climbed \in Rung /\ Top \in Nat
  BY DEF TypeOK
<1>1. ASSUME NEW t \in Turns, Decide(t) PROVE PinInv'
  <2>1. PICK chosen \in IF easy THEN {0} ELSE Rung, seen \in IF easy THEN {pin} ELSE {pin, None} :
          Becomes(t, [pc |-> "route", start |-> Higher(chosen, Start(seen)), served |-> 0,
                      read |-> None])
    BY <1>1, Zenon DEF Decide
  <2> chosen \in Rung /\ seen \in {pin, None}
    BY DEF Rung
  <2>2. Start(seen) \in Rung
    BY StartOnLadder DEF TypeOK
  <2>3. Higher(chosen, Start(seen)) \in Rung
    BY <2>2 DEF Higher, Rung
  <2>4. TypeOK'
    BY <1>1, <2>1, <2>3 DEF Decide, Becomes, TypeOK, Rung
  <2> QED BY <1>1, <2>1, <2>4 DEF Decide, Becomes, TypeOK, Earned, Served
<1>2. ASSUME NEW t \in Turns, Route(t) PROVE PinInv'
  <2>1. PICK served \in IF easy THEN {turn[t].start} ELSE turn[t].start..Top :
          /\ Becomes(t, [pc |-> "read", start |-> turn[t].start, served |-> served,
                         read |-> None])
          /\ climbed' = IF served > turn[t].start THEN Higher(climbed, served) ELSE climbed
    BY <1>2, Zenon DEF Route
  <2> served \in Rung /\ turn[t].start \in Rung
    BY <1>0 DEF Rung
  <2>2. /\ climbed' \in Rung /\ climbed <= climbed'
        /\ served > turn[t].start => served <= climbed'
    BY <1>0, <2>1 DEF Higher, Rung
  <2>3. TypeOK'
    BY <1>2, <2>1, <2>2 DEF Route, Becomes, TypeOK
  <2>4. \A p \in Pin \cup {None} : Earned(p) => Earned(p)'
    BY <1>0, <2>2 DEF Earned, Pin, Rung
  <2>5. ASSUME NEW u \in Turns
        PROVE  /\ Earned(turn[u].read)'
               /\ Served(u)' /\ turn'[u].served > turn'[u].start => turn'[u].served <= climbed'
    <3>1. CASE u = t
      BY <1>0, <2>1, <2>2, <2>4, <3>1 DEF Becomes, TypeOK, Served, Earned
    <3>2. CASE u # t
      BY <1>0, <2>1, <2>2, <2>4, <3>2 DEF Becomes, TypeOK, Served, Rung, Earned
    <3> QED BY <3>1, <3>2
  <2> QED BY <1>2, <2>3, <2>4, <2>5 DEF Route, TypeOK, Earned
<1>3. ASSUME NEW t \in Turns, Abandon(t) PROVE PinInv'
  <2>1. TypeOK'
    BY <1>3 DEF Abandon, Becomes, TypeOK, Idle, Rung
  <2> QED BY <1>3, <2>1 DEF Abandon, Becomes, TypeOK, Earned, Served, Idle
<1>4. ASSUME NEW t \in Turns, ReadPin(t) PROVE PinInv'
  <2>1. PICK seen \in {pin, None} :
          turn' = [turn EXCEPT ![t] = [pc |-> "write", start |-> turn[t].start,
                                       served |-> turn[t].served, read |-> seen]]
    BY <1>4 DEF ReadPin, Becomes
  <2>2. TypeOK'
    BY <1>4, <2>1 DEF ReadPin, TypeOK
  <2> QED BY <1>4, <2>1, <2>2 DEF ReadPin, TypeOK, Earned, Served
<1>5. ASSUME NEW t \in Turns, WritePin(t) PROVE PinInv'
  <2> DEFINE read == IF turn[t].read = None THEN FreshPin ELSE turn[t].read
  <2>1. read \in Pin /\ read.rung <= climbed
    BY <1>0, FreshIsPin DEF Earned, FreshPin, Rung
  <2> HIDE DEF read
  <2>2. /\ Recorded(read, turn[t].served, turn[t].start) \in Pin
        /\ Recorded(read, turn[t].served, turn[t].start).rung <= climbed
    <3>1. turn[t].served > turn[t].start => turn[t].served <= climbed
      BY <1>5 DEF WritePin, Served
    <3>2. climbed \in Nat
      BY <1>0 DEF Rung
    <3> QED BY <1>0, <2>1, <3>1, <3>2, RecordedIsEarned
  <2>3. pin' \in {pin, Recorded(read, turn[t].served, turn[t].start)}
    BY <1>5 DEF WritePin, read
  <2>4. UNCHANGED climbed /\ Earned(pin)' /\ pin' \in Pin \cup {None}
    BY <1>5, <2>2, <2>3 DEF WritePin, Earned, TypeOK
  <2>5. TypeOK'
    BY <1>5, <2>4 DEF WritePin, Becomes, TypeOK, Idle, Rung
  <2> QED BY <1>5, <2>4, <2>5 DEF WritePin, Becomes, TypeOK, Earned, Served, Idle
<1>6. CASE Expire
  BY <1>6 DEF Expire, TypeOK, Earned, Served
<1>7. CASE Settle
  BY <1>7 DEF Settle, TypeOK, Earned, Served
<1>8. CASE UNCHANGED vars
  BY <1>8 DEF vars, TypeOK, Earned, Served
<1> QED BY <1>1, <1>2, <1>3, <1>4, <1>5, <1>6, <1>7, <1>8 DEF Next, Step

\* Every variable keeps its type: no decision leaves the ladder, no counter of a pin
\* passes its threshold.
THEOREM TypeCorrect == Spec => []TypeOK
BY InitPinned, NextPinned, PTL DEF Spec, PinInv

\* The session is promoted only as far as a turn of it had to climb (affinity.rs).
THEOREM PinAlwaysEarned == Spec => []PinIsEarned
<1>1. PinInv => PinIsEarned
  BY DEF PinInv, Earned, PinIsEarned, Promoted
<1> QED BY <1>1, InitPinned, NextPinned, PTL DEF Spec
===============================================================================
