------------------------------ MODULE Promotion ------------------------------
(***************************************************************************)
(* Session promotion (affinity.rs, and its two calls in proxy.rs): turns   *)
(* of one session that had to climb pin the session to a higher start      *)
(* rung, and every ProbeEvery turns one starts a rung lower to see whether *)
(* the pin is still needed.  Turns overlap, and the pin is read, changed   *)
(* and written in separate steps.                                          *)
(***************************************************************************)
EXTENDS Integers

CONSTANTS
  Turns,          \* turns of the session in flight at once; each slot is used again
  Top,            \* the highest rung of the ladder
  AfterFailures,  \* after_failures
  ProbeEvery,     \* probe_every
  None

ASSUME PromotionAssumption == Top \in Nat /\ AfterFailures \in Nat /\ ProbeEvery \in Nat

Rung == 0..Top
Atmost(n, bound) == IF n <= bound THEN n ELSE bound
Higher(i, j) == IF i >= j THEN i ELSE j

\* probe_every of 0 reads as 1.
Period == Higher(ProbeEvery, 1)

\* The counters saturate; they are only compared with their thresholds, so here
\* they stop at them.
Pin == [rung : Rung, failures : 0..AfterFailures, sinceProbe : 0..Period]
FreshPin == [rung |-> 0, failures |-> 0, sinceProbe |-> 0]

VARIABLES
  pin,      \* what the store holds for the session, or None
  turn,     \* each slot: where it is, where it started, what served it, the pin it read
  easy,     \* environment: from now on every turn passes where it starts
  climbed   \* history: the highest rung a turn of the session had to climb to

vars == <<pin, turn, easy, climbed>>

Idle == [pc |-> "idle", start |-> 0, served |-> 0, read |-> None]

TypeOK ==
  /\ pin \in Pin \cup {None}
  /\ turn \in [Turns -> [pc : {"idle", "route", "read", "write"}, start : Rung,
                         served : Rung, read : Pin \cup {None}]]
  /\ easy \in BOOLEAN /\ climbed \in Rung

Init ==
  /\ pin = None /\ turn = [t \in Turns |-> Idle]
  /\ easy = FALSE /\ climbed = 0

-------------------------------------------------------------------------------
(* Rules on a pin.                                                         *)

Promoted(p) == p # None /\ p.failures >= AfterFailures /\ p.rung > 0
Probes(p) == Promoted(p) /\ p.sinceProbe >= Period

\* Mutant: the promotion is never put to the test.
StartWithoutProbe(p) == IF Promoted(p) THEN p.rung ELSE 0
\* decide: cold, promoted, or a probe one rung lower.
Start(p) ==
  IF Probes(p) THEN p.rung - 1 ELSE IF Promoted(p) THEN p.rung ELSE 0

\* Mutant: a climb pins the rung above the one that served.
RecordedOneHigher(p, served, start) ==
  IF served > start
  THEN [rung |-> Higher(p.rung, Atmost(served + 1, Top)),
        failures |-> Atmost(p.failures + 1, AfterFailures), sinceProbe |-> 0]
  ELSE IF served < p.rung
  THEN [rung |-> served, failures |-> 0, sinceProbe |-> 0]
  ELSE [p EXCEPT !.sinceProbe = Atmost(@ + 1, Period)]

\* record_async between its load and its store.  A climb is judged against where
\* this turn started; a turn served below the pin releases it.
Recorded(p, served, start) ==
  IF served > start
  THEN [rung |-> Higher(p.rung, served),
        failures |-> Atmost(p.failures + 1, AfterFailures), sinceProbe |-> 0]
  ELSE IF served < p.rung
  THEN [rung |-> served, failures |-> 0, sinceProbe |-> 0]
  ELSE [p EXCEPT !.sinceProbe = Atmost(@ + 1, Period)]

-------------------------------------------------------------------------------
(* Steps of a turn.                                                        *)

Becomes(t, r) == turn' = [turn EXCEPT ![t] = r]

\* decide_async, a floor under what the bandit, exploration or the Max preset
\* choose; a failed read of a shared store reads as cold.
Decide(t) ==
  /\ turn[t].pc = "idle"
  /\ \E chosen \in IF easy THEN {0} ELSE Rung, seen \in IF easy THEN {pin} ELSE {pin, None} :
       Becomes(t, [pc |-> "route", start |-> Higher(chosen, Start(seen)), served |-> 0,
                   read |-> None])
  /\ UNCHANGED <<pin, easy, climbed>>

\* route_enforce serves a rung from the start up (an answer that passed, or the
\* best of those that did not).
Route(t) ==
  /\ turn[t].pc = "route"
  /\ \E served \in IF easy THEN {turn[t].start} ELSE turn[t].start..Top :
       /\ Becomes(t, [pc |-> "read", start |-> turn[t].start, served |-> served,
                      read |-> None])
       /\ climbed' = IF served > turn[t].start THEN Higher(climbed, served) ELSE climbed
  /\ UNCHANGED <<pin, easy>>

\* Nothing was served, the client of a buffered turn has left, or a gate panicked:
\* nothing is recorded.
Abandon(t) ==
  /\ turn[t].pc \in {"route", "read", "write"} /\ ~easy
  /\ Becomes(t, Idle)
  /\ UNCHANGED <<pin, easy, climbed>>

\* The load of record_async; a failed one starts a fresh pin.
ReadPin(t) ==
  /\ turn[t].pc = "read"
  /\ \E seen \in IF easy THEN {pin} ELSE {pin, None} :
       Becomes(t, [pc |-> "write", start |-> turn[t].start, served |-> turn[t].served,
                   read |-> seen])
  /\ UNCHANGED <<pin, easy, climbed>>

\* Its store: last write wins.  A shared store may fail to take it.
WritePin(t) ==
  /\ turn[t].pc = "write"
  /\ LET read == IF turn[t].read = None THEN FreshPin ELSE turn[t].read IN
     \/ pin' = Recorded(read, turn[t].served, turn[t].start)
     \/ ~easy /\ UNCHANGED pin
  /\ Becomes(t, Idle)
  /\ UNCHANGED <<easy, climbed>>

\* The idle TTL ran out, or other sessions pushed this one out of a full map.
Expire ==
  /\ pin # None
  /\ pin' = None
  /\ UNCHANGED <<turn, easy, climbed>>

\* The session's requests become ones its cheapest rung can answer, and its
\* stores stop failing.
Settle ==
  /\ ~easy /\ easy' = TRUE
  /\ UNCHANGED <<pin, turn, climbed>>

Step(t) == Decide(t) \/ Route(t) \/ ReadPin(t) \/ WritePin(t)

Next ==
  \/ \E t \in Turns : Step(t) \/ Abandon(t)
  \/ Expire \/ Settle

Spec == Init /\ [][Next]_vars

\* Turns keep coming and each runs to its end.  Nothing is assumed of expiry.
FairSpec == Spec /\ \A t \in Turns : WF_vars(Step(t))

-------------------------------------------------------------------------------
(* Properties.                                                             *)

\* A session is promoted only as far as one of its turns really had to climb,
\* whatever overlapping turns overwrite of each other (affinity.rs: "a session that
\* has demonstrated it needs the stronger rung").
PinIsEarned == Promoted(pin) => pin.rung <= climbed

\* "What it must not become: a ratchet."  Once the cheapest rung can answer, the
\* session goes back to it for good: overlapping turns may undo a release with a
\* pin they read before it, but not for ever.
StaysDown == easy ~> [](~Promoted(pin))
===============================================================================
