---------------------------- MODULE ServingProofs ----------------------------
(***************************************************************************)
(* Proofs about Serving, for any deployments, traffic, replicas and        *)
(* bounds: one receipt per answer, replays that rest on a pass, proofs     *)
(* that stay retracted, demotions on new evidence, shadow evaluations      *)
(* within their budget, and stores within their limits.                    *)
(***************************************************************************)
EXTENDS Serving, SequenceTheorems, NaturalsInduction, FiniteSetTheorems, TLAPS

Store == Replica \cup {Shared}

\* The shape of what the steps read.
Decision ==
  [pc : Ended \cup {"lookup", "replay", "route", "probe", "put", "stored", "offer",
                    "forward", "recording", "relay", "drained"},
   kind : setup.kinds \cup {None}, at : setup.replicas \cup {None},
   source : Request \cup {None}, outcome : setup.outcomes \cup {None},
   offers : Nat, shadows : BOOLEAN]

Observing(r) ==
  Forward(r) \/ ForwardStream(r) \/ SpawnedTrace(r) \/ StreamEnds(r) \/ TapDropped(r)

Born(d) == d.pc # "absent" => d.kind \in setup.kinds /\ d.at \in setup.replicas

Shaped ==
  /\ setup \in Setups
  /\ req \in [Request -> Decision] /\ \A r \in Request : Born(req[r])
  /\ receipt \in [Request -> {"none", "offered", "stored", "lost"}]

Sourced == DOMAIN cache = Store /\ \A s \in Store : \A e \in cache[s] : e.source \in Request

\* A request that has left the pipeline is one whose receipt exists, unless it was
\* dropped.
Fits(d, rc) ==
  /\ d.offers = IF rc = "none" THEN 0 ELSE 1
  /\ d.pc \in {"done", "drained"} => rc # "none"
  /\ rc # "none" => d.pc \in {"done", "drained", "gone"}

Once == \A r \in Request : Fits(req[r], receipt[r])

-------------------------------------------------------------------------------
LEMMA SetupShape ==
  ASSUME Shaped
  PROVE  /\ setup.replicas \subseteq Replica /\ setup.kinds \subseteq Kind
         /\ setup.shared \in BOOLEAN
BY SetupsAssumption DEF Shaped, Setup

LEMMA InitShaped == Init => Shaped /\ Once
<1> SUFFICES ASSUME Init PROVE Shaped /\ Once
  OBVIOUS
<1>1. Unborn \in Decision /\ Unborn.pc = "absent" /\ Unborn.offers = 0
  BY DEF Unborn, Decision, Ended
<1> QED BY <1>1 DEF Init, Shaped, Once, Born, Fits

\* A step of one request.
LEMMA OneMoves ==
  ASSUME Shaped, Once, UNCHANGED setup,
         NEW r \in Request, NEW d \in Decision, Born(d), Becomes(r, d),
         NEW rc \in {"none", "offered", "stored", "lost"}, Fits(d, rc),
         receipt' = [receipt EXCEPT ![r] = rc]
  PROVE  Shaped' /\ Once'
BY DEF Shaped, Once, Becomes, Decision, Born

\* One that makes no offer.
LEMMA OneMovesOn ==
  ASSUME Shaped, Once, UNCHANGED <<setup, receipt>>,
         NEW r \in Request, NEW d \in Decision, Born(d), Becomes(r, d), Fits(d, receipt[r])
  PROVE  Shaped' /\ Once'
BY DEF Shaped, Once, Becomes, Decision, Born

LEMMA OneOffers ==
  ASSUME Shaped, Once, UNCHANGED setup, NEW r \in Request, NEW pc \in {"done", "drained"},
         req[r].pc \notin Ended \cup {"drained"}, Offers(r, pc)
  PROVE  Shaped' /\ Once'
<1> DEFINE d == [req[r] EXCEPT !.pc = pc, !.offers = 1]
<1>1. req[r] \in Decision /\ Born(req[r]) /\ Fits(req[r], receipt[r])
  BY DEF Shaped, Once
<1>2. receipt[r] = "none" /\ req[r].offers = 0
  BY <1>1 DEF Fits, Ended, Shaped
<1>3. d \in Decision /\ d.offers = 1 /\ d.pc = pc /\ d.kind = req[r].kind /\ d.at = req[r].at
  BY <1>1, <1>2 DEF Decision, Ended
<1>4. Born(d)
  BY <1>1, <1>3 DEF Born, Ended
<1>5. PICK rc \in {"offered", "lost"} : receipt' = [receipt EXCEPT ![r] = rc]
  BY DEF Offers
<1>6. Becomes(r, d)
  <2>1. [req[r] EXCEPT !.pc = pc, !.offers = @ + 1] = d
    BY <1>1, <1>2 DEF Decision
  <2> QED BY <2>1 DEF Offers
<1>7. Fits(d, rc)
  BY <1>3 DEF Fits
<1> HIDE DEF d
<1> QED BY <1>3, <1>4, <1>5, <1>6, <1>7, OneMoves

\* A move that makes none.
LEMMA OneSteps ==
  ASSUME Shaped, Once, UNCHANGED <<setup, receipt>>, NEW r \in Request,
         NEW pc \in Ended \cup {"lookup", "replay", "route", "probe", "put", "stored", "offer",
                                "forward", "recording", "relay", "drained"},
         pc # "absent", req[r].pc # "absent", MovesTo(r, pc),
         \/ pc = "done" /\ req[r].pc = "drained"
         \/ pc \notin {"done", "drained"} /\ req[r].pc \notin Ended \cup {"drained"}
         \/ pc = "gone"
  PROVE  Shaped' /\ Once'
<1> DEFINE d == [req[r] EXCEPT !.pc = pc]
<1>1. req[r] \in Decision /\ Born(req[r]) /\ Fits(req[r], receipt[r])
  BY DEF Shaped, Once
<1>2. d \in Decision /\ Born(d) /\ d.offers = req[r].offers /\ d.pc = pc
  BY <1>1 DEF Decision, Born, Ended
<1>3. Becomes(r, d)
  BY DEF MovesTo
<1>4. Fits(d, receipt[r])
  BY <1>1, <1>2 DEF Fits, Ended
<1> HIDE DEF d
<1> QED BY <1>2, <1>3, <1>4, OneMovesOn

LEMMA StepShaped == Shaped /\ Once /\ Sourced /\ [Next]_vars => Shaped' /\ Once'
<1> SUFFICES ASSUME Shaped, Once, Sourced, [Next]_vars PROVE Shaped' /\ Once'
  OBVIOUS
<1> USE DEF environment, caches, feedback, shadows, decisions
<1>0. /\ \A r \in Request : req[r] \in Decision /\ Born(req[r]) /\ Fits(req[r], receipt[r])
      /\ setup.replicas \subseteq Replica
  BY SetupShape DEF Shaped, Once
<1>1. ASSUME UNCHANGED <<req, receipt, setup>> PROVE Shaped' /\ Once'
  BY <1>1 DEF Shaped, Once, Decision, Born
<1>2. ASSUME NEW r \in Request, Arrive(r) PROVE Shaped' /\ Once'
  <2>1. PICK k \in setup.kinds, at \in setup.replicas :
          Becomes(r, [Unborn EXCEPT !.pc = IF Observed(k, at) THEN "forward" ELSE "lookup",
                                    !.kind = k, !.at = at, !.shadows = Shadows(k, at)])
    BY <1>2 DEF Arrive
  <2>2. Shadows(k, at) \in BOOLEAN
    BY DEF Shadows
  <2> DEFINE d == [Unborn EXCEPT !.pc = IF Observed(k, at) THEN "forward" ELSE "lookup",
                                 !.kind = k, !.at = at, !.shadows = Shadows(k, at)]
  <2>3. d \in Decision /\ Born(d) /\ d.pc \in {"forward", "lookup"} /\ d.offers = 0
    BY <2>2 DEF Unborn, Decision, Born
  <2>4. receipt[r] = "none" /\ UNCHANGED <<setup, receipt>>
    BY <1>0, <1>2 DEF Arrive, Fits
  <2>5. Fits(d, receipt[r])
    BY <2>3, <2>4 DEF Fits
  <2> HIDE DEF d
  <2> QED BY <2>1, <2>3, <2>4, <2>5, OneMovesOn DEF d
<1>3. ASSUME NEW r \in Request, Lookup(r) PROVE Shaped' /\ Once'
  <2>1. req[r].pc = "lookup" /\ UNCHANGED <<setup, receipt>>
    BY <1>3 DEF Lookup
  <2>2. CASE MovesTo(r, "route")
    BY <2>1, <2>2, OneSteps DEF Ended
  <2>3. ASSUME NEW s \in Request, Becomes(r, [req[r] EXCEPT !.pc = "replay", !.source = s])
        PROVE  Shaped' /\ Once'
    <3> DEFINE d == [req[r] EXCEPT !.pc = "replay", !.source = s]
    <3>1. d \in Decision /\ Born(d) /\ d.pc = "replay" /\ d.offers = req[r].offers
      BY <1>0, <2>1 DEF Decision, Born
    <3>2. Fits(d, receipt[r])
      BY <1>0, <2>1, <3>1 DEF Fits
    <3> HIDE DEF d
    <3> QED BY <2>1, <2>3, <3>1, <3>2, OneMovesOn DEF d
  <2>4. \A s, key : \A e \in Hits(cache[s], key) : e \in cache[s]
    BY DEF Hits
  <2>5. \A s \in Store : \A e \in cache[s] : e.source \in Request
    BY DEF Sourced
  <2>6. req[r].at \in setup.replicas /\ Home(req[r].at) \in Store
    BY <1>0, <2>1 DEF Born, Home, Store
  <2> QED BY <1>3, <2>2, <2>3, <2>4, <2>5, <2>6 DEF Lookup
<1>4. ASSUME NEW r \in Request,
             Replay(r) \/ OfferDecision(r) \/ SpawnedTrace(r) \/ StreamEnds(r) \/ TapDropped(r)
      PROVE  Shaped' /\ Once'
  <2>1. CASE \E pc \in {"done", "drained"} : req[r].pc \notin Ended \cup {"drained"} /\ Offers(r, pc)
    BY <1>4, <2>1, OneOffers DEF Replay, OfferDecision, SpawnedTrace, StreamEnds, TapDropped
  <2>2. CASE req[r].pc = "drained" /\ MovesTo(r, "done") /\ UNCHANGED receipt
    BY <1>4, <2>2, OneSteps DEF Replay, OfferDecision, SpawnedTrace, StreamEnds, TapDropped, Ended
  <2> QED
    BY <1>4, <2>1, <2>2 DEF Replay, OfferDecision, SpawnedTrace, StreamEnds, TapDropped, Ended
<1>5. ASSUME NEW r \in Request, RouteEnforce(r) PROVE Shaped' /\ Once'
  <2>1. PICK outcome \in setup.outcomes, pc \in {"probe", "put", "offer"} :
          Becomes(r, [req[r] EXCEPT !.outcome = outcome, !.pc = pc])
    BY <1>5 DEF RouteEnforce, Then
  <2> DEFINE d == [req[r] EXCEPT !.outcome = outcome, !.pc = pc]
  <2>2. req[r].pc = "route" /\ UNCHANGED <<setup, receipt>>
    BY <1>5 DEF RouteEnforce
  <2>3. /\ d \in Decision /\ d.pc = pc /\ d.offers = req[r].offers
        /\ d.kind = req[r].kind /\ d.at = req[r].at
    BY <1>0 DEF Decision
  <2>4. Born(d) /\ Fits(d, receipt[r])
    BY <1>0, <2>2, <2>3 DEF Born, Fits
  <2> HIDE DEF d
  <2> QED BY <2>1, <2>2, <2>3, <2>4, OneMovesOn DEF d
<1>6. ASSUME NEW r \in Request, Probe(r) \/ PutEntry(r) \/ GatePanics(r) PROVE Shaped' /\ Once'
  BY <1>6, OneSteps DEF Probe, GatePanics, Then, PutEntry, Ended
<1>7. ASSUME NEW r \in Request, ClientLeaves(r) PROVE Shaped' /\ Once'
  <2>1. req[r].pc # "absent" /\ MovesTo(r, "gone") /\ UNCHANGED <<setup, receipt>>
    BY <1>7 DEF ClientLeaves, Waiting
  <2> QED BY <2>1, OneSteps DEF Ended
<1>8. ASSUME NEW r \in Request, Forward(r) \/ ForwardStream(r) PROVE Shaped' /\ Once'
  BY <1>8, OneSteps DEF Forward, ForwardStream, Ended
<1>9. ASSUME NEW r \in Request, StoreReceipt(r) PROVE Shaped' /\ Once'
  BY <1>9 DEF StoreReceipt, Shaped, Once, Decision, Born, Fits
<1>10. ASSUME NEW at \in setup.replicas, Crash(at) PROVE Shaped' /\ Once'
  <2> DEFINE Dead(r) == [req[r] EXCEPT !.pc = "gone"]
  <2>1. /\ req' = [r \in Request |-> IF req[r].at = at /\ req[r].pc \notin Ended
                                     THEN Dead(r) ELSE req[r]]
        /\ receipt' = [r \in Request |-> IF req[r].at = at /\ receipt[r] = "offered"
                                         THEN "lost" ELSE receipt[r]]
        /\ setup' = setup
    BY <1>10 DEF Crash
  <2>2. ASSUME NEW r \in Request
        PROVE  /\ Dead(r) \in Decision /\ Dead(r).pc = "gone" /\ Dead(r).offers = req[r].offers
               /\ Dead(r).kind = req[r].kind /\ Dead(r).at = req[r].at
    BY <1>0 DEF Decision, Ended
  <2> HIDE DEF Dead
  <2>3. Decision' = Decision
    BY <2>1 DEF Decision
  <2>4. ASSUME NEW r \in Request
        PROVE  /\ req'[r] \in Decision /\ Born(req[r])'
               /\ receipt'[r] \in {"none", "offered", "stored", "lost"} /\ Fits(req'[r], receipt'[r])
    BY <1>0, <2>1, <2>2, <2>3 DEF Born, Fits, Ended, Shaped
  <2> QED BY <2>1, <2>3, <2>4 DEF Shaped, Once
<1>11. ASSUME NEW r \in Request, Shadowing(r) PROVE Shaped' /\ Once'
  BY <1>1, <1>11 DEF Shadowing, MaySpend, Debit, ShadowPanics
<1>12. ASSUME NEW p \in Post, PostArrives(p) \/ Handler(p) \/ PosterLeaves(p)
       PROVE  Shaped' /\ Once'
  BY <1>1, <1>12 DEF PostArrives, Handler, TraceExists, Origin, Retract, AppendDeferred, Learn,
                    PosterLeaves
<1>13. CASE Expire \/ Tick \/ UNCHANGED vars
  BY <1>1, <1>13 DEF Expire, Tick, vars
<1> QED
  BY <1>2, <1>3, <1>4, <1>5, <1>6, <1>7, <1>8, <1>9, <1>10, <1>11, <1>12, <1>13
     DEF Next, Beside, Pipeline

-------------------------------------------------------------------------------
(* Replays.                                                                *)

\* What a put leaves in a store was there, or is the answer of a request at its put.
LEMMA StoreGrowsByPut ==
  ASSUME Shaped, Sourced, [Next]_vars, NEW s \in Store
  PROVE  /\ DOMAIN cache' = Store
         /\ \A e \in cache'[s] :
              \/ e \in cache[s]
              \/ /\ e.source \in Request /\ req[e.source].pc = "put"
                 /\ e.key = Key(req[e.source].kind) /\ MovesTo(e.source, "stored")
                 /\ UNCHANGED <<setup, receipt>>
<1> DEFINE Grown ==
      /\ DOMAIN cache' = Store
      /\ \A e \in cache'[s] :
           \/ e \in cache[s]
           \/ /\ e.source \in Request /\ req[e.source].pc = "put"
              /\ e.key = Key(req[e.source].kind) /\ MovesTo(e.source, "stored")
              /\ UNCHANGED <<setup, receipt>>
<1> USE DEF environment, caches, feedback, shadows, decisions, Sourced
<1>1. CASE UNCHANGED cache
  BY <1>1
<1>2. ASSUME NEW r \in Request, PutEntry(r) PROVE Grown
  <2> DEFINE key == Key(req[r].kind)
  <2>1. PICK home : \/ cache' = [cache EXCEPT ![home] = Inserted(@, key, r)]
                    \/ cache' = [cache EXCEPT ![home] = PutInProcess(@, key, r)]
                    \/ UNCHANGED cache
    BY <1>2 DEF PutEntry
  <2>2. \A store : \A e \in Inserted(store, key, r) : e \in store \/ (e.key = key /\ e.source = r)
    BY DEF Inserted
  <2>3. \A store : \A e \in PutInProcess(store, key, r) :
          e \in store \/ (e.key = key /\ e.source = r)
    BY <2>2 DEF PutInProcess, Trimmed
  <2>4. req[r].pc = "put" /\ MovesTo(r, "stored") /\ UNCHANGED <<setup, receipt>>
    BY <1>2 DEF PutEntry
  <2> HIDE DEF key
  <2> QED BY <2>1, <2>2, <2>3, <2>4 DEF key
<1>3. ASSUME NEW p \in Post, Retract(p) PROVE Grown
  BY <1>3 DEF Retract, Without
<1>4. ASSUME NEW r \in Request, Arrive(r) \/ Pipeline(r) \/ ClientLeaves(r) \/ Observing(r)
                                  \/ Shadowing(r) \/ StoreReceipt(r)
      PROVE Grown
  BY <1>1, <1>2, <1>4 DEF Arrive, Pipeline, Lookup, Replay, RouteEnforce, Probe, GatePanics, OfferDecision, ClientLeaves,
       Observing, Forward, ForwardStream, SpawnedTrace, StreamEnds, TapDropped, Shadowing, MaySpend,
       Debit, ShadowPanics, StoreReceipt
<1>5. ASSUME NEW p \in Post, PostArrives(p) \/ Handler(p) \/ PosterLeaves(p) PROVE Grown
  BY <1>1, <1>3, <1>5 DEF PostArrives, Handler, TraceExists, Origin, AppendDeferred, Learn, PosterLeaves
<1>6. CASE Expire \/ Tick \/ UNCHANGED vars
  BY <1>1, <1>6 DEF Expire, Tick, vars
<1>7. ASSUME NEW at \in setup.replicas, Crash(at) PROVE Grown
  BY <1>7 DEF Crash
<1> QED BY <1>4, <1>5, <1>6, <1>7 DEF Next, Beside, Observing

\* A decision that is recorded, or about to be, or dropped: nothing about it changes.
Settled(r) == req[r].offers = 1 \/ req[r].pc \in {"stored", "gone"}
Same(r) ==
  /\ req'[r].kind = req[r].kind /\ req'[r].outcome = req[r].outcome
  /\ req'[r].source = req[r].source

LEMMA SettledStays ==
  ASSUME Shaped, Once, [Next]_vars, NEW s \in Request, Settled(s)
  PROVE  Settled(s)' /\ Same(s)
<1> USE DEF environment, caches, feedback, shadows, decisions
<1>1. /\ req[s] \in Decision /\ Fits(req[s], receipt[s]) /\ req \in [Request -> Decision]
      /\ req[s].pc \in {"stored", "done", "drained", "gone"}
  BY DEF Shaped, Once, Fits, Settled
<1>2. CASE UNCHANGED req
  BY <1>2 DEF Settled, Same
<1>3. ASSUME NEW r \in Request, NEW d, Becomes(r, d), r # s PROVE UNCHANGED req[s]
  BY <1>1, <1>3 DEF Becomes
<1>4. ASSUME NEW r \in Request, NEW pc \in {"done", "drained", "gone"},
             MovesTo(r, pc), pc \in {"done", "drained"} => req[r].pc = "drained"
      PROVE  Settled(s)' /\ Same(s)
  <2>1. CASE r # s
    BY <1>3, <1>4, <2>1 DEF MovesTo, Settled, Same
  <2>2. CASE r = s
    <3>1. req'[s] = [req[s] EXCEPT !.pc = pc]
      BY <1>1, <1>4, <2>2 DEF MovesTo, Becomes
    <3>2. req'[s].offers = req[s].offers /\ req'[s].pc = pc /\ Same(s)
      BY <1>1, <3>1 DEF Decision, Same
    <3>3. pc # "gone" => req[s].offers = 1
      BY <1>1, <1>4, <2>2 DEF Fits
    <3> QED BY <1>4, <3>2, <3>3 DEF Settled
  <2> QED BY <2>1, <2>2
<1>5. ASSUME NEW r \in Request, NEW pc, Offers(r, pc), req[r].pc \notin Ended \cup {"drained"}
      PROVE  Settled(s)' /\ Same(s)
  <2>1. CASE r # s
    BY <1>3, <1>5, <2>1 DEF Offers, Settled, Same
  <2>2. CASE r = s
    <3>1. req'[s] = [req[s] EXCEPT !.pc = pc, !.offers = @ + 1] /\ req[s].offers = 0
      BY <1>1, <1>5, <2>2 DEF Offers, Becomes, Ended, Fits
    <3>2. req'[s].offers = 1 /\ Same(s)
      BY <1>1, <3>1 DEF Decision, Same
    <3> QED BY <3>2 DEF Settled
  <2> QED BY <2>1, <2>2
<1>6. ASSUME NEW r \in Request, Arrive(r) \/ Pipeline(r) \/ ClientLeaves(r) \/ Observing(r)
                                  \/ Shadowing(r) \/ StoreReceipt(r)
      PROVE  Settled(s)' /\ Same(s)
  <2>1. CASE \/ Arrive(r) \/ Lookup(r) \/ RouteEnforce(r) \/ Probe(r) \/ PutEntry(r)
             \/ GatePanics(r) \/ Forward(r) \/ ForwardStream(r)
    <3>1. r # s
      BY <1>1, <2>1 DEF Arrive, Lookup, RouteEnforce, Probe, GatePanics, PutEntry, Forward, ForwardStream
    <3>2. UNCHANGED req[s]
      BY <1>3, <2>1, <3>1
         DEF Arrive, Lookup, RouteEnforce, Probe, GatePanics, PutEntry, Forward, ForwardStream, MovesTo
    <3> QED BY <3>2 DEF Settled, Same
  <2>2. CASE Replay(r) \/ OfferDecision(r) \/ SpawnedTrace(r) \/ StreamEnds(r) \/ TapDropped(r)
    BY <1>4, <1>5, <2>2 DEF Replay, OfferDecision, SpawnedTrace, StreamEnds, TapDropped, Ended
  <2>3. CASE ClientLeaves(r)
    BY <1>4, <2>3 DEF ClientLeaves
  <2>4. CASE Shadowing(r) \/ StoreReceipt(r)
    BY <1>2, <2>4 DEF Shadowing, MaySpend, Debit, ShadowPanics, StoreReceipt
  <2> QED BY <1>6, <2>1, <2>2, <2>3, <2>4 DEF Pipeline, Observing
<1>7. ASSUME NEW p \in Post, PostArrives(p) \/ Handler(p) \/ PosterLeaves(p)
      PROVE  Settled(s)' /\ Same(s)
  BY <1>2, <1>7 DEF PostArrives, Handler, TraceExists, Origin, Retract, AppendDeferred, Learn,
                   PosterLeaves
<1>8. CASE Expire \/ Tick \/ UNCHANGED vars
  BY <1>2, <1>8 DEF Expire, Tick, vars
<1>9. ASSUME NEW at \in setup.replicas, Crash(at) PROVE Settled(s)' /\ Same(s)
  <2>1. req'[s] = req[s] \/ req'[s] = [req[s] EXCEPT !.pc = "gone"]
    BY <1>9 DEF Crash
  <2> QED BY <1>1, <2>1 DEF Decision, Settled, Same
<1> QED BY <1>6, <1>7, <1>8, <1>9 DEF Next, Beside, Observing

Replaying == {"replay", "done", "gone"}
Carried(r) ==
  /\ Same(r)
  /\ req'[r].pc \in {"put", "absent"} => req[r].pc = req'[r].pc
  /\ req[r].pc \in Replaying => req'[r].pc \in Replaying

\* Only four steps change more of a request than how far it has come.
LEMMA OthersCarry ==
  ASSUME Shaped, Once, [Next]_vars, NEW s \in Request
  PROVE  Arrive(s) \/ Lookup(s) \/ RouteEnforce(s) \/ Probe(s) \/ Carried(s)
<1> USE DEF environment, caches, feedback, shadows, decisions
<1>1. req[s] \in Decision /\ req \in [Request -> Decision]
  BY DEF Shaped
<1>2. ASSUME UNCHANGED req[s] PROVE Carried(s)
  BY <1>2 DEF Same, Carried
<1>3. ASSUME NEW pc, pc \notin {"put", "absent"}, req[s].pc \in Replaying => pc \in Replaying,
             \/ req'[s] = [req[s] EXCEPT !.pc = pc]
             \/ req'[s] = [req[s] EXCEPT !.pc = pc, !.offers = @ + 1]
      PROVE  Carried(s)
  <2>1. req'[s].pc = pc /\ Same(s)
    BY <1>1, <1>3 DEF Decision, Same
  <2> QED BY <1>3, <2>1 DEF Carried
<1>4. ASSUME NEW r \in Request, NEW d, Becomes(r, d) PROVE req'[s] = IF r = s THEN d ELSE req[s]
  BY <1>1, <1>4 DEF Becomes
<1>5. ASSUME NEW r \in Request, Arrive(r) \/ Lookup(r) \/ RouteEnforce(r) \/ Probe(r), r # s
      PROVE  Carried(s)
  BY <1>2, <1>4, <1>5 DEF Arrive, Lookup, RouteEnforce, Probe, GatePanics, MovesTo
<1>6. ASSUME NEW r \in Request, NEW pc, MovesTo(r, pc) \/ Offers(r, pc),
             pc \notin {"put", "absent"}, req[r].pc \in Replaying => pc \in Replaying
      PROVE  Carried(s)
  BY <1>2, <1>3, <1>4, <1>6 DEF MovesTo, Offers
<1>7. ASSUME NEW r \in Request,
             \/ Replay(r) \/ PutEntry(r) \/ OfferDecision(r) \/ GatePanics(r)
             \/ ClientLeaves(r) \/ Observing(r)
             \/ Shadowing(r) \/ StoreReceipt(r)
      PROVE  Carried(s)
  <2>1. CASE Replay(r) \/ PutEntry(r) \/ OfferDecision(r) \/ GatePanics(r) \/ ClientLeaves(r)
    BY <1>6, <2>1 DEF Replay, PutEntry, OfferDecision, GatePanics, ClientLeaves, Replaying
  <2>2. CASE Forward(r) \/ ForwardStream(r) \/ SpawnedTrace(r)
    BY <1>6, <2>2 DEF Forward, ForwardStream, SpawnedTrace, Replaying
  <2>3. CASE StreamEnds(r) \/ TapDropped(r)
    BY <1>6, <2>3 DEF StreamEnds, TapDropped, Replaying
  <2>4. CASE Shadowing(r) \/ StoreReceipt(r)
    BY <1>2, <2>4 DEF Shadowing, MaySpend, Debit, ShadowPanics, StoreReceipt
  <2> QED BY <1>7, <2>1, <2>2, <2>3, <2>4 DEF Observing
<1>8. ASSUME NEW p \in Post, PostArrives(p) \/ Handler(p) \/ PosterLeaves(p) PROVE Carried(s)
  BY <1>2, <1>8 DEF PostArrives, Handler, TraceExists, Origin, Retract, AppendDeferred, Learn,
                   PosterLeaves
<1>9. ASSUME Expire \/ Tick \/ UNCHANGED vars PROVE Carried(s)
  BY <1>2, <1>9 DEF Expire, Tick, vars
<1>10. ASSUME NEW at \in setup.replicas, Crash(at) PROVE Carried(s)
  <2>1. req'[s] = req[s] \/ req'[s] = [req[s] EXCEPT !.pc = "gone"]
    BY <1>10 DEF Crash
  <2> QED BY <1>2, <1>3, <2>1 DEF Replaying
<1> QED BY <1>5, <1>7, <1>8, <1>9, <1>10 DEF Next, Beside, Observing, Pipeline

LEMMA SetupStays ==
  ASSUME [Next]_vars PROVE setup' = setup
<1> USE DEF environment, caches, feedback, shadows, decisions
<1>1. ASSUME NEW r \in Request, Arrive(r) \/ Pipeline(r) \/ ClientLeaves(r) \/ Observing(r)
                                  \/ Shadowing(r) \/ StoreReceipt(r)
      PROVE  setup' = setup
  BY <1>1 DEF Arrive, Pipeline, Lookup, Replay, RouteEnforce, Probe, GatePanics, PutEntry, OfferDecision, ClientLeaves,
       Observing, Forward, ForwardStream, SpawnedTrace, StreamEnds, TapDropped, Shadowing, MaySpend,
       Debit, ShadowPanics, StoreReceipt
<1>2. ASSUME NEW p \in Post, PostArrives(p) \/ Handler(p) \/ PosterLeaves(p) PROVE setup' = setup
  BY <1>2 DEF PostArrives, Handler, TraceExists, Origin, Retract, AppendDeferred, Learn, PosterLeaves
<1>3. CASE Expire \/ Tick \/ UNCHANGED vars
  BY <1>3 DEF Expire, Tick, vars
<1>4. ASSUME NEW at \in setup.replicas, Crash(at) PROVE setup' = setup
  BY <1>4 DEF Crash
<1> QED BY <1>1, <1>2, <1>3, <1>4 DEF Next, Beside, Observing

\* The answer is the pass a decision was served for.
Proven(s) == Settled(s) /\ Cacheable(req[s].outcome)

\* What the cache holds, and what was replayed from it, a settled decision proved
\* for the same question; a decision is put there only with its pass in hand.
Backed ==
  /\ \A r \in Request : req[r].pc = "put" => Cacheable(req[r].outcome)
  /\ \A s \in Store : \A e \in cache[s] :
       Proven(e.source) /\ e.key = Key(req[e.source].kind)
  /\ \A r \in Request : req[r].source # None =>
       /\ req[r].source # r /\ req[r].pc \in Replaying
       /\ Proven(req[r].source) /\ Key(req[req[r].source].kind) = Key(req[r].kind)

ReplayInv == Shaped /\ Once /\ Sourced /\ Backed

LEMMA InitReplay == Init => ReplayInv
<1> SUFFICES ASSUME Init PROVE ReplayInv
  OBVIOUS
<1>1. \A r \in Request : req[r].pc = "absent" /\ req[r].source = None
  BY DEF Init, Unborn
<1>2. DOMAIN cache = Store /\ \A s \in Store : cache[s] = {}
  BY DEF Init, Store
<1> QED BY <1>1, <1>2, InitShaped DEF ReplayInv, Sourced, Backed

LEMMA StepReplay == ReplayInv /\ [Next]_vars => ReplayInv'
<1> SUFFICES ASSUME ReplayInv, [Next]_vars PROVE ReplayInv'
  OBVIOUS
<1> USE DEF ReplayInv
<1>1. Shaped' /\ Once'
  BY StepShaped
<1>2. setup' = setup
  BY SetupStays
<1>3. ASSUME NEW s \in Request, Proven(s)
      PROVE  Proven(s)' /\ Key(req[s].kind)' = Key(req[s].kind)
  <2>1. Settled(s)' /\ Same(s)
    BY <1>3, SettledStays DEF Proven
  <2> QED BY <1>2, <1>3, <2>1 DEF Proven, Cacheable, Same, Key
<1>4. ASSUME NEW r \in Request, req'[r].pc = "put" PROVE Cacheable(req'[r].outcome)
  <2>1. req[r] \in Decision /\ req \in [Request -> Decision]
    BY DEF Shaped
  <2>2. CASE RouteEnforce(r)
    <3>1. PICK outcome \in setup.outcomes :
            req'[r] = [req[r] EXCEPT !.outcome = outcome,
                         !.pc = IF setup.probed THEN "probe" ELSE Then(outcome)]
      BY <2>1, <2>2 DEF RouteEnforce, Becomes
    <3>2. req'[r].outcome = outcome /\ (Cacheable(outcome) \/ req'[r].pc \in {"probe", "offer"})
      BY <2>1, <3>1 DEF Decision, Then
    <3> QED BY <1>4, <3>2
  <2>6. CASE Probe(r)
    <3>1. req'[r] = [req[r] EXCEPT !.pc = Then(req[r].outcome)]
      BY <2>1, <2>6 DEF Probe, GatePanics, MovesTo, Becomes
    <3>2. req'[r].outcome = req[r].outcome /\ req'[r].pc = Then(req[r].outcome)
      BY <2>1, <3>1 DEF Decision
    <3> QED BY <1>4, <3>2 DEF Then
  <2>3. CASE Arrive(r)
    <3>1. req'[r].pc \in {"forward", "lookup"}
      BY <2>1, <2>3 DEF Arrive, Becomes, Unborn
    <3> QED BY <1>4, <3>1
  <2>4. CASE Lookup(r)
    <3>1. PICK d : req'[r] = d /\ (\/ d = [req[r] EXCEPT !.pc = "route"]
                                  \/ \E s : d = [req[r] EXCEPT !.pc = "replay", !.source = s])
      BY <2>1, <2>4 DEF Lookup, Becomes, MovesTo
    <3>2. d.pc \in {"replay", "route"}
      BY <2>1, <3>1 DEF Decision
    <3> QED BY <1>4, <3>1, <3>2
  <2>5. CASE Carried(r)
    BY <1>4, <2>5 DEF Carried, Same, Backed
  <2> QED BY <2>2, <2>3, <2>4, <2>5, <2>6, OthersCarry
<1>5. ASSUME NEW s \in Store
      PROVE  /\ DOMAIN cache' = Store
             /\ \A e \in cache'[s] : /\ e.source \in Request /\ Proven(e.source)'
                                     /\ e.key = Key(req[e.source].kind)'
  <2>1. DOMAIN cache' = Store
    BY StoreGrowsByPut
  <2>2. ASSUME NEW e \in cache'[s]
        PROVE  /\ e.source \in Request /\ Proven(e.source)'
               /\ e.key = Key(req[e.source].kind)'
    <3>1. CASE e \in cache[s]
      BY <1>3, <3>1 DEF Sourced, Backed
    <3>2. CASE /\ e.source \in Request /\ req[e.source].pc = "put"
               /\ e.key = Key(req[e.source].kind) /\ MovesTo(e.source, "stored")
      <4>1. req[e.source] \in Decision /\ req \in [Request -> Decision]
        BY <3>2 DEF Shaped
      <4>2. req'[e.source] = [req[e.source] EXCEPT !.pc = "stored"]
        BY <3>2, <4>1 DEF MovesTo, Becomes
      <4>3. /\ req'[e.source].pc = "stored" /\ req'[e.source].kind = req[e.source].kind
            /\ req'[e.source].outcome = req[e.source].outcome
        BY <4>1, <4>2 DEF Decision
      <4>4. Cacheable(req[e.source].outcome)
        BY <3>2 DEF Backed
      <4> QED BY <1>2, <3>2, <4>3, <4>4 DEF Proven, Settled, Cacheable, Key
    <3> QED BY <3>1, <3>2, StoreGrowsByPut
  <2> QED BY <2>1, <2>2
<1>6. ASSUME NEW r \in Request, req'[r].source # None
      PROVE  (/\ req[r].source # r /\ req[r].pc \in Replaying
              /\ Proven(req[r].source) /\ Key(req[req[r].source].kind) = Key(req[r].kind))'
  <2>1. req[r] \in Decision /\ req \in [Request -> Decision] /\ Fits(req[r], receipt[r])
    BY DEF Shaped, Once
  <2>2. CASE Arrive(r)
    <3>1. req'[r].source = None
      BY <2>1, <2>2 DEF Arrive, Becomes, Unborn
    <3> QED BY <1>6, <3>1
  <2>3. CASE RouteEnforce(r)
    <3>1. req[r].pc = "route" /\ req'[r].source = req[r].source
      BY <2>1, <2>3 DEF RouteEnforce, Becomes, Decision
    <3> QED BY <1>6, <3>1 DEF Backed, Replaying
  <2>6. CASE Probe(r)
    <3>1. /\ req[r].pc = "probe" /\ req'[r].source = req[r].source
      BY <2>1, <2>6 DEF Probe, GatePanics, MovesTo, Becomes, Decision
    <3> QED BY <1>6, <3>1 DEF Backed, Replaying
  <2>4. CASE Lookup(r)
    <3>0. req[r].pc = "lookup" /\ req[r].offers = 0
      BY <2>1, <2>4 DEF Lookup, Fits
    <3>1. req[r].pc = "lookup" /\ req[r].source = None /\ ~Settled(r)
      BY <2>1, <3>0 DEF Backed, Replaying, Settled
    <3>2. ~MovesTo(r, "route")
      BY <1>6, <2>1, <3>1 DEF MovesTo, Becomes, Decision
    <3>3. PICK e \in Hits(cache[Home(req[r].at)], Key(req[r].kind)) :
            Becomes(r, [req[r] EXCEPT !.pc = "replay", !.source = e.source])
      BY <2>4, <3>2 DEF Lookup
    <3>4. Home(req[r].at) \in Store
      BY <2>1, <3>1, SetupShape DEF Shaped, Born, Home, Store
    <3>5. e.source \in Request /\ Proven(e.source) /\ Key(req[e.source].kind) = Key(req[r].kind)
      BY <3>3, <3>4 DEF Hits, Sourced, Backed
    <3>6. req'[r].source = e.source /\ req'[r].pc = "replay" /\ req'[r].kind = req[r].kind
      BY <2>1, <3>3 DEF Becomes, Decision
    <3>7. e.source # r
      BY <3>1, <3>5 DEF Proven
    <3> QED BY <1>2, <1>3, <3>5, <3>6, <3>7 DEF Replaying, Key, Proven, Settled
  <2>5. CASE Carried(r)
    <3>1. req'[r].source = req[r].source /\ req'[r].kind = req[r].kind
      BY <2>5 DEF Carried, Same
    <3>2. /\ req[r].source # r /\ req'[r].pc \in Replaying /\ req[r].source \in Request
          /\ Proven(req[r].source) /\ Key(req[req[r].source].kind) = Key(req[r].kind)
      BY <1>6, <2>1, <2>5, <3>1 DEF Carried, Backed, Decision
    <3> QED BY <1>2, <1>3, <3>1, <3>2 DEF Key, Proven, Settled
  <2> QED BY <2>2, <2>3, <2>4, <2>5, <2>6, OthersCarry
<1>7. DOMAIN cache' = Store
  BY <1>5 DEF Store
<1>8. Sourced'
  BY <1>5, <1>7 DEF Sourced
<1>9. Backed'
  BY <1>4, <1>5, <1>6 DEF Backed
<1> QED BY <1>1, <1>8, <1>9

\* What receipts and replays rest on holds whatever upstreams, clients, the writer and
\* crashes do (enforce_pipeline_inner, offer_trace, CacheStore).
THEOREM ReplayInvariant == Spec => []ReplayInv
<1>1. Init => ReplayInv
  BY InitReplay
<1>2. ReplayInv /\ [Next]_vars => ReplayInv'
  BY StepReplay
<1> QED BY <1>1, <1>2, PTL DEF Spec

\* Every answer has one receipt: offer_trace, spawn_trace and SseTap between them make
\* one offer for what is answered, and never a second.
THEOREM OneReceiptAlways == Spec => []OneReceipt
<1>1. ReplayInv => OneReceipt
  BY DEF ReplayInv, Shaped, Once, Fits, Decision, OneReceipt
<1> QED BY <1>1, ReplayInvariant, PTL

\* What the verified cache replays was served on a pass, for the same question under
\* the same ladder, by another decision that is recorded or about to be.
THEOREM ReplayAlwaysProven == Spec => []ReplayIsProven
<1>1. ReplayInv => ReplayIsProven
  BY DEF ReplayInv, Backed, Proven, Settled, Cacheable, ReplayIsProven
<1> QED BY <1>1, ReplayInvariant, PTL

-------------------------------------------------------------------------------
(* Retractions.                                                            *)

LEMMA StoredStays ==
  ASSUME Shaped, Once, [Next]_vars, NEW s \in Request, receipt[s] = "stored"
  PROVE  receipt'[s] = "stored"
<1> USE DEF environment, caches, feedback, shadows, decisions
<1>1. receipt \in [Request -> {"none", "offered", "stored", "lost"}]
  BY DEF Shaped
<1>2. req[s].pc \in {"done", "drained", "gone"}
  BY DEF Once, Fits
<1>3. ASSUME NEW r \in Request, NEW pc, req[r].pc \notin Ended \cup {"drained"}, Offers(r, pc)
      PROVE  receipt'[s] = "stored"
  <2>1. r # s
    BY <1>2, <1>3 DEF Ended
  <2> QED BY <1>1, <1>3, <2>1 DEF Offers
<1>4. ASSUME NEW r \in Request, Arrive(r) \/ Pipeline(r) \/ ClientLeaves(r) \/ Observing(r)
                                  \/ Shadowing(r) \/ StoreReceipt(r)
      PROVE  receipt'[s] = "stored"
  <2>1. CASE Replay(r) \/ OfferDecision(r) \/ SpawnedTrace(r) \/ StreamEnds(r) \/ TapDropped(r)
    BY <1>3, <2>1 DEF Replay, OfferDecision, SpawnedTrace, StreamEnds, TapDropped, Ended
  <2>2. CASE StoreReceipt(r)
    BY <1>1, <2>2 DEF StoreReceipt
  <2>3. CASE Arrive(r) \/ Lookup(r) \/ RouteEnforce(r) \/ Probe(r) \/ GatePanics(r) \/ PutEntry(r)
              \/ ClientLeaves(r) \/ Forward(r) \/ ForwardStream(r) \/ Shadowing(r)
    BY <2>3 DEF Arrive, Lookup, RouteEnforce, Probe, GatePanics, PutEntry, ClientLeaves, Forward,
                ForwardStream, Shadowing, MaySpend, Debit, ShadowPanics
  <2> QED BY <1>4, <2>1, <2>2, <2>3 DEF Pipeline, Observing
<1>5. ASSUME NEW p \in Post, PostArrives(p) \/ Handler(p) \/ PosterLeaves(p)
      PROVE  receipt'[s] = "stored"
  BY <1>5 DEF PostArrives, Handler, TraceExists, Origin, Retract, AppendDeferred, Learn, PosterLeaves
<1>6. CASE Expire \/ Tick \/ UNCHANGED vars
  BY <1>6 DEF Expire, Tick, vars
<1>7. ASSUME NEW at \in setup.replicas, Crash(at) PROVE receipt'[s] = "stored"
  BY <1>7 DEF Crash
<1> QED BY <1>4, <1>5, <1>6, <1>7 DEF Next, Beside, Observing

\* No entry of the store rests on the decision.
Clear(s, id) == \A e \in cache[s] : e.source # id

\* A proof that is gone does not come back.
LEMMA ClearStays ==
  ASSUME Shaped, Once, Sourced, [Next]_vars, NEW s \in Store, NEW id,
         id \in Request => Settled(id), Clear(s, id)
  PROVE  Clear(s, id)'
<1> SUFFICES ASSUME NEW e \in cache'[s] PROVE e.source # id
  BY DEF Clear
<1>1. CASE e \in cache[s]
  BY <1>1 DEF Clear
<1>2. CASE e.source \in Request /\ req[e.source].pc = "put"
  <2>1. ~Settled(e.source)
    BY <1>2 DEF Settled, Once, Fits
  <2> QED BY <1>2, <2>1
<1> QED BY <1>1, <1>2, StoreGrowsByPut

Report ==
  [pc : {"absent", "check", "refused", "origin", "retract", "append", "learn", "done", "gone"},
   about : Request \cup {None}, failed : BOOLEAN, at : Replica \cup {None}, todo : Seq(Request)]

SourceOf(p) == req[post[p].about].source
ClearFor(p, id) == Clear(Home(post[p].at), id)

Posted ==
  /\ post \in [Post -> Report]
  /\ \A p \in Post : post[p].pc # "absent" =>
       post[p].about \in Request /\ post[p].at \in setup.replicas
  /\ \A p \in Post : post[p].pc = "retract" => Len(post[p].todo) > 0

\* A report that is past its check is about a stored receipt.
Checked(p) ==
  post[p].pc \in {"origin", "retract", "append", "learn", "done"} \/ p \in reported =>
    receipt[post[p].about] = "stored"

\* What is left to retract, the rest being gone.
Retracting(p) ==
  post[p].pc = "retract" =>
    \/ SourceOf(p) = None /\ post[p].todo = <<post[p].about>>
    \/ SourceOf(p) # None /\ post[p].todo = <<post[p].about, SourceOf(p)>>
    \/ /\ SourceOf(p) # None /\ post[p].todo = <<SourceOf(p)>>
       /\ ClearFor(p, post[p].about)

Disproved(p) ==
  post[p].failed /\ (p \in reported \/ post[p].pc \in {"append", "learn", "done"}) =>
    ClearFor(p, post[p].about) /\ ClearFor(p, SourceOf(p))

\* Of a cache that does not fail: its index leads to every entry, and what has been
\* retracted is gone.
RetractInv ==
  /\ ReplayInv /\ Posted
  /\ \A p \in Post : p \in reported => post[p].pc \in {"learn", "done", "gone"}
  /\ \A p \in Post : Checked(p)
  /\ ~setup.faulty /\ setup.cached =>
       /\ setup.shared => \A e \in cache[Shared] : e.source \in index
       /\ \A p \in Post : Retracting(p) /\ Disproved(p)

LEMMA InitRetract == Init => RetractInv
<1> SUFFICES ASSUME Init PROVE RetractInv
  OBVIOUS
<1>1. Silent \in Report /\ Silent.pc = "absent"
  BY DEF Silent, Report
<1>2. post \in [Post -> Report] /\ \A p \in Post : post[p].pc = "absent" /\ p \notin reported
  BY <1>1 DEF Init
<1>3. cache[Shared] = {}
  BY DEF Init, Store
<1> QED
  BY <1>2, <1>3, InitReplay DEF RetractInv, Posted, Checked, Retracting, Disproved

\* A stored decision, and the one it replayed, stay as they are.
LEMMA AboutStays ==
  ASSUME ReplayInv, [Next]_vars, NEW a \in Request, receipt[a] = "stored"
  PROVE  /\ receipt'[a] = "stored" /\ req'[a].source = req[a].source
         /\ Settled(a) /\ (req[a].source \in Request => Settled(req[a].source))
<1>1. Settled(a)
  BY DEF ReplayInv, Once, Fits, Settled
<1>2. req[a].source \in Request => Settled(req[a].source)
  BY ServingAssumption DEF ReplayInv, Backed, Proven, Request
<1>3. receipt'[a] = "stored"
  BY StoredStays DEF ReplayInv
<1>4. req'[a].source = req[a].source
  BY <1>1, SettledStays DEF ReplayInv, Same
<1> QED BY <1>1, <1>2, <1>3, <1>4

\* What is true of a report stays so while its handler does nothing.
LEMMA ReportStays ==
  ASSUME RetractInv, [Next]_vars, NEW p \in Post, UNCHANGED post[p], p \in reported' => p \in reported
  PROVE  /\ Checked(p)'
         /\ ~setup.faulty /\ setup.cached => Retracting(p)' /\ Disproved(p)'
<1> DEFINE about == post[p].about
<1>1. setup' = setup
  BY SetupStays
<1>2. CASE post[p].pc = "absent" \/ receipt[about] # "stored"
  BY <1>2 DEF RetractInv, Checked, Retracting, Disproved
<1>3. CASE post[p].pc # "absent" /\ receipt[about] = "stored"
  <2>1. about \in Request /\ Home(post[p].at) \in Store
    BY <1>3, SetupShape DEF RetractInv, ReplayInv, Posted, Home, Store
  <2>2. /\ receipt'[about] = "stored" /\ req'[about].source = req[about].source
        /\ Settled(about) /\ (req[about].source \in Request => Settled(req[about].source))
    BY <1>3, <2>1, AboutStays DEF RetractInv
  <2>3. Home(post[p].at)' = Home(post[p].at) /\ SourceOf(p)' = SourceOf(p)
    BY <1>1, <2>2 DEF Home, SourceOf
  <2>4. ClearFor(p, about) => ClearFor(p, about)'
    BY <2>1, <2>2, <2>3, ClearStays DEF ClearFor, RetractInv, ReplayInv, Clear
  <2>5. ClearFor(p, SourceOf(p)) => ClearFor(p, SourceOf(p))'
    BY <2>1, <2>2, <2>3, ClearStays DEF ClearFor, SourceOf, RetractInv, ReplayInv, Clear
  <2> QED BY <2>2, <2>3, <2>4, <2>5 DEF RetractInv, Checked, Retracting, Disproved
<1> QED BY <1>2, <1>3

LEMMA TailShorter ==
  ASSUME NEW S, NEW s \in Seq(S), Len(s) > 0
  PROVE  Tail(s) \in Seq(S) /\ (Len(s) # 1 => Len(Tail(s)) > 0)
<1>1. s # <<>> /\ Len(s) \in Nat
  OBVIOUS
<1>2. Tail(s) \in Seq(S) /\ Len(Tail(s)) = Len(s) - 1
  BY <1>1, HeadTailProperties
<1> QED BY <1>1, <1>2

LEMMA PostedMoves ==
  ASSUME Posted, UNCHANGED setup, NEW p \in Post, post[p].pc # "absent",
         NEW pc \in {"refused", "origin", "retract", "append", "learn", "done", "gone"},
         NEW todo \in Seq(Request), pc = "retract" => Len(todo) > 0,
         post' = [post EXCEPT ![p] = [post[p] EXCEPT !.pc = pc, !.todo = todo]]
  PROVE  Posted'
BY DEF Posted, Report

LEMMA PosterMoves ==
  ASSUME Posted, UNCHANGED setup, NEW p \in Post, post[p].pc # "absent",
         NEW pc \in {"refused", "origin", "append", "learn", "done", "gone"},
         PostMoves(p, pc)
  PROVE  Posted'
BY DEF Posted, Report, PostMoves

\* What a step of a handler does to its report.
Cases(p) ==
  \/ PostArrives(p)
  \/ TraceExists(p)
  \/ Origin(p)
  \/ Retract(p)
  \/ AppendDeferred(p)
  \/ Learn(p)
  \/ PosterLeaves(p)
  \/ \E at \in setup.replicas : /\ Crash(at) /\ post[p].pc \notin Ended
                                /\ post'[p] = [post[p] EXCEPT !.pc = "gone"]

LEMMA PostSteps ==
  ASSUME Posted, [Next]_vars, NEW p \in Post
  PROVE  Cases(p) \/ (UNCHANGED post[p] /\ (p \in reported' => p \in reported))
<1> USE DEF environment, caches, feedback, shadows, decisions
<1>1. CASE UNCHANGED <<post, reported>>
  BY <1>1
<1>2. ASSUME NEW q \in Post, PostArrives(q) \/ Handler(q) \/ PosterLeaves(q), q # p
      PROVE  UNCHANGED post[p] /\ (p \in reported' => p \in reported)
  <2>1. post \in [Post -> Report]
    BY DEF Posted
  <2>2. CASE PostArrives(q) \/ TraceExists(q) \/ Origin(q) \/ Retract(q) \/ Learn(q)
    BY <1>2, <2>1, <2>2 DEF PostArrives, TraceExists, Origin, Retract, Learn, PostMoves
  <2>3. CASE AppendDeferred(q) \/ PosterLeaves(q)
    BY <1>2, <2>1, <2>3 DEF AppendDeferred, PosterLeaves, PostMoves
  <2> QED BY <1>2, <2>2, <2>3 DEF Handler
<1>3. ASSUME NEW r \in Request, Arrive(r) \/ Pipeline(r) \/ ClientLeaves(r) \/ Observing(r)
                                  \/ Shadowing(r) \/ StoreReceipt(r)
      PROVE  UNCHANGED <<post, reported>>
  BY <1>3 DEF Arrive, Pipeline, Lookup, Replay, RouteEnforce, Probe, GatePanics, PutEntry, OfferDecision, ClientLeaves,
       Observing, Forward, ForwardStream, SpawnedTrace, StreamEnds, TapDropped, Shadowing, MaySpend,
       Debit, ShadowPanics, StoreReceipt
<1>4. CASE Expire \/ Tick \/ UNCHANGED vars
  BY <1>1, <1>4 DEF Expire, Tick, vars
<1>5. ASSUME NEW at \in setup.replicas, Crash(at)
      PROVE  Cases(p) \/ (UNCHANGED post[p] /\ (p \in reported' => p \in reported))
  BY <1>5 DEF Crash, Cases, Ended
<1> QED BY <1>1, <1>2, <1>3, <1>4, <1>5 DEF Next, Beside, Observing, Cases, Handler

LEMMA StepPosted == RetractInv /\ [Next]_vars => Posted'
<1> SUFFICES ASSUME RetractInv, [Next]_vars PROVE Posted'
  OBVIOUS
<1> USE DEF environment, caches, feedback, shadows, decisions, RetractInv
<1>0. setup' = setup /\ setup.replicas \subseteq Replica
  BY SetupStays, SetupShape DEF ReplayInv
<1>1. CASE UNCHANGED post
  BY <1>0, <1>1 DEF Posted
<1>2. ASSUME NEW p \in Post, PostArrives(p) PROVE Posted'
  BY <1>0, <1>2 DEF PostArrives, Posted, Report
<1>3. ASSUME NEW p \in Post, TraceExists(p) \/ AppendDeferred(p) \/ Learn(p) \/ PosterLeaves(p)
      PROVE  Posted'
  <2>1. CASE TraceExists(p)
    BY <1>0, <2>1, PosterMoves DEF TraceExists
  <2>2. CASE AppendDeferred(p)
    BY <1>0, <2>2, PosterMoves DEF AppendDeferred
  <2>3. CASE Learn(p)
    BY <1>0, <2>3, PosterMoves DEF Learn
  <2>4. CASE PosterLeaves(p)
    BY <1>0, <2>4, PosterMoves DEF PosterLeaves
  <2> QED BY <1>3, <2>1, <2>2, <2>3, <2>4
<1>4. ASSUME NEW p \in Post, Origin(p) PROVE Posted'
  <2>1. post[p].about \in Request /\ SourceOf(p) \in Request \cup {None}
    BY <1>4 DEF Origin, Posted, SourceOf, ReplayInv, Shaped, Decision
  <2> DEFINE todo == IF SourceOf(p) = None THEN <<post[p].about>>
                     ELSE <<post[p].about, SourceOf(p)>>
  <2>2. todo \in Seq(Request) /\ Len(todo) > 0
    BY <2>1
  <2>3. post' = [post EXCEPT ![p].pc = "retract", ![p].todo = todo]
    BY <1>4 DEF Origin, SourceOf
  <2> HIDE DEF todo
  <2>4. post' = [post EXCEPT ![p] = [post[p] EXCEPT !.pc = "retract", !.todo = todo]]
    BY <2>3 DEF Posted, Report
  <2> QED BY <1>0, <1>4, <2>2, <2>4, PostedMoves DEF Origin
<1>5. ASSUME NEW p \in Post, Retract(p) PROVE Posted'
  <2> DEFINE pc == IF Len(post[p].todo) = 1 THEN "append" ELSE "retract"
             todo == Tail(post[p].todo)
  <2>1. post[p].todo \in Seq(Request) /\ post[p].pc = "retract" /\ Len(post[p].todo) > 0
    BY <1>5 DEF Retract, Posted, Report
  <2>2. todo \in Seq(Request) /\ pc \in {"append", "retract"} /\ (pc = "retract" => Len(todo) > 0)
    BY <2>1, TailShorter
  <2>3. post' = [post EXCEPT ![p].todo = todo,
                             ![p].pc = IF Len(post[p].todo) = 1 THEN "append" ELSE @]
    BY <1>5 DEF Retract
  <2>4. post' = [post EXCEPT ![p] = [post[p] EXCEPT !.pc = pc, !.todo = todo]]
    <3> HIDE DEF todo
    <3> QED BY <2>1, <2>3 DEF Posted, Report
  <2> HIDE DEF pc, todo
  <2> QED BY <1>0, <2>1, <2>2, <2>4, PostedMoves
<1>6. ASSUME NEW at \in setup.replicas, Crash(at) PROVE Posted'
  BY <1>0, <1>6 DEF Crash, Posted, Report, Ended
<1>7. ASSUME NEW r \in Request, Arrive(r) \/ Pipeline(r) \/ ClientLeaves(r) \/ Observing(r)
                                  \/ Shadowing(r) \/ StoreReceipt(r)
      PROVE  UNCHANGED post
  BY <1>7 DEF Arrive, Pipeline, Lookup, Replay, RouteEnforce, Probe, GatePanics, PutEntry, OfferDecision, ClientLeaves,
       Observing, Forward, ForwardStream, SpawnedTrace, StreamEnds, TapDropped, Shadowing, MaySpend,
       Debit, ShadowPanics, StoreReceipt
<1>8. CASE Expire \/ Tick \/ UNCHANGED vars
  BY <1>1, <1>8 DEF Expire, Tick, vars
<1> QED BY <1>1, <1>2, <1>3, <1>4, <1>5, <1>6, <1>7, <1>8 DEF Next, Beside, Observing, Handler

\* Every entry of the shared store can be found by its source.
Indexed ==
  ~setup.faulty /\ setup.cached /\ setup.shared => \A e \in cache[Shared] : e.source \in index

\* A retraction that does not fail leaves no entry of its decision.
LEMMA RetractClears ==
  ASSUME RetractInv, ~setup.faulty, setup.cached, NEW p \in Post, Retract(p)
  PROVE  /\ \A e \in cache'[Home(post[p].at)] : e.source # Head(post[p].todo)
         /\ Indexed'
<1> DEFINE id == Head(post[p].todo)
           key == Key(req[id].kind)
<1> USE DEF environment, caches, feedback, shadows, decisions
<1>1. /\ DOMAIN cache = Store /\ Shared \notin Replica /\ setup' = setup
      /\ setup.replicas \subseteq Replica /\ post[p].at \in setup.replicas /\ UNCHANGED req
  BY ServingAssumption, SetupShape DEF RetractInv, ReplayInv, Sourced, Posted, Retract
<1>2. \A s \in Store : \A e \in cache[s] : e.key = Key(req[e.source].kind)
  BY DEF RetractInv, ReplayInv, Backed
<1>3. Home(post[p].at) \in Store
  BY <1>1 DEF Home, Store
<1> HIDE DEF id
<1>4. CASE ~setup.shared
  BY <1>1, <1>3, <1>4 DEF Retract, Without, Home, Indexed, id
<1>5. CASE setup.shared /\ id \in index
  <2>1. cache' = [cache EXCEPT ![Shared] = @ \ Hits(@, key)] /\ index' = index \ {id}
    BY <1>5 DEF Retract, id
  <2>2. \A e \in cache'[Shared] : e \in cache[Shared] /\ e.source # id
    BY <1>1, <1>2, <2>1 DEF Hits, Store
  <2> QED BY <1>1, <1>5, <2>1, <2>2 DEF Home, Indexed, RetractInv, id
<1>6. CASE setup.shared /\ id \notin index
  BY <1>1, <1>6 DEF Retract, Home, Indexed, RetractInv, id
<1> QED BY <1>4, <1>5, <1>6

LEMMA StepIndexed == RetractInv /\ [Next]_vars => Indexed'
<1> SUFFICES ASSUME RetractInv, [Next]_vars, (~setup.faulty /\ setup.cached /\ setup.shared)'
             PROVE  (\A e \in cache[Shared] : e.source \in index)'
  BY DEF Indexed
<1> USE DEF environment, caches, feedback, shadows, decisions
<1>0. /\ setup' = setup /\ ~setup.faulty /\ setup.cached /\ setup.shared
      /\ \A e \in cache[Shared] : e.source \in index
      /\ DOMAIN cache = Store /\ Shared \in Store /\ setup.replicas \subseteq Store \ {Shared}
  BY SetupStays, SetupShape, ServingAssumption DEF RetractInv, ReplayInv, Sourced, Store
<1>1. CASE UNCHANGED caches
  BY <1>0, <1>1
<1>2. ASSUME NEW r \in Request, PutEntry(r) PROVE (\A e \in cache[Shared] : e.source \in index)'
  <2>1. index' = index \cup {r} /\ cache'[Shared] = Inserted(cache[Shared], Key(req[r].kind), r)
    BY <1>0, <1>2 DEF PutEntry
  <2> QED BY <1>0, <2>1 DEF Inserted
<1>3. ASSUME NEW p \in Post, Retract(p) PROVE (\A e \in cache[Shared] : e.source \in index)'
  BY <1>0, <1>3, RetractClears DEF Indexed
<1>4. ASSUME NEW r \in Request, Arrive(r) \/ Pipeline(r) \/ ClientLeaves(r) \/ Observing(r)
                                  \/ Shadowing(r) \/ StoreReceipt(r)
      PROVE  (\A e \in cache[Shared] : e.source \in index)'
  BY <1>1, <1>2, <1>4 DEF Arrive, Pipeline, Lookup, Replay, RouteEnforce, Probe, GatePanics, OfferDecision, ClientLeaves,
       Observing, Forward, ForwardStream, SpawnedTrace, StreamEnds, TapDropped, Shadowing, MaySpend,
       Debit, ShadowPanics, StoreReceipt
<1>5. ASSUME NEW p \in Post, PostArrives(p) \/ Handler(p) \/ PosterLeaves(p)
      PROVE  (\A e \in cache[Shared] : e.source \in index)'
  BY <1>1, <1>3, <1>5 DEF PostArrives, Handler, TraceExists, Origin, AppendDeferred, Learn, PosterLeaves
<1>6. CASE Expire
  BY <1>0, <1>6 DEF Expire
<1>7. CASE Tick \/ UNCHANGED vars
  BY <1>1, <1>7 DEF Tick, vars
<1>8. ASSUME NEW at \in setup.replicas, Crash(at)
      PROVE  (\A e \in cache[Shared] : e.source \in index)'
  BY <1>0, <1>8 DEF Crash
<1> QED BY <1>4, <1>5, <1>6, <1>7, <1>8 DEF Next, Beside, Observing

LEMMA StepRetract == RetractInv /\ [Next]_vars => RetractInv'
<1> SUFFICES ASSUME RetractInv, [Next]_vars PROVE RetractInv'
  OBVIOUS
<1> USE DEF environment, caches, feedback, shadows, decisions
<1>1. ReplayInv' /\ Posted' /\ Indexed'
  BY StepReplay, StepPosted, StepIndexed DEF RetractInv
<1>2. setup' = setup
  BY SetupStays
<1>3. ASSUME NEW p \in Post
      PROVE  /\ (p \in reported => post[p].pc \in {"learn", "done", "gone"})'
             /\ Checked(p)'
             /\ ~setup.faulty /\ setup.cached => Retracting(p)' /\ Disproved(p)'
  <2> DEFINE Kept == /\ (p \in reported => post[p].pc \in {"learn", "done", "gone"})'
                     /\ Checked(p)'
                     /\ ~setup.faulty /\ setup.cached => Retracting(p)' /\ Disproved(p)'
  <2>1. /\ post \in [Post -> Report] /\ post[p] \in Report
        /\ p \in reported => post[p].pc \in {"learn", "done", "gone"}
        /\ Checked(p)
        /\ ~setup.faulty /\ setup.cached => Retracting(p) /\ Disproved(p)
    BY DEF RetractInv, Posted
  <2>2. CASE UNCHANGED post[p] /\ (p \in reported' => p \in reported)
    BY <2>1, <2>2, ReportStays
  <2>3. ASSUME NEW pc, post'[p] = [post[p] EXCEPT !.pc = pc]
        PROVE  /\ post'[p].pc = pc /\ post'[p].about = post[p].about /\ post'[p].at = post[p].at
               /\ post'[p].failed = post[p].failed /\ post'[p].todo = post[p].todo
    BY <2>1, <2>3 DEF Report
  <2>4. CASE PostArrives(p)
    <3>1. post'[p].pc = "check" /\ p \notin reported'
      BY <2>1, <2>4 DEF PostArrives
    <3> QED BY <3>1 DEF Checked, Retracting, Disproved
  <2>5. CASE TraceExists(p)
    <3>1. PICK pc \in {"refused", "origin", "append"} :
            /\ post'[p] = [post[p] EXCEPT !.pc = pc]
            /\ pc # "refused" => receipt[post[p].about] = "stored"
            /\ pc = "append" => ~(post[p].failed /\ setup.cached)
      BY <2>1, <2>5 DEF TraceExists, PostMoves
    <3>2. p \notin reported' /\ UNCHANGED receipt
      BY <2>1, <2>5 DEF TraceExists
    <3> QED BY <2>3, <3>1, <3>2 DEF Checked, Retracting, Disproved
  <2>6. CASE Origin(p)
    <3> DEFINE todo == IF SourceOf(p) = None THEN <<post[p].about>>
                       ELSE <<post[p].about, SourceOf(p)>>
    <3>1. post'[p] = [post[p] EXCEPT !.pc = "retract", !.todo = todo]
      BY <2>1, <2>6 DEF Origin, SourceOf
    <3>2. /\ post'[p].pc = "retract" /\ post'[p].todo = todo /\ post'[p].about = post[p].about
          /\ p \notin reported' /\ UNCHANGED <<receipt, req>>
      <4> HIDE DEF todo
      <4> QED BY <2>1, <2>6, <3>1 DEF Origin, Report
    <3>3. receipt[post[p].about] = "stored" /\ SourceOf(p)' = SourceOf(p)
      BY <2>1, <2>6, <3>2 DEF Origin, Checked, SourceOf
    <3> QED BY <3>2, <3>3 DEF Checked, Retracting, Disproved
  <2>7. CASE Retract(p)
    <3> DEFINE todo == Tail(post[p].todo)
               pc == IF Len(post[p].todo) = 1 THEN "append" ELSE post[p].pc
               home == Home(post[p].at)
    <3>1. /\ post[p].pc = "retract" /\ p \notin reported' /\ UNCHANGED <<receipt, req>>
          /\ post'[p] = [post[p] EXCEPT !.todo = todo, !.pc = pc]
      BY <2>1, <2>7 DEF Retract
    <3>2. /\ post'[p].pc = pc /\ post'[p].todo = todo /\ post'[p].about = post[p].about
          /\ Home(post[p].at)' = home /\ SourceOf(p)' = SourceOf(p)
      <4> HIDE DEF todo, pc
      <4> QED BY <1>2, <2>1, <3>1 DEF Report, Home, SourceOf
    <3>3. receipt'[post[p].about] = "stored" /\ post'[p].pc \in {"retract", "append"}
      BY <2>1, <3>1, <3>2 DEF Checked
    <3>4. CASE setup.faulty \/ ~setup.cached
      BY <3>1, <3>2, <3>3, <3>4 DEF Checked
    <3>5. CASE ~setup.faulty /\ setup.cached
      <4>1. \A e \in cache'[home] : e.source # Head(post[p].todo)
        BY <2>7, <3>5, RetractClears
      <4>2. post[p].about \in Request /\ home \in Store
        BY <3>1, SetupShape DEF RetractInv, ReplayInv, Posted, Home, Store
      <4>3. CASE SourceOf(p) = None /\ post[p].todo = <<post[p].about>>
        <5>1. Head(post[p].todo) = post[p].about /\ pc = "append"
          BY <4>3
        <5>2. \A e \in cache'[home] : e.source # None
          BY <1>1, <4>2, ServingAssumption DEF ReplayInv, Sourced, Request
        <5> QED BY <3>1, <3>2, <3>3, <4>1, <4>3, <5>1, <5>2
                DEF Checked, Retracting, Disproved, ClearFor, Clear
      <4>4. CASE SourceOf(p) # None /\ post[p].todo = <<post[p].about, SourceOf(p)>>
        <5>1. Head(post[p].todo) = post[p].about /\ pc = "retract" /\ todo = <<SourceOf(p)>>
          BY <3>1, <4>4
        <5> QED BY <3>1, <3>2, <3>3, <4>1, <4>4, <5>1
                DEF Checked, Retracting, Disproved, ClearFor, Clear
      <4>5. CASE /\ SourceOf(p) # None /\ post[p].todo = <<SourceOf(p)>>
                 /\ ClearFor(p, post[p].about)
        <5>1. Head(post[p].todo) = SourceOf(p) /\ pc = "append"
          BY <4>5
        <5>2. Settled(post[p].about)
          BY <2>1, <3>1, <4>2, AboutStays DEF Checked, RetractInv
        <5>3. \A e \in cache'[home] : e.source # post[p].about
          BY <4>2, <4>5, <5>2, StoreGrowsByPut DEF RetractInv, ReplayInv, ClearFor, Clear, Once, Fits,
             Settled
        <5> QED BY <3>1, <3>2, <3>3, <4>1, <4>5, <5>1, <5>3
                DEF Checked, Retracting, Disproved, ClearFor, Clear
      <4> QED BY <2>1, <3>1, <3>5, <4>3, <4>4, <4>5 DEF Retracting
    <3> QED BY <3>4, <3>5
  <2>8. CASE AppendDeferred(p)
    <3>1. PICK pc \in {"learn", "refused"} :
            /\ post'[p] = [post[p] EXCEPT !.pc = pc] /\ post[p].pc = "append"
            /\ p \in reported' => pc = "learn"
      BY <2>1, <2>8 DEF AppendDeferred, PostMoves
    <3>2. UNCHANGED <<cache, receipt, req>>
      BY <2>8 DEF AppendDeferred
    <3> QED BY <1>2, <2>1, <2>3, <3>1, <3>2
            DEF Checked, Retracting, Disproved, ClearFor, Clear, SourceOf, Home
  <2>9. CASE Learn(p)
    <3>1. /\ post'[p] = [post[p] EXCEPT !.pc = "done"] /\ post[p].pc = "learn"
          /\ UNCHANGED <<cache, receipt, req, reported>>
      BY <2>1, <2>9 DEF Learn, PostMoves
    <3> QED BY <1>2, <2>1, <2>3, <3>1
            DEF Checked, Retracting, Disproved, ClearFor, Clear, SourceOf, Home
  <2>10. CASE PosterLeaves(p)
    <3>1. /\ post'[p] = [post[p] EXCEPT !.pc = "gone"] /\ UNCHANGED <<cache, receipt, req>>
          /\ p \in reported' => p \in reported \/ post[p].pc = "append"
      BY <2>1, <2>10 DEF PosterLeaves, PostMoves
    <3> QED BY <1>2, <2>1, <2>3, <3>1
            DEF Checked, Retracting, Disproved, ClearFor, Clear, SourceOf, Home
  <2>11. ASSUME NEW at \in setup.replicas, Crash(at), post[p].pc \notin Ended,
                post'[p] = [post[p] EXCEPT !.pc = "gone"]
         PROVE  Kept
    <3>1. reported' = reported /\ cache' = [cache EXCEPT ![at] = {}]
      BY <2>11 DEF Crash
    <3>2. CASE p \notin reported
      BY <2>3, <2>11, <3>1, <3>2 DEF Checked, Retracting, Disproved
    <3>3. CASE p \in reported
      <4>1. post[p].pc # "absent" /\ receipt[post[p].about] = "stored" /\ post[p].about \in Request
        BY <2>1, <3>3 DEF Checked, RetractInv, Posted
      <4>2. receipt'[post[p].about] = "stored" /\ SourceOf(p)' = SourceOf(p)
        BY <2>3, <2>11, <4>1, AboutStays DEF RetractInv, SourceOf
      <4>3. Home(post[p].at)' = Home(post[p].at)
        BY <1>2, <2>3, <2>11 DEF Home
      <4>4. DOMAIN cache = Store /\ Home(post[p].at) \in Store
        BY <4>1, SetupShape DEF RetractInv, ReplayInv, Sourced, Posted, Home, Store
      <4>5. \A e \in cache'[Home(post[p].at)] : e \in cache[Home(post[p].at)]
        BY <3>1, <4>4
      <4> QED BY <2>1, <2>3, <2>11, <3>3, <4>2, <4>3, <4>5
              DEF Checked, Retracting, Disproved, ClearFor, Clear
    <3> QED BY <3>2, <3>3
  <2> QED BY <2>2, <2>4, <2>5, <2>6, <2>7, <2>8, <2>9, <2>10, <2>11, PostSteps DEF Cases, RetractInv
<1> QED BY <1>1, <1>2, <1>3 DEF RetractInv, Indexed

\* A failing report, once past its retraction, has left no entry resting on the
\* decision it names nor on the one that decision replayed, in a store that does not
\* fail, whatever is put there meanwhile (feedback, CacheStore::retract).
THEOREM DisprovenAlwaysStaysOut == Spec => []DisprovenStaysOut
<1>1. Init => RetractInv
  BY InitRetract
<1>2. RetractInv /\ [Next]_vars => RetractInv'
  BY StepRetract
<1>3. RetractInv => DisprovenStaysOut
  BY DEF RetractInv, Disproved, ClearFor, Clear, SourceOf, DisprovenStaysOut
<1> QED BY <1>1, <1>2, <1>3, PTL DEF Spec

-------------------------------------------------------------------------------
(* Demotions.                                                              *)

Among(w, q) == \E j \in 1..Len(w) : w[j] = q
In(at, i, q) == Among(guard[at][i].outcomes, q)

\* An outcome is in one window at most, and there only until it is counted in a
\* demotion.
GuardInv ==
  /\ RetractInv /\ time \in Nat
  /\ guard \in [Replica -> [Route -> [outcomes : Seq(Post), until : Nat]]]
  /\ blamed \in [Post -> 0..1]
  /\ \A q \in Post : post[q].pc # "done" => blamed[q] = 0
  /\ \A at \in Replica, i \in Route, q \in Post :
       In(at, i, q) => post[q].pc = "done" /\ blamed[q] = 0
  /\ \A at, on \in Replica, i, k \in Route, q \in Post :
       In(at, i, q) /\ In(on, k, q) => at = on /\ i = k

LEMMA PushedIsAmong ==
  ASSUME NEW w \in Seq(Post), NEW p \in Post
  PROVE  Pushed(w, p) \in Seq(Post) /\ \A q : Among(Pushed(w, p), q) => q = p \/ Among(w, q)
<1>1. CASE Len(w) < Window
  BY <1>1, AppendProperties DEF Pushed, Among
<1>2. CASE ~(Len(w) < Window)
  <2>1. w # <<>>
    BY <1>2, GuardAssumption
  <2>2. Tail(w) \in Seq(Post) /\ \A q : Among(Tail(w), q) => Among(w, q)
    BY <2>1, HeadTailProperties DEF Among
  <2>3. Pushed(w, p) = Append(Tail(w), p)
    BY <1>2 DEF Pushed
  <2> QED BY <2>2, <2>3, AppendProperties DEF Among
<1> QED BY <1>1, <1>2

LEMMA InitGuard == Init => GuardInv
<1> SUFFICES ASSUME Init PROVE GuardInv
  OBVIOUS
<1>1. Calm \in [outcomes : Seq(Post), until : Nat] /\ \A q : ~Among(Calm.outcomes, q)
  BY DEF Calm, Among
<1>2. \A at \in Replica, i \in Route : guard[at][i] = Calm
  BY DEF Init
<1> QED BY <1>1, <1>2, InitRetract DEF Init, GuardInv, In

\* The reports in the windows are kept apart by a step that counts none.
LEMMA GuardStays ==
  ASSUME GuardInv, RetractInv', UNCHANGED blamed, time' \in Nat,
         \/ UNCHANGED guard
         \/ \E at \in Replica : guard' = [guard EXCEPT ![at] = [i \in Route |-> Calm]],
         \A q \in Post : post'[q].pc = "done" <=> post[q].pc = "done"
  PROVE  GuardInv'
<1>1. CASE UNCHANGED guard
  BY <1>1 DEF GuardInv, In
<1>2. ASSUME NEW on \in Replica, guard' = [guard EXCEPT ![on] = [i \in Route |-> Calm]]
      PROVE  GuardInv'
  <2>1. Calm \in [outcomes : Seq(Post), until : Nat] /\ \A q : ~Among(Calm.outcomes, q)
    BY DEF Calm, Among
  <2>2. guard' \in [Replica -> [Route -> [outcomes : Seq(Post), until : Nat]]]
    BY <1>2, <2>1 DEF GuardInv
  <2>3. \A at \in Replica, i \in Route, q \in Post : In(at, i, q)' => In(at, i, q)
    BY <1>2, <2>1 DEF GuardInv, In
  <2> QED BY <2>2, <2>3 DEF GuardInv
<1> QED BY <1>1, <1>2

\* A report that is learned from goes into one window; the window that demotes is
\* counted and emptied.
LEMMA LearnKeepsApart ==
  ASSUME GuardInv, RetractInv', NEW p \in Post, Learn(p)
  PROVE  GuardInv'
<1> DEFINE at == post[p].at
           i == TraceRoute(post[p].about)
           g == guard[at][i]
           window == Pushed(g.outcomes, p)
           after == Recorded(g, p, {q \in Post : post[q].failed}, time)
<1> USE DEF environment, caches, feedback, shadows, decisions
<1>1. /\ post[p].pc = "learn" /\ UNCHANGED <<req, time, reported>> /\ post \in [Post -> Report]
      /\ \A q \in Post : post'[q].pc = "done" <=> (q = p \/ post[q].pc = "done")
  BY DEF Learn, PostMoves, GuardInv, RetractInv, Posted, Report
<1>2. at \in Replica /\ i \in Route
  <2>1. post[p].about \in Request /\ at \in Replica /\ receipt[post[p].about] = "stored"
    BY <1>1, SetupShape DEF GuardInv, RetractInv, ReplayInv, Posted, Checked
  <2>2. req[post[p].about].kind \in Kind
    BY <2>1, SetupShape DEF GuardInv, RetractInv, ReplayInv, Shaped, Once, Fits, Born
  <2> QED BY <2>1, <2>2 DEF TraceRoute, Kind, Route
<1>3. /\ g \in [outcomes : Seq(Post), until : Nat] /\ window \in Seq(Post)
      /\ \A q : Among(window, q) => q = p \/ In(at, i, q)
  BY <1>2, PushedIsAmong DEF GuardInv, In
<1>4. /\ \A q \in Post : In(at, i, q) => post[q].pc = "done" /\ blamed[q] = 0 /\ q # p
      /\ blamed[p] = 0 /\ \A on \in Replica, k \in Route : ~In(on, k, p)
  BY <1>1, <1>2 DEF GuardInv
<1>5. CASE ~setup.guarded
  <2>1. UNCHANGED <<guard, blamed>>
    BY <1>5 DEF Learn
  <2> QED BY <1>1, <2>1 DEF GuardInv, In
<1>6. CASE setup.guarded
  <2>1. /\ guard' = [guard EXCEPT ![at][i] = after]
        /\ blamed' = IF after.until = g.until THEN blamed
                     ELSE [q \in Post |-> blamed[q] + IF q \in {window[j] : j \in 1..Len(window)}
                                                      THEN 1 ELSE 0]
    BY <1>6 DEF Learn
  <2>2. after \in [outcomes : Seq(Post), until : Nat]
        /\ \/ after.outcomes = window /\ after.until = g.until
           \/ after.outcomes = <<>>
    <3>1. time + Cooldown \in Nat
      BY GuardAssumption DEF GuardInv
    <3>2. \/ after = [outcomes |-> <<>>, until |-> time + Cooldown]
          \/ after = [g EXCEPT !.outcomes = window]
      BY DEF Recorded
    <3> HIDE DEF after, window, g, i, at
    <3>3. g \in [outcomes : Seq(Post), until : Nat] /\ window \in Seq(Post)
      BY <1>3
    <3>4. CASE after = [outcomes |-> <<>>, until |-> time + Cooldown]
      <4>1. <<>> \in Seq(Post)
        OBVIOUS
      <4> QED BY <3>1, <3>4, <4>1
    <3>5. CASE after = [g EXCEPT !.outcomes = window]
      BY <3>3, <3>5
    <3> QED BY <3>2, <3>4, <3>5
  <2> HIDE DEF after, window, g, i, at
  <2>3. guard' \in [Replica -> [Route -> [outcomes : Seq(Post), until : Nat]]]
    BY <1>2, <2>1, <2>2 DEF GuardInv
  <2>4. ASSUME NEW on \in Replica, NEW k \in Route, NEW q \in Post
        PROVE  In(on, k, q)' <=> IF on = at /\ k = i THEN Among(after.outcomes, q) ELSE In(on, k, q)
    BY <1>2, <2>1 DEF GuardInv, In
  <2>5. ASSUME NEW q \in Post, Among(window, q) PROVE blamed[q] = 0 /\ post'[q].pc = "done"
    BY <1>1, <1>3, <1>4, <2>5
  <2>6. CASE after.outcomes = window /\ after.until = g.until
    <3>1. UNCHANGED blamed
      BY <2>1, <2>6
    <3>2. \A on \in Replica, k \in Route, q \in Post :
            In(on, k, q)' => post'[q].pc = "done" /\ blamed'[q] = 0
      BY <1>1, <2>4, <2>5, <2>6, <3>1 DEF GuardInv
    <3>3. \A on \in Replica, k \in Route, q \in Post :
            In(on, k, q)' => In(on, k, q) \/ (q = p /\ on = at /\ k = i)
      BY <1>3, <2>4, <2>6
    <3>4. \A on, where \in Replica, j, k \in Route, q \in Post :
            In(on, j, q)' /\ In(where, k, q)' => on = where /\ j = k
      <4>1. \A on, where \in Replica, j, k \in Route, q \in Post :
              In(on, j, q) /\ In(where, k, q) => on = where /\ j = k
        BY DEF GuardInv
      <4> QED BY <1>4, <3>3, <4>1
    <3> QED BY <1>1, <2>3, <3>1, <3>2, <3>4 DEF GuardInv
  <2>7. CASE after.outcomes = <<>>
    <3>1. \A on \in Replica, k \in Route, q \in Post :
            In(on, k, q)' => In(on, k, q) /\ ~(on = at /\ k = i)
      BY <2>4, <2>7 DEF Among
    <3>2. /\ DOMAIN blamed' = Post /\ blamed' = [q \in Post |-> blamed'[q]]
          /\ \A q \in Post : \/ blamed'[q] = blamed[q]
                             \/ blamed'[q] = blamed[q] + 1 /\ Among(window, q)
      <4>1. CASE after.until = g.until
        BY <2>1, <4>1 DEF GuardInv
      <4>2. CASE after.until # g.until
        BY <2>1, <4>2 DEF GuardInv, Among
      <4> QED BY <4>1, <4>2
    <3>3. \A q \in Post : blamed'[q] \in 0..1
      BY <2>5, <3>2 DEF GuardInv
    <3>4. ASSUME NEW q \in Post, post'[q].pc # "done" \/ (\E on \in Replica, k \in Route : In(on, k, q)')
          PROVE  blamed'[q] = 0
      <4>1. ~Among(window, q)
        BY <1>1, <1>2, <1>3, <1>4, <2>5, <3>1, <3>4 DEF GuardInv
      <4>2. blamed[q] = 0
        BY <1>1, <3>1, <3>4 DEF GuardInv
      <4> QED BY <3>2, <4>1, <4>2
    <3>5. \A on \in Replica, k \in Route, q \in Post : In(on, k, q)' => post'[q].pc = "done"
      BY <1>1, <3>1 DEF GuardInv
    <3> QED BY <1>1, <2>3, <3>1, <3>2, <3>3, <3>4, <3>5 DEF GuardInv
  <2> QED BY <2>2, <2>6, <2>7
<1> QED BY <1>5, <1>6

LEMMA StepGuard == GuardInv /\ [Next]_vars => GuardInv'
<1> SUFFICES ASSUME GuardInv, [Next]_vars PROVE GuardInv'
  OBVIOUS
<1> USE DEF environment, caches, feedback, shadows, decisions
<1>1. RetractInv' /\ post \in [Post -> Report]
  BY StepRetract DEF GuardInv, RetractInv, Posted
<1>2. CASE UNCHANGED <<post, guard, blamed, time>>
  BY <1>1, <1>2, GuardStays DEF GuardInv
<1>3. ASSUME NEW p \in Post, post[p].pc # "done", NEW d, d.pc # "done",
             post' = [post EXCEPT ![p] = d], UNCHANGED <<guard, blamed, time>>
      PROVE  GuardInv'
  <2>1. \A q \in Post : post'[q].pc = "done" <=> post[q].pc = "done"
    BY <1>1, <1>3
  <2> QED BY <1>1, <1>3, <2>1, GuardStays DEF GuardInv
<1>4. ASSUME NEW p \in Post, PostArrives(p) PROVE GuardInv'
  BY <1>3, <1>4 DEF PostArrives
<1>5. ASSUME NEW p \in Post, NEW pc, pc # "done", post[p].pc # "done", PostMoves(p, pc),
             UNCHANGED <<guard, blamed, time>>
      PROVE  GuardInv'
  <2>1. [post[p] EXCEPT !.pc = pc].pc = pc
    BY <1>1 DEF Report
  <2>2. post' = [post EXCEPT ![p] = [post[p] EXCEPT !.pc = pc]]
    BY <1>5 DEF PostMoves
  <2> QED BY <1>3, <1>5, <2>1, <2>2
<1>6. ASSUME NEW p \in Post, TraceExists(p) \/ AppendDeferred(p) \/ PosterLeaves(p) PROVE GuardInv'
  <2>1. PICK pc \in {"refused", "origin", "append", "learn", "gone"} : PostMoves(p, pc)
    BY <1>6 DEF TraceExists, AppendDeferred, PosterLeaves
  <2> QED BY <1>5, <1>6, <2>1 DEF TraceExists, AppendDeferred, PosterLeaves
<1>7. ASSUME NEW p \in Post, Origin(p) \/ Retract(p) PROVE GuardInv'
  <2>1. post[p].pc # "done" /\ UNCHANGED <<guard, blamed, time>>
    BY <1>7 DEF Origin, Retract
  <2>2. PICK pc \in {"retract", "append"} : \E todo :
          post' = [post EXCEPT ![p] = [post[p] EXCEPT !.pc = pc, !.todo = todo]]
    <3>1. \/ \E todo : post' = [post EXCEPT ![p].pc = "retract", ![p].todo = todo]
          \/ \E todo : post[p].pc = "retract" /\
                post' = [post EXCEPT ![p].todo = todo,
                                     ![p].pc = IF Len(post[p].todo) = 1 THEN "append" ELSE @]
      BY <1>7 DEF Origin, Retract
    <3>2. ASSUME NEW todo, post' = [post EXCEPT ![p].pc = "retract", ![p].todo = todo]
          PROVE  post' = [post EXCEPT ![p] = [post[p] EXCEPT !.pc = "retract", !.todo = todo]]
      BY <1>1, <3>2 DEF Report
    <3>3. ASSUME NEW todo, post[p].pc = "retract",
                 post' = [post EXCEPT ![p].todo = todo,
                                      ![p].pc = IF Len(post[p].todo) = 1 THEN "append" ELSE @]
          PROVE  \E pc \in {"retract", "append"} :
                   post' = [post EXCEPT ![p] = [post[p] EXCEPT !.pc = pc, !.todo = todo]]
      BY <1>1, <3>3 DEF Report
    <3> QED BY <3>1, <3>2, <3>3
  <2>3. \A todo : [post[p] EXCEPT !.pc = pc, !.todo = todo].pc = pc
    BY <1>1 DEF Report
  <2> QED BY <1>3, <2>1, <2>2, <2>3
<1>8. ASSUME NEW p \in Post, Learn(p) PROVE GuardInv'
  BY <1>1, <1>8, LearnKeepsApart
<1>9. ASSUME NEW at \in setup.replicas, Crash(at) PROVE GuardInv'
  <2>1. \A q \in Post : post'[q].pc = "done" <=> post[q].pc = "done"
    BY <1>1, <1>9 DEF Crash, Ended, Report
  <2>2. guard' = [guard EXCEPT ![at] = [i \in Route |-> Calm]] /\ UNCHANGED <<blamed, time>>
    BY <1>9 DEF Crash
  <2>3. at \in Replica
    BY SetupShape DEF GuardInv, RetractInv, ReplayInv
  <2> QED BY <1>1, <2>1, <2>2, <2>3, GuardStays DEF GuardInv
<1>10. ASSUME NEW r \in Request, Arrive(r) \/ Pipeline(r) \/ ClientLeaves(r) \/ Observing(r)
                                   \/ Shadowing(r) \/ StoreReceipt(r)
       PROVE  UNCHANGED <<post, guard, blamed, time>>
  BY <1>10 DEF Arrive, Pipeline, Lookup, Replay, RouteEnforce, Probe, GatePanics, PutEntry, OfferDecision, ClientLeaves,
       Observing, Forward, ForwardStream, SpawnedTrace, StreamEnds, TapDropped, Shadowing, MaySpend,
       Debit, ShadowPanics, StoreReceipt
<1>11. CASE Expire \/ UNCHANGED vars
  BY <1>2, <1>11 DEF Expire, vars
<1>12. CASE Tick
  <2>1. time' \in Nat /\ UNCHANGED <<post, guard, blamed>>
    BY <1>12 DEF Tick, GuardInv
  <2> QED BY <1>1, <2>1, GuardStays DEF GuardInv
<1> QED
  BY <1>2, <1>4, <1>6, <1>7, <1>8, <1>9, <1>10, <1>11, <1>12 DEF Next, Beside, Observing, Handler

\* No report takes part in two demotions: a demotion clears the window of what it was
\* decided on, and a report enters one window once (GuardrailRegistry::record).
THEOREM AlwaysDemotedOnNewEvidence == Spec => []DemotedOnNewEvidence
<1>1. Init => GuardInv
  BY InitGuard
<1>2. GuardInv /\ [Next]_vars => GuardInv'
  BY StepGuard
<1>3. GuardInv => DemotedOnNewEvidence
  BY DEF GuardInv, DemotedOnNewEvidence
<1> QED BY <1>1, <1>2, <1>3, PTL DEF Spec

-------------------------------------------------------------------------------
(* Shadow spend.                                                           *)

LEMMA WholeDays ==
  ASSUME NEW t \in Nat
  PROVE  Day(t) \in Nat /\ DayLength * Day(t) <= t /\ t < DayLength * Day(t) + DayLength
BY ServingAssumption, Z3 DEF Day

LEMMA Cancel ==
  ASSUME NEW m \in Nat, NEW n \in Nat, DayLength * m < DayLength * n + DayLength
  PROVE  m <= n
<1>1. SUFFICES ASSUME n + 1 <= m PROVE FALSE
  OBVIOUS
<1>2. PICK k \in Nat : m = n + 1 + k
  <2>1. m - (n + 1) \in Nat
    BY <1>1
  <2> QED BY <2>1
<1>3. DayLength * m = DayLength * n + DayLength + DayLength * k
  BY <1>2, ServingAssumption
<1>4. DayLength * k >= 0
  BY ServingAssumption
<1> QED BY <1>3, <1>4, ServingAssumption

LEMMA DaysPass ==
  ASSUME NEW t \in Nat, NEW u \in Nat, t <= u
  PROVE  Day(t) <= Day(u)
<1>1. DayLength * Day(t) <= t /\ Day(t) \in Nat /\ Day(u) \in Nat
  BY WholeDays
<1>2. u < DayLength * Day(u) + DayLength
  BY WholeDays
<1>3. DayLength * Day(t) \in Nat /\ DayLength * Day(u) \in Nat
  BY <1>1, ServingAssumption
<1>4. DayLength * Day(t) < DayLength * Day(u) + DayLength
  BY <1>1, <1>2, <1>3, ServingAssumption
<1> QED BY <1>1, <1>4, Cancel

Evaluation == [pc : {"none", "asked", "running", "skipped", "done"}, day : Days]

\* The account of a replica: what it holds is what was spent on its day, and nothing
\* was on a later one.
Balanced(at) ==
  /\ ledger[at].day <= Day(time) /\ ledger[at].spent = spent[at][ledger[at].day]
  /\ \A d \in Days : d > ledger[at].day => spent[at][d] = 0

ShadowInv ==
  /\ ReplayInv /\ time \in 0..MaxTime /\ crashes \in Nat
  /\ shadow \in [Request -> Evaluation]
  /\ \A r \in Request : shadow[r].pc # "none" => req[r].pc # "absent"
  /\ ledger \in [Replica -> [day : Days, spent : Nat]]
  /\ spent \in [Replica -> [Days -> Nat]]
  /\ ~upset /\ crashes = 0 => \A at \in Replica : Balanced(at)

LEMMA Today == ASSUME NEW t \in 0..MaxTime PROVE Day(t) \in Days
BY WholeDays, DaysPass, ServingAssumption DEF Days

LEMMA InitShadow == Init => ShadowInv
<1> SUFFICES ASSUME Init PROVE ShadowInv
  OBVIOUS
<1>1. 0 \in Days /\ 0 <= Day(0) /\ 0 \in 0..MaxTime
  BY Today, WholeDays, ServingAssumption DEF Days
<1> QED BY <1>1, InitReplay DEF Init, ShadowInv, Evaluation, Balanced

LEMMA NeverUnborn ==
  ASSUME ReplayInv, [Next]_vars, NEW r \in Request, req[r].pc # "absent"
  PROVE  req'[r].pc # "absent"
<1>1. req[r] \in Decision /\ req \in [Request -> Decision]
  BY DEF ReplayInv, Shaped
<1>2. ~Arrive(r)
  BY DEF Arrive
<1>3. CASE RouteEnforce(r)
  <2>1. PICK pc \in {"probe", "put", "offer"} : \E outcome :
          req'[r] = [req[r] EXCEPT !.outcome = outcome, !.pc = pc]
    BY <1>1, <1>3 DEF RouteEnforce, Then, Becomes
  <2> QED BY <1>1, <2>1 DEF Decision
<1>4. CASE Lookup(r)
  <2>1. PICK pc \in {"replay", "route"} : \/ req'[r] = [req[r] EXCEPT !.pc = pc]
                                          \/ \E s : req'[r] = [req[r] EXCEPT !.pc = pc, !.source = s]
    BY <1>1, <1>4 DEF Lookup, Becomes, MovesTo
  <2> QED BY <1>1, <2>1 DEF Decision
<1>5. CASE Carried(r)
  BY <1>5 DEF Carried
<1>6. CASE Probe(r)
  <2>1. PICK pc \in {"put", "offer"} : req'[r] = [req[r] EXCEPT !.pc = pc]
    BY <1>1, <1>6 DEF Probe, GatePanics, Then, MovesTo, Becomes
  <2> QED BY <1>1, <2>1 DEF Decision
<1> QED BY <1>2, <1>3, <1>4, <1>5, <1>6, OthersCarry DEF ReplayInv

LEMMA StepShadow == ShadowInv /\ [Next]_vars => ShadowInv'
<1> SUFFICES ASSUME ShadowInv, [Next]_vars PROVE ShadowInv'
  OBVIOUS
<1> USE DEF environment, caches, feedback, shadows, decisions
<1>1. ReplayInv' /\ \A r \in Request : req[r].pc # "absent" => req'[r].pc # "absent"
  BY StepReplay, NeverUnborn DEF ShadowInv
<1>2. Day(time) \in Days /\ Day(time) \in Nat /\ Days \subseteq Nat
  BY Today, WholeDays DEF ShadowInv, Days
<1>3. CASE UNCHANGED <<shadow, ledger, spent, upset, time, crashes>>
  BY <1>1, <1>3 DEF ShadowInv, Balanced
<1>4. ASSUME NEW r \in Request, Forward(r) \/ ForwardStream(r) PROVE ShadowInv'
  <2>1. /\ shadow' = shadow \/ shadow' = [shadow EXCEPT ![r].pc = "asked"]
        /\ UNCHANGED <<ledger, spent, upset, time, crashes>> /\ req[r].pc # "absent"
    BY <1>4 DEF Forward, ForwardStream, AsksForShadow
  <2>2. /\ shadow' \in [Request -> Evaluation]
        /\ \A s \in Request : shadow'[s].pc # "none" => s = r \/ shadow[s].pc # "none"
    BY <2>1 DEF ShadowInv, Evaluation
  <2> QED BY <1>1, <2>1, <2>2 DEF ShadowInv, Balanced
<1>5. ASSUME NEW r \in Request, MaySpend(r) PROVE ShadowInv'
  <2> DEFINE at == req[r].at
             today == On(ledger[at], Day(time))
             pc == IF today.spent < Ceiling THEN "running" ELSE "skipped"
  <2>1. /\ ledger' = [ledger EXCEPT ![at] = today] /\ shadow[r].pc = "asked"
        /\ shadow' = [shadow EXCEPT ![r] = [pc |-> pc, day |-> Day(time)]]
        /\ UNCHANGED <<req, spent, upset, time, crashes>>
    BY <1>5 DEF MaySpend
  <2>2. /\ shadow' \in [Request -> Evaluation]
        /\ \A s \in Request : shadow'[s].pc # "none" => shadow[s].pc # "none"
    <3> HIDE DEF today, at
    <3> QED BY <1>2, <2>1 DEF ShadowInv, Evaluation
  <2>3. at \in Replica => today \in [day : Days, spent : Nat]
    BY <1>2 DEF On, ShadowInv
  <2> HIDE DEF pc, at
  <2>4. ledger' \in [Replica -> [day : Days, spent : Nat]]
    <3> HIDE DEF today
    <3> QED BY <2>1, <2>3 DEF ShadowInv
  <2>5. ASSUME ~upset, crashes = 0, NEW x \in Replica PROVE Balanced(x)'
    <3>1. Balanced(x) /\ UNCHANGED <<spent, time>>
      BY <2>1, <2>5 DEF ShadowInv
    <3>2. CASE x # at \/ ledger[at].day = Day(time)
      BY <2>1, <3>1, <3>2 DEF ShadowInv, Balanced, On
    <3>3. CASE x = at /\ ledger[at].day # Day(time)
      <4>1. ledger'[x] = [day |-> Day(time), spent |-> 0]
        BY <2>1, <3>3 DEF ShadowInv, On
      <4>2. ledger[x].day \in Nat /\ ledger[x].day # Day(time)
        BY <1>2, <3>3 DEF ShadowInv
      <4>3. ledger[x].day < Day(time) /\ spent[x][Day(time)] = 0
        BY <1>2, <3>1, <4>2 DEF Balanced
      <4>4. \A d \in Days : d > Day(time) => spent[x][d] = 0
        BY <1>2, <3>1, <4>2, <4>3 DEF Balanced
      <4>5. Day(time)' = Day(time)
        BY <3>1 DEF Day
      <4>6. ledger'[x].day = Day(time) /\ ledger'[x].spent = 0 /\ spent' = spent
        BY <3>1, <4>1
      <4>7. ledger'[x].day <= Day(time)'
        BY <1>2, <4>5, <4>6
      <4>8. ledger'[x].spent = spent'[x][ledger'[x].day]
        BY <4>3, <4>6
      <4>9. \A d \in Days : d > ledger'[x].day => spent'[x][d] = 0
        BY <4>4, <4>6
      <4> QED BY <4>7, <4>8, <4>9 DEF Balanced
    <3> QED BY <3>2, <3>3
  <2> QED BY <1>1, <2>1, <2>2, <2>4, <2>5 DEF ShadowInv
<1>6. ASSUME NEW r \in Request, Debit(r) PROVE ShadowInv'
  <2> DEFINE at == req[r].at
             day == shadow[r].day
  <2>1. /\ shadow' = [shadow EXCEPT ![r].pc = "done"] /\ shadow[r].pc = "running"
        /\ UNCHANGED <<req, time, crashes>>
    BY <1>6 DEF Debit
  <2>2. /\ shadow' \in [Request -> Evaluation] /\ day \in Days
        /\ \A s \in Request : shadow'[s].pc # "none" => shadow[s].pc # "none"
    BY <2>1 DEF ShadowInv, Evaluation
  <2>3. CASE UNCHANGED <<ledger, spent, upset>>
    BY <1>1, <2>1, <2>2, <2>3 DEF ShadowInv, Balanced
  <2>4. CASE /\ ledger' = [ledger EXCEPT ![at] = Debited(@, day, 1)]
             /\ spent' = [spent EXCEPT ![at][day] = @ + 1]
             /\ upset' = (upset \/ ledger[at].day # day)
    <3> HIDE DEF at, day
    <3>1. \A x \in Replica : Debited(ledger[x], day, 1) \in [day : Days, spent : Nat]
      BY <2>2 DEF Debited, On, ShadowInv
    <3>2. ledger' \in [Replica -> [day : Days, spent : Nat]] /\ spent' \in [Replica -> [Days -> Nat]]
      <4>1. ledger \in [Replica -> [day : Days, spent : Nat]] /\ spent \in [Replica -> [Days -> Nat]]
        BY DEF ShadowInv
      <4>2. ledger' \in [Replica -> [day : Days, spent : Nat]]
        <5>1. ledger' = [ledger EXCEPT ![at] = Debited(ledger[at], day, 1)]
          BY <2>4
        <5> QED BY <3>1, <4>1, <5>1
      <4>3. \A x \in Replica : [spent[x] EXCEPT ![day] = @ + 1] \in [Days -> Nat]
        BY <2>2, <4>1
      <4>4. spent' = [spent EXCEPT ![at] = [spent[at] EXCEPT ![day] = @ + 1]]
        BY <2>4
      <4>5. spent' \in [Replica -> [Days -> Nat]]
        BY <4>1, <4>3, <4>4
      <4> QED BY <4>2, <4>5
    <3>3. ASSUME ~upset', crashes = 0, NEW x \in Replica PROVE Balanced(x)'
      <4>1. Balanced(x) /\ UNCHANGED time /\ ledger[at].day = day
        BY <2>1, <2>4, <3>3 DEF ShadowInv
      <4>2. CASE x # at
        BY <2>4, <4>1, <4>2 DEF ShadowInv, Balanced
      <4>3. CASE x = at
        <5>1. ledger'[x].day = day /\ ledger'[x].spent = ledger[x].spent + 1
          BY <2>4, <4>1, <4>3 DEF ShadowInv, Debited, On
        <5>2. spent'[x] = [spent[x] EXCEPT ![day] = @ + 1]
          BY <2>4, <4>3 DEF ShadowInv
        <5> QED BY <1>2, <2>2, <4>1, <4>3, <5>1, <5>2 DEF ShadowInv, Balanced
      <4> QED BY <4>2, <4>3
    <3> QED BY <1>1, <2>1, <2>2, <3>2, <3>3 DEF ShadowInv
  <2> QED BY <1>6, <2>3, <2>4 DEF Debit
<1>7. ASSUME NEW r \in Request, ShadowPanics(r) PROVE ShadowInv'
  <2> DEFINE at == req[r].at
             day == shadow[r].day
  <2>1. /\ shadow' = [shadow EXCEPT ![r].pc = "done"] /\ shadow[r].pc = "running"
        /\ spent' = [spent EXCEPT ![at][day] = @ + 1] /\ upset' = TRUE
        /\ UNCHANGED <<req, ledger, time, crashes>>
    BY <1>7 DEF ShadowPanics
  <2>2. /\ shadow' \in [Request -> Evaluation] /\ day \in Days
        /\ \A s \in Request : shadow'[s].pc # "none" => shadow[s].pc # "none"
    BY <2>1 DEF ShadowInv, Evaluation
  <2>3. spent' \in [Replica -> [Days -> Nat]]
    <3> HIDE DEF at, day
    <3>1. spent \in [Replica -> [Days -> Nat]]
      BY DEF ShadowInv
    <3>2. \A x \in Replica : [spent[x] EXCEPT ![day] = @ + 1] \in [Days -> Nat]
      BY <2>2, <3>1
    <3>3. spent' = [spent EXCEPT ![at] = [spent[at] EXCEPT ![day] = @ + 1]]
      BY <2>1
    <3> QED BY <3>1, <3>2, <3>3
  <2> QED BY <1>1, <2>1, <2>2, <2>3 DEF ShadowInv
<1>8. ASSUME NEW at \in setup.replicas, Crash(at) PROVE ShadowInv'
  <2>1. /\ crashes' = crashes + 1 /\ UNCHANGED <<spent, upset, time>>
        /\ shadow' = [r \in Request |-> IF req[r].at = at THEN [pc |-> "none", day |-> 0]
                                        ELSE shadow[r]]
        /\ ledger' = [ledger EXCEPT ![at] = [day |-> 0, spent |-> 0]]
    BY <1>8 DEF Crash
  <2>2. 0 \in Days /\ crashes' \in Nat /\ crashes' # 0
    BY <2>1, Today, ServingAssumption, WholeDays DEF Days, ShadowInv
  <2>3. /\ shadow' \in [Request -> Evaluation] /\ ledger' \in [Replica -> [day : Days, spent : Nat]]
        /\ \A r \in Request : shadow'[r].pc # "none" => shadow[r].pc # "none"
    BY <2>1, <2>2 DEF ShadowInv, Evaluation
  <2> QED BY <1>1, <2>1, <2>2, <2>3 DEF ShadowInv
<1>9. CASE Tick
  <2>1. /\ time' = time + 1 /\ time' \in 0..MaxTime
        /\ UNCHANGED <<shadow, ledger, spent, upset, crashes>>
    BY <1>9, ServingAssumption DEF Tick, ShadowInv
  <2>2. Day(time) <= Day(time') /\ Day(time') \in Nat
    BY <2>1, DaysPass, WholeDays DEF ShadowInv
  <2>3. \A at \in Replica : Balanced(at) => Balanced(at)'
    <3>1. Day(time)' = Day(time')
      BY DEF Day
    <3>2. \A at \in Replica : ledger[at].day \in Nat
      BY <1>2 DEF ShadowInv
    <3>3. ASSUME NEW at \in Replica, Balanced(at) PROVE Balanced(at)'
      <4>1. ledger[at].day <= Day(time) /\ ledger[at].day \in Nat
        BY <3>2, <3>3 DEF Balanced
      <4>2. ledger[at].day <= Day(time')
        BY <1>2, <2>2, <4>1
      <4> QED BY <2>1, <3>1, <3>3, <4>2 DEF Balanced
    <3> QED BY <3>3
  <2> QED BY <1>1, <2>1, <2>3 DEF ShadowInv
<1>10. ASSUME NEW r \in Request, Arrive(r) \/ Pipeline(r) \/ ClientLeaves(r) \/ Observing(r)
                                  \/ Shadowing(r) \/ StoreReceipt(r)
      PROVE  ShadowInv'
  BY <1>3, <1>4, <1>5, <1>6, <1>10, <1>7 DEF Arrive, Pipeline, Lookup, Replay, RouteEnforce, Probe, GatePanics, PutEntry,
       OfferDecision, ClientLeaves, Observing, SpawnedTrace, StreamEnds, TapDropped, Shadowing,
       StoreReceipt
<1>11. ASSUME NEW p \in Post, PostArrives(p) \/ Handler(p) \/ PosterLeaves(p) PROVE ShadowInv'
  BY <1>3, <1>11 DEF PostArrives, Handler, TraceExists, Origin, Retract, AppendDeferred, Learn,
       PosterLeaves
<1>12. CASE Expire \/ UNCHANGED vars
  BY <1>3, <1>12 DEF Expire, vars
<1> QED BY <1>8, <1>9, <1>10, <1>11, <1>12 DEF Next, Beside, Observing

LEMMA OneIsAsked ==
  ASSUME ShadowInv, [Next]_vars, NEW r \in Request,
         shadow[r].pc = "asked", shadow'[r].pc = "running"
  PROVE  MaySpend(r)
<1> USE DEF environment, caches, feedback, shadows, decisions
<1>1. shadow \in [Request -> Evaluation] /\ shadow[r] \in Evaluation
  BY DEF ShadowInv
<1>2. CASE UNCHANGED shadow
  BY <1>2
<1>3. ASSUME NEW s \in Request, NEW pc, pc # "running",
             shadow' = [shadow EXCEPT ![s].pc = pc]
      PROVE  FALSE
  BY <1>1, <1>3 DEF Evaluation
<1>4. ASSUME NEW s \in Request, Forward(s) \/ ForwardStream(s) \/ Debit(s) \/ ShadowPanics(s)
      PROVE  FALSE
  <2>1. \/ UNCHANGED shadow
        \/ shadow' = [shadow EXCEPT ![s].pc = "asked"] \/ shadow' = [shadow EXCEPT ![s].pc = "done"]
    BY <1>4 DEF Forward, ForwardStream, AsksForShadow, Debit, ShadowPanics
  <2> QED BY <1>3, <2>1
<1>5. ASSUME NEW s \in Request, MaySpend(s) PROVE MaySpend(r)
  <2>1. CASE s # r
    <3>1. shadow'[r] = shadow[r]
      BY <1>1, <1>5, <2>1 DEF MaySpend
    <3> QED BY <3>1
  <2> QED BY <1>5, <2>1
<1>6. ASSUME NEW s \in Request, Arrive(s) \/ Pipeline(s) \/ ClientLeaves(s) \/ Observing(s)
                                  \/ Shadowing(s) \/ StoreReceipt(s)
      PROVE  MaySpend(r)
  BY <1>2, <1>4, <1>5, <1>6 DEF Arrive, Pipeline, Lookup, Replay, RouteEnforce, Probe, GatePanics, PutEntry,
       OfferDecision, ClientLeaves, Observing, SpawnedTrace, StreamEnds, TapDropped, Shadowing,
       StoreReceipt
<1>7. ASSUME NEW p \in Post, PostArrives(p) \/ Handler(p) \/ PosterLeaves(p) PROVE MaySpend(r)
  BY <1>2, <1>7 DEF PostArrives, Handler, TraceExists, Origin, Retract, AppendDeferred, Learn,
       PosterLeaves
<1>8. CASE Expire \/ Tick \/ UNCHANGED vars
  BY <1>2, <1>8 DEF Expire, Tick, vars
<1>9. ASSUME NEW at \in setup.replicas, Crash(at) PROVE MaySpend(r)
  BY <1>9 DEF Crash
<1> QED BY <1>6, <1>7, <1>8, <1>9 DEF Next, Beside, Observing

\* The shadow ledger's promise: while no account was upset by a crash, a panic or a late
\* debit, an evaluation begins only below what the day really cost (ShadowLedger::may_spend).
THEOREM ShadowAlwaysStopsAtCeiling == Spec => ShadowStopsAtCeiling
<1>1. Init => ShadowInv
  BY InitShadow
<1>2. ShadowInv /\ [Next]_vars => ShadowInv'
  BY StepShadow
<1>3. ShadowInv /\ [Next]_vars =>
        [\A r \in Request :
           shadow[r].pc = "asked" /\ shadow'[r].pc = "running" /\ ~upset /\ crashes = 0 =>
             spent[req[r].at][Day(time)] < Ceiling]_vars
  <2> SUFFICES ASSUME ShadowInv, [Next]_vars, NEW r \in Request, ~upset, crashes = 0,
                      shadow[r].pc = "asked", shadow'[r].pc = "running"
               PROVE  spent[req[r].at][Day(time)] < Ceiling
    OBVIOUS
  <2> DEFINE at == req[r].at
             today == On(ledger[at], Day(time))
  <2>1. MaySpend(r)
    BY OneIsAsked
  <2>2. at \in Replica /\ Balanced(at)
    BY SetupShape DEF ShadowInv, ReplayInv, Shaped, Born
  <2>3. today.spent < Ceiling
    <3>1. shadow'[r].pc = IF today.spent < Ceiling THEN "running" ELSE "skipped"
      <4> HIDE DEF today
      <4>1. shadow' = [shadow EXCEPT ![r] = [pc |-> IF today.spent < Ceiling THEN "running"
                                                    ELSE "skipped", day |-> Day(time)]]
        BY <2>1 DEF MaySpend, today
      <4> QED BY <4>1 DEF ShadowInv
    <3> QED BY <3>1
  <2>4. CASE ledger[at].day = Day(time)
    BY <2>2, <2>3, <2>4 DEF On, Balanced
  <2>5. CASE ledger[at].day # Day(time)
    <3>1. today.spent = 0
      BY <2>5 DEF On
    <3>2. Day(time) \in Days /\ Day(time) \in Nat /\ ledger[at].day \in Nat
      BY <2>2, Today, WholeDays DEF ShadowInv, Days
    <3>3. spent[at][Day(time)] = 0
      BY <2>2, <2>5, <3>2 DEF Balanced
    <3> QED BY <2>3, <3>1, <3>3
  <2> QED BY <2>4, <2>5
<1> QED BY <1>1, <1>2, <1>3, PTL DEF Spec, ShadowStopsAtCeiling

-------------------------------------------------------------------------------
(* Full stores.                                                            *)

\* A store has one entry for a key, and the places of its entries in the order of
\* storing have a bound.
Kept(store) ==
  /\ IsFiniteSet(store)
  /\ \A e, f \in store : e.key = f.key => e = f
  /\ \E b \in Nat : \A e \in store : e.stored \in 0..b

LEMMA FewerAreKept ==
  ASSUME NEW store, Kept(store), NEW rest \in SUBSET store
  PROVE  Kept(rest) /\ Cardinality(rest) <= Cardinality(store)
BY FS_Subset DEF Kept

LEMMA KeptSize == ASSUME NEW store, Kept(store) PROVE Cardinality(store) \in Nat
BY FS_CardinalityType DEF Kept

LEMMA Lowest ==
  ASSUME NEW S \in SUBSET Nat, S # {}
  PROVE  \E m \in S : \A n \in S : m <= n
<1>1. PICK m \in S : \A n \in S : ~(<<n, m>> \in OpToRel(<, Nat))
  <2>1. \E m \in S : \A n \in S : ~(<<n, m>> \in OpToRel(<, Nat))
    BY NatLessThanWellFounded, WFMin
  <2> QED BY <2>1
<1>2. \A n \in S : ~(n < m)
  BY <1>1 DEF OpToRel
<1> QED BY <1>2

\* The greatest of bounded numbers is the least of their bounds.
LEMMA Greatest ==
  ASSUME NEW S \in SUBSET Nat, S # {}, NEW b \in Nat, \A n \in S : n <= b
  PROVE  Max(S) \in S /\ \A n \in S : n <= Max(S)
<1> DEFINE bounds == {c \in Nat : \A n \in S : n <= c}
<1>1. PICK m \in bounds : \A c \in bounds : m <= c
  <2>1. b \in bounds
    OBVIOUS
  <2> QED BY <2>1, Lowest
<1>2. m \in S
  <2> SUFFICES ASSUME m \notin S PROVE FALSE
    OBVIOUS
  <2>1. \A n \in S : n < m
    BY <1>1
  <2>2. m # 0 /\ m - 1 \in Nat
    <3>1. PICK n \in S : TRUE
      OBVIOUS
    <3>2. m \in Nat /\ n \in Nat /\ n < m
      BY <1>1, <2>1, <3>1
    <3> QED BY <3>2
  <2>3. m - 1 \in bounds
    BY <1>1, <2>1, <2>2
  <2> QED BY <1>1, <2>2, <2>3
<1>3. \E x \in S : \A y \in S : x >= y
  BY <1>1, <1>2
<1>4. Max(S) \in S /\ \A y \in S : Max(S) >= y
  BY <1>3 DEF Max
<1> QED BY <1>4

\* CacheStore::put adds one entry at most: the newest.
LEMMA InsertedIsKept ==
  ASSUME NEW store, Kept(store), NEW key, NEW source
  PROVE  /\ Kept(Inserted(store, key, source))
         /\ Cardinality(Inserted(store, key, source)) <= Cardinality(store) + 1
<1> DEFINE stamps == {0} \cup {e.stored : e \in store}
           rest == store \ Hits(store, key)
           added == [key |-> key, source |-> source, stored |-> Max(stamps) + 1]
<1>1. PICK b \in Nat : \A e \in store : e.stored \in 0..b
  BY DEF Kept
<1>2. Max(stamps) \in Nat /\ Max(stamps) <= b
  <2>1. stamps \in SUBSET Nat /\ stamps # {} /\ \A n \in stamps : n <= b
    BY <1>1
  <2> HIDE DEF stamps
  <2> QED BY <2>1, Greatest
<1>3. Kept(rest) /\ Cardinality(rest) <= Cardinality(store)
  BY FewerAreKept
<1>4. Inserted(store, key, source) = rest \cup {added}
  BY DEF Inserted
<1>5. added.key = key /\ added.stored = Max(stamps) + 1
  OBVIOUS
<1>6. \A e \in rest : e.key # key /\ e \in store
  BY DEF Hits
<1> HIDE DEF added, rest, stamps
<1>7. IsFiniteSet(rest) /\ Cardinality(rest) \in Nat /\ Cardinality(store) \in Nat
  BY <1>3, KeptSize DEF Kept
<1>8. /\ IsFiniteSet(rest \cup {added})
      /\ Cardinality(rest \cup {added}) <= Cardinality(rest) + 1
  BY <1>7, FS_AddElement
<1>9. \A e, f \in rest \cup {added} : e.key = f.key => e = f
  BY <1>3, <1>5, <1>6 DEF Kept
<1>10. \A e \in rest \cup {added} : e.stored \in 0..(b + 1)
  BY <1>1, <1>2, <1>5, <1>6
<1>11. Kept(rest \cup {added})
  <2>1. b + 1 \in Nat
    OBVIOUS
  <2> QED BY <1>8, <1>9, <1>10, <2>1 DEF Kept
<1>12. Cardinality(rest \cup {added}) \in Nat
  BY <1>11, KeptSize
<1> QED BY <1>3, <1>4, <1>7, <1>8, <1>11, <1>12

\* Dropping the oldest half drops an entry at least: there is an oldest one.
LEMMA TrimmedHasRoom ==
  ASSUME NEW store, Kept(store), Cardinality(store) <= MaxEntries
  PROVE  Trimmed(store) \in SUBSET store /\ Cardinality(Trimmed(store)) < MaxEntries
<1>1. Cardinality(store) \in Nat /\ MaxEntries \in Nat \ {0}
  BY KeptSize, MaxEntriesAssumption
<1>2. CASE Cardinality(store) < MaxEntries
  BY <1>2 DEF Trimmed
<1>3. CASE ~(Cardinality(store) < MaxEntries)
  <2> DEFINE rest == {e \in store : Cardinality(Older(store, e)) >= Half}
  <2>1. store # {}
    BY <1>1, <1>3, FS_EmptySet
  <2>2. PICK e \in store : \A f \in store : e.stored <= f.stored
    <3> DEFINE stamps == {e.stored : e \in store}
    <3>1. stamps \in SUBSET Nat /\ stamps # {}
      BY <2>1 DEF Kept
    <3> HIDE DEF stamps
    <3>2. PICK m \in stamps : \A n \in stamps : m <= n
      BY <3>1, Lowest
    <3> QED BY <3>2 DEF stamps
  <2>3. Older(store, e) = {}
    <3>1. PICK b \in Nat : \A f \in store : f.stored \in 0..b
      BY DEF Kept
    <3>2. \A f \in store : f.stored \in Nat
      BY <3>1
    <3> QED BY <2>2, <3>2 DEF Older
  <2>4. Cardinality(Older(store, e)) = 0
    BY <2>3, FS_EmptySet
  <2>5. Half \in Nat \ {0}
    BY <1>1 DEF Half
  <2>6. e \notin rest
    BY <2>4, <2>5
  <2>7. rest \in SUBSET (store \ {e})
    BY <2>6
  <2> HIDE DEF rest
  <2>8. /\ IsFiniteSet(store \ {e})
        /\ Cardinality(store \ {e}) = Cardinality(store) - 1
    BY FS_RemoveElement DEF Kept
  <2>9. Cardinality(rest) <= Cardinality(store) - 1 /\ IsFiniteSet(rest)
    BY <2>7, <2>8, FS_Subset
  <2>10. Cardinality(rest) \in Nat
    BY <2>9, FS_CardinalityType
  <2>11. Trimmed(store) = rest
    BY <1>3 DEF Trimmed, rest
  <2>12. rest \in SUBSET store
    BY <2>7
  <2> QED BY <1>1, <2>9, <2>10, <2>11, <2>12
<1> QED BY <1>2, <1>3

LEMMA PutStaysWithin ==
  ASSUME NEW store, Kept(store), Cardinality(store) <= MaxEntries, NEW key, NEW source
  PROVE  /\ Kept(PutInProcess(store, key, source))
         /\ Cardinality(PutInProcess(store, key, source)) <= MaxEntries
<1> DEFINE rest == Trimmed(store)
<1>1. Kept(rest) /\ Cardinality(rest) < MaxEntries
  BY TrimmedHasRoom, FewerAreKept
<1>2. PutInProcess(store, key, source) = Inserted(rest, key, source)
  BY DEF PutInProcess
<1> HIDE DEF rest
<1>3. /\ Kept(Inserted(rest, key, source))
      /\ Cardinality(Inserted(rest, key, source)) <= Cardinality(rest) + 1
  BY <1>1, InsertedIsKept
<1>4. Cardinality(rest) \in Nat /\ Cardinality(Inserted(rest, key, source)) \in Nat
  BY <1>1, <1>3, KeptSize
<1> QED BY <1>1, <1>2, <1>3, <1>4, MaxEntriesAssumption

\* What the stores, the windows and the tables of a deployment hold is within their
\* limits.
Bounded ==
  /\ crashes \in 0..setup.crashes /\ index \subseteq Request /\ reported \subseteq Post
  /\ \A s \in Store : Kept(cache[s])
  /\ \A s \in Replica : Cardinality(cache[s]) <= MaxEntries
  /\ \A at \in Replica, i \in Route : Len(guard[at][i].outcomes) <= Window

BoundedInv == GuardInv /\ Bounded

LEMMA StoresChange ==
  ASSUME ReplayInv, [Next]_vars, NEW s \in Store
  PROVE  \/ cache'[s] \in SUBSET cache[s]
         \/ s = Shared /\ \E key, source : cache'[s] = Inserted(cache[s], key, source)
         \/ \E key, source : cache'[s] = PutInProcess(cache[s], key, source)
<1> DEFINE Changes ==
      \/ cache'[s] \in SUBSET cache[s]
      \/ s = Shared /\ \E key, source : cache'[s] = Inserted(cache[s], key, source)
      \/ \E key, source : cache'[s] = PutInProcess(cache[s], key, source)
<1> USE DEF environment, caches, feedback, shadows, decisions
<1>1. DOMAIN cache = Store /\ setup.replicas \subseteq Replica
  BY SetupShape DEF ReplayInv, Sourced
<1>2. CASE UNCHANGED cache
  BY <1>2
<1>3. ASSUME NEW on \in Store, NEW put, cache' = [cache EXCEPT ![on] = put]
      PROVE  cache'[s] = IF s = on THEN put ELSE cache[s]
  BY <1>1, <1>3
<1>4. ASSUME NEW on \in Store, NEW put \in SUBSET cache[on],
             cache' = [cache EXCEPT ![on] = put]
      PROVE  Changes
  BY <1>3, <1>4
<1>5. ASSUME NEW r \in Request, PutEntry(r) PROVE Changes
  <2> DEFINE key == Key(req[r].kind)
             at == req[r].at
  <2>1. at \in Store /\ Shared \in Store
    BY <1>1, <1>5 DEF PutEntry, ReplayInv, Shaped, Born, Store
  <2>2. \/ UNCHANGED cache
        \/ cache' = [cache EXCEPT ![at] = PutInProcess(cache[at], key, r)]
        \/ cache' = [cache EXCEPT ![Shared] = Inserted(cache[Shared], key, r)]
    BY <1>5 DEF PutEntry
  <2> HIDE DEF key, at
  <2>3. CASE cache' = [cache EXCEPT ![at] = PutInProcess(cache[at], key, r)]
    <3>1. cache'[s] = IF s = at THEN PutInProcess(cache[at], key, r) ELSE cache[s]
      BY <1>1, <2>1, <2>3
    <3> QED BY <3>1
  <2>4. CASE cache' = [cache EXCEPT ![Shared] = Inserted(cache[Shared], key, r)]
    <3>1. cache'[s] = IF s = Shared THEN Inserted(cache[Shared], key, r) ELSE cache[s]
      BY <1>1, <2>1, <2>4
    <3> QED BY <3>1
  <2> QED BY <1>2, <2>2, <2>3, <2>4
<1>6. ASSUME NEW on \in Store, NEW gone, cache' = [cache EXCEPT ![on] = @ \ gone] PROVE Changes
  BY <1>4, <1>6
<1>7. ASSUME NEW p \in Post, Retract(p) PROVE Changes
  BY <1>1, <1>7 DEF Retract, Without
<1>8. CASE Expire
  <2>1. PICK on \in Store : \E e \in cache[on] : cache' = [cache EXCEPT ![on] = @ \ {e}]
    BY <1>1, <1>8 DEF Expire
  <2> QED BY <1>6, <2>1
<1>9. ASSUME NEW at \in setup.replicas, Crash(at) PROVE Changes
  <2>1. at \in Store /\ cache' = [cache EXCEPT ![at] = {}]
    BY <1>1, <1>9 DEF Crash, Store
  <2> QED BY <1>4, <2>1
<1>10. ASSUME NEW r \in Request, Arrive(r) \/ Pipeline(r) \/ ClientLeaves(r) \/ Observing(r)
                                   \/ Shadowing(r) \/ StoreReceipt(r)
       PROVE  Changes
  BY <1>2, <1>5, <1>10 DEF Arrive, Pipeline, Lookup, Replay, RouteEnforce, Probe, GatePanics, OfferDecision,
       ClientLeaves, Observing, Forward, ForwardStream, SpawnedTrace, StreamEnds, TapDropped,
       Shadowing, MaySpend, Debit, ShadowPanics, StoreReceipt
<1>11. ASSUME NEW p \in Post, PostArrives(p) \/ Handler(p) \/ PosterLeaves(p) PROVE Changes
  BY <1>2, <1>7, <1>11 DEF PostArrives, Handler, TraceExists, Origin, AppendDeferred, Learn,
       PosterLeaves
<1>12. CASE Tick \/ UNCHANGED vars
  BY <1>2, <1>12 DEF Tick, vars
<1> QED BY <1>8, <1>9, <1>10, <1>11, <1>12 DEF Next, Beside, Observing

LEMMA StepStores ==
  ASSUME BoundedInv, [Next]_vars
  PROVE  /\ \A s \in Store : Kept(cache'[s])
         /\ \A s \in Replica : Cardinality(cache'[s]) <= MaxEntries
<1>1. /\ \A s \in Store : Kept(cache[s])
      /\ \A s \in Replica : Cardinality(cache[s]) <= MaxEntries
      /\ Replica \subseteq Store /\ Store = Replica \cup {Shared} /\ Shared \notin Replica
  BY ServingAssumption DEF BoundedInv, Bounded, Store
<1>2. ReplayInv
  BY DEF BoundedInv, GuardInv, RetractInv
<1>3. ASSUME NEW s \in Replica
      PROVE  Kept(cache'[s]) /\ Cardinality(cache'[s]) <= MaxEntries
  <2>1. Kept(cache[s]) /\ Cardinality(cache[s]) <= MaxEntries /\ s \in Store /\ s # Shared
    BY <1>1
  <2>2. \/ cache'[s] \in SUBSET cache[s]
        \/ \E key, source : cache'[s] = PutInProcess(cache[s], key, source)
    BY <1>2, <2>1, StoresChange
  <2>3. CASE cache'[s] \in SUBSET cache[s]
    <3>1. Kept(cache'[s]) /\ Cardinality(cache'[s]) <= Cardinality(cache[s])
      BY <2>1, <2>3, FewerAreKept
    <3>2. Cardinality(cache'[s]) \in Nat /\ Cardinality(cache[s]) \in Nat
      BY <2>1, <3>1, KeptSize
    <3> QED BY <2>1, <3>1, <3>2, MaxEntriesAssumption
  <2>4. CASE \E key, source : cache'[s] = PutInProcess(cache[s], key, source)
    BY <2>1, <2>4, PutStaysWithin
  <2> QED BY <2>2, <2>3, <2>4
<1>4. Kept(cache'[Shared])
  <2>1. Kept(cache[Shared]) /\ Shared \in Store
    BY <1>1
  <2>2. CASE cache'[Shared] \in SUBSET cache[Shared]
    BY <2>1, <2>2, FewerAreKept
  <2>3. CASE \E key, source : cache'[Shared] = Inserted(cache[Shared], key, source)
    BY <2>1, <2>3, InsertedIsKept
  <2>4. CASE \E key, source : cache'[Shared] = PutInProcess(cache[Shared], key, source)
    <3>1. Trimmed(cache[Shared]) \in SUBSET cache[Shared]
      BY DEF Trimmed
    <3>2. Kept(Trimmed(cache[Shared]))
      BY <2>1, <3>1, FewerAreKept
    <3> QED BY <2>4, <3>2, InsertedIsKept DEF PutInProcess
  <2> QED BY <1>2, <2>1, <2>2, <2>3, <2>4, StoresChange
<1> QED BY <1>1, <1>3, <1>4

LEMMA PushedStaysShort ==
  ASSUME NEW w \in Seq(Post), NEW p \in Post, Len(w) <= Window
  PROVE  Len(Pushed(w, p)) <= Window
<1>1. Len(w) \in Nat /\ Window \in Nat \ {0}
  BY GuardAssumption
<1>2. CASE Len(w) < Window
  BY <1>1, <1>2, AppendProperties DEF Pushed
<1>3. CASE ~(Len(w) < Window)
  <2>1. w # <<>>
    BY <1>1, <1>3
  <2>2. Tail(w) \in Seq(Post) /\ Len(Tail(w)) = Len(w) - 1
    BY <2>1, HeadTailProperties
  <2>3. Len(Append(Tail(w), p)) = Len(w)
    BY <1>1, <2>2, AppendProperties
  <2> QED BY <1>3, <2>3 DEF Pushed
<1> QED BY <1>2, <1>3

\* A window loses its oldest outcome to the newest, or all of them.
LEMMA StepWindows ==
  ASSUME BoundedInv, [Next]_vars, NEW at \in Replica, NEW i \in Route
  PROVE  Len(guard'[at][i].outcomes) <= Window
<1> DEFINE Short == Len(guard'[at][i].outcomes) <= Window
<1> USE DEF environment, caches, feedback, shadows, decisions
<1>1. /\ guard \in [Replica -> [Route -> [outcomes : Seq(Post), until : Nat]]]
      /\ guard[at][i].outcomes \in Seq(Post) /\ Len(guard[at][i].outcomes) <= Window
  BY DEF BoundedInv, GuardInv, Bounded
<1>2. CASE UNCHANGED guard
  BY <1>1, <1>2
<1>3. ASSUME NEW on \in Replica, NEW k \in Route, NEW g, guard' = [guard EXCEPT ![on][k] = g]
      PROVE  guard'[at][i] = IF on = at /\ k = i THEN g ELSE guard[at][i]
  BY <1>1, <1>3
<1>4. Calm.outcomes = <<>> /\ 0 <= Window
  BY GuardAssumption DEF Calm
<1>5. ASSUME NEW p \in Post, Learn(p) PROVE Short
  <2> DEFINE on == post[p].at
             k == TraceRoute(post[p].about)
             after == Recorded(guard[on][k], p, {q \in Post : post[q].failed}, time)
  <2>1. on \in Replica
    <3>1. post[p].at \in setup.replicas /\ setup.replicas \subseteq Replica
      BY <1>5, SetupShape DEF Learn, BoundedInv, GuardInv, RetractInv, ReplayInv, Posted
    <3> QED BY <3>1
  <2>2. k \in Route
    <3>1. post[p].about \in Request
      BY <1>5 DEF Learn, BoundedInv, GuardInv, RetractInv, Posted
    <3>2. ASSUME req[post[p].about].outcome # None PROVE req[post[p].about].kind.route \in Route
      <4>1. receipt[post[p].about] = "stored"
        BY <1>5 DEF Learn, BoundedInv, GuardInv, RetractInv, Checked
      <4>2. Shaped /\ Once
        BY DEF BoundedInv, GuardInv, RetractInv, ReplayInv
      <4>3. req[post[p].about].pc # "absent"
        BY <3>1, <4>1, <4>2 DEF Once, Fits
      <4>4. req[post[p].about].kind \in Kind
        BY <3>1, <4>2, <4>3, SetupShape DEF Shaped, Born
      <4> QED BY <4>4 DEF Kind
    <3>3. 0 \in Route
      BY DEF Route
    <3> QED BY <3>2, <3>3 DEF TraceRoute
  <2>3. UNCHANGED guard \/ guard' = [guard EXCEPT ![on][k] = after]
    BY <1>5 DEF Learn
  <2>4. /\ guard[on][k] \in [outcomes : Seq(Post), until : Nat]
        /\ Len(guard[on][k].outcomes) <= Window
    BY <1>1, <2>1, <2>2 DEF BoundedInv, Bounded
  <2>5. after.outcomes = Pushed(guard[on][k].outcomes, p) \/ after.outcomes = <<>>
    BY <2>4 DEF Recorded
  <2> HIDE DEF after, on, k
  <2>6. Len(after.outcomes) <= Window
    <3>1. Len(Pushed(guard[on][k].outcomes, p)) <= Window
      BY <2>4, PushedStaysShort
    <3>2. Len(<<>>) <= Window
      BY <1>4
    <3> QED BY <2>5, <3>1, <3>2
  <2>7. CASE guard' = [guard EXCEPT ![on][k] = after]
    <3>1. guard'[at][i] = IF on = at /\ k = i THEN after ELSE guard[at][i]
      BY <1>3, <2>1, <2>2, <2>7
    <3> QED BY <1>1, <2>6, <3>1
  <2> QED BY <1>2, <2>3, <2>7
<1>6. ASSUME NEW on \in setup.replicas, Crash(on) PROVE Short
  <2>1. guard' = [guard EXCEPT ![on] = [j \in Route |-> Calm]]
    BY <1>6 DEF Crash
  <2>2. guard'[at][i] = guard[at][i] \/ guard'[at][i] = Calm
    BY <1>1, <2>1
  <2> QED BY <1>1, <1>4, <2>2
<1>7. ASSUME NEW r \in Request, Arrive(r) \/ Pipeline(r) \/ ClientLeaves(r) \/ Observing(r)
                                  \/ Shadowing(r) \/ StoreReceipt(r)
      PROVE  UNCHANGED guard
  BY <1>7 DEF Arrive, Pipeline, Lookup, Replay, RouteEnforce, Probe, GatePanics, PutEntry, OfferDecision, ClientLeaves,
       Observing, Forward, ForwardStream, SpawnedTrace, StreamEnds, TapDropped, Shadowing, MaySpend,
       Debit, ShadowPanics, StoreReceipt
<1>8. ASSUME NEW p \in Post, PostArrives(p) \/ Handler(p) \/ PosterLeaves(p) PROVE Short
  BY <1>2, <1>5, <1>8 DEF PostArrives, Handler, TraceExists, Origin, Retract, AppendDeferred,
       PosterLeaves
<1>9. CASE Expire \/ Tick \/ UNCHANGED vars
  BY <1>2, <1>9 DEF Expire, Tick, vars
<1> QED BY <1>2, <1>6, <1>7, <1>8, <1>9 DEF Next, Beside, Observing

LEMMA StepTables ==
  ASSUME BoundedInv, [Next]_vars
  PROVE  crashes' \in 0..setup'.crashes /\ index' \subseteq Request /\ reported' \subseteq Post
<1> USE DEF environment, caches, feedback, shadows, decisions
<1>1. /\ crashes \in 0..setup.crashes /\ index \subseteq Request /\ reported \subseteq Post
      /\ setup' = setup /\ setup.crashes \in Nat
  BY SetupStays, SetupsAssumption
     DEF BoundedInv, Bounded, GuardInv, RetractInv, ReplayInv, Shaped, Setup
<1>2. crashes' \in 0..setup.crashes
  <2>1. ASSUME NEW r \in Request, Arrive(r) \/ Pipeline(r) \/ ClientLeaves(r) \/ Observing(r)
                                    \/ Shadowing(r) \/ StoreReceipt(r)
        PROVE  UNCHANGED crashes
    BY <2>1 DEF Arrive, Pipeline, Lookup, Replay, RouteEnforce, Probe, GatePanics, PutEntry, OfferDecision,
         ClientLeaves, Observing, Forward, ForwardStream, SpawnedTrace, StreamEnds, TapDropped,
         Shadowing, MaySpend, Debit, ShadowPanics, StoreReceipt
  <2>2. ASSUME NEW p \in Post, PostArrives(p) \/ Handler(p) \/ PosterLeaves(p)
        PROVE  UNCHANGED crashes
    BY <2>2 DEF PostArrives, Handler, TraceExists, Origin, Retract, AppendDeferred, Learn,
         PosterLeaves
  <2>3. CASE Expire \/ Tick \/ UNCHANGED vars
    BY <1>1, <2>3 DEF Expire, Tick, vars
  <2>4. ASSUME NEW at \in setup.replicas, Crash(at) PROVE crashes' \in 0..setup.crashes
    BY <1>1, <2>4 DEF Crash
  <2> QED BY <1>1, <2>1, <2>2, <2>3, <2>4 DEF Next, Beside, Observing
<1>3. index' \subseteq Request /\ reported' \subseteq Post
  <2>1. ASSUME NEW r \in Request, Arrive(r) \/ Pipeline(r) \/ ClientLeaves(r) \/ Observing(r)
                                    \/ Shadowing(r) \/ StoreReceipt(r)
        PROVE  (index' = index \/ index' = index \cup {r}) /\ UNCHANGED reported
    BY <2>1 DEF Arrive, Pipeline, Lookup, Replay, RouteEnforce, Probe, GatePanics, PutEntry, OfferDecision,
         ClientLeaves, Observing, Forward, ForwardStream, SpawnedTrace, StreamEnds, TapDropped,
         Shadowing, MaySpend, Debit, ShadowPanics, StoreReceipt
  <2>2. ASSUME NEW p \in Post, PostArrives(p) \/ Handler(p) \/ PosterLeaves(p)
        PROVE  index' \subseteq index /\ reported' \subseteq reported \cup {p}
    BY <2>2 DEF PostArrives, Handler, TraceExists, Origin, Retract, AppendDeferred, Learn,
         PosterLeaves
  <2>3. CASE Expire \/ Tick \/ UNCHANGED vars
    BY <1>1, <2>3 DEF Expire, Tick, vars
  <2>4. ASSUME NEW at \in setup.replicas, Crash(at) PROVE UNCHANGED <<index, reported>>
    BY <2>4 DEF Crash
  <2> QED BY <1>1, <2>1, <2>2, <2>3, <2>4 DEF Next, Beside, Observing
<1> QED BY <1>1, <1>2, <1>3

LEMMA InitBounded == Init => BoundedInv
<1> SUFFICES ASSUME Init PROVE BoundedInv
  OBVIOUS
<1>1. Kept({}) /\ Cardinality({}) = 0
  BY FS_EmptySet DEF Kept
<1>2. \A s \in Store : cache[s] = {}
  BY DEF Init, Store
<1>3. \A at \in Replica, i \in Route : guard[at][i] = Calm
  BY DEF Init
<1>4. /\ Len(Calm.outcomes) <= Window
      /\ 0 <= MaxEntries
  <2>1. Calm.outcomes = <<>> /\ 0 <= Window /\ 0 <= MaxEntries
    BY GuardAssumption, MaxEntriesAssumption DEF Calm
  <2> QED BY <2>1
<1>5. crashes \in 0..setup.crashes /\ index = {} /\ reported = {}
  BY SetupsAssumption DEF Init, Setup
<1> QED BY <1>1, <1>2, <1>3, <1>4, <1>5, InitGuard DEF BoundedInv, Bounded, Store

LEMMA StepBounded == BoundedInv /\ [Next]_vars => BoundedInv'
<1> SUFFICES ASSUME BoundedInv, [Next]_vars PROVE BoundedInv'
  OBVIOUS
<1>1. GuardInv'
  BY StepGuard DEF BoundedInv
<1>2. Bounded'
  BY StepTables, StepStores, StepWindows DEF Bounded
<1> QED BY <1>1, <1>2 DEF BoundedInv

\* A full store is trimmed before it takes an answer (CacheStore::put), a key has one
\* answer, and a window keeps as many outcomes as it is long: whatever a deployment is
\* asked, the stores and the windows of its replicas stay within their limits, and every
\* part of the state has its type.
THEOREM TypesAlways == Spec => []TypeOK
<1>1. Init => BoundedInv /\ ShadowInv
  BY InitBounded, InitShadow
<1>2. BoundedInv /\ ShadowInv /\ [Next]_vars => (BoundedInv /\ ShadowInv)'
  BY StepBounded, StepShadow
<1>3. BoundedInv /\ ShadowInv => TypeOK
  <2> SUFFICES ASSUME BoundedInv, ShadowInv PROVE TypeOK
    OBVIOUS
  <2>1. Shaped /\ DOMAIN cache = Store
    BY DEF ShadowInv, ReplayInv, Sourced
  <2>2. setup \in Setups /\ time \in 0..MaxTime /\ crashes \in 0..setup.crashes
    BY <2>1 DEF ShadowInv, BoundedInv, Bounded, Shaped
  <2>3. ASSUME NEW r \in Request
        PROVE  /\ req[r] \in Decision /\ Born(req[r]) /\ shadow[r] \in Evaluation
               /\ receipt[r] \in {"none", "offered", "stored", "lost"}
    BY <2>1 DEF Shaped, ShadowInv
  <2>4. ASSUME NEW s \in DOMAIN cache
        PROVE  /\ s # Shared => Cardinality(cache[s]) <= MaxEntries
               /\ \A e, f \in cache[s] : e.key = f.key => e = f
    BY <2>1, <2>4 DEF BoundedInv, Bounded, Store, Kept
  <2>5. /\ index \subseteq Request /\ reported \subseteq Post
        /\ \A at \in Replica, i \in Route : Len(guard[at][i].outcomes) <= Window
    BY DEF BoundedInv, Bounded
  <2> QED BY <2>2, <2>3, <2>4, <2>5 DEF TypeOK, Decision, Born, Evaluation
<1> QED BY <1>1, <1>2, <1>3, PTL DEF Spec
===============================================================================
