------------------------------- MODULE Serving -------------------------------
(***************************************************************************)
(* Requests from their arrival to their receipt (proxy.rs): admission to   *)
(* the enforce or the observe path, the verified cache around the ladder,  *)
(* the relay of observed answers, shadow evaluations, and the feedback     *)
(* posts that retract proofs and feed the guardrail.  The ladder itself is *)
(* an outcome here; SerialLadder and SpeculativeLadder say how it is found.*)
(* Replicas share the table of receipts and, if so set up, the cache.      *)
(***************************************************************************)
EXTENDS VerifiedCache, Guardrail

CONSTANTS
  Requests,    \* bound on requests; one's number is also its trace id
  Posts,       \* bound on feedback posts
  Replica, Shared,
  Setups,      \* deployments: configuration, traffic and the bounds of each
  Ceiling,     \* max_usd_per_day of a route's shadow
  DayLength, MaxTime,
  None

ASSUME ServingAssumption ==
  /\ Requests \in Nat /\ Posts \in Nat /\ Ceiling \in Nat
  /\ DayLength \in Nat \ {0} /\ MaxTime \in Nat
  /\ Shared \notin Replica /\ None \notin 1..Requests

Request == 1..Requests
Post == 1..Posts

VARIABLES
  setup,    \* the deployment
  time,
  req,      \* the requests
  receipt,  \* of each: none yet, in the writer's channel, in the table, or lost
  cache,    \* the entries of each in-process store, and of the shared one
  index,    \* decisions the shared store can find the entry of (fp:vc:src:<id>)
  post,     \* the feedback handlers
  reported, \* posts whose verdict is in the table of deferred verdicts
  guard,    \* the guardrail of each replica and route
  blamed,   \* history: how many demotions each report (post) was counted in
  shadow,   \* the shadow evaluation of each request
  ledger,   \* the shadow ledger of each replica
  spent,    \* history: what shadow evaluations begun on a day really cost
  upset,    \* history: one was debited to a day that was over, or never
  crashes

decisions == <<req, receipt>>
caches == <<cache, index>>
feedback == <<post, reported, guard, blamed>>
shadows == <<shadow, ledger, spent, upset>>
environment == <<setup, time, crashes>>
vars == <<decisions, caches, feedback, shadows, environment>>

-------------------------------------------------------------------------------
(* Deployments and requests.                                               *)

Route == 0..1
Day(t) == t \div DayLength
Days == 0..Day(MaxTime)

\* asks: "route" for what the ladder can carry, "preset" for the Observe preset,
\* "structured" for content that it cannot.  control: a session of the rollout's
\* control arm.
Kind == [api : {"messages", "gemini", "chat", "responses"}, question : Nat,
         route : Route, streamed : BOOLEAN, control : BOOLEAN,
         asks : {"route", "preset", "structured"}]

\* Routes may share a ladder and differ in their gates; outcomes are what the
\* ladder may come to; faulty stores and channels may fail an operation; probed says
\* that something is awaited once the ladder is done, unwinds that a panic ends one task
\* (dev builds; a release build aborts the process, which is a Crash).  The last three
\* fields bound what happens to a deployment.
Setup == [replicas : SUBSET Replica, kinds : SUBSET Kind, ladder : [Route -> Nat],
          cached : BOOLEAN, shared : BOOLEAN, guarded : BOOLEAN, shadowed : BOOLEAN,
          faulty : BOOLEAN, probed : BOOLEAN, unwinds : BOOLEAN,
          outcomes : SUBSET [from : {"attempt", "best", "error"},
                             verdict : {"pass", "fail", "abstain"}],
          requests : 0..Requests, posts : 0..Posts, crashes : Nat]

ASSUME SetupsAssumption == Setups \subseteq Setup

Unborn == [pc |-> "absent", kind |-> None, at |-> None, source |-> None,
           outcome |-> None, offers |-> 0, shadows |-> FALSE]
Silent == [pc |-> "absent", about |-> None, failed |-> FALSE, at |-> None, todo |-> <<>>]

Init ==
  /\ setup \in Setups /\ time = 0 /\ crashes = 0
  /\ req = [r \in Request |-> Unborn] /\ receipt = [r \in Request |-> "none"]
  /\ cache = [s \in Replica \cup {Shared} |-> {}] /\ index = {}
  /\ post = [p \in Post |-> Silent] /\ reported = {}
  /\ guard = [at \in Replica |-> [i \in Route |-> Calm]]
  /\ blamed = [p \in Post |-> 0]
  /\ shadow = [r \in Request |-> [pc |-> "none", day |-> 0]]
  /\ ledger = [at \in Replica |-> [day |-> 0, spent |-> 0]]
  /\ spent = [at \in Replica |-> [d \in Days |-> 0]] /\ upset = FALSE

Becomes(r, record) == req' = [req EXCEPT ![r] = record]
MovesTo(r, pc) == Becomes(r, [req[r] EXCEPT !.pc = pc])
Home(at) == IF setup.shared THEN Shared ELSE at

\* compose_key; one tenant.  Gates are no part of it.
Key(k) == <<k.question, setup.ladder[k.route]>>

-------------------------------------------------------------------------------
(* Admission.                                                              *)

RouteDemoted(k, at) == setup.guarded /\ Demoted(guard[at][k.route], time)

Preset(k) == k.asks = "preset"
\* enforce_can_handle_route: some ladder of the route cannot carry the content.
Structured(k) == k.asks = "structured"
\* rollout::decide: a hash of the session, fixed for its life.
InControl(k) == k.control

\* The Anthropic and Gemini handlers ask the guardrail, then the rollout; the OpenAI
\* ones ask neither.
ObservedMessages(k, at) == Preset(k) \/ RouteDemoted(k, at) \/ InControl(k) \/ Structured(k)
ObservedGemini(k, at) == Structured(k) \/ Preset(k) \/ RouteDemoted(k, at) \/ InControl(k)
ObservedChat(k) == Preset(k) \/ Structured(k)
ObservedResponses(k) == Structured(k) \/ Preset(k)
Observed(k, at) ==
  \/ k.api = "messages" /\ ObservedMessages(k, at)
  \/ k.api = "gemini" /\ ObservedGemini(k, at)
  \/ k.api = "chat" /\ ObservedChat(k)
  \/ k.api = "responses" /\ ObservedResponses(k)

\* Only messages shadows its control arm, and only what reached the rollout.
Shadows(k, at) ==
  /\ setup.shadowed /\ k.api = "messages" /\ InControl(k)
  /\ ~Preset(k) /\ ~RouteDemoted(k, at)

Arrive(r) ==
  /\ r <= setup.requests
  /\ req[r].pc = "absent" /\ (r > 1 => req[r - 1].pc # "absent")
  /\ \E k \in setup.kinds, at \in setup.replicas :
       Becomes(r, [Unborn EXCEPT !.pc = IF Observed(k, at) THEN "forward" ELSE "lookup",
                                 !.kind = k, !.at = at, !.shadows = Shadows(k, at)])
  /\ UNCHANGED <<receipt, caches, feedback, shadows, environment>>

-------------------------------------------------------------------------------
(* The enforce path: enforce_pipeline_inner.                               *)

\* offer_trace: a full channel in best-effort mode loses the receipt.
Offers(r, pc) ==
  /\ Becomes(r, [req[r] EXCEPT !.pc = pc, !.offers = @ + 1])
  /\ \E outcome \in IF setup.faulty THEN {"offered", "lost"} ELSE {"offered"} :
       receipt' = [receipt EXCEPT ![r] = outcome]

\* A failed read of a shared store is a miss.
Lookup(r) ==
  /\ req[r].pc = "lookup"
  /\ LET hits == IF setup.cached THEN Hits(cache[Home(req[r].at)], Key(req[r].kind)) ELSE {} IN
     \/ \E e \in hits : Becomes(r, [req[r] EXCEPT !.pc = "replay", !.source = e.source])
     \/ /\ hits = {} \/ (setup.faulty /\ setup.shared)
        /\ MovesTo(r, "route")
  /\ UNCHANGED <<receipt, caches, feedback, shadows, environment>>

Replay(r) ==
  /\ req[r].pc = "replay" /\ Offers(r, "done")
  /\ UNCHANGED <<caches, feedback, shadows, environment>>

\* Mutant: an answer is proven when its verdict is a pass, served for it or not.
CacheableIfPassed(outcome) == outcome.verdict = "pass"
\* is_cacheable: a threshold may serve what did not pass, and the best of what was
\* not served may have passed.
Cacheable(outcome) == outcome.from = "attempt" /\ outcome.verdict = "pass"

Then(outcome) == IF setup.cached /\ Cacheable(outcome) THEN "put" ELSE "offer"

RouteEnforce(r) ==
  /\ req[r].pc = "route"
  /\ \E outcome \in setup.outcomes :
       Becomes(r, [req[r] EXCEPT !.outcome = outcome,
                                 !.pc = IF setup.probed THEN "probe" ELSE Then(outcome)])
  /\ UNCHANGED <<receipt, caches, feedback, shadows, environment>>

\* What the answer taught is awaited before it is cached and recorded: the session's
\* pin in a shared store, the k calls and gates of a sampled probe.
Probe(r) ==
  /\ req[r].pc = "probe" /\ MovesTo(r, Then(req[r].outcome))
  /\ UNCHANGED <<receipt, caches, feedback, shadows, environment>>

\* A subprocess gate panics on what its program printed (SubprocessGate): the task of
\* the request ends there, and a streaming client is told so in an error frame.
GatePanics(r) ==
  /\ setup.unwinds /\ req[r].pc \in {"route", "probe"} /\ MovesTo(r, "panicked")
  /\ UNCHANGED <<receipt, caches, feedback, shadows, environment>>

\* CacheStore::put.  The shared store takes the entry and its index in a pipeline
\* that may fail before either, or between them.
PutEntry(r) ==
  /\ req[r].pc = "put"
  /\ LET key == Key(req[r].kind)
         written == [cache EXCEPT ![Shared] = Inserted(@, key, r)] IN
     \/ /\ ~setup.shared /\ cache' = [cache EXCEPT ![req[r].at] = PutInProcess(@, key, r)]
        /\ UNCHANGED index
     \/ setup.shared /\ cache' = written /\ index' = index \cup {r}
     \/ /\ setup.shared /\ setup.faulty
        /\ cache' \in {cache, written} /\ UNCHANGED index
  /\ MovesTo(r, "stored")
  /\ UNCHANGED <<receipt, feedback, shadows, environment>>

OfferDecision(r) ==
  /\ req[r].pc \in {"offer", "stored"} /\ Offers(r, "done")
  /\ UNCHANGED <<caches, feedback, shadows, environment>>

\* Mutant: streamed decisions run in the handler too.
WaitingStreamedToo(r) == req[r].pc \in {"forward", "lookup", "route"}
\* The client of a buffered request closes its connection: the handler is dropped
\* at an await.  A streamed decision runs in a task of its own.
Waiting(r) ==
  \/ req[r].pc = "forward"
  \/ /\ req[r].pc \in {"lookup", "route", "probe"}
        \cup IF setup.shared THEN {"replay", "put", "stored"} ELSE {}
     /\ ~req[r].kind.streamed
ClientLeaves(r) ==
  /\ Waiting(r) /\ MovesTo(r, "gone")
  /\ UNCHANGED <<receipt, caches, feedback, shadows, environment>>

-------------------------------------------------------------------------------
(* The observe path: observe_passthrough and its dialects, SseTap.         *)

\* spawn_shadow, once the response exists.
AsksForShadow(r) ==
  shadow' = IF req[r].shadows THEN [shadow EXCEPT ![r].pc = "asked"] ELSE shadow

\* The upstream has replied, with a whole answer or an error: that is handed on, and
\* its receipt left to a detached task ...
Forward(r) ==
  /\ req[r].pc = "forward" /\ MovesTo(r, "recording") /\ AsksForShadow(r)
  /\ UNCHANGED <<receipt, caches, feedback, ledger, spent, upset, environment>>

\* ... or with a stream, which is relayed through a tap.
ForwardStream(r) ==
  /\ req[r].pc = "forward" /\ req[r].kind.streamed /\ MovesTo(r, "relay") /\ AsksForShadow(r)
  /\ UNCHANGED <<receipt, caches, feedback, ledger, spent, upset, environment>>

SpawnedTrace(r) ==
  /\ req[r].pc = "recording" /\ Offers(r, "done")
  /\ UNCHANGED <<caches, feedback, shadows, environment>>

\* poll_next sees the end of the stream or an error: on_done is taken.
StreamEnds(r) ==
  /\ req[r].pc = "relay" /\ Offers(r, "drained")
  /\ UNCHANGED <<caches, feedback, shadows, environment>>

\* Mutant: the tap reports whenever it is dropped.
TapDroppedAlways(r) ==
  /\ req[r].pc \in {"relay", "drained"} /\ Offers(r, "done")
  /\ UNCHANGED <<caches, feedback, shadows, environment>>
\* The tap is dropped, by a client that left or after its end: on_done runs unless
\* it was taken.
TapDropped(r) ==
  /\ \/ /\ req[r].pc = "relay" /\ Offers(r, "done")
     \/ /\ req[r].pc = "drained" /\ MovesTo(r, "done")
        /\ UNCHANGED receipt
  /\ UNCHANGED <<caches, feedback, shadows, environment>>

-------------------------------------------------------------------------------
(* Shadow evaluations: spawn_shadow, evaluate_shadow, ShadowLedger.        *)

\* may_spend and debit begin a new account on another day, whichever is later.
On(account, day) == IF account.day = day THEN account ELSE [day |-> day, spent |-> 0]

MaySpend(r) ==
  /\ shadow[r].pc = "asked"
  /\ LET today == On(ledger[req[r].at], Day(time)) IN
     /\ ledger' = [ledger EXCEPT ![req[r].at] = today]
     /\ shadow' = [shadow EXCEPT ![r] =
                     [pc |-> IF today.spent < Ceiling THEN "running" ELSE "skipped",
                      day |-> Day(time)]]
  /\ UNCHANGED <<decisions, caches, feedback, spent, upset, environment>>

\* Mutant: the account holds the last cost only.
DebitedLast(account, day, cost) == [On(account, day) EXCEPT !.spent = cost]
Debited(account, day, cost) == [On(account, day) EXCEPT !.spent = @ + cost]

\* The evaluation is debited to the day it began on.  One without cost is not.
Debit(r) ==
  /\ shadow[r].pc = "running"
  /\ LET at == req[r].at
         day == shadow[r].day IN
     \/ UNCHANGED <<ledger, spent, upset>>
     \/ /\ ledger' = [ledger EXCEPT ![at] = Debited(@, day, 1)]
        /\ spent' = [spent EXCEPT ![at][day] = @ + 1]
        /\ upset' = (upset \/ ledger[at].day # day)
  /\ shadow' = [shadow EXCEPT ![r].pc = "done"]
  /\ UNCHANGED <<decisions, caches, feedback, environment>>

\* A gate of the evaluation panics: what its models cost is not debited.
ShadowPanics(r) ==
  /\ setup.unwinds /\ shadow[r].pc = "running"
  /\ shadow' = [shadow EXCEPT ![r].pc = "done"] /\ upset' = TRUE
  /\ spent' = [spent EXCEPT ![req[r].at][shadow[r].day] = @ + 1]
  /\ UNCHANGED <<decisions, caches, feedback, ledger, environment>>

-------------------------------------------------------------------------------
(* Feedback.                                                               *)

PostMoves(p, pc) == post' = [post EXCEPT ![p].pc = pc]

\* A client that has an answer reports on it, to any replica; a report that was
\* not acknowledged, or was, may be sent again.
PostArrives(p) ==
  /\ p <= setup.posts
  /\ post[p].pc = "absent" /\ (p > 1 => post[p - 1].pc # "absent")
  /\ \E r \in Request, failed \in BOOLEAN, at \in setup.replicas :
       /\ receipt[r] # "none"
       /\ post' = [post EXCEPT ![p] = [pc |-> "check", about |-> r, failed |-> failed,
                                       at |-> at, todo |-> <<>>]]
  /\ UNCHANGED <<decisions, caches, reported, guard, blamed, shadows, environment>>

\* trace_exists: 404 for what is not in the table.
TraceExists(p) ==
  /\ post[p].pc = "check"
  /\ PostMoves(p, IF receipt[post[p].about] # "stored" THEN "refused"
                  ELSE IF post[p].failed /\ setup.cached THEN "origin" ELSE "append")
  /\ UNCHANGED <<decisions, caches, reported, guard, blamed, shadows, environment>>

\* Mutant: only the reported decision is retracted.
OriginIgnored(p) ==
  /\ post[p].pc = "origin"
  /\ post' = [post EXCEPT ![p].pc = "retract", ![p].todo = <<post[p].about>>]
  /\ UNCHANGED <<decisions, caches, reported, guard, blamed, shadows, environment>>
\* trace_cache_source: of a replay, the decision that proved its answer.
Origin(p) ==
  /\ post[p].pc = "origin"
  /\ LET about == post[p].about
         source == req[about].source IN
     post' = [post EXCEPT ![p].pc = "retract",
                          ![p].todo = IF source = None THEN <<about>> ELSE <<about, source>>]
  /\ UNCHANGED <<decisions, caches, reported, guard, blamed, shadows, environment>>

\* CacheStore::retract, one decision at a time.  The shared store deletes the key
\* the index names, and the index even when that deletion failed.
Retract(p) ==
  /\ post[p].pc = "retract"
  /\ LET id == Head(post[p].todo)
         at == post[p].at
         key == Key(req[id].kind) IN
     \/ /\ ~setup.shared /\ cache' = [cache EXCEPT ![at] = Without(@, id)]
        /\ UNCHANGED index
     \/ /\ setup.shared /\ id \in index /\ index' = index \ {id}
        /\ cache' = [cache EXCEPT ![Shared] = @ \ Hits(@, key)]
     \/ setup.shared /\ id \notin index /\ UNCHANGED caches
     \/ /\ setup.shared /\ setup.faulty
        /\ index' \in {index, index \ {id}} /\ UNCHANGED cache
  /\ post' = [post EXCEPT ![p].todo = Tail(@),
                          ![p].pc = IF Len(post[p].todo) = 1 THEN "append" ELSE @]
  /\ UNCHANGED <<decisions, reported, guard, blamed, shadows, environment>>

\* append_deferred; a failed one is a 500, and nothing learns from the report.
AppendDeferred(p) ==
  /\ post[p].pc = "append"
  /\ \/ reported' = reported \cup {p} /\ PostMoves(p, "learn")
     \/ setup.faulty /\ PostMoves(p, "refused") /\ UNCHANGED reported
  /\ UNCHANGED <<decisions, caches, guard, blamed, shadows, environment>>

\* The route a receipt was stamped with: the pipeline stamps what it routed, not
\* what it replayed or observed, and no stamp reads as route 0.
TraceRoute(r) == IF req[r].outcome # None THEN req[r].kind.route ELSE 0

\* GuardrailRegistry::record.
Learn(p) ==
  /\ post[p].pc = "learn"
  /\ LET at == post[p].at
         i == TraceRoute(post[p].about)
         g == guard[at][i]
         after == Recorded(g, p, {q \in Post : post[q].failed}, time)
         window == Pushed(g.outcomes, p) IN
     IF setup.guarded
     THEN /\ guard' = [guard EXCEPT ![at][i] = after]
          /\ blamed' = IF after.until = g.until THEN blamed
                       ELSE [q \in Post |-> blamed[q] + IF q \in {window[j] : j \in 1..Len(window)}
                                                        THEN 1 ELSE 0]
     ELSE UNCHANGED <<guard, blamed>>
  /\ PostMoves(p, "done")
  /\ UNCHANGED <<decisions, caches, reported, shadows, environment>>

\* The poster leaves: the handler is dropped, what it had handed to the blocking
\* pool still happens.
PosterLeaves(p) ==
  /\ post[p].pc \in {"check", "origin", "retract", "append", "learn"}
  /\ PostMoves(p, "gone")
  /\ reported' \in IF post[p].pc = "append" THEN {reported, reported \cup {p}} ELSE {reported}
  /\ UNCHANGED <<decisions, caches, guard, blamed, shadows, environment>>

-------------------------------------------------------------------------------
(* The rest of the world.                                                  *)

\* The writer stores the receipt (TraceStore).
StoreReceipt(r) ==
  /\ receipt[r] = "offered" /\ receipt' = [receipt EXCEPT ![r] = "stored"]
  /\ UNCHANGED <<req, caches, feedback, shadows, environment>>

\* An entry's TTL runs out.
Expire ==
  /\ \E s \in DOMAIN cache : \E e \in cache[s] :
       cache' = [cache EXCEPT ![s] = @ \ {e}]
  /\ UNCHANGED <<decisions, index, feedback, shadows, environment>>

Tick ==
  /\ setup.guarded \/ setup.shadowed
  /\ time < MaxTime /\ time' = time + 1
  /\ UNCHANGED <<decisions, caches, feedback, shadows, setup, crashes>>

Ended == {"absent", "done", "gone", "panicked"}
\* A replica dies with all it holds in memory, and is started again.
Crash(at) ==
  /\ crashes < setup.crashes /\ crashes' = crashes + 1
  /\ req' = [r \in Request |-> IF req[r].at = at /\ req[r].pc \notin Ended
                               THEN [req[r] EXCEPT !.pc = "gone"] ELSE req[r]]
  /\ receipt' = [r \in Request |-> IF req[r].at = at /\ receipt[r] = "offered"
                                   THEN "lost" ELSE receipt[r]]
  /\ post' = [p \in Post |-> IF post[p].at = at /\ post[p].pc \notin Ended \cup {"refused"}
                             THEN [post[p] EXCEPT !.pc = "gone"] ELSE post[p]]
  /\ cache' = [cache EXCEPT ![at] = {}]
  /\ guard' = [guard EXCEPT ![at] = [i \in Route |-> Calm]]
  /\ shadow' = [r \in Request |-> IF req[r].at = at THEN [pc |-> "none", day |-> 0]
                                  ELSE shadow[r]]
  /\ ledger' = [ledger EXCEPT ![at] = [day |-> 0, spent |-> 0]]
  /\ UNCHANGED <<index, reported, blamed, spent, upset, setup, time>>

-------------------------------------------------------------------------------
Pipeline(r) ==
  Lookup(r) \/ Replay(r) \/ RouteEnforce(r) \/ Probe(r) \/ PutEntry(r) \/ OfferDecision(r)
    \/ GatePanics(r)
Shadowing(r) == MaySpend(r) \/ Debit(r) \/ ShadowPanics(r)
Handler(p) == TraceExists(p) \/ Origin(p) \/ Retract(p) \/ AppendDeferred(p) \/ Learn(p)

\* Everything but the relaying of streams, whose bytes Relay adds.
Beside ==
  \/ \E r \in Request : Arrive(r) \/ Pipeline(r) \/ ClientLeaves(r) \/ Forward(r)
                          \/ SpawnedTrace(r) \/ Shadowing(r) \/ StoreReceipt(r)
  \/ \E p \in Post : PostArrives(p) \/ Handler(p) \/ PosterLeaves(p)
  \/ Expire \/ Tick \/ \E at \in setup.replicas : Crash(at)

Next ==
  \/ Beside
  \/ \E r \in Request : ForwardStream(r) \/ StreamEnds(r) \/ TapDropped(r)

Spec == Init /\ [][Next]_vars

-------------------------------------------------------------------------------
(* Properties.                                                             *)

\* The cache holds at most max_entries, one per key, and every part of the state
\* has its type.
TypeOK ==
  /\ setup \in Setups /\ time \in 0..MaxTime /\ crashes \in 0..setup.crashes
  /\ \A r \in Request :
       /\ req[r].pc \in Ended \cup {"lookup", "replay", "route", "probe", "put", "stored", "offer",
                                    "forward", "recording", "relay", "drained"}
       /\ req[r].pc # "absent" => req[r].kind \in setup.kinds /\ req[r].at \in setup.replicas
       /\ req[r].source \in Request \cup {None} /\ req[r].outcome \in setup.outcomes \cup {None}
       /\ receipt[r] \in {"none", "offered", "stored", "lost"}
       /\ shadow[r].pc \in {"none", "asked", "running", "skipped", "done"}
  /\ \A s \in DOMAIN cache :
       /\ s # Shared => Cardinality(cache[s]) <= MaxEntries
       /\ \A e, f \in cache[s] : e.key = f.key => e = f
  /\ index \subseteq Request /\ reported \subseteq Post
  /\ \A at \in Replica, i \in Route : Len(guard[at][i].outcomes) <= Window

\* "A response cache that can only ever return an answer which passed a gate": what
\* is replayed was served on a pass, to the same question under the same ladder, by
\* another decision whose receipt follows unless its client or its process is gone.
ReplayIsProven ==
  \A r \in Request : req[r].source # None =>
    LET proof == req[req[r].source] IN
    /\ req[r].source # r
    /\ proof.outcome.from = "attempt" /\ proof.outcome.verdict = "pass"
    /\ Key(proof.kind) = Key(req[r].kind)
    /\ proof.offers = 1 \/ proof.pc \in {"stored", "gone"}

\* "A Fail retracts the proof": once a failing report has passed its retraction, no
\* entry of that store rests on the decision it names, or on the one that decision
\* replayed; stores that do not fail.
DisprovenStaysOut ==
  ~setup.faulty /\ setup.cached =>
    \A p \in Post :
      post[p].failed /\ (p \in reported \/ post[p].pc \in {"append", "learn", "done"}) =>
        \A e \in cache[Home(post[p].at)] :
          e.source \notin {post[p].about, req[post[p].about].source}

\* Every answer has one receipt: none twice however a stream ends, and none is
\* answered without (SseTap: "on_done fires exactly once").
OneReceipt ==
  \A r \in Request :
    /\ req[r].offers <= 1
    /\ req[r].pc \in {"done", "drained"} => req[r].offers = 1

\* "Clear the window on demotion": no report takes part in two demotions, so a route
\* is demoted again only on reports that came in after the last demotion.  A report is
\* a post: the code takes one that is sent again for another.
DemotedOnNewEvidence == \A p \in Post : blamed[p] <= 1

\* "When a day's budget is exhausted shadow work stops": an evaluation begins only
\* while what was really spent on those begun that day is below the ceiling, unless
\* a crash, a panic or one that ran past midnight has upset the account.
ShadowStopsAtCeiling ==
  [][\A r \in Request :
       shadow[r].pc = "asked" /\ shadow'[r].pc = "running" /\ ~upset /\ crashes = 0 =>
         spent[req[r].at][Day(time)] < Ceiling]_vars

\* A streamed decision runs in a task of its own: its receipt is offered, client or
\* no client, unless a gate panics in that task or the process dies.
StreamedIsRecorded ==
  \A r \in Request :
    (req[r].pc = "lookup" /\ req[r].kind.streamed) ~>
      (req[r].offers = 1 \/ req[r].pc = "panicked" \/ crashes > 0)

\* The promise of the guardrail: "whether this route is currently demoted and must
\* take the observe path" (guard.rs:52).
DemotedServesAsObserve ==
  [][\A r \in Request :
       req[r].pc = "absent" /\ req'[r].pc = "lookup" =>
         ~RouteDemoted(req'[r].kind, req'[r].at)]_vars

\* "An answer proven against one gate configuration says nothing about another"
\* (verified_cache.rs:28).
ReplayClearedTheseGates ==
  \A r \in Request : req[r].source # None =>
    req[req[r].source].kind.route = req[r].kind.route

\* "A downstream outcome arriving later can be attributed back to the route that
\* produced it" (proxy.rs:2604).
OutcomeCountsForItsRoute ==
  \A at \in Replica, i \in Route :
    \A j \in 1..Len(guard[at][i].outcomes) :
      req[post[guard[at][i].outcomes[j]].about].kind.route = i
===============================================================================
