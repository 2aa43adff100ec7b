---------------------------- MODULE MCServing ----------------------------
(* Instances of Serving for TLC: one deployment per hazard. *)
EXTENDS Relay

CONSTANTS a, b

Messages == [api |-> "messages", question |-> 0, route |-> 0, streamed |-> FALSE,
             control |-> FALSE, asks |-> "route"]
Streamed == [Messages EXCEPT !.streamed = TRUE]
Other == [Streamed EXCEPT !.question = 1]
Third == [Messages EXCEPT !.question = 2]
Elsewhere == [Messages EXCEPT !.route = 1]
Control == [Messages EXCEPT !.control = TRUE]

Passed == [from |-> "attempt", verdict |-> "pass"]
Unproven == [from |-> "attempt", verdict |-> "abstain"]
BestOfPassed == [from |-> "best", verdict |-> "pass"]
Failed == [from |-> "error", verdict |-> "fail"]

Plain == [replicas |-> {a}, kinds |-> {Messages}, ladder |-> [i \in Route |-> 0],
          cached |-> FALSE, shared |-> FALSE, guarded |-> FALSE, shadowed |-> FALSE,
          faulty |-> FALSE, probed |-> FALSE, unwinds |-> FALSE,
          outcomes |-> {Passed}, requests |-> 2, posts |-> 0, crashes |-> 0]

\* A full store: three answers for two places.
Proving == [Plain EXCEPT !.cached = TRUE, !.kinds = {Messages, Other, Third}, !.outcomes = {Passed, BestOfPassed},
                         !.requests = 3]
\* Each replica its own store; a client that reports on what it was replayed.
Apart == [Plain EXCEPT !.cached = TRUE, !.replicas = {a, b}, !.posts = 1, !.crashes = 1,
                       !.probed = TRUE, !.unwinds = TRUE, !.outcomes = {Passed, Unproven}]
\* One store for both.
Together == [Apart EXCEPT !.shared = TRUE, !.probed = FALSE, !.unwinds = FALSE]
\* It fails.
Unreliable == [Together EXCEPT !.faulty = TRUE, !.crashes = 0]
\* A route under its guardrail.
Guarded == [Plain EXCEPT !.guarded = TRUE, !.outcomes = {Passed, Failed}, !.requests = 1,
                         !.posts = 3]
\* The rollout's control arm, shadowed.
Shadowed == [Plain EXCEPT !.shadowed = TRUE, !.unwinds = TRUE, !.kinds = {Control}, !.requests = 3]
\* Every way to be observed.
Watched == [Plain EXCEPT !.faulty = TRUE, !.unwinds = TRUE, !.crashes = 1, !.outcomes = {Passed, Failed},
                         !.kinds = {Streamed, [Streamed EXCEPT !.asks = "preset"],
                                    [Streamed EXCEPT !.api = "chat", !.asks = "structured"],
                                    [Messages EXCEPT !.api = "gemini", !.control = TRUE]}]

\* A guarded route asked in the OpenAI dialects.
Dialects == {[Guarded EXCEPT !.requests = 2, !.posts = 2,
                             !.kinds = {[Messages EXCEPT !.api = "chat"],
                                        [Messages EXCEPT !.api = "responses"]}]}
\* Two routes with one ladder and different gates.
OneLadder == {[Plain EXCEPT !.cached = TRUE, !.kinds = {Messages, Elsewhere}]}
\* A guarded route, not the first, with a cache and a ladder of its own.
SecondRoute == {[Guarded EXCEPT !.cached = TRUE, !.kinds = {Elsewhere}, !.requests = 2,
                                !.ladder = [i \in Route |-> i]]}

\* A relayed stream and what it is made of: lines that open it, count, fill it, end
\* it, say nothing, and one too long to be read.
Relayed == [Plain EXCEPT !.kinds = {[Streamed EXCEPT !.asks = "preset"]}, !.requests = 1]
Noise == [size |-> 1, in |-> None, out |-> None, model |-> FALSE, ends |-> FALSE]
Opening == [Noise EXCEPT !.in = 2, !.model = TRUE]
Count == [Noise EXCEPT !.size = 2, !.out = 1]
Recount == [Count EXCEPT !.out = 2, !.ends = TRUE]
Final == [Noise EXCEPT !.ends = TRUE]
TooLong == [Recount EXCEPT !.size = 3, !.in = 1]
Sent == {[lines |-> l, success |-> s] :
           l \in UNION {[1..n -> {Noise, Opening, Count, Recount, Final, TooLong}] : n \in 0..3},
           s \in BOOLEAN}

Deployments == {Proving, Apart, Together, Unreliable, Guarded, Shadowed, Watched, Relayed}

\* Elsewhere streams are relayed without a look at what they carry.
Contents == [d \in Deployments \cup Dialects \cup OneLadder \cup SecondRoute |->
               IF d = Relayed THEN Sent ELSE {[lines |-> <<>>, success |-> TRUE]}]
===========================================================================
