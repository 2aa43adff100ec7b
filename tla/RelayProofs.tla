----------------------------- MODULE RelayProofs -----------------------------
(***************************************************************************)
(* Proofs about Relay, for streams of any lines, any size of the line      *)
(* buffer and any way to end: its steps are those of Serving, and receipts *)
(* say what their streams carried.                                         *)
(***************************************************************************)
EXTENDS Relay, ServingProofs

\* Every step is one of Serving or a byte, which Serving does not see.
LEMMA StepServes == [RelayNext]_relayVars => [Next]_vars
BY DEF RelayNext, relayVars, Next, Opens, Relays, Ends, Drops

\* What Serving promises, it promises of whatever streams carry.
THEOREM RelayServes == RelaySpec => Spec
<1>1. RelayInit => Init
  BY DEF RelayInit
<1> QED BY <1>1, StepServes, PTL DEF RelaySpec, Spec

-------------------------------------------------------------------------------
(* The parser.                                                             *)

Usage == [in : Nat, out : Nat, model : BOOLEAN, completed : BOOLEAN]

Receipt == [verdict : {"pass", "abstain"}, reason : {"eof", "error", "dropped"},
            from : {"error", "attempt"}, in : Nat, out : Nat]
Tap == [stream : Stream, line : Nat \ {0}, byte : Nat, buffered : Nat, overflow : BOOLEAN,
        usage : Usage, told : Receipt \cup {None}]

\* The buffer holds the line so far unless it was given up.
Holding(t) ==
  /\ t.overflow <=> t.byte > LineCap
  /\ t.buffered = IF t.byte > LineCap THEN 0 ELSE t.byte
Within(t) ==
  /\ t.line <= Len(t.stream.lines) + 1
  /\ IF t.line <= Len(t.stream.lines) THEN t.byte <= t.stream.lines[t.line].size ELSE t.byte = 0
\* The usage is that of the lines heard.
Hearing(t) ==
  /\ t.usage.in = Last(t, "in") /\ t.usage.out = Last(t, "out")
  /\ (t.usage.model <=> Named(t)) /\ (t.usage.completed <=> Delivered(t))

Tapping(t) == t \in Tap /\ Holding(t) /\ Within(t) /\ Hearing(t)

\* Two taps at the same line have heard the same.
LEMMA SameLineSameHeard ==
  ASSUME NEW t, NEW u, u.stream = t.stream, u.line = t.line
  PROVE  /\ Last(u, "in") = Last(t, "in") /\ Last(u, "out") = Last(t, "out")
         /\ (Named(u) <=> Named(t)) /\ (Delivered(u) <=> Delivered(t))
BY DEF Last, Stating, Heard, Named, Delivered

\* The newline adds the line to what was heard, unless it was given up.
LEMMA NewlineHears ==
  ASSUME NEW t, t.line \in Nat \ {0}, NEW u, u.stream = t.stream, u.line = t.line + 1
  PROVE  Heard(u) = IF t.stream.lines[t.line].size <= LineCap
                    THEN Heard(t) \cup {t.line} ELSE Heard(t)
<1>1. 1..(u.line - 1) = 1..(t.line - 1) \cup {t.line}
  OBVIOUS
<1> QED BY <1>1 DEF Heard

\* The greatest of some numbers, once found.
LEMMA MaxFound ==
  ASSUME NEW S \in SUBSET Int, NEW n \in S, \A m \in S : m <= n
  PROVE  Max(S) = n
<1>1. \A x \in S : (\A y \in S : x >= y) => x = n
  OBVIOUS
<1> QED BY <1>1 DEF Max

\* A count stated by the newest line heard is the last; otherwise it stays what it was.
LEMMA LastMoves ==
  ASSUME NEW t, t.line \in Nat \ {0}, NEW count, NEW u, u.stream = t.stream,
         Heard(u) = Heard(t) \cup {t.line}
  PROVE  Last(u, count) = Stated(t.stream.lines[t.line][count], Last(t, count))
<1> DEFINE n == t.line
<1>1. CASE t.stream.lines[n][count] = None
  <2>1. Stating(u, count) = Stating(t, count)
    BY <1>1 DEF Stating
  <2> QED BY <1>1, <2>1 DEF Last, Stated
<1>2. CASE t.stream.lines[n][count] # None
  <2>1. n \in Stating(u, count) /\ Stating(u, count) \in SUBSET Int
        /\ \A m \in Stating(u, count) : m <= n
    BY <1>2 DEF Stating, Heard
  <2>2. Max(Stating(u, count)) = n
    BY <2>1, MaxFound
  <2> QED BY <1>2, <2>1, <2>2 DEF Last, Stated
<1> QED BY <1>1, <1>2

LEMMA FreshTaps ==
  ASSUME NEW s \in Stream
  PROVE  Tapping(Fresh(s)) /\ Fresh(s).told = None
<1> DEFINE t == Fresh(s)
<1>1. /\ t.stream = s /\ t.line = 1 /\ t.byte = 0 /\ t.buffered = 0 /\ t.overflow = FALSE
      /\ t.usage = NoUsage /\ t.told = None
  BY DEF Fresh
<1> HIDE DEF t
<1>2. Heard(t) = {}
  BY <1>1 DEF Heard
<1>3. Last(t, "in") = 0 /\ Last(t, "out") = 0 /\ ~Named(t) /\ ~Delivered(t)
  BY <1>2 DEF Last, Stating, Named, Delivered
<1>4. s.lines \in Seq(Line) /\ Len(s.lines) \in Nat /\ \A i \in 1..Len(s.lines) : s.lines[i] \in Line
  BY DEF Stream
<1>5. 1 <= Len(s.lines) => 0 <= s.lines[1].size
  BY <1>4 DEF Line
<1>6. NoUsage \in Usage /\ NoUsage.in = 0 /\ NoUsage.out = 0 /\ ~NoUsage.model /\ ~NoUsage.completed
  BY DEF NoUsage, Usage
<1>7. Fresh(s) \in Tap
  BY <1>6 DEF Fresh, Tap
<1>8. Holding(t)
  BY <1>1, LineCapAssumption DEF Holding
<1>9. Within(t)
  BY <1>1, <1>4, <1>5 DEF Within
<1>10. Hearing(t)
  BY <1>1, <1>3, <1>6 DEF Hearing
<1>11. Tapping(t)
  BY <1>7, <1>8, <1>9, <1>10 DEF Tapping, t
<1> QED BY <1>1, <1>11 DEF t

LEMMA LineShape ==
  ASSUME NEW t \in Tap, t.line <= Len(t.stream.lines)
  PROVE  t.stream.lines[t.line] \in Line
<1>1. t.stream.lines \in Seq(Line) /\ t.line \in Nat \ {0}
  BY DEF Tap, Stream
<1> QED BY <1>1

\* A byte of a line leaves what was heard alone, and the buffer right.
LEMMA BufferedTaps ==
  ASSUME NEW t, Tapping(t), t.line <= Len(t.stream.lines),
         t.byte < t.stream.lines[t.line].size
  PROVE  Tapping(Buffered(t)) /\ Buffered(t).told = t.told
<1> DEFINE u == Buffered(t)
           fits == ~t.overflow /\ t.buffered + 1 <= LineCap
<1>1. t \in Tap
  BY DEF Tapping
<1>2. u \in Tap /\ u.stream = t.stream /\ u.line = t.line /\ u.usage = t.usage
      /\ u.byte = t.byte + 1 /\ (u.overflow <=> ~fits)
      /\ u.buffered = (IF fits THEN t.buffered + 1 ELSE 0) /\ u.told = t.told
  <2> DEFINE byte == t.byte + 1
             held == IF fits THEN t.buffered + 1 ELSE 0
             over == ~fits
  <2>1. byte \in Nat /\ held \in Nat /\ over \in BOOLEAN
    BY <1>1 DEF Tap
  <2>2. u = [t EXCEPT !.byte = byte, !.overflow = over, !.buffered = held]
    BY <1>1 DEF Buffered, Tap
  <2> HIDE DEF u, byte, held, over
  <2>3. u \in Tap /\ u.stream = t.stream /\ u.line = t.line /\ u.usage = t.usage
        /\ u.byte = byte /\ u.overflow = over /\ u.buffered = held /\ u.told = t.told
    BY <1>1, <2>1, <2>2 DEF Tap
  <2> QED BY <2>3 DEF byte, over, held
<1>3. t.stream.lines[t.line].size \in Nat /\ t.byte \in Nat
  BY <1>1, LineShape DEF Line, Tap
<1> HIDE DEF u
<1>4. fits <=> t.byte + 1 <= LineCap
  BY <1>3, LineCapAssumption DEF Tapping, Holding
<1>5. Holding(u)
  BY <1>2, <1>3, <1>4, LineCapAssumption DEF Tapping, Holding
<1>6. Within(u)
  BY <1>2, <1>3 DEF Tapping, Within
<1>7. Hearing(u)
  BY <1>2, SameLineSameHeard DEF Tapping, Hearing
<1>8. Tapping(u)
  BY <1>2, <1>5, <1>6, <1>7 DEF Tapping
<1> QED BY <1>2, <1>8 DEF u

\* The newline hears the line, unless it was given up, and begins the next.
LEMMA NewlineTaps ==
  ASSUME NEW t, Tapping(t), t.line <= Len(t.stream.lines),
         t.byte = t.stream.lines[t.line].size
  PROVE  Tapping(Newline(t)) /\ Newline(t).told = t.told
<1> DEFINE u == Newline(t)
           line == t.stream.lines[t.line]
<1>1. t \in Tap /\ line \in Line /\ t.line \in Nat \ {0} /\ t.usage \in Usage
  BY LineShape DEF Tapping, Tap
<1>2. Processed(t.usage, line) \in Usage
  BY <1>1 DEF Processed, Stated, Usage, Line, Figure
<1>3. u \in Tap /\ u.stream = t.stream /\ u.line = t.line + 1 /\ u.byte = 0 /\ u.buffered = 0
      /\ ~u.overflow /\ u.told = t.told
      /\ u.usage = (IF t.overflow THEN t.usage ELSE Processed(t.usage, line))
  <2> DEFINE next == t.line + 1
             usage == IF t.overflow THEN t.usage ELSE Processed(t.usage, line)
  <2>1. next \in Nat \ {0} /\ usage \in Usage
    BY <1>1, <1>2
  <2>2. u = [t EXCEPT !.line = next, !.byte = 0, !.buffered = 0, !.overflow = FALSE, !.usage = usage]
    BY <1>1 DEF Newline, Tap
  <2> HIDE DEF next, usage, u
  <2>3. u \in Tap /\ u.stream = t.stream /\ u.line = next /\ u.byte = 0 /\ u.buffered = 0
        /\ u.overflow = FALSE /\ u.told = t.told /\ u.usage = usage
    BY <1>1, <2>1, <2>2 DEF Tap
  <2> QED BY <2>3 DEF next, usage
<1>4. t.overflow <=> ~(line.size <= LineCap)
  BY <1>1, LineCapAssumption DEF Tapping, Holding, Line
<1> HIDE DEF u
<1>5. Heard(u) = IF t.overflow THEN Heard(t) ELSE Heard(t) \cup {t.line}
  BY <1>1, <1>3, <1>4, NewlineHears
<1>6. ASSUME t.overflow PROVE Hearing(u)
  <2>1. Last(u, "in") = Last(t, "in") /\ Last(u, "out") = Last(t, "out")
        /\ (Named(u) <=> Named(t)) /\ (Delivered(u) <=> Delivered(t))
    BY <1>3, <1>5, <1>6 DEF Last, Stating, Named, Delivered
  <2>2. u.usage = t.usage
    BY <1>3, <1>6
  <2>3. Hearing(t)
    BY DEF Tapping
  <2> QED BY <2>1, <2>2, <2>3 DEF Hearing
<1>7. ASSUME ~t.overflow PROVE Hearing(u)
  <2>1. u.usage = Processed(t.usage, line) /\ Heard(u) = Heard(t) \cup {t.line}
    BY <1>3, <1>5, <1>7
  <2>2. Last(u, "in") = Stated(line["in"], Last(t, "in"))
        /\ Last(u, "out") = Stated(line["out"], Last(t, "out"))
    BY <1>1, <1>3, <2>1, LastMoves
  <2>3. (Named(u) <=> Named(t) \/ line.model) /\ (Delivered(u) <=> Delivered(t) \/ line.ends)
    BY <1>3, <2>1 DEF Named, Delivered
  <2>4. u.usage = [in |-> Stated(line.in, t.usage.in), out |-> Stated(line.out, t.usage.out),
                   model |-> t.usage.model \/ line.model, completed |-> t.usage.completed \/ line.ends]
    BY <2>1 DEF Processed
  <2>5. u.usage.in = Stated(line.in, t.usage.in) /\ u.usage.out = Stated(line.out, t.usage.out)
    BY <2>4
  <2>6. (u.usage.model <=> t.usage.model \/ line.model)
        /\ (u.usage.completed <=> t.usage.completed \/ line.ends)
    BY <2>4, <1>1 DEF Line, Usage
  <2>7. Hearing(t)
    BY DEF Tapping
  <2> QED BY <2>2, <2>3, <2>5, <2>6, <2>7 DEF Hearing
<1>8. Hearing(u)
  BY <1>6, <1>7
<1>9. Holding(u)
  BY <1>3, LineCapAssumption DEF Holding
<1>10. Within(u)
  <2>1. Len(t.stream.lines) \in Nat
    BY <1>1 DEF Tap, Stream
  <2>2. u.line <= Len(u.stream.lines) => u.stream.lines[u.line].size \in Nat
    BY <1>3, LineShape DEF Line
  <2> QED BY <1>1, <1>3, <2>1, <2>2 DEF Within
<1>11. Tapping(u)
  BY <1>3, <1>8, <1>9, <1>10 DEF Tapping
<1> QED BY <1>3, <1>11 DEF u

LEMMA FedTaps ==
  ASSUME NEW t, Tapping(t), t.line <= Len(t.stream.lines)
  PROVE  Tapping(Fed(t)) /\ Fed(t).told = t.told
<1>1. t.byte \in Nat /\ t.stream.lines[t.line].size \in Nat /\ t.byte <= t.stream.lines[t.line].size
  BY LineShape DEF Tapping, Within, Tap, Line
<1> QED BY <1>1, BufferedTaps, NewlineTaps DEF Fed

-------------------------------------------------------------------------------
(* Receipts.                                                               *)

\* A tap that ends says what its stream carried.
LEMMA TellsFaithfully ==
  ASSUME NEW t, Tapping(t), NEW reason \in {"eof", "error", "dropped"}, NEW u,
         u = [t EXCEPT !.told = Told(t, reason)]
  PROVE  Tapping(u) /\ Faithful(u)
<1>1. t \in Tap /\ t.usage.in \in Nat /\ t.usage.out \in Nat /\ t.stream.success \in BOOLEAN
  BY DEF Tapping, Tap, Usage, Stream
<1>2. Told(t, reason) \in Receipt
  BY <1>1 DEF Told, Receipt
<1>3. u \in Tap /\ u.told = Told(t, reason) /\ u.stream = t.stream /\ u.line = t.line
      /\ u.byte = t.byte /\ u.buffered = t.buffered /\ u.overflow = t.overflow /\ u.usage = t.usage
  BY <1>1, <1>2 DEF Tap
<1>4. /\ Last(u, "in") = Last(t, "in") /\ Last(u, "out") = Last(t, "out")
      /\ (Named(u) <=> Named(t)) /\ (Delivered(u) <=> Delivered(t))
  BY <1>3, SameLineSameHeard
<1>5. Tapping(u)
  BY <1>3, <1>4 DEF Tapping, Holding, Within, Hearing
<1>6. u.told.in = (IF Outcome(t, reason) # "error" THEN t.usage.in ELSE 0)
      /\ u.told.out = (IF Outcome(t, reason) # "error" THEN t.usage.out ELSE 0)
      /\ (u.told.verdict = "pass" <=> Outcome(t, reason) = "served") /\ u.told.reason = reason
      /\ (u.told.from = "error" <=> Outcome(t, reason) \in {"error", "midstream"})
  BY <1>3 DEF Told
<1>7. /\ t.usage.in = Last(u, "in") /\ t.usage.out = Last(u, "out")
      /\ (t.usage.model <=> Named(u)) /\ (t.usage.completed <=> Delivered(u))
  BY <1>4 DEF Tapping, Hearing
<1>8. Outcome(t, reason) = "error" <=> ~u.stream.success
  BY <1>3 DEF Outcome
<1>9. Outcome(t, reason) = "midstream" <=> u.stream.success /\ reason = "error"
  BY <1>3 DEF Outcome
<1>10. Outcome(t, reason) = "served" <=>
         u.stream.success /\ reason # "error" /\ (Delivered(u) \/ (reason = "eof"
           /\ Last(u, "in") = 0 /\ Last(u, "out") = 0 /\ ~Named(u)))
  BY <1>1, <1>3, <1>7 DEF Outcome
<1>11. Faithful(u)
  BY <1>6, <1>7, <1>8, <1>9, <1>10 DEF Faithful
<1> QED BY <1>5, <1>11

\* Only a response that begins to stream enters the relay.
LEMMA BesideNoRelay ==
  ASSUME Shaped, Beside, NEW r \in Request, req'[r].pc = "relay"
  PROVE  req[r].pc = "relay"
<1> USE DEF environment, caches, feedback, shadows, decisions
<1>1. req \in [Request -> Decision]
  BY DEF Shaped
<1>2. CASE UNCHANGED req
  BY <1>2
<1>3. ASSUME NEW q \in Request, NEW d, Becomes(q, d), d.pc # "relay" PROVE req[r].pc = "relay"
  BY <1>1, <1>3 DEF Becomes
<1>4. ASSUME NEW q \in Request, NEW pc, MovesTo(q, pc), pc # "relay" PROVE req[r].pc = "relay"
  BY <1>1, <1>4 DEF Becomes, MovesTo, Decision
<1>5. ASSUME NEW q \in Request, Arrive(q) PROVE req[r].pc = "relay"
  BY <1>1, <1>5 DEF Arrive, Becomes, Unborn
<1>6. ASSUME NEW q \in Request, Pipeline(q) PROVE req[r].pc = "relay"
  <2>1. CASE Lookup(q)
    BY <1>1, <1>4, <2>1 DEF Lookup, Becomes, Decision
  <2>2. CASE Replay(q) \/ OfferDecision(q)
    BY <1>1, <2>2 DEF Replay, OfferDecision, Offers, Becomes, Decision
  <2>3. CASE RouteEnforce(q)
    BY <1>1, <2>3 DEF RouteEnforce, Becomes, Then, Decision
  <2>4. CASE Probe(q) \/ PutEntry(q) \/ GatePanics(q)
    BY <1>4, <2>4 DEF Probe, PutEntry, GatePanics, Then
  <2> QED BY <1>6, <2>1, <2>2, <2>3, <2>4 DEF Pipeline
<1>7. ASSUME NEW q \in Request, ClientLeaves(q) \/ Forward(q) \/ SpawnedTrace(q) PROVE req[r].pc = "relay"
  BY <1>1, <1>7 DEF ClientLeaves, Forward, SpawnedTrace, Offers, Becomes, MovesTo, Decision
<1>8. ASSUME NEW q \in Request, Shadowing(q) \/ StoreReceipt(q) PROVE req[r].pc = "relay"
  BY <1>2, <1>8 DEF Shadowing, MaySpend, Debit, ShadowPanics, StoreReceipt
<1>9. ASSUME NEW p \in Post, PostArrives(p) \/ Handler(p) \/ PosterLeaves(p) PROVE req[r].pc = "relay"
  BY <1>2, <1>9 DEF PostArrives, Handler, TraceExists, Origin, Retract, AppendDeferred, Learn, PosterLeaves
<1>10. CASE Expire \/ Tick
  BY <1>2, <1>10 DEF Expire, Tick
<1>11. ASSUME NEW at \in setup.replicas, Crash(at) PROVE req[r].pc = "relay"
  BY <1>1, <1>11 DEF Crash, Decision
<1> QED BY <1>5, <1>6, <1>7, <1>8, <1>9, <1>10, <1>11 DEF Beside

\* What is told is told of a request that is over, and faithfully; one in the relay
\* has a tap that has told nothing.
Finished(r) ==
  tap[r] # None => /\ Tapping(tap[r])
                   /\ tap[r].told # None => Settled(r) /\ Faithful(tap[r])
Untold(r) == req[r].pc = "relay" => Tapping(tap[r]) /\ tap[r].told = None

TapInv ==
  /\ ReplayInv /\ DOMAIN tap = Request
  /\ \A r \in Request : Finished(r) /\ Untold(r)

LEMMA InitTap == RelayInit => TapInv
<1> SUFFICES ASSUME RelayInit PROVE TapInv
  OBVIOUS
<1>1. ReplayInv
  BY InitReplay DEF RelayInit
<1>2. ASSUME NEW r \in Request PROVE tap[r] = None /\ req[r].pc = "absent"
  BY <1>2 DEF RelayInit, Init, Unborn
<1> QED BY <1>1, <1>2 DEF TapInv, RelayInit, Finished, Untold

LEMMA StepTap == TapInv /\ [RelayNext]_relayVars => TapInv'
<1> SUFFICES ASSUME TapInv, [RelayNext]_relayVars PROVE TapInv'
  OBVIOUS
<1>1. [Next]_vars /\ Shaped /\ Once /\ ReplayInv' /\ setup \in Setups
  BY StepServes, StepReplay DEF TapInv, ReplayInv, Shaped
<1>2. DOMAIN tap' = Request
  BY DEF TapInv, RelayNext, Opens, Relays, Ends, Drops, Tells, relayVars
<1>3. ASSUME NEW r \in Request, Settled(r) PROVE Settled(r)'
  BY <1>1, <1>3, SettledStays
<1>4. ASSUME NEW r \in Request, UNCHANGED tap[r], req'[r].pc = "relay" => req[r].pc = "relay"
      PROVE  (Finished(r) /\ Untold(r))'
  <2>1. tap'[r] = tap[r] /\ Finished(r) /\ Untold(r)
    BY <1>4 DEF TapInv
  <2> QED BY <1>3, <1>4, <2>1 DEF Finished, Untold
<1>5. ASSUME NEW r \in Request, NEW q \in Request, q # r, NEW d, Becomes(q, d)
      PROVE  UNCHANGED req[r]
  BY <1>1, <1>5 DEF Shaped, Becomes
<1>6. CASE Beside /\ UNCHANGED tap
  <2>1. \A r \in Request : (Finished(r) /\ Untold(r))'
    BY <1>1, <1>4, <1>6, BesideNoRelay
  <2> QED BY <1>1, <1>2, <2>1 DEF TapInv
<1>7. ASSUME NEW q \in Request, Opens(q) PROVE TapInv'
  <2>1. PICK s \in Streams[setup] : tap' = [tap EXCEPT ![q] = Fresh(s)]
    BY <1>7 DEF Opens
  <2>2. s \in Stream
    BY <1>1, <2>1, StreamsAssumption
  <2>3. (Finished(q) /\ Untold(q))'
    <3>1. tap'[q] = Fresh(s)
      BY <2>1 DEF TapInv
    <3>2. Tapping(tap'[q]) /\ tap'[q].told = None
      BY <2>2, <3>1, FreshTaps
    <3> QED BY <3>2 DEF Finished, Untold
  <2>4. ASSUME NEW r \in Request, r # q PROVE (Finished(r) /\ Untold(r))'
    <3>1. UNCHANGED tap[r]
      BY <2>1, <2>4
    <3>2. UNCHANGED req[r]
      BY <1>5, <1>7, <2>4 DEF Opens, ForwardStream, MovesTo
    <3> QED BY <1>4, <3>1, <3>2
  <2> QED BY <1>1, <1>2, <2>3, <2>4 DEF TapInv
<1>8. ASSUME NEW q \in Request, Relays(q) PROVE TapInv'
  <2>1. Tapping(tap[q]) /\ tap[q].told = None /\ tap[q].line <= Len(tap[q].stream.lines)
        /\ tap' = [tap EXCEPT ![q] = Fed(tap[q])] /\ req' = req
    BY <1>8 DEF Relays, TapInv, Untold, vars, decisions
  <2>2. (Finished(q) /\ Untold(q))'
    <3>1. tap'[q] = Fed(tap[q])
      BY <2>1 DEF TapInv
    <3>2. Tapping(tap'[q]) /\ tap'[q].told = None
      BY <2>1, <3>1, FedTaps
    <3> QED BY <3>2 DEF Finished, Untold
  <2>3. ASSUME NEW r \in Request, r # q PROVE (Finished(r) /\ Untold(r))'
    BY <1>4, <2>1, <2>3
  <2> QED BY <1>1, <1>2, <2>2, <2>3 DEF TapInv
<1>9. ASSUME NEW q \in Request, NEW reason \in {"eof", "error", "dropped"}, Tells(q, reason),
             req[q].pc = "relay", NEW pc \in {"drained", "done"}, Offers(q, pc)
      PROVE  TapInv'
  <2>1. Tapping(tap[q]) /\ tap'[q] = [tap[q] EXCEPT !.told = Told(tap[q], reason)]
    BY <1>9 DEF Tells, TapInv, Untold
  <2>2. req[q] \in Decision /\ req[q].offers = 0 /\ req \in [Request -> Decision]
    BY <1>1, <1>9 DEF Shaped, Once, Fits
  <2>3. req'[q].offers = 1 /\ req'[q].pc = pc
    BY <1>9, <2>2 DEF Offers, Becomes, Decision
  <2>4. (Finished(q) /\ Untold(q))'
    <3>1. Tapping(tap'[q]) /\ Faithful(tap'[q])
      BY <1>9, <2>1, TellsFaithfully
    <3> QED BY <2>3, <3>1 DEF Finished, Untold, Settled
  <2>5. ASSUME NEW r \in Request, r # q PROVE (Finished(r) /\ Untold(r))'
    BY <1>4, <1>5, <1>9, <2>5 DEF Tells, Offers
  <2> QED BY <1>1, <1>2, <2>4, <2>5 DEF TapInv
<1>10. ASSUME NEW q \in Request, Ends(q) PROVE TapInv'
  BY <1>9, <1>10 DEF Ends, StreamEnds
<1>11. ASSUME NEW q \in Request, Drops(q) PROVE TapInv'
  <2>1. CASE req[q].pc = "relay"
    BY <1>9, <1>11, <2>1 DEF Drops, TapDropped
  <2>2. CASE req[q].pc # "relay"
    <3>1. UNCHANGED tap /\ MovesTo(q, "done")
      BY <1>11, <2>2 DEF Drops, TapDropped
    <3>2. ASSUME NEW r \in Request, req'[r].pc = "relay" PROVE req[r].pc = "relay"
      BY <1>1, <3>1, <3>2 DEF MovesTo, Becomes, Shaped, Decision
    <3> QED BY <1>1, <1>2, <1>4, <3>1, <3>2 DEF TapInv
  <2> QED BY <2>1, <2>2
<1>12. CASE UNCHANGED relayVars
  BY <1>1, <1>2, <1>4, <1>12 DEF TapInv, relayVars, vars, decisions
<1> QED BY <1>6, <1>7, <1>8, <1>10, <1>11, <1>12 DEF RelayNext

\* A stream's receipt bills the last figures that went through whole and calls a pass
\* only what the client had to its terminal event, or an upstream's silence: SseTap,
\* parse_sse_chunk_into, stream_trace_callback, build_stream_trace_from_usage.
THEOREM ReceiptAlwaysTellsTheStream == RelaySpec => []ReceiptTellsTheStream
<1>1. TapInv => ReceiptTellsTheStream
  BY DEF TapInv, Finished, ReceiptTellsTheStream
<1> QED BY <1>1, InitTap, StepTap, PTL DEF RelaySpec
===============================================================================
