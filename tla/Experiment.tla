----------------------------- MODULE Experiment -----------------------------
(***************************************************************************)
(* Certified model selection (experiment.rs, and its calls in proxy.rs):   *)
(* one route's challenger, tried against the incumbent by several          *)
(* replicas.  Live: sessions are served by one arm or the other and their  *)
(* outcomes reported.  Paired: a detached task runs the challenger on what *)
(* the incumbent answered.  Evidence goes through a log the replicas       *)
(* share, or through the replica's own tables.  Awaits divide the jobs     *)
(* into steps.                                                             *)
(***************************************************************************)
EXTENDS EProcess, SequencesExt

CONSTANTS
  Subjects,    \* bound on sessions; an evaluation is named by its job
  Jobs,        \* bound on requests of the challenger's sessions, reports, evaluations
  Replica,
  Cap,         \* max_usd_per_day of the paired challenger; an evaluation costs one
  Setups,      \* deployments, and the bounds of each
  None

Subject == 1..Subjects
Job == 1..Jobs

\* logged: redis_url is set.  arms: what the salted hash assigns each session that
\* comes; those of the past have been served, all by one replica.
Arm == {"incumbent", "challenger"}
Setup == [replicas : SUBSET Replica, paired : BOOLEAN, logged : BOOLEAN,
          arms : [Subject -> Arm \cup {"none"}], past : SUBSET Subject,
          jobs : 0..Jobs, faults : Nat, restarts : Nat]

ASSUME ExperimentAssumption ==
  /\ Subjects \in Nat /\ Jobs \in 0..Subjects /\ Cap \in Nat
  /\ Setups \subseteq Setup
  /\ \A d \in Setups : \A s \in d.past : d.arms[s] # "none"
  /\ None \notin [at : Replica, arm : Arm \cup {"asked"}]

VARIABLES
  setup,
  mon,       \* each replica's monitor
  table,     \* each replica's tables: verdicts reported to it, rows of experiment_pairs
  log,       \* the shared log
  claims,    \* sessions whose outcome some replica has claimed
  served,    \* by which arm, and where, each session was served
  job,       \* requests, feedback handlers and evaluations
  reading,   \* the background sync of each replica
  life,      \* which process of its replica runs: its replica_id
  faults, restarts

stores == <<table, log, claims, served>>
counters == <<setup, faults, restarts>>
vars == <<mon, stores, job, reading, life, counters>>

-------------------------------------------------------------------------------
(* A monitor: the evidence it counted, what it debited for each evaluation *)
(* (paired_ledger), how much of the log it consumed (remote_log_offset),   *)
(* whether the experiment is in its map, and was ever synced, and whether  *)
(* its history could be read (blind: ExperimentMonitor::unavailable).      *)
(* History: unread, the evaluations whose rows its ledger could not read.  *)

Blank == [evidence |-> <<>>, debited |-> [s \in Subject |-> 0], offset |-> 0, sync |-> "none",
          blind |-> FALSE, unread |-> {}]

Blocked(m) == m.blind \/ Status(m.evidence) = "halted"
Spent(m) == FoldFunction(LAMBDA a, b : a + b, 0, m.debited)

\* Mutant: spend is seeded from every record of the log, one's own too.
SeedsOwn(e, me) == e.arm = "pair"
\* apply_log_record: spend of this process was debited when it was made.
Seeds(e, me) == e.arm = "pair" /\ e.by # me

\* sync_from_backend, when the log was as long as upto at its read: what another sync
\* has consumed meanwhile is skipped, and the offset never winds back.
Synced(m, upto, me) ==
  LET new == New(m.evidence, log, m.offset + 1, upto)
      seeded == {log[i].id : i \in {k \in new : Seeds(log[k], me)}} IN
  [evidence |-> m.evidence \o Pick(log, new),
   debited |-> [s \in Subject |-> IF s \in seeded THEN m.debited[s] + 1 ELSE m.debited[s]],
   offset |-> IF upto > m.offset THEN upto ELSE m.offset,
   sync |-> "synced", blind |-> m.blind, unread |-> m.unread]

\* observe_outcome, apply_pair_locally.
CountedHere(m, e) == [m EXCEPT !.evidence = Counted(@, e)]

-------------------------------------------------------------------------------
Absent == [pc |-> "absent", at |-> None, asks |-> 0, item |-> None, upto |-> 0]
Done == [Absent EXCEPT !.pc = "done"]

Init ==
  /\ setup \in Setups /\ faults = 0 /\ restarts = 0
  /\ \E home \in setup.replicas :
       /\ served = [s \in Subject |-> IF s \in setup.past THEN [at |-> home, arm |-> setup.arms[s]]
                                      ELSE None]
       /\ mon = [r \in Replica |-> IF r = home /\ setup.past # {}
                                   THEN [Blank EXCEPT !.sync = "known"] ELSE Blank]
  /\ table = [r \in Replica |-> [reports |-> <<>>, rows |-> <<>>]]
  /\ log = <<>> /\ claims = {}
  /\ job = [j \in Job |-> Absent] /\ reading = [r \in Replica |-> None]
  /\ life = [r \in Replica |-> 0]

Me(r) == <<r, life[r]>>
Item(id, arm, x, r) == [id |-> id, arm |-> arm, x |-> x, by |-> Me(r)]

Goes(j, pc) == job' = [job EXCEPT ![j] = IF pc = "done" THEN Done ELSE [@ EXCEPT !.pc = pc]]
Knows(r, m) == mon' = [mon EXCEPT ![r] = m]
\* entry: any use of the experiment puts it in the map.
Noticed(m) == [m EXCEPT !.sync = IF @ = "none" THEN "known" ELSE @]
NoFault == UNCHANGED counters
Fault == faults < setup.faults /\ faults' = faults + 1 /\ UNCHANGED <<setup, restarts>>

Next1(j) == job[j].pc = "absent" /\ j <= setup.jobs /\ (j > 1 => job[j - 1].pc # "absent")

-------------------------------------------------------------------------------
(* Arrivals.                                                               *)

\* A session's first request.  The incumbent's sessions need no cluster state.
ServeIncumbent(s, r) ==
  /\ ~setup.paired /\ served[s] = None /\ setup.arms[s] = "incumbent"
  /\ served' = [served EXCEPT ![s] = [at |-> r, arm |-> "incumbent"]]
  /\ Knows(r, Noticed(mon[r]))
  /\ NoFault /\ UNCHANGED <<table, log, claims, job, reading, life>>

AskChallenger(j, s, r) ==
  /\ Next1(j) /\ ~setup.paired /\ setup.arms[s] = "challenger"
  /\ served[s] = None /\ served' = [served EXCEPT ![s] = [at |-> r, arm |-> "asked"]]
  /\ job' = [job EXCEPT ![j] = [Absent EXCEPT !.pc = "ensure", !.at = r, !.asks = s]]
  /\ Knows(r, Noticed(mon[r]))
  /\ NoFault /\ UNCHANGED <<table, log, claims, reading, life>>

\* feedback: the verdict is in the table (append_deferred) before the experiment
\* learns of it, from the replica that has the receipt; a session may get several.
Report(j, s, x) ==
  /\ Next1(j) /\ ~setup.paired /\ served[s] # None /\ served[s].arm # "asked"
  /\ LET r == served[s].at
         e == Item(s, served[s].arm, x, r) IN
     /\ job' = [job EXCEPT ![j] = [Absent EXCEPT !.pc = IF setup.logged THEN "claim" ELSE "count",
                                                 !.at = r, !.item = e]]
     /\ table' = [table EXCEPT ![r].reports = Append(@, e)]
  /\ NoFault /\ UNCHANGED <<mon, log, claims, served, reading, life>>

\* spawn_paired_challenger, for the incumbent's answer number j, whose cost is known
\* before the challenger is spawned, or is not because it is blocked (observe_cost).
Spawn(j, r) ==
  /\ Next1(j) /\ setup.paired
  /\ job' = [job EXCEPT ![j] = IF Blocked(mon[r]) THEN Done
                               ELSE [Absent EXCEPT !.pc = "ensure", !.at = r]]
  /\ Knows(r, Noticed(mon[r]))
  /\ NoFault /\ UNCHANGED <<stores, reading, life>>

-------------------------------------------------------------------------------
(* Before a challenger is served or run: ensure_synced.                    *)

\* What j may do when m is what its replica knows.
Proceeds(j, m) ==
  IF setup.paired
  THEN /\ Goes(j, IF ~Blocked(m) /\ Spent(m) < Cap THEN "run" ELSE "done")
       /\ UNCHANGED served
  ELSE /\ Goes(j, "done")
       /\ served' = [served EXCEPT ![job[j].asks] =
                       [at |-> job[j].at,
                        arm |-> IF Blocked(m) THEN "incumbent" ELSE "challenger"]]

\* There is no log, or the last sync is within SYNC_STALENESS_BOUND: of one that was
\* made, either may be.
EnsureFresh(j) ==
  /\ job[j].pc = "ensure"
  /\ LET m == mon[job[j].at] IN (~setup.logged \/ m.sync = "synced") /\ Proceeds(j, m)
  /\ NoFault /\ UNCHANGED <<mon, table, log, claims, reading, life>>

EnsureRead(j) ==
  /\ job[j].pc = "ensure" /\ setup.logged
  /\ job' = [job EXCEPT ![j].pc = "ensuring", ![j].upto = Len(log)]
  /\ NoFault /\ UNCHANGED <<mon, stores, reading, life>>

\* Mutant: what the replica knew before it read decides.
EnsureSyncedTooLate(j) ==
  /\ job[j].pc = "ensuring"
  /\ LET r == job[j].at
         m == Synced(mon[r], job[j].upto, Me(r)) IN
     /\ Knows(r, m) /\ Proceeds(j, mon[r])
  /\ NoFault /\ UNCHANGED <<table, log, claims, reading, life>>
EnsureSynced(j) ==
  /\ job[j].pc = "ensuring"
  /\ LET r == job[j].at
         m == Synced(mon[r], job[j].upto, Me(r)) IN
     /\ Knows(r, m) /\ Proceeds(j, m)
  /\ NoFault /\ UNCHANGED <<table, log, claims, reading, life>>

\* The log cannot be read, or was not a moment ago: the incumbent serves, and an
\* evaluation is skipped.
EnsureFails(j) ==
  /\ job[j].pc \in {"ensure", "ensuring"} /\ setup.logged /\ Goes(j, "done") /\ Fault
  /\ served' = IF setup.paired THEN served
               ELSE [served EXCEPT ![job[j].asks] = [at |-> job[j].at, arm |-> "incumbent"]]
  /\ UNCHANGED <<mon, table, log, claims, reading, life>>

\* The challenger has answered: debited here, whatever becomes of the evidence.
RunPaired(j) ==
  /\ job[j].pc = "run"
  /\ \E x \in -1..1 :
       job' = [job EXCEPT ![j].pc = IF setup.logged THEN "append" ELSE "row",
                          ![j].item = Item(j, "pair", x, job[j].at)]
  /\ mon' = [mon EXCEPT ![job[j].at].debited[j] = @ + 1]
  /\ NoFault /\ UNCHANGED <<stores, reading, life>>

-------------------------------------------------------------------------------
(* Evidence: record_outcome, record_pair.                                  *)

\* A failed claim reads as one that another replica made.
Claim(j) ==
  /\ job[j].pc = "claim"
  /\ LET s == job[j].item.id IN
     \/ s \notin claims /\ claims' = claims \cup {s} /\ Goes(j, "append") /\ NoFault
     \/ s \in claims /\ UNCHANGED claims /\ Goes(j, "done") /\ NoFault
     \/ Fault /\ claims' \in {claims, claims \cup {s}} /\ Goes(j, "done")
  /\ UNCHANGED <<mon, table, log, served, reading, life>>

\* Mutant: an outcome is counted here as soon as it is in the log.
AppendCounting(j) ==
  /\ job[j].pc = "append" /\ log' = Append(log, job[j].item) /\ Goes(j, "read")
  /\ Knows(job[j].at, CountedHere(mon[job[j].at], job[j].item)) /\ NoFault
  /\ UNCHANGED <<table, claims, served, reading, life>>
\* An append that fails may yet have been applied.  An outcome then counts here
\* only; a pair has to wait for its row.
AppendRecord(j) ==
  /\ job[j].pc = "append"
  /\ LET r == job[j].at
         e == job[j].item IN
     \/ /\ log' = Append(log, e) /\ Goes(j, "read") /\ NoFault
        /\ UNCHANGED mon
     \/ /\ log' \in {log, Append(log, e)} /\ Fault
        /\ IF setup.paired THEN Goes(j, "row") /\ UNCHANGED mon
                           ELSE Goes(j, "done") /\ Knows(r, CountedHere(mon[r], e))
  /\ UNCHANGED <<table, claims, served, reading, life>>

\* What was appended is read back.  When that fails, a pair counts here at once.
ReadBack(j) ==
  /\ job[j].pc = "read"
  /\ LET r == job[j].at IN
     \/ /\ job' = [job EXCEPT ![j].pc = "synced", ![j].upto = Len(log)]
        /\ NoFault /\ UNCHANGED mon
     \/ /\ Fault
        /\ IF setup.paired THEN Goes(j, "cache") /\ Knows(r, CountedHere(mon[r], job[j].item))
                           ELSE Goes(j, "done") /\ UNCHANGED mon
  /\ UNCHANGED <<stores, reading, life>>

ApplyRead(j) ==
  /\ job[j].pc = "synced" /\ Goes(j, IF setup.paired THEN "cache" ELSE "done")
  /\ LET r == job[j].at IN
     /\ Knows(r, Synced(mon[r], job[j].upto, Me(r)))
  /\ NoFault /\ UNCHANGED <<stores, reading, life>>

Row(e, inLog) == [item |-> e, inLog |-> inLog]
Stores(r, row) == table' = [table EXCEPT ![r].rows = Append(@, row)]

\* The row of a pair that is in the log may fail to be written: the log has it.
WriteInLogRow(j) ==
  /\ job[j].pc = "cache" /\ Goes(j, "done")
  /\ \/ Stores(job[j].at, Row(job[j].item, TRUE)) /\ NoFault
     \/ Fault /\ UNCHANGED table
  /\ UNCHANGED <<mon, log, claims, served, reading, life>>

\* Mutant: the pair counts before its row is written.
WriteRowLast(j) ==
  /\ job[j].pc = "row" /\ Goes(j, "cache")
  /\ Knows(job[j].at, CountedHere(mon[job[j].at], job[j].item))
  /\ NoFault /\ UNCHANGED <<stores, reading, life>>
\* The row of one that is not comes first, and the pair does not count without.
WriteRow(j) ==
  /\ job[j].pc = "row"
  /\ \/ Stores(job[j].at, Row(job[j].item, FALSE)) /\ Goes(j, "count") /\ NoFault
     \/ Fault /\ Goes(j, "done") /\ UNCHANGED table
  /\ UNCHANGED <<mon, log, claims, served, reading, life>>

Count(j) ==
  /\ job[j].pc = "count" /\ Goes(j, "done")
  /\ Knows(job[j].at, CountedHere(mon[job[j].at], job[j].item))
  /\ NoFault /\ UNCHANGED <<stores, reading, life>>

-------------------------------------------------------------------------------
(* Background sync, time and restarts.                                     *)

\* Mutant: the log is read in the background until something came of it.
SyncReadUntilSome(r) ==
  /\ setup.logged /\ reading[r] = None /\ mon[r].sync # "none" /\ mon[r].offset = 0
  /\ reading' = [reading EXCEPT ![r] = Len(log)]
  /\ NoFault /\ UNCHANGED <<mon, stores, job, life>>
\* start_sync_task: every experiment in the map, again and again.  (A read that
\* fails changes nothing but the cooldown.)
SyncRead(r) ==
  /\ setup.logged /\ reading[r] = None /\ mon[r].sync # "none"
  /\ mon[r].offset < Len(log) \/ mon[r].sync = "known"
  /\ reading' = [reading EXCEPT ![r] = Len(log)]
  /\ NoFault /\ UNCHANGED <<mon, stores, job, life>>

SyncApply(r) ==
  /\ reading[r] # None
  /\ Knows(r, Synced(mon[r], reading[r], Me(r)))
  /\ reading' = [reading EXCEPT ![r] = None]
  /\ NoFault /\ UNCHANGED <<stores, job, life>>

\* monitor_from_traces, build_paired_ledger: what a replica's own tables tell it.
Replayed(r) ==
  LET kept == {i \in 1..Len(table[r].rows) : ~(setup.logged /\ table[r].rows[i].inLog)}
      rows == Pick(table[r].rows, kept)
      items == table[r].reports \o [i \in 1..Len(rows) |-> rows[i].item] IN
  [evidence |-> Pick(items, New(<<>>, items, 1, Len(items))),
   debited |-> [s \in Subject |-> IF \E i \in 1..Len(rows) : rows[i].item.id = s THEN 1 ELSE 0],
   offset |-> 0,
   sync |-> IF \/ table[r].reports # <<>> \/ table[r].rows # <<>>
               \/ \E s \in Subject, arm \in Arm : served[s] = [at |-> r, arm |-> arm]
            THEN "known" ELSE "none",
   blind |-> FALSE, unread |-> {}]

\* The monitor and the ledger each read the tables.  A monitor that could not blocks
\* the challenger until the next start; a ledger that could not starts empty.
Rebuilt(r, whole, seeded) ==
  LET m == Replayed(r) IN
  [(IF whole THEN m ELSE [Blank EXCEPT !.blind = TRUE]) EXCEPT
     !.debited = IF seeded THEN m.debited ELSE Blank.debited,
     !.unread = IF seeded THEN {} ELSE {s \in Subject : m.debited[s] = 1}]

Restart(r) ==
  /\ restarts < setup.restarts /\ restarts' = restarts + 1 /\ UNCHANGED setup
  /\ life' = [life EXCEPT ![r] = @ + 1]
  /\ \E whole \in BOOLEAN, seeded \in IF setup.paired THEN BOOLEAN ELSE {TRUE} :
       /\ Knows(r, Rebuilt(r, whole, seeded))
       /\ IF whole /\ seeded THEN UNCHANGED faults
                             ELSE faults < setup.faults /\ faults' = faults + 1
  /\ job' = [j \in Job |-> IF job[j].at = r THEN Done ELSE job[j]]
  /\ reading' = [reading EXCEPT ![r] = None]
  /\ UNCHANGED stores

-------------------------------------------------------------------------------
Works(j) ==
  \/ EnsureFresh(j) \/ EnsureRead(j) \/ EnsureSynced(j) \/ RunPaired(j) \/ Claim(j)
  \/ AppendRecord(j) \/ ReadBack(j) \/ ApplyRead(j) \/ WriteInLogRow(j) \/ WriteRow(j)
  \/ Count(j)

Next ==
  \/ \E s \in Subject, r \in setup.replicas :
       ServeIncumbent(s, r) \/ \E j \in Job : AskChallenger(j, s, r)
  \/ \E j \in Job, s \in Subject, x \in 0..1 : Report(j, s, x)
  \/ \E j \in Job, r \in setup.replicas : Spawn(j, r)
  \/ \E j \in Job : Works(j) \/ EnsureFails(j)
  \/ \E r \in setup.replicas : SyncRead(r) \/ SyncApply(r) \/ Restart(r)

Spec == Init /\ [][Next]_vars

\* The interval timer ticks for ever.
FairSpec == Spec /\ \A r \in Replica : WF_vars(SyncRead(r)) /\ WF_vars(SyncApply(r))

-------------------------------------------------------------------------------
(* Properties.                                                             *)

Held(r) == mon[r].evidence

\* "Apply-once": however an append, a read and a restart interleave, a replica counts
\* no session and no pair twice.
CountedOnce ==
  \A r \in Replica : \A i, k \in 1..Len(Held(r)) : i < k => Held(r)[i].id # Held(r)[k].id

\* "Evidence without a durable record could mislead a halt": what a replica has
\* counted is in the log or in its own tables.
EvidenceIsDurable ==
  \A r \in Replica : \A i \in 1..Len(Held(r)) :
    LET id == Held(r)[i].id IN
    \/ Known(log, id) \/ Known(table[r].reports, id)
    \/ \E k \in 1..Len(table[r].rows) : table[r].rows[k].item.id = id

\* The daily cap is the cluster's, across restarts: no evaluation is debited twice by
\* a replica that may spend, and one it has read of, or has a row of, is debited, but for
\* rows that its last start could not read.
SpendCountedOnce ==
  \A r \in Replica : ~mon[r].blind =>
    LET read == {log[i].id : i \in 1..mon[r].offset}
        rows == {table[r].rows[k].item.id : k \in 1..Len(table[r].rows)} IN
    \A s \in Subject :
      /\ mon[r].debited[s] <= 1
      /\ setup.paired /\ s \in (read \cup {id \in rows : ~Known(log, id)}) \ mon[r].unread =>
           mon[r].debited[s] = 1

\* With one log, nothing failed so far, and no reports replayed by a restart.
Canonical == setup.logged /\ faults = 0 /\ (restarts = 0 \/ setup.paired)

Record == [id : Subject, arm : Arm \cup {"pair"}, x : -1..1,
           by : {<<r, n>> : r \in Replica, n \in UNION {0..d.restarts : d \in Setups}}]
Shared == INSTANCE CanonicalLog WITH view <- [r \in Replica |-> Held(r)]

\* "All replicas holding the same log reach the same halt/certify decision": the
\* monitors implement CanonicalLog as long as nothing fails.
AgreesWithLog == [][Canonical' => [Shared!Next]_(Shared!vars)]_vars

\* Job j gets the challenger going, on a replica that has read of no halt.
Engages(j) ==
  \/ job[j].pc # "run" /\ job'[j].pc = "run"
  \/ job[j].asks # 0 /\ job'[j].pc = "done" /\ served'[job[j].asks].arm = "challenger"
SeesTheHalt(j) == Engages(j) => Status(SubSeq(log, 1, mon'[job[j].at].offset)) # "halted"

\* A replica does not use the challenger when what it has read of the log halts it, nor,
\* whatever fails, when its own history could not be read ("fails closed").
HaltHolds ==
  [][\A j \in Job : /\ Canonical' => SeesTheHalt(j)
                    /\ Engages(j) => ~mon'[job[j].at].blind]_vars

\* "A fresh replica cannot serve a challenger that another replica already halted"
\* (proxy.rs:2706), which a restarted one can.
FreshReplicaSeesTheHalt == [][\A j \in Job : SeesTheHalt(j)]_vars

\* "For a global halt across replicas set redis_url": a halt reaches every replica
\* that has anything to do with the experiment.
HaltReachesAll ==
  \A r \in Replica :
    (Status(log) = "halted" /\ mon[r].sync # "none")
      ~> (Blocked(mon[r]) \/ mon[r].sync = "none" \/ ~Canonical)
=============================================================================
