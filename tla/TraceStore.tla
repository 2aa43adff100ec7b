------------------------------ MODULE TraceStore ------------------------------
(***************************************************************************)
(* The receipts pipeline of crates/firstpass-proxy/src/store.rs and        *)
(* offer_trace (proxy.rs): request tasks offer sealed-once traces to a     *)
(* bounded channel; one blocking writer thread links each to the head of   *)
(* the chain and inserts it; in durable mode a full channel diverts the    *)
(* trace to a spill file, which the writer drains at startup and when it   *)
(* finds the channel empty.  The process may crash or stop and be started  *)
(* again on the same database and spill file.                              *)
(***************************************************************************)
EXTENDS Naturals, Sequences, FiniteSets

CONSTANTS
  Trace,        \* the traces the requests produce, each offered once
  Cap,          \* TRACE_CHANNEL_CAP
  Modes,        \* the receipts modes a process may be configured with: durable or not
  MaxRestarts,  \* bound on process lifetimes after the first
  MaxFaults,    \* bound on failed disk and SQLite operations and on crashes inside one
  Garbage       \* a spill line that is not the JSON of a trace

ASSUME CapAssumption == Cap \in Nat \ {0}
ASSUME ModeAssumption == Modes \subseteq BOOLEAN /\ Modes # {}
ASSUME BoundAssumption == MaxRestarts \in Nat /\ MaxFaults \in Nat
ASSUME GarbageAssumption == Garbage \notin Trace

INSTANCE AuditChain WITH Payload <- Trace

VARIABLES
  phase,   \* "up"; "closing" once every sender is dropped; "down"
  req,     \* what became of each trace, as offer_trace reports it
  chan,    \* the mpsc channel
  spill,   \* the lines of <db_path>.spill.jsonl
  torn,    \* the last spill line lacks its newline
  db,      \* the rows of table traces, in seq order
  wpc,     \* where the writer thread is
  head,    \* the writer's in-memory chain head
  left,    \* spill lines read by the drain and not processed yet
  back,    \* where the writer goes after the drain
  acc,     \* history: traces in the order the pipeline accepted them
  durable, \* the receipts mode of this process (ReceiptsMode::Durable)
  cuts,    \* history: crashes in the middle of a spill append
  restarts, faults

vars == <<phase, req, chan, spill, torn, db, wpc, head, left, back, acc,
          durable, cuts, restarts, faults>>
writerVars == <<wpc, head, left, back>>
diskVars == <<spill, torn, db>>
process == <<durable, cuts, restarts>>
bounds == <<process, faults>>

-------------------------------------------------------------------------------
Outcome == {"idle", "full", "sent", "spilled", "dropped", "cut", "lost"}
WriterPc == {"load", "recv", "fast", "drain", "truncate", "gone"}
Accepted == [trace : Trace, via : {"channel", "spill"}]

\* The spill mutex: the writer holds it for a whole drain.
SpillLocked == wpc \in {"drain", "truncate"}

MayFail == cuts + faults < MaxFaults
Fault == MayFail /\ faults' = faults + 1
NoFault == UNCHANGED faults

Stored(t) == \E i \in 1..Len(db) : db[i].payload = t
InSpill(t) == \E i \in 1..Len(spill) : spill[i] = t
InChannel(t) == \E i \in 1..Len(chan) : chan[i] = t

Init ==
  /\ phase = "up"
  /\ req = [t \in Trace |-> "idle"]
  /\ chan = <<>>
  /\ spill = <<>> /\ torn = FALSE /\ db = <<>>
  /\ wpc = "load" /\ head = Genesis /\ left = <<>> /\ back = "recv"
  /\ acc = <<>>
  /\ durable \in Modes /\ cuts = 0 /\ restarts = 0 /\ faults = 0

-------------------------------------------------------------------------------
(* Request tasks: offer_trace and append_to_spill.                         *)

Becomes(t, outcome) == req' = [req EXCEPT ![t] = outcome]
Accept(t, via) == acc' = Append(acc, [trace |-> t, via |-> via])

\* Mutant: an unbounded channel.
OfferSentUnbounded(t) ==
  /\ phase = "up" /\ req[t] = "idle" /\ wpc # "gone"
  /\ chan' = Append(chan, t)
  /\ Becomes(t, "sent") /\ Accept(t, "channel")
  /\ UNCHANGED <<phase, diskVars, writerVars, bounds>>

\* try_send succeeds.
OfferSent(t) ==
  /\ phase = "up" /\ req[t] = "idle"
  /\ wpc # "gone" /\ Len(chan) < Cap
  /\ chan' = Append(chan, t)
  /\ Becomes(t, "sent") /\ Accept(t, "channel")
  /\ UNCHANGED <<phase, diskVars, writerVars, bounds>>

\* TrySendError::Full: durable mode goes on to the spill file, best-effort drops.
OfferFull(t) ==
  /\ phase = "up" /\ req[t] = "idle"
  /\ wpc # "gone" /\ Len(chan) >= Cap
  /\ Becomes(t, IF durable THEN "full" ELSE "dropped")
  /\ UNCHANGED <<phase, chan, diskVars, writerVars, acc, bounds>>

\* TrySendError::Closed: the writer thread has returned; dropped in both modes.
OfferClosed(t) ==
  /\ phase = "up" /\ req[t] = "idle"
  /\ wpc = "gone"
  /\ Becomes(t, "dropped")
  /\ UNCHANGED <<phase, chan, diskVars, writerVars, acc, bounds>>

\* A new line after an unterminated one joins it: neither parses any more.
WithLine(line) ==
  IF torn THEN [spill EXCEPT ![Len(spill)] = Garbage] ELSE Append(spill, line)

\* Mutant: the spill mutex is not held across the drain.
AppendToSpillUnlocked(t) ==
  /\ phase = "up" /\ req[t] = "full"
  /\ spill' = WithLine(t) /\ torn' = FALSE
  /\ Becomes(t, "spilled") /\ Accept(t, "spill")
  /\ UNCHANGED <<phase, chan, db, writerVars, bounds>>

\* writeln! and sync_data both succeed.
AppendToSpill(t) ==
  /\ phase = "up" /\ req[t] = "full" /\ ~SpillLocked
  /\ spill' = WithLine(t) /\ torn' = FALSE
  /\ Becomes(t, "spilled") /\ Accept(t, "spill")
  /\ UNCHANGED <<phase, chan, db, writerVars, bounds>>

\* writeln! or sync_data fails, after writing nothing, part of the line, all of
\* it without the newline, or all of it: the task reports the trace lost.
AppendToSpillFails(t) ==
  /\ phase = "up" /\ req[t] = "full" /\ ~SpillLocked
  /\ Fault
  /\ \/ UNCHANGED <<spill, torn>>
     \/ spill' = WithLine(Garbage) /\ torn' = TRUE
     \/ spill' = WithLine(t) /\ torn' = TRUE
     \/ spill' = WithLine(t) /\ torn' = FALSE
  /\ Becomes(t, "dropped")
  /\ UNCHANGED <<phase, chan, db, writerVars, acc, process>>

-------------------------------------------------------------------------------
(* The writer thread: writer_loop, write_trace, drain_spill.               *)

\* write_trace: link to the head, hash, insert; a failed hash or insert skips
\* the trace and leaves the head where it was.
WriteTrace(t) ==
  \/ /\ db' = Append(db, Seal(t, head))
     /\ head' = RecordHash(Seal(t, head))
     /\ NoFault
  \/ Fault /\ UNCHANGED <<db, head>>

\* drain_spill up to reading the lines.  An empty file returns at once, and so
\* does a failed seek; otherwise the mutex stays held until the truncation.
EnterDrain(after) ==
  \/ /\ spill = <<>> /\ NoFault
     /\ wpc' = after /\ UNCHANGED <<left, back>>
  \/ /\ spill # <<>> /\ NoFault
     /\ wpc' = "drain" /\ left' = spill /\ back' = after
  \/ /\ Fault /\ wpc' = after /\ UNCHANGED <<left, back>>

\* In best-effort mode there is no spill handle and nothing to drain.
DrainThen(after) ==
  IF durable THEN EnterDrain(after)
  ELSE wpc' = after /\ NoFault /\ UNCHANGED <<left, back>>

\* Mutant: every process starts a chain of its own.
LoadHeadGenesis ==
  /\ phase \in {"up", "closing"} /\ wpc = "load"
  /\ head' = Genesis
  /\ DrainThen("recv")
  /\ UNCHANGED <<phase, req, chan, diskVars, acc, process>>

\* current_head, then the startup drain.
LoadHead ==
  /\ phase \in {"up", "closing"} /\ wpc = "load"
  /\ head' = HeadOf(db)
  /\ DrainThen("recv")
  /\ UNCHANGED <<phase, req, chan, diskVars, acc, process>>

\* current_head fails: the writer returns, and dropping rx closes the channel.
LoadHeadFails ==
  /\ phase \in {"up", "closing"} /\ wpc = "load"
  /\ Fault
  /\ wpc' = "gone" /\ chan' = <<>>
  /\ req' = [t \in Trace |-> IF InChannel(t) THEN "lost" ELSE req[t]]
  /\ UNCHANGED <<phase, diskVars, head, left, back, acc, process>>

\* blocking_recv or try_recv yields a trace.
Receive ==
  /\ wpc \in {"recv", "fast"} /\ chan # <<>>
  /\ WriteTrace(Head(chan))
  /\ chan' = Tail(chan)
  /\ wpc' = "fast"
  /\ UNCHANGED <<phase, req, spill, torn, left, back, acc, process>>

\* Mutant: an empty channel is waited on without a drain.
FoundEmptyNoDrain ==
  /\ wpc = "fast" /\ chan = <<>> /\ phase = "up"
  /\ wpc' = "recv"
  /\ UNCHANGED <<phase, req, chan, diskVars, head, left, back, acc, bounds>>

\* try_recv yields Empty: drain, then block on the channel again.
FoundEmpty ==
  /\ wpc = "fast" /\ chan = <<>> /\ phase = "up"
  /\ DrainThen("recv")
  /\ UNCHANGED <<phase, req, chan, diskVars, head, acc, process>>

\* Mutant: the writer returns as soon as the senders are gone.
FoundDisconnectedEarly ==
  /\ wpc = "fast" /\ phase = "closing"
  /\ wpc' = "gone"
  /\ UNCHANGED <<phase, req, chan, diskVars, head, left, back, acc, bounds>>

\* try_recv yields Disconnected: the loop returns, past the final drain.
FoundDisconnected ==
  /\ wpc = "fast" /\ chan = <<>> /\ phase = "closing"
  /\ wpc' = "gone"
  /\ UNCHANGED <<phase, req, chan, diskVars, head, left, back, acc, bounds>>

\* blocking_recv yields None: the final drain, then return.
FoundClosed ==
  /\ wpc = "recv" /\ chan = <<>> /\ phase = "closing"
  /\ DrainThen("gone")
  /\ UNCHANGED <<phase, req, chan, diskVars, head, acc, process>>

\* Mutant: the drain works from the end of the file.
DrainLineBackwards ==
  /\ wpc = "drain"
  /\ LET line == left[Len(left)] IN
       \/ line = Garbage /\ UNCHANGED <<db, head, faults>>
       \/ line # Garbage /\ WriteTrace(line)
  /\ left' = SubSeq(left, 1, Len(left) - 1)
  /\ wpc' = IF Len(left) = 1 THEN "truncate" ELSE "drain"
  /\ UNCHANGED <<phase, req, chan, spill, torn, back, acc, process>>

\* One line of the drain; a line that does not parse is skipped.
DrainLine ==
  /\ wpc = "drain"
  /\ \/ Head(left) = Garbage /\ UNCHANGED <<db, head, faults>>
     \/ Head(left) # Garbage /\ WriteTrace(Head(left))
  /\ left' = Tail(left)
  /\ wpc' = IF Len(left) = 1 THEN "truncate" ELSE "drain"
  /\ UNCHANGED <<phase, req, chan, spill, torn, back, acc, process>>

\* Mutant: a drained file is not truncated.
TruncateForgotten ==
  /\ wpc = "truncate" /\ wpc' = back
  /\ UNCHANGED <<phase, req, chan, diskVars, head, left, back, acc, bounds>>

\* set_len(0) and release of the mutex; a failed seek or set_len leaves the file.
Truncate ==
  /\ wpc = "truncate"
  /\ \/ spill' = <<>> /\ torn' = FALSE /\ NoFault
     \/ Fault /\ UNCHANGED <<spill, torn>>
  /\ wpc' = back
  /\ UNCHANGED <<phase, req, chan, db, head, left, back, acc, process>>

-------------------------------------------------------------------------------
(* The process: graceful shutdown, crash and start.                        *)

\* serve returns and the last AppState is dropped: no task is inside offer_trace.
CloseSenders ==
  /\ phase = "up" /\ \A t \in Trace : req[t] # "full"
  /\ phase' = "closing"
  /\ UNCHANGED <<req, chan, diskVars, writerVars, acc, bounds>>

\* What dies with the process: the channel and the tasks inside offer_trace, one of
\* which may hold the spill mutex (writing).
Perish(writing) ==
  /\ phase' = "down" /\ chan' = <<>> /\ wpc' = "gone" /\ left' = <<>>
  /\ req' = [t \in Trace |->
               IF t \in writing THEN "cut"
               ELSE IF req[t] = "full" \/ InChannel(t) THEN "lost"
               ELSE req[t]]

Crash ==
  /\ phase # "down" /\ restarts < MaxRestarts
  /\ Perish({})
  /\ UNCHANGED <<diskVars, head, back, acc, bounds>>

\* A crash inside an append, whose writeln! writes the line and its newline one
\* after the other: what is left is part of the line, all of it without the
\* newline, or all of it, of a trace nobody acknowledged.  (Nothing is left: Crash.)
CrashInAppend(t) ==
  /\ phase # "down" /\ restarts < MaxRestarts /\ MayFail
  /\ req[t] = "full" /\ ~SpillLocked
  /\ Perish({t})
  /\ \/ spill' = WithLine(Garbage) /\ torn' = TRUE
     \/ spill' = WithLine(t) /\ torn' = TRUE
     \/ spill' = WithLine(t) /\ torn' = FALSE
  /\ cuts' = cuts + 1
  /\ UNCHANGED <<db, head, back, acc, durable, restarts, faults>>

\* The runtime waits for the blocking writer thread, then the process ends.
Exit ==
  /\ phase = "closing" /\ wpc = "gone" /\ restarts < MaxRestarts
  /\ phase' = "down" /\ chan' = <<>>
  /\ UNCHANGED <<req, diskVars, writerVars, acc, bounds>>

\* open_with_receipts: a new channel, a new writer thread, the same files, and
\* perhaps another mode.
Start ==
  /\ phase = "down"
  /\ phase' = "up" /\ wpc' = "load" /\ restarts' = restarts + 1
  /\ durable' \in Modes
  /\ UNCHANGED <<req, chan, diskVars, head, left, back, acc, cuts, faults>>

-------------------------------------------------------------------------------
Writer ==
  LoadHead \/ LoadHeadFails \/ Receive \/ FoundEmpty \/ FoundDisconnected
    \/ FoundClosed \/ DrainLine \/ Truncate

Task(t) ==
  OfferSent(t) \/ OfferFull(t) \/ OfferClosed(t) \/ AppendToSpill(t)
    \/ AppendToSpillFails(t)

Process ==
  CloseSenders \/ Crash \/ (\E t \in Trace : CrashInAppend(t)) \/ Exit \/ Start

Next == Writer \/ Process \/ \E t \in Trace : Task(t)

Spec == Init /\ [][Next]_vars

\* The writer has a thread of its own, and a task past try_send runs to its end.
\* Neither offering a trace nor stopping the process is ever promised.
FairSpec ==
  /\ Spec
  /\ WF_vars(Writer)
  /\ \A t \in Trace : WF_vars(AppendToSpill(t))

-------------------------------------------------------------------------------
(* Properties.                                                             *)

\* Types; the channel never outgrows its capacity (TRACE_CHANNEL_CAP, "so a wedged
\* writer can't OOM the process").
TypeOK ==
  /\ phase \in {"up", "closing", "down"}
  /\ req \in [Trace -> Outcome]
  /\ chan \in Seq(Trace) /\ Len(chan) <= Cap
  /\ spill \in Seq(Trace \cup {Garbage}) /\ torn \in BOOLEAN
  /\ db \in Seq(Record)
  /\ wpc \in WriterPc /\ back \in {"recv", "gone"}
  /\ head \in Digest
  /\ left \in Seq(Trace \cup {Garbage})
  /\ acc \in Seq(Accepted)
  /\ durable \in BOOLEAN
  /\ cuts \in Nat /\ restarts \in 0..MaxRestarts /\ faults \in 0..MaxFaults

\* The stored chain always verifies, whatever crashed, failed or was replayed
\* (store.rs: one writer task, "the hash chain stays append-only and valid").
ChainVerifies == Verifies(db)

\* Durable mode's promise, and its price: an acknowledged spill is in the file or in
\* the table at every instant, except for at most one trace for every write that
\* failed and every crash that cut an append short (the next line joins the torn
\* one, does not parse, and is truncated away by the drain).
Lost == {t \in Trace : req[t] = "spilled" /\ ~InSpill(t) /\ ~Stored(t)}
SpillNeverLost == Cardinality(Lost) <= cuts + faults

\* A trace the channel took is in the channel or in the table unless the process
\* died under it, or a write failed (offer_trace reports nothing more about it).
SentAccountedFor ==
  faults = 0 => \A t \in Trace : req[t] = "sent" => InChannel(t) \/ Stored(t)

Rows(t) == {i \in 1..Len(db) : db[i].payload = t}

\* A trace has two rows only by a replay of the spill file: a channel trace never
\* has, and one written to the file only if a crash or a failed truncation kept its line.
DuplicatesOnlyByReplay ==
  \A t \in Trace : Cardinality(Rows(t)) > 1 =>
    /\ req[t] \in {"spilled", "dropped", "cut"}
    /\ restarts + faults > 0

First(t) == CHOOSE i \in Rows(t) : \A j \in Rows(t) : i <= j

\* Among traces that took the same way, chain order is acceptance order, even
\* when a replay repeats some (FIFO channel, spill file read in file order).  No
\* write has failed.
SameWayInOrder ==
  faults = 0 =>
  \A i, j \in 1..Len(acc) :
    /\ i < j
    /\ acc[i].via = acc[j].via
    /\ Stored(acc[i].trace) /\ Stored(acc[j].trace)
    => First(acc[i].trace) < First(acc[j].trace)

\* "Channel closed: one final spill drain" (store.rs:362): the writer returns on a
\* closed channel only with the spill file drained.
ClosedMeansDrained == phase = "closing" /\ wpc = "gone" => spill = <<>>

\* While the process stays up and no write fails, a trace the channel took reaches
\* the table.
SentEventuallyStored ==
  \A t \in Trace : req[t] = "sent" ~> Stored(t) \/ phase = "down" \/ faults > 0

Idle == wpc = "recv" /\ chan = <<>>

\* While the process stays up and no write fails, an acknowledged line in the spill
\* file of durable mode reaches the table once the writer is awake or has something to
\* receive (it drains when it next finds the channel empty).
SpillDrainedByAwakeWriter ==
  \A t \in Trace :
    req[t] = "spilled" /\ InSpill(t) /\ durable /\ ~Idle
      ~> Stored(t) \/ phase # "up" \/ faults > 0

\* While disk and database do not fail, the pipeline is the log it promises to be:
\* nothing durable is forgotten but what a crash left without its line end,
\* nothing is recorded that was not accepted or cut short.
ElementsOf(s) == {s[i] : i \in 1..Len(s)}
LastLine == {spill[i] : i \in {j \in 1..Len(spill) : j = Len(spill)}}

Promise == INSTANCE ReceiptLog WITH
  Receipt <- Trace,
  log <- [i \in 1..Len(db) |-> db[i].payload],
  owed <- ElementsOf(chan) \cup (ElementsOf(spill) \ {Garbage}),
  durable <- ElementsOf(spill) \ {Garbage},
  ragged <- torn,
  loose <- IF torn THEN LastLine \ {Garbage} ELSE {}

KeepsPromise ==
  /\ Promise!LogInit
  /\ [][faults' = 0 => [Promise!LogNext]_(Promise!logVars)]_vars
===============================================================================
