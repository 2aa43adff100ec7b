--------------------------- MODULE TraceStoreProofs ---------------------------
(* The receipts pipeline, for every capacity, mode, set of traces and bound. *)
EXTENDS TraceStore, SequenceTheorems, FiniteSetTheorems, TLAPS

\* The head of any stored chain is a digest.
LEMMA HeadIsDigest ==
  ASSUME NEW chain \in Seq(Record)
  PROVE  HeadOf(chain) \in Digest
<1>1. CASE chain = <<>>
  BY <1>1 DEF HeadOf, Digest, Genesis
<1>2. CASE chain # <<>>
  <2>1. chain[Len(chain)] \in Record
    BY <1>2
  <2>2. chain[Len(chain)].prev \in Seq(Trace) /\ chain[Len(chain)].payload \in Trace
    BY <2>1 DEF Record, Digest
  <2> QED BY <1>2, <2>2 DEF HeadOf, RecordHash, Digest
<1> QED BY <1>1, <1>2

\* Linking a record to the head of a chain that verifies leaves one that verifies,
\* and its hash is the new head (write_trace).
LEMMA SealExtends ==
  ASSUME NEW chain \in Seq(Record), NEW t \in Trace, Verifies(chain)
  PROVE  LET rec == Seal(t, HeadOf(chain)) IN
         /\ rec \in Record
         /\ Append(chain, rec) \in Seq(Record)
         /\ Verifies(Append(chain, rec))
         /\ HeadOf(Append(chain, rec)) = RecordHash(rec)
         /\ RecordHash(rec) \in Digest
<1> DEFINE rec == Seal(t, HeadOf(chain))
           longer == Append(chain, rec)
<1>1. HeadOf(chain) \in Digest
  BY HeadIsDigest
<1>2. rec \in Record /\ longer \in Seq(Record)
  BY <1>1 DEF Seal, Record
<1>3. Len(longer) = Len(chain) + 1 /\ longer[Len(longer)] = rec
      /\ \A i \in 1..Len(chain) : longer[i] = chain[i]
  BY <1>2
<1>4. rec.prev = HeadOf(chain) /\ rec.payload = t
  BY DEF Seal
<1>5. ASSUME NEW i \in 1..Len(longer)
      PROVE  longer[i].prev = ExpectedPrev(longer, i)
  <2>1. CASE i \in 1..Len(chain)
    BY <2>1, <1>3 DEF Verifies, ExpectedPrev
  <2>2. CASE i = Len(chain) + 1 /\ chain = <<>>
    BY <2>2, <1>3, <1>4 DEF ExpectedPrev, HeadOf
  <2>3. CASE i = Len(chain) + 1 /\ chain # <<>>
    BY <2>3, <1>3, <1>4 DEF ExpectedPrev, HeadOf
  <2> QED BY <2>1, <2>2, <2>3, <1>3
<1>6. HeadOf(longer) = RecordHash(rec)
  BY <1>2, <1>3 DEF HeadOf
<1>7. RecordHash(rec) \in Digest
  BY <1>1, <1>4 DEF RecordHash, Digest
<1> QED BY <1>2, <1>5, <1>6, <1>7 DEF Verifies

-------------------------------------------------------------------------------
(* Type correctness and the chain, proved together.                        *)

\* Between loading the head and returning, the writer's in-memory head is the hash
\* of the last row.
HeadIsCurrent == wpc \notin {"load", "gone"} => head = HeadOf(db)

\* The writer only drains, and only truncates, with lines and a place to go back to.
DrainHasLines == wpc = "drain" => left # <<>>

\* A process that is down may be started within the bound.
RestartLeft == phase = "down" => restarts < MaxRestarts

ChainInv == TypeOK /\ ChainVerifies /\ HeadIsCurrent /\ DrainHasLines /\ RestartLeft
\* write_trace from a current head leaves a chain that verifies and a current head.
LEMMA WriteKeepsChain ==
  ASSUME ChainInv, wpc \notin {"load", "gone"}, NEW t \in Trace, WriteTrace(t)
  PROVE  /\ db' \in Seq(Record) /\ head' \in Digest
         /\ faults' \in 0..MaxFaults
         /\ Verifies(db') /\ head' = HeadOf(db')
<1>1. db \in Seq(Record) /\ Verifies(db) /\ head = HeadOf(db) /\ head \in Digest
      /\ faults \in 0..MaxFaults /\ cuts \in Nat
  BY DEF ChainInv, TypeOK, ChainVerifies, HeadIsCurrent
<1>2. CASE db' = Append(db, Seal(t, head)) /\ head' = RecordHash(Seal(t, head)) /\ NoFault
  <2>1. faults' = faults
    BY <1>2 DEF NoFault
  <2> QED BY <1>1, <1>2, <2>1, SealExtends
<1>3. CASE Fault /\ UNCHANGED <<db, head>>
  <2>1. faults' \in 0..MaxFaults
    BY <1>1, <1>3, BoundAssumption DEF Fault, MayFail
  <2> QED BY <1>1, <1>3, <2>1
<1> QED BY <1>2, <1>3 DEF WriteTrace

\* Entering a drain takes the lines of a file that has some, or skips the drain.
LEMMA DrainThenTypes ==
  ASSUME TypeOK, NEW after \in {"recv", "gone"}, DrainThen(after)
  PROVE  /\ wpc' \in {after, "drain"}
         /\ left' \in Seq(Trace \cup {Garbage}) /\ back' \in {"recv", "gone"}
         /\ wpc' = "drain" => left' # <<>>
         /\ faults' \in 0..MaxFaults
<1>1. /\ spill \in Seq(Trace \cup {Garbage}) /\ left \in Seq(Trace \cup {Garbage})
      /\ back \in {"recv", "gone"} /\ faults \in 0..MaxFaults /\ cuts \in Nat
  BY DEF TypeOK
<1>2. CASE durable
  BY <1>1, <1>2, BoundAssumption DEF DrainThen, EnterDrain, Fault, NoFault, MayFail
<1>3. CASE ~durable
  BY <1>1, <1>3 DEF DrainThen, NoFault
<1> QED BY <1>2, <1>3

\* A new spill line leaves a sequence of lines, one of them at least.
LEMMA WithLineTypes ==
  ASSUME TypeOK, NEW line \in Trace \cup {Garbage}
  PROVE  WithLine(line) \in Seq(Trace \cup {Garbage})
<1>1. spill \in Seq(Trace \cup {Garbage})
  BY DEF TypeOK
<1>2. CASE torn
  <2> DEFINE joined == [spill EXCEPT ![Len(spill)] = Garbage]
  <2>1. spill \in [1..Len(spill) -> Trace \cup {Garbage}] /\ Len(spill) \in Nat
    BY <1>1
  <2>2. joined \in [1..Len(spill) -> Trace \cup {Garbage}]
    BY <2>1
  <2>3. joined \in Seq(Trace \cup {Garbage})
    BY <2>1, <2>2, IsASeq
  <2> QED BY <1>2, <2>3 DEF WithLine
<1>3. CASE ~torn
  BY <1>1, <1>3 DEF WithLine
<1> QED BY <1>2, <1>3

\* No step of a request task disturbs the chain (offer_trace, append_to_spill).
LEMMA TaskKeepsChainInv ==
  ASSUME ChainInv, NEW t \in Trace, Task(t)
  PROVE  ChainInv'
<1> USE DEF ChainInv, TypeOK, diskVars, writerVars, bounds, process, Becomes, Accept, Outcome, Accepted
<1>1. ASSUME UNCHANGED <<db, wpc, head, left, back, phase, durable, cuts, restarts>>
      PROVE  /\ (ChainVerifies /\ HeadIsCurrent /\ DrainHasLines /\ RestartLeft)'
             /\ db' \in Seq(Record)
  BY <1>1 DEF ChainVerifies, HeadIsCurrent, DrainHasLines, RestartLeft
<1>2. CASE OfferSent(t)
  BY <1>1, <1>2, CapAssumption DEF OfferSent
<1>3. CASE OfferFull(t)
  BY <1>1, <1>3 DEF OfferFull
<1>4. CASE OfferClosed(t)
  BY <1>1, <1>4 DEF OfferClosed
<1>5. CASE AppendToSpill(t)
  <2>1. spill' \in Seq(Trace \cup {Garbage})
    BY <1>5, WithLineTypes DEF AppendToSpill
  <2>2. req' \in [Trace -> Outcome] /\ acc' \in Seq(Accepted)
    BY <1>5 DEF AppendToSpill
  <2>3. torn' \in BOOLEAN /\ UNCHANGED <<phase, chan, db, wpc, head, left, back, durable, cuts, restarts, faults>>
    BY <1>5 DEF AppendToSpill
  <2> QED BY <1>1, <2>1, <2>2, <2>3
<1>6. CASE AppendToSpillFails(t)
  <2>1. spill' \in Seq(Trace \cup {Garbage}) /\ torn' \in BOOLEAN
    BY <1>6, WithLineTypes DEF AppendToSpillFails
  <2> QED BY <1>1, <1>6, <2>1, BoundAssumption DEF AppendToSpillFails, Fault, MayFail
<1> QED BY <1>2, <1>3, <1>4, <1>5, <1>6 DEF Task

\* No step of the writer thread does (writer_loop, write_trace, drain_spill).
LEMMA WriterKeepsChainInv ==
  ASSUME ChainInv, Writer
  PROVE  ChainInv'
<1> USE DEF TypeOK, diskVars, bounds, process, WriterPc
<1>1. CASE LoadHead
  <2>1. head' \in Digest
    BY <1>1, HeadIsDigest DEF LoadHead, ChainInv
  <2>2. DrainThen("recv")
    BY <1>1 DEF LoadHead
  <2> QED BY <1>1, <2>1, <2>2, DrainThenTypes
          DEF LoadHead, ChainInv, ChainVerifies, HeadIsCurrent, DrainHasLines, RestartLeft
<1>2. CASE LoadHeadFails
  BY <1>2, BoundAssumption, CapAssumption
     DEF LoadHeadFails, Fault, MayFail, Outcome, ChainInv, ChainVerifies,
         HeadIsCurrent, DrainHasLines, RestartLeft
<1>3. CASE Receive
  <2>1. Head(chan) \in Trace /\ Tail(chan) \in Seq(Trace) /\ Len(Tail(chan)) <= Cap
    BY <1>3, CapAssumption DEF Receive, ChainInv
  <2>2. /\ db' \in Seq(Record) /\ head' \in Digest /\ faults' \in 0..MaxFaults
        /\ Verifies(db') /\ head' = HeadOf(db')
    <3>1. wpc \notin {"load", "gone"} /\ WriteTrace(Head(chan))
      BY <1>3 DEF Receive
    <3> QED BY <2>1, <3>1, WriteKeepsChain
  <2>3. TypeOK'
    BY <1>3, <2>1, <2>2 DEF Receive, ChainInv
  <2> QED BY <1>3, <2>2, <2>3
          DEF Receive, ChainInv, ChainVerifies, HeadIsCurrent, DrainHasLines, RestartLeft
<1>4. CASE FoundEmpty
  <2>1. DrainThen("recv")
    BY <1>4 DEF FoundEmpty
  <2> QED BY <1>4, <2>1, DrainThenTypes
          DEF FoundEmpty, ChainInv, ChainVerifies, HeadIsCurrent, DrainHasLines, RestartLeft
<1>5. CASE FoundDisconnected
  BY <1>5 DEF FoundDisconnected, ChainInv, ChainVerifies, HeadIsCurrent, DrainHasLines, RestartLeft
<1>6. CASE FoundClosed
  <2>1. DrainThen("gone")
    BY <1>6 DEF FoundClosed
  <2> QED BY <1>6, <2>1, DrainThenTypes
          DEF FoundClosed, ChainInv, ChainVerifies, HeadIsCurrent, DrainHasLines, RestartLeft
<1>7. CASE DrainLine
  <2>1. left # <<>> /\ Head(left) \in Trace \cup {Garbage}
        /\ Tail(left) \in Seq(Trace \cup {Garbage}) /\ Len(Tail(left)) = Len(left) - 1
    BY <1>7 DEF DrainLine, ChainInv, DrainHasLines
  <2>2. /\ db' \in Seq(Record) /\ head' \in Digest /\ faults' \in 0..MaxFaults
        /\ Verifies(db') /\ head' = HeadOf(db')
    <3>1. CASE Head(left) = Garbage
      BY <1>7, <3>1, GarbageAssumption
         DEF DrainLine, ChainInv, ChainVerifies, HeadIsCurrent
    <3>2. CASE Head(left) # Garbage
      <4>1. wpc \notin {"load", "gone"} /\ WriteTrace(Head(left)) /\ Head(left) \in Trace
        BY <1>7, <2>1, <3>2 DEF DrainLine
      <4> QED BY <4>1, WriteKeepsChain
    <3> QED BY <3>1, <3>2
  <2>3. wpc' = "drain" => left' # <<>>
    <3>1. CASE Len(left) = 1
      BY <1>7, <3>1 DEF DrainLine
    <3>2. CASE Len(left) # 1
      <4>1. Len(left) \in Nat /\ Len(left) # 0
        BY <2>1, EmptySeq DEF ChainInv
      <4>2. Len(left') # 0
        BY <1>7, <2>1, <3>2, <4>1 DEF DrainLine
      <4> QED BY <4>2
    <3> QED BY <3>1, <3>2
  <2>4. TypeOK'
    BY <1>7, <2>1, <2>2 DEF DrainLine, ChainInv
  <2>5. RestartLeft'
    BY <1>7 DEF DrainLine, ChainInv, RestartLeft
  <2> QED BY <2>2, <2>3, <2>4, <2>5 DEF ChainInv, ChainVerifies, HeadIsCurrent, DrainHasLines, RestartLeft
<1>8. CASE Truncate
  <2>1. spill' \in Seq(Trace \cup {Garbage}) /\ torn' \in BOOLEAN /\ faults' \in 0..MaxFaults
    <3>1. CASE spill' = <<>> /\ torn' = FALSE /\ NoFault
      BY <3>1, EmptySeq DEF NoFault, ChainInv
    <3>2. CASE Fault /\ UNCHANGED <<spill, torn>>
      BY <3>2, BoundAssumption DEF Fault, MayFail, ChainInv
    <3> QED BY <1>8, <3>1, <3>2 DEF Truncate
  <2>2. wpc' \in WriterPc
    BY <1>8 DEF Truncate, ChainInv
  <2>3. TypeOK'
    BY <1>8, <2>1, <2>2 DEF Truncate, ChainInv
  <2> QED BY <1>8, <2>3
          DEF Truncate, ChainInv, ChainVerifies, HeadIsCurrent, DrainHasLines, RestartLeft
<1> QED BY <1>1, <1>2, <1>3, <1>4, <1>5, <1>6, <1>7, <1>8 DEF Writer

\* Nor does a shutdown, a crash or a start of the process.
LEMMA ProcessKeepsChainInv ==
  ASSUME ChainInv, Process
  PROVE  ChainInv'
<1> USE DEF ChainInv, TypeOK, ChainVerifies, HeadIsCurrent, DrainHasLines, RestartLeft,
            diskVars, writerVars, bounds, process, WriterPc
<1>1. CASE CloseSenders
  BY <1>1 DEF CloseSenders
<1>2. CASE Crash
  <2>1. req' \in [Trace -> Outcome]
    BY <1>2 DEF Crash, Perish, Outcome
  <2>2. /\ chan' \in Seq(Trace) /\ Len(chan') <= Cap
        /\ left' \in Seq(Trace \cup {Garbage})
    BY <1>2, CapAssumption DEF Crash, Perish
  <2>3. phase' = "down" /\ wpc' = "gone" /\ restarts < MaxRestarts
        /\ UNCHANGED <<spill, torn, db, head, back, acc, durable, cuts, restarts, faults>>
    BY <1>2 DEF Crash, Perish
  <2> QED BY <2>1, <2>2, <2>3
<1>5. ASSUME NEW t \in Trace, CrashInAppend(t) PROVE ChainInv'
  <2>1. req' \in [Trace -> Outcome]
    BY <1>5 DEF CrashInAppend, Perish, Outcome
  <2>2. /\ chan' \in Seq(Trace) /\ Len(chan') <= Cap
        /\ left' \in Seq(Trace \cup {Garbage})
    BY <1>5, CapAssumption DEF CrashInAppend, Perish
  <2>3. spill' \in Seq(Trace \cup {Garbage}) /\ torn' \in BOOLEAN
    BY <1>5, WithLineTypes DEF CrashInAppend
  <2>4. phase' = "down" /\ wpc' = "gone" /\ restarts < MaxRestarts /\ cuts' = cuts + 1
        /\ UNCHANGED <<db, head, back, acc, durable, restarts, faults>>
    BY <1>5 DEF CrashInAppend, Perish
  <2> QED BY <2>1, <2>2, <2>3, <2>4
<1>3. CASE Exit
  BY <1>3, CapAssumption DEF Exit
<1>4. CASE Start
  BY <1>4, BoundAssumption, ModeAssumption DEF Start
<1> QED BY <1>1, <1>2, <1>3, <1>4, <1>5 DEF Process

\* The inductive invariant: the rows link up, the writer's head is the hash of the
\* last row whenever it may write (writer_loop's one in-memory head), a drain in
\* progress has lines left, and every process after a stop is within the bound.
THEOREM ChainInvariant == Spec => []ChainInv
<1>1. Init => ChainInv
  <2> SUFFICES ASSUME Init PROVE ChainInv
    OBVIOUS
  <2>1. /\ chan \in Seq(Trace) /\ Len(chan) = 0 /\ spill \in Seq(Trace \cup {Garbage})
        /\ db \in Seq(Record) /\ Len(db) = 0 /\ head \in Digest
        /\ left \in Seq(Trace \cup {Garbage}) /\ acc \in Seq(Accepted)
    BY EmptySeq DEF Init, Genesis, Digest
  <2>2. /\ Len(chan) <= Cap /\ durable \in BOOLEAN /\ cuts \in Nat
        /\ restarts \in 0..MaxRestarts /\ faults \in 0..MaxFaults
    BY <2>1, CapAssumption, BoundAssumption, ModeAssumption DEF Init
  <2>3. req \in [Trace -> Outcome] /\ wpc \in WriterPc
    BY DEF Init, Outcome, WriterPc
  <2>4. TypeOK
    BY <2>1, <2>2, <2>3 DEF Init, TypeOK
  <2> QED BY <2>1, <2>4
          DEF Init, ChainInv, ChainVerifies, HeadIsCurrent, DrainHasLines, RestartLeft,
              Verifies
<1>2. ChainInv /\ [Next]_vars => ChainInv'
  <2> SUFFICES ASSUME ChainInv, [Next]_vars PROVE ChainInv'
    OBVIOUS
  <2>1. CASE Writer
    BY <2>1, WriterKeepsChainInv
  <2>2. CASE Process
    BY <2>2, ProcessKeepsChainInv
  <2>3. ASSUME NEW t \in Trace, Task(t) PROVE ChainInv'
    BY <2>3, TaskKeepsChainInv
  <2>4. CASE UNCHANGED vars
    BY <2>4 DEF vars, ChainInv, TypeOK, ChainVerifies, HeadIsCurrent, DrainHasLines,
                RestartLeft
  <2> QED BY <2>1, <2>2, <2>3, <2>4 DEF Next
<1> QED BY <1>1, <1>2, PTL DEF Spec

\* Every variable keeps its type and the channel its bound, in every mode and under
\* every fault the model has (bounded memory, store.rs TRACE_CHANNEL_CAP).
THEOREM TypeCorrect == Spec => []TypeOK
BY ChainInvariant, PTL DEF ChainInv

\* The stored chain verifies at every instant, over any number of restarts and
\* failed operations (store.rs: a single writer links every record).
THEOREM ChainAlwaysVerifies == Spec => []ChainVerifies
BY ChainInvariant, PTL DEF ChainInv

-------------------------------------------------------------------------------
(* Acknowledged spills, whatever fails and wherever a crash falls.         *)

InLeft(t) == \E i \in 1..Len(left) : left[i] = t

\* The acknowledged traces the pipeline will never store, or may not: in neither file nor
\* table, or passed by a drain that may be about to truncate the file.
Doomed ==
  {t \in Trace : /\ req[t] = "spilled" /\ ~Stored(t)
                 /\ ~(IF SpillLocked THEN InLeft(t) ELSE InSpill(t))}

\* A torn last line is of no acknowledged trace: whoever wrote it was told of a failure,
\* or of nothing at all.
TornTail ==
  torn => /\ spill # <<>>
          /\ \A t \in Trace : spill[Len(spill)] = t => req[t] # "spilled"

\* A drain works on lines of the file, and truncates it at the last.
DrainReads ==
  /\ SpillLocked => \A t \in Trace : InLeft(t) => InSpill(t)
  /\ wpc = "truncate" => left = <<>>

\* Each doomed trace, and a torn line waiting for its victim, was paid for.
One(b) == IF b THEN 1 ELSE 0

FewDoomed ==
  /\ IsFiniteSet(Doomed)
  /\ Cardinality(Doomed) + One(torn) <= cuts + faults

CountInv == TornTail /\ DrainReads /\ FewDoomed

\* A set that gains at most one member.
LEMMA OneMore ==
  ASSUME NEW S, IsFiniteSet(S), NEW x, NEW T, T \subseteq S \cup {x}
  PROVE  /\ IsFiniteSet(T) /\ Cardinality(S) \in Nat /\ Cardinality(T) \in Nat
         /\ Cardinality(T) <= Cardinality(S) + 1
<1>1. /\ IsFiniteSet(S \cup {x}) /\ Cardinality(S) \in Nat
      /\ Cardinality(S \cup {x}) <= Cardinality(S) + 1
  <2>1. Cardinality(S) \in Nat
    BY FS_CardinalityType
  <2>2. /\ IsFiniteSet(S \cup {x})
        /\ Cardinality(S \cup {x}) = Cardinality(S) \/ Cardinality(S \cup {x}) = Cardinality(S) + 1
    BY FS_AddElement
  <2> QED BY <2>1, <2>2
<1>2. /\ IsFiniteSet(T) /\ Cardinality(T) <= Cardinality(S \cup {x})
  BY <1>1, FS_Subset
<1>3. Cardinality(T) \in Nat /\ Cardinality(S \cup {x}) \in Nat
  BY <1>1, <1>2, FS_CardinalityType
<1> QED BY <1>1, <1>2, <1>3

\* The account of the doomed: c of them and a torn line or not for n, then d of them
\* and a torn line or not for m.
LEMMA PaidFor ==
  ASSUME NEW c \in Nat, NEW d \in Nat, NEW n \in Nat, NEW m \in Nat,
         NEW b \in BOOLEAN, NEW e \in BOOLEAN, c + One(b) <= n,
         \/ d <= c /\ n <= m /\ (e => b \/ m = n + 1)
         \/ d <= c + 1 /\ m = n + 1 /\ (e => b)
         \/ d <= c + 1 /\ m = n /\ b /\ ~e
  PROVE  d + One(e) <= m
<1>1. CASE b /\ e
  BY <1>1 DEF One
<1>2. CASE b /\ ~e
  BY <1>2 DEF One
<1>3. CASE ~b /\ e
  BY <1>3 DEF One
<1>4. CASE ~b /\ ~e
  BY <1>4 DEF One
<1> QED BY <1>1, <1>2, <1>3, <1>4

LEMMA SumIsNat == ASSUME NEW a \in Nat, NEW b \in Nat PROVE a + b \in Nat
OBVIOUS

\* What has been paid is a number, before and after a step.
LEMMA PaymentIsNat ==
  ASSUME ChainInv, ChainInv'
  PROVE  cuts + faults \in Nat /\ cuts' + faults' \in Nat
<1>1. cuts \in Nat /\ faults \in Nat
  BY BoundAssumption DEF ChainInv, TypeOK
<1>2. cuts' \in Nat /\ faults' \in Nat
  BY BoundAssumption DEF ChainInv, TypeOK
<1>3. cuts + faults \in Nat
  BY <1>1
<1>4. cuts' + faults' \in Nat
  BY <1>2, SumIsNat
<1> QED BY <1>3, <1>4

\* The bound survives a step that dooms nobody and tears nothing for free.
LEMMA NoneDoomed ==
  ASSUME ChainInv, ChainInv', FewDoomed, Doomed' \subseteq Doomed,
         cuts + faults <= cuts' + faults',
         torn' => torn \/ cuts' + faults' = cuts + faults + 1
  PROVE  FewDoomed'
<1>0. torn \in BOOLEAN /\ torn' \in BOOLEAN
  BY DEF ChainInv, TypeOK
<1>1. cuts + faults \in Nat /\ cuts' + faults' \in Nat
  BY PaymentIsNat
<1>2. /\ IsFiniteSet(Doomed') /\ Cardinality(Doomed') <= Cardinality(Doomed)
      /\ Cardinality(Doomed) \in Nat /\ Cardinality(Doomed') \in Nat
  BY FS_Subset, FS_CardinalityType DEF FewDoomed
<1>3. Cardinality(Doomed) + One(torn) <= cuts + faults
  BY DEF FewDoomed
<1> DEFINE c == Cardinality(Doomed)
           d == Cardinality(Doomed')
           n == cuts + faults
           m == cuts' + faults'
<1>4. d + One(torn') <= m
  <2>1. /\ c \in Nat /\ d \in Nat /\ n \in Nat /\ m \in Nat /\ torn \in BOOLEAN /\ torn' \in BOOLEAN
        /\ c + One(torn) <= n
    BY <1>0, <1>1, <1>2, <1>3
  <2>2. d <= c /\ n <= m /\ (torn' => torn \/ m = n + 1)
    BY <1>1, <1>2
  <2> HIDE DEF c, d, n, m
  <2> QED BY <2>1, <2>2, PaidFor
<1> QED BY <1>2, <1>4 DEF FewDoomed

\* And one that dooms one, at the price of a failure or of the torn line.
LEMMA OneDoomed ==
  ASSUME ChainInv, ChainInv', FewDoomed, NEW t \in Trace, Doomed' \subseteq Doomed \cup {t},
         \/ cuts' + faults' = cuts + faults + 1 /\ (torn' => torn)
         \/ cuts' + faults' = cuts + faults /\ torn /\ ~torn'
  PROVE  FewDoomed'
<1>0. torn \in BOOLEAN /\ torn' \in BOOLEAN
  BY DEF ChainInv, TypeOK
<1>1. cuts + faults \in Nat /\ cuts' + faults' \in Nat
  BY PaymentIsNat
<1>2. /\ IsFiniteSet(Doomed') /\ Cardinality(Doomed) \in Nat /\ Cardinality(Doomed') \in Nat
      /\ Cardinality(Doomed') <= Cardinality(Doomed) + 1
  BY OneMore DEF FewDoomed
<1>3. Cardinality(Doomed) + One(torn) <= cuts + faults
  BY DEF FewDoomed
<1> DEFINE c == Cardinality(Doomed)
           d == Cardinality(Doomed')
           n == cuts + faults
           m == cuts' + faults'
<1>4. d + One(torn') <= m
  <2>1. /\ c \in Nat /\ d \in Nat /\ n \in Nat /\ m \in Nat /\ torn \in BOOLEAN /\ torn' \in BOOLEAN
        /\ c + One(torn) <= n
    BY <1>0, <1>1, <1>2, <1>3
  <2>2. \/ d <= c + 1 /\ m = n + 1 /\ (torn' => torn)
        \/ d <= c + 1 /\ m = n /\ torn /\ ~torn'
    BY <1>1, <1>2
  <2> HIDE DEF c, d, n, m
  <2> QED BY <2>1, <2>2, PaidFor
<1> QED BY <1>2, <1>4 DEF FewDoomed

\* Nothing but the drain and the appends touches the file or its lines, and nothing at
\* all takes a row back.
LEMMA OthersKeepCount ==
  ASSUME ChainInv, ChainInv', CountInv, spill' = spill, torn' = torn,
         cuts' = cuts, faults' \in {faults, faults + 1},
         \A t \in Trace : Stored(t) => Stored(t)',
         \A t \in Trace : req'[t] = "spilled" => req[t] = "spilled",
         SpillLocked' => left' = spill \/ (SpillLocked /\ left' = left),
         wpc' = "truncate" => wpc = "truncate" /\ left' = left
  PROVE  CountInv'
<1>0. cuts \in Nat /\ faults \in Nat
  BY BoundAssumption DEF ChainInv, TypeOK
<1>1. TornTail'
  BY DEF CountInv, TornTail
<1>2. \A t \in Trace : InSpill(t)' = InSpill(t)
  BY DEF InSpill
<1>3. \A t \in Trace : SpillLocked' => InLeft(t)' = InSpill(t) \/ (SpillLocked /\ InLeft(t)' = InLeft(t))
  BY DEF InLeft, InSpill
<1>4. DrainReads'
  BY <1>2, <1>3 DEF CountInv, DrainReads
<1>5. Doomed' \subseteq Doomed
  BY <1>2, <1>3 DEF Doomed, CountInv, DrainReads
<1>6. FewDoomed'
  BY <1>0, <1>5, NoneDoomed DEF CountInv
<1> QED BY <1>1, <1>4, <1>6 DEF CountInv

\* A row that is there stays; a trace is written unless a fault is counted.
LEMMA WriteStores ==
  ASSUME TypeOK, NEW t \in Trace, WriteTrace(t)
  PROVE  /\ Stored(t)' \/ faults' = faults + 1
         /\ faults' \in {faults, faults + 1}
         /\ \A u \in Trace : Stored(u) => Stored(u)'
<1>1. CASE db' = Append(db, Seal(t, head)) /\ NoFault
  <2>1. /\ db \in Seq(Record) /\ Len(db') = Len(db) + 1 /\ db'[Len(db')].payload = t
        /\ \A i \in 1..Len(db) : i \in 1..Len(db') /\ db'[i] = db[i]
        /\ Len(db') \in 1..Len(db')
    BY <1>1 DEF Seal, TypeOK
  <2> QED BY <1>1, <2>1 DEF Stored, NoFault
<1>2. CASE Fault /\ db' = db
  BY <1>2 DEF Stored, Fault
<1> QED BY <1>1, <1>2 DEF WriteTrace

\* What a line does to the file: it stands at its end, or joins a torn one as garbage.
LEMMA WithLineAdds ==
  ASSUME TypeOK, torn => spill # <<>>, NEW line \in Trace \cup {Garbage}, spill' = WithLine(line)
  PROVE  /\ Len(spill) \in Nat /\ Len(spill') \in Nat /\ spill' # <<>>
         /\ torn => /\ Len(spill') = Len(spill) /\ Len(spill) \in 1..Len(spill)
                    /\ spill'[Len(spill)] = Garbage
                    /\ \A i \in 1..Len(spill) : i # Len(spill) => spill'[i] = spill[i]
         /\ ~torn => /\ Len(spill') = Len(spill) + 1 /\ spill'[Len(spill) + 1] = line
                     /\ \A i \in 1..Len(spill) : spill'[i] = spill[i]
<1>1. spill \in Seq(Trace \cup {Garbage}) /\ Len(spill) \in Nat
  BY DEF TypeOK
<1>2. CASE torn
  <2>1. Len(spill) # 0
    BY <1>1, <1>2, EmptySeq
  <2>2. spill' = [spill EXCEPT ![Len(spill)] = Garbage]
    BY <1>2 DEF WithLine
  <2>3. /\ Len(spill') = Len(spill) /\ spill'[Len(spill)] = Garbage
        /\ \A i \in 1..Len(spill) : i # Len(spill) => spill'[i] = spill[i]
    BY <1>1, <2>1, <2>2
  <2> QED BY <1>1, <1>2, <2>1, <2>3
<1>3. CASE ~torn
  BY <1>1, <1>3 DEF WithLine
<1> QED BY <1>2, <1>3

\* An append that fails or is cut short dooms nobody yet: it may glue its line to one of
\* a trace that nobody acknowledged, and may leave a torn line of its own.
LEMMA CutAppendKeepsCount ==
  ASSUME ChainInv, ChainInv', CountInv, NEW t \in Trace, req[t] = "full",
         ~SpillLocked, ~SpillLocked', db' = db,
         \A u \in Trace : req'[u] = "spilled" => req[u] = "spilled",
         \/ spill' = spill /\ torn' = torn
         \/ \E line \in {t, Garbage} : spill' = WithLine(line),
         cuts' + faults' = cuts + faults + 1
  PROVE  CountInv'
<1>1. /\ cuts \in Nat /\ faults \in Nat /\ TypeOK
      /\ torn => spill # <<>>
  BY BoundAssumption DEF ChainInv, TypeOK, CountInv, TornTail
<1>2. DrainReads'
  BY DEF DrainReads, SpillLocked
<1>3. \A u \in Trace : Stored(u)' = Stored(u)
  BY DEF Stored
<1>4. CASE spill' = spill /\ torn' = torn
  <2>1. TornTail'
    BY <1>4 DEF CountInv, TornTail
  <2>2. \A u \in Trace : InSpill(u)' = InSpill(u)
    BY <1>4 DEF InSpill
  <2>3. Doomed' \subseteq Doomed
    BY <1>3, <2>2 DEF Doomed
  <2>4. FewDoomed'
    BY <1>1, <1>4, <2>3, NoneDoomed DEF CountInv
  <2> QED BY <1>2, <2>1, <2>4 DEF CountInv
<1>5. ASSUME NEW line \in {t, Garbage}, spill' = WithLine(line) PROVE CountInv'
  <2>1. /\ Len(spill) \in Nat /\ Len(spill') \in Nat /\ spill' # <<>>
        /\ torn => /\ Len(spill') = Len(spill) /\ Len(spill) \in 1..Len(spill)
                   /\ spill'[Len(spill)] = Garbage
                   /\ \A i \in 1..Len(spill) : i # Len(spill) => spill'[i] = spill[i]
        /\ ~torn => /\ Len(spill') = Len(spill) + 1 /\ spill'[Len(spill) + 1] = line
                    /\ \A i \in 1..Len(spill) : spill'[i] = spill[i]
    BY <1>1, <1>5, WithLineAdds
  <2>2. TornTail'
    <3>1. spill'[Len(spill')] \in {t, Garbage}
      BY <1>5, <2>1
    <3>2. req'[t] # "spilled"
      OBVIOUS
    <3> QED BY <2>1, <3>1, <3>2, GarbageAssumption DEF TornTail
  <2>3. ASSUME NEW u \in Trace, req[u] = "spilled", InSpill(u) PROVE InSpill(u)'
    <3>1. PICK i \in 1..Len(spill) : spill[i] = u
      BY <2>3 DEF InSpill
    <3>2. CASE torn
      <4>1. i # Len(spill)
        BY <2>3, <3>1, <3>2 DEF CountInv, TornTail
      <4>2. spill'[i] = u /\ i \in 1..Len(spill')
        BY <2>1, <3>1, <3>2, <4>1
      <4> QED BY <4>2 DEF InSpill
    <3>3. CASE ~torn
      <4>1. spill'[i] = u /\ i \in 1..Len(spill')
        BY <2>1, <3>1, <3>3
      <4> QED BY <4>1 DEF InSpill
    <3> QED BY <3>2, <3>3
  <2>4. Doomed' \subseteq Doomed
    BY <1>3, <2>3 DEF Doomed
  <2>5. FewDoomed'
    BY <1>1, <2>4, NoneDoomed DEF CountInv
  <2> QED BY <1>2, <2>2, <2>5 DEF CountInv
<1> QED BY <1>4, <1>5

\* A request task dooms a trace only by an append behind a torn line (append_to_spill).
LEMMA TaskKeepsCount ==
  ASSUME ChainInv, ChainInv', CountInv, NEW t \in Trace, Task(t)
  PROVE  CountInv'
<1> USE DEF diskVars, writerVars, bounds, process, Becomes
<1>1. TypeOK /\ req \in [Trace -> Outcome] /\ faults \in Nat /\ cuts \in Nat
  BY BoundAssumption DEF ChainInv, TypeOK
<1>2. ASSUME spill' = spill, torn' = torn, db' = db, wpc' = wpc, left' = left, cuts' = cuts,
             faults' = faults, req[t] = "idle", \A u \in Trace : u # t => req'[u] = req[u],
             req'[t] # "spilled"
      PROVE  CountInv'
  <2>1. \A u \in Trace : Stored(u) => Stored(u)'
    BY <1>2 DEF Stored
  <2> QED BY <1>2, <2>1, OthersKeepCount DEF SpillLocked
<1>3. CASE OfferSent(t)
  BY <1>1, <1>2, <1>3 DEF OfferSent
<1>4. CASE OfferFull(t)
  BY <1>1, <1>2, <1>4 DEF OfferFull
<1>5. CASE OfferClosed(t)
  BY <1>1, <1>2, <1>5 DEF OfferClosed
<1>6. CASE AppendToSpill(t)
  <2>1. /\ req[t] = "full" /\ ~SpillLocked /\ spill' = WithLine(t) /\ torn' = FALSE
        /\ req' = [req EXCEPT ![t] = "spilled"] /\ db' = db /\ wpc' = wpc /\ left' = left
        /\ cuts' = cuts /\ faults' = faults /\ ~SpillLocked'
    BY <1>6 DEF AppendToSpill, SpillLocked
  <2>2. TornTail' /\ DrainReads'
    BY <2>1 DEF TornTail, DrainReads, SpillLocked
  <2>3. \A u \in Trace : u # t => req'[u] = req[u]
    BY <1>1, <2>1
  <2>4. \A u \in Trace : Stored(u)' = Stored(u)
    BY <2>1 DEF Stored
  <2>5. /\ Len(spill) \in Nat /\ Len(spill') \in Nat /\ spill' # <<>>
        /\ torn => /\ Len(spill') = Len(spill) /\ Len(spill) \in 1..Len(spill)
                   /\ spill'[Len(spill)] = Garbage
                   /\ \A i \in 1..Len(spill) : i # Len(spill) => spill'[i] = spill[i]
        /\ ~torn => /\ Len(spill') = Len(spill) + 1 /\ spill'[Len(spill) + 1] = t
                    /\ \A i \in 1..Len(spill) : spill'[i] = spill[i]
    BY <1>1, <2>1, WithLineAdds DEF CountInv, TornTail
  <2>6. CASE torn
    <3>1. ASSUME NEW u \in Trace, req[u] = "spilled", InSpill(u) PROVE InSpill(u)'
      <4>1. PICK i \in 1..Len(spill) : spill[i] = u
        BY <3>1 DEF InSpill
      <4>2. i # Len(spill)
        BY <2>6, <3>1, <4>1 DEF CountInv, TornTail
      <4>3. spill'[i] = u /\ i \in 1..Len(spill')
        BY <2>5, <2>6, <4>1, <4>2
      <4> QED BY <4>3 DEF InSpill
    <3>2. Doomed' \subseteq Doomed \cup {t}
      BY <2>1, <2>3, <2>4, <3>1 DEF Doomed
    <3>3. FewDoomed'
      BY <1>1, <2>1, <2>6, <3>2, OneDoomed DEF CountInv
    <3> QED BY <2>2, <3>3 DEF CountInv
  <2>7. CASE ~torn
    <3>1. InSpill(t)' /\ \A u \in Trace : InSpill(u) => InSpill(u)'
      BY <2>5, <2>7 DEF InSpill
    <3>2. Doomed' \subseteq Doomed
      BY <2>1, <2>3, <2>4, <3>1 DEF Doomed
    <3>3. FewDoomed'
      BY <1>1, <2>1, <3>2, NoneDoomed DEF CountInv
    <3> QED BY <2>2, <3>3 DEF CountInv
  <2> QED BY <2>6, <2>7
<1>7. CASE AppendToSpillFails(t)
  <2>1. /\ req[t] = "full" /\ ~SpillLocked /\ ~SpillLocked' /\ db' = db
        /\ faults' = faults + 1 /\ cuts' = cuts /\ req' = [req EXCEPT ![t] = "dropped"]
    BY <1>7 DEF AppendToSpillFails, Fault, SpillLocked
  <2>2. \A u \in Trace : req'[u] = "spilled" => req[u] = "spilled"
    BY <1>1, <2>1
  <2>3. \/ spill' = spill /\ torn' = torn
        \/ \E line \in {t, Garbage} : spill' = WithLine(line)
    BY <1>7 DEF AppendToSpillFails
  <2>4. cuts' + faults' = cuts + faults + 1
    BY <1>1, <2>1
  <2> QED BY <2>1, <2>2, <2>3, <2>4, CutAppendKeepsCount
<1> QED BY <1>3, <1>4, <1>5, <1>6, <1>7 DEF Task

\* The writer dooms a trace only by an insert that fails in a drain (drain_spill).
LEMMA WriterKeepsCount ==
  ASSUME ChainInv, ChainInv', CountInv, Writer
  PROVE  CountInv'
<1> USE DEF diskVars, bounds, process
<1>1. TypeOK /\ faults \in Nat /\ cuts \in Nat /\ left \in Seq(Trace \cup {Garbage})
  BY BoundAssumption DEF ChainInv, TypeOK
<1>2. ASSUME NEW after \in {"recv", "gone"}, DrainThen(after), wpc \notin {"drain", "truncate"},
             req' = req, spill' = spill, torn' = torn, db' = db, cuts' = cuts
      PROVE  CountInv'
  <2>1. /\ wpc' = "drain" => left' = spill
        /\ wpc' \in {after, "drain"} /\ faults' \in {faults, faults + 1}
    BY <1>2 DEF DrainThen, EnterDrain, Fault, NoFault
  <2>2. \A u \in Trace : Stored(u) => Stored(u)'
    BY <1>2 DEF Stored
  <2> QED BY <1>2, <2>1, <2>2, OthersKeepCount DEF SpillLocked
<1>3. CASE LoadHead
  BY <1>2, <1>3 DEF LoadHead
<1>4. CASE FoundEmpty
  BY <1>2, <1>4 DEF FoundEmpty
<1>5. CASE FoundClosed
  BY <1>2, <1>5 DEF FoundClosed
<1>6. CASE LoadHeadFails
  <2>1. /\ spill' = spill /\ torn' = torn /\ db' = db /\ cuts' = cuts /\ faults' = faults + 1
        /\ wpc' = "gone" /\ left' = left
    BY <1>6 DEF LoadHeadFails, Fault
  <2>2. \A u \in Trace : Stored(u) => Stored(u)'
    BY <2>1 DEF Stored
  <2>3. \A u \in Trace : req'[u] = "spilled" => req[u] = "spilled"
    BY <1>6 DEF LoadHeadFails
  <2> QED BY <1>1, <2>1, <2>2, <2>3, OthersKeepCount DEF SpillLocked
<1>7. CASE Receive
  <2>1. Head(chan) \in Trace /\ WriteTrace(Head(chan))
    BY <1>1, <1>7 DEF Receive, TypeOK
  <2>2. faults' \in {faults, faults + 1} /\ \A u \in Trace : Stored(u) => Stored(u)'
    BY <1>1, <2>1, WriteStores
  <2> QED BY <1>7, <2>2, OthersKeepCount DEF Receive, SpillLocked
<1>8. CASE FoundDisconnected
  <2>1. \A u \in Trace : Stored(u) => Stored(u)'
    BY <1>8 DEF FoundDisconnected, Stored
  <2> QED BY <1>8, <2>1, OthersKeepCount DEF FoundDisconnected, SpillLocked
<1>9. CASE DrainLine
  <2>1. /\ left # <<>> /\ left' = Tail(left) /\ wpc = "drain" /\ spill' = spill /\ torn' = torn
        /\ req' = req /\ cuts' = cuts /\ (wpc' = IF Len(left) = 1 THEN "truncate" ELSE "drain")
    BY <1>9 DEF DrainLine, ChainInv, DrainHasLines
  <2>2. /\ Len(left) \in Nat /\ 1 \in 1..Len(left) /\ Head(left) = left[1] /\ Len(left') = Len(left) - 1
        /\ \A i \in 1..Len(left') : left'[i] = left[i + 1] /\ i + 1 \in 1..Len(left)
        /\ \A i \in 1..Len(left) : i = 1 \/ (i - 1 \in 1..Len(left') /\ left'[i - 1] = left[i])
    BY <1>1, <2>1, EmptySeq
  <2>3. \A u \in Trace : /\ InLeft(u)' => InLeft(u)
                         /\ InLeft(u) => InLeft(u)' \/ u = Head(left)
                         /\ InSpill(u)' = InSpill(u)
    BY <2>1, <2>2 DEF InLeft, InSpill
  <2>4. SpillLocked /\ SpillLocked'
    BY <2>1 DEF SpillLocked
  <2>5. DrainReads'
    <3>1. Len(left) = 1 => left' = <<>>
      BY <1>1, <2>1, <2>2, EmptySeq
    <3> QED BY <2>1, <2>3, <2>4, <3>1 DEF CountInv, DrainReads
  <2>6. TornTail'
    BY <2>1 DEF CountInv, TornTail
  <2>7. CASE Head(left) = Garbage
    <3>1. db' = db /\ faults' = faults
      BY <1>9, <2>7 DEF DrainLine
    <3>2. \A u \in Trace : Stored(u)' = Stored(u)
      BY <3>1 DEF Stored
    <3>3. Doomed' \subseteq Doomed
      BY <2>1, <2>3, <2>4, <2>7, <3>2, GarbageAssumption DEF Doomed
    <3>4. FewDoomed'
      BY <1>1, <2>1, <3>1, <3>3, NoneDoomed DEF CountInv
    <3> QED BY <2>5, <2>6, <3>4 DEF CountInv
  <2>8. CASE Head(left) # Garbage
    <3>1. PICK t \in Trace : t = Head(left) /\ WriteTrace(t)
      BY <1>1, <1>9, <2>1, <2>2, <2>8 DEF DrainLine
    <3>2. /\ Stored(t)' \/ faults' = faults + 1
          /\ faults' \in {faults, faults + 1}
          /\ \A u \in Trace : Stored(u) => Stored(u)'
      BY <1>1, <3>1, WriteStores
    <3>3. CASE Stored(t)'
      <4>1. Doomed' \subseteq Doomed
        <5>1. \A u \in Trace : InLeft(u) => InLeft(u)' \/ Stored(u)'
          BY <2>3, <3>1, <3>3
        <5> SUFFICES ASSUME NEW u \in Doomed' PROVE u \in Doomed
          OBVIOUS
        <5>2. u \in Trace /\ req'[u] = "spilled" /\ ~Stored(u)' /\ ~InLeft(u)'
          BY <2>4 DEF Doomed
        <5>3. req[u] = "spilled" /\ ~Stored(u) /\ ~InLeft(u)
          BY <2>1, <3>2, <5>1, <5>2
        <5> QED BY <2>4, <5>2, <5>3 DEF Doomed
      <4>2. cuts + faults <= cuts' + faults'
        <5>1. cuts' = cuts /\ faults' \in {faults, faults + 1}
          BY <2>1, <3>2
        <5>2. CASE faults' = faults
          BY <1>1, <5>1, <5>2
        <5>3. CASE faults' = faults + 1
          BY <1>1, <5>1, <5>3
        <5> QED BY <5>1, <5>2, <5>3
      <4>3. FewDoomed'
        BY <2>1, <4>1, <4>2, NoneDoomed DEF CountInv
      <4> QED BY <2>5, <2>6, <4>3 DEF CountInv
    <3>4. CASE faults' = faults + 1
      <4>1. Doomed' \subseteq Doomed \cup {t}
        BY <2>1, <2>3, <2>4, <3>1, <3>2 DEF Doomed
      <4>2. FewDoomed'
        BY <1>1, <2>1, <3>4, <4>1, OneDoomed DEF CountInv
      <4> QED BY <2>5, <2>6, <4>2 DEF CountInv
    <3> QED BY <3>2, <3>3, <3>4
  <2> QED BY <2>7, <2>8
<1>10. CASE Truncate
  <2>1. /\ wpc = "truncate" /\ wpc' \in {"recv", "gone"} /\ req' = req /\ db' = db
        /\ left' = left /\ cuts' = cuts /\ SpillLocked /\ ~SpillLocked'
    BY <1>1, <1>10 DEF Truncate, TypeOK, SpillLocked
  <2>2. \A u \in Trace : Stored(u)' = Stored(u) /\ ~InLeft(u)
    <3>1. Len(left) = 0
      BY <2>1 DEF CountInv, DrainReads
    <3> QED BY <2>1, <3>1 DEF Stored, InLeft
  <2>3. Doomed' \subseteq Doomed
    BY <2>1, <2>2 DEF Doomed
  <2>4. DrainReads'
    BY <2>1 DEF DrainReads, SpillLocked
  <2>5. CASE spill' = <<>> /\ torn' = FALSE /\ NoFault
    <3>1. FewDoomed'
      BY <1>1, <2>1, <2>3, <2>5, NoneDoomed DEF CountInv, NoFault
    <3> QED BY <2>4, <2>5, <3>1 DEF CountInv, TornTail
  <2>6. CASE Fault /\ UNCHANGED <<spill, torn>>
    <3>1. FewDoomed'
      BY <1>1, <2>1, <2>3, <2>6, NoneDoomed DEF CountInv, Fault
    <3>2. TornTail'
      BY <2>1, <2>6 DEF CountInv, TornTail
    <3> QED BY <2>4, <3>1, <3>2 DEF CountInv
  <2> QED BY <1>10, <2>5, <2>6 DEF Truncate
<1> QED BY <1>3, <1>4, <1>5, <1>6, <1>7, <1>8, <1>9, <1>10 DEF Writer

\* Stopping, crashing and starting doom nobody: the file and the table stay, and a drain
\* that is killed leaves its lines in the file.
LEMMA ProcessKeepsCount ==
  ASSUME ChainInv, ChainInv', CountInv, Process
  PROVE  CountInv'
<1> USE DEF diskVars, writerVars, bounds, process
<1>1. faults \in Nat /\ cuts \in Nat
  BY BoundAssumption DEF ChainInv, TypeOK
<1>2. ASSUME spill' = spill, torn' = torn, db' = db, cuts' = cuts, faults' = faults,
             \A t \in Trace : req'[t] = "spilled" => req[t] = "spilled",
             wpc' \in {"gone", "load"} \/ (wpc' = wpc /\ left' = left)
      PROVE  CountInv'
  <2>1. \A u \in Trace : Stored(u) => Stored(u)'
    BY <1>2 DEF Stored
  <2> QED BY <1>1, <1>2, <2>1, OthersKeepCount DEF SpillLocked
<1>3. CASE CloseSenders
  BY <1>2, <1>3 DEF CloseSenders
<1>4. CASE Crash
  <2>1. \A t \in Trace : req'[t] = "spilled" => req[t] = "spilled"
    BY <1>4 DEF Crash, Perish
  <2> QED BY <1>2, <1>4, <2>1 DEF Crash, Perish
<1>5. CASE Exit
  BY <1>2, <1>5 DEF Exit
<1>6. CASE Start
  BY <1>2, <1>6 DEF Start
<1>7. ASSUME NEW t \in Trace, CrashInAppend(t) PROVE CountInv'
  <2>1. /\ req[t] = "full" /\ ~SpillLocked /\ ~SpillLocked' /\ db' = db
        /\ cuts' = cuts + 1 /\ faults' = faults
    BY <1>7 DEF CrashInAppend, Perish, SpillLocked
  <2>2. \A u \in Trace : req'[u] = "spilled" => req[u] = "spilled"
    BY <1>7 DEF CrashInAppend, Perish
  <2>3. \E line \in {t, Garbage} : spill' = WithLine(line)
    BY <1>7 DEF CrashInAppend
  <2>4. cuts' + faults' = cuts + faults + 1
    BY <1>1, <2>1
  <2> QED BY <2>1, <2>2, <2>3, <2>4, CutAppendKeepsCount
<1> QED BY <1>3, <1>4, <1>5, <1>6, <1>7 DEF Process

LEMMA CountStarts == Init => CountInv
<1> SUFFICES ASSUME Init PROVE CountInv
  OBVIOUS
<1>1. torn = FALSE /\ wpc = "load" /\ cuts = 0 /\ faults = 0
  BY DEF Init
<1>2. Doomed = {}
  BY DEF Init, Doomed
<1>3. FewDoomed
  BY <1>1, <1>2, FS_EmptySet DEF FewDoomed, One
<1> QED BY <1>1, <1>3 DEF CountInv, TornTail, DrainReads, SpillLocked

LEMMA CountSteps ==
  ASSUME ChainInv, ChainInv', CountInv, [Next]_vars
  PROVE  CountInv'
<1>1. CASE Writer
  BY <1>1, WriterKeepsCount
<1>2. CASE Process
  BY <1>2, ProcessKeepsCount
<1>3. ASSUME NEW t \in Trace, Task(t) PROVE CountInv'
  BY <1>3, TaskKeepsCount
<1>4. CASE UNCHANGED vars
  <2>1. faults \in Nat
    BY BoundAssumption DEF ChainInv, TypeOK
  <2>2. \A u \in Trace : Stored(u) => Stored(u)'
    BY <1>4 DEF vars, Stored
  <2> QED BY <1>4, <2>1, <2>2, OthersKeepCount DEF vars, SpillLocked
<1> QED BY <1>1, <1>2, <1>3, <1>4 DEF Next

\* An acknowledged spill is in the file or in the table at every instant, across crashes at
\* any point of any append, drain or start, but for at most one trace per failed operation
\* and per crash that cut an append short: with neither, none is ever lost (durable mode).
THEOREM SpillSurvives == Spec => []SpillNeverLost
<1>1. Init => CountInv
  BY CountStarts
<1>2. ChainInv /\ ChainInv' /\ CountInv /\ [Next]_vars => CountInv'
  BY CountSteps
<1>3. ChainInv /\ CountInv => SpillNeverLost
  <2> SUFFICES ASSUME ChainInv, CountInv PROVE SpillNeverLost
    OBVIOUS
  <2>1. Lost \subseteq Doomed
    BY DEF Lost, Doomed, CountInv, DrainReads
  <2>2. /\ Cardinality(Lost) <= Cardinality(Doomed)
        /\ Cardinality(Lost) \in Nat /\ Cardinality(Doomed) \in Nat
    BY <2>1, FS_Subset, FS_CardinalityType DEF CountInv, FewDoomed
  <2>3. Cardinality(Doomed) + One(torn) <= cuts + faults
    BY DEF CountInv, FewDoomed
  <2>4. cuts + faults \in Nat
    BY BoundAssumption DEF ChainInv, TypeOK
  <2>5. Cardinality(Lost) <= cuts + faults
    <3> DEFINE c == Cardinality(Doomed)
               d == Cardinality(Lost)
    <3>1. c \in Nat /\ d \in Nat /\ d <= c /\ c + One(torn) <= cuts + faults
      BY <2>2, <2>3
    <3> HIDE DEF c, d
    <3>2. d <= cuts + faults
      BY <2>4, <3>1 DEF One
    <3> QED BY <3>2 DEF d
  <2> QED BY <2>5 DEF SpillNeverLost
<1> QED BY <1>1, <1>2, <1>3, ChainInvariant, PTL DEF Spec

-------------------------------------------------------------------------------
(* The promise, with a disk that does not fail.                            *)

\* What has failed stays counted, whichever step comes next.
LEMMA FaultsStay ==
  ASSUME ChainInv, [Next]_vars, faults' = 0
  PROVE  faults = 0
<1>1. faults \in Nat
  BY DEF ChainInv, TypeOK
<1>2. faults' = faults \/ faults' = faults + 1
  BY DEF Next, Writer, Process, Task, LoadHead, LoadHeadFails, Receive, FoundEmpty,
     FoundDisconnected, FoundClosed, DrainThen, EnterDrain, DrainLine, Truncate,
     OfferSent, OfferFull, OfferClosed, AppendToSpill, AppendToSpillFails, WriteTrace,
     CloseSenders, Crash, CrashInAppend, Exit, Start, Fault, NoFault, bounds, vars, diskVars,
     process, writerVars
<1> QED BY <1>1, <1>2

\* What is owed has been accepted, or cut short, and says so, and nothing is owed twice.
Tracked ==
  /\ \A t \in Trace : InChannel(t) => req[t] = "sent"
  /\ \A t \in Trace : InSpill(t) => req[t] \in {"spilled", "cut"}
  /\ \A t \in Trace : Stored(t) => req[t] \notin {"idle", "full"}
  /\ \A i, j \in 1..Len(chan) : chan[i] = chan[j] => i = j
  /\ \A i, j \in 1..Len(spill) : spill[i] = spill[j] /\ spill[i] \in Trace => i = j

\* The lines being drained: each is in the table or still ahead of the drain, and
\* all are in the table when the file is truncated.
DrainCovers ==
  /\ wpc = "drain" => \A t \in Trace : InSpill(t) => Stored(t) \/ InLeft(t)
  /\ wpc = "truncate" => \A t \in Trace : InSpill(t) => Stored(t)

PromiseInv == CountInv /\ Tracked /\ DrainCovers

Keeps == [Promise!LogNext]_(Promise!logVars)

\* Steps that touch neither channel nor file nor table.
LEMMA QuietKeeps ==
  ASSUME UNCHANGED <<chan, spill, torn, db>>
  PROVE  Keeps
BY DEF Keeps, Promise!logVars, ElementsOf, LastLine

\* The log after a row is added is the log with its payload.
LEMMA LogGrows ==
  ASSUME ChainInv, NEW t \in Trace, faults' = 0, WriteTrace(t)
  PROVE  LET log == [i \in 1..Len(db) |-> db[i].payload] IN
         /\ [i \in 1..Len(db') |-> db'[i].payload] = Append(log, t)
         /\ \A u \in Trace : Stored(u)' <=> Stored(u) \/ u = t
<1> DEFINE log == [i \in 1..Len(db) |-> db[i].payload]
           new == [i \in 1..Len(db') |-> db'[i].payload]
<1>1. db' = Append(db, Seal(t, head)) /\ db \in Seq(Record)
  BY DEF WriteTrace, Fault, ChainInv, TypeOK
<1>2. Seal(t, head).payload = t
  BY DEF Seal
<1>3. /\ Len(db) \in Nat /\ Len(db') = Len(db) + 1 /\ db'[Len(db) + 1] = Seal(t, head)
      /\ \A i \in 1..Len(db) : db'[i] = db[i]
  BY <1>1
<1>4. \A i \in 1..Len(db) : db[i].payload \in Trace
  <2>1. \A i \in 1..Len(db) : db[i] \in Record
    BY <1>1
  <2> QED BY <2>1 DEF Record
<1>5. log \in Seq(Trace) /\ Len(log) = Len(db) /\ \A i \in 1..Len(db) : log[i] = db[i].payload
  <2>1. log \in [1..Len(db) -> Trace]
    BY <1>4
  <2> QED BY <1>3, <2>1
<1>6. new = Append(log, t)
  <2>1. Append(log, t) \in Seq(Trace) /\ Len(Append(log, t)) = Len(db) + 1
        /\ Append(log, t)[Len(db) + 1] = t /\ \A i \in 1..Len(db) : Append(log, t)[i] = log[i]
    BY <1>5
  <2>2. new \in [1..(Len(db) + 1) -> Trace] /\ \A i \in 1..(Len(db) + 1) : new[i] = Append(log, t)[i]
    BY <1>2, <1>3, <1>4, <1>5, <2>1
  <2>3. new \in Seq(Trace) /\ Len(new) = Len(db) + 1
    BY <1>3, <2>2
  <2> HIDE DEF new, log
  <2> QED BY <1>3, <2>1, <2>2, <2>3, SeqEqual
<1>7. \A u \in Trace : Stored(u)' <=> Stored(u) \/ u = t
  BY <1>2, <1>3 DEF Stored
<1> QED BY <1>6, <1>7

\* What is tracked survives a step that adds no receipt anywhere and takes none back.
LEMMA OthersKeepTracked ==
  ASSUME Tracked, DrainCovers, UNCHANGED <<chan, spill, db>>,
         NEW kept \in SUBSET Trace,
         \A t \in kept : req'[t] = req[t],
         \A t \in Trace \ kept : ~InChannel(t) /\ ~InSpill(t) /\ ~Stored(t),
         wpc' = "drain" => (wpc = "drain" /\ left' = left) \/ left' = spill,
         wpc' = "truncate" => wpc = "truncate"
  PROVE  Tracked' /\ DrainCovers'
<1>1. chan' = chan /\ spill' = spill /\ db' = db
  OBVIOUS
<1>2. \A t : InChannel(t)' = InChannel(t) /\ InSpill(t)' = InSpill(t)
  BY <1>1 DEF InChannel, InSpill
<1>3. \A t : Stored(t)' = Stored(t)
  BY <1>1 DEF Stored
<1>4. ASSUME NEW t \in Trace
      PROVE  /\ InChannel(t) => req'[t] = "sent"
             /\ InSpill(t) => req'[t] \in {"spilled", "cut"}
             /\ Stored(t) => req'[t] \notin {"idle", "full"}
  <2>1. CASE t \in kept
    BY <2>1 DEF Tracked
  <2>2. CASE t \notin kept
    BY <2>2
  <2> QED BY <2>1, <2>2
<1>5. Tracked'
  BY <1>1, <1>2, <1>3, <1>4 DEF Tracked
<1>6. wpc' = "drain" => (wpc = "drain" /\ \A t : InLeft(t)' = InLeft(t)) \/ \A t : InLeft(t)' = InSpill(t)
  BY DEF InLeft, InSpill
<1>7. DrainCovers'
  BY <1>2, <1>3, <1>6 DEF DrainCovers
<1> QED BY <1>5, <1>7

\* The receipts of the file, as the abstract log reads them, and the loose one.
Lines == ElementsOf(spill) \ {Garbage}
LooseLine == IF torn THEN LastLine \ {Garbage} ELSE {}

LEMMA LinesAreInSpill ==
  ASSUME TypeOK
  PROVE  \A t : t \in Lines <=> t \in Trace /\ InSpill(t)
<1>1. \A i \in 1..Len(spill) : spill[i] \in Trace \cup {Garbage}
  BY DEF TypeOK
<1> QED BY <1>1, GarbageAssumption DEF Lines, ElementsOf, InSpill

\* A line put at a clean end adds its trace, if it has one; put at a torn one it takes the
\* loose receipt with it.
LEMMA WithLineLines ==
  ASSUME TypeOK, TornTail, Tracked, NEW line \in Trace \cup {Garbage}, spill' = WithLine(line)
  PROVE  /\ torn => /\ Lines' = Lines \ LooseLine /\ LastLine' = {Garbage}
                    /\ \A i, j \in 1..Len(spill') : spill'[i] = spill'[j] /\ spill'[i] \in Trace => i = j
         /\ ~torn => Lines' = Lines \cup ({line} \ {Garbage}) /\ LastLine' = {line}
<1>1. /\ Len(spill) \in Nat /\ Len(spill') \in Nat /\ spill' # <<>>
      /\ torn => /\ Len(spill') = Len(spill) /\ Len(spill) \in 1..Len(spill)
                 /\ spill'[Len(spill)] = Garbage
                 /\ \A i \in 1..Len(spill) : i # Len(spill) => spill'[i] = spill[i]
      /\ ~torn => /\ Len(spill') = Len(spill) + 1 /\ spill'[Len(spill) + 1] = line
                  /\ \A i \in 1..Len(spill) : spill'[i] = spill[i]
  BY WithLineAdds DEF TornTail
<1>2. \A i \in 1..Len(spill) : spill[i] \in Trace \cup {Garbage}
  BY DEF TypeOK
<1>3. ASSUME torn
      PROVE  /\ Lines' = Lines \ LooseLine /\ LastLine' = {Garbage}
             /\ \A i, j \in 1..Len(spill') : spill'[i] = spill'[j] /\ spill'[i] \in Trace => i = j
  <2> DEFINE n == Len(spill)
  <2>1. /\ n \in 1..n /\ Len(spill') = n /\ spill'[n] = Garbage
        /\ \A i \in 1..n : i # n => spill'[i] = spill[i]
    BY <1>1, <1>3
  <2>2. LastLine' = {Garbage}
    BY <2>1 DEF LastLine
  <2>3. LooseLine = {spill[n]} \ {Garbage}
    BY <1>3, <2>1 DEF LooseLine, LastLine
  <2>4. ASSUME NEW x \in Lines' PROVE x \in Lines \ LooseLine
    <3>1. PICK i \in 1..n : spill'[i] = x /\ x # Garbage
      BY <2>1 DEF Lines, ElementsOf
    <3>2. i # n /\ spill[i] = x /\ x \in Trace
      BY <1>2, <2>1, <3>1
    <3>3. x # spill[n]
      BY <2>1, <3>2 DEF Tracked
    <3> QED BY <2>3, <3>1, <3>2, <3>3 DEF Lines, ElementsOf
  <2>5. ASSUME NEW x \in Lines \ LooseLine PROVE x \in Lines'
    <3>1. PICK i \in 1..n : spill[i] = x /\ x # Garbage
      BY DEF Lines, ElementsOf
    <3>2. i # n /\ spill'[i] = x
      BY <2>1, <2>3, <3>1
    <3> QED BY <2>1, <3>1, <3>2 DEF Lines, ElementsOf
  <2>6. \A i, j \in 1..n : spill'[i] = spill'[j] /\ spill'[i] \in Trace => i = j
    BY <2>1, GarbageAssumption DEF Tracked
  <2> QED BY <2>1, <2>2, <2>4, <2>5, <2>6
<1>4. ASSUME ~torn
      PROVE  Lines' = Lines \cup ({line} \ {Garbage}) /\ LastLine' = {line}
  <2> DEFINE n == Len(spill)
  <2>1. /\ n \in Nat /\ Len(spill') = n + 1 /\ spill'[n + 1] = line
        /\ \A i \in 1..n : spill'[i] = spill[i]
    BY <1>1, <1>4
  <2>2. LastLine' = {line}
    BY <2>1 DEF LastLine
  <2>3. ElementsOf(spill') = ElementsOf(spill) \cup {line}
    BY <2>1 DEF ElementsOf
  <2>4. Lines' = ElementsOf(spill') \ {Garbage}
    BY DEF Lines, ElementsOf
  <2> QED BY <2>2, <2>3, <2>4 DEF Lines
<1> QED BY <1>3, <1>4

\* The payloads of the table, as the abstract log reads them.
LEMMA LoggedIsStored ==
  ASSUME TypeOK, NEW t
  PROVE  t \in Promise!Logged <=> Stored(t)
<1> DEFINE log == [i \in 1..Len(db) |-> db[i].payload]
<1>1. db \in Seq(Record) /\ Len(db) \in Nat
  BY DEF TypeOK
<1>2. \A i \in 1..Len(db) : db[i].payload \in Trace
  <2>1. \A i \in 1..Len(db) : db[i] \in Record
    BY <1>1
  <2> QED BY <2>1 DEF Record
<1>3. Len(log) = Len(db) /\ \A i \in 1..Len(db) : log[i] = db[i].payload
  <2>1. log \in [1..Len(db) -> Trace]
    BY <1>2
  <2> QED BY <1>1, <2>1
<1> QED BY <1>3 DEF Promise!Logged, Stored

\* What is in a sequence after one more, and after the first is taken.
LEMMA ElementsOfAppend ==
  ASSUME NEW S, NEW s \in Seq(S), NEW x \in S
  PROVE  ElementsOf(Append(s, x)) = ElementsOf(s) \cup {x}
<1>1. /\ Len(Append(s, x)) = Len(s) + 1 /\ Len(s) \in Nat
      /\ Append(s, x)[Len(s) + 1] = x
      /\ \A i \in 1..Len(s) : Append(s, x)[i] = s[i]
  OBVIOUS
<1> QED BY <1>1 DEF ElementsOf

LEMMA ElementsOfTail ==
  ASSUME NEW S, NEW s \in Seq(S), s # <<>>,
         \A i, j \in 1..Len(s) : s[i] = s[j] => i = j
  PROVE  /\ Head(s) \in ElementsOf(s)
         /\ ElementsOf(Tail(s)) = ElementsOf(s) \ {Head(s)}
         /\ \A i, j \in 1..Len(Tail(s)) : Tail(s)[i] = Tail(s)[j] => i = j
<1>1. /\ Len(s) \in Nat /\ Len(s) > 0 /\ Head(s) = s[1] /\ Len(Tail(s)) = Len(s) - 1
      /\ \A i \in 1..Len(Tail(s)) : Tail(s)[i] = s[i + 1]
  BY EmptySeq
<1>2. Head(s) \in ElementsOf(s)
  BY <1>1 DEF ElementsOf
<1>3. ASSUME NEW x \in ElementsOf(Tail(s)) PROVE x \in ElementsOf(s) /\ x # Head(s)
  <2>1. PICK i \in 1..Len(Tail(s)) : x = Tail(s)[i]
    BY DEF ElementsOf
  <2>2. i + 1 \in 1..Len(s) /\ 1 \in 1..Len(s) /\ x = s[i + 1] /\ i + 1 # 1
    BY <1>1, <2>1
  <2> QED BY <1>1, <2>2 DEF ElementsOf
<1>4. ASSUME NEW x \in ElementsOf(s), x # Head(s) PROVE x \in ElementsOf(Tail(s))
  <2>1. PICK i \in 1..Len(s) : x = s[i]
    BY DEF ElementsOf
  <2>2. i # 1
    BY <1>1, <1>4, <2>1
  <2>3. i - 1 \in 1..Len(Tail(s)) /\ Tail(s)[i - 1] = x
    BY <1>1, <2>1, <2>2
  <2> QED BY <2>3 DEF ElementsOf
<1>5. ASSUME NEW i \in 1..Len(Tail(s)), NEW j \in 1..Len(Tail(s)), Tail(s)[i] = Tail(s)[j]
      PROVE  i = j
  <2>1. i + 1 \in 1..Len(s) /\ j + 1 \in 1..Len(s) /\ s[i + 1] = s[j + 1]
    BY <1>1, <1>5
  <2>2. i + 1 = j + 1
    BY <2>1
  <2> QED BY <2>2
<1> QED BY <1>2, <1>3, <1>4, <1>5

\* A new line leaves every trace with one line at most.
LEMMA FreshLineOnce ==
  ASSUME TypeOK, TornTail, Tracked, NEW t \in Trace, ~InSpill(t),
         NEW line \in {t, Garbage}, spill' = WithLine(line)
  PROVE  \A i, j \in 1..Len(spill') : spill'[i] = spill'[j] /\ spill'[i] \in Trace => i = j
<1>1. CASE torn
  BY <1>1, WithLineLines
<1>2. CASE ~torn
  <2>1. /\ Len(spill) \in Nat /\ Len(spill') = Len(spill) + 1 /\ spill'[Len(spill) + 1] = line
        /\ \A i \in 1..Len(spill) : spill'[i] = spill[i]
    BY <1>2, WithLineAdds DEF TornTail
  <2>2. \A i \in 1..Len(spill) : spill[i] # t
    BY DEF InSpill
  <2> QED BY <2>1, <2>2, GarbageAssumption DEF Tracked
<1> QED BY <1>1, <1>2

\* A receipt that was not offered before, or never got past try_send, is owed nowhere.
LEMMA UndecidedIsNew ==
  ASSUME TypeOK, Tracked, NEW t \in Trace, req[t] \in {"idle", "full"}
  PROVE  /\ ~InChannel(t) /\ ~InSpill(t) /\ ~Stored(t)
         /\ t \notin ElementsOf(chan) \cup Lines \cup Promise!Logged
<1>1. ~InChannel(t) /\ ~InSpill(t) /\ ~Stored(t)
  BY DEF Tracked
<1> QED BY <1>1, LoggedIsStored DEF Lines, ElementsOf, InChannel, InSpill

\* No receipt waits in the channel and in the file.
LEMMA OneWay ==
  ASSUME TypeOK, Tracked
  PROVE  ElementsOf(chan) \cap Lines = {}
<1> SUFFICES ASSUME NEW i \in 1..Len(chan), NEW j \in 1..Len(spill), chan[i] = spill[j]
             PROVE  FALSE
  BY DEF ElementsOf, Lines
<1>1. chan[i] \in Trace /\ InChannel(chan[i]) /\ InSpill(chan[i])
  BY DEF TypeOK, InChannel, InSpill
<1> QED BY <1>1 DEF Tracked

\* A request task that gets its trace in accepts a receipt that is new, in memory or
\* on disk, perhaps behind a torn line; any other leaves the log and what is owed alone
\* (offer_trace, append_to_spill).
LEMMA TaskKeepsPromise ==
  ASSUME faults' = 0, ChainInv, PromiseInv, NEW t \in Trace, Task(t)
  PROVE  Tracked' /\ DrainCovers' /\ Keeps
<1> USE DEF diskVars, writerVars, bounds, process, Becomes
<1>1. /\ TypeOK /\ ~Fault /\ Tracked /\ DrainCovers /\ TornTail
      /\ req \in [Trace -> Outcome] /\ chan \in Seq(Trace)
  BY DEF ChainInv, TypeOK, Fault, PromiseInv, CountInv
<1>2. ASSUME req[t] \in {"idle", "full"}, UNCHANGED <<chan, spill, torn, db, wpc, left>>,
             \E outcome : Becomes(t, outcome)
      PROVE  Tracked' /\ DrainCovers' /\ Keeps
  <2> DEFINE kept == Trace \ {t}
  <2>1. \A u \in kept : req'[u] = req[u]
    BY <1>1, <1>2
  <2>2. \A u \in Trace \ kept : ~InChannel(u) /\ ~InSpill(u) /\ ~Stored(u)
    BY <1>1, <1>2, UndecidedIsNew
  <2>3. Tracked' /\ DrainCovers'
    BY <1>1, <1>2, <2>1, <2>2, OthersKeepTracked
  <2> QED BY <1>2, <2>3, QuietKeeps
<1>4. CASE OfferSent(t)
  <2>1. /\ chan' = Append(chan, t) /\ req[t] = "idle"
        /\ req' = [req EXCEPT ![t] = "sent"] /\ spill' = spill /\ torn' = torn /\ db' = db
        /\ wpc' = wpc /\ left' = left
    BY <1>4 DEF OfferSent
  <2>2. ~InChannel(t) /\ ~InSpill(t) /\ ~Stored(t)
        /\ t \notin ElementsOf(chan) \cup Lines \cup Promise!Logged
    BY <1>1, <2>1, UndecidedIsNew
  <2>3. ElementsOf(chan') = ElementsOf(chan) \cup {t}
    BY <1>1, <2>1, ElementsOfAppend
  <2>4. Promise!AcceptReceipt(t)
    BY <2>1, <2>2, <2>3 DEF Promise!AcceptReceipt, Lines, ElementsOf, LastLine
  <2>5. Tracked' /\ DrainCovers'
    <3>1. /\ Len(chan) \in Nat /\ Len(chan') = Len(chan) + 1 /\ chan'[Len(chan) + 1] = t
          /\ \A i \in 1..Len(chan) : chan'[i] = chan[i]
      BY <1>1, <2>1
    <3>2. \A u \in Trace : InChannel(u)' => InChannel(u) \/ u = t
      BY <3>1 DEF InChannel
    <3>3. \A u \in Trace : req'[u] = IF u = t THEN "sent" ELSE req[u]
      BY <1>1, <2>1
    <3>4. \A i, j \in 1..Len(chan') : chan'[i] = chan'[j] => i = j
      <4>1. \A i \in 1..Len(chan) : chan[i] # t
        BY <2>2 DEF InChannel
      <4> QED BY <1>1, <3>1, <4>1 DEF Tracked
    <3>5. \A u : InSpill(u)' = InSpill(u) /\ InLeft(u)' = InLeft(u)
      BY <2>1 DEF InSpill, InLeft
    <3>6. \A u : Stored(u)' = Stored(u)
      BY <2>1 DEF Stored
    <3>7. \A u \in Trace : InSpill(u)' => req'[u] \in {"spilled", "cut"}
      BY <1>1, <2>2, <3>3, <3>5 DEF Tracked
    <3>8. \A u \in Trace : Stored(u)' => req'[u] \notin {"idle", "full"}
      BY <1>1, <2>2, <3>3, <3>6 DEF Tracked
    <3>9. \A u \in Trace : InChannel(u)' => req'[u] = "sent"
      BY <1>1, <3>2, <3>3 DEF Tracked
    <3>10. DrainCovers'
      BY <1>1, <2>1, <3>5, <3>6 DEF DrainCovers
    <3>11. \A i, j \in 1..Len(spill') : spill'[i] = spill'[j] /\ spill'[i] \in Trace => i = j
      BY <1>1, <2>1 DEF Tracked
    <3> QED BY <3>4, <3>7, <3>8, <3>9, <3>10, <3>11 DEF Tracked
  <2> QED BY <2>4, <2>5 DEF Keeps, Promise!LogNext
<1>5. CASE OfferFull(t)
  BY <1>2, <1>5 DEF OfferFull
<1>6. CASE OfferClosed(t)
  BY <1>2, <1>6 DEF OfferClosed
<1>7. CASE AppendToSpill(t)
  <2>1. /\ spill' = WithLine(t) /\ torn' = FALSE /\ req[t] = "full"
        /\ req' = [req EXCEPT ![t] = "spilled"] /\ chan' = chan /\ db' = db
        /\ wpc \notin {"drain", "truncate"} /\ wpc' = wpc
    BY <1>7 DEF AppendToSpill, SpillLocked
  <2>2. ~InChannel(t) /\ ~InSpill(t) /\ ~Stored(t)
        /\ t \notin ElementsOf(chan) \cup Lines \cup Promise!Logged
    BY <1>1, <2>1, UndecidedIsNew
  <2>3. /\ torn => /\ Lines' = Lines \ LooseLine
                   /\ \A i, j \in 1..Len(spill') : spill'[i] = spill'[j] /\ spill'[i] \in Trace => i = j
        /\ ~torn => Lines' = Lines \cup {t}
    BY <1>1, <2>1, WithLineLines, GarbageAssumption
  <2>4. ElementsOf(chan)' = ElementsOf(chan) /\ Promise!Logged' = Promise!Logged
    BY <2>1 DEF ElementsOf, Promise!Logged
  <2>5. TypeOK'
    BY <1>7, TaskKeepsChainInv DEF Task, ChainInv
  <2>6. \A u \in Trace : InSpill(u)' => InSpill(u) \/ u = t
    <3>1. Lines' \subseteq Lines \cup {t}
      BY <2>3
    <3>2. \A u : u \in Lines <=> u \in Trace /\ InSpill(u)
      BY <1>1, LinesAreInSpill
    <3>3. \A u \in Trace : InSpill(u)' => u \in Lines'
      BY GarbageAssumption DEF Lines, ElementsOf, InSpill
    <3> QED BY <3>1, <3>2, <3>3
  <2>7. Promise!AcceptReceipt(t) \/ Promise!AcceptAtRaggedEnd(t)
    <3>1. CASE torn
      <4>1. LooseLine \cap ElementsOf(chan) = {}
        <5>1. LooseLine \subseteq Lines
          BY DEF LooseLine, LastLine, Lines, ElementsOf
        <5> QED BY <1>1, <5>1, OneWay
      <4>2. ElementsOf(chan)' \cup Lines' = (ElementsOf(chan) \cup Lines) \ LooseLine
        BY <2>3, <2>4, <3>1, <4>1
      <4>3. LooseLine' = {} /\ Lines' = Lines \ LooseLine
        BY <2>1, <2>3, <3>1 DEF LooseLine
      <4> QED BY <2>1, <2>2, <3>1, <4>2, <4>3
              DEF Promise!AcceptAtRaggedEnd, Lines, LooseLine
    <3>2. CASE ~torn
      <4>1. ElementsOf(chan)' \cup Lines' = ElementsOf(chan) \cup Lines \cup {t}
        BY <2>3, <2>4, <3>2
      <4>2. LooseLine' = LooseLine /\ Lines' = Lines \cup {t}
        BY <2>1, <2>3, <3>2 DEF LooseLine
      <4>3. torn = FALSE
        BY <1>1, <3>2 DEF TypeOK
      <4> QED BY <2>1, <2>2, <4>1, <4>2, <4>3
              DEF Promise!AcceptReceipt, Lines, LooseLine
    <3> QED BY <3>1, <3>2
  <2>8. Tracked'
    <3>1. \A u \in Trace : req'[u] = IF u = t THEN "spilled" ELSE req[u]
      BY <1>1, <2>1
    <3>2. \A u : InChannel(u)' = InChannel(u)
      BY <2>1 DEF InChannel
    <3>3. \A u : Stored(u)' = Stored(u)
      BY <2>1 DEF Stored
    <3>4. \A u \in Trace : InSpill(u)' => req'[u] \in {"spilled", "cut"}
      BY <1>1, <2>6, <3>1 DEF Tracked
    <3>5. \A u \in Trace : Stored(u)' => req'[u] \notin {"idle", "full"}
      BY <1>1, <2>2, <3>1, <3>3 DEF Tracked
    <3>6. \A u \in Trace : InChannel(u)' => req'[u] = "sent"
      BY <1>1, <2>2, <3>1, <3>2 DEF Tracked
    <3>7. \A i, j \in 1..Len(chan') : chan'[i] = chan'[j] => i = j
      BY <1>1, <2>1 DEF Tracked
    <3>8. \A i, j \in 1..Len(spill') : spill'[i] = spill'[j] /\ spill'[i] \in Trace => i = j
      BY <1>1, <2>1, <2>2, <2>3, FreshLineOnce
    <3> QED BY <3>4, <3>5, <3>6, <3>7, <3>8 DEF Tracked
  <2>9. DrainCovers'
    BY <2>1 DEF DrainCovers
  <2> QED BY <2>7, <2>8, <2>9 DEF Keeps, Promise!LogNext
<1>8. CASE AppendToSpillFails(t)
  BY <1>1, <1>8 DEF AppendToSpillFails
<1> QED BY <1>4, <1>5, <1>6, <1>7, <1>8 DEF Task

\* Entering a drain records nothing yet, and has every line of the file in hand.
LEMMA DrainThenKeepsPromise ==
  ASSUME faults' = 0, ChainInv, PromiseInv, NEW after \in {"recv", "gone"},
         DrainThen(after), UNCHANGED <<req, chan, diskVars>>
  PROVE  Tracked' /\ DrainCovers' /\ Keeps
<1>1. UNCHANGED <<req, chan, spill, torn, db>> /\ Tracked /\ DrainCovers
  BY DEF diskVars, PromiseInv
<1>2. (wpc' = "drain" => left' = spill) /\ wpc' # "truncate"
  BY DEF DrainThen, EnterDrain, Fault, ChainInv, TypeOK
<1>3. \A u \in Trace : req'[u] = req[u]
  BY <1>1
<1>4. Tracked' /\ DrainCovers'
  <2>1. PICK kept \in SUBSET Trace : kept = Trace
    OBVIOUS
  <2> QED BY <1>1, <1>2, <1>3, <2>1, OthersKeepTracked
<1> QED BY <1>1, <1>4, QuietKeeps

\* The writer records only what is owed, the channel's receipts once and the file's
\* until they are settled, and settles the file only when the table has all of it.
LEMMA WriterKeepsPromise ==
  ASSUME faults' = 0, ChainInv, PromiseInv, Writer
  PROVE  Tracked' /\ DrainCovers' /\ Keeps
<1>1. TypeOK /\ ~Fault /\ Tracked /\ DrainCovers /\ DrainReads
  BY DEF ChainInv, TypeOK, Fault, PromiseInv, CountInv
<1>2. CASE LoadHead
  BY <1>2, DrainThenKeepsPromise DEF LoadHead
<1>3. CASE LoadHeadFails
  BY <1>1, <1>3 DEF LoadHeadFails
<1>4. CASE Receive
  <2>0. PICK t \in Trace : t = Head(chan)
    BY <1>1, <1>4 DEF Receive, TypeOK
  <2>1. /\ chan \in Seq(Trace) /\ chan # <<>> /\ chan' = Tail(chan)
        /\ WriteTrace(t) /\ spill' = spill /\ torn' = torn /\ left' = left /\ req' = req
        /\ wpc' = "fast"
    BY <1>1, <1>4, <2>0 DEF Receive, TypeOK
  <2>2. /\ t \in ElementsOf(chan) /\ ElementsOf(Tail(chan)) = ElementsOf(chan) \ {t}
        /\ \A i, j \in 1..Len(Tail(chan)) : Tail(chan)[i] = Tail(chan)[j] => i = j
    BY <1>1, <2>0, <2>1, ElementsOfTail DEF Tracked
  <2>3. /\ [i \in 1..Len(db') |-> db'[i].payload] = Append([i \in 1..Len(db) |-> db[i].payload], t)
        /\ \A u \in Trace : Stored(u)' <=> Stored(u) \/ u = t
    BY <2>1, LogGrows
  <2>4. req[t] = "sent" /\ ~InSpill(t)
    <3>1. InChannel(t)
      BY <2>2 DEF ElementsOf, InChannel
    <3> QED BY <1>1, <2>1, <3>1 DEF Tracked
  <2>5. t \notin Lines
    BY <2>4 DEF Lines, ElementsOf, InSpill
  <2>6. ElementsOf(chan)' = ElementsOf(chan) \ {t} /\ ElementsOf(spill)' = ElementsOf(spill)
        /\ LastLine' = LastLine
    <3>1. ElementsOf(chan') = ElementsOf(chan) \ {t}
      BY <2>1, <2>2
    <3> QED BY <2>1, <3>1 DEF ElementsOf, LastLine
  <2>7. Promise!Record(t)
    BY <2>1, <2>2, <2>3, <2>5, <2>6 DEF Promise!Record, Lines
  <2>8. Tracked'
    <3>1. \A u \in Trace : InChannel(u)' => InChannel(u)
      <4>1. \A u \in Trace : u \in ElementsOf(chan)' => u \in ElementsOf(chan)
        BY <2>6
      <4> QED BY <4>1 DEF InChannel, ElementsOf
    <3>2. \A u \in Trace : InSpill(u)' = InSpill(u)
      BY <2>1 DEF InSpill
    <3>3. \A u \in Trace : Stored(u)' => req'[u] \notin {"idle", "full"}
      BY <1>1, <2>1, <2>3, <2>4 DEF Tracked
    <3>4. \A i, j \in 1..Len(chan') : chan'[i] = chan'[j] => i = j
      BY <2>1, <2>2
    <3>5. \A u \in Trace : /\ InChannel(u)' => req'[u] = "sent"
                           /\ InSpill(u)' => req'[u] \in {"spilled", "cut"}
      BY <1>1, <2>1, <3>1, <3>2 DEF Tracked
    <3>6. \A i, j \in 1..Len(spill') : spill'[i] = spill'[j] /\ spill'[i] \in Trace => i = j
      BY <1>1, <2>1 DEF Tracked
    <3> QED BY <3>3, <3>4, <3>5, <3>6 DEF Tracked
  <2>9. DrainCovers'
    BY <2>1 DEF DrainCovers
  <2> QED BY <2>7, <2>8, <2>9 DEF Keeps, Promise!LogNext
<1>5. CASE FoundEmpty
  BY <1>5, DrainThenKeepsPromise DEF FoundEmpty
<1>6. CASE FoundDisconnected
  <2>1. UNCHANGED <<req, chan, spill, torn, db>> /\ wpc' = "gone"
    BY <1>6 DEF FoundDisconnected, diskVars
  <2>2. Tracked' /\ DrainCovers'
    <3>1. PICK kept \in SUBSET Trace : kept = Trace
      OBVIOUS
    <3> QED BY <1>1, <2>1, <3>1, OthersKeepTracked
  <2> QED BY <2>1, <2>2, QuietKeeps
<1>7. CASE FoundClosed
  BY <1>7, DrainThenKeepsPromise DEF FoundClosed
<1>8. CASE DrainLine
  <2>1. /\ left \in Seq(Trace \cup {Garbage}) /\ left # <<>> /\ left' = Tail(left)
        /\ wpc = "drain" /\ (wpc' = IF Len(left) = 1 THEN "truncate" ELSE "drain")
        /\ chan' = chan /\ spill' = spill /\ torn' = torn /\ req' = req
    BY <1>1, <1>8 DEF DrainLine, ChainInv, DrainHasLines, TypeOK
  <2>2. /\ Len(left) \in Nat /\ 1 \in 1..Len(left) /\ Head(left) = left[1] /\ Len(left') = Len(left) - 1
        /\ \A i \in 1..Len(left) : i = 1 \/ (i - 1 \in 1..Len(left') /\ left'[i - 1] = left[i])
    BY <2>1, EmptySeq
  <2>3. \A u \in Trace : InLeft(u) => InLeft(u)' \/ u = Head(left)
    BY <2>1, <2>2 DEF InLeft
  <2>4. Len(left) = 1 => \A u \in Trace : ~InLeft(u)'
    BY <2>2 DEF InLeft
  <2>5. \A u \in Trace : InChannel(u)' = InChannel(u) /\ InSpill(u)' = InSpill(u)
    BY <2>1 DEF InChannel, InSpill
  <2>6. ASSUME \A u \in Trace : Stored(u) => Stored(u)',
               \A u \in Trace : u = Head(left) => Stored(u)'
        PROVE  DrainCovers'
    <3>1. \A u \in Trace : InSpill(u)' => Stored(u)' \/ InLeft(u)'
      <4> SUFFICES ASSUME NEW u \in Trace, InSpill(u)' PROVE Stored(u)' \/ InLeft(u)'
        OBVIOUS
      <4>1. Stored(u) \/ InLeft(u)
        BY <1>1, <2>1, <2>5 DEF DrainCovers
      <4>2. CASE u = Head(left)
        BY <2>6, <4>2
      <4> QED BY <2>3, <2>6, <4>1, <4>2
    <3> QED BY <2>1, <2>4, <3>1 DEF DrainCovers
  <2>7. CASE Head(left) = Garbage
    <3>1. db' = db
      BY <1>8, <2>7 DEF DrainLine
    <3>2. \A u : Stored(u)' = Stored(u)
      BY <3>1 DEF Stored
    <3>3. DrainCovers'
      BY <2>6, <2>7, <3>2, GarbageAssumption
    <3>4. Tracked'
      BY <1>1, <2>1, <2>5, <3>2 DEF Tracked
    <3> QED BY <2>1, <3>1, <3>3, <3>4, QuietKeeps
  <2>8. CASE Head(left) # Garbage
    <3>1. PICK t \in Trace : t = Head(left) /\ WriteTrace(t)
      BY <1>8, <2>1, <2>2, <2>8 DEF DrainLine
    <3>2. /\ [i \in 1..Len(db') |-> db'[i].payload] = Append([i \in 1..Len(db) |-> db[i].payload], t)
          /\ \A u \in Trace : Stored(u)' <=> Stored(u) \/ u = t
      BY <3>1, LogGrows
    <3>3. InSpill(t) /\ req[t] \in {"spilled", "cut"}
      <4>1. InLeft(t) /\ SpillLocked
        BY <2>1, <2>2, <3>1 DEF InLeft, SpillLocked
      <4> QED BY <1>1, <4>1 DEF DrainReads, Tracked
    <3>4. t \in Lines
      BY <3>3, GarbageAssumption DEF Lines, ElementsOf, InSpill
    <3>5. ElementsOf(chan)' = ElementsOf(chan) /\ ElementsOf(spill)' = ElementsOf(spill)
          /\ LastLine' = LastLine
      BY <2>1 DEF ElementsOf, LastLine
    <3>6. Promise!Record(t)
      BY <2>1, <3>2, <3>4, <3>5 DEF Promise!Record, Lines
    <3>7. \A u \in Trace : Stored(u)' => req'[u] \notin {"idle", "full"}
      BY <1>1, <2>1, <3>2, <3>3 DEF Tracked
    <3>8. Tracked'
      BY <1>1, <2>1, <2>5, <3>7 DEF Tracked
    <3>9. DrainCovers'
      BY <2>6, <3>1, <3>2
    <3> QED BY <3>6, <3>8, <3>9 DEF Keeps, Promise!LogNext
  <2> QED BY <2>7, <2>8
<1>9. CASE Truncate
  <2>1. /\ spill' = <<>> /\ torn' = FALSE /\ req' = req /\ db' = db /\ chan' = chan
        /\ wpc = "truncate" /\ wpc' \in {"recv", "gone"}
    BY <1>1, <1>9 DEF Truncate, TypeOK
  <2>2. Lines \subseteq Promise!Logged
    <3>1. \A u : u \in Lines => u \in Trace /\ InSpill(u)
      BY <1>1, LinesAreInSpill
    <3>2. \A u \in Trace : InSpill(u) => Stored(u)
      BY <1>1, <2>1 DEF DrainCovers
    <3> QED BY <1>1, <3>1, <3>2, LoggedIsStored
  <2>3. ElementsOf(chan) \cap Lines = {}
    BY <1>1, OneWay
  <2>4. ElementsOf(chan)' = ElementsOf(chan) /\ ElementsOf(spill)' = {}
    BY <2>1 DEF ElementsOf
  <2>5. Promise!Settle
    BY <2>1, <2>2, <2>3, <2>4 DEF Promise!Settle, Lines
  <2>6. Tracked'
    <3>1. chan' = chan /\ db' = db /\ req' = req /\ Len(spill') = 0
      BY <2>1
    <3>2. \A u \in Trace : InChannel(u)' = InChannel(u) /\ ~InSpill(u)'
      BY <3>1 DEF InChannel, InSpill
    <3>3. \A u \in Trace : Stored(u)' = Stored(u)
      BY <3>1 DEF Stored
    <3> QED BY <1>1, <3>1, <3>2, <3>3 DEF Tracked
  <2>7. DrainCovers'
    BY <2>1 DEF DrainCovers
  <2> QED BY <2>5, <2>6, <2>7 DEF Keeps, Promise!LogNext
<1> QED BY <1>2, <1>3, <1>4, <1>5, <1>6, <1>7, <1>8, <1>9 DEF Writer

\* A stop, at any point, forgets only the channel, and in the middle of an append what the
\* cut line leaves unreadable; closing and starting forget nothing.
LEMMA ProcessKeepsPromise ==
  ASSUME ChainInv, PromiseInv, Process
  PROVE  Tracked' /\ DrainCovers' /\ Keeps
<1> USE DEF diskVars, writerVars, bounds, process
<1>1. TypeOK /\ Tracked /\ DrainCovers /\ TornTail
  BY DEF ChainInv, PromiseInv, CountInv
<1>2. ASSUME UNCHANGED <<req, chan, spill, torn, db>>,
             wpc' \in {"drain", "truncate"} => wpc' = wpc /\ left' = left
      PROVE  Tracked' /\ DrainCovers' /\ Keeps
  <2>1. \A u \in Trace : req'[u] = req[u]
    BY <1>2
  <2>2. Tracked' /\ DrainCovers'
    <3>1. PICK kept \in SUBSET Trace : kept = Trace
      OBVIOUS
    <3> QED BY <1>1, <1>2, <2>1, <3>1, OthersKeepTracked
  <2> QED BY <1>2, <2>2, QuietKeeps
<1>3. ASSUME spill' = spill, torn' = torn, db' = db, chan' = <<>>, wpc' = "gone",
             \A u \in Trace : req'[u] = req[u] \/ (InChannel(u) /\ req'[u] = "lost")
                             \/ (req[u] = "full" /\ req'[u] = "lost")
      PROVE  Tracked' /\ DrainCovers' /\ Keeps
  <2>1. Len(chan') = 0
    BY <1>3
  <2>2. \A u \in Trace : ~InChannel(u)'
    BY <2>1 DEF InChannel
  <2>3. \A u \in Trace : InSpill(u)' = InSpill(u)
    BY <1>3 DEF InSpill
  <2>4. \A u \in Trace : Stored(u)' = Stored(u)
    BY <1>3 DEF Stored
  <2>5. \A u \in Trace : InSpill(u) => req'[u] \in {"spilled", "cut"}
    BY <1>1, <1>3 DEF Tracked
  <2>6. \A u \in Trace : Stored(u) => req'[u] \notin {"idle", "full"}
    BY <1>1, <1>3 DEF Tracked
  <2>7. Tracked'
    BY <1>1, <1>3, <2>1, <2>2, <2>3, <2>4, <2>5, <2>6 DEF Tracked
  <2>8. ElementsOf(chan)' = {} /\ ElementsOf(spill)' = ElementsOf(spill) /\ LastLine' = LastLine
    BY <1>3, <2>1 DEF ElementsOf, LastLine
  <2>9. Promise!ForgetVolatile
    BY <1>3, <2>8 DEF Promise!ForgetVolatile
  <2>10. DrainCovers'
    BY <1>3 DEF DrainCovers
  <2> QED BY <2>7, <2>9, <2>10 DEF Keeps, Promise!LogNext
<1>4. CASE CloseSenders
  BY <1>2, <1>4 DEF CloseSenders
<1>5. CASE Crash
  <2>1. spill' = spill /\ torn' = torn /\ db' = db /\ chan' = <<>> /\ wpc' = "gone"
    BY <1>5 DEF Crash, Perish
  <2>2. \A u \in Trace : req'[u] = req[u] \/ (InChannel(u) /\ req'[u] = "lost")
                         \/ (req[u] = "full" /\ req'[u] = "lost")
    BY <1>5 DEF Crash, Perish
  <2> QED BY <1>3, <2>1, <2>2
<1>6. CASE Exit
  <2>1. spill' = spill /\ torn' = torn /\ db' = db /\ chan' = <<>> /\ wpc' = "gone" /\ req' = req
    BY <1>6 DEF Exit
  <2> QED BY <1>3, <2>1
<1>7. CASE Start
  BY <1>2, <1>7 DEF Start
<1>8. ASSUME NEW t \in Trace, CrashInAppend(t) PROVE Tracked' /\ DrainCovers' /\ Keeps
  <2>1. /\ db' = db /\ chan' = <<>> /\ wpc' = "gone" /\ req[t] = "full"
        /\ req' = [u \in Trace |-> IF u \in {t} THEN "cut"
                                   ELSE IF req[u] = "full" \/ InChannel(u) THEN "lost"
                                   ELSE req[u]]
    BY <1>8 DEF CrashInAppend, Perish
  <2>2. \A u \in Trace : req'[u] = IF u = t THEN "cut"
                                   ELSE IF req[u] = "full" \/ InChannel(u) THEN "lost"
                                   ELSE req[u]
    BY <2>1
  <2>0. torn' \in BOOLEAN
    BY <1>8 DEF CrashInAppend
  <2>3. PICK line \in {t, Garbage} : spill' = WithLine(line)
    BY <1>8 DEF CrashInAppend
  <2>4. /\ ~InChannel(t) /\ ~InSpill(t) /\ ~Stored(t)
        /\ t \notin ElementsOf(chan) \cup Lines \cup Promise!Logged
    BY <1>1, <2>1, UndecidedIsNew
  <2>5. /\ torn => Lines' = Lines \ LooseLine /\ LastLine' = {Garbage}
        /\ ~torn => Lines' = Lines \cup ({line} \ {Garbage}) /\ LastLine' = {line}
    BY <1>1, <2>3, WithLineLines
  <2>6. \A i, j \in 1..Len(spill') : spill'[i] = spill'[j] /\ spill'[i] \in Trace => i = j
    BY <1>1, <2>3, <2>4, FreshLineOnce
  <2>7. Len(chan') = 0
    BY <2>1
  <2>8. ElementsOf(chan') = {}
    BY <2>7 DEF ElementsOf
  <2>9. Promise!ForgetMidway(t)
    <3>1. CASE torn
      <4>1. LooseLine' = {} /\ Lines' = Lines \ LooseLine
        BY <2>5, <3>1 DEF LooseLine
      <4> QED BY <2>0, <2>1, <2>3, <2>4, <2>8, <4>1 DEF Promise!ForgetMidway, Lines, LooseLine, ElementsOf
    <3>2. CASE ~torn /\ line = Garbage
      <4>1. LooseLine = {} /\ LooseLine' = {} /\ Lines' = Lines
        BY <2>5, <3>2 DEF LooseLine
      <4> QED BY <2>0, <2>1, <2>3, <2>4, <2>8, <4>1 DEF Promise!ForgetMidway, Lines, LooseLine, ElementsOf
    <3>3. CASE ~torn /\ line = t
      <4>1. LooseLine' = (IF torn' THEN {t} ELSE {}) /\ Lines' = Lines \cup {t}
        BY <2>5, <3>3, GarbageAssumption DEF LooseLine
      <4> QED BY <2>0, <2>1, <2>3, <2>4, <2>8, <3>3, <4>1
              DEF Promise!ForgetMidway, Lines, LooseLine, ElementsOf
    <3> QED BY <2>3, <3>1, <3>2, <3>3
  <2>10. \A u \in Trace : InSpill(u)' => InSpill(u) \/ u = t
    <3>1. Lines' \subseteq Lines \cup {t}
      BY <2>3, <2>5
    <3>2. \A u : u \in Lines <=> u \in Trace /\ InSpill(u)
      BY <1>1, LinesAreInSpill
    <3>3. \A u \in Trace : InSpill(u)' => u \in Lines'
      BY GarbageAssumption DEF Lines, ElementsOf, InSpill
    <3> QED BY <3>1, <3>2, <3>3
  <2>11. Tracked'
    <3>1. \A u : ~InChannel(u)'
      BY <2>7 DEF InChannel
    <3>2. \A u : Stored(u)' = Stored(u)
      BY <2>1 DEF Stored
    <3>3. \A u \in Trace : InSpill(u)' => req'[u] \in {"spilled", "cut"}
      BY <1>1, <2>2, <2>10 DEF Tracked
    <3>4. \A u \in Trace : Stored(u)' => req'[u] \notin {"idle", "full"}
      BY <1>1, <2>2, <2>4, <3>2 DEF Tracked
    <3> QED BY <2>6, <2>7, <3>1, <3>3, <3>4 DEF Tracked
  <2>12. DrainCovers'
    BY <2>1 DEF DrainCovers
  <2> QED BY <2>9, <2>11, <2>12 DEF Keeps, Promise!LogNext
<1> QED BY <1>4, <1>5, <1>6, <1>7, <1>8 DEF Process

\* Nothing is owed, stored or half done at first.
LEMMA PromiseStarts == Init => PromiseInv /\ Promise!LogInit
<1> SUFFICES ASSUME Init PROVE PromiseInv /\ Promise!LogInit
  OBVIOUS
<1>1. /\ chan = <<>> /\ spill = <<>> /\ db = <<>> /\ left = <<>> /\ torn = FALSE
      /\ wpc = "load" /\ \A t \in Trace : req[t] = "idle"
  BY DEF Init
<1>2. Len(chan) = 0 /\ Len(spill) = 0 /\ Len(db) = 0
  BY <1>1
<1>3. Tracked /\ DrainCovers
  BY <1>1, <1>2 DEF Tracked, DrainCovers, InChannel, InSpill, Stored
<1>4. ElementsOf(chan) = {} /\ ElementsOf(spill) = {}
  BY <1>2 DEF ElementsOf
<1>5. [i \in 1..Len(db) |-> db[i].payload] = <<>>
  BY <1>2, EmptySeq
<1>6. Promise!LogInit
  BY <1>1, <1>4, <1>5 DEF Promise!LogInit
<1> QED BY <1>3, <1>6, CountStarts DEF PromiseInv

\* And no step without a fault forgets or invents a receipt.
LEMMA PromiseSteps ==
  ASSUME ChainInv, ChainInv', PromiseInv, [Next]_vars, faults' = 0
  PROVE  PromiseInv' /\ Keeps
<1>1. CountInv'
  BY CountSteps DEF PromiseInv
<1>2. CASE Writer
  BY <1>1, <1>2, WriterKeepsPromise DEF PromiseInv
<1>3. CASE Process
  BY <1>1, <1>3, ProcessKeepsPromise DEF PromiseInv
<1>4. ASSUME NEW t \in Trace, Task(t) PROVE PromiseInv' /\ Keeps
  BY <1>1, <1>4, TaskKeepsPromise DEF PromiseInv
<1>5. CASE UNCHANGED vars
  <2>1. Keeps
    BY <1>5, QuietKeeps DEF vars
  <2>2. Tracked' /\ DrainCovers'
    <3>1. PICK kept \in SUBSET Trace : kept = Trace
      OBVIOUS
    <3> QED BY <1>5, <3>1, OthersKeepTracked DEF vars, PromiseInv
  <2> QED BY <1>1, <2>1, <2>2 DEF PromiseInv
<1> QED BY <1>2, <1>3, <1>4, <1>5 DEF Next

\* The receipts pipeline is the log of ReceiptLog as long as no operation on disk has
\* failed: through channel, spill file, crashes at any point and restarts, no step forgets a
\* durable receipt before the table has it, but for one behind a line that a crash cut
\* short, and none records a receipt that is not owed
\* (store.rs, "append-only": offer_trace, writer_loop, drain_spill).
THEOREM PromiseAlwaysKept == Spec => KeepsPromise
<1> DEFINE Inv == faults = 0 => PromiseInv
<1>1. Init => Inv /\ Promise!LogInit
  BY PromiseStarts
<1>2. ChainInv /\ ChainInv' /\ Inv /\ [Next]_vars => Inv' /\ (faults' = 0 => Keeps)
  BY FaultsStay, PromiseSteps
<1>3. (faults' = 0 => Keeps) => (faults' = 0 => [Promise!LogNext]_(Promise!logVars))
  BY DEF Keeps
<1> QED BY <1>1, <1>2, <1>3, ChainInvariant, PTL DEF Spec, KeepsPromise

-------------------------------------------------------------------------------
(* Sent traces, with a disk that does not fail.                            *)

\* A writer past its last look at the channel leaves nothing in it: it is gone, or in
\* the final drain of a process whose senders are dropped.
LastDrain == wpc \in {"drain", "truncate"} /\ back = "gone"

LeavesNothing ==
  /\ wpc = "gone" => chan = <<>>
  /\ LastDrain => chan = <<>> /\ phase # "up"

SentKept == \A t \in Trace : req[t] = "sent" => InChannel(t) \/ Stored(t)

SentInv == LeavesNothing /\ SentKept

\* Nothing sent is lost where channel and table stay.
LEMMA OthersKeepSentInv ==
  ASSUME SentInv, chan' = chan, db' = db,
         \A t \in Trace : req'[t] = "sent" => req[t] = "sent",
         wpc' = "gone" => chan = <<>>,
         LastDrain' => chan = <<>> /\ phase' # "up"
  PROVE  SentInv'
<1>1. SentKept'
  BY DEF SentInv, SentKept, InChannel, Stored
<1>2. LeavesNothing'
  BY DEF LeavesNothing
<1> QED BY <1>1, <1>2 DEF SentInv

\* Nor is it by entering a drain, the last one only past an empty channel.
LEMMA DrainThenKeepsSentInv ==
  ASSUME faults' = 0, ChainInv, SentInv, NEW after \in {"recv", "gone"}, DrainThen(after),
         UNCHANGED <<phase, req, chan, diskVars>>,
         after = "gone" => chan = <<>> /\ phase # "up"
  PROVE  SentInv'
<1>1. ~Fault
  BY DEF ChainInv, TypeOK, Fault
<1>2. wpc' = after \/ (wpc' = "drain" /\ back' = after)
  BY <1>1 DEF DrainThen, EnterDrain
<1>3. phase' = phase /\ req' = req /\ chan' = chan /\ db' = db
  BY DEF diskVars
<1>4. (wpc' = "gone" => chan = <<>>) /\ (LastDrain' => chan = <<>> /\ phase' # "up")
  BY <1>2, <1>3 DEF LastDrain
<1> QED BY <1>3, <1>4, OthersKeepSentInv

\* The writer takes a trace out of the channel only into the table, and returns only on
\* an empty one (writer_loop).
LEMMA WriterKeepsSentInv ==
  ASSUME faults' = 0, ChainInv, SentInv, Writer
  PROVE  SentInv'
<1> USE DEF diskVars, bounds, process
<1>1. TypeOK /\ ~Fault
  BY DEF ChainInv, TypeOK, Fault
<1>2. CASE LoadHead
  BY <1>2, DrainThenKeepsSentInv DEF LoadHead
<1>3. CASE LoadHeadFails
  BY <1>1, <1>3 DEF LoadHeadFails
<1>4. CASE Receive
  <2>1. PICK t \in Trace : t = Head(chan)
    BY <1>1, <1>4 DEF Receive, TypeOK
  <2>2. /\ chan \in Seq(Trace) /\ chan # <<>> /\ chan' = Tail(chan) /\ WriteTrace(t)
        /\ req' = req /\ wpc' = "fast"
    BY <1>1, <1>4, <2>1 DEF Receive, TypeOK
  <2>3. Stored(t)' /\ \A u \in Trace : Stored(u) => Stored(u)'
    <3>1. faults \in Nat
      BY <1>1 DEF TypeOK
    <3> QED BY <1>1, <2>2, <3>1, WriteStores
  <2>4. \A u \in Trace : InChannel(u) => u = t \/ InChannel(u)'
    <3>1. /\ Len(chan) \in Nat /\ t = chan[1] /\ Len(chan') = Len(chan) - 1
          /\ \A i \in 1..Len(chan') : chan'[i] = chan[i + 1]
      BY <2>1, <2>2, EmptySeq
    <3> SUFFICES ASSUME NEW u \in Trace, NEW i \in 1..Len(chan), chan[i] = u, u # t
                 PROVE  InChannel(u)'
      BY DEF InChannel
    <3>2. i # 1
      BY <3>1
    <3>3. i - 1 \in 1..Len(chan') /\ chan'[i - 1] = u
      BY <3>1, <3>2
    <3> QED BY <3>3 DEF InChannel
  <2>5. SentKept'
    BY <2>2, <2>3, <2>4 DEF SentInv, SentKept
  <2>6. LeavesNothing'
    BY <2>2 DEF LeavesNothing, LastDrain
  <2> QED BY <2>5, <2>6 DEF SentInv
<1>5. CASE FoundEmpty
  BY <1>5, DrainThenKeepsSentInv DEF FoundEmpty
<1>6. CASE FoundDisconnected
  BY <1>6, OthersKeepSentInv DEF FoundDisconnected, LastDrain
<1>7. CASE FoundClosed
  BY <1>7, DrainThenKeepsSentInv DEF FoundClosed
<1>8. CASE DrainLine
  <2>1. /\ chan' = chan /\ req' = req /\ phase' = phase /\ back' = back
        /\ wpc = "drain" /\ wpc' \in {"drain", "truncate"}
    BY <1>8 DEF DrainLine
  <2>2. \A u \in Trace : Stored(u) => Stored(u)'
    <3>1. Head(left) \in Trace \cup {Garbage}
      BY <1>8 DEF DrainLine, ChainInv, DrainHasLines, TypeOK
    <3>2. CASE Head(left) = Garbage
      <4>1. db' = db
        BY <1>8, <3>2 DEF DrainLine
      <4> QED BY <4>1 DEF Stored
    <3>3. CASE Head(left) # Garbage
      <4>1. PICK t \in Trace : t = Head(left) /\ WriteTrace(t)
        BY <1>8, <3>1, <3>3 DEF DrainLine
      <4> QED BY <1>1, <4>1, WriteStores
    <3> QED BY <3>2, <3>3
  <2>3. SentKept'
    BY <2>1, <2>2 DEF SentInv, SentKept, InChannel
  <2>4. LeavesNothing'
    BY <2>1 DEF SentInv, LeavesNothing, LastDrain
  <2> QED BY <2>3, <2>4 DEF SentInv
<1>9. CASE Truncate
  <2>1. /\ chan' = chan /\ req' = req /\ db' = db /\ wpc = "truncate" /\ wpc' = back
        /\ back \in {"recv", "gone"}
    BY <1>1, <1>9 DEF Truncate, TypeOK
  <2>2. wpc' = "gone" => chan = <<>>
    BY <2>1 DEF SentInv, LeavesNothing, LastDrain
  <2>3. ~LastDrain'
    BY <2>1 DEF LastDrain
  <2> QED BY <2>1, <2>2, <2>3, OthersKeepSentInv
<1> QED BY <1>2, <1>3, <1>4, <1>5, <1>6, <1>7, <1>8, <1>9 DEF Writer

\* A request task sends only to a writer that is still listening (offer_trace).
LEMMA TaskKeepsSentInv ==
  ASSUME faults' = 0, ChainInv, SentInv, NEW t \in Trace, Task(t)
  PROVE  SentInv'
<1> USE DEF diskVars, writerVars, bounds, process, Becomes
<1>1. TypeOK /\ ~Fault
  BY DEF ChainInv, TypeOK, Fault
<1>2. ASSUME UNCHANGED <<phase, chan, db, wpc, back>>,
             \E outcome : outcome # "sent" /\ Becomes(t, outcome)
      PROVE  SentInv'
  <2>1. \A u \in Trace : req'[u] = "sent" => req[u] = "sent"
    BY <1>1, <1>2 DEF TypeOK
  <2>2. /\ chan' = chan /\ db' = db /\ wpc' = "gone" => chan = <<>>
        /\ LastDrain' => chan = <<>> /\ phase' # "up"
    BY <1>2 DEF SentInv, LeavesNothing, LastDrain
  <2> QED BY <1>2, <2>1, <2>2, OthersKeepSentInv
<1>3. CASE OfferSent(t)
  <2>1. /\ chan \in Seq(Trace) /\ chan' = Append(chan, t) /\ phase = "up" /\ wpc # "gone"
        /\ req' = [req EXCEPT ![t] = "sent"] /\ db' = db
        /\ UNCHANGED <<phase, wpc, back>>
    BY <1>1, <1>3 DEF OfferSent, TypeOK
  <2>2. \A u \in Trace : InChannel(u)' <=> InChannel(u) \/ u = t
    <3>1. /\ Len(chan) \in Nat /\ Len(chan') = Len(chan) + 1 /\ chan'[Len(chan) + 1] = t
          /\ \A i \in 1..Len(chan) : chan'[i] = chan[i]
      BY <2>1
    <3> QED BY <3>1 DEF InChannel
  <2>3. \A u \in Trace : Stored(u)' = Stored(u)
    BY <2>1 DEF Stored
  <2>4. \A u \in Trace : req'[u] = IF u = t THEN "sent" ELSE req[u]
    BY <1>1, <2>1 DEF TypeOK
  <2>5. SentKept'
    BY <2>2, <2>3, <2>4 DEF SentInv, SentKept
  <2>6. LeavesNothing'
    BY <2>1 DEF SentInv, LeavesNothing, LastDrain
  <2> QED BY <2>5, <2>6 DEF SentInv
<1>4. CASE OfferFull(t)
  BY <1>2, <1>4 DEF OfferFull
<1>5. CASE OfferClosed(t)
  BY <1>2, <1>5 DEF OfferClosed
<1>6. CASE AppendToSpill(t)
  <2>1. UNCHANGED <<phase, chan, db, wpc, back>> /\ Becomes(t, "spilled")
    BY <1>6 DEF AppendToSpill
  <2> QED BY <1>2, <2>1
<1>7. CASE AppendToSpillFails(t)
  BY <1>1, <1>7 DEF AppendToSpillFails
<1> QED BY <1>3, <1>4, <1>5, <1>6, <1>7 DEF Task

\* A crash reports what was in the channel as lost; a graceful exit finds it empty.
LEMMA ProcessKeepsSentInv ==
  ASSUME ChainInv, SentInv, Process
  PROVE  SentInv'
<1> USE DEF diskVars, writerVars, bounds, process
<1>1. CASE CloseSenders
  <2>1. /\ chan' = chan /\ db' = db /\ req' = req /\ wpc' = wpc /\ back' = back
        /\ phase' = "closing"
    BY <1>1 DEF CloseSenders
  <2> QED BY <2>1, OthersKeepSentInv DEF SentInv, LeavesNothing, LastDrain
<1>2. ASSUME chan' = <<>>, db' = db, wpc' = "gone", NEW writing, Perish(writing) PROVE SentInv'
  <2>1. \A u \in Trace : req'[u] = "sent" => req[u] = "sent" /\ ~InChannel(u)
    BY <1>2 DEF Perish
  <2>2. SentKept'
    BY <1>2, <2>1 DEF SentInv, SentKept, Stored
  <2>3. LeavesNothing'
    BY <1>2 DEF LeavesNothing, LastDrain
  <2> QED BY <2>2, <2>3 DEF SentInv
<1>5. CASE Crash
  BY <1>2, <1>5 DEF Crash, Perish
<1>6. ASSUME NEW t \in Trace, CrashInAppend(t) PROVE SentInv'
  BY <1>2, <1>6 DEF CrashInAppend, Perish
<1>3. CASE Exit
  <2>1. /\ chan' = <<>> /\ chan = <<>> /\ db' = db /\ req' = req /\ wpc' = "gone"
    BY <1>3 DEF Exit, SentInv, LeavesNothing
  <2> QED BY <2>1, OthersKeepSentInv DEF LastDrain
<1>4. CASE Start
  <2>1. chan' = chan /\ db' = db /\ req' = req /\ wpc' = "load"
    BY <1>4 DEF Start
  <2> QED BY <2>1, OthersKeepSentInv DEF LastDrain
<1> QED BY <1>1, <1>3, <1>4, <1>5, <1>6 DEF Process

\* Until an operation on disk fails, a trace the channel took is in the channel or in
\* the table unless its process was killed: a writer that returns has emptied the
\* channel, and no sender is left to fill it again (writer_loop, offer_trace).
THEOREM SentSurvives == Spec => []SentAccountedFor
<1> DEFINE Inv == faults = 0 => SentInv
<1>1. Init => Inv
  BY DEF Init, SentInv, SentKept, LeavesNothing, LastDrain
<1>2. ChainInv /\ Inv /\ [Next]_vars => Inv'
  <2> SUFFICES ASSUME ChainInv, Inv, [Next]_vars, faults' = 0 PROVE SentInv'
    OBVIOUS
  <2>1. SentInv
    BY FaultsStay
  <2>2. CASE Writer
    BY <2>1, <2>2, WriterKeepsSentInv
  <2>3. CASE Process
    BY <2>1, <2>3, ProcessKeepsSentInv
  <2>4. ASSUME NEW t \in Trace, Task(t) PROVE SentInv'
    BY <2>1, <2>4, TaskKeepsSentInv
  <2>5. CASE UNCHANGED vars
    BY <2>1, <2>5, OthersKeepSentInv DEF vars, SentInv, LeavesNothing, LastDrain
  <2> QED BY <2>2, <2>3, <2>4, <2>5 DEF Next
<1>3. Inv => SentAccountedFor
  BY DEF SentInv, SentKept, SentAccountedFor
<1> QED BY <1>1, <1>2, <1>3, ChainInvariant, PTL DEF Spec

-------------------------------------------------------------------------------
(* Rows that repeat, whatever fails.                                       *)

Once(t) == \A i, j \in Rows(t) : i = j
MayRepeat(t) == req[t] \in {"spilled", "dropped", "cut"}
NoRepeats(s) == \A i, j \in 1..Len(s) : s[i] = s[j] => i = j

\* What waits in the channel waits there once, and has no row yet.
ChannelIsFresh ==
  /\ \A t \in Trace : InChannel(t) => req[t] = "sent" /\ ~Stored(t)
  /\ NoRepeats(chan)

\* A line in the file or in a drain is of a trace that took the spill file's way, which
\* the append may have reported as a failure.
LinesMayRepeat == \A t \in Trace : InSpill(t) \/ InLeft(t) => MayRepeat(t)

RowsAreDecided == \A t \in Trace : Stored(t) => req[t] \notin {"idle", "full"}
RepeatsAreReplays == \A t \in Trace : ~Once(t) => MayRepeat(t)

\* In a first life without a fault no drain meets a line it has drained before.
FreshLines ==
  /\ torn = FALSE /\ NoRepeats(spill)
  /\ wpc = "drain" => NoRepeats(left) /\ \A t \in Trace : InLeft(t) => ~Stored(t)
  /\ wpc \notin {"drain", "truncate"} => \A t \in Trace : InSpill(t) => ~Stored(t)

FirstLife ==
  restarts = 0 /\ faults = 0 =>
    /\ \A t \in Trace : Once(t)
    /\ phase # "down" => FreshLines

RowsKnown == ChannelIsFresh /\ LinesMayRepeat /\ RowsAreDecided /\ RepeatsAreReplays
RowsInv == RowsKnown /\ FirstLife

\* A row written, or not: only its trace gains one, and its first row is its only one.
LEMMA WriteRows ==
  ASSUME TypeOK, NEW t \in Trace, WriteTrace(t)
  PROVE  /\ \A u \in Trace : Stored(u)' => Stored(u) \/ u = t
         /\ \A u \in Trace : Once(u) /\ (u # t \/ ~Stored(u)) => Once(u)'
<1>1. CASE db' = db
  <2>1. \A u : Rows(u)' = Rows(u) /\ Stored(u)' = Stored(u)
    BY <1>1 DEF Rows, Stored
  <2> QED BY <2>1 DEF Once
<1>2. CASE db' # db
  <2>1. db' = Append(db, Seal(t, head)) /\ db \in Seq(Record) /\ Seal(t, head).payload = t
    BY <1>2 DEF WriteTrace, TypeOK, Seal
  <2>2. /\ Len(db) \in Nat /\ Len(db') = Len(db) + 1
        /\ \A i \in 1..Len(db) : db'[i] = db[i]
        /\ db'[Len(db) + 1].payload = t
    BY <2>1
  <2>3. \A u \in Trace : u # t => Rows(u)' = Rows(u)
    BY <2>2 DEF Rows
  <2>4. ~Stored(t) => Rows(t)' = {Len(db) + 1}
    BY <2>2 DEF Rows, Stored
  <2>5. \A u \in Trace : Stored(u)' => Stored(u) \/ u = t
    BY <2>2 DEF Stored
  <2> QED BY <2>3, <2>4, <2>5 DEF Once
<1> QED BY <1>1, <1>2

\* Where no row is written and no line or channel entry is added, what became of a trace
\* with a row, a line or a place in the channel does not change while it has them.
LEMMA OthersKeepRows ==
  ASSUME RowsKnown, db' = db,
         \A u \in Trace : InChannel(u)' => InChannel(u),
         NoRepeats(chan)',
         \A u \in Trace : InSpill(u)' \/ InLeft(u)' => InSpill(u) \/ InLeft(u),
         \A u \in Trace : \/ req'[u] = req[u]
                          \/ req[u] \in {"idle", "full"}
                          \/ InChannel(u) /\ ~InChannel(u)'
  PROVE  RowsKnown'
<1> USE DEF RowsKnown
<1>1. \A u \in Trace : Rows(u)' = Rows(u) /\ Stored(u)' = Stored(u)
  BY DEF Rows, Stored
<1>2. \A u \in Trace : Once(u)' = Once(u)
  BY <1>1 DEF Once
<1>3. ASSUME NEW u \in Trace, Stored(u) \/ InSpill(u) \/ InLeft(u) \/ ~Once(u) \/ InChannel(u)'
      PROVE  req'[u] = req[u]
  BY <1>3 DEF ChannelIsFresh, LinesMayRepeat, RowsAreDecided, RepeatsAreReplays, MayRepeat
<1>4. ChannelIsFresh'
  BY <1>1, <1>3 DEF ChannelIsFresh
<1>5. LinesMayRepeat'
  BY <1>3 DEF LinesMayRepeat, MayRepeat
<1>6. RowsAreDecided'
  BY <1>1, <1>3 DEF RowsAreDecided
<1>7. RepeatsAreReplays'
  BY <1>2, <1>3 DEF RepeatsAreReplays, MayRepeat
<1> QED BY <1>4, <1>5, <1>6, <1>7

\* Nor does a first life end, where file and table stay and a drain only begins anew.
LEMMA OthersKeepFirstLife ==
  ASSUME FirstLife, db' = db, spill' = spill, torn' = torn,
         restarts' = 0 /\ faults' = 0 => restarts = 0 /\ faults = 0,
         restarts' = 0 /\ phase' # "down" => phase # "down",
         faults' = 0 => 
           /\ wpc' = "drain" =>
                \/ wpc = "drain" /\ left' = left
                \/ wpc \notin {"drain", "truncate"} /\ left' = spill
           /\ wpc' \notin {"drain", "truncate"} =>
                wpc \notin {"drain", "truncate"} \/ phase' = "down" 
  PROVE  FirstLife'
<1> SUFFICES ASSUME restarts' = 0, faults' = 0
             PROVE  /\ \A t \in Trace : Once(t)'
                    /\ phase' # "down" => FreshLines'
  BY DEF FirstLife
<1>1. \A u \in Trace : Rows(u)' = Rows(u) /\ Stored(u)' = Stored(u) /\ InSpill(u)' = InSpill(u)
  BY DEF Rows, Stored, InSpill
<1>2. \A u \in Trace : Once(u)'
  BY <1>1 DEF Once, FirstLife
<1>3. ASSUME phase' # "down" PROVE FreshLines'
  <2>1. FreshLines
    BY <1>3 DEF FirstLife
  <2>2. torn' = FALSE /\ NoRepeats(spill)'
    BY <2>1 DEF FreshLines, NoRepeats
  <2>3. ASSUME wpc' = "drain"
        PROVE  NoRepeats(left)' /\ \A t \in Trace : InLeft(t)' => ~Stored(t)'
    <3>1. CASE wpc = "drain" /\ left' = left
      BY <1>1, <2>1, <3>1 DEF FreshLines, NoRepeats, InLeft
    <3>2. CASE wpc \notin {"drain", "truncate"} /\ left' = spill
      BY <1>1, <2>1, <3>2 DEF FreshLines, NoRepeats, InLeft, InSpill
    <3> QED BY <2>3, <3>1, <3>2
  <2>4. wpc' \notin {"drain", "truncate"} => \A t \in Trace : InSpill(t)' => ~Stored(t)'
    BY <1>1, <1>3, <2>1 DEF FreshLines
  <2> QED BY <2>2, <2>3, <2>4 DEF FreshLines
<1> QED BY <1>2, <1>3

\* The writer thread is gone once its process is.
Stopped == phase = "down" => wpc = "gone"

LEMMA StoppedStays ==
  ASSUME Stopped, [Next]_vars PROVE Stopped'
<1> USE DEF Stopped, diskVars, writerVars, bounds, process
<1>1. CASE Writer
  BY <1>1 DEF Writer, LoadHead, LoadHeadFails, Receive, FoundEmpty, FoundDisconnected, FoundClosed,
              DrainLine, Truncate
<1>2. CASE Process
  BY <1>2 DEF Process, CloseSenders, Crash, CrashInAppend, Perish, Exit, Start
<1>3. ASSUME NEW t \in Trace, Task(t) PROVE Stopped'
  BY <1>3 DEF Task, OfferSent, OfferFull, OfferClosed, AppendToSpill, AppendToSpillFails
<1>4. CASE UNCHANGED vars
  BY <1>4 DEF vars
<1> QED BY <1>1, <1>2, <1>3, <1>4 DEF Next

\* Entering a drain reads the lines of the file, or nothing (drain_spill).
LEMMA DrainThenKeepsRows ==
  ASSUME TypeOK, RowsInv, NEW after \in {"recv", "gone"}, DrainThen(after),
         wpc \notin {"drain", "truncate"},
         UNCHANGED <<phase, req, chan, spill, torn, db, restarts>>
  PROVE  RowsInv'
<1>1. /\ phase' = phase /\ req' = req /\ chan' = chan /\ spill' = spill /\ torn' = torn
      /\ db' = db /\ restarts' = restarts /\ faults \in Nat
  BY DEF TypeOK
<1>2. left' = left \/ left' = spill
  BY DEF DrainThen, EnterDrain
<1>3. faults' = 0 => faults = 0
  BY <1>1 DEF DrainThen, EnterDrain, Fault, NoFault
<1>4. wpc' = "drain" => left' = spill
  BY DEF DrainThen, EnterDrain
<1>5. RowsKnown'
  BY <1>1, <1>2, OthersKeepRows DEF RowsInv, RowsKnown, ChannelIsFresh, InChannel, NoRepeats, InSpill, InLeft
<1>6. FirstLife'
  BY <1>1, <1>3, <1>4, OthersKeepFirstLife DEF RowsInv
<1> QED BY <1>5, <1>6 DEF RowsInv

\* What is left of a sequence without repeats has none, nor the entry taken.
LEMMA TailNoRepeats ==
  ASSUME NEW S, NEW s \in Seq(S), s # <<>>, NoRepeats(s)
  PROVE  NoRepeats(Tail(s)) /\ \A i \in 1..Len(Tail(s)) : Tail(s)[i] # Head(s)
<1>1. /\ Len(s) \in Nat /\ Len(s) > 0 /\ Head(s) = s[1] /\ Len(Tail(s)) = Len(s) - 1
      /\ \A i \in 1..Len(Tail(s)) : Tail(s)[i] = s[i + 1]
  BY EmptySeq
<1>2. \A i \in 1..Len(Tail(s)) : i + 1 \in 1..Len(s) /\ i + 1 # 1 /\ 1 \in 1..Len(s)
  BY <1>1
<1>3. \A i \in 1..Len(Tail(s)) : Tail(s)[i] # Head(s)
  BY <1>1, <1>2 DEF NoRepeats
<1>4. \A i, k \in 1..Len(Tail(s)) : Tail(s)[i] = Tail(s)[k] => i + 1 = k + 1
  BY <1>1, <1>2 DEF NoRepeats
<1> QED BY <1>1, <1>3, <1>4 DEF NoRepeats

\* The writer writes what is in the channel once, and a line of the file as often as it
\* drains it: once, in a first life without a fault (writer_loop, drain_spill).
LEMMA WriterKeepsRows ==
  ASSUME ChainInv, Stopped, RowsInv, Writer
  PROVE  RowsInv'
<1> USE DEF diskVars, bounds, process
<1>1. TypeOK /\ faults \in Nat /\ restarts \in Nat
  BY DEF ChainInv, TypeOK
<1>2. CASE LoadHead
  BY <1>1, <1>2, DrainThenKeepsRows DEF LoadHead
<1>3. CASE FoundEmpty
  BY <1>1, <1>3, DrainThenKeepsRows DEF FoundEmpty
<1>4. CASE FoundClosed
  BY <1>1, <1>4, DrainThenKeepsRows DEF FoundClosed
<1>5. CASE LoadHeadFails
  <2>1. /\ db' = db /\ chan' = <<>> /\ spill' = spill /\ left' = left /\ faults' # 0
        /\ req' = [t \in Trace |-> IF InChannel(t) THEN "lost" ELSE req[t]]
    BY <1>1, <1>5 DEF LoadHeadFails, Fault
  <2>2. ~(\E i \in 1..Len(chan') : TRUE)
    BY <2>1
  <2>3. RowsKnown'
    BY <2>1, <2>2, OthersKeepRows DEF RowsInv, InChannel, NoRepeats, InSpill, InLeft
  <2> QED BY <2>1, <2>3 DEF RowsInv, FirstLife
<1>6. CASE FoundDisconnected
  <2>1. /\ db' = db /\ chan' = chan /\ spill' = spill /\ torn' = torn /\ left' = left
        /\ req' = req /\ phase' = phase /\ restarts' = restarts /\ faults' = faults
        /\ wpc = "fast" /\ wpc' = "gone"
    BY <1>6 DEF FoundDisconnected
  <2>2. RowsKnown'
    BY <2>1, OthersKeepRows DEF RowsInv, RowsKnown, ChannelIsFresh, InChannel, NoRepeats, InSpill, InLeft
  <2>3. FirstLife'
    BY <2>1, OthersKeepFirstLife DEF RowsInv
  <2> QED BY <2>2, <2>3 DEF RowsInv
<1>7. CASE Truncate
  <2>1. /\ db' = db /\ chan' = chan /\ left' = left /\ req' = req /\ phase' = phase
        /\ restarts' = restarts /\ wpc = "truncate" /\ wpc' \in {"recv", "gone"}
    BY <1>1, <1>7 DEF Truncate, TypeOK
  <2>2. \/ spill' = <<>> /\ torn' = FALSE /\ faults' = faults
        \/ spill' = spill /\ faults' # 0
    BY <1>1, <1>7 DEF Truncate, Fault, NoFault
  <2>3. \A u \in Trace : InSpill(u)' => InSpill(u)
    <3>1. spill' = <<>> => ~(\E i \in 1..Len(spill') : TRUE)
      OBVIOUS
    <3> QED BY <2>2, <3>1 DEF InSpill
  <2>4. RowsKnown'
    BY <2>1, <2>3, OthersKeepRows DEF RowsInv, RowsKnown, ChannelIsFresh, InChannel, NoRepeats, InLeft
  <2>5. FirstLife'
    <3>1. CASE faults' # 0
      BY <3>1 DEF FirstLife
    <3>2. CASE spill' = <<>> /\ torn' = FALSE /\ faults' = faults
      <4>1. ~(\E i \in 1..Len(spill') : TRUE)
        BY <3>2
      <4>2. FreshLines'
        BY <2>1, <3>2, <4>1 DEF FreshLines, NoRepeats, InSpill
      <4>3. \A u \in Trace : Once(u)' = Once(u)
        BY <2>1 DEF Once, Rows
      <4> QED BY <2>1, <3>2, <4>2, <4>3 DEF RowsInv, FirstLife
    <3> QED BY <2>2, <3>1, <3>2
  <2> QED BY <2>4, <2>5 DEF RowsInv
<1>8. CASE Receive
  <2>1. /\ chan \in Seq(Trace) /\ chan # <<>> /\ chan' = Tail(chan) /\ WriteTrace(Head(chan))
        /\ wpc \in {"recv", "fast"} /\ wpc' = "fast" /\ phase' = phase
        /\ req' = req /\ spill' = spill /\ torn' = torn /\ left' = left /\ restarts' = restarts
    BY <1>1, <1>8 DEF Receive, TypeOK
  <2>2. PICK t \in Trace : t = Head(chan)
    BY <2>1
  <2>3. /\ Len(chan) \in Nat /\ Len(chan) > 0 /\ chan[1] = t /\ Len(chan') = Len(chan) - 1
        /\ \A i \in 1..Len(chan') : chan'[i] = chan[i + 1]
    BY <2>1, <2>2, EmptySeq
  <2>4. NoRepeats(Tail(chan)) /\ \A i \in 1..Len(Tail(chan)) : Tail(chan)[i] # Head(chan)
    BY <2>1, TailNoRepeats DEF RowsInv, RowsKnown, ChannelIsFresh
  <2>5. InChannel(t) /\ ~InChannel(t)' /\ (\A u \in Trace : InChannel(u)' => InChannel(u))
        /\ NoRepeats(chan)'
    <3>1. InChannel(t) /\ \A u \in Trace : InChannel(u)' => InChannel(u)
      BY <2>3 DEF InChannel
    <3>2. ~InChannel(t)' /\ NoRepeats(chan)'
      BY <2>1, <2>2, <2>4 DEF InChannel, NoRepeats
    <3> QED BY <3>1, <3>2
  <2>6. /\ \A u \in Trace : Stored(u)' => Stored(u) \/ u = t
        /\ \A u \in Trace : Once(u) /\ (u # t \/ ~Stored(u)) => Once(u)'
    BY <1>1, <2>1, <2>2, WriteRows
  <2>7. req[t] = "sent" /\ ~Stored(t) /\ Once(t) /\ ~InSpill(t)
    BY <2>5 DEF RowsInv, RowsKnown, ChannelIsFresh, RepeatsAreReplays, LinesMayRepeat, MayRepeat
  <2>8. ChannelIsFresh'
    BY <2>1, <2>5, <2>6 DEF RowsInv, RowsKnown, ChannelIsFresh
  <2>9. LinesMayRepeat'
    BY <2>1 DEF RowsInv, RowsKnown, LinesMayRepeat, MayRepeat, InSpill, InLeft
  <2>10. RowsAreDecided'
    BY <2>1, <2>6, <2>7 DEF RowsInv, RowsKnown, RowsAreDecided
  <2>11. RepeatsAreReplays'
    BY <2>1, <2>6, <2>7 DEF RowsInv, RowsKnown, RepeatsAreReplays, MayRepeat
  <2>12. FirstLife'
    <3> SUFFICES ASSUME restarts' = 0, faults' = 0
                 PROVE  (\A u \in Trace : Once(u)') /\ (phase' # "down" => FreshLines')
      BY DEF FirstLife
    <3>1. faults = 0
      BY <1>1, <2>1 DEF WriteTrace, Fault, NoFault
    <3>2. \A u \in Trace : Once(u)'
      BY <2>1, <2>6, <2>7, <3>1 DEF RowsInv, FirstLife
    <3>3. ASSUME phase' # "down" PROVE FreshLines'
      <4>1. FreshLines /\ wpc \notin {"drain", "truncate"}
        BY <2>1, <3>1, <3>3 DEF RowsInv, FirstLife
      <4>2. \A u \in Trace : InSpill(u)' = InSpill(u)
        BY <2>1 DEF InSpill
      <4>3. \A u \in Trace : InSpill(u)' => ~Stored(u)'
        BY <2>6, <2>7, <4>1, <4>2 DEF FreshLines
      <4>4. torn' = FALSE /\ NoRepeats(spill)'
        BY <2>1, <4>1 DEF FreshLines, NoRepeats
      <4> QED BY <2>1, <4>3, <4>4 DEF FreshLines
    <3> QED BY <3>2, <3>3
  <2> QED BY <2>8, <2>9, <2>10, <2>11, <2>12 DEF RowsInv, RowsKnown
<1>9. CASE DrainLine
  <2>1. /\ left \in Seq(Trace \cup {Garbage}) /\ left # <<>> /\ left' = Tail(left)
        /\ wpc = "drain" /\ wpc' = (IF Len(left) = 1 THEN "truncate" ELSE "drain") /\ phase' = phase
        /\ req' = req /\ spill' = spill /\ torn' = torn /\ chan' = chan /\ restarts' = restarts
    BY <1>1, <1>9 DEF DrainLine, TypeOK, ChainInv, DrainHasLines
  <2>2. /\ Len(left) \in Nat /\ Len(left) > 0 /\ Head(left) = left[1] /\ Len(left') = Len(left) - 1
        /\ \A i \in 1..Len(left') : left'[i] = left[i + 1]
    BY <2>1, EmptySeq
  <2>3. /\ \A u : InLeft(u)' => InLeft(u)
        /\ InLeft(Head(left))
    BY <2>2 DEF InLeft
  <2>4. CASE Head(left) = Garbage
    <3>1. db' = db /\ faults' = faults
      BY <1>9, <2>4, GarbageAssumption, <2>1 DEF DrainLine
    <3>2. RowsKnown'
      BY <2>1, <2>3, <3>1, OthersKeepRows
         DEF RowsInv, RowsKnown, ChannelIsFresh, InChannel, NoRepeats, InSpill
    <3>3. FirstLife'
      <4> SUFFICES ASSUME restarts' = 0, faults' = 0
                   PROVE  (\A u \in Trace : Once(u)') /\ (phase' # "down" => FreshLines')
        BY DEF FirstLife
      <4>1. \A u \in Trace : Rows(u)' = Rows(u) /\ Stored(u)' = Stored(u)
        BY <3>1 DEF Rows, Stored
      <4>2. \A u \in Trace : Once(u)'
        BY <2>1, <3>1, <4>1 DEF RowsInv, FirstLife, Once
      <4>3. ASSUME phase' # "down" PROVE FreshLines'
        <5>1. FreshLines
          BY <2>1, <3>1, <4>3 DEF RowsInv, FirstLife
        <5>2. NoRepeats(Tail(left))
          BY <2>1, <5>1, TailNoRepeats DEF FreshLines
        <5>3. NoRepeats(left)'
          BY <2>1, <5>2 DEF NoRepeats
        <5> QED BY <2>1, <2>3, <4>1, <5>1, <5>3 DEF FreshLines, NoRepeats, InSpill
      <4> QED BY <4>2, <4>3
    <3> QED BY <3>2, <3>3 DEF RowsInv
  <2>5. CASE Head(left) # Garbage
    <3>1. PICK t \in Trace : t = Head(left) /\ WriteTrace(t)
      BY <1>9, <2>1, <2>5 DEF DrainLine
    <3>2. /\ \A u \in Trace : Stored(u)' => Stored(u) \/ u = t
          /\ \A u \in Trace : Once(u) /\ (u # t \/ ~Stored(u)) => Once(u)'
      BY <1>1, <3>1, WriteRows
    <3>3. MayRepeat(t) /\ ~InChannel(t)
      BY <2>3, <3>1 DEF RowsInv, RowsKnown, LinesMayRepeat, MayRepeat, ChannelIsFresh
    <3>4. ChannelIsFresh'
      BY <2>1, <3>2, <3>3 DEF RowsInv, RowsKnown, ChannelIsFresh, InChannel, NoRepeats
    <3>5. LinesMayRepeat'
      BY <2>1, <2>3 DEF RowsInv, RowsKnown, LinesMayRepeat, MayRepeat, InSpill
    <3>6. RowsAreDecided'
      BY <2>1, <3>2, <3>3 DEF RowsInv, RowsKnown, RowsAreDecided, MayRepeat
    <3>7. RepeatsAreReplays'
      BY <2>1, <3>2, <3>3 DEF RowsInv, RowsKnown, RepeatsAreReplays, MayRepeat
    <3>8. FirstLife'
      <4> SUFFICES ASSUME restarts' = 0, faults' = 0
                   PROVE  (\A u \in Trace : Once(u)') /\ (phase' # "down" => FreshLines')
        BY DEF FirstLife
      <4>1. faults = 0
        BY <1>1, <3>1 DEF WriteTrace, Fault, NoFault
      <4>2. CASE phase = "down"
        BY <2>1, <4>2 DEF Stopped
      <4>3. CASE phase # "down"
        <5>1. FreshLines /\ NoRepeats(left) /\ ~Stored(t)
          BY <2>1, <2>3, <3>1, <4>1, <4>3 DEF RowsInv, FirstLife, FreshLines
        <5>2. \A u \in Trace : Once(u)'
          BY <2>1, <3>2, <4>1, <5>1 DEF RowsInv, FirstLife
        <5>3. NoRepeats(left)' /\ ~InLeft(t)'
          <6>1. NoRepeats(Tail(left)) /\ \A i \in 1..Len(Tail(left)) : Tail(left)[i] # t
            BY <2>1, <3>1, <5>1, TailNoRepeats
          <6> QED BY <2>1, <6>1 DEF InLeft, NoRepeats
        <5>4. \A u \in Trace : InLeft(u)' => ~Stored(u)'
          BY <2>1, <2>3, <3>2, <5>1, <5>3 DEF FreshLines
        <5> QED BY <2>1, <5>1, <5>2, <5>3, <5>4 DEF FreshLines, NoRepeats
      <4> QED BY <4>2, <4>3
    <3> QED BY <3>4, <3>5, <3>6, <3>7, <3>8 DEF RowsInv, RowsKnown
  <2> QED BY <2>4, <2>5
<1> QED BY <1>2, <1>3, <1>4, <1>5, <1>6, <1>7, <1>8, <1>9 DEF Writer

\* A new line in the file is the one that was put there.
LEMMA WithLineMembers ==
  ASSUME TypeOK, NEW t \in Trace, NEW line \in {t, Garbage}, spill' = WithLine(line)
  PROVE  \A u \in Trace : InSpill(u)' => InSpill(u) \/ u = t
<1>1. spill \in Seq(Trace \cup {Garbage})
  BY DEF TypeOK
<1>2. CASE torn
  <2>1. /\ Len(spill') = Len(spill)
        /\ \A i \in 1..Len(spill) : spill'[i] \in {spill[i], Garbage}
    BY <1>1, <1>2 DEF WithLine
  <2> QED BY <2>1, GarbageAssumption DEF InSpill
<1>3. CASE ~torn
  <2>1. /\ Len(spill) \in Nat /\ Len(spill') = Len(spill) + 1 /\ spill'[Len(spill) + 1] \in {t, Garbage}
        /\ \A i \in 1..Len(spill) : spill'[i] = spill[i]
    BY <1>1, <1>3 DEF WithLine
  <2> QED BY <2>1, GarbageAssumption DEF InSpill
<1> QED BY <1>2, <1>3

\* A request task accepts a trace that has no row, no line and no place yet, and an append
\* that fails leaves a line only of a trace reported dropped (offer_trace, append_to_spill).
LEMMA TaskKeepsRows ==
  ASSUME ChainInv, RowsInv, NEW t \in Trace, Task(t)
  PROVE  RowsInv'
<1> USE DEF diskVars, writerVars, bounds, process, Becomes
<1>1. TypeOK /\ faults \in Nat /\ req \in [Trace -> Outcome]
  BY DEF ChainInv, TypeOK
<1>2. ASSUME UNCHANGED <<phase, chan, spill, torn, db, wpc, left, restarts, faults>>,
             req[t] = "idle", \A u \in Trace : u # t => req'[u] = req[u]
      PROVE  RowsInv'
  <2>1. RowsKnown'
    BY <1>2, OthersKeepRows DEF RowsInv, RowsKnown, ChannelIsFresh, InChannel, NoRepeats, InSpill, InLeft
  <2>2. FirstLife'
    BY <1>2, OthersKeepFirstLife DEF RowsInv
  <2> QED BY <2>1, <2>2 DEF RowsInv
<1>3. CASE OfferFull(t)
  BY <1>1, <1>2, <1>3 DEF OfferFull
<1>4. CASE OfferClosed(t)
  BY <1>1, <1>2, <1>4 DEF OfferClosed
<1>5. ASSUME req[t] \in {"idle", "full"}
      PROVE  ~Stored(t) /\ ~InSpill(t) /\ ~InLeft(t) /\ Once(t) /\ ~InChannel(t)
  BY <1>5 DEF RowsInv, RowsKnown, ChannelIsFresh, LinesMayRepeat, RowsAreDecided, RepeatsAreReplays,
              MayRepeat
<1>6. CASE OfferSent(t)
  <2>1. /\ chan \in Seq(Trace) /\ chan' = Append(chan, t) /\ req[t] = "idle"
        /\ req' = [req EXCEPT ![t] = "sent"]
        /\ phase' = phase /\ spill' = spill /\ torn' = torn /\ db' = db /\ wpc' = wpc
        /\ left' = left /\ restarts' = restarts /\ faults' = faults
    BY <1>1, <1>6 DEF OfferSent, TypeOK
  <2>2. \A u \in Trace : req'[u] = IF u = t THEN "sent" ELSE req[u]
    BY <1>1, <2>1
  <2>3. \A u \in Trace : /\ Rows(u)' = Rows(u) /\ Stored(u)' = Stored(u)
                         /\ InSpill(u)' = InSpill(u) /\ InLeft(u)' = InLeft(u)
    BY <2>1 DEF Rows, Stored, InSpill, InLeft
  <2>4. /\ Len(chan) \in Nat /\ Len(chan') = Len(chan) + 1 /\ chan'[Len(chan) + 1] = t
        /\ \A i \in 1..Len(chan) : chan'[i] = chan[i]
    BY <2>1
  <2>5. \A u \in Trace : InChannel(u)' => InChannel(u) \/ u = t
    BY <2>4 DEF InChannel
  <2>6. NoRepeats(chan)'
    <3>1. \A i \in 1..Len(chan) : chan[i] # t
      BY <1>5, <2>1 DEF InChannel
    <3>2. NoRepeats(chan)
      BY DEF RowsInv, RowsKnown, ChannelIsFresh
    <3> QED BY <2>4, <3>1, <3>2 DEF NoRepeats
  <2>7. ChannelIsFresh'
    BY <1>5, <2>1, <2>2, <2>3, <2>5, <2>6 DEF RowsInv, RowsKnown, ChannelIsFresh
  <2>8. LinesMayRepeat'
    BY <1>5, <2>1, <2>2, <2>3 DEF RowsInv, RowsKnown, LinesMayRepeat, MayRepeat
  <2>9. RowsAreDecided'
    BY <2>1, <2>2, <2>3 DEF RowsInv, RowsKnown, RowsAreDecided
  <2>10. RepeatsAreReplays'
    <3>1. \A u \in Trace : Once(u)' = Once(u)
      BY <2>3 DEF Once
    <3> QED BY <1>5, <2>1, <2>2, <3>1 DEF RowsInv, RowsKnown, RepeatsAreReplays, MayRepeat
  <2>11. FirstLife'
    BY <2>1, OthersKeepFirstLife DEF RowsInv
  <2> QED BY <2>7, <2>8, <2>9, <2>10, <2>11 DEF RowsInv, RowsKnown
<1>7. ASSUME req[t] = "full", \E result \in {"spilled", "dropped"} : req' = [req EXCEPT ![t] = result],
             UNCHANGED <<phase, chan, db, wpc, left, restarts>>,
             \A u \in Trace : InSpill(u)' => InSpill(u) \/ u = t
      PROVE  RowsKnown'
  <2>1. MayRepeat(t)' /\ \A u \in Trace : u # t => req'[u] = req[u]
    BY <1>1, <1>7 DEF MayRepeat
  <2>2. chan' = chan /\ db' = db /\ left' = left
    BY <1>7
  <2>3. \A u \in Trace : /\ Rows(u)' = Rows(u) /\ Stored(u)' = Stored(u)
                         /\ InChannel(u)' = InChannel(u) /\ InLeft(u)' = InLeft(u)
    BY <2>2 DEF Rows, Stored, InChannel, InLeft
  <2>4. ChannelIsFresh'
    BY <1>5, <1>7, <2>1, <2>2, <2>3 DEF RowsInv, RowsKnown, ChannelIsFresh, NoRepeats
  <2>5. LinesMayRepeat'
    BY <1>7, <2>1, <2>3 DEF RowsInv, RowsKnown, LinesMayRepeat, MayRepeat
  <2>6. RowsAreDecided'
    BY <2>1, <2>3 DEF RowsInv, RowsKnown, RowsAreDecided, MayRepeat
  <2>7. RepeatsAreReplays'
    <3>1. \A u \in Trace : Once(u)' = Once(u)
      BY <2>3 DEF Once
    <3> QED BY <2>1, <3>1 DEF RowsInv, RowsKnown, RepeatsAreReplays, MayRepeat
  <2> QED BY <2>4, <2>5, <2>6, <2>7 DEF RowsKnown
<1>9. CASE AppendToSpill(t)
  <2>1. /\ req[t] = "full" /\ ~SpillLocked /\ spill' = WithLine(t) /\ torn' = FALSE
        /\ req' = [req EXCEPT ![t] = "spilled"] /\ spill \in Seq(Trace \cup {Garbage})
        /\ phase' = phase /\ chan' = chan /\ db' = db /\ wpc' = wpc
        /\ left' = left /\ restarts' = restarts /\ faults' = faults
    BY <1>1, <1>9 DEF AppendToSpill, TypeOK
  <2>2. \A u \in Trace : InSpill(u)' => InSpill(u) \/ u = t
    BY <1>1, <2>1, WithLineMembers
  <2>3. RowsKnown'
    BY <1>7, <2>1, <2>2
  <2>4. FirstLife'
    <3> SUFFICES ASSUME restarts' = 0, faults' = 0
                 PROVE  (\A u \in Trace : Once(u)') /\ (phase' # "down" => FreshLines')
      BY DEF FirstLife
    <3>1. \A u \in Trace : Rows(u)' = Rows(u) /\ Stored(u)' = Stored(u)
      BY <2>1 DEF Rows, Stored
    <3>2. \A u \in Trace : Once(u)'
      BY <2>1, <3>1 DEF RowsInv, FirstLife, Once
    <3>3. ASSUME phase' # "down" PROVE FreshLines'
      <4>1. FreshLines
        BY <2>1, <3>3 DEF RowsInv, FirstLife
      <4>2. /\ Len(spill) \in Nat /\ Len(spill') = Len(spill) + 1 /\ spill'[Len(spill) + 1] = t
            /\ \A i \in 1..Len(spill) : spill'[i] = spill[i]
        BY <2>1, <4>1 DEF WithLine, FreshLines
      <4>3. \A i \in 1..Len(spill) : spill[i] # t
        BY <1>5, <2>1 DEF InSpill
      <4>4. NoRepeats(spill)'
        BY <4>1, <4>2, <4>3 DEF FreshLines, NoRepeats
      <4>5. \A u \in Trace : InSpill(u)' => ~Stored(u)'
        BY <1>5, <2>1, <2>2, <3>1, <4>1 DEF FreshLines, SpillLocked
      <4> QED BY <2>1, <4>4, <4>5 DEF FreshLines, SpillLocked
    <3> QED BY <3>2, <3>3
  <2> QED BY <2>3, <2>4 DEF RowsInv
<1>10. CASE AppendToSpillFails(t)
  <2>1. /\ req[t] = "full" /\ req' = [req EXCEPT ![t] = "dropped"] /\ faults' # 0
        /\ phase' = phase /\ chan' = chan /\ db' = db /\ wpc' = wpc
        /\ left' = left /\ restarts' = restarts
    BY <1>1, <1>10 DEF AppendToSpillFails, Fault
  <2>2. spill' = spill \/ spill' = WithLine(t) \/ spill' = WithLine(Garbage)
    BY <1>10 DEF AppendToSpillFails
  <2>3. \A u \in Trace : InSpill(u)' => InSpill(u) \/ u = t
    <3>1. CASE spill' = spill
      BY <3>1 DEF InSpill
    <3> QED BY <1>1, <2>2, <3>1, WithLineMembers
  <2>4. RowsKnown'
    BY <1>7, <2>1, <2>3
  <2> QED BY <2>1, <2>4 DEF RowsInv, FirstLife
<1> QED BY <1>3, <1>4, <1>6, <1>9, <1>10 DEF Task

\* A stop takes the channel and what was read of the file; a start is no first life.
LEMMA ProcessKeepsRows ==
  ASSUME ChainInv, RowsInv, Process
  PROVE  RowsInv'
<1> USE DEF diskVars, writerVars, bounds, process
<1>1. restarts \in Nat /\ faults \in Nat
  BY DEF ChainInv, TypeOK
<1>2. CASE CloseSenders
  <2>1. /\ db' = db /\ chan' = chan /\ spill' = spill /\ torn' = torn /\ left' = left
        /\ req' = req /\ wpc' = wpc /\ restarts' = restarts /\ faults' = faults /\ phase = "up"
    BY <1>2 DEF CloseSenders
  <2>2. RowsKnown'
    BY <2>1, OthersKeepRows DEF RowsInv, RowsKnown, ChannelIsFresh, InChannel, NoRepeats, InSpill, InLeft
  <2>3. FirstLife'
    BY <2>1, OthersKeepFirstLife DEF RowsInv
  <2> QED BY <2>2, <2>3 DEF RowsInv
<1>3. ASSUME chan' = <<>>, left' \in {left, <<>>}, spill' = spill, db' = db, torn' = torn,
             phase' = "down", wpc' = "gone", restarts' = restarts, faults' = faults,
             \A u \in Trace : req'[u] = req[u] \/ req[u] = "full" \/ InChannel(u)
      PROVE  RowsInv'
  <2>1. ~(\E i \in 1..Len(chan') : TRUE) /\ (left' = <<>> => ~(\E i \in 1..Len(left') : TRUE))
    BY <1>3
  <2>2. \A u \in Trace : ~InChannel(u)' /\ (InLeft(u)' => InLeft(u)) /\ InSpill(u)' = InSpill(u)
    BY <1>3, <2>1 DEF InChannel, InLeft, InSpill
  <2>3. NoRepeats(chan)'
    BY <2>1 DEF NoRepeats
  <2>4. RowsKnown'
    BY <1>3, <2>2, <2>3, OthersKeepRows DEF RowsInv
  <2>5. FirstLife'
    BY <1>3, OthersKeepFirstLife DEF RowsInv
  <2> QED BY <2>4, <2>5 DEF RowsInv
<1>4. CASE Crash
  <2>1. /\ chan' = <<>> /\ left' = <<>> /\ spill' = spill /\ db' = db /\ torn' = torn
        /\ phase' = "down" /\ wpc' = "gone" /\ restarts' = restarts /\ faults' = faults
    BY <1>4 DEF Crash, Perish
  <2>2. \A u \in Trace : req'[u] = req[u] \/ req[u] = "full" \/ InChannel(u)
    BY <1>4 DEF Crash, Perish
  <2> QED BY <1>3, <2>1, <2>2
<1>7. ASSUME NEW t \in Trace, CrashInAppend(t) PROVE RowsInv'
  <2>1. /\ chan' = <<>> /\ left' = <<>> /\ db' = db /\ phase' = "down" /\ restarts' = restarts
        /\ faults' = faults /\ req[t] = "full"
    BY <1>7 DEF CrashInAppend, Perish
  <2>2. \A u \in Trace : req'[u] = IF u = t THEN "cut"
                                   ELSE IF req[u] = "full" \/ InChannel(u) THEN "lost"
                                   ELSE req[u]
    BY <1>7 DEF CrashInAppend, Perish
  <2>3. \A u \in Trace : InSpill(u)' => InSpill(u) \/ u = t
    <3>1. PICK line \in {t, Garbage} : spill' = WithLine(line)
      BY <1>7 DEF CrashInAppend
    <3> QED BY <3>1, WithLineMembers DEF ChainInv
  <2>4. Len(chan') = 0 /\ Len(left') = 0
    BY <2>1
  <2>5. \A u \in Trace : ~InChannel(u)' /\ ~InLeft(u)'
    BY <2>4 DEF InChannel, InLeft
  <2>6. \A u \in Trace : Rows(u)' = Rows(u) /\ Stored(u)' = Stored(u)
    BY <2>1 DEF Rows, Stored
  <2>7. \A u \in Trace : Once(u)' = Once(u)
    BY <2>6 DEF Once
  <2>8. ASSUME NEW u \in Trace, Stored(u) \/ InSpill(u) \/ ~Once(u)
        PROVE  u # t /\ req'[u] = req[u]
    BY <2>1, <2>2, <2>8
       DEF RowsInv, RowsKnown, ChannelIsFresh, LinesMayRepeat, RowsAreDecided, RepeatsAreReplays,
           MayRepeat
  <2>9. ChannelIsFresh'
    BY <2>4, <2>5 DEF ChannelIsFresh, NoRepeats
  <2>10. LinesMayRepeat'
    BY <2>2, <2>3, <2>5, <2>8 DEF RowsInv, RowsKnown, LinesMayRepeat, MayRepeat
  <2>11. RowsAreDecided'
    BY <2>6, <2>8 DEF RowsInv, RowsKnown, RowsAreDecided
  <2>12. RepeatsAreReplays'
    BY <2>7, <2>8 DEF RowsInv, RowsKnown, RepeatsAreReplays, MayRepeat
  <2>13. FirstLife'
    BY <2>1, <2>7 DEF RowsInv, FirstLife
  <2> QED BY <2>9, <2>10, <2>11, <2>12, <2>13 DEF RowsInv, RowsKnown
<1>5. CASE Exit
  <2>1. /\ chan' = <<>> /\ left' = left /\ spill' = spill /\ db' = db /\ torn' = torn
        /\ phase' = "down" /\ wpc' = "gone" /\ restarts' = restarts /\ faults' = faults /\ req' = req
    BY <1>5 DEF Exit
  <2> QED BY <1>3, <2>1
<1>6. CASE Start
  <2>1. /\ db' = db /\ chan' = chan /\ spill' = spill /\ left' = left /\ req' = req
        /\ restarts' # 0
    BY <1>1, <1>6 DEF Start
  <2>2. RowsKnown'
    BY <2>1, OthersKeepRows DEF RowsInv, RowsKnown, ChannelIsFresh, InChannel, NoRepeats, InSpill, InLeft
  <2> QED BY <2>1, <2>2 DEF RowsInv, FirstLife
<1> QED BY <1>2, <1>4, <1>5, <1>6, <1>7 DEF Process

\* Two rows are two: a set without two members has at most one.
LEMMA OnceIsOne ==
  ASSUME NEW t \in Trace, Once(t)
  PROVE  ~(Cardinality(Rows(t)) > 1)
<1>1. CASE Rows(t) = {}
  BY <1>1, FS_EmptySet
<1>2. CASE Rows(t) # {}
  <2>1. PICK i \in Rows(t) : Rows(t) = {i}
    BY <1>2 DEF Once
  <2>2. Cardinality(Rows(t)) = 1
    BY <2>1, FS_Singleton
  <2> QED BY <2>2
<1> QED BY <1>1, <1>2

\* A trace the channel took never has two rows, whatever fails and restarts; one that took
\* the spill file's way has two only once a process was killed or an operation failed: a
\* replay repeats lines of the file, and nothing else repeats (drain_spill's truncation).
THEOREM OnlyReplayDuplicates == Spec => []DuplicatesOnlyByReplay
<1> DEFINE Inv == Stopped /\ RowsInv
<1>1. Init => Inv
  <2> SUFFICES ASSUME Init PROVE Stopped /\ RowsInv
    OBVIOUS
  <2>1. /\ chan = <<>> /\ spill = <<>> /\ db = <<>> /\ left = <<>> /\ torn = FALSE
        /\ wpc = "load" /\ phase = "up"
    BY DEF Init
  <2>2. Len(chan) = 0 /\ Len(spill) = 0 /\ Len(db) = 0 /\ Len(left) = 0
    BY <2>1
  <2>3. \A t \in Trace : ~InChannel(t) /\ ~InSpill(t) /\ ~InLeft(t) /\ ~Stored(t) /\ Once(t)
    BY <2>2 DEF InChannel, InSpill, InLeft, Stored, Once, Rows
  <2>4. NoRepeats(chan) /\ NoRepeats(spill)
    BY <2>2 DEF NoRepeats
  <2>5. RowsKnown
    BY <2>3, <2>4 DEF RowsKnown, ChannelIsFresh, LinesMayRepeat, RowsAreDecided, RepeatsAreReplays
  <2>6. FirstLife
    BY <2>1, <2>3, <2>4 DEF FirstLife, FreshLines
  <2> QED BY <2>1, <2>5, <2>6 DEF Stopped, RowsInv
<1>2. ChainInv /\ Inv /\ [Next]_vars => Inv'
  <2> SUFFICES ASSUME ChainInv, Stopped, RowsInv, [Next]_vars PROVE Stopped' /\ RowsInv'
    OBVIOUS
  <2>0. Stopped'
    BY StoppedStays
  <2> SUFFICES RowsInv'
    BY <2>0
  <2>1. CASE Writer
    BY <2>1, WriterKeepsRows
  <2>2. CASE Process
    BY <2>2, ProcessKeepsRows
  <2>3. ASSUME NEW t \in Trace, Task(t) PROVE RowsInv'
    BY <2>3, TaskKeepsRows
  <2>4. CASE UNCHANGED vars
    <3>1. /\ db' = db /\ chan' = chan /\ spill' = spill /\ torn' = torn /\ left' = left
          /\ req' = req /\ wpc' = wpc /\ restarts' = restarts /\ faults' = faults /\ phase' = phase
      BY <2>4 DEF vars
    <3>2. RowsKnown'
      BY <3>1, OthersKeepRows DEF RowsInv, RowsKnown, ChannelIsFresh, InChannel, NoRepeats, InSpill,
                                   InLeft
    <3>3. FirstLife'
      BY <3>1, OthersKeepFirstLife DEF RowsInv
    <3> QED BY <3>2, <3>3 DEF RowsInv
  <2> QED BY <2>1, <2>2, <2>3, <2>4 DEF Next
<1>3. ChainInv /\ Inv => DuplicatesOnlyByReplay
  <2> SUFFICES ASSUME ChainInv, RowsInv, NEW t \in Trace, Cardinality(Rows(t)) > 1
               PROVE  req[t] \in {"spilled", "dropped", "cut"} /\ restarts + faults > 0
    BY DEF DuplicatesOnlyByReplay
  <2>1. ~Once(t)
    BY OnceIsOne
  <2>2. ~(restarts = 0 /\ faults = 0) /\ restarts \in Nat /\ faults \in Nat
    BY <2>1, BoundAssumption DEF RowsInv, FirstLife, ChainInv, TypeOK
  <2> QED BY <2>1, <2>2 DEF RowsInv, RowsKnown, RepeatsAreReplays, MayRepeat
<1> QED BY <1>1, <1>2, <1>3, ChainInvariant, PTL DEF Spec

-------------------------------------------------------------------------------
(* The order of receipts, with a disk that does not fail.                  *)

\* A trace is accepted once, and what became of it says which way it went.
WayIsKnown ==
  /\ \A i, j \in 1..Len(acc) : acc[i].trace = acc[j].trace => i = j
  /\ \A i \in 1..Len(acc) :
       /\ acc[i].via = "spill" => req[acc[i].trace] = "spilled"
       /\ acc[i].via = "channel" => req[acc[i].trace] \in {"sent", "lost"}

\* The traces of s stand in it as they were accepted in a.
InOrder(s, a) ==
  \A p, q \in 1..Len(s), i, j \in 1..Len(a) :
    p < q /\ s[p] = a[i].trace /\ s[q] = a[j].trace => i < j

\* While a trace u waits in the channel, no trace v the channel took later has a row.
ChannelCatchesUp ==
  \A i, j \in 1..Len(acc), u, v \in Trace :
    /\ i < j /\ acc[i].via = "channel" /\ acc[j].via = "channel"
    /\ acc[i].trace = u /\ acc[j].trace = v /\ InChannel(u)
    => ~Stored(v)

\* While an earlier line u is in the file, a later one v has a row only if u has.
SpillCatchesUp ==
  \A i, j \in 1..Len(acc), u, v \in Trace :
    /\ i < j /\ acc[i].via = "spill" /\ acc[j].via = "spill"
    /\ acc[i].trace = u /\ acc[j].trace = v /\ InSpill(u) /\ Stored(v)
    => Stored(u)

\* What a drain has left is the end of the file, and what it passed has rows.
DrainPosition ==
  wpc = "drain" =>
    /\ Len(left) <= Len(spill)
    /\ \A k \in 1..Len(left) : left[k] = spill[Len(spill) - Len(left) + k]
    /\ \A p \in 1..(Len(spill) - Len(left)), u \in Trace : spill[p] = u => Stored(u)

\* The order of the first rows of u and v, traces that took the same way.
Ordered ==
  \A i, j \in 1..Len(acc), u, v \in Trace :
    /\ i < j /\ acc[i].via = acc[j].via
    /\ acc[i].trace = u /\ acc[j].trace = v /\ Stored(u) /\ Stored(v)
    => First(u) < First(v)

OrderInv ==
  /\ WayIsKnown /\ InOrder(chan, acc) /\ InOrder(spill, acc)
  /\ ChannelCatchesUp /\ SpillCatchesUp /\ DrainPosition /\ Ordered

\* The least of a set of rows is the one with a row before every other.
FirstOf(S) == CHOOSE i \in S : \A j \in S : i <= j

LEMMA FirstOfIs ==
  ASSUME NEW S \in SUBSET Nat, NEW m \in S, \A j \in S : m <= j
  PROVE  FirstOf(S) = m
<1>1. FirstOf(S) \in S /\ \A j \in S : FirstOf(S) <= j
  BY DEF FirstOf
<1>2. FirstOf(S) <= m /\ m <= FirstOf(S) /\ FirstOf(S) \in Nat /\ m \in Nat
  BY <1>1
<1> QED BY <1>2

LEMMA SomeFirst ==
  ASSUME NEW S \in SUBSET Nat, S # {}
  PROVE  FirstOf(S) \in S /\ \A j \in S : FirstOf(S) <= j
<1>1. PICK m \in S : \A k \in S : ~(<<k, m>> \in OpToRel(<, Nat))
  <2>1. \E m \in S : \A k \in S : ~(<<k, m>> \in OpToRel(<, Nat))
    BY NatLessThanWellFounded, WFMin
  <2> QED BY <2>1
<1>2. \A k \in S : ~(k < m)
  BY <1>1 DEF OpToRel
<1>3. \A k \in S : m <= k
  BY <1>2
<1> QED BY <1>3 DEF FirstOf

\* A row written after others is no trace's first if the trace has one before.
LEMMA WriteFirst ==
  ASSUME faults' = 0, TypeOK, NEW t \in Trace, WriteTrace(t)
  PROVE  /\ \A u \in Trace : Stored(u) => First(u)' = First(u) /\ First(u) \in 1..Len(db)
         /\ ~Stored(t) => First(t)' = Len(db) + 1
         /\ \A u \in Trace : Stored(u)' <=> Stored(u) \/ u = t
<1>1. db' = Append(db, Seal(t, head)) /\ db \in Seq(Record) /\ Seal(t, head).payload = t
  BY DEF WriteTrace, Fault, TypeOK, Seal
<1>2. /\ Len(db) \in Nat /\ Len(db') = Len(db) + 1
      /\ \A i \in 1..Len(db) : db'[i] = db[i]
      /\ db'[Len(db) + 1].payload = t
  BY <1>1
<1>3. \A u \in Trace : /\ Rows(u) \subseteq 1..Len(db)
                       /\ Rows(u)' = IF u = t THEN Rows(u) \cup {Len(db) + 1} ELSE Rows(u)
                       /\ Stored(u) <=> Rows(u) # {}
                       /\ Stored(u)' <=> Rows(u)' # {}
  BY <1>2 DEF Rows, Stored
<1>4. \A u : First(u) = FirstOf(Rows(u)) /\ First(u)' = FirstOf(Rows(u)')
  BY DEF First, FirstOf
<1>5. ASSUME NEW u \in Trace, Stored(u)
      PROVE  First(u)' = First(u) /\ First(u) \in 1..Len(db)
  <2>1. First(u) \in Rows(u) /\ (\A j \in Rows(u) : First(u) <= j) /\ Rows(u) \in SUBSET Nat
    BY <1>2, <1>3, <1>4, <1>5, SomeFirst
  <2>2. /\ First(u) \in Rows(u)' /\ Rows(u)' \in SUBSET Nat
        /\ \A j \in Rows(u)' : First(u) <= j
    BY <1>2, <1>3, <2>1
  <2>3. FirstOf(Rows(u)') = First(u)
    BY <2>2, FirstOfIs
  <2> QED BY <1>3, <1>4, <2>1, <2>3
<1>6. ASSUME ~Stored(t) PROVE First(t)' = Len(db) + 1
  <2>1. Rows(t)' = {Len(db) + 1} /\ Len(db) + 1 \in Nat
    BY <1>2, <1>3, <1>6
  <2>2. FirstOf({Len(db) + 1}) = Len(db) + 1
    BY <2>1, FirstOfIs
  <2> QED BY <1>4, <2>1, <2>2
<1>7. \A u \in Trace : Stored(u)' <=> Stored(u) \/ u = t
  BY <1>3
<1> QED BY <1>5, <1>6, <1>7

\* Writing a trace keeps the order of first rows, if it has one already or none accepted
\* after it on its way has.
LEMMA WriteKeepsOrdered ==
  ASSUME faults' = 0, TypeOK, NEW t \in Trace, WriteTrace(t), acc' = acc, WayIsKnown, Ordered,
         ~Stored(t) => \A i, j \in 1..Len(acc), v \in Trace :
           i < j /\ acc[i].via = acc[j].via /\ acc[i].trace = t /\ acc[j].trace = v => ~Stored(v)
  PROVE  Ordered'
<1> SUFFICES ASSUME NEW i \in 1..Len(acc), NEW j \in 1..Len(acc),
                    NEW u \in Trace, NEW v \in Trace, i < j, acc[i].via = acc[j].via,
                    acc[i].trace = u, acc[j].trace = v, Stored(u)', Stored(v)'
             PROVE  First(u)' < First(v)'
  BY DEF Ordered
<1>1. Len(db) \in Nat
  BY DEF TypeOK
<1>2. /\ Stored(u) => First(u)' = First(u) /\ First(u) \in 1..Len(db)
      /\ Stored(v) => First(v)' = First(v) /\ First(v) \in 1..Len(db)
      /\ ~Stored(t) => First(t)' = Len(db) + 1
      /\ (Stored(u) \/ u = t) /\ (Stored(v) \/ v = t)
  BY <1>1, WriteFirst
<1>3. CASE Stored(u) /\ Stored(v)
  <2>1. First(u) < First(v)
    BY <1>3 DEF Ordered
  <2> QED BY <1>2, <1>3, <2>1
<1>4. CASE Stored(u) /\ ~Stored(v)
  <2>1. v = t
    BY <1>2, <1>4
  <2> QED BY <1>1, <1>2, <1>4, <2>1
<1>5. CASE ~Stored(u)
  <2>1. u = t /\ ~Stored(t)
    BY <1>2, <1>5
  <2>2. ~Stored(v)
    BY <2>1
  <2>3. v = t
    BY <1>2, <2>2
  <2>4. i = j
    BY <2>1, <2>3 DEF WayIsKnown
  <2> QED BY <2>4
<1> QED BY <1>3, <1>4, <1>5

\* Order outlives taking the first, and adding at the end what is accepted last.
LEMMA TailInOrder ==
  ASSUME NEW S, NEW s \in Seq(S), s # <<>>, NEW a, InOrder(s, a)
  PROVE  InOrder(Tail(s), a)
<1>1. /\ Len(s) \in Nat /\ Len(s) > 0 /\ Len(Tail(s)) = Len(s) - 1
      /\ \A i \in 1..Len(Tail(s)) : Tail(s)[i] = s[i + 1] /\ i + 1 \in 1..Len(s)
  BY EmptySeq
<1>2. \A p, q \in 1..Len(Tail(s)) : p < q => p + 1 < q + 1
  BY <1>1
<1> QED BY <1>1, <1>2 DEF InOrder

LEMMA AcceptedInOrder ==
  ASSUME NEW s \in Seq(Trace \cup {Garbage}), NEW a \in Seq(Accepted), NEW x \in Accepted,
         InOrder(s, a),
         \A p \in 1..Len(s) : s[p] # x.trace
  PROVE  /\ InOrder(s, Append(a, x))
         /\ (\A i \in 1..Len(a) : a[i].trace # x.trace) => InOrder(Append(s, x.trace), Append(a, x))
<1> DEFINE n == Len(a)
           b == Append(a, x)
           m == Len(s)
           r == Append(s, x.trace)
<1>1. /\ n \in Nat /\ Len(b) = n + 1 /\ b[n + 1] = x /\ \A i \in 1..n : b[i] = a[i]
      /\ m \in Nat /\ Len(r) = m + 1 /\ r[m + 1] = x.trace /\ \A p \in 1..m : r[p] = s[p]
  BY DEF Accepted
<1>0. m \in Nat /\ n \in Nat
  BY <1>1
<1> HIDE DEF b, r
<1>2. InOrder(s, b)
  <2> SUFFICES ASSUME NEW p \in 1..m, NEW q \in 1..m, NEW i \in 1..(n + 1), NEW j \in 1..(n + 1),
                      p < q, s[p] = b[i].trace, s[q] = b[j].trace
               PROVE  i < j
    BY <1>1 DEF InOrder
  <2>1. i # n + 1 /\ j # n + 1
    BY <1>1
  <2>2. i \in 1..n /\ j \in 1..n /\ b[i] = a[i] /\ b[j] = a[j]
    BY <1>1, <2>1
  <2> QED BY <2>2 DEF InOrder
<1>3. ASSUME \A i \in 1..n : a[i].trace # x.trace
      PROVE  InOrder(r, b)
  <2> SUFFICES ASSUME NEW p \in 1..(m + 1), NEW q \in 1..(m + 1),
                      NEW i \in 1..(n + 1), NEW j \in 1..(n + 1),
                      p < q, r[p] = b[i].trace, r[q] = b[j].trace
               PROVE  i < j
    BY <1>1 DEF InOrder
  <2>1. p \in 1..m /\ r[p] = s[p]
    BY <1>1
  <2>2. i # n + 1
    BY <1>1, <2>1
  <2>3. i \in 1..n
    BY <1>1, <2>2
  <2>4. CASE q = m + 1
    <3>1. j = n + 1
      BY <1>1, <1>3, <2>4
    <3> QED BY <1>1, <2>3, <3>1
  <2>5. CASE q \in 1..m
    <3>1. s[p] = b[i].trace /\ s[q] = b[j].trace
      BY <1>1, <2>1, <2>5
    <3>2. i \in 1..Len(b) /\ j \in 1..Len(b)
      BY <1>1
    <3> QED BY <1>2, <2>1, <2>5, <3>1, <3>2 DEF InOrder
  <2>6. q = m + 1 \/ q \in 1..m
    BY <1>0
  <2> QED BY <2>4, <2>5, <2>6
<1> QED BY <1>2, <1>3 DEF b, r

\* And it outlives a line of its own for a trace never accepted, or for none.
LEMMA StrangerInOrder ==
  ASSUME TypeOK, TornTail, NEW line \in Trace \cup {Garbage}, spill' = WithLine(line),
         NEW a, \A i \in 1..Len(a) : a[i].trace \in Trace,
         torn \/ \A i \in 1..Len(a) : a[i].trace # line,
         InOrder(spill, a)
  PROVE  InOrder(spill', a)
<1>1. /\ Len(spill) \in Nat
      /\ torn => /\ Len(spill') = Len(spill) /\ spill'[Len(spill)] = Garbage
                 /\ \A i \in 1..Len(spill) : i # Len(spill) => spill'[i] = spill[i]
      /\ ~torn => /\ Len(spill') = Len(spill) + 1 /\ spill'[Len(spill) + 1] = line
                  /\ \A i \in 1..Len(spill) : spill'[i] = spill[i]
  BY WithLineAdds DEF TornTail
<1>2. ASSUME NEW p \in 1..Len(spill'), NEW i \in 1..Len(a), spill'[p] = a[i].trace
      PROVE  p \in 1..Len(spill) /\ spill'[p] = spill[p]
  <2>1. CASE torn
    <3>1. p # Len(spill)
      BY <1>1, <1>2, <2>1, GarbageAssumption
    <3> QED BY <1>1, <2>1, <3>1
  <2>2. CASE ~torn
    <3>1. p # Len(spill) + 1
      BY <1>1, <1>2, <2>2
    <3> QED BY <1>1, <2>2, <3>1
  <2> QED BY <2>1, <2>2
<1> SUFFICES ASSUME NEW p \in 1..Len(spill'), NEW q \in 1..Len(spill'),
                    NEW i \in 1..Len(a), NEW j \in 1..Len(a),
                    p < q, spill'[p] = a[i].trace, spill'[q] = a[j].trace
             PROVE  i < j
  BY DEF InOrder
<1>3. /\ p \in 1..Len(spill) /\ q \in 1..Len(spill)
      /\ spill[p] = a[i].trace /\ spill[q] = a[j].trace
  BY <1>2
<1> QED BY <1>3 DEF InOrder

\* A drain that begins, or stands still, is where its position says.
PositionStays ==
  wpc' = "drain" => spill' = spill /\ (left' = spill \/ (wpc = "drain" /\ left' = left))

\* Order survives a step that neither accepts nor writes.
LEMMA OthersKeepOrder ==
  ASSUME OrderInv, db' = db, acc' = acc, acc \in Seq(Accepted),
         chan' = chan \/ chan' = <<>>, InOrder(spill', acc),
         \A i \in 1..Len(acc), u \in Trace : acc[i].trace = u /\ InSpill(u)' => InSpill(u),
         \A u \in Trace : \/ req'[u] = req[u]
                          \/ req[u] \in {"idle", "full"}
                          \/ req[u] = "sent" /\ req'[u] = "lost",
         DrainPosition' \/ PositionStays,
         Len(spill) \in Nat
  PROVE  OrderInv'
<1>1. \A u \in Trace : /\ Stored(u)' = Stored(u) /\ First(u)' = First(u)
                       /\ InChannel(u)' => InChannel(u)
  <2>1. \A u \in Trace : Stored(u)' = Stored(u) /\ Rows(u)' = Rows(u)
    BY DEF Stored, Rows
  <2>2. \A u \in Trace : InChannel(u)' => InChannel(u)
    <3>1. chan' = <<>> => ~(\E i \in 1..Len(chan') : TRUE)
      OBVIOUS
    <3> QED BY <3>1 DEF InChannel
  <2>3. \A u \in Trace : First(u)' = First(u)
    <3>1. \A u : First(u) = FirstOf(Rows(u)) /\ First(u)' = FirstOf(Rows(u)')
      BY DEF First, FirstOf
    <3> QED BY <2>1, <3>1
  <2> QED BY <2>1, <2>2, <2>3
<1>2. \A i \in 1..Len(acc) : acc[i].trace \in Trace
  <2>1. \A i \in 1..Len(acc) : acc[i] \in Accepted
    OBVIOUS
  <2> QED BY <2>1 DEF Accepted
<1>3. WayIsKnown'
  BY <1>2 DEF OrderInv, WayIsKnown
<1>4. InOrder(chan, acc)' /\ InOrder(spill, acc)'
  <2>1. \A s : Len(s) = 0 => InOrder(s, acc)
    BY DEF InOrder
  <2>2. Len(<<>>) = 0
    OBVIOUS
  <2>3. InOrder(chan', acc)
    BY <2>1, <2>2 DEF OrderInv
  <2> QED BY <2>3
<1>6. ChannelCatchesUp'
  BY <1>1 DEF OrderInv, ChannelCatchesUp
<1>7. SpillCatchesUp'
  BY <1>1 DEF OrderInv, SpillCatchesUp
<1>8. DrainPosition'
  <2> SUFFICES ASSUME wpc' = "drain", PositionStays PROVE DrainPosition'
    BY DEF DrainPosition
  <2>1. spill' = spill
    BY DEF PositionStays
  <2>2. CASE left' = spill
    BY <2>1, <2>2 DEF DrainPosition
  <2>3. CASE wpc = "drain" /\ left' = left
    BY <1>1, <2>1, <2>3 DEF OrderInv, DrainPosition
  <2> QED BY <2>2, <2>3 DEF PositionStays
<1>9. Ordered'
  BY <1>1 DEF OrderInv, Ordered
<1> QED BY <1>3, <1>4, <1>6, <1>7, <1>8, <1>9 DEF OrderInv

\* In particular one that leaves the file alone, or empties it.
LEMMA QuietKeepsOrder ==
  ASSUME OrderInv, db' = db, acc' = acc, acc \in Seq(Accepted),
         chan' = chan \/ chan' = <<>>, spill' = spill \/ spill' = <<>>,
         \A u \in Trace : \/ req'[u] = req[u]
                          \/ req[u] \in {"idle", "full"}
                          \/ req[u] = "sent" /\ req'[u] = "lost",
         wpc' = "drain" => spill' = spill /\ (left' = spill \/ (wpc = "drain" /\ left' = left)),
         Len(spill) \in Nat
  PROVE  OrderInv'
<1>1. InOrder(spill', acc) /\ \A u \in Trace : InSpill(u)' => InSpill(u)
  <2>1. CASE spill' = spill
    BY <2>1 DEF OrderInv, InSpill
  <2>2. CASE spill' = <<>>
    <3>1. Len(spill') = 0
      BY <2>2
    <3> QED BY <3>1 DEF InOrder, InSpill
  <2> QED BY <2>1, <2>2
<1> QED BY <1>1, OthersKeepOrder DEF PositionStays

\* Entering a drain takes the whole file (drain_spill).
LEMMA DrainThenKeepsOrder ==
  ASSUME faults' = 0, TypeOK, OrderInv, NEW after \in {"recv", "gone"}, DrainThen(after),
         UNCHANGED <<req, chan, spill, db, acc>>
  PROVE  OrderInv'
<1>1. /\ req' = req /\ chan' = chan /\ spill' = spill /\ db' = db /\ acc' = acc
      /\ acc \in Seq(Accepted) /\ Len(spill) \in Nat
  BY DEF TypeOK
<1>2. wpc' = "drain" => left' = spill
  BY DEF DrainThen, EnterDrain
<1> QED BY <1>1, <1>2, QuietKeepsOrder

\* The writer takes the channel from its head, and the file from its first line
\* (blocking_recv, try_recv, drain_spill).
LEMMA WriterKeepsOrder ==
  ASSUME faults' = 0, ChainInv, PromiseInv, OrderInv, Writer
  PROVE  OrderInv'
<1> USE DEF diskVars, bounds, process
<1>1. /\ TypeOK /\ ~Fault /\ acc \in Seq(Accepted) /\ Len(spill) \in Nat
      /\ DrainCovers /\ DrainReads /\ Tracked
  BY DEF ChainInv, TypeOK, Fault, PromiseInv, CountInv
<1>2. CASE LoadHead
  BY <1>1, <1>2, DrainThenKeepsOrder DEF LoadHead
<1>3. CASE FoundEmpty
  BY <1>1, <1>3, DrainThenKeepsOrder DEF FoundEmpty
<1>4. CASE FoundClosed
  BY <1>1, <1>4, DrainThenKeepsOrder DEF FoundClosed
<1>5. CASE LoadHeadFails
  BY <1>1, <1>5 DEF LoadHeadFails
<1>6. CASE FoundDisconnected
  <2>1. /\ db' = db /\ acc' = acc /\ chan' = chan /\ spill' = spill /\ req' = req /\ wpc' = "gone"
    BY <1>6 DEF FoundDisconnected
  <2> QED BY <1>1, <2>1, QuietKeepsOrder
<1>7. CASE Truncate
  <2>1. /\ db' = db /\ acc' = acc /\ chan' = chan /\ req' = req /\ wpc' \in {"recv", "gone"}
        /\ spill' = spill \/ spill' = <<>>
    BY <1>1, <1>7 DEF Truncate, TypeOK
  <2> QED BY <1>1, <2>1, QuietKeepsOrder
<1>8. \A i \in 1..Len(acc) : acc[i].trace \in Trace /\ acc[i].via \in {"channel", "spill"}
  <2>1. \A i \in 1..Len(acc) : acc[i] \in Accepted
    BY <1>1
  <2> QED BY <2>1 DEF Accepted
<1>9. CASE Receive
  <2>1. /\ chan \in Seq(Trace) /\ chan # <<>> /\ chan' = Tail(chan) /\ WriteTrace(Head(chan))
        /\ wpc' = "fast" /\ req' = req /\ spill' = spill /\ acc' = acc
    BY <1>1, <1>9 DEF Receive, TypeOK
  <2>2. PICK t \in Trace : t = Head(chan)
    BY <2>1
  <2>3. /\ Len(chan) \in Nat /\ 1 \in 1..Len(chan) /\ chan[1] = t /\ Len(chan') = Len(chan) - 1
        /\ \A i \in 1..Len(chan') : chan'[i] = chan[i + 1] /\ i + 1 \in 1..Len(chan) /\ 1 < i + 1
    BY <2>1, <2>2, EmptySeq
  <2>4. req[t] = "sent" /\ InChannel(t) /\ \A u : InChannel(u)' => InChannel(u)
    BY <1>1, <2>3 DEF Tracked, InChannel
  <2>5. \A u \in Trace : Stored(u)' <=> Stored(u) \/ u = t
    BY <1>1, <2>1, <2>2, WriteFirst
  <2>6. ASSUME NEW i \in 1..Len(acc), acc[i].trace = t PROVE acc[i].via = "channel"
    BY <1>8, <2>4, <2>6 DEF OrderInv, WayIsKnown
  <2>7. ASSUME NEW i \in 1..Len(acc), NEW j \in 1..Len(acc), NEW v \in Trace,
               i < j, acc[i].via = acc[j].via, acc[i].trace = t, acc[j].trace = v
        PROVE  ~Stored(v)
    BY <2>4, <2>6, <2>7 DEF OrderInv, ChannelCatchesUp
  <2>8. Ordered'
    BY <1>1, <2>1, <2>2, <2>7, WriteKeepsOrdered DEF OrderInv
  <2>9. WayIsKnown'
    BY <2>1 DEF OrderInv, WayIsKnown
  <2>10. InOrder(chan', acc) /\ InOrder(spill', acc)
    BY <2>1, TailInOrder DEF OrderInv
  <2>11. ASSUME NEW i \in 1..Len(acc), NEW j \in 1..Len(acc),
                i < j, acc[i].via = "channel", acc[j].via = "channel",
                NEW u \in Trace, NEW v \in Trace, acc[i].trace = u, acc[j].trace = v, InChannel(u)'
         PROVE  ~Stored(v)'
    <3>1. ~Stored(v)
      BY <2>4, <2>11 DEF OrderInv, ChannelCatchesUp
    <3>2. v # t
      <4> SUFFICES ASSUME v = t PROVE FALSE
        OBVIOUS
      <4>1. PICK k \in 1..Len(chan') : chan'[k] = u
        BY <2>11 DEF InChannel
      <4>2. chan[k + 1] = acc[i].trace /\ chan[1] = acc[j].trace /\ 1 < k + 1
            /\ k + 1 \in 1..Len(chan) /\ 1 \in 1..Len(chan)
        BY <2>3, <2>11, <4>1
      <4>3. j < i
        BY <4>2 DEF OrderInv, InOrder
      <4> QED BY <2>11, <4>3
    <3> QED BY <2>5, <3>1, <3>2
  <2>12. ChannelCatchesUp'
    BY <2>1, <2>11 DEF ChannelCatchesUp
  <2>13. SpillCatchesUp'
    <3>1. ASSUME NEW i \in 1..Len(acc), NEW j \in 1..Len(acc),
                 i < j, acc[i].via = "spill", acc[j].via = "spill",
                 NEW u \in Trace, NEW v \in Trace, acc[i].trace = u, acc[j].trace = v,
                 InSpill(u), Stored(v)'
          PROVE  Stored(u)'
      <4>1. Stored(v)
        BY <2>5, <2>6, <3>1
      <4> QED BY <2>5, <3>1, <4>1 DEF OrderInv, SpillCatchesUp
    <3>2. \A u : InSpill(u)' = InSpill(u)
      BY <2>1 DEF InSpill
    <3> QED BY <2>1, <3>1, <3>2 DEF SpillCatchesUp
  <2>14. DrainPosition'
    BY <2>1 DEF DrainPosition
  <2>15. InOrder(chan, acc)' /\ InOrder(spill, acc)'
    BY <2>1, <2>10
  <2> QED BY <2>8, <2>9, <2>12, <2>13, <2>14, <2>15 DEF OrderInv
<1>10. CASE DrainLine
  <2>1. /\ left \in Seq(Trace \cup {Garbage}) /\ left # <<>> /\ left' = Tail(left) /\ wpc = "drain"
        /\ req' = req /\ spill' = spill /\ chan' = chan /\ acc' = acc
    BY <1>1, <1>10 DEF DrainLine, ChainInv, DrainHasLines, TypeOK
  <2>2. /\ Len(left) \in Nat /\ Len(left) > 0 /\ Head(left) = left[1] /\ Len(left') = Len(left) - 1
        /\ \A k \in 1..Len(left') : left'[k] = left[k + 1] /\ k + 1 \in 1..Len(left)
    BY <2>1, EmptySeq
  <2>3. /\ Len(left) <= Len(spill)
        /\ \A k \in 1..Len(left) : left[k] = spill[Len(spill) - Len(left) + k]
        /\ \A p \in 1..(Len(spill) - Len(left)), u \in Trace : spill[p] = u => Stored(u)
    BY <2>1 DEF OrderInv, DrainPosition
  <2>4. PICK q \in 1..Len(spill) : q = Len(spill) - Len(left) + 1 /\ spill[q] = Head(left)
    <3>1. /\ Len(spill) \in Nat /\ Len(left) \in Nat /\ Len(left) > 0
          /\ Len(left) <= Len(spill) /\ 1 \in 1..Len(left)
      BY <1>1, <2>2, <2>3 DEF TypeOK
    <3>2. Len(spill) - Len(left) + 1 \in 1..Len(spill)
      BY <3>1
    <3>3. left[1] = spill[Len(spill) - Len(left) + 1]
      BY <2>3, <3>1
    <3> QED BY <2>2, <3>2, <3>3
  <2>5. /\ Len(spill) \in Nat /\ Len(left) \in Nat /\ Len(left') = Len(left) - 1
        /\ Len(left) <= Len(spill) /\ Len(left) > 0 /\ q = Len(spill) - Len(left) + 1
    BY <1>1, <2>2, <2>3, <2>4
  <2>6. ASSUME \A u \in Trace : Stored(u) => Stored(u)',
               \A u \in Trace : u = Head(left) => Stored(u)'
        PROVE  DrainPosition'
    <3>1. Len(left') <= Len(spill)
      BY <2>5
    <3>2. \A k \in 1..Len(left') : left'[k] = spill[Len(spill) - Len(left') + k]
      <4> TAKE k \in 1..Len(left')
      <4>1. left'[k] = left[k + 1] /\ k + 1 \in 1..Len(left)
        BY <2>2
      <4>2. Len(spill) - Len(left) + (k + 1) = Len(spill) - Len(left') + k
        BY <2>5
      <4>3. left[k + 1] = spill[Len(spill) - Len(left) + (k + 1)]
        BY <2>3, <4>1
      <4> QED BY <4>1, <4>2, <4>3
    <3>3. \A p \in 1..(Len(spill) - Len(left')), u \in Trace : spill[p] = u => Stored(u)'
      <4> SUFFICES ASSUME NEW p \in 1..(Len(spill) - Len(left')), NEW u \in Trace, spill[p] = u
                   PROVE  Stored(u)'
        OBVIOUS
      <4>1. p = q \/ p \in 1..(Len(spill) - Len(left))
        BY <2>5
      <4>2. CASE p = q
        BY <2>4, <2>6, <4>2
      <4>3. CASE p \in 1..(Len(spill) - Len(left))
        BY <2>3, <2>6, <4>3
      <4> QED BY <4>1, <4>2, <4>3
    <3> QED BY <2>1, <3>1, <3>2, <3>3 DEF DrainPosition
  <2>7. CASE Head(left) = Garbage
    <3>1. db' = db
      BY <1>10, <2>7 DEF DrainLine
    <3>2. \A u : Stored(u)' = Stored(u)
      BY <3>1 DEF Stored
    <3>3. DrainPosition'
      BY <2>6, <2>7, <3>2, GarbageAssumption
    <3>4. InOrder(spill', acc) /\ \A u \in Trace : InSpill(u)' => InSpill(u)
      BY <2>1 DEF OrderInv, InSpill
    <3> QED BY <1>1, <2>1, <3>1, <3>3, <3>4, OthersKeepOrder
  <2>8. CASE Head(left) # Garbage
    <3>1. PICK t \in Trace : t = Head(left) /\ WriteTrace(t)
      BY <1>10, <2>1, <2>2, <2>8 DEF DrainLine
    <3>2. \A u \in Trace : Stored(u)' <=> Stored(u) \/ u = t
      BY <1>1, <3>1, WriteFirst
    <3>3. req[t] \in {"spilled", "cut"}
      BY <1>1, <2>4, <3>1 DEF Tracked, InSpill
    <3>4. ASSUME NEW i \in 1..Len(acc), acc[i].trace = t PROVE acc[i].via = "spill"
      BY <1>8, <3>3, <3>4 DEF OrderInv, WayIsKnown
    <3>5. InSpill(t)
      BY <2>4, <3>1 DEF InSpill
    <3>6. ASSUME ~Stored(t), NEW i \in 1..Len(acc), NEW j \in 1..Len(acc), NEW v \in Trace,
                 i < j, acc[i].via = acc[j].via, acc[i].trace = t, acc[j].trace = v
          PROVE  ~Stored(v)
      BY <3>4, <3>5, <3>6 DEF OrderInv, SpillCatchesUp
    <3>7. Ordered'
      BY <1>1, <2>1, <3>1, <3>6, WriteKeepsOrdered DEF OrderInv
    <3>8. WayIsKnown'
      BY <2>1 DEF OrderInv, WayIsKnown
    <3>9. InOrder(chan, acc)' /\ InOrder(spill, acc)'
      BY <2>1 DEF OrderInv
    <3>10. ChannelCatchesUp'
      <4>1. ASSUME NEW i \in 1..Len(acc), NEW j \in 1..Len(acc),
                   i < j, acc[i].via = "channel", acc[j].via = "channel",
                   NEW u \in Trace, NEW v \in Trace, acc[i].trace = u, acc[j].trace = v, InChannel(u)
            PROVE  ~Stored(v)'
        <5>1. ~Stored(v) /\ v # t
          BY <3>4, <4>1 DEF OrderInv, ChannelCatchesUp
        <5> QED BY <3>2, <5>1
      <4>2. \A u : InChannel(u)' = InChannel(u)
        BY <2>1 DEF InChannel
      <4> QED BY <2>1, <4>1, <4>2 DEF ChannelCatchesUp
    <3>11. SpillCatchesUp'
      <4>1. ASSUME NEW i \in 1..Len(acc), NEW j \in 1..Len(acc),
                   i < j, acc[i].via = "spill", acc[j].via = "spill",
                   NEW u \in Trace, NEW v \in Trace, acc[i].trace = u, acc[j].trace = v,
                   InSpill(u), Stored(v)'
            PROVE  Stored(u)'
        <5>1. CASE Stored(v)
          BY <3>2, <4>1, <5>1 DEF OrderInv, SpillCatchesUp
        <5>2. CASE v = t /\ ~Stored(u)
          <6>1. PICK p \in 1..Len(spill) : spill[p] = u
            BY <4>1 DEF InSpill
          <6>2. ~(q < p)
            BY <2>4, <3>1, <4>1, <5>2, <6>1 DEF OrderInv, InOrder
          <6>3. p # q
            BY <2>4, <3>1, <4>1, <5>2, <6>1 DEF OrderInv, WayIsKnown
          <6>4. p \in 1..(Len(spill) - Len(left))
            BY <2>5, <6>2, <6>3
          <6> QED BY <2>3, <5>2, <6>1, <6>4
        <5> QED BY <3>2, <4>1, <5>1, <5>2
      <4>2. \A u : InSpill(u)' = InSpill(u)
        BY <2>1 DEF InSpill
      <4> QED BY <2>1, <4>1, <4>2 DEF SpillCatchesUp
    <3>12. DrainPosition'
      BY <2>6, <3>1, <3>2
    <3> QED BY <3>7, <3>8, <3>9, <3>10, <3>11, <3>12 DEF OrderInv
  <2> QED BY <2>7, <2>8
<1> QED BY <1>2, <1>3, <1>4, <1>5, <1>6, <1>7, <1>9, <1>10 DEF Writer

\* A trace is accepted last, so what is in the channel or the file was accepted before it
\* (try_send, append_to_spill).
LEMMA TaskKeepsOrder ==
  ASSUME faults' = 0, ChainInv, PromiseInv, OrderInv, NEW t \in Trace, Task(t)
  PROVE  OrderInv'
<1> USE DEF diskVars, writerVars, bounds, process, Becomes
<1>1. /\ TypeOK /\ ~Fault /\ acc \in Seq(Accepted) /\ Len(spill) \in Nat /\ TornTail /\ Tracked
      /\ req \in [Trace -> Outcome] /\ chan \in Seq(Trace) /\ chan \in Seq(Trace \cup {Garbage})
      /\ spill \in Seq(Trace \cup {Garbage})
  <2>1. chan \in Seq(Trace) => chan \in Seq(Trace \cup {Garbage})
    OBVIOUS
  <2> QED BY <2>1 DEF ChainInv, TypeOK, Fault, PromiseInv, CountInv
<1>2. ASSUME UNCHANGED <<chan, spill, db, wpc, left, acc>>, req[t] = "idle",
             \A u \in Trace : u # t => req'[u] = req[u]
      PROVE  OrderInv'
  BY <1>1, <1>2, QuietKeepsOrder
<1>3. CASE OfferFull(t)
  BY <1>1, <1>2, <1>3 DEF OfferFull
<1>4. CASE OfferClosed(t)
  BY <1>1, <1>2, <1>4 DEF OfferClosed
<1>5. CASE AppendToSpillFails(t)
  BY <1>1, <1>5 DEF AppendToSpillFails
<1>6. ASSUME req[t] \in {"idle", "full"}, NEW via \in {"channel", "spill"},
             acc' = Append(acc, [trace |-> t, via |-> via]),
             req' = [req EXCEPT ![t] = IF via = "spill" THEN "spilled" ELSE "sent"],
             db' = db, wpc' = wpc, left' = left, wpc' = "drain" => spill' = spill,
             via = "channel" => chan' = Append(chan, t) /\ spill' = spill,
             via = "spill" => spill' = WithLine(t) /\ chan' = chan
      PROVE  OrderInv'
  <2> DEFINE n == Len(acc)
             x == [trace |-> t, via |-> via]
  <2>1. /\ n \in Nat /\ Len(acc') = n + 1 /\ acc'[n + 1].trace = t /\ acc'[n + 1].via = via
        /\ \A i \in 1..n : acc'[i] = acc[i]
    BY <1>1, <1>6
  <2>2. \A i \in 1..n : acc[i].trace \in Trace /\ acc[i].via \in {"channel", "spill"}
    <3>1. \A i \in 1..n : acc[i] \in Accepted
      BY <1>1
    <3> QED BY <3>1 DEF Accepted
  <2>3. ~InChannel(t) /\ ~InSpill(t) /\ ~Stored(t)
    BY <1>1, <1>6 DEF Tracked
  <2>4. \A i \in 1..n : acc[i].trace # t
    BY <1>6, <2>2 DEF OrderInv, WayIsKnown
  <2>5. \A u \in Trace : req'[u] = IF u = t THEN IF via = "spill" THEN "spilled" ELSE "sent"
                                   ELSE req[u]
    BY <1>1, <1>6
  <2>6. WayIsKnown'
    <3>1. ASSUME NEW i \in 1..(n + 1), NEW j \in 1..(n + 1), acc'[i].trace = acc'[j].trace
          PROVE  i = j
      <4>1. (i \in 1..n \/ i = n + 1) /\ (j \in 1..n \/ j = n + 1)
        BY <2>1
      <4> QED BY <2>1, <2>4, <3>1, <4>1 DEF OrderInv, WayIsKnown
    <3>2. ASSUME NEW i \in 1..(n + 1)
          PROVE  /\ acc'[i].via = "spill" => req'[acc'[i].trace] = "spilled"
                 /\ acc'[i].via = "channel" => req'[acc'[i].trace] \in {"sent", "lost"}
      <4>1. CASE i \in 1..n
        BY <2>1, <2>2, <2>4, <2>5, <4>1 DEF OrderInv, WayIsKnown
      <4>2. CASE i = n + 1
        BY <2>1, <2>5, <4>2
      <4>3. i \in 1..n \/ i = n + 1
        BY <2>1
      <4> QED BY <4>1, <4>2, <4>3
    <3> QED BY <2>1, <3>1, <3>2 DEF WayIsKnown
  <2>7. InOrder(chan', acc') /\ InOrder(spill', acc')
    <3>1. x \in Accepted /\ x.trace = t /\ acc' = Append(acc, x)
      BY <1>6 DEF Accepted
    <3>2. (\A p \in 1..Len(chan) : chan[p] # t) /\ (\A p \in 1..Len(spill) : spill[p] # t)
      BY <2>3 DEF InChannel, InSpill
    <3> HIDE DEF x
    <3>3. InOrder(chan, acc') /\ InOrder(Append(chan, t), acc')
      BY <1>1, <2>4, <3>1, <3>2, AcceptedInOrder DEF OrderInv
    <3>4. InOrder(spill, acc') /\ InOrder(Append(spill, t), acc')
      BY <1>1, <2>4, <3>1, <3>2, AcceptedInOrder DEF OrderInv
    <3>5. via = "spill" => InOrder(spill', acc')
      <4>1. CASE ~torn
        BY <1>6, <3>4, <4>1 DEF WithLine
      <4>2. CASE torn
        <5>1. \A i \in 1..Len(acc') : acc'[i].trace \in Trace
          <6>1. \A i \in 1..(n + 1) : i \in 1..n \/ i = n + 1
            BY <2>1
          <6> QED BY <2>1, <2>2, <6>1
        <5> QED BY <1>1, <1>6, <3>4, <4>2, <5>1, StrangerInOrder
      <4> QED BY <4>1, <4>2
    <3> QED BY <1>6, <3>3, <3>4, <3>5
  <2>8. \A u \in Trace : Stored(u)' = Stored(u) /\ First(u)' = First(u)
    <3>1. \A u \in Trace : Stored(u)' = Stored(u) /\ Rows(u)' = Rows(u)
      BY <1>6 DEF Stored, Rows
    <3>2. \A u : First(u) = FirstOf(Rows(u)) /\ First(u)' = FirstOf(Rows(u)')
      BY DEF First, FirstOf
    <3> QED BY <3>1, <3>2
  <2>9. \A u \in Trace : InChannel(u)' => InChannel(u) \/ u = t
    <3>1. CASE via = "spill"
      BY <1>6, <3>1 DEF InChannel
    <3>2. CASE via = "channel"
      <4>1. /\ Len(chan) \in Nat /\ Len(chan') = Len(chan) + 1 /\ chan'[Len(chan) + 1] = t
            /\ \A i \in 1..Len(chan) : chan'[i] = chan[i]
        BY <1>1, <1>6, <3>2
      <4> QED BY <4>1 DEF InChannel
    <3> QED BY <3>1, <3>2
  <2>10. ASSUME NEW i \in 1..(n + 1), NEW j \in 1..(n + 1), i < j,
                NEW u \in Trace, NEW v \in Trace, acc'[i].trace = u, acc'[j].trace = v, Stored(v)
         PROVE  /\ i \in 1..n /\ j \in 1..n /\ u # t /\ v # t
                /\ acc'[i] = acc[i] /\ acc'[j] = acc[j]
    <3>1. j # n + 1
      BY <2>1, <2>3, <2>10
    <3>2. i \in 1..n /\ j \in 1..n
      BY <2>1, <2>10, <3>1
    <3> QED BY <2>1, <2>4, <2>10, <3>2
  <2>11. ChannelCatchesUp'
    BY <2>1, <2>8, <2>9, <2>10 DEF OrderInv, ChannelCatchesUp
  <2>15. \A u \in Trace : InSpill(u)' => InSpill(u) \/ u = t
    <3>1. CASE via = "spill"
      BY <1>1, <1>6, <3>1, WithLineMembers
    <3>2. CASE via = "channel"
      BY <1>6, <3>2 DEF InSpill
    <3> QED BY <3>1, <3>2
  <2>12. SpillCatchesUp'
    BY <2>1, <2>8, <2>10, <2>15 DEF OrderInv, SpillCatchesUp
  <2>13. Ordered'
    BY <2>1, <2>8, <2>10 DEF OrderInv, Ordered
  <2>14. DrainPosition'
    BY <1>6 DEF OrderInv, DrainPosition, Stored
  <2> QED BY <2>6, <2>7, <2>11, <2>12, <2>13, <2>14 DEF OrderInv
<1>7. CASE OfferSent(t)
  <2>1. /\ req[t] = "idle" /\ acc' = Append(acc, [trace |-> t, via |-> "channel"])
        /\ req' = [req EXCEPT ![t] = "sent"] /\ chan' = Append(chan, t)
        /\ spill' = spill /\ db' = db /\ wpc' = wpc /\ left' = left
    BY <1>7 DEF OfferSent, Accept
  <2> QED BY <1>6, <2>1
<1>8. CASE AppendToSpill(t)
  <2>1. /\ req[t] = "full" /\ acc' = Append(acc, [trace |-> t, via |-> "spill"])
        /\ req' = [req EXCEPT ![t] = "spilled"] /\ spill' = WithLine(t)
        /\ chan' = chan /\ db' = db /\ wpc' = wpc /\ left' = left /\ wpc # "drain"
    BY <1>8 DEF AppendToSpill, Accept, SpillLocked
  <2> QED BY <1>6, <2>1
<1> QED BY <1>3, <1>4, <1>5, <1>7, <1>8 DEF Task

\* A stop takes the channel; what was accepted keeps the order it had.
LEMMA ProcessKeepsOrder ==
  ASSUME ChainInv, PromiseInv, OrderInv, Process
  PROVE  OrderInv'
<1> USE DEF diskVars, writerVars, bounds, process
<1>1. acc \in Seq(Accepted) /\ Len(spill) \in Nat /\ Tracked /\ TypeOK /\ TornTail
  BY DEF ChainInv, TypeOK, PromiseInv, CountInv
<1>2. CASE CloseSenders
  <2>1. /\ db' = db /\ acc' = acc /\ chan' = chan /\ spill' = spill /\ req' = req
        /\ wpc' = wpc /\ left' = left
    BY <1>2 DEF CloseSenders
  <2> QED BY <1>1, <2>1, QuietKeepsOrder
<1>3. CASE Crash
  <2>1. /\ db' = db /\ acc' = acc /\ chan' = <<>> /\ spill' = spill /\ wpc' = "gone"
    BY <1>3 DEF Crash, Perish
  <2>2. \A u \in Trace : \/ req'[u] = req[u]
                         \/ req[u] \in {"idle", "full"}
                         \/ req[u] = "sent" /\ req'[u] = "lost"
    BY <1>1, <1>3 DEF Tracked, Crash, Perish
  <2> QED BY <1>1, <2>1, <2>2, QuietKeepsOrder
<1>6. ASSUME NEW t \in Trace, CrashInAppend(t) PROVE OrderInv'
  <2>1. /\ db' = db /\ acc' = acc /\ chan' = <<>> /\ wpc' = "gone" /\ req[t] = "full"
    BY <1>6 DEF CrashInAppend, Perish
  <2>2. \A u \in Trace : \/ req'[u] = req[u]
                         \/ req[u] \in {"idle", "full"}
                         \/ req[u] = "sent" /\ req'[u] = "lost"
    BY <1>1, <1>6 DEF Tracked, CrashInAppend, Perish
  <2>3. PICK line \in {t, Garbage} : spill' = WithLine(line)
    BY <1>6 DEF CrashInAppend
  <2>4. \A i \in 1..Len(acc) : acc[i].trace \in Trace /\ acc[i].via \in {"channel", "spill"}
    <3>1. \A i \in 1..Len(acc) : acc[i] \in Accepted
      BY <1>1
    <3> QED BY <3>1 DEF Accepted
  <2>5. \A i \in 1..Len(acc) : acc[i].trace # t
    BY <2>1, <2>4 DEF OrderInv, WayIsKnown
  <2>6. InOrder(spill', acc)
    BY <1>1, <2>3, <2>4, <2>5, StrangerInOrder, GarbageAssumption DEF OrderInv
  <2>7. \A u \in Trace : InSpill(u)' => InSpill(u) \/ u = t
    BY <1>1, <2>3, WithLineMembers
  <2> QED BY <1>1, <2>1, <2>2, <2>5, <2>6, <2>7, OthersKeepOrder DEF PositionStays
<1>4. CASE Exit
  <2>1. /\ db' = db /\ acc' = acc /\ chan' = <<>> /\ spill' = spill /\ req' = req
        /\ wpc' = wpc /\ left' = left
    BY <1>4 DEF Exit
  <2> QED BY <1>1, <2>1, QuietKeepsOrder
<1>5. CASE Start
  <2>1. /\ db' = db /\ acc' = acc /\ chan' = chan /\ spill' = spill /\ req' = req
        /\ wpc' = "load"
    BY <1>5 DEF Start
  <2> QED BY <1>1, <2>1, QuietKeepsOrder
<1> QED BY <1>2, <1>3, <1>4, <1>5, <1>6 DEF Process

\* Until an operation on disk fails, the chain lists the traces of the channel in the
\* order the channel took them, and those of the spill file in the order of its lines,
\* across crashes, restarts and replays (mpsc's FIFO, drain_spill's file order).
THEOREM SameWayAlwaysInOrder == Spec => []SameWayInOrder
<1> DEFINE Inv == faults = 0 => PromiseInv /\ OrderInv
<1>1. Init => Inv
  <2> SUFFICES ASSUME Init PROVE PromiseInv /\ OrderInv
    OBVIOUS
  <2>1. PromiseInv
    BY PromiseStarts
  <2>2. chan = <<>> /\ spill = <<>> /\ acc = <<>> /\ wpc = "load"
    BY DEF Init
  <2>3. Len(acc) = 0
    BY <2>2
  <2>4. OrderInv
    BY <2>2, <2>3 DEF OrderInv, WayIsKnown, InOrder, ChannelCatchesUp, SpillCatchesUp,
                      DrainPosition, Ordered
  <2> QED BY <2>1, <2>4
<1>2. ChainInv /\ ChainInv' /\ Inv /\ [Next]_vars => Inv'
  <2> SUFFICES ASSUME ChainInv, ChainInv', Inv, [Next]_vars, faults' = 0
               PROVE  PromiseInv' /\ OrderInv'
    OBVIOUS
  <2>1. PromiseInv /\ OrderInv
    BY FaultsStay
  <2>2. PromiseInv'
    BY <2>1, PromiseSteps
  <2> SUFFICES OrderInv'
    BY <2>2
  <2>3. CASE Writer
    BY <2>1, <2>3, WriterKeepsOrder
  <2>4. CASE Process
    BY <2>1, <2>4, ProcessKeepsOrder
  <2>5. ASSUME NEW t \in Trace, Task(t) PROVE OrderInv'
    BY <2>1, <2>5, TaskKeepsOrder
  <2>6. CASE UNCHANGED vars
    <3>1. /\ db' = db /\ acc' = acc /\ chan' = chan /\ spill' = spill /\ req' = req
          /\ wpc' = wpc /\ left' = left /\ acc \in Seq(Accepted) /\ Len(spill) \in Nat
      BY <2>6 DEF vars, ChainInv, TypeOK
    <3> QED BY <2>1, <3>1, QuietKeepsOrder
  <2> QED BY <2>3, <2>4, <2>5, <2>6 DEF Next
<1>3. ChainInv /\ Inv => SameWayInOrder
  <2> SUFFICES ASSUME ChainInv, OrderInv, NEW i \in 1..Len(acc), NEW j \in 1..Len(acc),
                      i < j, acc[i].via = acc[j].via,
                      Stored(acc[i].trace), Stored(acc[j].trace)
               PROVE  First(acc[i].trace) < First(acc[j].trace)
    BY DEF SameWayInOrder
  <2>1. acc[i] \in Accepted /\ acc[j] \in Accepted
    BY DEF ChainInv, TypeOK
  <2>2. acc[i].trace \in Trace /\ acc[j].trace \in Trace
    BY <2>1 DEF Accepted
  <2> QED BY <2>2 DEF OrderInv, Ordered
<1> QED BY <1>1, <1>2, <1>3, ChainInvariant, PTL DEF Spec

===============================================================================
