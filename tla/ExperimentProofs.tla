--------------------------- MODULE ExperimentProofs ---------------------------
(***************************************************************************)
(* Proofs about Experiment, for any number of replicas, sessions, jobs,    *)
(* failures and restarts, and any deployment: what a replica counts, and   *)
(* what it debits, it counts once and has a record of, and while nothing   *)
(* fails the replicas hold one log's beginnings.  How evidence decides     *)
(* (EProcess's Status) and the daily cap are left unexpanded.              *)
(***************************************************************************)
EXTENDS Experiment, FiniteSetTheorems, SequenceTheorems, TLAPS

Late == {"claim", "append", "read", "synced", "cache", "row", "count"}
\* A paired evaluation in one of these has not run.
Early == {"absent", "ensure", "ensuring", "run"}

Monitor == [evidence : Seq(Record), debited : [Subject -> Nat], offset : Nat,
            sync : {"none", "known", "synced"}, blind : BOOLEAN, unread : SUBSET Subject]
Tables == [reports : Seq(Record), rows : Seq([item : Record, inLog : BOOLEAN])]
Work == [pc : Early \cup Late \cup {"done"}, at : Replica \cup {None}, asks : Nat,
         item : Record \cup {None}, upto : Nat]

Types ==
  /\ setup \in Setups /\ faults \in Nat /\ restarts \in Nat /\ restarts <= setup.restarts
  /\ mon \in [Replica -> Monitor] /\ table \in [Replica -> Tables]
  /\ log \in Seq(Record) /\ claims \subseteq Subject
  /\ served \in [Subject -> {None} \cup [at : Replica, arm : Arm \cup {"asked"}]]
  /\ job \in [Job -> Work]
  /\ reading \in [Replica -> Nat \cup {None}]
  /\ life \in [Replica -> Nat] /\ \A r \in Replica : life[r] <= restarts

RowOf(rows, id) == \E k \in 1..Len(rows) : rows[k].item.id = id
Distinct(e) == \A i, k \in 1..Len(e) : i < k => e[i].id # e[k].id

\* The log has each id once, nothing by a process that is yet to start, and of live
\* sessions only those claimed.
LogInv ==
  /\ Distinct(log)
  /\ \A i \in 1..Len(log) :
       /\ log[i].arm = "pair" <=> setup.paired
       /\ log[i].by[2] <= life[log[i].by[1]]
       /\ ~setup.paired => log[i].id \in claims

\* Where a job is tells what has been made of its evidence.
JobOk(j) ==
  /\ job[j].upto <= Len(log)
  /\ job[j].pc \notin {"absent", "done"} => job[j].at \in Replica
  /\ job[j].pc \in {"run", "cache", "row"} => setup.paired
  /\ job[j].pc = "claim" => ~setup.paired
  /\ job[j].pc \in Late =>
       /\ job[j].item \in Record /\ job[j].item.by = Me(job[j].at)
       /\ job[j].item.arm = "pair" <=> setup.paired
       /\ setup.paired => job[j].item.id = j
       /\ ~setup.paired => Known(table[job[j].at].reports, job[j].item.id)
  /\ job[j].pc = "append" =>
       /\ ~Known(log, job[j].item.id)
       /\ ~setup.paired => job[j].item.id \in claims
  /\ job[j].pc \in {"read", "synced", "cache"} => Known(log, job[j].item.id)
  /\ job[j].pc = "count" /\ setup.paired => RowOf(table[job[j].at].rows, j)
JobInv == \A j \in Job : JobOk(j)

AppendsApart ==
  \A j, k \in Job : j # k /\ job[j].pc = "append" /\ job[k].pc = "append" =>
                      job[j].item.id # job[k].item.id

\* Sessions that are asking for the challenger are served to nobody yet.
AsksInv ==
  /\ \A j \in Job :
       /\ job[j].asks # 0 =>
            /\ ~setup.paired /\ job[j].pc \in {"ensure", "ensuring"}
            /\ job[j].asks \in Subject
            /\ served[job[j].asks] # None /\ served[job[j].asks].arm = "asked"
       /\ ~setup.paired /\ job[j].pc \in {"ensure", "ensuring"} => job[j].asks # 0
  /\ \A j, k \in Job : j # k /\ job[j].asks # 0 => job[j].asks # job[k].asks

TableInv ==
  \A r \in Replica :
    /\ setup.paired => table[r].reports = <<>>
    /\ \A k \in 1..Len(table[r].rows) :
         /\ setup.paired
         /\ table[r].rows[k].inLog => Known(log, table[r].rows[k].item.id)

\* A replica counts no id twice, nothing without a record, and all it has read.
Durable(r, id) ==
  Known(log, id) \/ Known(table[r].reports, id) \/ RowOf(table[r].rows, id)
EvidenceOk(r) ==
  /\ reading[r] # None => reading[r] <= Len(log)
  /\ mon[r].offset <= Len(log)
  /\ Distinct(Held(r))
  /\ \A id \in Subject : Known(Held(r), id) => Durable(r, id)
  /\ \A i \in 1..mon[r].offset : Known(Held(r), log[i].id)
EvidenceInv == \A r \in Replica : EvidenceOk(r)

\* What a replica that may spend has counted, run in this life, or has a row of that is
\* not in the log it has debited once, but for rows its last start could not read; what
\* it has not counted it only debited for having run it.
SpendOk(r, s) ==
  /\ ~setup.paired => mon[r].debited[s] = 0
  /\ setup.paired /\ s \in Job /\ job[s].pc \in Early =>
       mon[r].debited[s] = 0 /\ ~Known(log, s) /\ ~RowOf(table[r].rows, s)
  /\ setup.paired /\ ~mon[r].blind =>
       /\ mon[r].debited[s] <= 1
       /\ Known(Held(r), s) /\ s \notin mon[r].unread => mon[r].debited[s] = 1
       /\ RowOf(table[r].rows, s) /\ ~Known(log, s) /\ s \notin mon[r].unread =>
            mon[r].debited[s] = 1
       /\ \A i \in 1..Len(log) : log[i].id = s /\ log[i].by = Me(r) => mon[r].debited[s] = 1
       /\ s \in Job /\ job[s].pc \in Late /\ job[s].at = r => mon[r].debited[s] = 1
       /\ mon[r].debited[s] = 1 /\ ~Known(Held(r), s) =>
            /\ \A i \in 1..Len(log) : log[i].id = s => log[i].by = Me(r)
            /\ s \in Job /\ (job[s].pc = "append" => job[s].at = r)
SpendInv == \A r \in Replica, s \in Subject : SpendOk(r, s)

\* While nothing fails, a monitor holds what it has read of the log, and no more.
CanonInv ==
  Canonical =>
    /\ \A r \in Replica : Held(r) = SubSeq(log, 1, mon[r].offset)
    /\ \A r \in Replica : \A k \in 1..Len(table[r].rows) : table[r].rows[k].inLog
    /\ \A j \in Job : job[j].pc \notin {"row", "count"}

Inv ==
  /\ Types /\ LogInv /\ JobInv /\ AppendsApart /\ AsksInv /\ TableInv
  /\ EvidenceInv /\ SpendInv /\ CanonInv

-------------------------------------------------------------------------------
(* Picking items out of a sequence, in their order.                        *)

Rank(I, i) == Cardinality({j \in I : j <= i})

\* The positions picked are counted from one, in their order, with none left out: a
\* record that a sync or a replay takes over comes exactly once.
LEMMA Ranks ==
  ASSUME NEW n \in Nat, NEW I \in SUBSET (1..n)
  PROVE  /\ IsFiniteSet(I) /\ Cardinality(I) \in Nat
         /\ \A i \in I : Rank(I, i) \in 1..Cardinality(I)
         /\ \A i, k \in I : i < k => Rank(I, i) < Rank(I, k)
         /\ \A k \in 1..Cardinality(I) : \E i \in I : Rank(I, i) = k
<1>1. IsFiniteSet(I) /\ Cardinality(I) \in Nat
  <2>1. IsFiniteSet(1..n)
    BY FS_Interval
  <2> QED BY <2>1, FS_Subset, FS_CardinalityType
<1>2. ASSUME NEW T \in SUBSET I
      PROVE  IsFiniteSet(T) /\ Cardinality(T) \in Nat /\ Cardinality(T) <= Cardinality(I)
  BY <1>1, FS_Subset, FS_CardinalityType
<1>3. ASSUME NEW i \in I
      PROVE  Rank(I, i) \in 1..Cardinality(I)
  <2> DEFINE T == {j \in I : j <= i}
  <2>1. i \in T
    OBVIOUS
  <2>2. Cardinality(T) # 0
    BY <2>1, <1>2, FS_EmptySet
  <2>3. Cardinality(T) \in Nat /\ Cardinality(T) <= Cardinality(I)
    BY <1>2
  <2> QED BY <2>2, <2>3, <1>1 DEF Rank
<1>4. ASSUME NEW i \in I, NEW k \in I, i < k
      PROVE  Rank(I, i) < Rank(I, k)
  <2> DEFINE T == {j \in I : j <= i}
             U == {j \in I : j <= k}
  <2>0. \A j \in I : j \in Int
    OBVIOUS
  <2>1. T \in SUBSET U /\ k \in U /\ k \notin T
    <3>1. \A j \in T : j \in I /\ j <= i
      OBVIOUS
    <3>2. \A j \in I : j <= i => j <= k
      BY <2>0, <1>4
    <3>3. ~(k <= i) /\ k <= k
      BY <2>0, <1>4
    <3> QED BY <3>1, <3>2, <3>3
  <2>2. IsFiniteSet(U) /\ Cardinality(U) \in Nat /\ Cardinality(T) \in Nat
    BY <1>2
  <2>3. Cardinality(T) <= Cardinality(U) /\ (Cardinality(U) = Cardinality(T) => U = T)
    <3> HIDE DEF T, U
    <3> QED BY <2>1, <2>2, FS_Subset
  <2>4. U # T
    BY <2>1
  <2> QED BY <2>2, <2>3, <2>4 DEF Rank
<1>5. \A k \in 1..Cardinality(I) : \E i \in I : Rank(I, i) = k
  <2> DEFINE f == [i \in I |-> Rank(I, i)]
             N == 1..Cardinality(I)
  <2>1. f \in [I -> N]
    BY <1>3
  <2>2. ASSUME NEW i \in I, NEW k \in I, f[i] = f[k]
        PROVE  i = k
    <3>1. ~(i < k) /\ ~(k < i)
      BY <2>2, <1>3, <1>4
    <3> QED BY <3>1
  <2>3. f \in Injection(I, N)
    BY <2>1, <2>2 DEF Injection, IsInjective
  <2>4. IsFiniteSet(N) /\ Cardinality(N) = Cardinality(I)
    BY <1>1, FS_Interval
  <2>5. f \in Surjection(I, N)
    <3> HIDE DEF f, N
    <3> QED BY <2>3, <2>4, FS_Injection
  <2>6. \A k \in N : \E i \in I : f[i] = k
    BY <2>5 DEF Surjection
  <2> QED BY <2>6
<1> QED BY <1>1, <1>3, <1>4, <1>5

LEMMA Picked ==
  ASSUME NEW S, NEW s \in Seq(S), NEW I \in SUBSET (1..Len(s))
  PROVE  /\ Pick(s, I) \in Seq(S) /\ Len(Pick(s, I)) = Cardinality(I)
         /\ Cardinality(I) \in Nat
         /\ \A i \in I : Rank(I, i) \in 1..Len(Pick(s, I)) /\ Pick(s, I)[Rank(I, i)] = s[i]
         /\ \A k \in 1..Len(Pick(s, I)) : \E i \in I : Rank(I, i) = k /\ Pick(s, I)[k] = s[i]
<1> DEFINE at(k) == CHOOSE i \in I : Cardinality({j \in I : j <= i}) = k
           c == Cardinality(I)
<1>1. /\ c \in Nat
      /\ \A i \in I : Rank(I, i) \in 1..c
      /\ \A i, k \in I : i < k => Rank(I, i) < Rank(I, k)
      /\ \A k \in 1..c : \E i \in I : Rank(I, i) = k
  BY Ranks, LenProperties
<1>2. \A k \in 1..c : at(k) \in I /\ Rank(I, at(k)) = k
  BY <1>1 DEF Rank
<1>3. \A i \in I : at(Rank(I, i)) = i
  <2> TAKE i \in I
  <2>1. Rank(I, i) \in 1..c
    BY <1>1
  <2>2. at(Rank(I, i)) \in I /\ Rank(I, at(Rank(I, i))) = Rank(I, i)
    BY <2>1, <1>2
  <2> HIDE DEF at
  <2>3. \A k \in I : k \in Nat
    BY LenProperties
  <2>4. PICK m \in I : m = at(Rank(I, i)) /\ Rank(I, m) = Rank(I, i)
    BY <2>2
  <2>5. ~(m < i) /\ ~(i < m)
    <3>1. Rank(I, i) \in Nat
      BY <2>1, <1>1
    <3> QED BY <3>1, <2>4, <1>1
  <2>6. m = i
    BY <2>3, <2>5
  <2> QED BY <2>4, <2>6
<1>4. \A k \in I : s[k] \in S
  BY ElementOfSeq
<1>5. Pick(s, I) = [k \in 1..c |-> s[at(k)]]
  BY DEF Pick
<1> HIDE DEF at, c
<1>6. Pick(s, I) \in [1..c -> S]
  BY <1>2, <1>4, <1>5
<1>7. Pick(s, I) \in Seq(S) /\ Len(Pick(s, I)) = c
  BY <1>1, <1>6
<1>8. \A i \in I : Rank(I, i) \in 1..c /\ Pick(s, I)[Rank(I, i)] = s[i]
  BY <1>1, <1>3, <1>5
<1>9. \A k \in 1..c : at(k) \in I /\ Rank(I, at(k)) = k /\ Pick(s, I)[k] = s[at(k)]
  BY <1>2, <1>5
<1> QED BY <1>1, <1>7, <1>8, <1>9 DEF c

\* Picking all positions of a stretch is taking the stretch.
LEMMA PickedStretch ==
  ASSUME NEW S, NEW s \in Seq(S), NEW a \in Nat \ {0}, NEW b \in Nat, b <= Len(s)
  PROVE  Pick(s, a..b) = SubSeq(s, a, b)
<1> DEFINE I == a..b
           p == Pick(s, I)
           q == SubSeq(s, a, b)
<1>0. Len(s) \in Nat
  BY LenProperties
<1>1. I \in SUBSET (1..Len(s))
  BY <1>0
<1>2. Cardinality(I) = IF a > b THEN 0 ELSE b - a + 1
  BY FS_Interval
<1>3. /\ p \in Seq(S) /\ Len(p) = Cardinality(I)
      /\ \A i \in I : p[Rank(I, i)] = s[i]
  <2> HIDE DEF I
  <2> QED BY <1>1, Picked
<1>4. /\ q \in Seq(S) /\ Len(q) = IF a <= b THEN b - a + 1 ELSE 0
      /\ \A i \in 1..(b - a + 1) : q[i] = s[a + i - 1]
  <2>1. \A i \in a..b : s[i] \in S
    BY <1>1, ElementOfSeq
  <2> QED BY <2>1, SubSeqProperties
<1>5. ASSUME NEW k \in 1..Len(p)
      PROVE  p[k] = q[k]
  <2>1. a <= b /\ Len(p) = b - a + 1
    BY <1>2, <1>3
  <2>2. a + k - 1 \in I
    BY <2>1
  <2>3. {j \in I : j <= a + k - 1} = a..(a + k - 1)
    BY <2>1
  <2>4. Cardinality(a..(a + k - 1)) = k
    BY FS_Interval
  <2>5. Rank(I, a + k - 1) = k
    BY <2>3, <2>4 DEF Rank
  <2>6. p[k] = s[a + k - 1]
    BY <1>3, <2>2, <2>5
  <2> QED BY <2>1, <2>6, <1>4
<1>6. Len(p) = Len(q)
  BY <1>2, <1>3, <1>4
<1> HIDE DEF p, q
<1> QED BY <1>3, <1>4, <1>5, <1>6, SeqEqual DEF p, q, I


-------------------------------------------------------------------------------
(* What a monitor makes of records.                                        *)

LEMMA LeastNatural ==
  ASSUME NEW T \in SUBSET Nat, T # {}
  PROVE  \E m \in T : \A k \in T : m <= k
<1>1. PICK m \in T : \A k \in T : ~(<<k, m>> \in OpToRel(<, Nat))
  <2>1. \E m \in T : \A k \in T : ~(<<k, m>> \in OpToRel(<, Nat))
    BY NatLessThanWellFounded, WFMin
  <2> QED BY <2>1
<1>2. \A k \in T : ~(k < m)
  BY <1>1 DEF OpToRel
<1> QED BY <1>2

LEMMA SameBeginning ==
  ASSUME NEW S, NEW s \in Seq(S), NEW t \in Seq(S), NEW n \in Nat, n <= Len(s), n <= Len(t),
         \A i \in 1..n : s[i] = t[i]
  PROVE  SubSeq(s, 1, n) = SubSeq(t, 1, n)
<1>1. \A i \in 1..n : s[i] \in S /\ t[i] \in S
  BY LenProperties, ElementOfSeq
<1>2. /\ SubSeq(s, 1, n) \in Seq(S) /\ Len(SubSeq(s, 1, n)) = n
      /\ \A i \in 1..n : SubSeq(s, 1, n)[i] = s[i]
  BY <1>1, SubSeqProperties
<1>3. /\ SubSeq(t, 1, n) \in Seq(S) /\ Len(SubSeq(t, 1, n)) = n
      /\ \A i \in 1..n : SubSeq(t, 1, n)[i] = t[i]
  BY <1>1, SubSeqProperties
<1> QED BY <1>2, <1>3, SeqEqual

LEMMA KnownAppended ==
  ASSUME NEW S, NEW e \in Seq(S), NEW x \in S
  PROVE  \A id : Known(Append(e, x), id) <=> Known(e, id) \/ x.id = id
<1>1. /\ Len(Append(e, x)) = Len(e) + 1 /\ Len(e) \in Nat
      /\ \A i \in 1..Len(e) : Append(e, x)[i] = e[i]
      /\ Append(e, x)[Len(e) + 1] = x
  BY AppendProperties, LenProperties
<1> DEFINE a == Append(e, x)
           n == Len(e)
<1> HIDE DEF a, n
<1>2. \A id : (\E i \in 1..(n + 1) : a[i].id = id) <=> (\E i \in 1..n : e[i].id = id) \/ x.id = id
  <2>1. n \in Nat /\ (\A i \in 1..n : a[i] = e[i]) /\ a[n + 1] = x
    BY <1>1 DEF a, n
  <2>2. \A i \in 1..(n + 1) : i \in 1..n \/ i = n + 1
    BY <2>1
  <2>3. n + 1 \in 1..(n + 1) /\ \A i \in 1..n : i \in 1..(n + 1)
    BY <2>1
  <2> QED BY <2>1, <2>2, <2>3
<1> QED BY <1>1, <1>2 DEF Known, a, n

LEMMA KnownJoined ==
  ASSUME NEW S, NEW e \in Seq(S), NEW f \in Seq(S)
  PROVE  \A id : Known(e \o f, id) <=> Known(e, id) \/ Known(f, id)
<1> DEFINE a == e \o f
           n == Len(e)
           m == Len(f)
<1>1. /\ Len(a) = n + m /\ n \in Nat /\ m \in Nat
      /\ \A i \in 1..(n + m) : a[i] = IF i <= n THEN e[i] ELSE f[i - n]
  BY ConcatProperties, LenProperties
<1> HIDE DEF a, n, m
<1>2. ASSUME NEW id, NEW i \in 1..(n + m), a[i].id = id
      PROVE  (\E k \in 1..n : e[k].id = id) \/ (\E k \in 1..m : f[k].id = id)
  <2>1. CASE i <= n
    BY <1>1, <1>2, <2>1
  <2>2. CASE i > n
    <3>1. i - n \in 1..m /\ a[i] = f[i - n]
      BY <1>1, <2>2
    <3> QED BY <1>2, <3>1
  <2> QED BY <1>1, <2>1, <2>2
<1>3. ASSUME NEW id, NEW k \in 1..n, e[k].id = id
      PROVE  \E i \in 1..(n + m) : a[i].id = id
  <2>1. k \in 1..(n + m) /\ a[k] = e[k]
    BY <1>1
  <2> QED BY <1>3, <2>1
<1>4. ASSUME NEW id, NEW k \in 1..m, f[k].id = id
      PROVE  \E i \in 1..(n + m) : a[i].id = id
  <2>1. k + n \in 1..(n + m) /\ a[k + n] = f[k]
    <3>1. k + n \in 1..(n + m) /\ ~(k + n <= n) /\ (k + n) - n = k
      BY <1>1
    <3> QED BY <1>1, <3>1
  <2> QED BY <1>4, <2>1
<1> QED BY <1>1, <1>2, <1>3, <1>4 DEF Known, a, n, m

\* However much of a log comes, and whatever of it was known: each id counts once, and
\* every id that came is known.
LEMMA TakenOver ==
  ASSUME NEW S, NEW e \in Seq(S), NEW s \in Seq(S), Distinct(e),
         NEW first \in Nat \ {0}, NEW last \in Nat, last <= Len(s)
  PROVE  /\ e \o Pick(s, New(e, s, first, last)) \in Seq(S)
         /\ Distinct(e \o Pick(s, New(e, s, first, last)))
         /\ \A id : Known(e \o Pick(s, New(e, s, first, last)), id)
                      <=> Known(e, id) \/ \E i \in first..last : s[i].id = id
<1> DEFINE N == New(e, s, first, last)
           p == Pick(s, N)
           a == e \o p
           n == Len(e)
           m == Len(p)
<1>0. Len(s) \in Nat /\ n \in Nat
  BY LenProperties
<1>1. N \in SUBSET (1..Len(s)) /\ N \subseteq Nat
  BY <1>0 DEF New
<1>2. /\ p \in Seq(S) /\ Len(p) = Cardinality(N) /\ Cardinality(N) \in Nat
      /\ \A i \in N : Rank(N, i) \in 1..Len(p) /\ p[Rank(N, i)] = s[i]
      /\ \A k \in 1..Len(p) : \E i \in N : Rank(N, i) = k /\ p[k] = s[i]
  <2> HIDE DEF N
  <2> QED BY <1>1, Picked
<1>3. \A i, k \in N : i < k => Rank(N, i) < Rank(N, k)
  <2> HIDE DEF N
  <2> QED BY <1>0, <1>1, Ranks
<1>4. \A i \in N : ~Known(e, s[i].id) /\ \A k \in first..(i - 1) : s[k].id # s[i].id
  BY DEF New
<1>5. \A i \in N : i \in first..last
  BY DEF New
<1>6. ASSUME NEW k \in 1..m, NEW l \in 1..m, k < l
      PROVE  p[k].id # p[l].id
  <2>1. PICK i \in N : Rank(N, i) = k /\ p[k] = s[i]
    BY <1>2
  <2>2. PICK j \in N : Rank(N, j) = l /\ p[l] = s[j]
    BY <1>2
  <2>3. i \in Nat /\ j \in Nat /\ k \in Nat /\ l \in Nat
    BY <1>1, <1>2
  <2>4. i < j
    <3>1. i # j
      BY <1>6, <2>1, <2>2, <2>3
    <3>2. ~(j < i)
      BY <1>6, <1>3, <2>1, <2>2, <2>3
    <3> HIDE DEF N
    <3> QED BY <2>3, <3>1, <3>2
  <2>5. i \in first..(j - 1)
    BY <2>3, <2>4, <1>5
  <2> QED BY <2>1, <2>2, <2>5, <1>4
<1>7. ASSUME NEW k \in 1..m
      PROVE  ~Known(e, p[k].id) /\ \E i \in first..last : s[i].id = p[k].id
  BY <1>2, <1>4, <1>5
<1>8. ASSUME NEW id, NEW i \in first..last, s[i].id = id, ~Known(e, id)
      PROVE  Known(p, id)
  <2> DEFINE T == {k \in first..last : s[k].id = id}
  <2>1. T \in SUBSET Nat /\ T # {}
    BY <1>8
  <2>2. PICK k \in T : \A l \in T : k <= l
    <3> HIDE DEF T
    <3> QED BY <2>1, LeastNatural
  <2>3. \A l \in first..(k - 1) : s[l].id # s[k].id
    BY <2>2
  <2>4. k \in N
    BY <2>2, <2>3, <1>8 DEF New
  <2>5. s[k].id = id
    BY <2>2
  <2> HIDE DEF N
  <2> QED BY <2>4, <2>5, <1>2 DEF Known
<1> HIDE DEF N, p
<1>9. /\ a \in Seq(S) /\ Len(a) = n + m /\ m \in Nat
      /\ \A i \in 1..(n + m) : a[i] = IF i <= n THEN e[i] ELSE p[i - n]
  BY <1>2, ConcatProperties, LenProperties
<1>10. \A id : Known(a, id) <=> Known(e, id) \/ Known(p, id)
  BY <1>2, KnownJoined
<1> HIDE DEF a, n, m
<1>11. ASSUME NEW i \in 1..Len(a), NEW k \in 1..Len(a), i < k
       PROVE  a[i].id # a[k].id
  <2>1. CASE k <= n
    <3>1. i \in 1..n /\ k \in 1..n /\ a[i] = e[i] /\ a[k] = e[k]
      BY <1>0, <1>9, <1>11, <2>1
    <3> QED BY <3>1, <1>11 DEF Distinct, n
  <2>2. CASE i <= n /\ k > n
    <3>1. i \in 1..n /\ (k - n) \in 1..m /\ a[i] = e[i] /\ a[k] = p[k - n]
      BY <1>0, <1>9, <2>2
    <3>2. ~Known(e, p[k - n].id)
      BY <3>1, <1>7
    <3> QED BY <3>1, <3>2 DEF Known, n
  <2>3. CASE i > n
    <3>1. (i - n) \in 1..m /\ (k - n) \in 1..m /\ i - n < k - n
          /\ a[i] = p[i - n] /\ a[k] = p[k - n]
      BY <1>0, <1>9, <1>11, <2>3
    <3> QED BY <3>1, <1>6
  <2> QED BY <1>0, <1>9, <1>11, <2>1, <2>2, <2>3
<1>12. Distinct(a)
  BY <1>11 DEF Distinct
<1>13. \A id : Known(p, id) => \E i \in first..last : s[i].id = id
  BY <1>7 DEF Known, m
<1> QED BY <1>8, <1>9, <1>10, <1>12, <1>13 DEF N, p, a

LEMMA LogTakenOver ==
  ASSUME log \in Seq(Record), NEW ev \in Seq(Record), Distinct(ev),
         NEW first \in Nat \ {0}, NEW upto \in Nat, upto <= Len(log)
  PROVE  /\ ev \o Pick(log, New(ev, log, first, upto)) \in Seq(Record)
         /\ Distinct(ev \o Pick(log, New(ev, log, first, upto)))
         /\ \A id : Known(ev \o Pick(log, New(ev, log, first, upto)), id)
                      <=> Known(ev, id) \/ \E i \in first..upto : log[i].id = id
  BY TakenOver

LEMMA CountedOne ==
  ASSUME NEW S, NEW e \in Seq(S), Distinct(e), NEW x \in S
  PROVE  /\ Counted(e, x) \in Seq(S) /\ Distinct(Counted(e, x))
         /\ \A id : Known(Counted(e, x), id) <=> Known(e, id) \/ x.id = id
<1>1. CASE Known(e, x.id)
  BY <1>1 DEF Counted
<1>2. CASE ~Known(e, x.id)
  <2> DEFINE a == Append(e, x)
             n == Len(e)
  <2>1. Counted(e, x) = a
    BY <1>2 DEF Counted
  <2>2. /\ a \in Seq(S) /\ Len(a) = n + 1 /\ n \in Nat
        /\ \A i \in 1..n : a[i] = e[i]
        /\ a[n + 1] = x
    BY AppendProperties, LenProperties
  <2>3. \A id : Known(a, id) <=> Known(e, id) \/ x.id = id
    BY KnownAppended
  <2> HIDE DEF a, n
  <2>4. ASSUME NEW i \in 1..Len(a), NEW k \in 1..Len(a), i < k
        PROVE  a[i].id # a[k].id
    <3>1. i \in 1..n /\ a[i] = e[i]
      BY <2>2, <2>4
    <3>2. CASE k \in 1..n
      BY <2>2, <2>4, <3>1, <3>2 DEF Distinct, n
    <3>3. CASE k = n + 1
      BY <2>2, <3>1, <3>3, <1>2 DEF Known, n
    <3> QED BY <2>2, <3>2, <3>3
  <2> QED BY <2>1, <2>2, <2>3, <2>4 DEF Distinct
<1> QED BY <1>1, <1>2


\* What a monitor m amounts to once it has taken over the log up to upto.
TookOver(m, upto, me, y) ==
  /\ y \in Monitor /\ Distinct(y.evidence)
  /\ y.blind = m.blind /\ y.unread = m.unread
  /\ y.offset = IF upto > m.offset THEN upto ELSE m.offset
  /\ \A id : Known(y.evidence, id) <=>
       Known(m.evidence, id) \/ \E i \in (m.offset + 1)..upto : log[i].id = id
  /\ \A s \in Subject : y.debited[s] =
       IF \E i \in (m.offset + 1)..upto :
            log[i].id = s /\ ~Known(m.evidence, s) /\ Seeds(log[i], me)
       THEN m.debited[s] + 1 ELSE m.debited[s]
  /\ m.evidence = SubSeq(log, 1, m.offset) /\ m.offset <= Len(log) =>
       y.evidence = SubSeq(log, 1, IF upto > m.offset THEN upto ELSE m.offset)

\* A sync takes over what it read and did not know, counts it once, and debits what
\* other processes spent on it; reading the beginning of a log, it holds a beginning.
LEMMA SyncedWell ==
  ASSUME log \in Seq(Record), Distinct(log), NEW m \in Monitor, Distinct(m.evidence),
         NEW upto \in Nat, upto <= Len(log), NEW me
  PROVE  TookOver(m, upto, me, Synced(m, upto, me))
<1> DEFINE N == New(m.evidence, log, m.offset + 1, upto)
           seeded == {log[i].id : i \in {k \in N : Seeds(log[k], me)}}
           e == m.evidence \o Pick(log, N)
           d == [s \in Subject |-> IF s \in seeded THEN m.debited[s] + 1 ELSE m.debited[s]]
           o == IF upto > m.offset THEN upto ELSE m.offset
           y == Synced(m, upto, me)
<1>1. m.evidence \in Seq(Record) /\ m.debited \in [Subject -> Nat] /\ m.offset \in Nat
  BY DEF Monitor
<1>2. y = [evidence |-> e, debited |-> d, offset |-> o, sync |-> "synced",
           blind |-> m.blind, unread |-> m.unread]
  BY DEF Synced
<1>3. m.offset + 1 \in Nat \ {0}
  BY <1>1
<1>4. /\ e \in Seq(Record) /\ Distinct(e)
      /\ \A id : Known(e, id) <=>
           Known(m.evidence, id) \/ \E i \in (m.offset + 1)..upto : log[i].id = id
  <2> DEFINE ev == m.evidence
             first == m.offset + 1
  <2>1. ev \in Seq(Record) /\ Distinct(ev) /\ first \in Nat \ {0}
    BY <1>1, <1>3
  <2> HIDE DEF ev, first, N, seeded, e, d, o, y
  <2>2. /\ ev \o Pick(log, New(ev, log, first, upto)) \in Seq(Record)
        /\ Distinct(ev \o Pick(log, New(ev, log, first, upto)))
        /\ \A id : Known(ev \o Pick(log, New(ev, log, first, upto)), id) <=>
             Known(ev, id) \/ \E i \in first..upto : log[i].id = id
    BY <2>1, LogTakenOver
  <2> QED BY <2>2 DEF ev, first, N, e
<1>5. d \in [Subject -> Nat] /\ o \in Nat
  BY <1>1
<1>6. \A i \in N : i \in (m.offset + 1)..upto /\ ~Known(m.evidence, log[i].id)
  BY DEF New
<1>7. ASSUME NEW i \in (m.offset + 1)..upto, ~Known(m.evidence, log[i].id)
      PROVE  i \in N
  <2>1. ASSUME NEW k \in (m.offset + 1)..(i - 1)
        PROVE  log[k].id # log[i].id
    <3>1. k \in 1..Len(log) /\ i \in 1..Len(log) /\ k < i
      BY <1>1, LenProperties
    <3> QED BY <3>1 DEF Distinct
  <2> QED BY <1>7, <2>1 DEF New
<1>8. \A s \in Subject : s \in seeded <=>
        \E i \in (m.offset + 1)..upto :
          log[i].id = s /\ ~Known(m.evidence, s) /\ Seeds(log[i], me)
  <2> HIDE DEF N
  <2> QED BY <1>6, <1>7
<1>9. ASSUME m.evidence = SubSeq(log, 1, m.offset), m.offset <= Len(log)
      PROVE  e = SubSeq(log, 1, o)
  <2>0. Len(log) \in Nat
    BY LenProperties
  <2>1. \A i \in 1..m.offset : log[i] \in Record
    BY <1>1, <1>9, <2>0, ElementOfSeq
  <2>2. Len(m.evidence) = m.offset /\ \A i \in 1..m.offset : m.evidence[i] = log[i]
    BY <1>1, <1>9, <2>1, SubSeqProperties
  <2>3. ASSUME NEW i \in (m.offset + 1)..upto
        PROVE  ~Known(m.evidence, log[i].id)
    <3>1. ASSUME NEW k \in 1..m.offset
          PROVE  log[k].id # log[i].id
      <4>1. k \in 1..Len(log) /\ i \in 1..Len(log) /\ k < i
        BY <1>1, <1>9, <2>0
      <4> QED BY <4>1 DEF Distinct
    <3> QED BY <2>2, <3>1 DEF Known
  <2>4. N = (m.offset + 1)..upto
    <3> HIDE DEF N
    <3> QED BY <1>6, <1>7, <2>3
  <2>5. Pick(log, N) = SubSeq(log, m.offset + 1, upto)
    BY <1>3, <2>4, PickedStretch
  <2>6. CASE m.offset <= upto
    <3>1. SubSeq(log, 1, m.offset) \o SubSeq(log, m.offset + 1, upto) = SubSeq(log, 1, upto)
      <4>1. /\ 1 \in 1..Len(log) + 1 /\ m.offset \in (1 - 1)..Len(log)
            /\ upto \in m.offset..Len(log)
        BY <1>1, <1>9, <2>0, <2>6
      <4> QED BY <4>1, ConcatAdjacentSubSeq
    <3>2. o = upto
      BY <1>1, <2>6
    <3> HIDE DEF N, o
    <3> QED BY <1>9, <2>5, <3>1, <3>2
  <2>7. CASE upto < m.offset
    <3>1. SubSeq(log, m.offset + 1, upto) = <<>>
      BY <1>1, <2>7, SubSeqEmpty
    <3>2. o = m.offset
      BY <1>1, <2>7
    <3>3. m.evidence \o <<>> = m.evidence
      BY <1>1, ConcatEmptySeq
    <3> HIDE DEF N, o
    <3> QED BY <1>9, <2>5, <3>1, <3>2, <3>3
  <2> HIDE DEF e, o
  <2> QED BY <1>1, <2>6, <2>7
<1> HIDE DEF e, d, o, y
<1>10. y \in Monitor
  BY <1>2, <1>4, <1>5 DEF Monitor
<1>11. /\ y.evidence = e /\ y.debited = d /\ y.offset = o
       /\ y.blind = m.blind /\ y.unread = m.unread
  BY <1>2
<1> HIDE DEF seeded, N
<1>12. \A s \in Subject : d[s] = IF s \in seeded THEN m.debited[s] + 1 ELSE m.debited[s]
  BY DEF d
<1>13. \A s \in Subject : d[s] =
         IF \E i \in (m.offset + 1)..upto :
              log[i].id = s /\ ~Known(m.evidence, s) /\ Seeds(log[i], me)
         THEN m.debited[s] + 1 ELSE m.debited[s]
  BY <1>8, <1>12
<1> QED BY <1>4, <1>9, <1>10, <1>11, <1>13 DEF TookOver, y, o


\* The rows a restart replays: all, or with a log those that are not in it.
Kept(r) == {i \in 1..Len(table[r].rows) : ~(setup.logged /\ table[r].rows[i].inLog)}

\* A restart counts what its tables hold once, debits the rows it replays, and has
\* nothing of the log.
LEMMA ReplayedWell ==
  ASSUME NEW r \in Replica, table[r] \in Tables
  PROVE  /\ Replayed(r) \in Monitor
         /\ Distinct(Replayed(r).evidence)
         /\ Replayed(r).offset = 0
         /\ \A id : Known(Replayed(r).evidence, id) <=>
              Known(table[r].reports, id) \/ \E k \in Kept(r) : table[r].rows[k].item.id = id
         /\ \A s \in Subject : Replayed(r).debited[s] =
              IF \E k \in Kept(r) : table[r].rows[k].item.id = s THEN 1 ELSE 0
<1> DEFINE all == table[r].rows
           K == Kept(r)
           rows == Pick(all, K)
           late == [i \in 1..Len(rows) |-> rows[i].item]
           items == table[r].reports \o late
           e == Pick(items, New(<<>>, items, 1, Len(items)))
           d == [s \in Subject |-> IF \E i \in 1..Len(rows) : rows[i].item.id = s THEN 1 ELSE 0]
           y == IF \/ table[r].reports # <<>> \/ table[r].rows # <<>>
                   \/ \E s \in Subject, arm \in Arm : served[s] = [at |-> r, arm |-> arm]
                THEN "known" ELSE "none"
           R == [item : Record, inLog : BOOLEAN]
<1>1. all \in Seq(R) /\ table[r].reports \in Seq(Record)
  BY DEF Tables
<1>2. K \in SUBSET (1..Len(all))
  BY DEF Kept
<1>3. Replayed(r) = [evidence |-> e, debited |-> d, offset |-> 0, sync |-> y,
                     blind |-> FALSE, unread |-> {}]
  BY DEF Replayed, Kept
<1> HIDE DEF K, all
<1>4. /\ rows \in Seq(R) /\ Len(rows) \in Nat
      /\ \A i \in K : Rank(K, i) \in 1..Len(rows) /\ rows[Rank(K, i)] = all[i]
      /\ \A k \in 1..Len(rows) : \E i \in K : Rank(K, i) = k /\ rows[k] = all[i]
  <2> HIDE DEF R
  <2> QED BY <1>1, <1>2, Picked
<1>5. \A i \in 1..Len(rows) : rows[i].item \in Record
  <2>1. \A i \in 1..Len(rows) : rows[i] \in R
    <3> HIDE DEF R, rows
    <3> QED BY <1>4, ElementOfSeq
  <2> QED BY <2>1
<1>6. \A id : (\E i \in 1..Len(rows) : rows[i].item.id = id) <=> \E k \in K : all[k].item.id = id
  <2> HIDE DEF rows
  <2> QED BY <1>4
<1> HIDE DEF rows
<1>7. late \in Seq(Record) /\ Len(late) = Len(rows)
  <2>1. late \in [1..Len(rows) -> Record]
    BY <1>5
  <2> HIDE DEF late
  <2> QED BY <1>4, <2>1
<1>8. \A id : Known(late, id) <=> \E i \in 1..Len(rows) : rows[i].item.id = id
  <2>1. \A i \in 1..Len(rows) : late[i] = rows[i].item
    OBVIOUS
  <2> HIDE DEF late
  <2> QED BY <1>7, <2>1 DEF Known
<1> HIDE DEF late
<1>9. /\ items \in Seq(Record)
      /\ \A id : Known(items, id) <=> Known(table[r].reports, id) \/ Known(late, id)
  BY <1>1, <1>7, KnownJoined, ConcatProperties
<1> HIDE DEF items
<1>10. e \in Seq(Record) /\ Distinct(e) /\ \A id : Known(e, id) <=> Known(items, id)
  <2> DEFINE ev == <<>>
             p == Pick(items, New(ev, items, 1, Len(items)))
  <2>1. ev \in Seq(Record) /\ Distinct(ev) /\ (\A id : ~Known(ev, id)) /\ Len(items) \in Nat
    <3>1. Len(ev) = 0 /\ ev \in Seq(Record)
      OBVIOUS
    <3>2. Len(items) \in Nat
      BY <1>9, LenProperties
    <3> HIDE DEF ev
    <3>3. 1..Len(ev) = {}
      BY <3>1
    <3> QED BY <3>1, <3>2, <3>3 DEF Distinct, Known
  <2> HIDE DEF ev
  <2>2. /\ ev \o p \in Seq(Record) /\ Distinct(ev \o p)
        /\ \A id : Known(ev \o p, id) <=>
             Known(ev, id) \/ \E i \in 1..Len(items) : items[i].id = id
    BY <1>9, <2>1, TakenOver
  <2>3. p \in Seq(Record)
    <3>1. New(ev, items, 1, Len(items)) \in SUBSET (1..Len(items))
      BY DEF New
    <3> QED BY <1>9, <3>1, Picked
  <2>4. ev \o p = p
    <3> HIDE DEF p
    <3> QED BY <2>3, ConcatEmptySeq DEF ev
  <2>5. Distinct(p) /\ \A id : Known(p, id) <=> \E i \in 1..Len(items) : items[i].id = id
    <3> HIDE DEF p
    <3> QED BY <2>1, <2>2, <2>4
  <2>6. e = p
    BY DEF ev
  <2> HIDE DEF e, p
  <2> QED BY <2>3, <2>5, <2>6 DEF Known
<1>11. d \in [Subject -> Nat] /\ y \in {"known", "none"}
  OBVIOUS
<1>12. \A s \in Subject : d[s] = IF \E k \in K : all[k].item.id = s THEN 1 ELSE 0
  BY <1>6
<1> HIDE DEF e, d, y
<1>13. Replayed(r) \in Monitor
  BY <1>3, <1>10, <1>11 DEF Monitor
<1>14. Replayed(r).evidence = e /\ Replayed(r).debited = d /\ Replayed(r).offset = 0
  BY <1>3
<1>15. \A id : Known(e, id) <=>
         Known(table[r].reports, id) \/ \E k \in K : all[k].item.id = id
  BY <1>6, <1>8, <1>9, <1>10
<1> QED BY <1>10, <1>12, <1>13, <1>14, <1>15 DEF K, all

\* What a start makes of its tables when the monitor reads them, or does not, and when
\* the ledger does, or does not.
LEMMA RebuiltWell ==
  ASSUME NEW r \in Replica, table[r] \in Tables, NEW whole \in BOOLEAN, NEW seeded \in BOOLEAN
  PROVE  /\ Rebuilt(r, whole, seeded) \in Monitor
         /\ Distinct(Rebuilt(r, whole, seeded).evidence)
         /\ Rebuilt(r, whole, seeded).offset = 0
         /\ \A id : Known(Rebuilt(r, whole, seeded).evidence, id) <=>
              whole /\ \/ Known(table[r].reports, id)
                       \/ \E k \in Kept(r) : table[r].rows[k].item.id = id
         /\ \A s \in Subject : Rebuilt(r, whole, seeded).debited[s] =
              IF seeded /\ \E k \in Kept(r) : table[r].rows[k].item.id = s THEN 1 ELSE 0
         /\ ~Rebuilt(r, whole, seeded).blind => whole
         /\ \A s \in Subject : ~seeded /\ (\E k \in Kept(r) : table[r].rows[k].item.id = s)
                                => s \in Rebuilt(r, whole, seeded).unread
<1> DEFINE m == Replayed(r)
           n == [Blank EXCEPT !.blind = TRUE]
           b == IF whole THEN m ELSE n
           d == IF seeded THEN m.debited ELSE Blank.debited
           u == IF seeded THEN {} ELSE {s \in Subject : m.debited[s] = 1}
           y == [b EXCEPT !.debited = d, !.unread = u]
           Row1(s) == \E k \in Kept(r) : table[r].rows[k].item.id = s
<1>1. /\ m \in Monitor /\ Distinct(m.evidence) /\ m.offset = 0
      /\ \A id : Known(m.evidence, id) <=> Known(table[r].reports, id) \/ Row1(id)
      /\ \A s \in Subject : m.debited[s] = IF Row1(s) THEN 1 ELSE 0
  BY ReplayedWell
<1>2. n \in Monitor /\ n.evidence = <<>> /\ n.offset = 0 /\ n.blind = TRUE
  <2>1. <<>> \in Seq(Record)
    OBVIOUS
  <2> QED BY <2>1 DEF Blank, Monitor
<1>3. Rebuilt(r, whole, seeded) = y
  BY DEF Rebuilt
<1>4. Blank.debited \in [Subject -> Nat] /\ \A s \in Subject : Blank.debited[s] = 0
  BY DEF Blank
<1> HIDE DEF m, n
<1>5. b \in Monitor /\ d \in [Subject -> Nat] /\ u \in SUBSET Subject
  <2>1. m.debited \in [Subject -> Nat]
    BY <1>1 DEF Monitor
  <2> QED BY <1>1, <1>2, <1>4, <2>1
<1>6. \A s \in Subject : d[s] = IF seeded /\ Row1(s) THEN 1 ELSE 0
  <2> HIDE DEF Row1
  <2> QED BY <1>1, <1>4
<1>7. \A s \in Subject : ~seeded /\ Row1(s) => s \in u
  <2> HIDE DEF Row1
  <2> QED BY <1>1
<1>8. /\ Distinct(b.evidence) /\ b.offset = 0
      /\ \A id : Known(b.evidence, id) <=> whole /\ (Known(table[r].reports, id) \/ Row1(id))
  <2> HIDE DEF Row1
  <2>1. Distinct(<<>>) /\ \A id : ~Known(<<>>, id)
    <3>1. Len(<<>>) = 0 /\ 1..0 = {}
      OBVIOUS
    <3> QED BY <3>1 DEF Distinct, Known
  <2>2. CASE whole
    BY <1>1, <2>2
  <2>3. CASE ~whole
    <3>1. b.evidence = <<>> /\ b.offset = 0
      BY <1>2, <2>3
    <3> HIDE DEF b
    <3> QED BY <2>1, <2>3, <3>1
  <2> QED BY <2>2, <2>3
<1>9. ~whole => b.blind = TRUE
  BY <1>2
<1> HIDE DEF b, d, u
<1>10. /\ y \in Monitor /\ y.evidence = b.evidence /\ y.offset = b.offset /\ y.debited = d
       /\ y.unread = u /\ y.blind = b.blind
  BY <1>5 DEF Monitor
<1> HIDE DEF y
<1>11. ~y.blind => whole
  BY <1>9, <1>10
<1> QED BY <1>3, <1>6, <1>7, <1>8, <1>10, <1>11

-------------------------------------------------------------------------------
(* Steps of a job, and of a monitor.                                       *)

LEMMA SetupTyped ==
  ASSUME setup \in Setups
  PROVE  /\ setup.replicas \in SUBSET Replica /\ setup.past \in SUBSET Subject
         /\ setup.arms \in [Subject -> Arm \cup {"none"}]
         /\ setup.restarts \in Nat /\ setup.faults \in Nat
         /\ Job \subseteq Subject /\ Subject \subseteq Nat \ {0}
<1>1. setup \in Setup /\ Jobs \in 0..Subjects /\ Subjects \in Nat
  BY ExperimentAssumption
<1> QED BY <1>1 DEF Setup, Job, Subject

LEMMA ItemTyped ==
  ASSUME Types, NEW r \in Replica, NEW id \in Subject, NEW arm \in Arm \cup {"pair"},
         NEW x \in -1..1
  PROVE  Item(id, arm, x, r) \in Record
<1>1. setup \in Setups /\ setup.restarts \in Nat /\ life[r] \in Nat /\ life[r] <= restarts
      /\ restarts <= setup.restarts /\ restarts \in Nat
  BY SetupTyped DEF Types
<1>2. life[r] \in 0..setup.restarts
  BY <1>1
<1>3. life[r] \in UNION {0..d.restarts : d \in Setups}
  BY <1>1, <1>2
<1>4. Me(r) \in {<<q, n>> : q \in Replica, n \in UNION {0..d.restarts : d \in Setups}}
  BY <1>3 DEF Me
<1> QED BY <1>4 DEF Item, Record

LEMMA Went ==
  ASSUME job \in [Job -> Work], NEW j \in Job, NEW pc \in Early \cup Late \cup {"done"},
         Goes(j, pc)
  PROVE  /\ job' \in [Job -> Work]
         /\ \A k \in Job : k # j => job'[k] = job[k]
         /\ job'[j].pc = pc
         /\ pc # "done" => /\ job'[j].at = job[j].at /\ job'[j].asks = job[j].asks
                           /\ job'[j].item = job[j].item /\ job'[j].upto = job[j].upto
         /\ pc = "done" => job'[j] = Done
<1>1. Done \in Work /\ Done.pc = "done"
  BY DEF Done, Absent, Work
<1>2. CASE pc = "done"
  <2>1. job' = [job EXCEPT ![j] = Done]
    BY <1>2 DEF Goes
  <2> HIDE DEF Done
  <2> QED BY <1>1, <1>2, <2>1
<1>3. CASE pc # "done"
  <2>1. job' = [job EXCEPT ![j] = [job[j] EXCEPT !.pc = pc]]
    BY <1>3 DEF Goes
  <2>2. job[j] \in Work
    OBVIOUS
  <2>3. [job[j] EXCEPT !.pc = pc] \in Work
    BY <2>2 DEF Work
  <2> QED BY <1>3, <2>1, <2>2, <2>3 DEF Work
<1> QED BY <1>2, <1>3

LEMMA Learnt ==
  ASSUME mon \in [Replica -> Monitor], NEW r \in Replica, NEW m \in Monitor, Knows(r, m)
  PROVE  /\ mon' \in [Replica -> Monitor] /\ mon'[r] = m
         /\ \A q \in Replica : q # r => mon'[q] = mon[q]
BY DEF Knows

LEMMA CountedWell ==
  ASSUME NEW m \in Monitor, Distinct(m.evidence), NEW x \in Record
  PROVE  /\ CountedHere(m, x) \in Monitor /\ Distinct(CountedHere(m, x).evidence)
         /\ CountedHere(m, x).debited = m.debited /\ CountedHere(m, x).offset = m.offset
         /\ CountedHere(m, x).blind = m.blind /\ CountedHere(m, x).unread = m.unread
         /\ \A id : Known(CountedHere(m, x).evidence, id) <=> Known(m.evidence, id) \/ x.id = id
<1> DEFINE e == Counted(m.evidence, x)
<1>1. m.evidence \in Seq(Record)
  BY DEF Monitor
<1>2. /\ e \in Seq(Record) /\ Distinct(e)
      /\ \A id : Known(e, id) <=> Known(m.evidence, id) \/ x.id = id
  <2> DEFINE ev == m.evidence
  <2>1. ev \in Seq(Record) /\ Distinct(ev)
    BY <1>1
  <2> HIDE DEF ev
  <2>2. /\ Counted(ev, x) \in Seq(Record) /\ Distinct(Counted(ev, x))
        /\ \A id : Known(Counted(ev, x), id) <=> Known(ev, id) \/ x.id = id
    BY <2>1, CountedOne
  <2> QED BY <2>2 DEF ev
<1>3. CountedHere(m, x) = [m EXCEPT !.evidence = e]
  BY DEF CountedHere
<1> HIDE DEF e
<1>4. [m EXCEPT !.evidence = e] \in Monitor /\ [m EXCEPT !.evidence = e].evidence = e
      /\ [m EXCEPT !.evidence = e].debited = m.debited
      /\ [m EXCEPT !.evidence = e].offset = m.offset
      /\ [m EXCEPT !.evidence = e].blind = m.blind
      /\ [m EXCEPT !.evidence = e].unread = m.unread
  BY <1>2 DEF Monitor
<1> QED BY <1>2, <1>3, <1>4

LEMMA NoticedWell ==
  ASSUME NEW m \in Monitor
  PROVE  /\ Noticed(m) \in Monitor /\ Noticed(m).evidence = m.evidence
         /\ Noticed(m).debited = m.debited /\ Noticed(m).offset = m.offset
         /\ Noticed(m).blind = m.blind /\ Noticed(m).unread = m.unread
BY DEF Noticed, Monitor


-------------------------------------------------------------------------------
(* What a step leaves of the invariant when it only adds to what is kept.  *)

Grows ==
  /\ setup' = setup /\ claims \subseteq claims'
  /\ log' \in Seq(Record) /\ Len(log) <= Len(log')
  /\ \A i \in 1..Len(log) : log'[i] = log[i]
  /\ \A id : Known(log, id) => Known(log', id)
  /\ \A r \in Replica : \A id :
       /\ Known(table[r].reports, id) => Known(table'[r].reports, id)
       /\ RowOf(table[r].rows, id) => RowOf(table'[r].rows, id)

LEMMA NothingNew ==
  ASSUME Types, setup' = setup, claims \subseteq claims', log' = log, table' = table
  PROVE  Grows
<1>1. Len(log) \in Nat /\ log \in Seq(Record)
  BY LenProperties DEF Types
<1> QED BY <1>1 DEF Grows

\* A job that a step leaves alone.
LEMMA JobFrame ==
  ASSUME Types, Grows, NEW k \in Job, JobOk(k), job'[k] = job[k],
         job[k].pc \notin {"absent", "done"} => life'[job[k].at] = life[job[k].at],
         job[k].pc = "append" => ~Known(log', job[k].item.id)
  PROVE  JobOk(k)'
<1>1. Len(log) \in Nat /\ Len(log') \in Nat /\ Len(log) <= Len(log') /\ job[k] \in Work
  BY LenProperties DEF Types, Grows
<1>2. job'[k].upto <= Len(log')
  BY <1>1 DEF JobOk, Work
<1>3. job[k].pc \in Late => job[k].at \in Replica /\ (Me(job[k].at))' = Me(job[k].at)
  <2>1. job[k].pc \in Late => job[k].pc \notin {"absent", "done"}
    BY DEF Late
  <2> QED BY <2>1 DEF JobOk, Me
<1>4. "count" \in Late /\ "append" \in Late
  BY DEF Late
<1> QED BY <1>2, <1>3, <1>4 DEF JobOk, Grows

LEMMA EvidenceFrame ==
  ASSUME Types, Grows, NEW r \in Replica, EvidenceOk(r),
         reading'[r] \in {reading[r], None}, mon' \in [Replica -> Monitor],
         mon'[r].offset = mon[r].offset, Distinct(mon'[r].evidence),
         \A id : Known(Held(r), id) => Known(mon'[r].evidence, id),
         \A id \in Subject : Known(mon'[r].evidence, id) =>
           \/ Known(Held(r), id) \/ Known(log', id)
           \/ Known(table'[r].reports, id) \/ RowOf(table'[r].rows, id)
  PROVE  EvidenceOk(r)'
<1>1. Len(log) \in Nat /\ Len(log') \in Nat /\ Len(log) <= Len(log')
  BY LenProperties DEF Types, Grows
<1>2. mon[r].offset \in Nat /\ reading[r] \in Nat \cup {None}
  BY DEF Types, Monitor
<1>3. reading'[r] # None => reading'[r] <= Len(log')
  BY <1>1, <1>2 DEF EvidenceOk
<1>4. mon'[r].offset <= Len(log')
  BY <1>1, <1>2 DEF EvidenceOk
<1>5. ASSUME NEW id \in Subject, Known(mon'[r].evidence, id)
      PROVE  \/ Known(log', id) \/ Known(table'[r].reports, id) \/ RowOf(table'[r].rows, id)
  BY <1>5 DEF EvidenceOk, Durable, Grows
<1>6. ASSUME NEW i \in 1..mon'[r].offset
      PROVE  Known(mon'[r].evidence, log'[i].id)
  <2>1. i \in 1..mon[r].offset /\ i \in 1..Len(log)
    BY <1>1, <1>2 DEF EvidenceOk
  <2> QED BY <2>1 DEF EvidenceOk, Grows
<1> QED BY <1>3, <1>4, <1>5, <1>6 DEF EvidenceOk, Durable, Held

\* No job is later in its course, or elsewhere, or about to append.
Behind(s) ==
  s \in Job =>
    /\ job'[s].pc \in Late => job[s].pc \in Late /\ job'[s].at = job[s].at
    /\ job'[s].pc \in Early => job[s].pc \in Early
    /\ job'[s].pc = "append" => job[s].pc = "append"

LEMMA SpendFrame ==
  ASSUME NEW r \in Replica, NEW s \in Subject, SpendOk(r, s), Behind(s) \/ ~setup.paired,
         setup' = setup, log' = log, table' = table, life' = life,
         mon'[r].evidence = mon[r].evidence, mon'[r].debited[s] = mon[r].debited[s],
         mon'[r].blind = mon[r].blind, mon'[r].unread = mon[r].unread
  PROVE  SpendOk(r, s)'
<1>1. CASE ~setup.paired
  BY <1>1 DEF SpendOk
<1>2. CASE setup.paired
  <2>1. (Me(r))' = Me(r) /\ (Held(r))' = Held(r)
    BY DEF Me, Held
  <2>2. s \in Job /\ job'[s].pc = "append" => job'[s].at = job[s].at /\ job[s].pc = "append"
    BY <1>2 DEF Behind, Late
  <2> QED BY <1>2, <2>1, <2>2 DEF SpendOk, Behind
<1> QED BY <1>1, <1>2


\* Neither the log nor a table nor a process changes.
Settled ==
  /\ setup' = setup /\ restarts' = restarts /\ life' = life
  /\ log' = log /\ table' = table
  /\ claims \subseteq claims' /\ claims' \subseteq Subject
  /\ faults' \in Nat /\ faults <= faults'

LEMMA SettledGrows ==
  ASSUME Types, Settled
  PROVE  Grows
BY NothingNew DEF Settled

LEMMA SettledKeeps ==
  ASSUME Inv, Settled,
         mon' \in [Replica -> Monitor], job' \in [Job -> Work],
         served' \in [Subject -> {None} \cup [at : Replica, arm : Arm \cup {"asked"}]],
         reading' \in [Replica -> Nat \cup {None}],
         \A k \in Job : job'[k] = job[k] \/ JobOk(k)'
  PROVE  Types' /\ LogInv' /\ JobInv' /\ TableInv'
<1> USE DEF Inv, Settled
<1>1. Types'
  BY DEF Types
<1>2. LogInv'
  BY DEF LogInv
<1>3. TableInv'
  BY DEF TableInv
<1>4. ASSUME NEW k \in Job
      PROVE  JobOk(k)'
  <2>1. CASE job'[k] = job[k]
    <3>1. Grows
      BY SettledGrows
    <3>2. JobOk(k)
      BY DEF JobInv
    <3>3. job[k].pc = "append" => ~Known(log', job[k].item.id)
      BY <3>2 DEF JobOk
    <3> QED BY <2>1, <3>1, <3>2, <3>3, JobFrame
  <2> QED BY <2>1, <1>4
<1>5. JobInv'
  BY <1>4 DEF JobInv
<1> QED BY <1>1, <1>2, <1>3, <1>5

\* Rows that are not in the log are only written for want of the log.
RowsWait == \A k \in Job : job'[k].pc \in {"row", "count"} /\ Canonical'
                             => job[k].pc \in {"row", "count"}

LEMMA StillCanonical ==
  ASSUME Types, setup' = setup, restarts' = restarts, faults' \in Nat, faults <= faults'
  PROVE  Canonical' => Canonical
<1>1. faults \in Nat
  BY DEF Types
<1> QED BY <1>1 DEF Canonical

\* No monitor counts or debits.
LEMMA MonitorsSame ==
  ASSUME Inv, Settled, RowsWait, mon' \in [Replica -> Monitor],
         \A r \in Replica : /\ mon'[r].evidence = mon[r].evidence
                            /\ mon'[r].debited = mon[r].debited
                            /\ mon'[r].offset = mon[r].offset
                            /\ mon'[r].blind = mon[r].blind /\ mon'[r].unread = mon[r].unread
                            /\ reading'[r] \in {reading[r], None},
         (\A s \in Subject : Behind(s)) \/ ~setup.paired
  PROVE  EvidenceInv' /\ SpendInv' /\ CanonInv'
<1> USE DEF Inv
<1>1. ASSUME NEW r \in Replica
      PROVE  EvidenceOk(r)'
  <2>1. EvidenceOk(r) /\ Grows
    BY SettledGrows DEF EvidenceInv
  <2>2. Distinct(mon'[r].evidence)
    BY <2>1 DEF EvidenceOk, Held
  <2> QED BY <2>1, <2>2, EvidenceFrame DEF Held
<1>2. ASSUME NEW r \in Replica, NEW s \in Subject
      PROVE  SpendOk(r, s)'
  <2>1. SpendOk(r, s)
    BY DEF SpendInv
  <2> QED BY <2>1, SpendFrame DEF Settled
<1>3. Canonical' => Canonical
  BY StillCanonical DEF Settled
<1>4. CanonInv'
  BY <1>3 DEF CanonInv, RowsWait, Settled, Held
<1> QED BY <1>1, <1>2, <1>4 DEF EvidenceInv, SpendInv

\* A replica counts an item of which there is a record, and which it has debited.
LEMMA MonitorCounts ==
  ASSUME Inv, Settled, NEW r \in Replica, NEW x \in Record, ~Canonical',
         Durable(r, x.id), setup.paired /\ ~mon[r].blind => mon[r].debited[x.id] = 1,
         Knows(r, CountedHere(mon[r], x)), reading' = reading,
         (\A s \in Subject : Behind(s)) \/ ~setup.paired
  PROVE  mon' \in [Replica -> Monitor] /\ EvidenceInv' /\ SpendInv' /\ CanonInv'
<1> USE DEF Inv
<1>0. mon \in [Replica -> Monitor] /\ mon[r] \in Monitor
  BY DEF Types
<1> DEFINE m == CountedHere(mon[r], x)
<1>1. /\ m \in Monitor /\ Distinct(m.evidence)
      /\ m.debited = mon[r].debited /\ m.offset = mon[r].offset
      /\ m.blind = mon[r].blind /\ m.unread = mon[r].unread
      /\ \A id : Known(m.evidence, id) <=> Known(Held(r), id) \/ x.id = id
  <2>1. Distinct(Held(r))
    BY DEF EvidenceInv, EvidenceOk
  <2> QED BY <1>0, <2>1, CountedWell DEF Held
<1> HIDE DEF m
<1>2. /\ mon' \in [Replica -> Monitor] /\ mon'[r] = m
      /\ \A q \in Replica : q # r => mon'[q] = mon[q]
  BY <1>0, <1>1, Learnt DEF m
<1>3. Grows
  BY SettledGrows
<1>4. ASSUME NEW q \in Replica
      PROVE  EvidenceOk(q)'
  <2>1. EvidenceOk(q) /\ reading'[q] \in {reading[q], None}
    BY DEF EvidenceInv
  <2>2. CASE q # r
    <3>1. mon'[q] = mon[q] /\ Distinct(mon'[q].evidence)
      BY <1>2, <2>1, <2>2 DEF EvidenceOk, Held
    <3> QED BY <1>2, <1>3, <2>1, <3>1, EvidenceFrame DEF Held
  <2>3. CASE q = r
    <3>1. \A id \in Subject : Known(m.evidence, id) =>
            \/ Known(Held(r), id) \/ Known(log', id)
            \/ Known(table'[r].reports, id) \/ RowOf(table'[r].rows, id)
      BY <1>1 DEF Durable, Settled
    <3> QED BY <1>1, <1>2, <1>3, <2>1, <2>3, <3>1, EvidenceFrame
  <2> QED BY <2>2, <2>3
<1>5. ASSUME NEW q \in Replica, NEW s \in Subject
      PROVE  SpendOk(q, s)'
  <2>1. SpendOk(q, s)
    BY DEF SpendInv
  <2>2. CASE q # r
    <3>1. mon'[q] = mon[q]
      BY <1>2, <2>2
    <3> QED BY <2>1, <3>1, SpendFrame DEF Settled
  <2>3. CASE q = r
    <3> DEFINE d == mon[r].debited[s]
    <3>1. mon'[q].debited[s] = d
      BY <1>1, <1>2, <2>3
    <3>2. CASE ~setup.paired
      BY <2>1, <2>3, <3>1, <3>2 DEF SpendOk, Settled
    <3>3. CASE setup.paired
      <4>0. mon'[q].blind = mon[q].blind /\ mon'[q].unread = mon[q].unread
        BY <1>1, <1>2, <2>3
      <4>1. ~mon[q].blind /\ Known(mon'[q].evidence, s) /\ s \notin mon[q].unread => d = 1
        BY <1>1, <1>2, <2>1, <2>3, <3>3 DEF SpendOk
      <4>2. Known(Held(q), s) => Known(mon'[q].evidence, s)
        BY <1>1, <1>2, <2>3
      <4>3. (Me(q))' = Me(q)
        BY DEF Me, Settled
      <4>4. s \in Job /\ job'[s].pc = "append" => job[s].pc = "append" /\ job'[s].at = job[s].at
        BY <3>3 DEF Behind, Late
      <4>5. setup' = setup /\ log' = log /\ table' = table
        BY DEF Settled
      <4> HIDE DEF d
      <4> QED BY <2>1, <2>3, <3>1, <3>3, <4>0, <4>1, <4>2, <4>3, <4>4, <4>5 DEF SpendOk, Behind, Held, d
    <3> QED BY <3>2, <3>3
  <2> QED BY <2>2, <2>3
<1>6. CanonInv'
  BY DEF CanonInv
<1> QED BY <1>2, <1>4, <1>5, <1>6 DEF EvidenceInv, SpendInv


\* A replica takes over what it read of the log.
LEMMA MonitorSyncs ==
  ASSUME Inv, Settled, NEW r \in Replica, NEW upto \in Nat, upto <= Len(log), RowsWait,
         Knows(r, Synced(mon[r], upto, Me(r))),
         \A q \in Replica : reading'[q] \in {reading[q], None},
         (\A s \in Subject : Behind(s)) \/ ~setup.paired
  PROVE  mon' \in [Replica -> Monitor] /\ EvidenceInv' /\ SpendInv' /\ CanonInv'
<1> USE DEF Inv
<1> DEFINE old == mon[r]
           m == Synced(mon[r], upto, Me(r))
           T(s) == \E i \in (old.offset + 1)..upto :
                     log[i].id = s /\ ~Known(old.evidence, s) /\ Seeds(log[i], Me(r))
<1>0. /\ mon \in [Replica -> Monitor] /\ old \in Monitor /\ old.offset \in Nat
      /\ old.debited \in [Subject -> Nat]
      /\ log \in Seq(Record) /\ Len(log) \in Nat /\ Distinct(log) /\ Distinct(old.evidence)
      /\ old.offset <= Len(log)
  <2>1. mon \in [Replica -> Monitor] /\ old \in Monitor /\ log \in Seq(Record)
    BY DEF Types
  <2>2. Distinct(old.evidence) /\ Distinct(log) /\ old.offset <= Len(log)
    BY DEF LogInv, EvidenceInv, EvidenceOk, Held
  <2> QED BY <2>1, <2>2, LenProperties DEF Monitor
<1>1. /\ m \in Monitor /\ Distinct(m.evidence)
      /\ m.offset = IF upto > old.offset THEN upto ELSE old.offset
      /\ \A id : Known(m.evidence, id) <=>
           Known(old.evidence, id) \/ \E i \in (old.offset + 1)..upto : log[i].id = id
      /\ \A s \in Subject : m.debited[s] = IF T(s) THEN old.debited[s] + 1 ELSE old.debited[s]
      /\ old.evidence = SubSeq(log, 1, old.offset) =>
           m.evidence = SubSeq(log, 1, m.offset)
      /\ m.blind = old.blind /\ m.unread = old.unread
  <2>0. TookOver(old, upto, Me(r), m)
    BY <1>0, SyncedWell
  <2> HIDE DEF m, old
  <2>1. /\ m \in Monitor /\ Distinct(m.evidence)
        /\ m.offset = IF upto > old.offset THEN upto ELSE old.offset
        /\ m.blind = old.blind /\ m.unread = old.unread
    BY <2>0 DEF TookOver
  <2>2. \A id : Known(m.evidence, id) <=>
          Known(old.evidence, id) \/ \E i \in (old.offset + 1)..upto : log[i].id = id
    BY <2>0 DEF TookOver
  <2>3. \A s \in Subject : m.debited[s] = IF T(s) THEN old.debited[s] + 1 ELSE old.debited[s]
    BY <2>0, Zenon DEF TookOver
  <2>4. old.evidence = SubSeq(log, 1, old.offset) => m.evidence = SubSeq(log, 1, m.offset)
    BY <1>0, <2>0, <2>1 DEF TookOver
  <2> QED BY <2>1, <2>2, <2>3, <2>4
<1> HIDE DEF m
<1>2. /\ mon' \in [Replica -> Monitor] /\ mon'[r] = m
      /\ \A q \in Replica : q # r => mon'[q] = mon[q]
  BY <1>0, <1>1, Learnt DEF m
<1>3. Grows
  BY SettledGrows
<1>4. ASSUME NEW q \in Replica
      PROVE  EvidenceOk(q)'
  <2>1. EvidenceOk(q) /\ reading'[q] \in {reading[q], None}
    BY DEF EvidenceInv
  <2>2. CASE q # r
    <3>1. mon'[q] = mon[q] /\ Distinct(mon'[q].evidence)
      BY <1>2, <2>1, <2>2 DEF EvidenceOk, Held
    <3> QED BY <1>2, <1>3, <2>1, <3>1, EvidenceFrame DEF Held
  <2>3. CASE q = r
    <3>1. reading'[q] # None => reading'[q] <= Len(log)
      BY <2>1 DEF EvidenceOk
    <3>2. m.offset <= Len(log)
      BY <1>0, <1>1
    <3>3. ASSUME NEW id \in Subject, Known(m.evidence, id)
          PROVE  Durable(r, id)
      <4>1. CASE Known(old.evidence, id)
        BY <2>1, <2>3, <4>1 DEF EvidenceOk, Held
      <4>2. CASE \E i \in (old.offset + 1)..upto : log[i].id = id
        <5>1. \A i \in (old.offset + 1)..upto : i \in 1..Len(log)
          BY <1>0
        <5> QED BY <4>2, <5>1 DEF Durable, Known
      <4> QED BY <1>1, <3>3, <4>1, <4>2
    <3>4. ASSUME NEW i \in 1..m.offset
          PROVE  Known(m.evidence, log[i].id)
      <4>1. CASE i <= old.offset
        <5>1. Known(old.evidence, log[i].id)
          BY <1>0, <2>1, <2>3, <4>1 DEF EvidenceOk, Held
        <5> QED BY <1>1, <5>1
      <4>2. CASE i > old.offset
        <5>1. i \in (old.offset + 1)..upto
          BY <1>0, <1>1, <4>2
        <5> QED BY <1>1, <5>1
      <4> QED BY <1>0, <4>1, <4>2
    <3>5. log' = log /\ table' = table
      BY DEF Settled
    <3> QED BY <1>1, <1>2, <2>3, <3>1, <3>2, <3>3, <3>4, <3>5 DEF EvidenceOk, Held, Durable
  <2> QED BY <2>2, <2>3
<1>5. ASSUME NEW q \in Replica, NEW s \in Subject
      PROVE  SpendOk(q, s)'
  <2>1. SpendOk(q, s)
    BY DEF SpendInv
  <2>2. CASE q # r
    <3>1. mon'[q] = mon[q]
      BY <1>2, <2>2
    <3> QED BY <2>1, <3>1, SpendFrame DEF Settled
  <2>3. CASE q = r
    <3> DEFINE d == old.debited[s]
               c == m.debited[s]
    <3>1. c = IF T(s) THEN d + 1 ELSE d
      BY <1>1
    <3>2. d \in Nat
      BY <1>0
    <3>3. \A i \in (old.offset + 1)..upto : i \in 1..Len(log)
      BY <1>0
    <3>4. mon'[q].debited[s] = c
      BY <1>2, <2>3
    <3>5. CASE ~setup.paired
      <4>1. ~T(s)
        BY <3>3, <3>5 DEF Seeds, LogInv
      <4>2. d = 0
        BY <2>1, <2>3, <3>5 DEF SpendOk
      <4> QED BY <3>1, <3>4, <3>5, <4>1, <4>2 DEF SpendOk, Settled
    <3>6. CASE setup.paired /\ mon[q].blind
      <4>1. s \in Job /\ job[s].pc \in Early => d = 0 /\ ~T(s)
        BY <2>1, <2>3, <3>3, <3>6 DEF SpendOk, Known
      <4>2. mon'[q].blind
        BY <1>1, <1>2, <2>3, <3>6
      <4>3. Behind(s) /\ setup' = setup /\ log' = log /\ table' = table
        BY <3>6 DEF Settled
      <4>4. d = mon[q].debited[s]
        BY <2>3
      <4> HIDE DEF T, d, c, old
      <4> QED BY <2>1, <3>1, <3>4, <3>6, <4>1, <4>2, <4>3, <4>4 DEF SpendOk, Behind
    <3>7. CASE setup.paired /\ ~mon[q].blind
      <4>0. /\ mon'[q].unread = mon[q].unread /\ mon'[q].blind = mon[q].blind
        BY <1>1, <1>2, <2>3
      <4>1. T(s) => d = 0
        BY <2>1, <2>3, <3>2, <3>3, <3>7 DEF SpendOk, Held, Seeds
      <4>2. d = 1 => c = 1
        BY <3>1, <4>1
      <4>3. c <= 1
        BY <2>1, <2>3, <3>1, <3>2, <3>7, <4>1 DEF SpendOk
      <4>4. Known(m.evidence, s) /\ s \notin mon[q].unread => c = 1
        <5>1. CASE Known(old.evidence, s)
          BY <2>1, <2>3, <3>7, <4>2, <5>1 DEF SpendOk, Held
        <5>2. ASSUME NEW i \in (old.offset + 1)..upto, log[i].id = s, ~Known(old.evidence, s)
              PROVE  c = 1
          <6>1. CASE log[i].by = Me(r)
            BY <2>1, <2>3, <3>3, <3>7, <4>2, <5>2, <6>1 DEF SpendOk
          <6>2. CASE log[i].by # Me(r)
            <7>1. log[i].arm = "pair"
              BY <3>3, <3>7 DEF LogInv
            <7>2. T(s)
              BY <5>2, <6>2, <7>1 DEF Seeds
            <7> QED BY <3>1, <4>1, <7>2
          <6> QED BY <6>1, <6>2
        <5> QED BY <1>1, <5>1, <5>2
      <4>5. ~Known(log, s) => ~T(s)
        BY <3>3 DEF Known
      <4>6. c = 1 /\ ~Known(m.evidence, s) => d = 1 /\ ~Known(Held(r), s)
        BY <1>1, <3>1, <3>2 DEF Held
      <4>7. (Me(q))' = Me(q) /\ setup' = setup /\ log' = log /\ table' = table
        BY DEF Me, Settled
      <4>8. Behind(s)
        BY <3>7
      <4>9. s \in Job /\ job'[s].pc = "append" => job[s].pc = "append" /\ job'[s].at = job[s].at
        BY <4>8 DEF Behind, Late
      <4>10. (Held(q))' = m.evidence
        BY <1>2, <2>3 DEF Held
      <4>11. d = mon[q].debited[s]
        BY <2>3
      <4>12. ~Known(log, s) => c = d
        BY <3>1, <4>5
      <4> HIDE DEF T, d, c, old
      <4> QED BY <2>1, <2>3, <3>2, <3>4, <3>7, <4>0, <4>2, <4>3, <4>4, <4>6, <4>7, <4>8, <4>9,
                 <4>10, <4>11, <4>12 DEF SpendOk, Behind
    <3> QED BY <3>5, <3>6, <3>7
  <2> QED BY <2>2, <2>3
<1>6. CanonInv'
  <2>1. Canonical' => Canonical
    BY StillCanonical DEF Settled
  <2>2. ASSUME Canonical, NEW q \in Replica
        PROVE  mon'[q].evidence = SubSeq(log, 1, mon'[q].offset)
    <3>1. Held(q) = SubSeq(log, 1, mon[q].offset)
      BY <2>2 DEF CanonInv
    <3>2. CASE q # r
      BY <1>2, <3>1, <3>2 DEF Held
    <3>3. CASE q = r
      BY <1>1, <1>2, <3>1, <3>3 DEF Held
    <3> QED BY <3>2, <3>3
  <2> QED BY <2>1, <2>2 DEF CanonInv, RowsWait, Settled, Held
<1> QED BY <1>2, <1>4, <1>5, <1>6 DEF EvidenceInv, SpendInv


-------------------------------------------------------------------------------
(* The steps that touch neither the log nor a table nor a process.         *)

LEMMA OneMoves ==
  ASSUME Inv, Settled, NEW j \in Job,
         job' \in [Job -> Work], \A k \in Job : k # j => job'[k] = job[k], JobOk(j)',
         mon' \in [Replica -> Monitor], EvidenceInv', SpendInv', CanonInv',
         served' \in [Subject -> {None} \cup [at : Replica, arm : Arm \cup {"asked"}]],
         reading' \in [Replica -> Nat \cup {None}],
         job'[j].pc = "append" =>
           \A k \in Job \ {j} : job[k].pc = "append" => job[k].item.id # job'[j].item.id,
         \/ /\ job'[j].asks = job[j].asks /\ served' = served
            /\ job'[j].pc \in {"ensure", "ensuring"} /\ job[j].pc \in {"ensure", "ensuring"}
         \/ /\ job'[j].asks = 0
            /\ setup.paired \/ job'[j].pc \notin {"ensure", "ensuring"}
            /\ \A s \in Subject : served'[s] = served[s] \/ job[j].asks = s
  PROVE  Inv'
<1>1. Types' /\ LogInv' /\ JobInv' /\ TableInv'
  BY SettledKeeps
<1>2. AppendsApart'
  BY DEF Inv, AppendsApart
<1>3. setup' = setup /\ AsksInv
  BY DEF Inv, Settled
<1>4. AsksInv'
  <2>1. CASE /\ job'[j].asks = job[j].asks /\ served' = served
             /\ job'[j].pc \in {"ensure", "ensuring"} /\ job[j].pc \in {"ensure", "ensuring"}
    BY <1>3, <2>1 DEF AsksInv
  <2>2. CASE /\ job'[j].asks = 0
             /\ setup.paired \/ job'[j].pc \notin {"ensure", "ensuring"}
             /\ \A s \in Subject : served'[s] = served[s] \/ job[j].asks = s
    <3>1. ASSUME NEW k \in Job, job'[k].asks # 0
          PROVE  k # j /\ served'[job[k].asks] = served[job[k].asks]
      <4>1. k # j /\ job'[k] = job[k]
        BY <2>2, <3>1
      <4>2. job[k].asks \in Subject /\ job[k].asks # 0
        BY <1>3, <3>1, <4>1 DEF AsksInv
      <4>3. job[j].asks # job[k].asks
        BY <1>3, <4>1, <4>2 DEF AsksInv
      <4> QED BY <2>2, <4>1, <4>2, <4>3
    <3>2. ASSUME NEW k \in Job
          PROVE  /\ job'[k].asks # 0 =>
                      /\ ~setup'.paired /\ job'[k].pc \in {"ensure", "ensuring"}
                      /\ job'[k].asks \in Subject
                      /\ served'[job'[k].asks] # None /\ served'[job'[k].asks].arm = "asked"
                 /\ ~setup'.paired /\ job'[k].pc \in {"ensure", "ensuring"} => job'[k].asks # 0
      BY <1>3, <2>2, <3>1 DEF AsksInv
    <3>3. ASSUME NEW k \in Job, NEW i \in Job, k # i, job'[k].asks # 0
          PROVE  job'[k].asks # job'[i].asks
      BY <1>3, <2>2, <3>1, <3>3 DEF AsksInv
    <3> QED BY <3>2, <3>3 DEF AsksInv
  <2> QED BY <2>1, <2>2
<1> QED BY <1>1, <1>2, <1>4 DEF Inv

LEMMA DoneWell ==
  ASSUME log' \in Seq(Record), NEW j \in Job, job'[j] = Done
  PROVE  /\ JobOk(j)' /\ job'[j].asks = 0 /\ job'[j].pc = "done"
         /\ "done" \notin Late /\ "done" \notin Early
<1>1. Len(log') \in Nat
  BY LenProperties
<1>2. Done.pc = "done" /\ Done.upto = 0 /\ Done.asks = 0
  BY DEF Done, Absent
<1>3. "done" \notin Late /\ "done" \notin Early
  BY DEF Late, Early
<1> HIDE DEF Done
<1> QED BY <1>1, <1>2, <1>3 DEF JobOk

LEMMA Unasked ==
  ASSUME AsksInv, NEW j \in Job, job[j].pc \notin {"ensure", "ensuring"}
  PROVE  job[j].asks = 0
BY DEF AsksInv

\* The challenger gets going, or the session is served.
LEMMA ProceedsWell ==
  ASSUME Inv, Settled, NEW j \in Job, job[j].pc \in {"ensure", "ensuring"},
         NEW m, Proceeds(j, m)
  PROVE  /\ job' \in [Job -> Work] /\ \A k \in Job : k # j => job'[k] = job[k]
         /\ JobOk(j)' /\ job'[j].asks = 0 /\ job'[j].pc \in {"run", "done"}
         /\ served' \in [Subject -> {None} \cup [at : Replica, arm : Arm \cup {"asked"}]]
         /\ \A s \in Subject : served'[s] = served[s] \/ job[j].asks = s
         /\ RowsWait /\ \A s \in Subject : Behind(s)
<1>0. /\ job \in [Job -> Work] /\ log' \in Seq(Record) /\ setup' = setup /\ log' = log
      /\ served \in [Subject -> {None} \cup [at : Replica, arm : Arm \cup {"asked"}]]
      /\ AsksInv /\ JobOk(j)
  BY DEF Inv, Types, Settled, JobInv
<1>1. job[j].at \in Replica
  BY <1>0 DEF JobOk
<1>2. ASSUME job' \in [Job -> Work], \A k \in Job : k # j => job'[k] = job[k],
             job'[j].pc \in {"run", "done"}
      PROVE  RowsWait /\ \A s \in Subject : Behind(s)
  <2>1. RowsWait
    BY <1>2 DEF RowsWait
  <2>2. {"ensure", "ensuring"} \subseteq Early /\ "run" \in Early /\ "run" \notin Late
        /\ "done" \notin Early /\ "done" \notin Late
    BY DEF Early, Late
  <2>3. ASSUME NEW s \in Subject
        PROVE  Behind(s)
    BY <1>2, <2>2 DEF Behind
  <2> QED BY <2>1, <2>3
<1>3. CASE setup.paired
  <2>1. PICK pc \in {"run", "done"} : Goes(j, pc) /\ served' = served
    BY <1>3 DEF Proceeds
  <2>2. pc \in Early \cup Late \cup {"done"}
    BY DEF Early
  <2>3. /\ job' \in [Job -> Work]
        /\ \A k \in Job : k # j => job'[k] = job[k]
        /\ job'[j].pc = pc
        /\ pc # "done" => /\ job'[j].at = job[j].at /\ job'[j].asks = job[j].asks
                          /\ job'[j].item = job[j].item /\ job'[j].upto = job[j].upto
        /\ pc = "done" => job'[j] = Done
    BY <1>0, <2>1, <2>2, Went
  <2>4. job[j].asks = 0
    BY <1>0, <1>3 DEF AsksInv
  <2>5. CASE pc = "run"
    <3>1. JobOk(j)'
      <4>1. "run" \notin Late
        BY DEF Late
      <4> QED BY <1>0, <1>3, <2>3, <2>5, <4>1 DEF JobOk
    <3> QED BY <1>0, <1>2, <2>1, <2>3, <2>4, <2>5, <3>1
  <2>6. CASE pc = "done"
    <3>1. job'[j] = Done
      BY <2>3, <2>6
    <3>2. JobOk(j)' /\ job'[j].asks = 0 /\ job'[j].pc = "done"
      BY <1>0, <3>1, DoneWell
    <3> QED BY <1>0, <1>2, <2>1, <2>3, <3>2
  <2> QED BY <2>5, <2>6
<1>4. CASE ~setup.paired
  <2>1. /\ Goes(j, "done")
        /\ \E arm \in Arm : served' = [served EXCEPT ![job[j].asks] = [at |-> job[j].at, arm |-> arm]]
    BY <1>4 DEF Proceeds, Arm
  <2>2. "done" \in Early \cup Late \cup {"done"}
    OBVIOUS
  <2>3. /\ job' \in [Job -> Work]
        /\ \A k \in Job : k # j => job'[k] = job[k]
        /\ job'[j] = Done
    BY <1>0, <2>1, <2>2, Went
  <2>4. JobOk(j)' /\ job'[j].asks = 0 /\ job'[j].pc = "done"
    BY <1>0, <2>3, DoneWell
  <2>5. \A s \in Subject : served'[s] = served[s] \/ job[j].asks = s
    BY <1>0, <2>1
  <2>6. served' \in [Subject -> {None} \cup [at : Replica, arm : Arm \cup {"asked"}]]
    <3> DEFINE V == {None} \cup [at : Replica, arm : Arm \cup {"asked"}]
    <3>1. PICK v \in V : served' = [served EXCEPT ![job[j].asks] = v]
      BY <1>1, <2>1
    <3> HIDE DEF V
    <3>2. served \in [Subject -> V]
      BY <1>0 DEF V
    <3>3. served' \in [Subject -> V]
      BY <3>1, <3>2
    <3> QED BY <3>3 DEF V
  <2> QED BY <1>2, <2>3, <2>4, <2>5, <2>6
<1> QED BY <1>3, <1>4

LEMMA EnsureFreshKeeps ==
  ASSUME Inv, NEW j \in Job, EnsureFresh(j)
  PROVE  Inv'
<1>0. Settled /\ mon' = mon /\ reading' = reading /\ mon \in [Replica -> Monitor]
      /\ reading \in [Replica -> Nat \cup {None}]
  BY DEF EnsureFresh, NoFault, counters, Inv, Types, Settled
<1>1. /\ job' \in [Job -> Work] /\ \A k \in Job : k # j => job'[k] = job[k]
      /\ JobOk(j)' /\ job'[j].asks = 0 /\ job'[j].pc \in {"run", "done"}
      /\ served' \in [Subject -> {None} \cup [at : Replica, arm : Arm \cup {"asked"}]]
      /\ \A s \in Subject : served'[s] = served[s] \/ job[j].asks = s
      /\ RowsWait /\ \A s \in Subject : Behind(s)
  BY <1>0, ProceedsWell DEF EnsureFresh
<1>2. EvidenceInv' /\ SpendInv' /\ CanonInv'
  BY <1>0, <1>1, MonitorsSame
<1> QED BY <1>0, <1>1, <1>2, OneMoves

LEMMA EnsureSyncedKeeps ==
  ASSUME Inv, NEW j \in Job, EnsureSynced(j)
  PROVE  Inv'
<1>0. Settled /\ reading' = reading /\ reading \in [Replica -> Nat \cup {None}]
  BY DEF EnsureSynced, NoFault, counters, Inv, Types, Settled
<1>1. /\ job' \in [Job -> Work] /\ \A k \in Job : k # j => job'[k] = job[k]
      /\ JobOk(j)' /\ job'[j].asks = 0 /\ job'[j].pc \in {"run", "done"}
      /\ served' \in [Subject -> {None} \cup [at : Replica, arm : Arm \cup {"asked"}]]
      /\ \A s \in Subject : served'[s] = served[s] \/ job[j].asks = s
      /\ RowsWait /\ \A s \in Subject : Behind(s)
  BY <1>0, ProceedsWell DEF EnsureSynced
<1>2. job[j].at \in Replica /\ job[j].upto \in Nat /\ job[j].upto <= Len(log)
  BY DEF Inv, Types, Work, JobInv, JobOk, EnsureSynced
<1>3. Knows(job[j].at, Synced(mon[job[j].at], job[j].upto, Me(job[j].at)))
  BY DEF EnsureSynced
<1>4. mon' \in [Replica -> Monitor] /\ EvidenceInv' /\ SpendInv' /\ CanonInv'
  BY <1>0, <1>1, <1>2, <1>3, MonitorSyncs
<1> QED BY <1>0, <1>1, <1>4, OneMoves


LEMMA EnsureReadKeeps ==
  ASSUME Inv, NEW j \in Job, EnsureRead(j)
  PROVE  Inv'
<1>0. Settled /\ mon' = mon /\ reading' = reading /\ served' = served
  BY DEF EnsureRead, NoFault, counters, stores, Inv, Types, Settled
<1>1. /\ job \in [Job -> Work] /\ Len(log) \in Nat /\ JobOk(j) /\ log' = log /\ setup' = setup
      /\ mon \in [Replica -> Monitor] /\ reading \in [Replica -> Nat \cup {None}]
      /\ served \in [Subject -> {None} \cup [at : Replica, arm : Arm \cup {"asked"}]]
  BY <1>0, LenProperties DEF Inv, Types, JobInv, Settled
<1>2. /\ job[j].pc = "ensure"
      /\ job' = [job EXCEPT ![j] = [job[j] EXCEPT !.pc = "ensuring", !.upto = Len(log)]]
  BY DEF EnsureRead
<1>3. /\ [job[j] EXCEPT !.pc = "ensuring", !.upto = Len(log)] \in Work
      /\ job'[j].pc = "ensuring" /\ job'[j].upto = Len(log)
      /\ job'[j].at = job[j].at /\ job'[j].asks = job[j].asks
  BY <1>1, <1>2 DEF Work, Early
<1>4. job' \in [Job -> Work] /\ \A k \in Job : k # j => job'[k] = job[k]
  BY <1>1, <1>2, <1>3
<1>5. {"ensure", "ensuring"} \subseteq Early /\ "ensuring" \notin Late
  BY DEF Early, Late
<1>6. JobOk(j)'
  BY <1>1, <1>2, <1>3, <1>5 DEF JobOk
<1>7. RowsWait /\ \A s \in Subject : Behind(s)
  BY <1>2, <1>3, <1>4, <1>5 DEF RowsWait, Behind
<1>8. EvidenceInv' /\ SpendInv' /\ CanonInv'
  BY <1>0, <1>1, <1>7, MonitorsSame
<1> QED BY <1>0, <1>1, <1>2, <1>3, <1>4, <1>6, <1>8, OneMoves

\* A failure puts an end to Canonical.
LEMMA Failed ==
  ASSUME Types, Fault
  PROVE  /\ ~Canonical' /\ faults' \in Nat /\ faults <= faults'
         /\ setup' = setup /\ restarts' = restarts
BY DEF Types, Fault, Canonical

LEMMA EnsureFailsKeeps ==
  ASSUME Inv, NEW j \in Job, EnsureFails(j)
  PROVE  Inv'
<1>0. Settled /\ mon' = mon /\ reading' = reading
  BY Failed DEF EnsureFails, Inv, Types, Settled
<1>1. /\ job \in [Job -> Work] /\ JobOk(j) /\ AsksInv /\ log' \in Seq(Record)
      /\ mon \in [Replica -> Monitor] /\ reading \in [Replica -> Nat \cup {None}]
      /\ served \in [Subject -> {None} \cup [at : Replica, arm : Arm \cup {"asked"}]]
  BY <1>0 DEF Inv, Types, JobInv, Settled
<1>2. job[j].pc \in {"ensure", "ensuring"} /\ Goes(j, "done") /\ "done" \in Early \cup Late \cup {"done"}
  BY DEF EnsureFails
<1>3. /\ job' \in [Job -> Work] /\ \A k \in Job : k # j => job'[k] = job[k]
      /\ job'[j] = Done
  BY <1>1, <1>2, Went
<1>4. JobOk(j)' /\ job'[j].asks = 0 /\ job'[j].pc = "done" /\ "done" \notin Early \cup Late
  BY <1>1, <1>3, DoneWell
<1>5. RowsWait /\ \A s \in Subject : Behind(s)
  BY <1>3, <1>4 DEF RowsWait, Behind
<1>6. EvidenceInv' /\ SpendInv' /\ CanonInv'
  BY <1>0, <1>1, <1>5, MonitorsSame
<1>7. \A s \in Subject : served'[s] = served[s] \/ job[j].asks = s
  BY <1>1 DEF EnsureFails
<1>8. served' \in [Subject -> {None} \cup [at : Replica, arm : Arm \cup {"asked"}]]
  <2> DEFINE V == {None} \cup [at : Replica, arm : Arm \cup {"asked"}]
  <2>1. CASE served' = served
    BY <1>1, <2>1
  <2>2. CASE served' = [served EXCEPT ![job[j].asks] = [at |-> job[j].at, arm |-> "incumbent"]]
    <3>1. job[j].at \in Replica
      BY <1>1, <1>2 DEF JobOk
    <3>2. PICK v \in V : served' = [served EXCEPT ![job[j].asks] = v]
      BY <2>2, <3>1 DEF Arm
    <3> HIDE DEF V
    <3>3. served \in [Subject -> V]
      BY <1>1 DEF V
    <3>4. served' \in [Subject -> V]
      BY <3>2, <3>3
    <3> QED BY <3>4 DEF V
  <2> QED BY <2>1, <2>2 DEF EnsureFails
<1> QED BY <1>0, <1>1, <1>3, <1>4, <1>6, <1>7, <1>8, OneMoves

\* What is owed to an item that an evaluation or a report has come up with.
LEMMA Owed ==
  ASSUME Inv, NEW j \in Job, job[j].pc \in Late
  PROVE  /\ job \in [Job -> Work] /\ JobOk(j) /\ job[j].asks = 0
         /\ log \in Seq(Record) /\ Len(log) \in Nat /\ mon \in [Replica -> Monitor]
         /\ job[j].at \in Replica /\ job[j].item \in Record /\ job[j].item.id \in Subject
         /\ setup.paired /\ ~mon[job[j].at].blind =>
              mon[job[j].at].debited[job[j].item.id] = 1
         /\ job[j].pc \in {"count", "read", "synced", "cache"} =>
              Durable(job[j].at, job[j].item.id)
<1>1. job \in [Job -> Work] /\ JobOk(j) /\ log \in Seq(Record) /\ Len(log) \in Nat
      /\ mon \in [Replica -> Monitor]
  BY LenProperties DEF Inv, Types, JobInv
<1>2. job[j].asks = 0
  BY Unasked DEF Inv, Late
<1>3. job[j].at \in Replica /\ job[j].item \in Record
  BY <1>1 DEF JobOk, Late
<1>4. job[j].item.id \in Subject
  BY <1>3 DEF Record
<1>5. setup.paired /\ ~mon[job[j].at].blind => mon[job[j].at].debited[job[j].item.id] = 1
  <2>1. ASSUME setup.paired
        PROVE  job[j].item.id = j /\ j \in Subject
    BY <1>1, <1>4, <2>1 DEF JobOk
  <2> QED BY <1>3, <2>1 DEF Inv, SpendInv, SpendOk
<1>6. job[j].pc \in {"count", "read", "synced", "cache"} => Durable(job[j].at, job[j].item.id)
  BY <1>1 DEF JobOk, Durable
<1> QED BY <1>1, <1>2, <1>3, <1>4, <1>5, <1>6


LEMMA LateGoes ==
  ASSUME Inv, NEW j \in Job, job[j].pc \in Late, NEW pc \in Late \cup {"done"}, Goes(j, pc)
  PROVE  /\ job' \in [Job -> Work] /\ \A k \in Job : k # j => job'[k] = job[k]
         /\ job'[j].pc = pc /\ job'[j].asks = 0
         /\ pc # "done" => job'[j].at = job[j].at /\ job'[j].item = job[j].item
                             /\ job'[j].upto = job[j].upto
         /\ pc = "done" => job'[j] = Done
         /\ pc # "append" => \A s \in Subject : Behind(s)
         /\ pc \notin {"row", "count"} => RowsWait
<1>1. job \in [Job -> Work] /\ pc \in Early \cup Late \cup {"done"} /\ job[j].asks = 0
  BY Owed
<1>2. /\ job' \in [Job -> Work]
      /\ \A k \in Job : k # j => job'[k] = job[k]
      /\ job'[j].pc = pc
      /\ pc # "done" => /\ job'[j].at = job[j].at /\ job'[j].asks = job[j].asks
                        /\ job'[j].item = job[j].item /\ job'[j].upto = job[j].upto
      /\ pc = "done" => job'[j] = Done
  BY <1>1, Went
<1>3. job'[j].asks = 0
  BY <1>1, <1>2 DEF Done, Absent
<1>4. pc \notin Early /\ "done" \notin Late
  BY DEF Early, Late
<1>5. ASSUME pc # "append", NEW s \in Subject
      PROVE  Behind(s)
  BY <1>2, <1>4, <1>5 DEF Behind
<1>6. pc \notin {"row", "count"} => RowsWait
  BY <1>2 DEF RowsWait
<1> QED BY <1>2, <1>3, <1>5, <1>6

\* A settled step that moves one late job on.
LEMMA LateMoves ==
  ASSUME Inv, Settled, served' = served, reading' = reading,
         NEW j \in Job, job[j].pc \in Late, NEW pc \in Late \cup {"done"}, Goes(j, pc),
         pc # "append", pc # "done" => JobOk(j)',
         mon' \in [Replica -> Monitor], EvidenceInv', SpendInv', CanonInv'
  PROVE  Inv'
<1>1. /\ job' \in [Job -> Work] /\ \A k \in Job : k # j => job'[k] = job[k]
      /\ job'[j].pc = pc /\ job'[j].asks = 0
      /\ pc = "done" => job'[j] = Done
  BY LateGoes
<1>2. /\ log' \in Seq(Record) /\ reading' \in [Replica -> Nat \cup {None}]
      /\ served' \in [Subject -> {None} \cup [at : Replica, arm : Arm \cup {"asked"}]]
  BY DEF Inv, Types, Settled
<1>3. JobOk(j)'
  BY <1>1, <1>2, DoneWell
<1>4. pc \notin {"ensure", "ensuring"}
  BY DEF Late
<1> QED BY <1>1, <1>2, <1>3, <1>4, OneMoves

LEMMA ApplyReadKeeps ==
  ASSUME Inv, NEW j \in Job, ApplyRead(j)
  PROVE  Inv'
<1>0. Settled /\ served' = served /\ reading' = reading
  BY DEF ApplyRead, NoFault, counters, stores, Inv, Types, Settled
<1>1. job[j].pc = "synced" /\ "synced" \in Late /\ "cache" \in Late
  BY DEF ApplyRead, Late
<1>2. /\ job \in [Job -> Work] /\ JobOk(j) /\ log \in Seq(Record) /\ Len(log) \in Nat
      /\ job[j].at \in Replica
  BY <1>1, Owed
<1>3. PICK pc \in {"cache", "done"} : Goes(j, pc) /\ (pc = "cache" => setup.paired)
  BY DEF ApplyRead
<1>4. pc \in Late \cup {"done"} /\ pc \notin {"append", "row", "count"}
  BY <1>1, <1>3
<1>5. /\ job'[j].pc = pc
      /\ pc # "done" => job'[j].at = job[j].at /\ job'[j].item = job[j].item
                          /\ job'[j].upto = job[j].upto
      /\ \A s \in Subject : Behind(s)
      /\ RowsWait
  BY <1>1, <1>3, <1>4, LateGoes
<1>6. job[j].upto \in Nat /\ job[j].upto <= Len(log)
  BY <1>2 DEF Work, JobOk
<1>7. Knows(job[j].at, Synced(mon[job[j].at], job[j].upto, Me(job[j].at)))
  BY DEF ApplyRead
<1>8. mon' \in [Replica -> Monitor] /\ EvidenceInv' /\ SpendInv' /\ CanonInv'
  BY <1>0, <1>2, <1>5, <1>6, <1>7, MonitorSyncs
<1>9. pc # "done" => JobOk(j)'
  BY <1>0, <1>1, <1>2, <1>3, <1>5 DEF JobOk, Settled, Me
<1> QED BY <1>0, <1>1, <1>3, <1>4, <1>8, <1>9, LateMoves

LEMMA CountKeeps ==
  ASSUME Inv, NEW j \in Job, Count(j)
  PROVE  Inv'
<1>0. Settled /\ served' = served /\ reading' = reading
  BY DEF Count, NoFault, counters, stores, Inv, Types, Settled
<1>1. job[j].pc = "count" /\ "count" \in Late /\ Goes(j, "done")
      /\ Knows(job[j].at, CountedHere(mon[job[j].at], job[j].item))
  BY DEF Count, Late
<1>2. /\ job[j].at \in Replica /\ job[j].item \in Record
      /\ setup.paired /\ ~mon[job[j].at].blind => mon[job[j].at].debited[job[j].item.id] = 1
      /\ Durable(job[j].at, job[j].item.id)
  BY <1>1, Owed
<1>3. ~Canonical'
  <2>1. ~Canonical
    BY <1>1 DEF Inv, CanonInv
  <2> QED BY <1>0, <2>1, StillCanonical DEF Inv, Settled
<1>4. "done" \in Late \cup {"done"} /\ \A s \in Subject : Behind(s)
  BY <1>1, LateGoes
<1>5. mon' \in [Replica -> Monitor] /\ EvidenceInv' /\ SpendInv' /\ CanonInv'
  BY <1>0, <1>1, <1>2, <1>3, <1>4, MonitorCounts
<1> QED BY <1>0, <1>1, <1>4, <1>5, LateMoves

LEMMA ReadBackKeeps ==
  ASSUME Inv, NEW j \in Job, ReadBack(j)
  PROVE  Inv'
<1> DEFINE r == job[j].at
<1>1. job[j].pc = "read" /\ "read" \in Late /\ "synced" \in Late /\ "cache" \in Late
  BY DEF ReadBack, Late
<1>2. /\ job \in [Job -> Work] /\ JobOk(j) /\ job[j].asks = 0
      /\ log \in Seq(Record) /\ Len(log) \in Nat /\ mon \in [Replica -> Monitor]
      /\ r \in Replica /\ job[j].item \in Record
      /\ setup.paired /\ ~mon[r].blind => mon[r].debited[job[j].item.id] = 1
      /\ Durable(r, job[j].item.id)
  BY <1>1, Owed
<1>3. reading' = reading /\ UNCHANGED <<table, log, claims, served>> /\ life' = life
  BY DEF ReadBack, stores
<1>4. /\ served' = served /\ log' = log /\ table' = table /\ claims' = claims
      /\ served \in [Subject -> {None} \cup [at : Replica, arm : Arm \cup {"asked"}]]
      /\ reading \in [Replica -> Nat \cup {None}]
      /\ faults \in Nat /\ claims \subseteq Subject
  BY <1>3 DEF Inv, Types
<1>5. CASE /\ job' = [job EXCEPT ![j].pc = "synced", ![j].upto = Len(log)]
           /\ NoFault /\ UNCHANGED mon
  <2>0. Settled /\ mon' = mon
    BY <1>3, <1>4, <1>5 DEF NoFault, counters, Settled
  <2>1. job' = [job EXCEPT ![j] = [job[j] EXCEPT !.pc = "synced", !.upto = Len(log)]]
    BY <1>5
  <2>2. /\ [job[j] EXCEPT !.pc = "synced", !.upto = Len(log)] \in Work
        /\ job'[j].pc = "synced" /\ job'[j].upto = Len(log)
        /\ job'[j].at = job[j].at /\ job'[j].asks = job[j].asks /\ job'[j].item = job[j].item
    BY <1>1, <1>2, <2>1 DEF Work
  <2>3. job' \in [Job -> Work] /\ \A k \in Job : k # j => job'[k] = job[k]
    BY <1>2, <2>1, <2>2
  <2>4. JobOk(j)'
    BY <1>1, <1>2, <2>0, <2>2 DEF JobOk, Settled, Me
  <2>5. "synced" \notin Early
    BY DEF Early
  <2>6. RowsWait /\ \A s \in Subject : Behind(s)
    BY <1>1, <2>2, <2>3, <2>5 DEF RowsWait, Behind
  <2>7. EvidenceInv' /\ SpendInv' /\ CanonInv'
    BY <1>2, <1>3, <2>0, <2>6, MonitorsSame
  <2> QED BY <1>2, <1>3, <1>4, <2>0, <2>2, <2>3, <2>4, <2>7, OneMoves
<1>6. CASE /\ Fault
           /\ IF setup.paired THEN Goes(j, "cache") /\ Knows(r, CountedHere(mon[r], job[j].item))
                              ELSE Goes(j, "done") /\ UNCHANGED mon
  <2>0. Settled /\ ~Canonical'
    BY <1>3, <1>4, <1>6, Failed DEF Inv, Settled
  <2>1. CASE setup.paired
    <3>1. Goes(j, "cache") /\ Knows(r, CountedHere(mon[r], job[j].item))
      BY <1>6, <2>1
    <3>2. /\ job'[j].pc = "cache" /\ job'[j].at = r /\ job'[j].item = job[j].item
          /\ job'[j].upto = job[j].upto /\ \A s \in Subject : Behind(s)
      BY <1>1, <3>1, LateGoes
    <3>3. mon' \in [Replica -> Monitor] /\ EvidenceInv' /\ SpendInv' /\ CanonInv'
      BY <1>2, <1>3, <2>0, <2>1, <3>1, <3>2, MonitorCounts
    <3>4. JobOk(j)'
      BY <1>1, <1>2, <2>0, <2>1, <3>2 DEF JobOk, Settled, Me
    <3> QED BY <1>1, <1>3, <1>4, <2>0, <3>1, <3>3, <3>4, LateMoves
  <2>2. CASE ~setup.paired
    <3>1. Goes(j, "done") /\ mon' = mon
      BY <1>6, <2>2
    <3>2. "done" \in Late \cup {"done"} /\ RowsWait /\ \A s \in Subject : Behind(s)
      BY <1>1, <3>1, LateGoes
    <3>3. EvidenceInv' /\ SpendInv' /\ CanonInv'
      BY <1>2, <1>3, <2>0, <3>1, <3>2, MonitorsSame
    <3> QED BY <1>1, <1>2, <1>3, <1>4, <2>0, <3>1, <3>2, <3>3, LateMoves
  <2> QED BY <2>1, <2>2
<1> QED BY <1>5, <1>6 DEF ReadBack


LEMMA ClaimKeeps ==
  ASSUME Inv, NEW j \in Job, Claim(j)
  PROVE  Inv'
<1> DEFINE s == job[j].item.id
<1>1. job[j].pc = "claim" /\ {"claim", "append"} \subseteq Late
  BY DEF Claim, Late
<1>2. /\ job \in [Job -> Work] /\ JobOk(j) /\ job[j].asks = 0 /\ ~setup.paired
      /\ log \in Seq(Record) /\ mon \in [Replica -> Monitor] /\ s \in Subject
  BY <1>1, Owed DEF JobOk
<1>3. /\ mon' = mon /\ table' = table /\ log' = log /\ served' = served
      /\ reading' = reading /\ life' = life
  BY DEF Claim
<1>4. /\ served \in [Subject -> {None} \cup [at : Replica, arm : Arm \cup {"asked"}]]
      /\ reading \in [Replica -> Nat \cup {None}]
      /\ faults \in Nat /\ claims \subseteq Subject
  BY DEF Inv, Types
<1>5. CASE s \notin claims /\ claims' = claims \cup {s} /\ Goes(j, "append") /\ NoFault
  <2>0. Settled
    BY <1>2, <1>3, <1>4, <1>5 DEF Settled, NoFault, counters
  <2>1. /\ job' \in [Job -> Work] /\ \A k \in Job : k # j => job'[k] = job[k]
        /\ job'[j].pc = "append" /\ job'[j].asks = 0
        /\ job'[j].at = job[j].at /\ job'[j].item = job[j].item /\ job'[j].upto = job[j].upto
        /\ RowsWait
    BY <1>1, <1>5, LateGoes
  <2>2. ~Known(log, s)
    BY <1>2, <1>5 DEF Inv, LogInv, Known
  <2>3. JobOk(j)'
    BY <1>1, <1>2, <1>3, <1>5, <2>0, <2>1, <2>2 DEF JobOk, Settled, Me
  <2>4. \A k \in Job \ {j} : job[k].pc = "append" => job[k].item.id # s
    BY <1>2, <1>5 DEF Inv, JobInv, JobOk
  <2>5. EvidenceInv' /\ SpendInv' /\ CanonInv'
    BY <1>2, <1>3, <2>0, <2>1, MonitorsSame
  <2> QED BY <1>2, <1>3, <1>4, <2>0, <2>1, <2>3, <2>4, <2>5, OneMoves
<1>6. CASE Goes(j, "done") /\ claims' \in {claims, claims \cup {s}} /\ (NoFault \/ Fault)
  <2>0. Settled
    BY <1>2, <1>3, <1>4, <1>6, Failed DEF Settled, NoFault, counters, Inv
  <2>1. "done" \in Late \cup {"done"} /\ RowsWait /\ \A x \in Subject : Behind(x)
    BY <1>1, <1>6, LateGoes
  <2>2. EvidenceInv' /\ SpendInv' /\ CanonInv'
    BY <1>2, <1>3, <2>0, <2>1, MonitorsSame
  <2> QED BY <1>1, <1>2, <1>3, <1>6, <2>0, <2>1, <2>2, LateMoves
<1> QED BY <1>5, <1>6 DEF Claim

LEMMA RunPairedKeeps ==
  ASSUME Inv, NEW j \in Job, RunPaired(j)
  PROVE  Inv'
<1> DEFINE r == job[j].at
<1>0. /\ Settled /\ served' = served /\ reading' = reading
      /\ served \in [Subject -> {None} \cup [at : Replica, arm : Arm \cup {"asked"}]]
      /\ reading \in [Replica -> Nat \cup {None}]
  BY DEF RunPaired, NoFault, counters, stores, Inv, Types, Settled
<1>1. job[j].pc = "run" /\ "run" \in Early /\ {"append", "row"} \subseteq Late
      /\ "run" \notin Late
  BY DEF RunPaired, Early, Late
<1>2. /\ job \in [Job -> Work] /\ JobOk(j) /\ setup.paired /\ job[j].asks = 0
      /\ r \in Replica /\ j \in Subject /\ mon \in [Replica -> Monitor]
      /\ log' = log /\ table' = table /\ setup' = setup /\ life' = life
  BY <1>0, <1>1, SetupTyped, Unasked DEF Inv, Types, JobInv, JobOk, Settled
<1>3. PICK x \in -1..1 : job' = [job EXCEPT ![j].pc = IF setup.logged THEN "append" ELSE "row",
                                            ![j].item = Item(j, "pair", x, r)]
  BY DEF RunPaired
<1> DEFINE e == Item(j, "pair", x, r)
           pc == IF setup.logged THEN "append" ELSE "row"
<1>4. e \in Record /\ e.id = j /\ e.arm = "pair" /\ e.by = Me(r)
  BY <1>2, ItemTyped DEF Inv, Item
<1> HIDE DEF e
<1>5. /\ job'[j] = [job[j] EXCEPT !.pc = pc, !.item = e]
      /\ \A k \in Job : k # j => job'[k] = job[k]
      /\ job' = [job EXCEPT ![j] = [job[j] EXCEPT !.pc = pc, !.item = e]]
  BY <1>2, <1>3 DEF e
<1>6. pc \in Late /\ pc \in {"append", "row"}
  BY <1>1
<1> HIDE DEF pc
<1>7. /\ job'[j] \in Work /\ job'[j].pc = pc /\ job'[j].item = e /\ job'[j].at = r
      /\ job'[j].asks = 0 /\ job'[j].upto = job[j].upto
  <2>1. job[j] \in Work /\ pc \in Early \cup Late \cup {"done"} /\ e \in Record \cup {None}
    BY <1>2, <1>4, <1>6
  <2>2. job'[j] = [job[j] EXCEPT !.pc = pc, !.item = e]
    BY <1>5
  <2>3. [job[j] EXCEPT !.pc = pc, !.item = e] \in Work
    BY <2>1 DEF Work
  <2>4. /\ job'[j].pc = pc /\ job'[j].item = e /\ job'[j].at = r
        /\ job'[j].asks = job[j].asks /\ job'[j].upto = job[j].upto
    BY <2>1, <2>2 DEF Work
  <2> QED BY <1>2, <2>2, <2>3, <2>4
<1>8. job' \in [Job -> Work]
  BY <1>2, <1>5, <1>7
<1>9. \A q \in Replica : mon[q].debited[j] = 0 /\ ~Known(log, j) /\ ~RowOf(table[q].rows, j)
  BY <1>1, <1>2 DEF Inv, SpendInv, SpendOk
<1>10. JobOk(j)'
  <2>1. ~Known(log, j)
    BY <1>2, <1>9
  <2>2. pc \notin {"claim", "read", "synced", "cache", "count", "run"}
    BY <1>6
  <2> QED BY <1>0, <1>2, <1>4, <1>7, <2>1, <2>2 DEF JobOk, Settled, Me
<1>11. \A k \in Job \ {j} : job[k].pc = "append" => job[k].item.id # job'[j].item.id
  BY <1>2, <1>4, <1>7 DEF Inv, JobInv, JobOk, Late
<1> DEFINE d == [mon[r].debited EXCEPT ![j] = mon[r].debited[j] + 1]
           m == [mon[r] EXCEPT !.debited = d]
<1>12. mon' = [mon EXCEPT ![r] = m]
  BY DEF RunPaired
<1>13. /\ m \in Monitor /\ m.evidence = mon[r].evidence /\ m.offset = mon[r].offset
       /\ m.blind = mon[r].blind /\ m.unread = mon[r].unread
       /\ m.debited[j] = 1
       /\ \A s \in Subject : s # j => m.debited[s] = mon[r].debited[s]
  <2>1. mon[r] \in Monitor /\ mon[r].debited \in [Subject -> Nat]
    BY <1>2 DEF Monitor
  <2>2. /\ d \in [Subject -> Nat] /\ d[j] = 1
        /\ \A s \in Subject : s # j => d[s] = mon[r].debited[s]
    BY <1>2, <1>9, <2>1
  <2> HIDE DEF d
  <2> QED BY <2>1, <2>2 DEF Monitor
<1> HIDE DEF m
<1>14. /\ mon' \in [Replica -> Monitor] /\ mon'[r] = m
       /\ \A q \in Replica : q # r => mon'[q] = mon[q]
       /\ \A q \in Replica : mon'[q].evidence = mon[q].evidence /\ mon'[q].offset = mon[q].offset
       /\ \A q \in Replica : mon'[q].blind = mon[q].blind /\ mon'[q].unread = mon[q].unread
  BY <1>2, <1>12, <1>13
<1>15. EvidenceInv'
  <2>1. ASSUME NEW q \in Replica
        PROVE  EvidenceOk(q)'
    <3>1. EvidenceOk(q) /\ Grows
      BY <1>0, SettledGrows DEF Inv, EvidenceInv
    <3>2. Distinct(mon'[q].evidence)
      BY <1>14, <3>1 DEF EvidenceOk, Held
    <3> QED BY <1>0, <1>14, <3>1, <3>2, EvidenceFrame DEF Held, Inv
  <2> QED BY <2>1 DEF EvidenceInv
<1>16. ASSUME NEW q \in Replica, NEW s \in Subject
       PROVE  SpendOk(q, s)'
  <2>1. SpendOk(q, s)
    BY DEF Inv, SpendInv
  <2>2. CASE s # j
    <3>1. Behind(s)
      BY <1>5, <2>2 DEF Behind
    <3>2. mon'[q].debited[s] = mon[q].debited[s]
      BY <1>13, <1>14, <2>2
    <3> QED BY <1>2, <1>14, <2>1, <3>1, <3>2, SpendFrame
  <2>3. CASE s = j
    <3>1. /\ (Held(q))' = Held(q) /\ (Me(q))' = Me(q)
          /\ mon'[q].debited[j] = IF q = r THEN 1 ELSE 0
          /\ mon'[q].blind = mon[q].blind /\ mon'[q].unread = mon[q].unread
      BY <1>2, <1>9, <1>13, <1>14 DEF Held, Me
    <3>2. /\ ~Known(log, j) /\ ~RowOf(table[q].rows, j)
          /\ ~mon[q].blind /\ j \notin mon[q].unread => ~Known(Held(q), j)
      BY <1>2, <1>9, <2>1, <2>3 DEF SpendOk
    <3>3. \A i \in 1..Len(log) : log[i].id # j
      BY <3>2 DEF Known
    <3>4. pc \notin Early
      BY <1>6 DEF Early
    <3> QED BY <1>2, <1>7, <2>3, <3>1, <3>2, <3>3, <3>4 DEF SpendOk
  <2> QED BY <2>2, <2>3
<1>17. CanonInv'
  <2>1. Canonical' => Canonical
    BY <1>0, StillCanonical DEF Inv, Settled
  <2>2. Canonical => pc = "append"
    BY DEF Canonical, pc
  <2> QED BY <1>2, <1>5, <1>7, <1>14, <2>1, <2>2 DEF Inv, CanonInv, Held
<1>18. SpendInv'
  BY <1>16 DEF SpendInv
<1> QED BY <1>0, <1>2, <1>5, <1>7, <1>8, <1>10, <1>11, <1>14, <1>15, <1>17, <1>18, <1>6, OneMoves


-------------------------------------------------------------------------------
(* Arrivals.                                                               *)

LEMMA NoticedAll ==
  ASSUME Types, NEW r \in Replica, Knows(r, Noticed(mon[r])), reading' = reading
  PROVE  /\ mon' \in [Replica -> Monitor]
         /\ \A q \in Replica : /\ mon'[q].evidence = mon[q].evidence
                               /\ mon'[q].debited = mon[q].debited
                               /\ mon'[q].offset = mon[q].offset
                               /\ mon'[q].blind = mon[q].blind /\ mon'[q].unread = mon[q].unread
                               /\ reading'[q] \in {reading[q], None}
<1>1. mon \in [Replica -> Monitor] /\ mon[r] \in Monitor
  BY DEF Types
<1>2. /\ Noticed(mon[r]) \in Monitor /\ Noticed(mon[r]).evidence = mon[r].evidence
      /\ Noticed(mon[r]).debited = mon[r].debited /\ Noticed(mon[r]).offset = mon[r].offset
      /\ Noticed(mon[r]).blind = mon[r].blind /\ Noticed(mon[r]).unread = mon[r].unread
  BY <1>1, NoticedWell
<1>3. /\ mon' \in [Replica -> Monitor] /\ mon'[r] = Noticed(mon[r])
      /\ \A q \in Replica : q # r => mon'[q] = mon[q]
  BY <1>1, <1>2, Learnt
<1> QED BY <1>2, <1>3

LEMMA ServeIncumbentKeeps ==
  ASSUME Inv, NEW s \in Subject, NEW r \in setup.replicas, ServeIncumbent(s, r)
  PROVE  Inv'
<1>0. /\ Settled /\ job' = job /\ reading' = reading /\ r \in Replica
      /\ job \in [Job -> Work] /\ reading \in [Replica -> Nat \cup {None}]
      /\ served \in [Subject -> {None} \cup [at : Replica, arm : Arm \cup {"asked"}]]
  BY SetupTyped DEF ServeIncumbent, NoFault, counters, Inv, Types, Settled
<1>1. /\ mon' \in [Replica -> Monitor]
      /\ \A q \in Replica : /\ mon'[q].evidence = mon[q].evidence
                            /\ mon'[q].debited = mon[q].debited
                            /\ mon'[q].offset = mon[q].offset
                            /\ mon'[q].blind = mon[q].blind /\ mon'[q].unread = mon[q].unread
                            /\ reading'[q] \in {reading[q], None}
  BY <1>0, NoticedAll DEF ServeIncumbent, Inv
<1>2. RowsWait /\ \A x \in Subject : Behind(x)
  BY <1>0 DEF RowsWait, Behind
<1>3. EvidenceInv' /\ SpendInv' /\ CanonInv'
  BY <1>0, <1>1, <1>2, MonitorsSame
<1>4. served[s] = None /\ served' = [served EXCEPT ![s] = [at |-> r, arm |-> "incumbent"]]
  BY DEF ServeIncumbent
<1>5. served' \in [Subject -> {None} \cup [at : Replica, arm : Arm \cup {"asked"}]]
  <2> DEFINE V == {None} \cup [at : Replica, arm : Arm \cup {"asked"}]
  <2>1. [at |-> r, arm |-> "incumbent"] \in V
    BY <1>0 DEF Arm
  <2> HIDE DEF V
  <2>2. served \in [Subject -> V]
    BY <1>0 DEF V
  <2>3. served' \in [Subject -> V]
    BY <1>4, <2>1, <2>2
  <2> QED BY <2>3 DEF V
<1>6. Types' /\ LogInv' /\ JobInv' /\ TableInv'
  BY <1>0, <1>1, <1>5, SettledKeeps
<1>7. AppendsApart'
  BY <1>0 DEF Inv, AppendsApart
<1>8. AsksInv'
  <2>1. AsksInv /\ setup' = setup
    BY <1>0 DEF Inv, Settled
  <2>2. \A k \in Job : job[k].asks # 0 => job[k].asks # s /\ served'[job[k].asks] = served[job[k].asks]
    BY <1>0, <1>4, <2>1 DEF AsksInv
  <2> QED BY <1>0, <2>1, <2>2 DEF AsksInv
<1> QED BY <1>3, <1>6, <1>7, <1>8 DEF Inv

\* A job that comes up.
LEMMA Comes ==
  ASSUME Inv, Settled, NEW j \in Job, job[j].pc = "absent",
         NEW w \in Work, w.pc = "ensure", w.at \in Replica, w.upto = 0,
         job' = [job EXCEPT ![j] = w]
  PROVE  /\ job' \in [Job -> Work] /\ \A k \in Job : k # j => job'[k] = job[k]
         /\ job'[j] = w /\ JobOk(j)'
         /\ RowsWait /\ \A x \in Subject : Behind(x)
<1>1. job \in [Job -> Work] /\ Len(log) \in Nat /\ log' = log
  BY LenProperties DEF Inv, Types, Settled
<1>4. job' \in [Job -> Work] /\ job'[j] = w /\ \A k \in Job : k # j => job'[k] = job[k]
  BY <1>1
<1>5. "ensure" \notin Late /\ {"absent", "ensure"} \subseteq Early
  BY DEF Late, Early
<1>6. JobOk(j)'
  <2>1. job'[j].pc = "ensure" /\ job'[j].at \in Replica /\ job'[j].upto = 0
    BY <1>4
  <2>2. 0 <= Len(log')
    BY <1>1
  <2> QED BY <1>5, <2>1, <2>2 DEF JobOk
<1>7. RowsWait /\ \A x \in Subject : Behind(x)
  BY <1>4, <1>5 DEF RowsWait, Behind
<1> QED BY <1>4, <1>6, <1>7

LEMMA SpawnKeeps ==
  ASSUME Inv, NEW j \in Job, NEW r \in setup.replicas, Spawn(j, r)
  PROVE  Inv'
<1>0. /\ Settled /\ served' = served /\ reading' = reading /\ r \in Replica /\ setup.paired
      /\ reading' \in [Replica -> Nat \cup {None}]
      /\ served' \in [Subject -> {None} \cup [at : Replica, arm : Arm \cup {"asked"}]]
  BY SetupTyped DEF Spawn, NoFault, counters, stores, Inv, Types, Settled
<1>1. /\ mon' \in [Replica -> Monitor]
      /\ \A q \in Replica : /\ mon'[q].evidence = mon[q].evidence
                            /\ mon'[q].debited = mon[q].debited
                            /\ mon'[q].offset = mon[q].offset
                            /\ mon'[q].blind = mon[q].blind /\ mon'[q].unread = mon[q].unread
                            /\ reading'[q] \in {reading[q], None}
  BY <1>0, NoticedAll DEF Spawn, Inv
<1>2. job[j].pc = "absent" /\ job \in [Job -> Work] /\ log' \in Seq(Record)
  BY <1>0 DEF Spawn, Next1, Inv, Types, Settled
<1>3. CASE Blocked(mon[r])
  <2>1. job' = [job EXCEPT ![j] = Done] /\ Done \in Work
    BY <1>3 DEF Spawn, Done, Absent, Work
  <2> HIDE DEF Done
  <2>2. job' \in [Job -> Work] /\ job'[j] = Done /\ \A k \in Job : k # j => job'[k] = job[k]
    BY <1>2, <2>1
  <2>3. JobOk(j)' /\ job'[j].asks = 0 /\ job'[j].pc = "done" /\ "done" \notin Early \cup Late
    BY <1>2, <2>2, DoneWell
  <2>4. RowsWait /\ \A x \in Subject : Behind(x)
    BY <2>2, <2>3 DEF RowsWait, Behind
  <2>5. EvidenceInv' /\ SpendInv' /\ CanonInv'
    BY <1>0, <1>1, <2>4, MonitorsSame
  <2> QED BY <1>0, <1>1, <2>2, <2>3, <2>5, OneMoves
<1>4. CASE ~Blocked(mon[r])
  <2> DEFINE w == [Absent EXCEPT !.pc = "ensure", !.at = r]
  <2>1. job' = [job EXCEPT ![j] = w]
    BY <1>4 DEF Spawn
  <2>2. w \in Work /\ w.pc = "ensure" /\ w.at = r /\ w.asks = 0 /\ w.upto = 0
    BY <1>0 DEF Absent, Work, Early
  <2> HIDE DEF w
  <2>3. /\ job' \in [Job -> Work] /\ \A k \in Job : k # j => job'[k] = job[k]
        /\ job'[j] = w /\ JobOk(j)'
        /\ RowsWait /\ \A x \in Subject : Behind(x)
    BY <1>0, <1>2, <2>1, <2>2, Comes
  <2>4. EvidenceInv' /\ SpendInv' /\ CanonInv'
    BY <1>0, <1>1, <2>3, MonitorsSame
  <2> QED BY <1>0, <1>1, <2>2, <2>3, <2>4, OneMoves
<1> QED BY <1>3, <1>4

LEMMA AskChallengerKeeps ==
  ASSUME Inv, NEW j \in Job, NEW s \in Subject, NEW r \in setup.replicas, AskChallenger(j, s, r)
  PROVE  Inv'
<1>0. /\ Settled /\ reading' = reading /\ r \in Replica /\ ~setup.paired
      /\ s \in Nat \ {0} /\ reading' \in [Replica -> Nat \cup {None}]
      /\ served \in [Subject -> {None} \cup [at : Replica, arm : Arm \cup {"asked"}]]
  BY SetupTyped DEF AskChallenger, NoFault, counters, stores, Inv, Types, Settled
<1>1. /\ mon' \in [Replica -> Monitor]
      /\ \A q \in Replica : /\ mon'[q].evidence = mon[q].evidence
                            /\ mon'[q].debited = mon[q].debited
                            /\ mon'[q].offset = mon[q].offset
                            /\ mon'[q].blind = mon[q].blind /\ mon'[q].unread = mon[q].unread
                            /\ reading'[q] \in {reading[q], None}
  BY <1>0, NoticedAll DEF AskChallenger, Inv
<1>2. /\ job[j].pc = "absent" /\ served[s] = None
      /\ served' = [served EXCEPT ![s] = [at |-> r, arm |-> "asked"]]
      /\ job' = [job EXCEPT ![j] = [Absent EXCEPT !.pc = "ensure", !.at = r, !.asks = s]]
  BY DEF AskChallenger, Next1
<1> DEFINE w == [Absent EXCEPT !.pc = "ensure", !.at = r, !.asks = s]
<1>3. w \in Work /\ w.pc = "ensure" /\ w.at = r /\ w.asks = s /\ w.upto = 0
  BY <1>0 DEF Absent, Work, Early
<1> HIDE DEF w
<1>4. /\ job' \in [Job -> Work] /\ \A k \in Job : k # j => job'[k] = job[k]
      /\ job'[j].pc = "ensure" /\ job'[j].asks = s /\ JobOk(j)'
      /\ RowsWait /\ \A x \in Subject : Behind(x)
  <2>1. job' = [job EXCEPT ![j] = w]
    BY <1>2 DEF w
  <2>2. /\ job' \in [Job -> Work] /\ \A k \in Job : k # j => job'[k] = job[k]
        /\ job'[j] = w /\ JobOk(j)'
        /\ RowsWait /\ \A x \in Subject : Behind(x)
    BY <1>0, <1>2, <1>3, <2>1, Comes
  <2> QED BY <1>3, <2>2
<1>5. EvidenceInv' /\ SpendInv' /\ CanonInv'
  BY <1>0, <1>1, <1>4, MonitorsSame
<1> DEFINE v == [at |-> r, arm |-> "asked"]
<1>6. /\ served' \in [Subject -> {None} \cup [at : Replica, arm : Arm \cup {"asked"}]]
      /\ served'[s] = v /\ \A x \in Subject : x # s => served'[x] = served[x]
  <2> DEFINE V == {None} \cup [at : Replica, arm : Arm \cup {"asked"}]
  <2>1. v \in V
    BY <1>0 DEF Arm
  <2> HIDE DEF V, v
  <2>2. served \in [Subject -> V] /\ served' = [served EXCEPT ![s] = v]
    BY <1>0, <1>2 DEF V, v
  <2>3. /\ served' \in [Subject -> V] /\ served'[s] = v
        /\ \A x \in Subject : x # s => served'[x] = served[x]
    BY <2>1, <2>2
  <2> QED BY <2>3 DEF V
<1>7. v # None /\ v.arm = "asked"
  <2>1. v \in [at : Replica, arm : Arm \cup {"asked"}]
    BY <1>0
  <2> QED BY <2>1, ExperimentAssumption
<1> HIDE DEF v
<1>8. Types' /\ LogInv' /\ JobInv' /\ TableInv'
  BY <1>0, <1>1, <1>4, <1>6, SettledKeeps
<1>9. AppendsApart'
  BY <1>4 DEF Inv, AppendsApart
<1>10. AsksInv'
  <2>1. AsksInv /\ setup' = setup
    BY <1>0 DEF Inv, Settled
  <2>2. \A k \in Job : k # j /\ job[k].asks # 0 =>
          job[k].asks # s /\ served'[job[k].asks] = served[job[k].asks]
    BY <1>2, <1>6, <2>1 DEF AsksInv
  <2>3. ASSUME NEW k \in Job
        PROVE  /\ job'[k].asks # 0 =>
                    /\ ~setup'.paired /\ job'[k].pc \in {"ensure", "ensuring"}
                    /\ job'[k].asks \in Subject
                    /\ served'[job'[k].asks] # None /\ served'[job'[k].asks].arm = "asked"
               /\ ~setup'.paired /\ job'[k].pc \in {"ensure", "ensuring"} => job'[k].asks # 0
    <3>1. CASE k = j
      BY <1>0, <1>4, <1>6, <1>7, <2>1, <3>1
    <3>2. CASE k # j
      BY <1>4, <2>1, <2>2, <3>2 DEF AsksInv
    <3> QED BY <3>1, <3>2
  <2>4. ASSUME NEW k \in Job, NEW i \in Job, k # i, job'[k].asks # 0
        PROVE  job'[k].asks # job'[i].asks
    <3>1. CASE k = j
      BY <1>0, <1>4, <2>2, <2>4, <3>1
    <3>2. CASE i = j
      BY <1>4, <2>2, <2>4, <3>2
    <3>3. CASE k # j /\ i # j
      BY <1>4, <2>1, <2>4, <3>3 DEF AsksInv
    <3> QED BY <3>1, <3>2, <3>3
  <2> QED BY <2>3, <2>4 DEF AsksInv
<1> QED BY <1>5, <1>8, <1>9, <1>10 DEF Inv

LEMMA SyncReadKeeps ==
  ASSUME Inv, NEW r \in Replica, SyncRead(r)
  PROVE  Inv'
<1>0. /\ Settled /\ job' = job /\ served' = served /\ mon' = mon
      /\ reading' = [reading EXCEPT ![r] = Len(log)]
      /\ job \in [Job -> Work] /\ Len(log) \in Nat
      /\ reading \in [Replica -> Nat \cup {None}] /\ mon \in [Replica -> Monitor]
      /\ served \in [Subject -> {None} \cup [at : Replica, arm : Arm \cup {"asked"}]]
  BY LenProperties DEF SyncRead, NoFault, counters, stores, Inv, Types, Settled
<1>1. reading' \in [Replica -> Nat \cup {None}]
  BY <1>0
<1>2. Types' /\ LogInv' /\ JobInv' /\ TableInv'
  BY <1>0, <1>1, SettledKeeps
<1>3. AppendsApart' /\ AsksInv'
  BY <1>0 DEF Inv, AppendsApart, AsksInv, Settled
<1>4. \A q \in Replica : reading'[q] # None => reading'[q] <= Len(log)
  BY <1>0 DEF Inv, EvidenceInv, EvidenceOk
<1>5. log' = log /\ table' = table /\ setup' = setup /\ life' = life
  BY <1>0 DEF Settled
<1>6. EvidenceInv'
  BY <1>0, <1>4, <1>5 DEF Inv, EvidenceInv, EvidenceOk, Held, Durable
<1>7. ASSUME NEW q \in Replica, NEW s \in Subject
      PROVE  SpendOk(q, s)'
  <2>1. SpendOk(q, s)
    BY DEF Inv, SpendInv
  <2>2. Behind(s)
    BY <1>0 DEF Behind
  <2> QED BY <1>0, <1>5, <2>1, <2>2, SpendFrame
<1>8. CanonInv'
  <2>1. Canonical' => Canonical
    BY <1>0, StillCanonical DEF Inv, Settled
  <2> QED BY <1>0, <1>5, <2>1 DEF Inv, CanonInv, Held
<1>9. SpendInv'
  BY <1>7 DEF SpendInv
<1> QED BY <1>2, <1>3, <1>6, <1>8, <1>9 DEF Inv

LEMMA SyncApplyKeeps ==
  ASSUME Inv, NEW r \in Replica, SyncApply(r)
  PROVE  Inv'
<1>0. /\ Settled /\ job' = job /\ served' = served
      /\ reading' = [reading EXCEPT ![r] = None]
      /\ job \in [Job -> Work] /\ reading \in [Replica -> Nat \cup {None}]
      /\ served \in [Subject -> {None} \cup [at : Replica, arm : Arm \cup {"asked"}]]
  BY DEF SyncApply, NoFault, counters, stores, Inv, Types, Settled
<1>1. /\ reading' \in [Replica -> Nat \cup {None}]
      /\ \A q \in Replica : reading'[q] \in {reading[q], None}
  BY <1>0
<1>2. reading[r] \in Nat /\ reading[r] <= Len(log)
  BY <1>0 DEF SyncApply, Inv, EvidenceInv, EvidenceOk
<1>3. RowsWait /\ \A s \in Subject : Behind(s)
  BY <1>0 DEF RowsWait, Behind
<1>4. Knows(r, Synced(mon[r], reading[r], Me(r)))
  BY DEF SyncApply
<1>5. mon' \in [Replica -> Monitor] /\ EvidenceInv' /\ SpendInv' /\ CanonInv'
  BY <1>0, <1>1, <1>2, <1>3, <1>4, MonitorSyncs
<1>6. Types' /\ LogInv' /\ JobInv' /\ TableInv'
  BY <1>0, <1>1, <1>5, SettledKeeps
<1>7. AppendsApart' /\ AsksInv'
  BY <1>0 DEF Inv, AppendsApart, AsksInv, Settled
<1> QED BY <1>5, <1>6, <1>7 DEF Inv


-------------------------------------------------------------------------------
(* The steps that add to the log or to a table, and the restart.           *)

LEMMA AsksFrame ==
  ASSUME AsksInv, setup' = setup, served' = served, NEW j \in Job,
         \A k \in Job : k # j => job'[k] = job[k],
         job'[j].asks = 0, job'[j].pc \notin {"ensure", "ensuring"}
  PROVE  AsksInv'
BY DEF AsksInv

LEMMA ReportKeeps ==
  ASSUME Inv, NEW j \in Job, NEW s \in Subject, NEW x \in 0..1, Report(j, s, x)
  PROVE  Inv'
<1> DEFINE r == served[s].at
           e == Item(s, served[s].arm, x, r)
           pc == IF setup.logged THEN "claim" ELSE "count"
           w == [Absent EXCEPT !.pc = pc, !.at = r, !.item = e]
<1>0. /\ mon' = mon /\ log' = log /\ claims' = claims /\ served' = served /\ reading' = reading
      /\ life' = life /\ setup' = setup /\ faults' = faults /\ restarts' = restarts
      /\ ~setup.paired /\ job[j].pc = "absent" /\ served[s] # None /\ served[s].arm # "asked"
      /\ job' = [job EXCEPT ![j] = w]
      /\ table' = [table EXCEPT ![r].reports = Append(@, e)]
  BY DEF Report, NoFault, counters, Next1
<1>1. /\ Types /\ mon \in [Replica -> Monitor] /\ table \in [Replica -> Tables]
      /\ job \in [Job -> Work] /\ log \in Seq(Record) /\ Len(log) \in Nat
  BY LenProperties DEF Inv, Types
<1>2. r \in Replica /\ served[s].arm \in Arm
  <2>1. served[s] \in [at : Replica, arm : Arm \cup {"asked"}]
    BY <1>0 DEF Inv, Types
  <2> QED BY <1>0, <2>1
<1>3. e \in Record /\ e.id = s /\ e.arm # "pair" /\ e.by = Me(r)
  <2>1. x \in -1..1 /\ served[s].arm \in Arm \cup {"pair"} /\ served[s].arm # "pair"
    BY <1>2 DEF Arm
  <2>2. e \in Record
    BY <1>1, <1>2, <2>1, ItemTyped
  <2> QED BY <2>1, <2>2 DEF Item
<1> HIDE DEF e
<1>4. pc \in {"claim", "count"} /\ pc \in Late /\ (setup.logged => pc = "claim")
  BY DEF Late
<1> HIDE DEF pc, r
<1>5. w \in Work /\ w.pc = pc /\ w.at = r /\ w.item = e /\ w.asks = 0 /\ w.upto = 0
  BY <1>2, <1>3, <1>4 DEF Absent, Work
<1> HIDE DEF w
<1>6. job' \in [Job -> Work] /\ job'[j] = w /\ \A k \in Job : k # j => job'[k] = job[k]
  BY <1>0, <1>1, <1>5
<1>7. table[r].reports \in Seq(Record) /\ Append(table[r].reports, e) \in Seq(Record)
  BY <1>1, <1>2, <1>3, AppendProperties DEF Tables
<1>8. /\ table' \in [Replica -> Tables]
      /\ table'[r].reports = Append(table[r].reports, e) /\ table'[r].rows = table[r].rows
      /\ \A q \in Replica : q # r => table'[q] = table[q]
      /\ \A q \in Replica : table'[q].rows = table[q].rows
  <2> DEFINE a == Append(table[r].reports, e)
             t == [table[r] EXCEPT !.reports = a]
  <2>1. table' = [table EXCEPT ![r] = t]
    BY <1>0
  <2> HIDE DEF a
  <2>2. a \in Seq(Record)
    BY <1>7 DEF a
  <2>3. t \in Tables /\ t.reports = a /\ t.rows = table[r].rows
    BY <1>1, <1>2, <2>2 DEF Tables
  <2> HIDE DEF t
  <2> QED BY <1>1, <1>2, <2>1, <2>3 DEF a
<1>9. \A id : Known(table'[r].reports, id) <=> Known(table[r].reports, id) \/ e.id = id
  <2> DEFINE t == table[r].reports
  <2> HIDE DEF t
  <2>1. t \in Seq(Record)
    BY <1>7 DEF t
  <2>2. \A id : Known(Append(t, e), id) <=> Known(t, id) \/ e.id = id
    BY <1>3, <2>1, KnownAppended
  <2> QED BY <1>8, <2>2 DEF t
<1>10. Grows
  <2>1. \A q \in Replica : \A id :
          /\ Known(table[q].reports, id) => Known(table'[q].reports, id)
          /\ RowOf(table[q].rows, id) => RowOf(table'[q].rows, id)
    BY <1>8, <1>9
  <2> QED BY <1>0, <1>1, <2>1 DEF Grows
<1>11. Types'
  BY <1>0, <1>1, <1>6, <1>8 DEF Types
<1>12. LogInv' /\ TableInv'
  <2>1. LogInv'
    BY <1>0 DEF Inv, LogInv
  <2>2. TableInv'
    BY <1>0, <1>8 DEF Inv, TableInv
  <2> QED BY <2>1, <2>2
<1>13. JobInv'
  <2>1. ASSUME NEW k \in Job, k # j
        PROVE  JobOk(k)'
    <3>1. JobOk(k) /\ (job[k].pc = "append" => ~Known(log', job[k].item.id))
      BY <1>0 DEF Inv, JobInv, JobOk
    <3> QED BY <1>0, <1>1, <1>6, <1>10, <2>1, <3>1, JobFrame
  <2>2. JobOk(j)'
    <3>1. Known(table'[r].reports, e.id)
      BY <1>9
    <3>2. e.by = <<r, life'[r]>>
      BY <1>0, <1>3 DEF Me
    <3>3. /\ job'[j].pc = pc /\ job'[j].at = r /\ job'[j].item = e /\ job'[j].upto = 0
          /\ setup' = setup /\ log' = log
      BY <1>0, <1>5, <1>6
    <3> QED BY <1>0, <1>1, <1>2, <1>3, <1>4, <3>1, <3>2, <3>3 DEF JobOk, Me
  <2> QED BY <2>1, <2>2 DEF JobInv
<1>14. AppendsApart'
  BY <1>4, <1>5, <1>6 DEF Inv, AppendsApart
<1>15. AsksInv'
  BY <1>0, <1>4, <1>5, <1>6, AsksFrame DEF Inv
<1>16. ASSUME NEW q \in Replica
       PROVE  EvidenceOk(q)'
  <2>1. EvidenceOk(q)
    BY DEF Inv, EvidenceInv
  <2>2. Distinct(mon'[q].evidence)
    BY <1>0, <2>1 DEF EvidenceOk, Held
  <2> QED BY <1>0, <1>1, <1>10, <2>1, <2>2, EvidenceFrame DEF Held
<1>17. SpendInv'
  BY <1>0 DEF Inv, SpendInv, SpendOk
<1>18. CanonInv'
  <2>1. Canonical' => Canonical /\ setup.logged
    BY <1>0 DEF Canonical
  <2> QED BY <1>0, <1>4, <1>5, <1>6, <1>8, <2>1 DEF Inv, CanonInv, Held
<1> QED BY <1>11, <1>12, <1>13, <1>14, <1>15, <1>16, <1>17, <1>18 DEF Inv, EvidenceInv

\* Evidence that comes to be in the log.
LEMMA LogLengthens ==
  ASSUME Inv, NEW j \in Job, job[j].pc = "append", log' = Append(log, job[j].item),
         setup' = setup, table' = table, claims' = claims, served' = served, life' = life,
         reading' = reading, restarts' = restarts, faults' \in Nat, faults <= faults',
         NEW pc \in {"read", "row", "done"}, Goes(j, pc),
         pc = "row" => setup.paired /\ ~Canonical',
         mon' \in [Replica -> Monitor], mon' = mon \/ (~setup.paired /\ ~Canonical'),
         \A q \in Replica :
           /\ mon'[q].debited = mon[q].debited /\ mon'[q].offset = mon[q].offset
           /\ mon'[q].blind = mon[q].blind /\ mon'[q].unread = mon[q].unread
           /\ Distinct(mon'[q].evidence)
           /\ \A id : Known(Held(q), id) => Known(mon'[q].evidence, id)
           /\ \A id \in Subject : Known(mon'[q].evidence, id) =>
                \/ Known(Held(q), id) \/ Known(log', id)
                \/ Known(table'[q].reports, id) \/ RowOf(table'[q].rows, id)
  PROVE  Inv'
<1> DEFINE e == job[j].item
           n == Len(log)
<1>1. {"append", "read", "row"} \subseteq Late /\ pc \in Late \cup {"done"} /\ pc # "append"
      /\ "done" \notin Early /\ "read" \notin Early /\ "row" \notin Early /\ "done" \notin Late
  BY DEF Late, Early
<1>2. /\ Types /\ job \in [Job -> Work] /\ JobOk(j) /\ job[j].asks = 0
      /\ log \in Seq(Record) /\ n \in Nat /\ mon \in [Replica -> Monitor]
      /\ job[j].at \in Replica /\ e \in Record /\ e.id \in Subject
      /\ setup.paired /\ ~mon[job[j].at].blind => mon[job[j].at].debited[e.id] = 1
  BY <1>1, Owed DEF Inv
<1>3. /\ ~Known(log, e.id) /\ e.by = Me(job[j].at)
      /\ e.arm = "pair" <=> setup.paired
      /\ setup.paired => e.id = j
      /\ ~setup.paired => e.id \in claims
  BY <1>1, <1>2 DEF JobOk
<1>4. /\ log' \in Seq(Record) /\ Len(log') = n + 1 /\ log'[n + 1] = e
      /\ \A i \in 1..n : log'[i] = log[i]
  BY <1>2, AppendProperties
<1>5. \A id : Known(log', id) <=> Known(log, id) \/ e.id = id
  BY <1>2, KnownAppended
<1> HIDE DEF n, e
<1>6. \A i \in 1..(n + 1) : i \in 1..n \/ i = n + 1
  BY <1>2
<1>7. Grows
  BY <1>2, <1>4, <1>5 DEF Grows, n
<1>8. /\ job' \in [Job -> Work] /\ \A k \in Job : k # j => job'[k] = job[k]
      /\ job'[j].pc = pc /\ job'[j].asks = 0
      /\ pc # "done" => job'[j].at = job[j].at /\ job'[j].item = e
                          /\ job'[j].upto = job[j].upto
      /\ pc = "done" => job'[j] = Done
      /\ \A s \in Subject : Behind(s)
  BY <1>1, LateGoes DEF e
<1>9. Types'
  BY <1>2, <1>4, <1>8 DEF Types
<1>10. LogInv'
  <2>1. Distinct(log')
    <3>1. Distinct(log) /\ \A i \in 1..n : log[i].id # e.id
      BY <1>3 DEF Inv, LogInv, Known, n
    <3>2. ASSUME NEW i \in 1..Len(log'), NEW k \in 1..Len(log'), i < k
          PROVE  log'[i].id # log'[k].id
      <4>1. i \in 1..n
        BY <1>2, <1>4, <3>2
      <4>2. CASE k \in 1..n
        BY <1>4, <3>1, <3>2, <4>1, <4>2 DEF Distinct, n
      <4>3. CASE k = n + 1
        BY <1>4, <3>1, <4>1, <4>3
      <4> QED BY <1>4, <1>6, <4>2, <4>3
    <3> QED BY <3>2 DEF Distinct
  <2>2. ASSUME NEW i \in 1..Len(log')
        PROVE  /\ log'[i].arm = "pair" <=> setup'.paired
               /\ log'[i].by[2] <= life'[log'[i].by[1]]
               /\ ~setup'.paired => log'[i].id \in claims'
    <3>1. CASE i \in 1..n
      BY <1>4, <3>1 DEF Inv, LogInv, n
    <3>2. CASE i = n + 1
      <4>1. e.by[1] = job[j].at /\ e.by[2] = life[job[j].at] /\ life[job[j].at] \in Nat
        BY <1>2, <1>3 DEF Me, Types
      <4>2. e.by[2] <= life'[e.by[1]]
        BY <4>1
      <4> QED BY <1>3, <1>4, <3>2, <4>2
    <3> QED BY <1>4, <1>6, <3>1, <3>2
  <2> QED BY <2>1, <2>2 DEF LogInv
<1>11. TableInv'
  BY <1>5 DEF Inv, TableInv
<1>12. JobInv'
  <2>1. ASSUME NEW k \in Job, k # j
        PROVE  JobOk(k)'
    <3>1. JobOk(k)
      BY DEF Inv, JobInv
    <3>2. job[k].pc = "append" => ~Known(log', job[k].item.id)
      BY <1>5, <2>1, <3>1 DEF Inv, AppendsApart, JobOk, e
    <3> QED BY <1>2, <1>7, <1>8, <2>1, <3>1, <3>2, JobFrame
  <2>2. JobOk(j)'
    <3>1. CASE pc = "done"
      BY <1>4, <1>8, <3>1, DoneWell
    <3>2. CASE pc \in {"read", "row"}
      <4>1. /\ job'[j].pc = pc /\ job'[j].at = job[j].at /\ job'[j].item = e
            /\ job'[j].upto = job[j].upto
        BY <1>8, <3>2
      <4>2. job[j].upto \in Nat /\ job[j].upto <= Len(log')
        BY <1>2, <1>4 DEF Work, JobOk, n
      <4>3. Known(log', e.id) /\ e.by = <<job[j].at, life'[job[j].at]>>
        BY <1>3, <1>5 DEF Me
      <4>4. ~setup.paired => Known(table[job[j].at].reports, e.id)
        BY <1>1, <1>2 DEF JobOk, e
      <4> QED BY <1>2, <1>3, <3>2, <4>1, <4>2, <4>3, <4>4 DEF JobOk, Me
    <3> QED BY <3>1, <3>2
  <2> QED BY <2>1, <2>2 DEF JobInv
<1>13. AppendsApart'
  BY <1>1, <1>8 DEF Inv, AppendsApart
<1>14. AsksInv'
  BY <1>8, AsksFrame DEF Inv
<1>15. ASSUME NEW q \in Replica
       PROVE  EvidenceOk(q)'
  BY <1>2, <1>7, EvidenceFrame DEF Inv, EvidenceInv
<1>16. ASSUME NEW q \in Replica, NEW s \in Subject
       PROVE  SpendOk(q, s)'
  <2>1. SpendOk(q, s) /\ mon'[q].debited[s] = mon[q].debited[s]
    BY DEF Inv, SpendInv
  <2>2. CASE ~setup.paired
    BY <2>1, <2>2 DEF SpendOk
  <2>3. CASE setup.paired
    <3>1. /\ (Held(q))' = Held(q) /\ (Me(q))' = Me(q)
          /\ mon'[q].blind = mon[q].blind /\ mon'[q].unread = mon[q].unread
      BY <2>3 DEF Held, Me
    <3>2. e.id = j /\ j \in Job
      BY <1>3, <2>3
    <3>3. \A i \in 1..Len(log') : log'[i].id = s => (i \in 1..Len(log) /\ log'[i] = log[i])
                                                     \/ (s = j /\ log'[i] = e)
      BY <1>4, <1>6, <3>2 DEF n
    <3>4. ~mon[q].blind /\ s = j => (e.by = Me(q) => mon[q].debited[s] = 1)
      <4>1. e.by = Me(q) => q = job[j].at
        BY <1>3 DEF Me
      <4> QED BY <1>2, <2>3, <3>2, <4>1
    <3>5. ~mon[q].blind => \A i \in 1..Len(log') :
            log'[i].id = s /\ log'[i].by = Me(q) => mon[q].debited[s] = 1
      BY <2>1, <2>3, <3>3, <3>4 DEF SpendOk
    <3>6. s \in Job /\ job'[s].pc \in Early => s # j
      BY <1>1, <1>8
    <3>7. ASSUME ~mon[q].blind, mon[q].debited[s] = 1, ~Known(Held(q), s)
          PROVE  /\ \A i \in 1..Len(log') : log'[i].id = s => log'[i].by = Me(q)
                 /\ s \in Job /\ (job'[s].pc = "append" => job'[s].at = q)
      <4>1. /\ \A i \in 1..Len(log) : log[i].id = s => log[i].by = Me(q)
            /\ s \in Job /\ (job[s].pc = "append" => job[s].at = q)
        BY <2>1, <2>3, <3>7 DEF SpendOk
      <4>2. s = j => e.by = Me(q)
        BY <1>3, <4>1
      <4>3. job'[s].pc = "append" => job'[s].at = q
        BY <1>1, <1>8, <4>1
      <4> QED BY <3>3, <4>1, <4>2, <4>3
    <3>8. ~Known(log', s) => ~Known(log, s)
      BY <1>5
    <3>9. s \in Job /\ job'[s].pc \in Early =>
            mon[q].debited[s] = 0 /\ ~Known(log', s) /\ ~RowOf(table[q].rows, s)
      BY <1>5, <1>8, <2>1, <2>3, <3>2, <3>6 DEF SpendOk
    <3>10. ~mon[q].blind /\ s \in Job /\ job'[s].pc \in Late /\ job'[s].at = q =>
             mon[q].debited[s] = 1
      BY <1>8, <2>1, <2>3 DEF SpendOk, Behind
    <3> QED BY <2>1, <2>3, <3>1, <3>5, <3>7, <3>8, <3>9, <3>10 DEF SpendOk
  <2> QED BY <2>2, <2>3
<1>17. CanonInv'
  <2>1. Canonical' => Canonical
    BY <1>2, StillCanonical
  <2>2. ASSUME Canonical', NEW q \in Replica
        PROVE  (Held(q) = SubSeq(log, 1, mon[q].offset))'
    <3> DEFINE o == mon[q].offset
    <3>1. mon' = mon /\ Held(q) = SubSeq(log, 1, o) /\ o \in Nat /\ o <= n
      BY <1>2, <2>1, <2>2 DEF Inv, CanonInv, EvidenceInv, EvidenceOk, Monitor, n
    <3> HIDE DEF o
    <3>2. \A i \in 1..o : log[i] \in Record /\ log'[i] \in Record /\ log'[i] = log[i]
      BY <1>2, <1>4, <3>1, ElementOfSeq DEF n
    <3>5. SubSeq(log, 1, o) = SubSeq(log', 1, o)
      <4>1. o <= Len(log')
        BY <1>2, <1>4, <3>1
      <4> QED BY <1>2, <1>4, <3>1, <3>2, <4>1, SameBeginning DEF n
    <3> QED BY <3>1, <3>5 DEF Held, o
  <2>3. Canonical' => \A k \in Job : job'[k].pc \notin {"row", "count"}
    BY <1>8, <2>1 DEF Inv, CanonInv
  <2> QED BY <2>1, <2>2, <2>3 DEF Inv, CanonInv
<1> QED BY <1>9, <1>10, <1>11, <1>12, <1>13, <1>14, <1>15, <1>16, <1>17
        DEF Inv, EvidenceInv, SpendInv


LEMMA AppendRecordKeeps ==
  ASSUME Inv, NEW j \in Job, AppendRecord(j)
  PROVE  Inv'
<1> DEFINE r == job[j].at
           e == job[j].item
<1>1. /\ job[j].pc = "append" /\ table' = table /\ claims' = claims /\ served' = served
      /\ reading' = reading /\ life' = life
      /\ {"append", "row", "read"} \subseteq Late
  BY DEF AppendRecord, Late
<1>2. /\ job \in [Job -> Work] /\ JobOk(j) /\ Types
      /\ log \in Seq(Record) /\ mon \in [Replica -> Monitor]
      /\ r \in Replica /\ e \in Record
      /\ faults \in Nat /\ claims \subseteq Subject
  BY <1>1, Owed DEF Inv, Types
<1>3. \A q \in Replica : Distinct(Held(q))
  BY DEF Inv, EvidenceInv, EvidenceOk
<1>4. ASSUME mon' = mon
      PROVE  /\ mon' \in [Replica -> Monitor]
             /\ \A q \in Replica :
                  /\ mon'[q].debited = mon[q].debited /\ mon'[q].offset = mon[q].offset
                  /\ mon'[q].blind = mon[q].blind /\ mon'[q].unread = mon[q].unread
                  /\ Distinct(mon'[q].evidence)
                  /\ \A id : Known(Held(q), id) => Known(mon'[q].evidence, id)
                  /\ \A id \in Subject : Known(mon'[q].evidence, id) =>
                       \/ Known(Held(q), id) \/ Known(log', id)
                       \/ Known(table'[q].reports, id) \/ RowOf(table'[q].rows, id)
  BY <1>2, <1>3, <1>4 DEF Held
<1>5. CASE log' = Append(log, e) /\ Goes(j, "read") /\ NoFault /\ UNCHANGED mon
  <2>1. setup' = setup /\ restarts' = restarts /\ faults' \in Nat /\ faults <= faults' /\ mon' = mon
    BY <1>2, <1>5 DEF NoFault, counters
  <2>2. PICK pc \in {"read", "row", "done"} : pc = "read" /\ Goes(j, pc)
    BY <1>5
  <2> QED BY <1>1, <1>4, <1>5, <2>1, <2>2, LogLengthens
<1>6. CASE Fault /\ setup.paired /\ Goes(j, "row") /\ mon' = mon
           /\ log' \in {log, Append(log, e)}
  <2>1. ~Canonical' /\ setup' = setup /\ restarts' = restarts /\ faults' \in Nat /\ faults <= faults'
    BY <1>2, <1>6, Failed
  <2>2. CASE log' = Append(log, e)
    <3>1. PICK pc \in {"read", "row", "done"} : pc = "row" /\ Goes(j, pc)
      BY <1>6
    <3> QED BY <1>1, <1>4, <1>6, <2>1, <2>2, <3>1, LogLengthens
  <2>3. CASE log' = log
    <3>0. Settled
      BY <1>1, <1>2, <2>1, <2>3 DEF Settled
    <3>1. /\ job'[j].pc = "row" /\ job'[j].at = r /\ job'[j].item = e
          /\ job'[j].upto = job[j].upto /\ \A s \in Subject : Behind(s)
      BY <1>1, <1>6, LateGoes
    <3>2. RowsWait
      BY <2>1 DEF RowsWait
    <3>3. \A q \in Replica : reading'[q] \in {reading[q], None}
      BY <1>1
    <3>4. EvidenceInv' /\ SpendInv' /\ CanonInv'
      BY <1>2, <1>6, <3>0, <3>1, <3>2, <3>3, MonitorsSame
    <3>5. JobOk(j)'
      BY <1>1, <1>2, <1>6, <3>0, <3>1 DEF JobOk, Settled, Me
    <3> QED BY <1>1, <1>2, <1>6, <3>0, <3>4, <3>5, LateMoves
  <2> QED BY <1>6, <2>2, <2>3
<1>7. CASE /\ Fault /\ ~setup.paired /\ Goes(j, "done") /\ Knows(r, CountedHere(mon[r], e))
           /\ log' \in {log, Append(log, e)}
  <2>1. ~Canonical' /\ setup' = setup /\ restarts' = restarts /\ faults' \in Nat /\ faults <= faults'
    BY <1>2, <1>7, Failed
  <2>2. Durable(r, e.id) /\ Known(table[r].reports, e.id)
    BY <1>1, <1>2, <1>7 DEF JobOk, Durable
  <2>3. CASE log' = Append(log, e)
    <3> DEFINE m == CountedHere(mon[r], e)
    <3>1. /\ m \in Monitor /\ Distinct(m.evidence)
          /\ m.debited = mon[r].debited /\ m.offset = mon[r].offset
          /\ m.blind = mon[r].blind /\ m.unread = mon[r].unread
          /\ \A id : Known(m.evidence, id) <=> Known(Held(r), id) \/ e.id = id
      <4>1. Distinct(mon[r].evidence) /\ mon[r] \in Monitor
        BY <1>2, <1>3 DEF Held
      <4> QED BY <1>2, <4>1, CountedWell DEF Held
    <3> HIDE DEF m
    <3>2. /\ mon' \in [Replica -> Monitor] /\ mon'[r] = m
          /\ \A q \in Replica : q # r => mon'[q] = mon[q]
      BY <1>2, <1>7, <3>1, Learnt DEF m
    <3>3. \A q \in Replica :
            /\ mon'[q].debited = mon[q].debited /\ mon'[q].offset = mon[q].offset
            /\ mon'[q].blind = mon[q].blind /\ mon'[q].unread = mon[q].unread
            /\ Distinct(mon'[q].evidence)
            /\ \A id : Known(Held(q), id) => Known(mon'[q].evidence, id)
            /\ \A id \in Subject : Known(mon'[q].evidence, id) =>
                 \/ Known(Held(q), id) \/ Known(log', id)
                 \/ Known(table'[q].reports, id) \/ RowOf(table'[q].rows, id)
      <4> TAKE q \in Replica
      <4>1. CASE q = r
        BY <1>1, <2>2, <3>1, <3>2, <4>1
      <4>2. CASE q # r
        BY <1>3, <3>2, <4>2 DEF Held
      <4> QED BY <4>1, <4>2
    <3>4. PICK pc \in {"read", "row", "done"} : pc = "done" /\ Goes(j, pc)
      BY <1>7
    <3> QED BY <1>1, <1>7, <2>1, <2>3, <3>2, <3>3, <3>4, LogLengthens
  <2>4. CASE log' = log
    <3>0. Settled
      BY <1>1, <1>2, <2>1, <2>4 DEF Settled
    <3>1. "done" \in Late \cup {"done"} /\ \A s \in Subject : Behind(s)
      BY <1>1, <1>7, LateGoes
    <3>2. mon' \in [Replica -> Monitor] /\ EvidenceInv' /\ SpendInv' /\ CanonInv'
      BY <1>1, <1>2, <1>7, <2>1, <2>2, <3>0, <3>1, MonitorCounts
    <3> QED BY <1>1, <1>7, <3>0, <3>1, <3>2, LateMoves
  <2> QED BY <1>7, <2>3, <2>4
<1> QED BY <1>5, <1>6, <1>7 DEF AppendRecord

\* A row that comes to be in the table of the replica that ran its evaluation.
LEMMA RowAdded ==
  ASSUME Inv, NEW j \in Job, job[j].pc \in {"cache", "row"}, NEW inLog \in BOOLEAN,
         Stores(job[j].at, Row(job[j].item, inLog)),
         inLog => Known(log, job[j].item.id), ~inLog => ~Canonical',
         UNCHANGED <<mon, log, claims, served, reading, life>>, NoFault,
         NEW pc \in {"count", "done"}, Goes(j, pc), pc = "count" => ~Canonical'
  PROVE  Inv'
<1> DEFINE r == job[j].at
           row == Row(job[j].item, inLog)
           R == [item : Record, inLog : BOOLEAN]
<1>0. /\ mon' = mon /\ log' = log /\ claims' = claims /\ served' = served /\ reading' = reading
      /\ life' = life /\ setup' = setup /\ faults' = faults /\ restarts' = restarts
  BY DEF NoFault, counters
<1>1. {"cache", "row", "count"} \subseteq Late /\ pc \in Late \cup {"done"} /\ pc # "append"
      /\ pc \notin Early
  BY DEF Late, Early
<1>2. /\ Types /\ job \in [Job -> Work] /\ JobOk(j) /\ setup.paired
      /\ log \in Seq(Record) /\ Len(log) \in Nat /\ mon \in [Replica -> Monitor]
      /\ table \in [Replica -> Tables]
      /\ r \in Replica /\ job[j].item \in Record /\ job[j].item.id = j
      /\ ~mon[r].blind => mon[r].debited[j] = 1
  <2>1. setup.paired
    BY DEF Inv, JobInv, JobOk
  <2>2. Types /\ table \in [Replica -> Tables]
    BY DEF Inv, Types
  <2>3. job[j].pc \in Late
    BY <1>1
  <2>4. JobOk(j)
    BY DEF Inv, JobInv
  <2>5. job[j].item.id = j
    BY <2>1, <2>3, <2>4 DEF JobOk
  <2> QED BY <2>1, <2>2, <2>3, <2>5, Owed
<1>3. row \in R /\ row.item = job[j].item /\ row.item.id = j /\ row.inLog = inLog
  BY <1>2 DEF Row
<1>4. table' = [table EXCEPT ![r].rows = Append(@, row)]
  BY DEF Stores
<1> HIDE DEF row
<1>5. table[r].rows \in Seq(R)
  BY <1>2 DEF Tables
<1> DEFINE n == Len(table[r].rows)
           a == Append(table[r].rows, row)
<1>6. /\ a \in Seq(R) /\ Len(a) = n + 1 /\ n \in Nat
      /\ \A i \in 1..n : a[i] = table[r].rows[i]
      /\ a[n + 1] = row
  <2> HIDE DEF R
  <2> QED BY <1>3, <1>5, AppendProperties, LenProperties
<1> HIDE DEF a, n
<1>7. /\ table' \in [Replica -> Tables]
      /\ table'[r].rows = a /\ table'[r].reports = table[r].reports
      /\ \A q \in Replica : q # r => table'[q] = table[q]
  <2> DEFINE t == [table[r] EXCEPT !.rows = a]
  <2>1. table' = [table EXCEPT ![r] = t]
    BY <1>4 DEF a
  <2>2. t \in Tables /\ t.rows = a /\ t.reports = table[r].reports
    BY <1>2, <1>6 DEF Tables
  <2> HIDE DEF t
  <2> QED BY <1>2, <2>1, <2>2
<1>8. \A id : RowOf(a, id) <=> RowOf(table[r].rows, id) \/ id = j
  <2>1. \A i \in 1..(n + 1) : i \in 1..n \/ i = n + 1
    BY <1>6
  <2>2. n + 1 \in 1..(n + 1) /\ \A i \in 1..n : i \in 1..(n + 1)
    BY <1>6
  <2> QED BY <1>3, <1>6, <2>1, <2>2 DEF RowOf, n
<1>9. Grows
  <2>1. \A q \in Replica : \A id :
          /\ Known(table[q].reports, id) => Known(table'[q].reports, id)
          /\ RowOf(table[q].rows, id) => RowOf(table'[q].rows, id)
    BY <1>7, <1>8
  <2> QED BY <1>0, <1>2, <2>1 DEF Grows
<1>10. /\ job' \in [Job -> Work] /\ \A k \in Job : k # j => job'[k] = job[k]
       /\ job'[j].pc = pc /\ job'[j].asks = 0
       /\ pc # "done" => job'[j].at = r /\ job'[j].item = job[j].item
                           /\ job'[j].upto = job[j].upto
       /\ pc = "done" => job'[j] = Done
       /\ \A s \in Subject : Behind(s)
  BY <1>1, LateGoes
<1>11. Types'
  BY <1>0, <1>2, <1>7, <1>10 DEF Types
<1>12. LogInv'
  BY <1>0 DEF Inv, LogInv
<1>13. TableInv'
  <2>1. ASSUME NEW q \in Replica, NEW k \in 1..Len(table'[q].rows)
        PROVE  table'[q].rows[k].inLog => Known(log, table'[q].rows[k].item.id)
    <3>1. CASE q # r
      BY <1>7, <2>1, <3>1 DEF Inv, TableInv
    <3>2. CASE q = r /\ k \in 1..n
      BY <1>6, <1>7, <3>2 DEF Inv, TableInv, n
    <3>3. CASE q = r /\ k = n + 1
      BY <1>3, <1>6, <1>7, <3>3
    <3> QED BY <1>6, <1>7, <2>1, <3>1, <3>2, <3>3
  <2>2. \A q \in Replica : table'[q].reports = table[q].reports
    BY <1>7
  <2> QED BY <1>0, <1>2, <2>1, <2>2 DEF Inv, TableInv
<1>14. JobInv'
  <2>1. ASSUME NEW k \in Job, k # j
        PROVE  JobOk(k)'
    <3>1. JobOk(k) /\ (job[k].pc = "append" => ~Known(log', job[k].item.id))
      BY <1>0 DEF Inv, JobInv, JobOk
    <3> QED BY <1>0, <1>2, <1>9, <1>10, <2>1, <3>1, JobFrame
  <2>2. JobOk(j)'
    <3>1. CASE pc = "done"
      BY <1>0, <1>2, <1>10, <3>1, DoneWell
    <3>2. CASE pc = "count"
      <4>1. RowOf(table'[r].rows, j)
        BY <1>7, <1>8
      <4>2. job[j].item.by = <<r, life'[r]>> /\ (job[j].item.arm = "pair" <=> setup.paired)
        BY <1>0, <1>1, <1>2 DEF JobOk, Me
      <4>3. job[j].upto <= Len(log)
        BY <1>2 DEF JobOk
      <4>4. job'[j].pc = "count" /\ job'[j].at = r /\ job'[j].item = job[j].item
            /\ job'[j].upto = job[j].upto
        BY <1>10, <3>2
      <4> QED BY <1>0, <1>2, <4>1, <4>2, <4>3, <4>4 DEF JobOk, Me
    <3> QED BY <3>1, <3>2
  <2> QED BY <2>1, <2>2 DEF JobInv
<1>15. AppendsApart'
  BY <1>1, <1>10 DEF Inv, AppendsApart
<1>16. AsksInv'
  BY <1>0, <1>1, <1>10, AsksFrame DEF Inv
<1>17. ASSUME NEW q \in Replica
       PROVE  EvidenceOk(q)'
  <2>1. EvidenceOk(q)
    BY DEF Inv, EvidenceInv
  <2>2. Distinct(mon'[q].evidence)
    BY <1>0, <2>1 DEF EvidenceOk, Held
  <2> QED BY <1>0, <1>2, <1>9, <2>1, <2>2, EvidenceFrame DEF Held
<1>18. ASSUME NEW q \in Replica, NEW s \in Subject
       PROVE  SpendOk(q, s)'
  <2>1. SpendOk(q, s)
    BY DEF Inv, SpendInv
  <2>2. Behind(s)
    BY <1>10
  <2>3. /\ (Held(q))' = Held(q) /\ (Me(q))' = Me(q) /\ mon'[q].debited[s] = mon[q].debited[s]
        /\ mon'[q].blind = mon[q].blind /\ mon'[q].unread = mon[q].unread
    BY <1>0 DEF Held, Me
  <2>4. RowOf(table'[q].rows, s) => RowOf(table[q].rows, s) \/ (s = j /\ q = r)
    BY <1>7, <1>8
  <2>5. ~mon[q].blind /\ RowOf(table'[q].rows, s) /\ ~Known(log, s) /\ s \notin mon[q].unread =>
          mon[q].debited[s] = 1
    BY <1>2, <2>1, <2>4 DEF SpendOk
  <2>6. s \in Job /\ job'[s].pc \in Early => s # j /\ job[s].pc \in Early
    BY <1>1, <1>10, <2>2 DEF Behind
  <2>7. s \in Job /\ job'[s].pc = "append" => job[s].pc = "append" /\ job'[s].at = job[s].at
    BY <1>1, <1>10
  <2> QED BY <1>0, <1>2, <2>1, <2>2, <2>3, <2>4, <2>5, <2>6, <2>7 DEF SpendOk, Behind
<1>19. CanonInv'
  <2>1. Canonical' => Canonical
    BY <1>0 DEF Canonical
  <2>2. ASSUME Canonical', NEW q \in Replica, NEW k \in 1..Len(table'[q].rows)
        PROVE  table'[q].rows[k].inLog
    <3>1. CASE q # r
      BY <1>7, <2>1, <2>2, <3>1 DEF Inv, CanonInv
    <3>2. CASE q = r /\ k \in 1..n
      BY <1>6, <1>7, <2>1, <2>2, <3>2 DEF Inv, CanonInv, n
    <3>3. CASE q = r /\ k = n + 1
      BY <1>3, <1>6, <1>7, <2>2, <3>3
    <3> QED BY <1>6, <1>7, <2>2, <3>1, <3>2, <3>3
  <2>3. Canonical' => \A k \in Job : job'[k].pc \notin {"row", "count"}
    BY <1>10, <2>1 DEF Inv, CanonInv
  <2> QED BY <1>0, <2>1, <2>2, <2>3 DEF Inv, CanonInv, Held
<1> QED BY <1>11, <1>12, <1>13, <1>14, <1>15, <1>16, <1>17, <1>18, <1>19
        DEF Inv, EvidenceInv, SpendInv

\* A row that could not be written.
LEMMA RowLost ==
  ASSUME Inv, NEW j \in Job, job[j].pc \in {"cache", "row"}, Goes(j, "done"), Fault,
         UNCHANGED <<mon, table, log, claims, served, reading, life>>
  PROVE  Inv'
<1>1. job[j].pc \in Late /\ "done" \in Late \cup {"done"}
  BY DEF Late
<1>2. /\ mon' = mon /\ log' = log /\ claims' = claims /\ served' = served /\ reading' = reading
      /\ life' = life /\ table' = table
  OBVIOUS
<1>3. Types /\ mon' \in [Replica -> Monitor] /\ claims \subseteq Subject
  BY <1>2 DEF Inv, Types
<1>4. Settled
  BY <1>2, <1>3, Failed DEF Settled
<1>5. RowsWait /\ \A s \in Subject : Behind(s)
  BY <1>1, LateGoes
<1>6. EvidenceInv' /\ SpendInv' /\ CanonInv'
  BY <1>2, <1>3, <1>4, <1>5, MonitorsSame
<1> QED BY <1>1, <1>2, <1>3, <1>4, <1>6, LateMoves

LEMMA WriteInLogRowKeeps ==
  ASSUME Inv, NEW j \in Job, WriteInLogRow(j)
  PROVE  Inv'
<1>1. /\ job[j].pc = "cache" /\ Goes(j, "done")
      /\ UNCHANGED <<mon, log, claims, served, reading, life>>
  BY DEF WriteInLogRow
<1>2. CASE Stores(job[j].at, Row(job[j].item, TRUE)) /\ NoFault
  <2>1. Known(log, job[j].item.id)
    BY <1>1 DEF Inv, JobInv, JobOk
  <2>2. \E inLog \in BOOLEAN : inLog = TRUE
    OBVIOUS
  <2>3. PICK inLog \in BOOLEAN : inLog = TRUE
    BY <2>2
  <2>4. Stores(job[j].at, Row(job[j].item, inLog))
    BY <1>2, <2>3
  <2>5. PICK pc \in {"count", "done"} : pc = "done" /\ Goes(j, pc)
    BY <1>1
  <2> QED BY <1>1, <1>2, <2>1, <2>3, <2>4, <2>5, RowAdded
<1>3. CASE Fault /\ UNCHANGED table
  BY <1>1, <1>3, RowLost
<1> QED BY <1>2, <1>3 DEF WriteInLogRow

LEMMA WriteRowKeeps ==
  ASSUME Inv, NEW j \in Job, WriteRow(j)
  PROVE  Inv'
<1>1. job[j].pc = "row" /\ UNCHANGED <<mon, log, claims, served, reading, life>>
  BY DEF WriteRow
<1>2. CASE /\ Stores(job[j].at, Row(job[j].item, FALSE)) /\ Goes(j, "count") /\ NoFault
  <2>1. ~Canonical'
    <3>1. ~Canonical
      BY <1>1 DEF Inv, CanonInv
    <3> QED BY <1>2, <3>1 DEF Canonical, NoFault, counters
  <2>2. PICK inLog \in BOOLEAN : inLog = FALSE
    OBVIOUS
  <2>3. Stores(job[j].at, Row(job[j].item, inLog))
    BY <1>2, <2>2
  <2>4. PICK pc \in {"count", "done"} : pc = "count" /\ Goes(j, pc)
    BY <1>2
  <2> QED BY <1>1, <1>2, <2>1, <2>2, <2>3, <2>4, RowAdded
<1>3. CASE Fault /\ Goes(j, "done") /\ UNCHANGED table
  BY <1>1, <1>3, RowLost
<1> QED BY <1>2, <1>3 DEF WriteRow

LEMMA KnownNothing ==
  ASSUME NEW S, NEW e \in Seq(S), \A id : ~Known(e, id)
  PROVE  e = <<>>
<1>1. Len(e) \in Nat
  BY LenProperties
<1>2. Len(e) = 0
  <2>1. ASSUME Len(e) # 0
        PROVE  FALSE
    <3>1. 1 \in 1..Len(e)
      BY <1>1, <2>1
    <3>2. Known(e, e[1].id)
      BY <3>1 DEF Known
    <3> QED BY <3>2
  <2> QED BY <2>1
<1> QED BY <1>2, EmptySeq

\* A process that starts again knows what its tables kept, and no job of the old one's
\* goes on.
LEMMA RestartKeeps ==
  ASSUME Inv, NEW r \in Replica, Restart(r)
  PROVE  Inv'
<1>reads. PICK whole \in BOOLEAN, seeded \in BOOLEAN :
        /\ Knows(r, Rebuilt(r, whole, seeded))
        /\ IF whole /\ seeded THEN UNCHANGED faults
                              ELSE faults < setup.faults /\ faults' = faults + 1
  <2>1. PICK whole \in BOOLEAN, seeded \in IF setup.paired THEN BOOLEAN ELSE {TRUE} :
          /\ Knows(r, Rebuilt(r, whole, seeded))
          /\ IF whole /\ seeded THEN UNCHANGED faults
                                ELSE faults < setup.faults /\ faults' = faults + 1
    BY DEF Restart
  <2>2. seeded \in BOOLEAN
    OBVIOUS
  <2> QED BY <2>1, <2>2
<1> DEFINE m == Rebuilt(r, whole, seeded)
           Kept1(s) == \E k \in Kept(r) : table[r].rows[k].item.id = s
<1>0. /\ setup' = setup /\ table' = table /\ log' = log
      /\ claims' = claims /\ served' = served
      /\ restarts' = restarts + 1 /\ restarts < setup.restarts
      /\ mon' = [mon EXCEPT ![r] = m]
      /\ job' = [j \in Job |-> IF job[j].at = r THEN Done ELSE job[j]]
      /\ reading' = [reading EXCEPT ![r] = None]
      /\ life' = [life EXCEPT ![r] = @ + 1]
  BY <1>reads DEF Restart, Knows, stores
<1>faults. faults \in Nat /\ faults' \in Nat /\ faults <= faults'
  <2>1. faults \in Nat
    BY DEF Inv, Types
  <2>2. faults' = faults \/ faults' = faults + 1
    BY <1>reads
  <2> QED BY <2>1, <2>2
<1>1. /\ Types /\ setup \in Setups /\ restarts \in Nat /\ setup.restarts \in Nat
      /\ log \in Seq(Record) /\ Len(log) \in Nat /\ job \in [Job -> Work]
      /\ mon \in [Replica -> Monitor] /\ table[r] \in Tables
      /\ reading \in [Replica -> Nat \cup {None}]
      /\ life \in [Replica -> Nat] /\ \A q \in Replica : life[q] <= restarts
  BY SetupTyped, LenProperties DEF Inv, Types
<1>2. /\ m \in Monitor /\ Distinct(m.evidence) /\ m.offset = 0
      /\ \A id : Known(m.evidence, id) <=>
           whole /\ (Known(table[r].reports, id) \/ Kept1(id))
      /\ \A s \in Subject : m.debited[s] = IF seeded /\ Kept1(s) THEN 1 ELSE 0
      /\ ~m.blind => whole
      /\ \A s \in Subject : ~seeded /\ Kept1(s) => s \in m.unread
  <2>1. table[r] \in Tables
    BY <1>1
  <2> QED BY <2>1, RebuiltWell
<1> HIDE DEF m
<1>3. /\ mon' \in [Replica -> Monitor] /\ mon'[r] = m
      /\ \A q \in Replica : q # r => mon'[q] = mon[q]
  <2>1. mon' = [mon EXCEPT ![r] = m] /\ mon \in [Replica -> Monitor] /\ m \in Monitor
    BY <1>0, <1>1, <1>2
  <2> QED BY <2>1
<1>4. /\ life' \in [Replica -> Nat] /\ life'[r] = life[r] + 1
      /\ \A q \in Replica : q # r => life'[q] = life[q]
      /\ \A q \in Replica : life[q] <= life'[q] /\ life'[q] <= restarts'
  BY <1>0, <1>1
<1>5. /\ reading' \in [Replica -> Nat \cup {None}] /\ reading'[r] = None
      /\ \A q \in Replica : q # r => reading'[q] = reading[q]
  BY <1>0, <1>1
<1>6. /\ Done \in Work /\ Done.pc = "done" /\ Done.at = None /\ Done.asks = 0
      /\ "done" \notin Late /\ "done" \notin Early
  BY DEF Done, Absent, Work, Late, Early
<1>7. /\ job' \in [Job -> Work]
      /\ \A j \in Job : job[j].at = r => job'[j] = Done
      /\ \A j \in Job : job[j].at # r => job'[j] = job[j]
  BY <1>0, <1>1, <1>6
<1>8. /\ \A j \in Job : job'[j].pc # "done" => job'[j] = job[j] /\ job[j].at # r
      /\ \A j \in Job : job'[j].asks # 0 => job'[j] = job[j]
  BY <1>6, <1>7
<1>9. Types'
  BY <1>0, <1>1, <1>faults, <1>3, <1>4, <1>5, <1>7 DEF Types
<1>10. LogInv'
  <2>1. ASSUME NEW i \in 1..Len(log)
        PROVE  log[i].by[2] <= life'[log[i].by[1]]
    <3>1. log[i] \in Record
      BY <1>1, ElementOfSeq
    <3>2. PICK q \in Replica, n \in UNION {0..d.restarts : d \in Setups} : log[i].by = <<q, n>>
      BY <3>1 DEF Record
    <3>3. n \in Nat
      OBVIOUS
    <3>4. n <= life[q]
      BY <3>2 DEF Inv, LogInv
    <3> QED BY <1>1, <1>4, <3>2, <3>3, <3>4
  <2> QED BY <1>0, <2>1 DEF Inv, LogInv
<1>11. TableInv'
  BY <1>0 DEF Inv, TableInv
<1>12. Grows
  BY <1>0, <1>1, NothingNew
<1>13. ASSUME NEW j \in Job
       PROVE  JobOk(j)'
  <2>1. CASE job[j].at = r
    BY <1>0, <1>1, <1>7, <2>1, DoneWell
  <2>2. CASE job[j].at # r
    <3>1. JobOk(j) /\ job'[j] = job[j]
      BY <1>7, <2>2 DEF Inv, JobInv
    <3>2. job[j].pc \notin {"absent", "done"} => life'[job[j].at] = life[job[j].at]
      BY <1>4, <2>2, <3>1 DEF JobOk
    <3>3. job[j].pc = "append" => ~Known(log', job[j].item.id)
      BY <1>0, <3>1 DEF JobOk
    <3> QED BY <1>1, <1>12, <3>1, <3>2, <3>3, JobFrame
  <2> QED BY <2>1, <2>2
<1>14. AppendsApart'
  BY <1>8 DEF Inv, AppendsApart
<1>15. AsksInv'
  BY <1>0, <1>8 DEF Inv, AsksInv
<1>16. ASSUME NEW q \in Replica
       PROVE  EvidenceOk(q)'
  <2>1. CASE q # r
    <3>1. EvidenceOk(q) /\ mon'[q] = mon[q]
      BY <1>3, <2>1 DEF Inv, EvidenceInv
    <3>2. Distinct(mon'[q].evidence)
      BY <3>1 DEF EvidenceOk, Held
    <3> QED BY <1>1, <1>3, <1>5, <1>12, <2>1, <3>1, <3>2, EvidenceFrame DEF Held
  <2>2. CASE q = r
    <3>1. (Held(r))' = m.evidence
      BY <1>3 DEF Held
    <3>2. \A id \in Subject : Known(m.evidence, id) =>
            Known(table[r].reports, id) \/ RowOf(table[r].rows, id)
      BY <1>2 DEF Kept, RowOf
    <3>3. \A i \in 1..0 : FALSE
      OBVIOUS
    <3> QED BY <1>0, <1>1, <1>2, <1>3, <1>5, <2>2, <3>1, <3>2, <3>3 DEF EvidenceOk, Durable
  <2> QED BY <2>1, <2>2
<1>17. ASSUME NEW q \in Replica, NEW s \in Subject
       PROVE  SpendOk(q, s)'
  <2>0. SpendOk(q, s)
    BY DEF Inv, SpendInv
  <2>1. /\ s \in Job /\ job'[s].pc \in Early => job[s].pc \in Early
        /\ s \in Job /\ job'[s].pc \in Late =>
             job[s].pc \in Late /\ job'[s].at = job[s].at /\ job[s].at # r
        /\ s \in Job /\ job'[s].pc = "append" => job[s].pc = "append" /\ job'[s].at = job[s].at
    BY <1>6, <1>8
  <2>2. CASE q # r
    <3>1. mon'[q] = mon[q] /\ (Held(q))' = Held(q) /\ (Me(q))' = Me(q)
      BY <1>3, <1>4, <2>2 DEF Held, Me
    <3> QED BY <1>0, <2>0, <2>1, <3>1 DEF SpendOk
  <2>3. CASE q = r
    <3>1. (Held(r))' = m.evidence /\ (Me(r))' = <<r, life[r] + 1>>
      BY <1>3, <1>4 DEF Held, Me
    <3>2. ~setup.paired => m.debited[s] = 0
      BY <1>2 DEF Inv, TableInv, Kept
    <3>3. m.debited[s] = 0 \/ m.debited[s] = 1
      BY <1>2
    <3>4. setup.paired /\ ~m.blind =>
            /\ Known(m.evidence, s) /\ s \notin m.unread => m.debited[s] = 1
            /\ m.debited[s] = 1 => Known(m.evidence, s)
      <4>1. setup.paired => ~Known(table[r].reports, s)
        BY DEF Inv, TableInv, Known
      <4> HIDE DEF Kept1
      <4> QED BY <1>2, <4>1
    <3>5. RowOf(table[r].rows, s) /\ ~Known(log, s) /\ s \notin m.unread => m.debited[s] = 1
      <4>1. ASSUME NEW k \in 1..Len(table[r].rows), table[r].rows[k].item.id = s, ~Known(log, s)
            PROVE  k \in Kept(r)
        BY <4>1 DEF Inv, TableInv, Kept
      <4>2. RowOf(table[r].rows, s) /\ ~Known(log, s) => Kept1(s)
        BY <4>1 DEF RowOf
      <4> HIDE DEF Kept1
      <4> QED BY <1>2, <4>2
    <3>6. ASSUME NEW i \in 1..Len(log)
          PROVE  log[i].by # <<r, life[r] + 1>>
      <4>1. log[i].by[2] <= life[log[i].by[1]]
        BY DEF Inv, LogInv
      <4> QED BY <1>1, <4>1
    <3>7. ~RowOf(table[r].rows, s) => m.debited[s] = 0
      BY <1>2 DEF Kept, RowOf
    <3> QED BY <1>0, <1>3, <2>0, <2>1, <2>3, <3>1, <3>2, <3>3, <3>4, <3>5, <3>6, <3>7
            DEF SpendOk
  <2> QED BY <2>2, <2>3
<1>18. CanonInv'
  <2> SUFFICES ASSUME Canonical'
               PROVE  /\ \A q \in Replica : (Held(q))' = SubSeq(log', 1, mon'[q].offset)
                      /\ \A q \in Replica : \A k \in 1..Len(table'[q].rows) : table'[q].rows[k].inLog
                      /\ \A j \in Job : job'[j].pc \notin {"row", "count"}
    BY DEF CanonInv
  <2>1. Canonical /\ setup.logged /\ setup.paired
    BY <1>0, <1>1, <1>faults DEF Canonical
  <2>2. /\ \A q \in Replica : Held(q) = SubSeq(log, 1, mon[q].offset)
        /\ \A q \in Replica : \A k \in 1..Len(table[q].rows) : table[q].rows[k].inLog
        /\ \A j \in Job : job[j].pc \notin {"row", "count"}
    BY <2>1 DEF Inv, CanonInv
  <2>3. ASSUME NEW q \in Replica
        PROVE  (Held(q))' = SubSeq(log', 1, mon'[q].offset)
    <3>1. CASE q # r
      BY <1>0, <1>3, <2>2, <3>1 DEF Held
    <3>2. CASE q = r
      <4>1. \A id : ~Known(table[r].reports, id)
        BY <2>1 DEF Inv, TableInv, Known
      <4>2. \A k \in Kept(r) : FALSE
        BY <2>1, <2>2 DEF Kept
      <4>3. m.evidence \in Seq(Record) /\ \A id : ~Known(m.evidence, id)
        BY <1>2, <4>1, <4>2 DEF Monitor
      <4>4. m.evidence = <<>>
        BY <4>3, KnownNothing
      <4>5. SubSeq(log, 1, 0) = <<>>
        <5>1. SubSeq(log, 1, 0) \in Seq(Record) /\ Len(SubSeq(log, 1, 0)) = 0
          BY <1>1, SubSeqProperties
        <5> QED BY <5>1, EmptySeq
      <4> QED BY <1>0, <1>2, <1>3, <3>2, <4>4, <4>5 DEF Held
    <3> QED BY <3>1, <3>2
  <2>4. \A j \in Job : job'[j].pc \notin {"row", "count"}
    BY <1>8, <2>2
  <2> QED BY <1>0, <2>2, <2>3, <2>4
<1> QED BY <1>9, <1>10, <1>11, <1>13, <1>14, <1>15, <1>16, <1>17, <1>18
        DEF Inv, JobInv, EvidenceInv, SpendInv

-------------------------------------------------------------------------------
(* The invariant holds.                                                    *)

LEMMA Starts ==
  ASSUME Init
  PROVE  Inv
<1>1. /\ setup \in Setups /\ faults = 0 /\ restarts = 0
      /\ table = [r \in Replica |-> [reports |-> <<>>, rows |-> <<>>]]
      /\ log = <<>> /\ claims = {}
      /\ job = [j \in Job |-> Absent] /\ reading = [r \in Replica |-> None]
      /\ life = [r \in Replica |-> 0]
  BY DEF Init
<1>2. PICK home \in setup.replicas :
        /\ served = [s \in Subject |-> IF s \in setup.past THEN [at |-> home, arm |-> setup.arms[s]]
                                       ELSE None]
        /\ mon = [r \in Replica |-> IF r = home /\ setup.past # {}
                                    THEN [Blank EXCEPT !.sync = "known"] ELSE Blank]
  BY DEF Init
<1>3. /\ home \in Replica /\ setup.arms \in [Subject -> Arm \cup {"none"}]
      /\ setup.restarts \in Nat /\ \A s \in setup.past : setup.arms[s] # "none"
  BY <1>1, SetupTyped, ExperimentAssumption
<1>4. /\ Len(<<>>) = 0 /\ <<>> \in Seq(Record) /\ 1..0 = {}
      /\ <<>> \in Seq([item : Record, inLog : BOOLEAN])
  BY EmptySeq
<1>5. ASSUME NEW r \in Replica
      PROVE  /\ mon[r] \in Monitor /\ mon[r].evidence = <<>> /\ mon[r].offset = 0
             /\ mon[r].debited = [s \in Subject |-> 0]
  <2>1. Blank \in Monitor /\ [Blank EXCEPT !.sync = "known"] \in Monitor
    BY <1>4 DEF Blank, Monitor
  <2> QED BY <1>2, <2>1 DEF Blank
<1>6. mon \in [Replica -> Monitor]
  BY <1>2, <1>5
<1>7. table \in [Replica -> Tables]
  BY <1>1, <1>4 DEF Tables
<1>8. /\ Absent \in Work /\ Absent.pc = "absent" /\ Absent.asks = 0 /\ Absent.upto = 0
      /\ "absent" \in Early /\ "absent" \notin Late
  BY DEF Absent, Work, Early, Late
<1>9. /\ job \in [Job -> Work]
      /\ \A j \in Job : job[j].pc = "absent" /\ job[j].asks = 0 /\ job[j].upto = 0
  BY <1>1, <1>8
<1>10. served \in [Subject -> {None} \cup [at : Replica, arm : Arm \cup {"asked"}]]
  BY <1>2, <1>3
<1>11. Types
  BY <1>1, <1>3, <1>4, <1>6, <1>7, <1>9, <1>10 DEF Types
<1>12. LogInv /\ TableInv
  BY <1>1, <1>4 DEF LogInv, TableInv, Distinct
<1>13. JobInv
  BY <1>1, <1>4, <1>8, <1>9 DEF JobInv, JobOk
<1>14. AppendsApart
  BY <1>9 DEF AppendsApart
<1>15. AsksInv
  BY <1>9 DEF AsksInv
<1>16. ASSUME NEW r \in Replica
       PROVE  EvidenceOk(r)
  <2>1. \A id : ~Known(<<>>, id)
    BY <1>4 DEF Known
  <2> QED BY <1>1, <1>4, <1>5, <2>1 DEF EvidenceOk, Held, Distinct
<1>17. ASSUME NEW r \in Replica, NEW s \in Subject
       PROVE  SpendOk(r, s)
  <2>1. mon[r].debited[s] = 0
    BY <1>5
  <2>2. ~Known(Held(r), s) /\ ~Known(log, s) /\ ~RowOf(table[r].rows, s)
    BY <1>1, <1>4, <1>5 DEF Held, Known, RowOf
  <2>3. \A i \in 1..Len(log) : FALSE
    BY <1>1, <1>4
  <2> QED BY <1>8, <1>9, <2>1, <2>2, <2>3 DEF SpendOk
<1>18. CanonInv
  <2>1. ASSUME NEW r \in Replica
        PROVE  Held(r) = SubSeq(log, 1, mon[r].offset)
    <3>1. SubSeq(log, 1, 0) = <<>>
      BY <1>1
    <3> QED BY <1>5, <3>1 DEF Held
  <2> QED BY <1>1, <1>4, <1>9, <2>1 DEF CanonInv
<1> QED BY <1>11, <1>12, <1>13, <1>14, <1>15, <1>16, <1>17, <1>18
        DEF Inv, EvidenceInv, SpendInv

LEMMA NothingMoves ==
  ASSUME Inv, UNCHANGED vars
  PROVE  Inv'
<1>1. /\ mon' = mon /\ table' = table /\ log' = log /\ claims' = claims /\ served' = served
      /\ job' = job /\ reading' = reading /\ life' = life
      /\ setup' = setup /\ faults' = faults /\ restarts' = restarts
  BY DEF vars, stores, counters
<1>2. Types'
  BY <1>1 DEF Inv, Types
<1>3. LogInv' /\ TableInv' /\ AppendsApart' /\ AsksInv'
  BY <1>1 DEF Inv, LogInv, TableInv, AppendsApart, AsksInv
<1>4. (\A r \in Replica : (Me(r))' = Me(r) /\ (Held(r))' = Held(r)) /\ Canonical' = Canonical
  BY <1>1 DEF Me, Held, Canonical
<1>5. JobInv'
  <2>1. \A j \in Job : job[j].pc \in Late => job[j].at \in Replica
    <3>1. "absent" \notin Late /\ "done" \notin Late
      BY DEF Late
    <3> QED BY <3>1 DEF Inv, JobInv, JobOk
  <2> QED BY <1>1, <1>4, <2>1 DEF Inv, JobInv, JobOk
<1>6. EvidenceInv' /\ SpendInv' /\ CanonInv'
  BY <1>1, <1>4 DEF Inv, EvidenceInv, EvidenceOk, Durable, SpendInv, SpendOk, CanonInv
<1> QED BY <1>2, <1>3, <1>5, <1>6 DEF Inv

LEMMA StepKeeps ==
  ASSUME Inv, [Next]_vars
  PROVE  Inv'
<1>1. setup.replicas \subseteq Replica
  BY SetupTyped DEF Inv, Types
<1>2. CASE \E s \in Subject, r \in setup.replicas : ServeIncumbent(s, r)
  BY <1>2, ServeIncumbentKeeps
<1>3. CASE \E s \in Subject, r \in setup.replicas, j \in Job : AskChallenger(j, s, r)
  BY <1>3, AskChallengerKeeps
<1>4. CASE \E j \in Job, s \in Subject, x \in 0..1 : Report(j, s, x)
  BY <1>4, ReportKeeps
<1>5. CASE \E j \in Job, r \in setup.replicas : Spawn(j, r)
  BY <1>5, SpawnKeeps
<1>6. ASSUME NEW j \in Job, Works(j) \/ EnsureFails(j)
      PROVE  Inv'
  <2>1. CASE EnsureFresh(j)
    BY <2>1, EnsureFreshKeeps
  <2>2. CASE EnsureRead(j)
    BY <2>2, EnsureReadKeeps
  <2>3. CASE EnsureSynced(j)
    BY <2>3, EnsureSyncedKeeps
  <2>4. CASE RunPaired(j)
    BY <2>4, RunPairedKeeps
  <2>5. CASE Claim(j)
    BY <2>5, ClaimKeeps
  <2>6. CASE AppendRecord(j)
    BY <2>6, AppendRecordKeeps
  <2>7. CASE ReadBack(j)
    BY <2>7, ReadBackKeeps
  <2>8. CASE ApplyRead(j)
    BY <2>8, ApplyReadKeeps
  <2>9. CASE WriteInLogRow(j)
    BY <2>9, WriteInLogRowKeeps
  <2>10. CASE WriteRow(j)
    BY <2>10, WriteRowKeeps
  <2>11. CASE Count(j)
    BY <2>11, CountKeeps
  <2>12. CASE EnsureFails(j)
    BY <2>12, EnsureFailsKeeps
  <2> QED BY <1>6, <2>1, <2>2, <2>3, <2>4, <2>5, <2>6, <2>7, <2>8, <2>9, <2>10, <2>11, <2>12
          DEF Works
<1>7. CASE \E r \in setup.replicas : SyncRead(r) \/ SyncApply(r)
  BY <1>1, <1>7, SyncReadKeeps, SyncApplyKeeps
<1>8. CASE \E r \in setup.replicas : Restart(r)
  BY <1>1, <1>8, RestartKeeps
<1>9. CASE UNCHANGED vars
  BY <1>9, NothingMoves
<1> QED BY <1>2, <1>3, <1>4, <1>5, <1>6, <1>7, <1>8, <1>9 DEF Next

LEMMA Invariant == Spec => []Inv
<1>1. Init => Inv
  BY Starts
<1>2. Inv /\ [Next]_vars => Inv'
  BY StepKeeps
<1> QED BY <1>1, <1>2, PTL DEF Spec

-------------------------------------------------------------------------------
\* "Apply-once" (experiment.rs): however appends, reads, failures and restarts interleave, a
\* replica counts no session and no pair twice.
THEOREM CountsOnce == Spec => []CountedOnce
<1>1. Inv => CountedOnce
  BY DEF Inv, EvidenceInv, EvidenceOk, Distinct, CountedOnce
<1> QED BY <1>1, Invariant, PTL

\* "Evidence without a durable record could mislead a halt": what a replica counted it
\* finds again after a crash, in the log or in its own tables (append_deferred and
\* persist_pair come before the count).
THEOREM CountsWhatIsOnRecord == Spec => []EvidenceIsDurable
<1>1. ASSUME Inv, NEW r \in Replica, NEW i \in 1..Len(Held(r))
      PROVE  Durable(r, Held(r)[i].id)
  <2>1. Held(r) \in Seq(Record)
    BY <1>1 DEF Inv, Types, Monitor, Held
  <2>2. Held(r)[i] \in Record
    BY <2>1, ElementOfSeq
  <2>3. Held(r)[i].id \in Subject /\ Known(Held(r), Held(r)[i].id)
    BY <2>2 DEF Record, Known
  <2> QED BY <1>1, <2>3 DEF Inv, EvidenceInv, EvidenceOk
<1>2. Inv => EvidenceIsDurable
  BY <1>1 DEF EvidenceIsDurable, Durable, RowOf
<1> QED BY <1>2, Invariant, PTL

\* The daily cap is the cluster's, across restarts: the ledger of a replica that may spend
\* has each evaluation it ran, replayed or read of, but for rows its last start could not
\* read, and none twice (build_paired_ledger, seed_spend).
THEOREM SpendsOnce == Spec => []SpendCountedOnce
<1>1. ASSUME Inv, NEW r \in Replica, NEW s \in Subject, ~mon[r].blind
      PROVE  /\ mon[r].debited[s] <= 1
             /\ setup.paired /\ s \notin mon[r].unread =>
                  /\ (\E i \in 1..mon[r].offset : log[i].id = s) => mon[r].debited[s] = 1
                  /\ RowOf(table[r].rows, s) /\ ~Known(log, s) => mon[r].debited[s] = 1
  <2>1. SpendOk(r, s) /\ EvidenceOk(r)
    BY <1>1 DEF Inv, SpendInv, EvidenceInv
  <2>2. (\E i \in 1..mon[r].offset : log[i].id = s) => Known(Held(r), s)
    BY <2>1 DEF EvidenceOk
  <2>3. mon[r].debited[s] <= 1
    <3>1. CASE setup.paired
      BY <1>1, <2>1, <3>1 DEF SpendOk
    <3>2. CASE ~setup.paired
      BY <2>1, <3>2 DEF SpendOk
    <3> QED BY <3>1, <3>2
  <2> QED BY <1>1, <2>1, <2>2, <2>3 DEF SpendOk
<1>2. ASSUME Inv, NEW r \in Replica, NEW s \in Subject, ~mon[r].blind
      PROVE  /\ mon[r].debited[s] <= 1
             /\ setup.paired
                  /\ s \in ({log[i].id : i \in 1..mon[r].offset}
                              \cup {id \in {table[r].rows[k].item.id : k \in 1..Len(table[r].rows)} :
                                     ~Known(log, id)}) \ mon[r].unread
                  => mon[r].debited[s] = 1
  <2>1. s \in {table[r].rows[k].item.id : k \in 1..Len(table[r].rows)} => RowOf(table[r].rows, s)
    BY DEF RowOf
  <2> QED BY <1>1, <1>2, <2>1
<1>3. Inv => SpendCountedOnce
  BY <1>2, Zenon DEF SpendCountedOnce
<1> QED BY <1>3, Invariant, PTL

-------------------------------------------------------------------------------
(* The replicas of one log, and a halt.                                    *)

\* A replica's view moves on along the log, or is lost.
LEMMA ViewMoves ==
  ASSUME Inv, Inv', Canonical, Canonical', NEW r \in Replica, NEW m, Knows(r, m), log' = log,
         m.offset = 0 \/ m.offset >= mon[r].offset
  PROVE  Shared!CatchUp(r) \/ Shared!Forget(r)
<1> DEFINE view == [q \in Replica |-> Held(q)]
           next == [q \in Replica |-> (Held(q))']
           n == mon[r].offset
<1>1. /\ log \in Seq(Record) /\ Len(log) \in Nat /\ mon \in [Replica -> Monitor]
      /\ n \in Nat /\ n <= Len(log)
  BY LenProperties DEF Inv, Types, EvidenceInv, EvidenceOk, Monitor
<1>2. mon'[r] = m /\ \A q \in Replica : q # r => mon'[q] = mon[q]
  BY <1>1 DEF Knows
<1>3. /\ m.offset \in Nat /\ m.offset <= Len(log)
  <2>1. mon'[r] \in Monitor /\ mon'[r].offset <= Len(log')
    BY DEF Inv, Types, EvidenceInv, EvidenceOk
  <2> QED BY <1>2, <2>1 DEF Monitor
<1>4. (Held(r))' = SubSeq(log, 1, m.offset)
  BY <1>2 DEF Inv, CanonInv
<1>5. \A q \in Replica : q # r => (Held(q))' = Held(q)
  BY <1>2 DEF Held
<1>6. next = [view EXCEPT ![r] = SubSeq(log, 1, m.offset)]
  BY <1>4, <1>5
<1>7. Len(view[r]) = n
  <2>1. view[r] = SubSeq(log, 1, n)
    BY DEF Inv, CanonInv
  <2>2. \A i \in 1..n : log[i] \in Record
    BY <1>1, ElementOfSeq
  <2> QED BY <1>1, <2>1, <2>2, SubSeqProperties
<1>8. CASE m.offset >= n
  <2>1. m.offset \in Len(view[r])..Len(log)
    BY <1>1, <1>3, <1>7, <1>8
  <2> HIDE DEF view
  <2>2. \E k \in Len(view[r])..Len(log) : next = [view EXCEPT ![r] = SubSeq(log, 1, k)]
    BY <1>6, <2>1
  <2> QED BY <2>2 DEF Shared!CatchUp, view
<1>9. CASE m.offset = 0
  <2>1. SubSeq(log, 1, 0) = <<>>
    <3>1. SubSeq(log, 1, 0) \in Seq(Record) /\ Len(SubSeq(log, 1, 0)) = 0
      BY <1>1, SubSeqProperties
    <3> QED BY <3>1, EmptySeq
  <2>2. next = [view EXCEPT ![r] = <<>>]
    BY <1>6, <1>9, <2>1
  <2> QED BY <2>2 DEF Shared!Forget
<1> QED BY <1>8, <1>9

\* What a step does to the log and the monitors as long as nothing fails.
LEMMA WhatMoves ==
  ASSUME Inv, Next, Canonical'
  PROVE  /\ Canonical
         /\ \/ log' = log /\ \A q \in Replica : mon'[q].evidence = mon[q].evidence
            \/ mon' = mon /\ \E e \in Record : log' = Append(log, e)
            \/ log' = log /\ \E r \in Replica : \E m :
                 Knows(r, m) /\ (m.offset = 0 \/ m.offset >= mon[r].offset)
<1> DEFINE Same == log' = log /\ \A q \in Replica : mon'[q].evidence = mon[q].evidence
           Moved == log' = log /\ \E r \in Replica : \E m :
                      Knows(r, m) /\ (m.offset = 0 \/ m.offset >= mon[r].offset)
<1>1. /\ setup.replicas \subseteq Replica /\ Types /\ mon \in [Replica -> Monitor]
      /\ faults \in Nat /\ restarts \in Nat
  BY SetupTyped DEF Inv, Types
<1>2. ~Fault
  BY <1>1, Failed
<1>3. NoFault => Canonical
  BY DEF NoFault, counters, Canonical
<1>4. log' = log /\ mon' = mon => Same
  OBVIOUS
<1>5. ASSUME NEW r \in Replica, Knows(r, Noticed(mon[r])), log' = log
      PROVE  Same
  <2>1. mon[r] \in Monitor
    BY <1>1
  <2>2. Noticed(mon[r]) \in Monitor /\ Noticed(mon[r]).evidence = mon[r].evidence
    BY <2>1, NoticedWell
  <2> HIDE DEF Same
  <2>3. mon'[r] = Noticed(mon[r]) /\ \A q \in Replica : q # r => mon'[q] = mon[q]
    BY <1>1, <1>5, <2>2, Learnt
  <2> QED BY <1>5, <2>2, <2>3 DEF Same
<1>6. ASSUME NEW r \in Replica, NEW upto \in Nat, Knows(r, Synced(mon[r], upto, Me(r))), log' = log
      PROVE  Moved
  <2>1. mon[r].offset \in Nat
    BY <1>1 DEF Monitor
  <2>2. Synced(mon[r], upto, Me(r)).offset >= mon[r].offset
    BY <2>1 DEF Synced
  <2> QED BY <1>6, <2>2
<1>7. \A j \in Job : job[j].pc \notin {"absent", "done"} => job[j].at \in Replica
  BY DEF Inv, JobInv, JobOk
<1>8. \A j \in Job : job[j].upto \in Nat
  BY DEF Inv, Types, Work
<1> HIDE DEF Same, Moved
<1>9. CASE \E s \in Subject, r \in setup.replicas :
             ServeIncumbent(s, r) \/ \E j \in Job : AskChallenger(j, s, r)
  BY <1>1, <1>3, <1>5, <1>9 DEF ServeIncumbent, AskChallenger, Same
<1>10. CASE \E j \in Job, s \in Subject, x \in 0..1 : Report(j, s, x)
  BY <1>3, <1>4, <1>10 DEF Report, Same
<1>11. CASE \E j \in Job, r \in setup.replicas : Spawn(j, r)
  BY <1>1, <1>3, <1>5, <1>11 DEF Spawn, stores, Same
<1>12. ASSUME NEW j \in Job, Works(j) \/ EnsureFails(j)
       PROVE  Canonical /\ \/ Same \/ Moved
                           \/ mon' = mon /\ \E e \in Record : log' = Append(log, e)
  <2>1. CASE EnsureFresh(j) \/ EnsureRead(j) \/ WriteInLogRow(j) \/ WriteRow(j)
    BY <1>2, <1>3, <1>4, <2>1 DEF EnsureFresh, EnsureRead, WriteInLogRow, WriteRow, stores
  <2>2. CASE EnsureSynced(j)
    BY <1>3, <1>6, <1>7, <1>8, <2>2 DEF EnsureSynced
  <2>3. CASE RunPaired(j)
    <3>1. /\ mon' = [mon EXCEPT ![job[j].at].debited[j] = @ + 1] /\ log' = log /\ NoFault
          /\ job[j].at \in Replica
      BY <1>7, <2>3 DEF RunPaired, stores
    <3>2. \A q \in Replica : mon'[q].evidence = mon[q].evidence
      BY <1>1, <3>1 DEF Monitor
    <3> QED BY <1>3, <3>1, <3>2 DEF Same
  <2>4. CASE Claim(j)
    BY <1>2, <1>3, <1>4, <2>4 DEF Claim
  <2>5. CASE AppendRecord(j)
    <3>1. job[j].pc = "append" /\ log' = Append(log, job[j].item) /\ NoFault /\ mon' = mon
      BY <1>2, <2>5 DEF AppendRecord
    <3>2. "append" \in Late
      BY DEF Late
    <3>3. job[j].item \in Record
      BY <3>1, <3>2 DEF Inv, JobInv, JobOk
    <3> QED BY <1>3, <3>1, <3>3
  <2>6. CASE ReadBack(j)
    BY <1>2, <1>3, <1>4, <2>6 DEF ReadBack, stores
  <2>7. CASE ApplyRead(j)
    BY <1>3, <1>6, <1>7, <1>8, <2>7 DEF ApplyRead, stores
  <2>8. CASE Count(j)
    <3>1. job[j].pc = "count" /\ NoFault
      BY <2>8 DEF Count
    <3> QED BY <1>3, <3>1 DEF Inv, CanonInv
  <2>9. ~EnsureFails(j)
    BY <1>2 DEF EnsureFails
  <2> QED BY <1>12, <2>1, <2>2, <2>3, <2>4, <2>5, <2>6, <2>7, <2>8, <2>9 DEF Works
<1>13. CASE \E r \in setup.replicas : SyncRead(r)
  BY <1>3, <1>4, <1>13 DEF SyncRead, stores, Same
<1>14. CASE \E r \in setup.replicas : SyncApply(r)
  <2>1. PICK r \in Replica : SyncApply(r)
    BY <1>1, <1>14
  <2>2. reading[r] \in Nat
    BY <2>1 DEF SyncApply, Inv, Types
  <2> QED BY <1>3, <1>6, <2>1, <2>2 DEF SyncApply, stores, Moved
<1>15. CASE \E r \in setup.replicas : Restart(r)
  <2>1. PICK r \in Replica : Restart(r)
    BY <1>1, <1>15
  <2>2. /\ log' = log /\ restarts' = restarts + 1 /\ setup' = setup
        /\ faults' = faults \/ faults' = faults + 1
    BY <2>1 DEF Restart, stores
  <2>3. PICK m : Knows(r, m) /\ m.offset = 0
    <3>1. PICK whole \in BOOLEAN, seeded \in IF setup.paired THEN BOOLEAN ELSE {TRUE} :
            Knows(r, Rebuilt(r, whole, seeded))
      BY <2>1 DEF Restart
    <3>2. seeded \in BOOLEAN /\ table[r] \in Tables
      BY <2>1 DEF Inv, Types
    <3>3. Rebuilt(r, whole, seeded).offset = 0
      BY <3>2, RebuiltWell
    <3> QED BY <3>1, <3>3
  <2>4. Canonical
    BY <1>1, <2>2 DEF Canonical
  <2> QED BY <2>2, <2>3, <2>4 DEF Moved
<1> QED BY <1>9, <1>10, <1>11, <1>12, <1>13, <1>14, <1>15 DEF Next, Same, Moved

\* "All replicas holding the same log reach the same halt/certify decision": as long as
\* nothing fails a replica only moves along the log that all share (sync_from_backend).
THEOREM ReplicasShareOneLog == Spec => AgreesWithLog
<1>1. Inv /\ Inv' /\ [Next]_vars => [Canonical' => [Shared!Next]_(Shared!vars)]_vars
  <2> SUFFICES ASSUME Inv, Inv', Next, Canonical'
               PROVE  [Shared!Next]_(Shared!vars)
    OBVIOUS
  <2>0. Canonical
    BY WhatMoves
  <2>1. CASE log' = log /\ \A q \in Replica : mon'[q].evidence = mon[q].evidence
    BY <2>1 DEF Shared!vars, Held
  <2>2. CASE mon' = mon /\ \E e \in Record : log' = Append(log, e)
    <3>1. Shared!Report
      BY <2>2 DEF Shared!Report, Held
    <3> QED BY <3>1 DEF Shared!Next
  <2>3. CASE log' = log /\ \E r \in Replica : \E m :
               Knows(r, m) /\ (m.offset = 0 \/ m.offset >= mon[r].offset)
    <3>1. PICK r \in Replica : \E m : Knows(r, m) /\ (m.offset = 0 \/ m.offset >= mon[r].offset)
      BY <2>3
    <3>2. Shared!CatchUp(r) \/ Shared!Forget(r)
      BY <2>0, <2>3, <3>1, ViewMoves
    <3> QED BY <3>2 DEF Shared!Next
  <2> QED BY <2>1, <2>2, <2>3, WhatMoves
<1> QED BY <1>1, Invariant, PTL DEF Spec, AgreesWithLog

\* Jobs that do not get a challenger going.
LEMMA NoneEngages ==
  ASSUME Inv,
         \A k \in Job : \/ job'[k] = job[k]
                        \/ job'[k].pc # "run" /\ (job[k].asks = 0 \/ served' = served)
                        \/ job'[k].pc \notin {"run", "done"}
  PROVE  \A j \in Job : ~Engages(j)
<1> SUFFICES ASSUME NEW j \in Job, Engages(j)
             PROVE  FALSE
  OBVIOUS
<1>1. job'[j] # job[j]
  BY DEF Engages, Inv, AsksInv
<1>2. /\ job'[j].pc = "done" /\ job[j].asks # 0 /\ served' = served
      /\ served[job[j].asks].arm = "challenger"
  BY <1>1 DEF Engages
<1>3. served[job[j].asks].arm = "asked"
  BY <1>2 DEF Inv, AsksInv
<1> QED BY <1>2, <1>3

\* The one that does has the challenger's arm open by what it knows.
LEMMA EngagesUnblocked ==
  ASSUME Inv, NEW j \in Job, NEW m, Proceeds(j, m), job[j].pc \in {"ensure", "ensuring"},
         Engages(j)
  PROVE  ~Blocked(m)
<1> SUFFICES ASSUME Blocked(m)
             PROVE  FALSE
  OBVIOUS
<1>1. /\ "run" \in Early \cup Late \cup {"done"} /\ "done" \in Early \cup Late \cup {"done"}
      /\ job \in [Job -> Work]
  BY DEF Early, Inv, Types
<1>2. Goes(j, "done")
  BY DEF Proceeds
<1>3. job'[j].pc = "done"
  BY <1>1, <1>2, Went
<1>4. /\ job[j].asks # 0 /\ served'[job[j].asks].arm = "challenger"
      /\ ~setup.paired /\ job[j].asks \in Subject
  BY <1>3 DEF Engages, Inv, AsksInv
<1>5. served' = [served EXCEPT ![job[j].asks] =
                   [at |-> job[j].at, arm |-> IF Blocked(m) THEN "incumbent" ELSE "challenger"]]
  BY <1>4 DEF Proceeds
<1>6. served'[job[j].asks].arm = "incumbent"
  BY <1>4, <1>5 DEF Inv, Types
<1> QED BY <1>4, <1>6

LEMMA LateNotes ==
  ASSUME Inv, NEW j \in Job, job[j].pc \in Late, NEW pc \in Late \cup {"done"}, Goes(j, pc)
  PROVE  \A k \in Job : ~Engages(k)
<1>1. /\ \A k \in Job : k # j => job'[k] = job[k]
      /\ job'[j].pc = pc
  BY LateGoes
<1>2. pc # "run" /\ job[j].asks = 0
  BY Owed DEF Late
<1> QED BY <1>1, <1>2, NoneEngages

\* Only an answer of ensure_synced gets a challenger going.
LEMMA WhoEngages ==
  ASSUME Inv, Next, NEW j \in Job, Engages(j)
  PROVE  EnsureFresh(j) \/ EnsureSynced(j)
<1>1. job \in [Job -> Work] /\ \A k \in Job : job[k].pc \in Late => job[k].asks = 0
  BY Owed DEF Inv, Types
<1>2. /\ {"claim", "append", "read", "synced", "cache", "row", "count"} = Late
      /\ "run" \notin Late
  BY DEF Late
<1>3. ASSUME NEW k \in Job, NEW w, w.pc \notin {"run", "done"}, job' = [job EXCEPT ![k] = w]
      PROVE  FALSE
  <2>1. job'[k] = w /\ \A i \in Job : i # k => job'[i] = job[i]
    BY <1>1, <1>3
  <2> QED BY <1>3, <2>1, NoneEngages
<1>4. ~(job' = job)
  BY NoneEngages
<1>5. ~\E s \in Subject, r \in setup.replicas :
         ServeIncumbent(s, r) \/ \E k \in Job : AskChallenger(k, s, r)
  <2>1. ASSUME NEW s \in Subject, NEW r \in setup.replicas, NEW k \in Job, AskChallenger(k, s, r)
        PROVE  FALSE
    <3>1. /\ job' = [job EXCEPT ![k] = [Absent EXCEPT !.pc = "ensure", !.at = r, !.asks = s]]
          /\ [Absent EXCEPT !.pc = "ensure", !.at = r, !.asks = s].pc = "ensure"
      BY <2>1 DEF AskChallenger, Absent
    <3> QED BY <1>3, <3>1
  <2> QED BY <1>4, <2>1 DEF ServeIncumbent
<1>6. ~\E k \in Job, s \in Subject, x \in 0..1 : Report(k, s, x)
  <2> SUFFICES ASSUME NEW k \in Job, NEW s \in Subject, NEW x \in 0..1, Report(k, s, x)
               PROVE  FALSE
    OBVIOUS
  <2> DEFINE e == Item(s, served[s].arm, x, served[s].at)
             w == [Absent EXCEPT !.pc = IF setup.logged THEN "claim" ELSE "count",
                                 !.at = served[s].at, !.item = e]
  <2>1. job' = [job EXCEPT ![k] = w]
    BY DEF Report
  <2>2. w.pc \notin {"run", "done"}
    BY DEF Absent
  <2> HIDE DEF w
  <2> QED BY <1>3, <2>1, <2>2
<1>7. ~\E k \in Job, r \in setup.replicas : Spawn(k, r)
  <2> SUFFICES ASSUME NEW k \in Job, NEW r \in setup.replicas, Spawn(k, r)
               PROVE  FALSE
    OBVIOUS
  <2>1. CASE Blocked(mon[r])
    <3>1. /\ job' = [job EXCEPT ![k] = Done] /\ job[k].pc = "absent" /\ served' = served
          /\ Done.pc = "done"
      BY <2>1 DEF Spawn, Next1, stores, Done, Absent
    <3>2. \A i \in Job : job'[i] = job[i] \/ (job'[i].pc # "run" /\ served' = served)
      BY <1>1, <3>1
    <3> QED BY <3>2, NoneEngages
  <2>2. CASE ~Blocked(mon[r])
    <3>1. /\ job' = [job EXCEPT ![k] = [Absent EXCEPT !.pc = "ensure", !.at = r]]
          /\ [Absent EXCEPT !.pc = "ensure", !.at = r].pc = "ensure"
      BY <2>2 DEF Spawn, Absent
    <3> QED BY <1>3, <3>1
  <2> QED BY <2>1, <2>2
<1>8. ASSUME NEW k \in Job, Works(k) \/ EnsureFails(k)
      PROVE  EnsureFresh(j) \/ EnsureSynced(j)
  <2>1. ASSUME NEW m, Proceeds(k, m)
        PROVE  k = j
    <3>1. PICK pc \in {"run", "done"} : Goes(k, pc)
      BY <2>1 DEF Proceeds
    <3>2. pc \in Early \cup Late \cup {"done"}
      BY DEF Early
    <3>3. \A i \in Job : i # k => job'[i] = job[i]
      BY <1>1, <3>1, <3>2, Went
    <3>4. k # j => job'[j] = job[j]
      BY <3>3
    <3> QED BY <3>4 DEF Engages, Inv, AsksInv
  <2>2. CASE EnsureFresh(k)
    BY <2>1, <2>2 DEF EnsureFresh
  <2>3. CASE EnsureSynced(k)
    BY <2>1, <2>3 DEF EnsureSynced
  <2>4. ~EnsureFails(k)
    <3> SUFFICES ASSUME EnsureFails(k)
                 PROVE  FALSE
      OBVIOUS
    <3>1. /\ Goes(k, "done") /\ "done" \in Early \cup Late \cup {"done"}
          /\ served' = IF setup.paired THEN served
                       ELSE [served EXCEPT ![job[k].asks] = [at |-> job[k].at, arm |-> "incumbent"]]
      BY DEF EnsureFails
    <3>2. job'[k].pc = "done" /\ \A i \in Job : i # k => job'[i] = job[i]
      BY <1>1, <3>1, Went
    <3>3. j = k /\ job[j].asks # 0 /\ served'[job[j].asks].arm = "challenger"
      BY <3>2 DEF Engages, Inv, AsksInv
    <3>4. ~setup.paired /\ job[j].asks \in Subject
      BY <3>3 DEF Inv, AsksInv
    <3>5. served' = [served EXCEPT ![job[j].asks] = [at |-> job[j].at, arm |-> "incumbent"]]
      BY <3>1, <3>3, <3>4
    <3>6. served'[job[j].asks].arm = "incumbent"
      BY <3>4, <3>5 DEF Inv, Types
    <3> QED BY <3>3, <3>6
  <2>5. ~EnsureRead(k)
    <3> SUFFICES ASSUME EnsureRead(k)
                 PROVE  FALSE
      OBVIOUS
    <3>1. job' = [job EXCEPT ![k] = [job[k] EXCEPT !.pc = "ensuring", !.upto = Len(log)]]
      BY DEF EnsureRead
    <3>2. [job[k] EXCEPT !.pc = "ensuring", !.upto = Len(log)].pc = "ensuring"
      BY <1>1 DEF Work
    <3> QED BY <1>3, <3>1, <3>2
  <2>6. ~RunPaired(k)
    <3> SUFFICES ASSUME RunPaired(k)
                 PROVE  FALSE
      OBVIOUS
    <3>1. PICK pc \in {"append", "row"}, x \in -1..1 :
            job' = [job EXCEPT ![k] = [job[k] EXCEPT !.pc = pc,
                                                     !.item = Item(k, "pair", x, job[k].at)]]
      <4>1. PICK x \in -1..1 :
              job' = [job EXCEPT ![k].pc = IF setup.logged THEN "append" ELSE "row",
                                 ![k].item = Item(k, "pair", x, job[k].at)]
        BY DEF RunPaired
      <4>2. CASE setup.logged
        BY <4>1, <4>2
      <4>3. CASE ~setup.logged
        BY <4>1, <4>3
      <4> QED BY <4>2, <4>3
    <3>2. [job[k] EXCEPT !.pc = pc, !.item = Item(k, "pair", x, job[k].at)].pc = pc
      BY <1>1 DEF Work
    <3> QED BY <1>3, <3>1, <3>2
  <2>7. ~Claim(k)
    BY <1>2, LateNotes DEF Claim
  <2>8. ~AppendRecord(k)
    BY <1>2, LateNotes DEF AppendRecord
  <2>9. ~ReadBack(k)
    <3> SUFFICES ASSUME ReadBack(k)
                 PROVE  FALSE
      OBVIOUS
    <3>1. CASE job' = [job EXCEPT ![k] = [job[k] EXCEPT !.pc = "synced", !.upto = Len(log)]]
      <4>1. [job[k] EXCEPT !.pc = "synced", !.upto = Len(log)].pc = "synced"
        BY <1>1 DEF Work
      <4> QED BY <1>3, <3>1, <4>1
    <3>2. CASE Goes(k, "cache") \/ Goes(k, "done")
      BY <1>2, <3>2, LateNotes DEF ReadBack
    <3> QED BY <3>1, <3>2 DEF ReadBack
  <2>10. ~ApplyRead(k)
    BY <1>2, LateNotes DEF ApplyRead
  <2>11. ~WriteInLogRow(k) /\ ~WriteRow(k)
    BY <1>2, LateNotes DEF WriteInLogRow, WriteRow
  <2>12. ~Count(k)
    BY <1>2, LateNotes DEF Count
  <2> QED BY <1>8, <2>2, <2>3, <2>4, <2>5, <2>6, <2>7, <2>8, <2>9, <2>10, <2>11, <2>12 DEF Works
<1>9. ~\E r \in setup.replicas : SyncRead(r) \/ SyncApply(r)
  BY <1>4 DEF SyncRead, SyncApply
<1>10. ~\E r \in setup.replicas : Restart(r)
  <2>1. ASSUME NEW r \in setup.replicas, Restart(r)
        PROVE  FALSE
    <3>1. /\ \A k \in Job : job'[k] = job[k] \/ job'[k] = Done
          /\ served' = served /\ Done.pc = "done"
      BY <2>1 DEF Restart, stores, Done, Absent
    <3>2. \A k \in Job : job'[k] = job[k] \/ (job'[k].pc # "run" /\ served' = served)
      BY <3>1
    <3> QED BY <3>2, NoneEngages
  <2> QED BY <2>1
<1> QED BY <1>5, <1>6, <1>7, <1>8, <1>9, <1>10 DEF Next

\* A replica does not use the challenger when what it has read of the log halts it, as
\* long as nothing fails (ensure_synced comes before the arm is served and before a
\* challenger is spawned), nor ever when it could not read its own history (unavailable).
THEOREM HaltStops == Spec => HaltHolds
<1>1. ASSUME Inv, Inv', Next, NEW j \in Job, Engages(j)
      PROVE  /\ ~mon'[job[j].at].blind
             /\ Canonical' => Status(SubSeq(log, 1, mon'[job[j].at].offset)) # "halted"
  <2> DEFINE r == job[j].at
  <2>1. EnsureFresh(j) \/ EnsureSynced(j)
    BY <1>1, WhoEngages
  <2>2. /\ job[j].pc \in {"ensure", "ensuring"} /\ log' = log
    BY <2>1 DEF EnsureFresh, EnsureSynced
  <2>3. r \in Replica /\ mon \in [Replica -> Monitor]
    BY <1>1, <2>2 DEF Inv, JobInv, JobOk, Types
  <2>4. Proceeds(j, mon'[r])
    BY <2>1, <2>3 DEF EnsureFresh, EnsureSynced, Knows
  <2>5. ~Blocked(mon'[r])
    BY <1>1, <2>2, <2>4, EngagesUnblocked
  <2>6. Canonical' => mon'[r].evidence = SubSeq(log, 1, mon'[r].offset)
    BY <1>1, <2>2, <2>3 DEF Inv, CanonInv, Held
  <2> QED BY <2>5, <2>6 DEF Blocked
<1>2. Inv /\ Inv' /\ [Next]_vars =>
        [\A j \in Job : /\ Canonical' => SeesTheHalt(j)
                        /\ Engages(j) => ~mon'[job[j].at].blind]_vars
  BY <1>1 DEF SeesTheHalt
<1> QED BY <1>2, Invariant, PTL DEF Spec, HaltHolds

===============================================================================
