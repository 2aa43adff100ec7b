------------------------- MODULE SubprocessGateProofs -------------------------
(***************************************************************************)
(* Proofs about SubprocessGate, for any pipe capacity, any payloads and    *)
(* any programs: whose word a verdict is, what the program had read of the *)
(* candidate, and what is left behind.                                     *)
(***************************************************************************)
EXTENDS SubprocessGate, TLAPS

Types ==
  /\ pc \in {"spawn", "writing", "waiting", "answered", "panicked", "dropped"}
  /\ state \in {"none", "running", "exited", "killed"}
  /\ open \in BOOLEAN /\ child \in Child
  /\ left \in Nat /\ stdin \in Nat /\ taken \in Nat /\ payload \in Nat /\ output \in Nat

\* Nothing of the candidate is lost on its way: what was to be written is still
\* here, in the pipe, or read.
NothingLost == taken + stdin + left = payload

\* Stdin is closed only on all of it, or on a child that is gone.
ClosedOnAll == open \/ left = 0 \/ ~Running

\* A verdict is final, and of a child that ended by itself.
VerdictIsFinal ==
  result.verdict \in {"pass", "fail"} =>
    /\ pc = "answered" /\ state = "exited"
    /\ child.success /\ child.says = result.verdict

GateInv ==
  /\ Types
  /\ NothingLost
  /\ ClosedOnAll
  /\ VerdictIsFinal
  /\ NoChildLeft
  /\ pc = "spawn" => state = "none" /\ open
  /\ pc = "writing" => open

-------------------------------------------------------------------------------
LEMMA InitGate == Init => GateInv
<1> SUFFICES ASSUME Init PROVE GateInv
  OBVIOUS
<1>1. Types
  BY PipeAssumption, ChildAssumption DEF Init, Types
<1>2. NothingLost
  BY <1>1 DEF Init, Types, NothingLost
<1> QED BY <1>1, <1>2 DEF Init, GateInv, ClosedOnAll, VerdictIsFinal, NoChildLeft, Ended, Running

\* A step of the program moves it on and changes nothing of what it will say.
LEMMA OnwardsKeepsWord ==
  ASSUME child \in Child, child.does # <<>>, Onwards
  PROVE  child' \in Child /\ child'.success = child.success /\ child'.says = child.says
<1>1. Tail(child.does) \in Seq({"drain", "write", "stall"})
  BY DEF Child
<1>2. child' = [does |-> Tail(child.does), success |-> child.success, says |-> child.says,
                cut |-> child.cut]
  BY DEF Onwards, Child
<1> QED BY <1>1, <1>2 DEF Child

LEMMA NextGate == GateInv /\ [Next]_vars => GateInv'
<1> SUFFICES ASSUME GateInv, [Next]_vars PROVE GateInv'
  OBVIOUS
<1> USE DEF GateInv, Types, NothingLost, ClosedOnAll, VerdictIsFinal, NoChildLeft, Ended, Running,
            pipes
<1>1. CASE Spawn
  BY <1>1 DEF Spawn
<1>2. CASE SpawnFails
  BY <1>2 DEF SpawnFails, Abstains
<1>3. CASE Write
  BY <1>3 DEF Write
<1>4. CASE Close
  BY <1>4 DEF Close
<1>5. CASE Collect
  BY <1>5 DEF Collect
<1>6. CASE Finish
  \* parse_output reads a verdict only of a child that succeeded.
  <2>1. child.success /\ Parsed.verdict \in {"pass", "fail"} => child.says = Parsed.verdict
    BY DEF Parsed, Abstains
  <2>2. result'.verdict \in {"pass", "fail"} =>
          pc' = "answered" /\ child.success /\ child.says = result'.verdict
    BY <1>6, <2>1 DEF Finish, Abstains
  <2>3. /\ pc' \in {"answered", "panicked"} /\ state = "exited"
        /\ UNCHANGED <<left, stdin, open, output, taken, child, state, payload>>
    BY <1>6 DEF Finish
  <2> HIDE DEF VerdictIsFinal
  <2>4. VerdictIsFinal'
    BY <2>2, <2>3 DEF VerdictIsFinal
  <2> QED BY <2>3, <2>4
<1>7. CASE Timeout
  BY <1>7 DEF Timeout, Killed, Abstains
<1>8. CASE Dropped
  BY <1>8 DEF Dropped, Killed
<1>9. CASE ChildReads
  BY <1>9 DEF ChildReads
<1>10. CASE ChildSeesEnd
  BY <1>10, OnwardsKeepsWord DEF ChildSeesEnd
<1>11. CASE ChildWrites
  BY <1>11, OnwardsKeepsWord DEF ChildWrites
<1>12. CASE ChildExits
  BY <1>12 DEF ChildExits
<1>13. CASE UNCHANGED vars
  BY <1>13 DEF vars
<1> QED BY <1>1, <1>2, <1>3, <1>4, <1>5, <1>6, <1>7, <1>8, <1>9, <1>10, <1>11, <1>12, <1>13
        DEF Next, Proxy, Program, Over

LEMMA GateInvariant == Spec => []GateInv
BY InitGate, NextGate, PTL DEF Spec

-------------------------------------------------------------------------------
\* A pass or a fail is the word of a child that ended by itself, successfully, whatever
\* raced its exit: the timeout, the end of its output, a client that left.
THEOREM VerdictAlwaysTheChilds == Spec => []VerdictIsTheChilds
<1>1. GateInv => VerdictIsTheChilds
  BY DEF GateInv, VerdictIsFinal, VerdictIsTheChilds
<1> QED BY <1>1, GateInvariant, PTL

\* No way to end an evaluation leaves a child running (kill_on_drop).
THEOREM NoChildEverLeft == Spec => []NoChildLeft
BY GateInvariant, PTL DEF GateInv

\* A program that sees the end of its input has read the whole candidate, however
\* small the pipe (write_all before the close).
THEOREM AlwaysJudgesTheWhole == Spec => JudgesTheWholeCandidate
<1>1. GateInv /\ [Next]_vars => [Running /\ ChildSeesEnd => taken = payload]_vars
  BY DEF GateInv, Types, NothingLost, ClosedOnAll, ChildSeesEnd, Running
<1> QED BY <1>1, GateInvariant, PTL DEF Spec, JudgesTheWholeCandidate
===============================================================================
