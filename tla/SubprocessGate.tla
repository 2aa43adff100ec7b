--------------------------- MODULE SubprocessGate ---------------------------
(***************************************************************************)
(* One evaluation of a subprocess gate (subprocess.rs): the proxy writes   *)
(* the candidate to a child's stdin, collects its output under a timeout   *)
(* and reads a verdict.  Bytes are counted in units of which a pipe holds  *)
(* PipeCap.  Pipes, the child and the clock are the operating system's.    *)
(***************************************************************************)
EXTENDS Naturals, Sequences

CONSTANTS
  PipeCap,    \* units a pipe holds
  Payloads,   \* sizes of what goes to stdin
  Children    \* what a gate program may do

\* A child drains its stdin to the end, writes a unit or stalls, step by step; then
\* it exits, with success or not, having said a verdict or something else.  An
\* error text may have a character across the byte the proxy cuts it at.
Child == [does : Seq({"drain", "write", "stall"}), success : BOOLEAN,
          says : {"pass", "fail", "abstain", "garbage"}, cut : BOOLEAN]

ASSUME PipeAssumption == PipeCap \in Nat \ {0} /\ Payloads \subseteq Nat
ASSUME ChildAssumption == Children \subseteq Child

VARIABLES
  pc,       \* "spawn", "writing", "waiting"; "answered", "panicked", "dropped" at the end
  result,   \* the GateResult
  left,     \* units still to be written
  stdin,    \* units in the child's stdin pipe
  open,     \* the proxy still holds the pipe's other end
  output,   \* units in the child's stdout and stderr pipes
  child,    \* the program and what it has yet to do
  state,    \* of the child: "none", "running", "exited", "killed"
  taken,    \* units the child has read
  payload   \* units to be written in all

pipes == <<left, stdin, open, output, taken>>
vars == <<pc, result, pipes, child, state, payload>>

Abstains(reason) == [verdict |-> "abstain", reason |-> reason]
Ended == pc \in {"answered", "panicked", "dropped"}
Running == state = "running"

Init ==
  /\ pc = "spawn" /\ result = [verdict |-> "none", reason |-> "none"]
  /\ payload \in Payloads /\ left = payload /\ stdin = 0 /\ open = TRUE
  /\ output = 0 /\ taken = 0 /\ child \in Children /\ state = "none"

-------------------------------------------------------------------------------
(* The proxy.                                                              *)

Spawn ==
  /\ pc = "spawn" /\ pc' = "writing" /\ state' = "running"
  /\ UNCHANGED <<result, pipes, child, payload>>
SpawnFails ==
  /\ pc = "spawn" /\ pc' = "answered" /\ result' = Abstains("gate_crash")
  /\ UNCHANGED <<pipes, child, state, payload>>

\* write_all waits for room; the timeout is not yet armed.
\* Mutant: a full pipe ends the write.
WriteOnce ==
  /\ pc = "writing" /\ Running /\ left > 0
  /\ IF stdin < PipeCap THEN stdin' = stdin + 1 /\ left' = left - 1
                        ELSE left' = 0 /\ UNCHANGED stdin
  /\ UNCHANGED <<pc, result, open, output, taken, child, state, payload>>
Write ==
  /\ pc = "writing" /\ Running /\ left > 0 /\ stdin < PipeCap
  /\ stdin' = stdin + 1 /\ left' = left - 1
  /\ UNCHANGED <<pc, result, open, output, taken, child, state, payload>>

\* All is written, or the child is gone (the error is ignored): stdin is closed,
\* and wait_with_output runs under the timeout.
Close ==
  /\ pc = "writing" /\ (left = 0 \/ ~Running)
  /\ open' = FALSE /\ pc' = "waiting"
  /\ UNCHANGED <<result, left, stdin, output, taken, child, state, payload>>

Collect ==
  /\ pc = "waiting" /\ output > 0
  /\ output' = output - 1
  /\ UNCHANGED <<pc, result, left, stdin, open, taken, child, state, payload>>

\* parse_output: only a known verdict is one.
Parsed == IF child.says = "garbage" THEN Abstains("gate_crash")
          ELSE [verdict |-> child.says, reason |-> "none"]
\* Mutant: what was printed counts, whatever the exit status.
FinishOnOutput ==
  /\ pc = "waiting" /\ state = "exited" /\ output = 0
  /\ result' = Parsed /\ pc' = "answered"
  /\ UNCHANGED <<pipes, child, state, payload>>
Finish ==
  /\ pc = "waiting" /\ state = "exited" /\ output = 0
  /\ IF ~child.success /\ child.cut
     THEN pc' = "panicked" /\ UNCHANGED result   \* &s[..200] inside a character
     ELSE /\ pc' = "answered"
          /\ result' = IF child.success THEN Parsed ELSE Abstains("gate_crash")
  /\ UNCHANGED <<pipes, child, state, payload>>

\* kill_on_drop.
Killed == IF Running THEN "killed" ELSE state
\* Mutants: a child outlives the evaluation; the timeout is not enforced.
TimeoutLeavesChild ==
  /\ pc = "waiting"
  /\ result' = Abstains("timeout") /\ pc' = "answered"
  /\ UNCHANGED <<pipes, child, state, payload>>
TimeoutOnExit ==
  /\ pc = "waiting" /\ ~Running
  /\ result' = Abstains("timeout") /\ pc' = "answered"
  /\ UNCHANGED <<pipes, child, state, payload>>
Timeout ==
  /\ pc = "waiting"
  /\ result' = Abstains("timeout") /\ pc' = "answered" /\ state' = Killed
  /\ UNCHANGED <<pipes, child, payload>>

\* The client of a buffered request goes away: the request is dropped where it waits.
Dropped ==
  /\ pc \in {"writing", "waiting"}
  /\ pc' = "dropped" /\ state' = Killed
  /\ UNCHANGED <<result, pipes, child, payload>>

-------------------------------------------------------------------------------
(* The child.                                                              *)

Next1 == Head(child.does)
Onwards == child' = [child EXCEPT !.does = Tail(@)]

ChildReads ==
  /\ Running /\ child.does # <<>> /\ Next1 = "drain" /\ stdin > 0
  /\ stdin' = stdin - 1 /\ taken' = taken + 1
  /\ UNCHANGED <<pc, result, left, open, output, child, state, payload>>
ChildSeesEnd ==
  /\ Running /\ child.does # <<>> /\ Next1 = "drain" /\ stdin = 0 /\ ~open
  /\ Onwards
  /\ UNCHANGED <<pc, result, pipes, state, payload>>
ChildWrites ==
  /\ Running /\ child.does # <<>> /\ Next1 = "write" /\ output < PipeCap
  /\ Onwards /\ output' = output + 1
  /\ UNCHANGED <<pc, result, left, stdin, open, taken, state, payload>>
ChildExits ==
  /\ Running /\ child.does = <<>>
  /\ state' = "exited"
  /\ UNCHANGED <<pc, result, pipes, child, payload>>

-------------------------------------------------------------------------------
Proxy == Spawn \/ SpawnFails \/ Write \/ Close \/ Collect \/ Finish
Program == ChildReads \/ ChildSeesEnd \/ ChildWrites \/ ChildExits
Over == Ended /\ ~Running /\ UNCHANGED vars
Next == Proxy \/ Timeout \/ Dropped \/ Program \/ Over

Spec == Init /\ [][Next]_vars

\* The task is polled, the clock runs, a program goes on unless it stalls.  A
\* client need never go away.
FairSpec == Spec /\ WF_vars(Proxy) /\ WF_vars(Timeout) /\ WF_vars(Program)

-------------------------------------------------------------------------------
(* Properties.                                                             *)

\* A pass or a fail is the word of a child that ended by itself, successfully, and
\* said so: a crash, a timeout or garbage abstains (the module's contract).
VerdictIsTheChilds ==
  result.verdict \in {"pass", "fail"} =>
    state = "exited" /\ child.success /\ child.says = result.verdict

\* A child that read its input to the end read all of it: it judged the candidate,
\* not a part of it (write_all, whatever the pipe holds).
JudgesTheWholeCandidate ==
  [][Running /\ ChildSeesEnd => taken = payload]_vars

\* However the evaluation ends, no child is left behind it (kill_on_drop).
NoChildLeft == Ended => ~Running

Heeds(c) == c.does # <<>> /\ Head(c.does) = "drain"

\* The evaluation ends when the input fits the pipe, or the child takes it all
\* before anything else: the timeout ends what stalls or floods after that.
EndsIfHeeded ==
  (payload <= PipeCap \/ Heeds(child)) ~> Ended

\* "timeout -> the child is killed -> abstain" (subprocess.rs:10): every evaluation
\* ends.
AlwaysEnds == <>Ended
===============================================================================
