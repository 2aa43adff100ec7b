---------------------------- MODULE CanonicalLog ----------------------------
(***************************************************************************)
(* What a shared experiment log promises (experiment.rs): one order of the *)
(* evidence for everybody.  A replica holds some beginning of it, and only *)
(* ever learns what comes next, so two that hold as much agree.            *)
(***************************************************************************)
EXTENDS Naturals, Sequences

CONSTANTS
  Replica,
  Record

VARIABLES
  log,   \* the evidence, in the order all replicas count it
  view   \* what each replica has counted

vars == <<log, view>>

Init == log = <<>> /\ view = [r \in Replica |-> <<>>]

Report == \E e \in Record : log' = Append(log, e) /\ UNCHANGED view

CatchUp(r) ==
  /\ \E n \in Len(view[r])..Len(log) : view' = [view EXCEPT ![r] = SubSeq(log, 1, n)]
  /\ UNCHANGED log

\* A replica that starts again has still to read the log.
Forget(r) == view' = [view EXCEPT ![r] = <<>>] /\ UNCHANGED log

Next == Report \/ \E r \in Replica : CatchUp(r) \/ Forget(r)

Spec == Init /\ [][Next]_vars
=============================================================================
