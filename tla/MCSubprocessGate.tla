-------------------------- MODULE MCSubprocessGate --------------------------
(* Instances of SubprocessGate for TLC. *)
EXTENDS SubprocessGate

Does(steps, success, says, cut) ==
  [does |-> steps, success |-> success, says |-> says, cut |-> cut]

\* Programs that read their input or ignore it, write little or more than a pipe
\* holds, before or after reading, stall, fail, or say nothing of use.
Programs ==
  {Does(steps, success, says, FALSE) :
     steps \in {<<"drain", "write">>, <<"write">>, <<"write", "write", "write", "drain">>,
                <<"stall">>, <<"drain", "write", "write", "write">>, <<"write", "stall">>},
     success \in BOOLEAN, says \in {"pass", "fail", "garbage"}}
  \cup {Does(<<"write">>, FALSE, "garbage", TRUE), Does(<<>>, TRUE, "abstain", FALSE)}
===============================================================================
