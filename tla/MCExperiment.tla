---------------------------- MODULE MCExperiment ----------------------------
(* Instances of Experiment for TLC. *)
EXTENDS Experiment

CONSTANTS a, b

Arms(first, second) == [s \in Subject |-> IF s \in first THEN "incumbent"
                                          ELSE IF s \in second THEN "challenger" ELSE "none"]

\* An evaluation after another, by two replicas or twice by one; the log or a table
\* may fail.
Paired == [replicas |-> {a, b}, paired |-> TRUE, logged |-> TRUE, arms |-> Arms({}, {}), past |-> {},
           jobs |-> 2, faults |-> 1, restarts |-> 0]
\* The process may, too.
PairedRestart == [Paired EXCEPT !.replicas = {a}, !.faults = 2, !.restarts = 2]
\* One replica without a log.
PairedAlone == [PairedRestart EXCEPT !.logged = FALSE]
\* One session of each arm and their reports.
Live == [Paired EXCEPT !.paired = FALSE, !.arms = Arms({1}, {2}), !.jobs = 3, !.faults = 0]
\* Reports of one session, twice.
Retried == [Live EXCEPT !.arms = Arms({1}, {}), !.faults = 1, !.jobs = 2]
LiveRestart == [Live EXCEPT !.replicas = {a}, !.faults = 1,
                            !.restarts = 1]
LiveAlone == [LiveRestart EXCEPT !.logged = FALSE, !.jobs = 4]
\* A replica halts the challenger, restarts, and is asked for it again.
HaltForgotten == {[Live EXCEPT !.replicas = {a}, !.arms = Arms({1}, {3, 4}),
                               !.past = {1, 3}, !.jobs = 4, !.restarts = 1]}

Deployments == {Paired, PairedRestart, PairedAlone, Live, Retried, LiveRestart, LiveAlone}
=============================================================================
