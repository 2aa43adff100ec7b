------------------------------ MODULE ReceiptLog ------------------------------
(***************************************************************************)
(* What the receipts pipeline promises, without its channel, file, thread  *)
(* or hashes: an append-only log of receipts, of which some are accepted   *)
(* and still owed to the log.  A restart forgets what was owed except what *)
(* was made durable, and what was made durable stays owed until the log    *)
(* has it.  A restart in the middle of an acceptance leaves a ragged end:  *)
(* the receipt may count as durable, but only loosely, and what is         *)
(* accepted next at that end is forgotten together with it.  TraceStore    *)
(* implements this as long as the disk does not fail.                      *)
(***************************************************************************)
EXTENDS Sequences, Naturals

CONSTANT Receipt

VARIABLES
  log,     \* the receipts recorded
  owed,    \* accepted, or half accepted, and to be recorded
  durable, \* those of them that a restart keeps
  ragged,  \* the last durable acceptance was cut short
  loose    \* the durable receipt at a ragged end, if there is one

logVars == <<log, owed, durable, ragged, loose>>

Logged == {log[i] : i \in 1..Len(log)}

LogInit ==
  /\ log = <<>> /\ owed = {} /\ durable = {}
  /\ ragged = FALSE /\ loose = {}

\* A receipt is accepted in memory, or on disk behind a clean end.
AcceptReceipt(r) ==
  /\ r \notin owed \cup Logged
  /\ owed' = owed \cup {r}
  /\ \/ UNCHANGED durable
     \/ durable' = durable \cup {r} /\ ~ragged
  /\ UNCHANGED <<log, ragged, loose>>

\* Accepted behind a ragged end, a receipt is forgotten with what was loose there;
\* the end is clean again.
AcceptAtRaggedEnd(r) ==
  /\ ragged
  /\ r \notin owed \cup Logged
  /\ owed' = owed \ loose /\ durable' = durable \ loose
  /\ ragged' = FALSE /\ loose' = {}
  /\ UNCHANGED log

\* A receipt that is owed is recorded; a durable one stays owed until settled.
Record(r) ==
  /\ r \in owed
  /\ log' = Append(log, r)
  /\ owed' = IF r \in durable THEN owed ELSE owed \ {r}
  /\ UNCHANGED <<durable, ragged, loose>>

\* Durable receipts that are in the log are settled, all together.
Settle ==
  /\ durable \subseteq Logged
  /\ owed' = owed \ durable
  /\ durable' = {} /\ ragged' = FALSE /\ loose' = {}
  /\ UNCHANGED log

\* A crash keeps the log and the durable receipts.
ForgetVolatile ==
  /\ owed' = durable
  /\ UNCHANGED <<log, durable, ragged, loose>>

\* A crash in the middle of accepting a receipt on disk: it is garbled, with what
\* was loose before it, or it is durable, loosely while its end is ragged.
ForgetMidway(r) ==
  /\ r \notin owed \cup Logged
  /\ ragged' \in BOOLEAN
  /\ \/ durable' = durable \ loose /\ loose' = {}
     \/ /\ ~ragged
        /\ durable' = durable \cup {r} /\ loose' = IF ragged' THEN {r} ELSE {}
  /\ owed' = durable'
  /\ UNCHANGED log

LogNext ==
  \/ \E r \in Receipt :
       AcceptReceipt(r) \/ AcceptAtRaggedEnd(r) \/ Record(r) \/ ForgetMidway(r)
  \/ Settle
  \/ ForgetVolatile

LogSpec == LogInit /\ [][LogNext]_logVars
===============================================================================
