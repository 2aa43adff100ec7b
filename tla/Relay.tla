-------------------------------- MODULE Relay --------------------------------
(***************************************************************************)
(* Serving with what streams carry: SseTap forwards the bytes of a relayed *)
(* stream unchanged, reads off its lines the usage the receipt will bill,  *)
(* and when the stream is over tells the receipt how it ended (proxy.rs).  *)
(* A byte here is a piece of a line or the newline after it.  A chunk is   *)
(* any number of them, so one at a time covers every cut.  Every step is a *)
(* step of Serving or leaves its variables alone.                          *)
(***************************************************************************)
EXTENDS Serving

CONSTANTS
  LineCap,     \* SSE_LINE_BUF_CAP
  Streams,     \* of each deployment, what an upstream may send
  MaxFigure    \* bound on the token counts a line states

ASSUME LineCapAssumption == LineCap \in Nat /\ MaxFigure \in Nat

VARIABLE tap

relayVars == <<vars, tap>>

\* A data line: its length, the token counts it states (None if none), whether it
\* names the model and whether it is a terminal event.
Figure == 0..MaxFigure
Line == [size : Nat, in : Figure \cup {None}, out : Figure \cup {None},
         model : BOOLEAN, ends : BOOLEAN]
\* success: the upstream's status was 2xx.
Stream == [lines : Seq(Line), success : BOOLEAN]

ASSUME StreamsAssumption == \A d \in Setups : Streams[d] \subseteq Stream

-------------------------------------------------------------------------------
(* The parser.                                                             *)

NoUsage == [in |-> 0, out |-> 0, model |-> FALSE, completed |-> FALSE]

\* line, byte: how much of the stream went through.  buffered, overflow, usage: the
\* tap's own state.  told: what the receipt says, once it is over.
Fresh(stream) == [stream |-> stream, line |-> 1, byte |-> 0, buffered |-> 0,
                  overflow |-> FALSE, usage |-> NoUsage, told |-> None]

Stated(figure, before) == IF figure = None THEN before ELSE figure

\* process_sse_line: a later figure replaces an earlier one, the terminal event is
\* remembered.
Processed(usage, line) ==
  [in |-> Stated(line.in, usage.in), out |-> Stated(line.out, usage.out),
   model |-> usage.model \/ line.model, completed |-> usage.completed \/ line.ends]

\* A byte of a line: past the cap the line is given up and the buffer freed.
Buffered(t) ==
  LET fits == ~t.overflow /\ t.buffered + 1 <= LineCap IN
  [t EXCEPT !.byte = @ + 1, !.overflow = ~fits, !.buffered = IF fits THEN @ + 1 ELSE 0]

\* Mutant: a line that was given up leaves the parser blind to those after it.
NewlineKeepingOverflow(t) ==
  [t EXCEPT !.line = @ + 1, !.byte = 0, !.buffered = 0,
            !.usage = IF t.overflow THEN @ ELSE Processed(@, t.stream.lines[t.line])]
\* The newline: a line that was not given up is processed.
Newline(t) ==
  [t EXCEPT !.line = @ + 1, !.byte = 0, !.buffered = 0, !.overflow = FALSE,
            !.usage = IF t.overflow THEN @ ELSE Processed(@, t.stream.lines[t.line])]

Fed(t) == IF t.byte < t.stream.lines[t.line].size THEN Buffered(t) ELSE Newline(t)

-------------------------------------------------------------------------------
(* What the receipt says.                                                  *)

\* stream_trace_callback: a stream that closed before its terminal event was served
\* in part, one that said nothing is taken for an answer that is no stream.
Outcome(t, reason) ==
  LET u == t.usage
      saw == u.model \/ u.in > 0 \/ u.out > 0 IN
  IF ~t.stream.success THEN "error"
  ELSE IF reason = "error" THEN "midstream"
  ELSE IF u.completed \/ (reason = "eof" /\ ~saw) THEN "served"
  ELSE "partial"

\* build_stream_trace_from_usage; an upstream's own error has no attempt to bill.
\* reason is history.
Told(t, reason) ==
  LET outcome == Outcome(t, reason)
      billed == outcome # "error" IN
  [verdict |-> IF outcome = "served" THEN "pass" ELSE "abstain", reason |-> reason,
   from |-> IF outcome \in {"error", "midstream"} THEN "error" ELSE "attempt",
   in |-> IF billed THEN t.usage.in ELSE 0, out |-> IF billed THEN t.usage.out ELSE 0]

-------------------------------------------------------------------------------
(* Steps.                                                                  *)

RelayInit == Init /\ tap = [r \in Request |-> None]

Opens(r) ==
  /\ ForwardStream(r)
  /\ \E s \in Streams[setup] : tap' = [tap EXCEPT ![r] = Fresh(s)]

Relays(r) ==
  /\ req[r].pc = "relay" /\ tap[r].line <= Len(tap[r].stream.lines)
  /\ tap' = [tap EXCEPT ![r] = Fed(@)]
  /\ UNCHANGED vars

\* on_done runs, with the reason it is given.
Tells(r, reason) == tap' = [tap EXCEPT ![r].told = Told(tap[r], reason)]

\* The upstream closes, early or not, or its connection breaks.
Ends(r) == StreamEnds(r) /\ \E reason \in {"eof", "error"} : Tells(r, reason)

\* The tap is dropped: by a client that left, or after its end.
Drops(r) ==
  /\ TapDropped(r)
  /\ IF req[r].pc = "relay" THEN Tells(r, "dropped") ELSE UNCHANGED tap

RelayNext ==
  \/ Beside /\ UNCHANGED tap
  \/ \E r \in Request : Opens(r) \/ Relays(r) \/ Ends(r) \/ Drops(r)

RelaySpec == RelayInit /\ [][RelayNext]_relayVars

\* Calls end (SerialLadder) and tasks are polled, so a decision that nothing drops
\* runs on, and so does a detached task.
FairRelaySpec ==
  /\ RelaySpec
  /\ \A r \in Request : WF_relayVars(Pipeline(r) /\ UNCHANGED tap)
                        /\ WF_relayVars(SpawnedTrace(r) /\ UNCHANGED tap)

-------------------------------------------------------------------------------
(* Properties.                                                             *)

\* The lines that went through whole and that the buffer could hold.
Heard(t) == {i \in 1..(t.line - 1) : t.stream.lines[i].size <= LineCap}

\* What the last of them that states a count says.
Stating(t, count) == {i \in Heard(t) : t.stream.lines[i][count] # None}
Last(t, count) ==
  IF Stating(t, count) = {} THEN 0 ELSE t.stream.lines[Max(Stating(t, count))][count]
Named(t) == \E i \in Heard(t) : t.stream.lines[i].model
Delivered(t) == \E i \in Heard(t) : t.stream.lines[i].ends

\* A receipt that says what the stream carried and how it ended.
Faithful(t) ==
  LET silent == Last(t, "in") = 0 /\ Last(t, "out") = 0 /\ ~Named(t) IN
  /\ t.stream.success => t.told.in = Last(t, "in") /\ t.told.out = Last(t, "out")
  /\ t.told.verdict = "pass" <=>
       /\ t.stream.success /\ t.told.reason # "error"
       /\ Delivered(t) \/ (t.told.reason = "eof" /\ silent)
  /\ t.told.from = "error" <=> ~t.stream.success \/ t.told.reason = "error"

\* Wherever a stream is cut into chunks, overflows the line buffer, breaks off or is
\* abandoned, its receipt bills the last figures that went through whole, calls it a
\* pass only if the client had its terminal event or the upstream closed a stream
\* that stated nothing, and always then ("only a stream that reached its terminal
\* event was fully delivered").
ReceiptTellsTheStream ==
  \A r \in Request : tap[r] # None /\ tap[r].told # None => Faithful(tap[r])
===============================================================================
