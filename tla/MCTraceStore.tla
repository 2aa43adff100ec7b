----------------------------- MODULE MCTraceStore -----------------------------
(* Instances of TraceStore for TLC. *)
EXTENDS TraceStore
===============================================================================
