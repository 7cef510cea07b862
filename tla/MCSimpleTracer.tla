--------------------------- MODULE MCSimpleTracer ---------------------------
(* The simple tracer on a stream of at most MaxTokens tasks.                *)
EXTENDS SimpleTracer
=============================================================================
