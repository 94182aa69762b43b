----------------------------- MODULE MCLogPipeline -----------------------------
(* LogPipeline with buffers of one and two bytes.                               *)
EXTENDS LogPipeline
===============================================================================
