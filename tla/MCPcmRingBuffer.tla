-------------------------- MODULE MCPcmRingBuffer --------------------------
(* A ring of three samples of two values: every head position, fill level,  *)
(* wrap-around and rejection occurs.                                       *)
EXTENDS PcmRingBuffer
=============================================================================
