----------------------------- MODULE MCRecorder -----------------------------
(* A queue of two and a pool of four more, as 128 and 132 in the code, and *)
(* two objects more than the pool keeps.                                   *)
EXTENDS AudioRecordWorker
=============================================================================
