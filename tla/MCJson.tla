------------------------------- MODULE MCJson -------------------------------
(* Four results and a queue of two (128 in the code). *)
EXTENDS TranscriptionJsonWorker
=============================================================================
