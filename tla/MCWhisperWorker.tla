-------------------------- MODULE MCWhisperWorker --------------------------
(* Windows of three samples that overlap by one, chunks of up to three     *)
(* samples and a queue of two: windows span chunks, a chunk may complete   *)
(* two windows, and the queue overflows before the recording ends.         *)
EXTENDS WhisperTranscriptionWorker
=============================================================================
