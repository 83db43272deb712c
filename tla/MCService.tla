----------------------------- MODULE MCService -----------------------------
(* The service with small numbers of commands, worker objects and chunks.  *)
(* The configurations choose the commands and the failures.                *)
EXTENDS BackgroundWhisperService
=============================================================================
