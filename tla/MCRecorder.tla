----------------------------- MODULE MCRecorder -----------------------------
(* overwitch-record with a buffer of two transfers, for TLC. *)
EXTENDS Recorder
=============================================================================
