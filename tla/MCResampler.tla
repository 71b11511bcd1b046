---------------------------- MODULE MCResampler ----------------------------
(* A JACK client with its engine, for TLC. *)
EXTENDS Resampler
=============================================================================
