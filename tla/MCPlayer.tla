------------------------------ MODULE MCPlayer ------------------------------
(* overwitch-play on a short file, for TLC. *)
EXTENDS Player
=============================================================================
