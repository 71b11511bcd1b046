----------------------------- MODULE MCService -----------------------------
(* overwitch-service with a pool of two slots, for TLC. *)
EXTENDS Service
=============================================================================
