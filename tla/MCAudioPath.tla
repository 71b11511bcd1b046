---------------------------- MODULE MCAudioPath ----------------------------
(* The two rings with transfers of three frames, for TLC. *)
EXTENDS AudioPath
=============================================================================
