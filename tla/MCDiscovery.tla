---------------------------- MODULE MCDiscovery ----------------------------
(* Two product ids, one of them shipped, for TLC. *)
EXTENDS Discovery
CONSTANTS Heat, Takt
MCPids == {Heat, Takt}
MCShipped == <<[pid |-> Heat, kind |-> "good"]>>
=============================================================================
