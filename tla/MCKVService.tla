---------------------------- MODULE MCKVService ----------------------------
(* The key-value service for TLC: two processes of one client thread each. *)
EXTENDS KVService

CONSTANTS c1, c2

TwoClients == {c1, c2}
Own == [c \in TwoClients |-> c]
=============================================================================
