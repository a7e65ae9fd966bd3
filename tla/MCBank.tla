------------------------------- MODULE MCBank -------------------------------
(* The banker for TLC. *)
EXTENDS Bank

CONSTANTS t1, t2

TwoThreads == {t1, t2}
=============================================================================
