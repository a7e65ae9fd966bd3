------------------------------ MODULE MCCuckoo ------------------------------
(* The cuckoo hash set for TLC. *)
EXTENDS Cuckoo, TLC

CONSTANTS t1, t2

OneThread == {t1}
TwoThreads == {t1, t2}
Symmetry == Permutations(Threads)
=============================================================================
