----------------------------- MODULE MCTMCuckoo -----------------------------
(* The transactional cuckoo set for TLC. *)
EXTENDS TMCuckoo, TLC

CONSTANTS t1, t2

TwoThreads == {t1, t2}
Symmetry == Permutations(Threads)
=============================================================================
