---------------------------- MODULE MCCuckooMap -----------------------------
(* The map of the replicated store for TLC. *)
EXTENDS CuckooMap, TLC

CONSTANTS t1, t2, v1, v2

S == INSTANCE SecondaryHash

TwoThreads == {t1, t2}
TwoValues == {v1, v2}

\* The second buckets of EMPTY and the keys 1, 4 and 11 among three.  1 and 4
\* share their first one, 4 and 11 their second one, and 1 has only one.  The
\* remote clients look for 4 and 11 in another second bucket.
MapSecondary == [k \in {0, 1, 4, 11} |-> CASE k = 0 -> 2 [] k = 1 -> 1 [] k \in {4, 11} -> 0]
ClientSecondary == [k \in {0, 1, 4, 11} |-> CASE k = 0 -> 0 [] k = 1 -> 1 [] k \in {4, 11} -> 2]

ASSUME TabulatedHashes ==
    \A k \in Keys \cup {0} : /\ MapSecondary[k] = S!secondary_hash(k, Buckets)
                             /\ ClientSecondary[k] = S!remote_secondary_hash(k, Buckets)

Symmetry == Permutations(Threads) \cup Permutations(Vals)
=============================================================================
