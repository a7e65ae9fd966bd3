----------------------------- MODULE MCLazyList -----------------------------
(* The lazy list for TLC: small sets of threads, keys and nodes. *)
EXTENDS LazyListHistory

CONSTANTS n1, n2, n3, t1, t2

FiveNodes == {Head, Tail, n1, n2, n3}
TwoThreads == {t1, t2}

\* Which of the free nodes malloc returns makes no difference: the first one.
FirstFree == (n2 \in alloc' => n1 \in alloc') /\ (n3 \in alloc' => n2 \in alloc')
=============================================================================
