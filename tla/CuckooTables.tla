---------------------------- MODULE CuckooTables ----------------------------
(***************************************************************************)
(* What the two cuckoo hash sets of CuckooHash have in common, Cuckoo.hpp  *)
(* and TMCuckoo.hpp: two tables of buckets with WIDTH slots, where a value *)
(* lives in the bucket hash(val, 1) of table 1 or hash(val, 2) of table 2, *)
(* and a global lock that resize holds for writing, all others for reading.*)
(***************************************************************************)
EXTENDS Integers, Sequences, FiniteSets, FiniteSetsExt

CONSTANTS Threads,
          Values,        \* the values callers pass: positive, EMPTY is 0
          WIDTH,         \* slots in a bucket
          Initial,       \* the buckets of a table at the start
          MaxBuckets,    \* bounds the resizes
          MaxDepth       \* the most displacements one insert tries

ASSUME TablesAssumption ==
    /\ Values \subseteq Nat \ {0}
    /\ WIDTH \in Nat \ {0} /\ Initial \in Nat \ {0} /\ MaxBuckets \in Nat
    /\ Initial <= MaxBuckets /\ MaxDepth \in Nat

EMPTY == 0
Tables == {1, 2}
Indices == 0 .. MaxBuckets - 1
Slots == 0 .. WIDTH - 1
Cells == Tables \X Indices \X Slots    \* <<table, index, slot>>
NoCell == <<1, 0, 0>>

VARIABLES buckets, cell,    \* the set: buckets per table, contents of the cells
          inside            \* the threads that hold global_lock for reading

\* The hash of v for table f, with b buckets and with the current ones.
HashIn(v, f, b) == IF f = 1 THEN v % b ELSE (v \div b) % b
hash(v, f) == HashIn(v, f, buckets)
Hashes(v) == [f \in Tables |-> hash(v, f)]

\* The slots of a bucket that hold v, and findSlot / isAvailable.
SlotsWith(f, i, v) == {s \in Slots : cell[<<f, i, s>>] = v}
FirstSlot(f, i, v) == <<f, i, Min(SlotsWith(f, i, v))>>
Occupied == {c \in Cells : cell[c] # EMPTY}

\* The paths from one of the buckets i: they alternate between the tables, and
\* each bucket on the way is the other one of some value, or of EMPTY.
Paths(i) ==
    {p \in UNION {[1 .. n -> Cells] : n \in 1 .. MaxDepth + 1} :
        /\ p[1][2] = i[p[1][1]]
        /\ \A k \in 2 .. Len(p) :
              /\ p[k][1] # p[k - 1][1]
              /\ \E v \in Values \cup {EMPTY} : p[k][2] = hash(v, p[k][1])}

-----------------------------------------------------------------------------
\* What the rebuild reads of a table, bucket by bucket and slot by slot; the loop
\* ends at a quarter of the new number of buckets.
Scanned == (0 .. (2 * buckets) \div 4 - 1) \X Slots
Before(p, q) == p[1] < q[1] \/ (p[1] = q[1] /\ p[2] < q[2])

\* Each value goes to the first free slot of its new bucket: slot s gets the one
\* with s others before it.  What finds no slot is written in front of the bucket
\* and is lost.
Rebuilt(b) ==
    [c \in Cells |->
        LET at(p) == cell[<<c[1], p[1], p[2]>>]
            mine == {p \in Scanned : at(p) # EMPTY /\ HashIn(at(p), c[1], b) = c[2]}
            here == {p \in mine : Cardinality({q \in mine : Before(q, p)}) = c[3]}
        IN  IF here = {} THEN EMPTY ELSE at(CHOOSE p \in here : TRUE)]
=============================================================================
