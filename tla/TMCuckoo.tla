------------------------------ MODULE TMCuckoo ------------------------------
(***************************************************************************)
(* The transactional variant of the cuckoo set, CuckooHash/TMCuckoo.hpp    *)
(* (the replicated store keeps an identical copy).  The lock macros are    *)
(* empty; the check of insert, each displacement, remove and contains are  *)
(* transactions, one step each.  The write of the value is not: insert     *)
(* remembers the slot its transaction found and fills it afterwards.       *)
(*                                                                         *)
(* search reads without a transaction and everything it found is looked at *)
(* again in one, so its path may be any path here.                         *)
(***************************************************************************)
EXTENDS CuckooTables

NoPath == << >>

VARIABLE call      \* call[t]: where t is, its operation, value, buckets, path,
                   \* the cell to fill and the old_capacity of resize

tmVars == <<buckets, cell, inside, call>>

Idle == [pc |-> "idle", op |-> "none", val |-> EMPTY, idx |-> [f \in Tables |-> 0],
         path |-> NoPath, to |-> NoCell, cap |-> 0]

Calls ==
    [pc : {"idle", "enter", "tx", "write", "search", "move", "capacity", "resize"},
     op : {"none", "insert", "remove", "contains"},
     val : Values \cup {EMPTY}, idx : [Tables -> Indices], path : Seq(Cells),
     to : Cells, cap : 0 .. MaxBuckets]

TMTypeOK ==
    /\ buckets \in 1 .. MaxBuckets
    /\ cell \in [Cells -> Values \cup {EMPTY}]
    /\ inside \subseteq Threads
    /\ call \in [Threads -> Calls]
    /\ \A t \in Threads : Len(call[t].path) <= MaxDepth + 1

TMInit ==
    /\ buckets = Initial
    /\ cell = [c \in Cells |-> EMPTY]
    /\ inside = {}
    /\ call = [t \in Threads |-> Idle]

-----------------------------------------------------------------------------
\* find, findSlot and isAvailable: a slot of a bucket holds v.
Holds(f, i, v) == SlotsWith(f, i, v) # {}
size == Cardinality(Occupied)

Become(t, r) == call' = [call EXCEPT ![t] = r]
TMGoto(t, l) == Become(t, [call[t] EXCEPT !.pc = l])
TMReturn(t) == Become(t, Idle) /\ inside' = inside \ {t}

\* insert computes its buckets once, before it takes the global lock.
TMCall(t, o, v) ==
    /\ call[t].pc = "idle"
    /\ Become(t, [Idle EXCEPT !.pc = "enter", !.op = o, !.val = v,
                              !.idx = IF o = "insert" THEN Hashes(v) ELSE @])
    /\ UNCHANGED <<buckets, cell, inside>>

\* pthread_rwlock_rdlock, after which remove and contains compute their buckets.
TMEnter(t) ==
    /\ call[t].pc = "enter"
    /\ inside' = inside \cup {t}
    /\ Become(t, [call[t] EXCEPT !.pc = "tx",
                                 !.idx = IF call[t].op = "insert" THEN @ ELSE Hashes(call[t].val)])
    /\ UNCHANGED <<buckets, cell>>

contains(t) ==
    /\ call[t].pc = "tx" /\ call[t].op = "contains"
    /\ TMReturn(t)
    /\ UNCHANGED <<buckets, cell>>

remove(t) ==
    LET v == call[t].val
        homes == {f \in Tables : Holds(f, call[t].idx[f], v)}
    IN  /\ call[t].pc = "tx" /\ call[t].op = "remove"
        /\ IF homes = {}
           THEN UNCHANGED cell
           ELSE LET f == Min(homes)
                IN  cell' = [cell EXCEPT ![FirstSlot(f, call[t].idx[f], v)] = EMPTY]
        /\ TMReturn(t)
        /\ UNCHANGED buckets

-----------------------------------------------------------------------------
\* The first transaction of insert: DUPLICATE, a free slot, or a search.
TMCheck(t) ==
    LET v == call[t].val
        i == call[t].idx
        free == {f \in Tables : Holds(f, i[f], EMPTY)}
    IN  /\ call[t].pc = "tx" /\ call[t].op = "insert"
        /\ IF \E f \in Tables : Holds(f, i[f], v)
           THEN TMReturn(t)
           ELSE /\ inside' = inside
                /\ IF free = {}
                   THEN TMGoto(t, "search")
                   ELSE Become(t, [call[t] EXCEPT
                                     !.pc = "write",
                                     !.to = FirstSlot(Min(free), i[Min(free)], EMPTY)])
        /\ UNCHANGED <<buckets, cell>>

\* SUCCESS: the value goes into the slot, whatever is there by now.
TMWrite(t) ==
    /\ call[t].pc = "write"
    /\ cell' = [cell EXCEPT ![call[t].to] = call[t].val]
    /\ TMReturn(t)
    /\ UNCHANGED buckets

TMSearchFinds(t) ==
    /\ call[t].pc = "search"
    /\ \E p \in Paths(call[t].idx) : Become(t, [call[t] EXCEPT !.pc = "move", !.path = p])
    /\ UNCHANGED <<buckets, cell, inside>>

\* RESIZE: the search gives up at the first value it meets twice, or at its
\* depth limit; what it met may have changed since.
TMSearchFails(t) ==
    /\ call[t].pc = "search"
    /\ 2 * buckets <= MaxBuckets
    /\ inside' = inside \ {t}
    /\ TMGoto(t, "capacity")
    /\ UNCHANGED <<buckets, cell>>

\* RETRY: global_lock is released and the loop of insert goes round again.
TMRetry(t) ==
    /\ inside' = inside \ {t}
    /\ Become(t, [call[t] EXCEPT !.pc = "enter", !.path = NoPath])
    /\ UNCHANGED cell

\* The transaction for a path of one cell: take it if it is still free.
TMPlace(t) ==
    LET p == call[t].path IN
    /\ call[t].pc = "move" /\ Len(p) = 1
    /\ \/ /\ cell[p[1]] = EMPTY
          /\ Become(t, [call[t] EXCEPT !.pc = "write", !.to = p[1]])
          /\ UNCHANGED <<cell, inside>>
       \/ cell[p[1]] # EMPTY /\ TMRetry(t)
    /\ UNCHANGED buckets

\* A displacement ends with new contents, or with RETRY; after the last one the
\* first cell of the path is the one to fill.
Displace(t, valid, contents) ==
    LET n == Len(call[t].path) IN
    /\ call[t].pc = "move" /\ n > 1
    /\ \/ /\ valid
          /\ cell' = contents
          /\ Become(t, IF n = 2
                       THEN [call[t] EXCEPT !.pc = "write", !.path = NoPath, !.to = call[t].path[1]]
                       ELSE [call[t] EXCEPT !.path = SubSeq(@, 1, n - 1)])
          /\ UNCHANGED inside
       \/ ~valid /\ TMRetry(t)
    /\ UNCHANGED buckets

MoveFrom(t) == call[t].path[Len(call[t].path) - 1]
MoveTo(t) == call[t].path[Len(call[t].path)]
Rehashes(t) == hash(cell[MoveFrom(t)], MoveTo(t)[1]) = MoveTo(t)[2]

\* Mutant: the displaced value is not hashed again.
TMMove_NoHash(t) ==
    Displace(t, cell[MoveTo(t)] = EMPTY /\ cell[MoveFrom(t)] # EMPTY,
             [cell EXCEPT ![MoveTo(t)] = cell[MoveFrom(t)], ![MoveFrom(t)] = EMPTY])

\* Mutant: a destination that was filled in the meantime is not noticed.
TMMove_NoFreeCheck(t) ==
    Displace(t, cell[MoveFrom(t)] # EMPTY /\ Rehashes(t),
             [cell EXCEPT ![MoveTo(t)] = cell[MoveFrom(t)], ![MoveFrom(t)] = EMPTY])

\* One displacement: the last cell but one of the path moves into the last one.
TMMove(t) ==
    Displace(t, cell[MoveTo(t)] = EMPTY /\ cell[MoveFrom(t)] # EMPTY /\ Rehashes(t),
             [cell EXCEPT ![MoveTo(t)] = cell[MoveFrom(t)], ![MoveFrom(t)] = EMPTY])

-----------------------------------------------------------------------------
TMReadCapacity(t) ==
    /\ call[t].pc = "capacity"
    /\ Become(t, [call[t] EXCEPT !.pc = "resize", !.cap = buckets])
    /\ UNCHANGED <<buckets, cell, inside>>

\* resize with global_lock held for writing; then insert starts over.
resize(t) ==
    /\ call[t].pc = "resize"
    /\ inside = {}
    /\ IF call[t].cap = buckets /\ 2 * buckets <= MaxBuckets
       THEN buckets' = 2 * buckets /\ cell' = Rebuilt(2 * buckets)
       ELSE UNCHANGED <<buckets, cell>>
    /\ TMGoto(t, "enter")
    /\ UNCHANGED inside

-----------------------------------------------------------------------------
TMStep(t) ==
    \/ TMEnter(t) \/ contains(t) \/ remove(t) \/ TMCheck(t) \/ TMWrite(t)
    \/ TMSearchFinds(t) \/ TMSearchFails(t) \/ TMPlace(t) \/ TMMove(t)
    \/ TMReadCapacity(t) \/ resize(t)

\* The loop of the benchmark, execute_local_txs: any call with any value.
TMBegin(t) == \E o \in {"insert", "remove", "contains"}, v \in Values : TMCall(t, o, v)

TMNext == \E t \in Threads : TMBegin(t) \/ TMStep(t)

TMSpec == TMInit /\ [][TMNext]_tmVars

-----------------------------------------------------------------------------
At(c) == hash(cell[c], c[1]) = c[2]     \* c holds a value in its bucket
(* Only one thing puts a value where contains does not look for it: the    *)
(* write of an insert whose buckets were computed before a resize (insert, *)
(* line 126).  Displacements, resizes and all other writes never do.       *)
MisplacedOnlyWhenStale ==
    [][\A c \in Cells :
          cell'[c] \in {EMPTY, cell[c]} \/ At(c)'
          \/ \E t \in Threads : /\ call[t].pc = "write" /\ call[t].to = c
                                /\ call[t].idx # Hashes(call[t].val)]_tmVars

(* The inserts that will fill a cell somebody else fills too.              *)
Clash ==
    \E t \in Threads :
        /\ call[t].pc = "write"
        /\ \/ cell[call[t].to] # EMPTY
           \/ \E u \in Threads \ {t} : call[u].pc = "write" /\ call[u].to = call[t].to

Answering(t) == call[t].pc # "idle" /\ call'[t].pc = "idle"
Inserting == {t \in Threads : Answering(t) /\ call[t].pc = "write"}
Removing ==
    {t \in Threads : /\ Answering(t) /\ call[t].op = "remove"
                     /\ \E f \in Tables : Holds(f, call[t].idx[f], call[t].val)}

(* A clash is the only way to lose a value without a resize: as long as no *)
(* two inserts aim at one cell, size() changes exactly as the inserts and  *)
(* removes that answer true say (insert, lines 147 to 153).                *)
LostOnlyByClash ==
    [][(~Clash /\ buckets' = buckets) =>
          size' = size + Cardinality(Inserting) - Cardinality(Removing)]_tmVars

-----------------------------------------------------------------------------
\* The inductive invariant: a call has a value; only insert goes beyond its first
\* transaction, on a path from one of its buckets to a slot in one of them.
RequestOK(k) ==
    /\ k.pc # "idle" => k.val \in Values
    /\ k.pc \in {"write", "search", "move", "capacity", "resize"} => k.op = "insert"
    /\ k.pc = "move" => Len(k.path) >= 1 /\ k.path[1][2] = k.idx[k.path[1][1]]
    /\ k.pc = "write" => k.to[2] = k.idx[k.to[1]]

TMInv == TMTypeOK /\ \A t \in Threads : RequestOK(call[t])
=============================================================================
