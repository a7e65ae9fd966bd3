------------------------------ MODULE LazyList ------------------------------
(***************************************************************************)
(* The lazy sorted list of the distributed key-value store                 *)
(* (Persistence/KeyValueStore/ConcurrentList.cpp): contains walks without  *)
(* a lock; add and remove walk without a lock, try-lock the two nodes they *)
(* stopped at, validate what they read and only then write.                *)
(*                                                                         *)
(* One step is one access to a field that another thread may write.  Keys  *)
(* never change, so a comparison of keys is part of the step around it.    *)
(* The stored values are left out: no operation of the list reads them.    *)
(***************************************************************************)
EXTENDS Integers, FiniteSets

CONSTANTS Threads,        \* the threads that call the list
          NoThread,       \* the owner of a free lock
          Nodes,          \* the addresses operator new may return: bounds the adds
          Head, Tail,     \* the sentinels the constructor makes
          Null,           \* the null pointer
          MinKey, MaxKey, \* INT_MIN and INT_MAX
          Keys,           \* the keys callers pass
          NoKey           \* the argument of a thread that is outside a call

ASSUME ListAssumption ==
    /\ NoThread \notin Threads
    /\ Head \in Nodes /\ Tail \in Nodes /\ Head # Tail
    /\ Null \notin Nodes
    /\ MinKey \in Int /\ MaxKey \in Int /\ MinKey < MaxKey
    /\ Keys \subseteq (MinKey + 1) .. (MaxKey - 1)  \* never the key of a sentinel
    /\ NoKey \notin MinKey .. MaxKey

Ops == {"contains", "add", "remove"}

VARIABLES key, next, marked, lock,  \* the fields of each node
          alloc,                    \* the nodes in use
          pc, op, arg,              \* where each thread is, in which call
          pred, curr,               \* its locals pred and runner
          res                       \* the RESULT it decided, "none" before

nodeVars == <<key, next, marked, alloc>>
callVars == <<op, arg>>
vars == <<key, next, marked, lock, alloc, pc, op, arg, pred, curr, res>>

PCs == {"idle", "search", "start", "walk", "lockCurr", "giveUp", "validate",
        "apply", "unlink", "unlockPred", "unlockCurr", "return"}

TypeOK ==
    /\ key \in [Nodes -> MinKey .. MaxKey]
    /\ next \in [Nodes -> Nodes \cup {Null}]
    /\ marked \in [Nodes -> BOOLEAN]
    /\ lock \in [Nodes -> Threads \cup {NoThread}]
    /\ alloc \in SUBSET Nodes
    /\ pc \in [Threads -> PCs]
    /\ op \in [Threads -> Ops \cup {"none"}]
    /\ arg \in [Threads -> Keys \cup {NoKey}]
    /\ pred \in [Threads -> Nodes]
    /\ curr \in [Threads -> Nodes]
    /\ res \in [Threads -> {"none", "TRUE", "FALSE", "ABORT"}]

\* The constructor: two sentinels, the first pointing to the second.
Init ==
    /\ key = [n \in Nodes |-> IF n = Tail THEN MaxKey ELSE MinKey]
    /\ next = [n \in Nodes |-> IF n = Head THEN Tail ELSE Null]
    /\ marked = [n \in Nodes |-> FALSE]
    /\ lock = [n \in Nodes |-> NoThread]
    /\ alloc = {Head, Tail}
    /\ pc = [t \in Threads |-> "idle"]
    /\ op = [t \in Threads |-> "none"]
    /\ arg = [t \in Threads |-> NoKey]
    /\ pred = [t \in Threads |-> Head]
    /\ curr = [t \in Threads |-> Head]
    /\ res = [t \in Threads |-> "none"]

-----------------------------------------------------------------------------
\* The bound: an add is called only while a node is left for it.
MemoryLeft ==
    Cardinality({t \in Threads : op[t] = "add"}) < Cardinality(Nodes \ alloc)

\* contains begins with runner = head, the value curr has between calls.
Invoke(t, o, k) ==
    /\ pc[t] = "idle"
    /\ o = "add" => MemoryLeft
    /\ op' = [op EXCEPT ![t] = o]
    /\ arg' = [arg EXCEPT ![t] = k]
    /\ pc' = [pc EXCEPT ![t] = IF o = "contains" THEN "search" ELSE "start"]
    /\ UNCHANGED <<nodeVars, lock, pred, curr, res>>

\* contains: one more step of the unlocked walk.
SearchStep(t) ==
    /\ pc[t] = "search"
    /\ key[curr[t]] < arg[t]
    /\ curr' = [curr EXCEPT ![t] = next[curr[t]]]
    /\ UNCHANGED <<nodeVars, callVars, lock, pc, pred, res>>

\* Mutant: contains forgets the mark.
SearchEnd_NoMark(t) ==
    /\ pc[t] = "search"
    /\ key[curr[t]] >= arg[t]
    /\ res' = [res EXCEPT ![t] = IF key[curr[t]] = arg[t] THEN "TRUE" ELSE "FALSE"]
    /\ pc' = [pc EXCEPT ![t] = "return"]
    /\ UNCHANGED <<nodeVars, callVars, lock, pred, curr>>

\* contains: the walk is over, the answer depends on the mark.
SearchEnd(t) ==
    /\ pc[t] = "search"
    /\ key[curr[t]] >= arg[t]
    /\ res' = [res EXCEPT ![t] =
                 IF key[curr[t]] = arg[t] /\ ~marked[curr[t]] THEN "TRUE" ELSE "FALSE"]
    /\ pc' = [pc EXCEPT ![t] = "return"]
    /\ UNCHANGED <<nodeVars, callVars, lock, pred, curr>>

-----------------------------------------------------------------------------
\* add and remove: (re)start the walk at the head.
Start(t) ==
    /\ pc[t] = "start"
    /\ pred' = [pred EXCEPT ![t] = Head]
    /\ curr' = [curr EXCEPT ![t] = next[Head]]
    /\ pc' = [pc EXCEPT ![t] = "walk"]
    /\ UNCHANGED <<nodeVars, callVars, lock, res>>

Walk(t) ==
    /\ pc[t] = "walk"
    /\ key[curr[t]] < arg[t]
    /\ pred' = [pred EXCEPT ![t] = curr[t]]
    /\ curr' = [curr EXCEPT ![t] = next[curr[t]]]
    /\ UNCHANGED <<nodeVars, callVars, lock, pc, res>>

Abort(t) == res' = [res EXCEPT ![t] = "ABORT"]

\* Mutant: the result of TRY_LOCK(pred->lock) is ignored.
TryLockPred_Ignored(t) ==
    /\ pc[t] = "walk"
    /\ key[curr[t]] >= arg[t]
    /\ lock' = [lock EXCEPT ![pred[t]] = t]
    /\ pc' = [pc EXCEPT ![t] = "lockCurr"]
    /\ UNCHANGED <<nodeVars, callVars, pred, curr, res>>

\* TRY_LOCK(pred->lock): a failure ends the call.
TryLockPred(t) ==
    /\ pc[t] = "walk"
    /\ key[curr[t]] >= arg[t]
    /\ \/ /\ lock[pred[t]] = NoThread
          /\ lock' = [lock EXCEPT ![pred[t]] = t]
          /\ pc' = [pc EXCEPT ![t] = "lockCurr"]
          /\ res' = res
       \/ /\ lock[pred[t]] # NoThread
          /\ Abort(t)
          /\ pc' = [pc EXCEPT ![t] = "return"]
          /\ lock' = lock
    /\ UNCHANGED <<nodeVars, callVars, pred, curr>>

\* TRY_LOCK(runner->lock): a failure ends the call once pred is unlocked.
TryLockCurr(t) ==
    /\ pc[t] = "lockCurr"
    /\ \/ /\ lock[curr[t]] = NoThread
          /\ lock' = [lock EXCEPT ![curr[t]] = t]
          /\ pc' = [pc EXCEPT ![t] = "validate"]
          /\ res' = res
       \/ /\ lock[curr[t]] # NoThread
          /\ Abort(t)
          /\ pc' = [pc EXCEPT ![t] = "giveUp"]
          /\ lock' = lock
    /\ UNCHANGED <<nodeVars, callVars, pred, curr>>

GiveUp(t) ==
    /\ pc[t] = "giveUp"
    /\ lock' = [lock EXCEPT ![pred[t]] = NoThread]
    /\ pc' = [pc EXCEPT ![t] = "return"]
    /\ UNCHANGED <<nodeVars, callVars, pred, curr, res>>

\* Mutants: validateLink without the marks, and without the link.
validateLink_NoMarks(p, c) == next[p] = c
validateLink_NoLink(p, c) == ~marked[p] /\ ~marked[c]

validateLink(p, c) == next[p] = c /\ ~marked[p] /\ ~marked[c]

\* A link that changed since the walk sends the call back to the head.
Validate(t) ==
    /\ pc[t] = "validate"
    /\ pc' = [pc EXCEPT ![t] =
                IF validateLink(pred[t], curr[t]) THEN "apply" ELSE "unlockPred"]
    /\ UNCHANGED <<nodeVars, callVars, lock, pred, curr, res>>

-----------------------------------------------------------------------------
\* The key is absent (add) or present (remove): the call writes.
Writes(t) == (op[t] = "add") <=> (key[curr[t]] # arg[t])

ApplyNothing(t) ==
    /\ pc[t] = "apply"
    /\ ~Writes(t)
    /\ res' = [res EXCEPT ![t] = "FALSE"]
    /\ pc' = [pc EXCEPT ![t] = "unlockPred"]
    /\ UNCHANGED <<nodeVars, callVars, lock, pred, curr>>

\* add: fill a new node, then publish it; only the last write is shared.
Link(t) ==
    /\ pc[t] = "apply" /\ op[t] = "add"
    /\ Writes(t)
    /\ \E n \in Nodes \ alloc :
          /\ alloc' = alloc \cup {n}
          /\ key' = [key EXCEPT ![n] = arg[t]]
          /\ next' = [next EXCEPT ![n] = curr[t], ![pred[t]] = n]
    /\ res' = [res EXCEPT ![t] = "TRUE"]
    /\ pc' = [pc EXCEPT ![t] = "unlockPred"]
    /\ UNCHANGED <<marked, lock, callVars, pred, curr>>

\* remove: first the mark, which deletes the key ...
Mark(t) ==
    /\ pc[t] = "apply" /\ op[t] = "remove"
    /\ Writes(t)
    /\ marked' = [marked EXCEPT ![curr[t]] = TRUE]
    /\ res' = [res EXCEPT ![t] = "TRUE"]
    /\ pc' = [pc EXCEPT ![t] = "unlink"]
    /\ UNCHANGED <<key, next, alloc, lock, callVars, pred, curr>>

\* Mutants: remove also detaches the node, or links one node too far.
Unlink_Detach(t) ==
    /\ pc[t] = "unlink"
    /\ next' = [next EXCEPT ![pred[t]] = next[curr[t]], ![curr[t]] = Tail]
    /\ pc' = [pc EXCEPT ![t] = "unlockPred"]
    /\ UNCHANGED <<key, marked, alloc, lock, callVars, pred, curr, res>>

Unlink_TooFar(t) ==
    /\ pc[t] = "unlink"
    /\ next' = [next EXCEPT ![pred[t]] = next[next[curr[t]]]]
    /\ pc' = [pc EXCEPT ![t] = "unlockPred"]
    /\ UNCHANGED <<key, marked, alloc, lock, callVars, pred, curr, res>>

\* ... then the link around the deleted node.
Unlink(t) ==
    /\ pc[t] = "unlink"
    /\ next' = [next EXCEPT ![pred[t]] = next[curr[t]]]
    /\ pc' = [pc EXCEPT ![t] = "unlockPred"]
    /\ UNCHANGED <<key, marked, alloc, lock, callVars, pred, curr, res>>

UnlockPred(t) ==
    /\ pc[t] = "unlockPred"
    /\ lock' = [lock EXCEPT ![pred[t]] = NoThread]
    /\ pc' = [pc EXCEPT ![t] = "unlockCurr"]
    /\ UNCHANGED <<nodeVars, callVars, pred, curr, res>>

\* Mutant: the retry locks the same nodes again instead of walking again.
UnlockCurr_NoRestart(t) ==
    /\ pc[t] = "unlockCurr"
    /\ lock' = [lock EXCEPT ![curr[t]] = NoThread]
    /\ pc' = [pc EXCEPT ![t] = IF res[t] = "none" THEN "walk" ELSE "return"]
    /\ UNCHANGED <<nodeVars, callVars, pred, curr, res>>

\* Without a result the loop of add or remove goes round again.
UnlockCurr(t) ==
    /\ pc[t] = "unlockCurr"
    /\ lock' = [lock EXCEPT ![curr[t]] = NoThread]
    /\ pc' = [pc EXCEPT ![t] = IF res[t] = "none" THEN "start" ELSE "return"]
    /\ UNCHANGED <<nodeVars, callVars, pred, curr, res>>

\* The call is over and so are its locals.
Return(t) ==
    /\ pc[t] = "return"
    /\ pc' = [pc EXCEPT ![t] = "idle"]
    /\ op' = [op EXCEPT ![t] = "none"]
    /\ arg' = [arg EXCEPT ![t] = NoKey]
    /\ res' = [res EXCEPT ![t] = "none"]
    /\ pred' = [pred EXCEPT ![t] = Head]
    /\ curr' = [curr EXCEPT ![t] = Head]
    /\ UNCHANGED <<nodeVars, lock>>

-----------------------------------------------------------------------------
\* The steps of a call in progress.
Step(t) ==
    \/ SearchStep(t) \/ SearchEnd(t)
    \/ Start(t) \/ Walk(t) \/ TryLockPred(t) \/ TryLockCurr(t) \/ GiveUp(t)
    \/ Validate(t) \/ ApplyNothing(t) \/ Link(t) \/ Mark(t) \/ Unlink(t)
    \/ UnlockPred(t) \/ UnlockCurr(t) \/ Return(t)

Next ==
    \E t \in Threads :
        \/ \E o \in Ops, k \in Keys : Invoke(t, o, k)
        \/ Step(t)

Spec == Init /\ [][Next]_vars

\* A thread inside a call keeps running; nobody has to make a call.
FairSpec == Spec /\ \A t \in Threads : WF_vars(Step(t))

-----------------------------------------------------------------------------
\* The nodes that can still be reached from the head: a removed node stays
\* in the list until its remover has linked around it.
InList ==
    {n \in alloc : ~marked[n] \/ \E t \in Threads : pc[t] = "unlink" /\ curr[t] = n}

\* The set the list stands for.
Members == {n \in alloc \ {Head, Tail} : ~marked[n]}
AbsSet == {key[n] : n \in Members}

(* Safety of the structure: the links ascend strictly, they stay inside    *)
(* the list, no two nodes of the list hold the same key, and no link jumps *)
(* over a node of the list, so every member is reachable from the head.    *)
(* (remove and add: ConcurrentList.cpp, lines 43 to 46 and 77 to 81.)      *)
ListIntact ==
    \A m \in InList \ {Tail} :
        /\ next[m] \in InList
        /\ key[m] < key[next[m]]
        /\ \A n \in InList : key[m] < key[n] => key[next[m]] <= key[n]
        /\ \A n \in InList : key[m] = key[n] => m = n

(* A removed and unlinked node never changes again: the unlocked walks     *)
(* that still stand on it find their way back into the list.               *)
RemovedIsFrozen ==
    [][\A n \in alloc \ InList : next'[n] = next[n] /\ marked'[n]]_vars

(* A node is written only by the thread that holds its lock (fields next   *)
(* and marked of allocated nodes).                                         *)
WritesUnderLock ==
    [][\A n \in alloc :
          (next'[n] # next[n] \/ marked'[n] # marked[n])
              => \E t \in Threads : lock[n] = t /\ pc'[t] # pc[t]]_vars

(* Every call returns: contains waits for nobody, add and remove give up   *)
(* on a busy lock and retry only when another call changed the list, which *)
(* the bounded memory lets happen finitely often.                          *)
EveryCallReturns ==
    \A t \in Threads : []<>(op[t] = "none")

-----------------------------------------------------------------------------
(* The inductive invariant: what makes ListIntact survive every step. *)

\* Where a thread is tells which call it is in and what it has decided.
ControlOK ==
    \A t \in Threads :
        /\ op[t] = "none" <=> pc[t] = "idle"
        /\ op[t] # "none" => arg[t] \in Keys
        /\ pc[t] = "search" => op[t] = "contains"
        /\ pc[t] \notin {"idle", "search", "return"} => op[t] \in {"add", "remove"}
        /\ pc[t] = "idle" => curr[t] = Head
        /\ pc[t] = "unlink" => op[t] = "remove"
        /\ pc[t] \in {"idle", "search", "start", "walk", "lockCurr", "validate", "apply"}
              => res[t] = "none"
        /\ pc[t] \in {"giveUp", "unlink", "return"} => res[t] # "none"

HoldsPred(t) ==
    pc[t] \in {"lockCurr", "giveUp", "validate", "apply", "unlink", "unlockPred"}
HoldsCurr(t) ==
    pc[t] \in {"validate", "apply", "unlink", "unlockPred", "unlockCurr"}

LocksOK ==
    \A t \in Threads :
        /\ HoldsPred(t) => lock[pred[t]] = t
        /\ HoldsCurr(t) => lock[curr[t]] = t

ShapeOK ==
    /\ {Head, Tail} \subseteq alloc
    /\ key[Head] = MinKey /\ key[Tail] = MaxKey
    /\ \A n \in alloc \ {Head, Tail} : key[n] \in Keys
    /\ \A n \in alloc \ {Tail} : next[n] \in alloc /\ key[n] < key[next[n]]
    /\ ~marked[Head] /\ ~marked[Tail]
    /\ \A n \in Nodes \ alloc : ~marked[n]

\* The walks end at the place of the key, whatever happened to the nodes since.
WalksOK ==
    \A t \in Threads :
        /\ pred[t] \in alloc /\ curr[t] \in alloc
        /\ pc[t] \notin {"idle", "search", "start", "return"}
              => key[pred[t]] < arg[t] /\ key[pred[t]] < key[curr[t]]
        /\ HoldsPred(t) \/ HoldsCurr(t) => key[curr[t]] >= arg[t]

\* What Validate found stays true while both locks are held.
ValidatedOK ==
    \A t \in Threads :
        /\ pc[t] = "apply" => validateLink(pred[t], curr[t])
        /\ pc[t] = "unlink" =>
              /\ next[pred[t]] = curr[t] /\ ~marked[pred[t]]
              /\ marked[curr[t]] /\ key[curr[t]] = arg[t]

IInv == TypeOK /\ ControlOK /\ LocksOK /\ ShapeOK /\ WalksOK /\ ValidatedOK /\ ListIntact
=============================================================================
