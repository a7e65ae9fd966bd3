-------------------------------- MODULE Bank --------------------------------
(***************************************************************************)
(* The banker (Banker/bankers-map/src): threads move money between the     *)
(* accounts of a hash map and audit its total.  A deposit write-locks the  *)
(* buckets of its two accounts in ascending order; an audit (balance)      *)
(* read-locks every bucket in ascending order.  When all threads have been *)
(* joined, main checks the total and runs the same workload without locks. *)
(*                                                                         *)
(* One step is one lock operation or one lookup or update of the map.      *)
(* Amounts are integers here, float in the code.                           *)
(***************************************************************************)
EXTENDS Integers, FiniteSets, Functions

CONSTANTS Threads,      \* the workers
          Main,         \* the main thread
          NoOne,        \* the writer of a lock nobody holds for writing
          KeyMax,       \* cfg.key_max: the accounts are 0 .. KeyMax - 1
          Buckets,      \* cfg.buckets
          Initial,      \* the balance every account starts with
          Amount,       \* the amount of a deposit
          Iters         \* cfg.iters: bounds the run

ASSUME BankAssumption ==
    /\ Main \notin Threads /\ NoOne \notin Threads \cup {Main}
    /\ IsFiniteSet(Threads)
    /\ KeyMax \in Nat \ {0} /\ Buckets \in Nat \ {0}
    /\ Initial \in Int /\ Amount \in Int /\ Iters \in Nat \ {0}

Actors == Threads \cup {Main}
Accounts == 0 .. KeyMax - 1
Locks == 0 .. Buckets - 1

hash(k) == k % Buckets
lockfree(t) == t = Main

\* rand_integer(keyRange - 1): from 1 to its argument, but 1 for the argument 0.
RandomKeys == IF KeyMax = 1 THEN {1} ELSE 1 .. KeyMax - 1

\* The iterations of do_work: the workers share cfg.iters, main does them all.
Quota(t) == IF lockfree(t) THEN Iters ELSE Iters \div Cardinality(Threads)

VARIABLES bal,              \* the map: account -> balance
          writer, readers,  \* the read-write lock of each bucket
          pc, iter,         \* where each thread is, and its loop counter
          src, dst,         \* deposit: keySource and keyTarget
          got,              \* deposit: the balance looked up last
          idx, total        \* balance: loop index and running total

bankVars == <<bal, src, dst, got>>
lockVars == <<writer, readers>>
auditVars == <<idx, total>>
vars == <<bal, writer, readers, pc, iter, src, dst, got, idx, total>>

PCs == {"join", "work", "lockLow", "lockHigh", "readSource", "writeSource", "readTarget",
        "writeTarget", "unlockLow", "unlockHigh", "readLock", "sum", "readUnlock",
        "audit", "assert", "done"}

TypeOK ==
    /\ bal \in [Accounts -> Int]
    /\ writer \in [Locks -> Actors \cup {NoOne}]
    /\ readers \in [Locks -> SUBSET Actors]
    /\ pc \in [Actors -> PCs]
    /\ iter \in [Actors -> Nat]
    /\ src \in [Actors -> RandomKeys] /\ dst \in [Actors -> RandomKeys]
    /\ got \in [Actors -> Int]
    /\ idx \in [Actors -> Nat] /\ total \in [Actors -> Int]

\* run_custom_tests up to the start of the threads.  The barrier in front of
\* the work orders nothing that matters here (see Barrier).
Init ==
    /\ bal = [a \in Accounts |-> Initial]
    /\ writer = [b \in Locks |-> NoOne]
    /\ readers = [b \in Locks |-> {}]
    /\ pc = [t \in Actors |-> IF lockfree(t) THEN "join"
                               ELSE IF Quota(t) > 0 THEN "work" ELSE "done"]
    /\ iter = [t \in Actors |-> 0]
    /\ src = [t \in Actors |-> 1] /\ dst = [t \in Actors |-> 1]
    /\ got = [t \in Actors |-> 0]
    /\ idx = [t \in Actors |-> 0] /\ total = [t \in Actors |-> 0]

Goto(t, l) == pc' = [pc EXCEPT ![t] = l]

\* An iteration of do_work is over.
EndIteration(t) ==
    /\ iter' = [iter EXCEPT ![t] = @ + 1]
    /\ Goto(t, IF iter[t] + 1 < Quota(t) THEN "work" ELSE "done")

-----------------------------------------------------------------------------
\* simplemap_t: an account is found in the chain of its bucket if it was inserted
\* there; nobody inserts or removes accounts once the threads run.
exists(k) == k \in Accounts
lookup(k) == bal[k]
update(k, v) == bal' = [bal EXCEPT ![k] = v]

Low(t) == IF hash(src[t]) <= hash(dst[t]) THEN hash(src[t]) ELSE hash(dst[t])
High(t) == IF hash(src[t]) <= hash(dst[t]) THEN hash(dst[t]) ELSE hash(src[t])

\* Mutant: the source key is drawn from 0 on.
deposit_FromZero(t, s, d) ==
    /\ pc[t] = "work"
    /\ src' = [src EXCEPT ![t] = s - 1]
    /\ dst' = [dst EXCEPT ![t] = d]
    /\ Goto(t, IF lockfree(t) THEN "readSource" ELSE "lockLow")
    /\ UNCHANGED <<bal, got, lockVars, iter, auditVars>>

deposit(t, s, d) ==
    /\ pc[t] = "work"
    /\ src' = [src EXCEPT ![t] = s]
    /\ dst' = [dst EXCEPT ![t] = d]
    /\ Goto(t, IF lockfree(t) THEN "readSource" ELSE "lockLow")
    /\ UNCHANGED <<bal, got, lockVars, iter, auditVars>>

\* Mutants: the lock is taken without waiting for writers, or for readers.
WRITE_LOCK_OverWriters(t, b) ==
    /\ readers[b] = {}
    /\ writer' = [writer EXCEPT ![b] = t]
    /\ readers' = readers

WRITE_LOCK_OverReaders(t, b) ==
    /\ writer[b] = NoOne
    /\ writer' = [writer EXCEPT ![b] = t]
    /\ readers' = readers

\* pthread_rwlock_wrlock returns when nobody else holds the lock.
WRITE_LOCK(t, b) ==
    /\ writer[b] = NoOne /\ readers[b] = {}
    /\ writer' = [writer EXCEPT ![b] = t]
    /\ readers' = readers

WRITE_UNLOCK(t, b) ==
    /\ writer' = [writer EXCEPT ![b] = NoOne]
    /\ readers' = readers

\* One bucket needs one lock.
LockLow(t) ==
    /\ pc[t] = "lockLow"
    /\ WRITE_LOCK(t, Low(t))
    /\ Goto(t, IF Low(t) = High(t) THEN "readSource" ELSE "lockHigh")
    /\ UNCHANGED <<bankVars, iter, auditVars>>

LockHigh(t) ==
    /\ pc[t] = "lockHigh"
    /\ WRITE_LOCK(t, High(t))
    /\ Goto(t, "readSource")
    /\ UNCHANGED <<bankVars, iter, auditVars>>

\* Where applyDeposit returns to.
AfterApply(t) ==
    IF lockfree(t) THEN EndIteration(t) ELSE Goto(t, "unlockLow") /\ iter' = iter

\* A source that does not exist ends the deposit.
ReadSource(t) ==
    /\ pc[t] = "readSource"
    /\ IF exists(src[t])
       THEN got' = [got EXCEPT ![t] = lookup(src[t])] /\ Goto(t, "writeSource") /\ iter' = iter
       ELSE AfterApply(t) /\ got' = got
    /\ UNCHANGED <<bal, src, dst, lockVars, auditVars>>

WriteSource(t) ==
    /\ pc[t] = "writeSource"
    /\ update(src[t], got[t] - Amount)
    /\ Goto(t, "readTarget")
    /\ UNCHANGED <<src, dst, got, lockVars, iter, auditVars>>

\* Both keys come from one range, so the target exists if the source does: the
\* fallback that restores the source is dead code.
ReadTarget(t) ==
    /\ pc[t] = "readTarget"
    /\ got' = [got EXCEPT ![t] = lookup(dst[t])]
    /\ Goto(t, "writeTarget")
    /\ UNCHANGED <<bal, src, dst, lockVars, iter, auditVars>>

WriteTarget(t) ==
    /\ pc[t] = "writeTarget"
    /\ update(dst[t], got[t] + Amount)
    /\ AfterApply(t)
    /\ UNCHANGED <<src, dst, got, lockVars, auditVars>>

UnlockLow(t) ==
    /\ pc[t] = "unlockLow"
    /\ WRITE_UNLOCK(t, Low(t))
    /\ IF Low(t) = High(t) THEN EndIteration(t) ELSE Goto(t, "unlockHigh") /\ iter' = iter
    /\ UNCHANGED <<bankVars, auditVars>>

UnlockHigh(t) ==
    /\ pc[t] = "unlockHigh"
    /\ WRITE_UNLOCK(t, High(t))
    /\ EndIteration(t)
    /\ UNCHANGED <<bankVars, auditVars>>

-----------------------------------------------------------------------------
balance(t) ==
    /\ pc[t] = "work"
    /\ idx' = [idx EXCEPT ![t] = 0]
    /\ total' = [total EXCEPT ![t] = 0]
    /\ Goto(t, IF lockfree(t) THEN "sum" ELSE "readLock")
    /\ UNCHANGED <<bankVars, lockVars, iter>>

\* The loops of balance run idx from 0 to n - 1.
More(t, n) == idx[t] + 1 < n
Advance(t, n) == idx' = [idx EXCEPT ![t] = IF More(t, n) THEN idx[t] + 1 ELSE 0]

\* Mutants: the audit does not wait for writers, or locks from the last bucket down.
ReadLock_NoWait(t) ==
    /\ pc[t] = "readLock"
    /\ readers' = [readers EXCEPT ![idx[t]] = @ \cup {t}]
    /\ Advance(t, Buckets)
    /\ Goto(t, IF More(t, Buckets) THEN "readLock" ELSE "sum")
    /\ UNCHANGED <<bankVars, writer, iter, total>>

ReadLock_Descending(t) ==
    LET b == Buckets - 1 - idx[t] IN
    /\ pc[t] = "readLock"
    /\ writer[b] = NoOne
    /\ readers' = [readers EXCEPT ![b] = @ \cup {t}]
    /\ Advance(t, Buckets)
    /\ Goto(t, IF More(t, Buckets) THEN "readLock" ELSE "sum")
    /\ UNCHANGED <<bankVars, writer, iter, total>>

\* acquireAll_Reader: pthread_rwlock_rdlock returns when nobody writes.
ReadLock(t) ==
    /\ pc[t] = "readLock"
    /\ writer[idx[t]] = NoOne
    /\ readers' = [readers EXCEPT ![idx[t]] = @ \cup {t}]
    /\ Advance(t, Buckets)
    /\ Goto(t, IF More(t, Buckets) THEN "readLock" ELSE "sum")
    /\ UNCHANGED <<bankVars, writer, iter, total>>

\* The loop over the accounts, also of main's own audit.
Sum(t) ==
    /\ pc[t] \in {"sum", "audit"}
    /\ total' = [total EXCEPT ![t] = @ + lookup(idx[t])]
    /\ Advance(t, KeyMax)
    /\ IF ~More(t, KeyMax) /\ pc[t] = "sum" /\ lockfree(t)
       THEN EndIteration(t)
       ELSE /\ Goto(t, CASE More(t, KeyMax) -> pc[t]
                         [] ~More(t, KeyMax) /\ pc[t] = "sum" -> "readUnlock"
                         [] ~More(t, KeyMax) /\ pc[t] = "audit" -> "assert")
            /\ iter' = iter
    /\ UNCHANGED <<bankVars, lockVars>>

\* releaseAll_Reader, and the end of the audit.
ReadUnlock(t) ==
    /\ pc[t] = "readUnlock"
    /\ readers' = [readers EXCEPT ![idx[t]] = @ \ {t}]
    /\ Advance(t, Buckets)
    /\ IF More(t, Buckets) THEN Goto(t, "readUnlock") /\ iter' = iter ELSE EndIteration(t)
    /\ UNCHANGED <<bankVars, writer, total>>

-----------------------------------------------------------------------------
\* main joins the threads and audits the accounts, without locks.
Join ==
    /\ pc[Main] = "join"
    /\ \A t \in Threads : pc[t] = "done"
    /\ idx' = [idx EXCEPT ![Main] = 0]
    /\ total' = [total EXCEPT ![Main] = 0]
    /\ Goto(Main, "audit")
    /\ UNCHANGED <<bankVars, lockVars, iter>>

\* The assertion on the total; the run without locks follows.
CheckTotal ==
    /\ pc[Main] = "assert"
    /\ total[Main] = KeyMax * Initial
    /\ Goto(Main, "work")
    /\ UNCHANGED <<bankVars, lockVars, iter, auditVars>>

Step(t) ==
    \/ \E s, d \in RandomKeys : deposit(t, s, d)
    \/ LockLow(t) \/ LockHigh(t)
    \/ ReadSource(t) \/ WriteSource(t) \/ ReadTarget(t) \/ WriteTarget(t)
    \/ UnlockLow(t) \/ UnlockHigh(t)
    \/ balance(t) \/ ReadLock(t) \/ Sum(t) \/ ReadUnlock(t)

Finished == \A t \in Actors : pc[t] = "done"

Next ==
    \/ \E t \in Actors : Step(t)
    \/ Join \/ CheckTotal
    \/ Finished /\ UNCHANGED vars

Spec == Init /\ [][Next]_vars

\* Every thread is scheduled, and a lock that stays free is granted.
FairSpec == Spec /\ (\A t \in Actors : WF_vars(Step(t))) /\ WF_vars(Join \/ CheckTotal)

-----------------------------------------------------------------------------
InFlight == {t \in Actors : pc[t] \in {"readTarget", "writeTarget"}}

(* No money is made or lost: what is missing from the accounts is what the *)
(* deposits in flight have taken from their source (tests.cc, line 138).   *)
MoneyConserved ==
    SumFunction(bal) + Amount * Cardinality(InFlight) = KeyMax * Initial

(* An audit returns the total of the bank, although it reads the accounts  *)
(* one by one while deposits go on (balance, tests.cc, line 95), and the   *)
(* assertion of main on its own audit holds (line 48).                     *)
AuditsAreExact ==
    /\ \A t \in Threads : pc[t] = "readUnlock" => total[t] = KeyMax * Initial
    /\ pc[Main] = "assert" => total[Main] = KeyMax * Initial

(* While an audit holds all its read locks no account changes.             *)
FrozenDuringAudit ==
    [][(\E t \in Threads : pc[t] = "sum") => bal' = bal]_vars

(* Everybody finishes: the ascending order of the locks rules out a cycle  *)
(* of deposits and audits that wait for each other.                        *)
EverybodyFinishes == <>Finished

-----------------------------------------------------------------------------
(* The inductive invariant behind FrozenDuringAudit. *)

HoldsLow(t) ==
    pc[t] \in {"lockHigh", "readSource", "writeSource", "readTarget", "writeTarget", "unlockLow"}
HoldsHigh(t) ==
    pc[t] \in {"readSource", "writeSource", "readTarget", "writeTarget", "unlockLow", "unlockHigh"}

WriteLocksOK ==
    \A t \in Threads :
        /\ HoldsLow(t) => writer[Low(t)] = t
        /\ HoldsHigh(t) => writer[High(t)] = t
        /\ pc[t] \in {"lockHigh", "unlockHigh"} => Low(t) # High(t)

ReadLocksOK ==
    \A t \in Threads :
        /\ pc[t] = "readLock" => \A b \in Locks : b < idx[t] => t \in readers[b]
        /\ pc[t] = "sum" => \A b \in Locks : t \in readers[b]
        /\ pc[t] = "readUnlock" => \A b \in Locks : b >= idx[t] => t \in readers[b]

IndicesOK ==
    \A t \in Actors :
        /\ pc[t] \in {"readLock", "readUnlock"} => idx[t] \in Locks
        /\ pc[t] \in {"sum", "audit"} => idx[t] \in Accounts
        /\ pc[t] \in {"writeSource", "readTarget", "writeTarget"} => KeyMax > 1

Exclusion == \A b \in Locks : writer[b] # NoOne => readers[b] = {}

MainAlone ==
    /\ pc[Main] # "join" => \A t \in Threads : pc[t] = "done"
    /\ pc[Main] \in {"join", "audit", "assert", "work", "readSource", "writeSource", "readTarget",
                     "writeTarget", "sum", "done"}
    /\ \A t \in Threads : pc[t] \notin {"join", "audit", "assert"}

IInv == TypeOK /\ WriteLocksOK /\ ReadLocksOK /\ IndicesOK /\ Exclusion /\ MainAlone

(* What conservation needs besides: a balance that was looked up is still  *)
(* the balance when it is written back, and an audit that is under way has *)
(* added up what the accounts it has passed hold now.                      *)
LookupsOK ==
    \A t \in Actors :
        /\ pc[t] = "writeSource" => got[t] = bal[src[t]]
        /\ pc[t] = "writeTarget" => got[t] = bal[dst[t]]

TotalsOK ==
    \A t \in Actors :
        /\ pc[t] = "readLock" => total[t] = 0
        /\ pc[t] \in {"sum", "audit"} => total[t] = SumFunctionOnSet(bal, 0 .. idx[t] - 1)

MoneyInv == IInv /\ LookupsOK /\ TotalsOK /\ MoneyConserved /\ AuditsAreExact
=============================================================================
