------------------------------ MODULE Barrier ------------------------------
(***************************************************************************)
(* The barrier in front of every measured run (DistributedKeyValueStore/   *)
(* Common/locks.hpp, and the same code in Banker, CuckooHash and           *)
(* ReplicatedKeyValueStoreRDMA): a counter under a mutex and a condition   *)
(* variable on which all but the last thread wait, once and not in a loop. *)
(*                                                                         *)
(* The condition variable is the pthread library's: a waiter wakes up when *)
(* the condition is broadcast, and must then take the mutex again.  POSIX  *)
(* lets it wake up at any other time too (SpuriousWakeup).                 *)
(***************************************************************************)
EXTENDS Integers, FiniteSets

CONSTANTS Crossers,    \* the threads that cross, as many as barrier_init is told
          Free,        \* the owner of a free mutex
          Rounds       \* how often each thread crosses

ASSUME BarrierAssumption ==
    /\ IsFiniteSet(Crossers) /\ Free \notin Crossers
    /\ Rounds \in Nat \ {0}

VARIABLES crossing,        \* barrier.crossing
          mutex,           \* the owner of barrier.mutex
          place,           \* where each thread is
          arrived, left    \* how often each thread has arrived and left

barrierVars == <<crossing, mutex, place, arrived, left>>

count == Cardinality(Crossers)

BarrierTypeOK ==
    /\ crossing \in 0 .. count
    /\ mutex \in Crossers \cup {Free}
    /\ place \in [Crossers -> {"outside", "enter", "inside", "waiting", "woken", "leave", "done"}]
    /\ arrived \in [Crossers -> 0 .. Rounds]
    /\ left \in [Crossers -> 0 .. Rounds]

\* barrier_init(count)
barrier_init ==
    /\ crossing = 0
    /\ mutex = Free
    /\ place = [t \in Crossers |-> "outside"]
    /\ arrived = [t \in Crossers |-> 0]
    /\ left = [t \in Crossers |-> 0]

\* The call of barrier_cross.
Arrive(t) ==
    /\ place[t] = "outside"
    /\ arrived' = [arrived EXCEPT ![t] = @ + 1]
    /\ place' = [place EXCEPT ![t] = "enter"]
    /\ UNCHANGED <<crossing, mutex, left>>

\* pthread_mutex_lock, or the end of pthread_cond_wait.
TakeMutex(t) ==
    /\ place[t] \in {"enter", "woken"}
    /\ mutex = Free
    /\ mutex' = t
    /\ place' = [place EXCEPT ![t] = IF place[t] = "enter" THEN "inside" ELSE "leave"]
    /\ UNCHANGED <<crossing, arrived, left>>

\* One more thread through: not all here, wait and release the mutex.
CrossAndWait(t) ==
    /\ place[t] = "inside"
    /\ crossing + 1 < count
    /\ crossing' = crossing + 1
    /\ mutex' = Free
    /\ place' = [place EXCEPT ![t] = "waiting"]
    /\ UNCHANGED <<arrived, left>>

CrossAndRelease_Early(t) ==
    /\ place[t] = "inside"
    /\ crossing + 2 >= count
    /\ crossing' = 0
    /\ place' = [u \in Crossers |-> IF u = t THEN "leave"
                                ELSE IF place[u] = "waiting" THEN "woken" ELSE place[u]]
    /\ UNCHANGED <<mutex, arrived, left>>

CrossAndRelease_Signal(t) ==
    /\ place[t] = "inside"
    /\ crossing + 1 >= count
    /\ crossing' = 0
    /\ \E w \in {u \in Crossers : place[u] = "waiting"} :
          place' = [place EXCEPT ![t] = "leave", ![w] = "woken"]
    /\ UNCHANGED <<mutex, arrived, left>>

\* One more thread through: the last one wakes the others and resets the counter.
CrossAndRelease(t) ==
    /\ place[t] = "inside"
    /\ crossing + 1 >= count
    /\ crossing' = 0
    /\ place' = [u \in Crossers |-> IF u = t THEN "leave"
                                ELSE IF place[u] = "waiting" THEN "woken" ELSE place[u]]
    /\ UNCHANGED <<mutex, arrived, left>>

SpuriousWakeup(t) ==
    /\ place[t] = "waiting"
    /\ place' = [place EXCEPT ![t] = "woken"]
    /\ UNCHANGED <<crossing, mutex, arrived, left>>

\* pthread_mutex_unlock and the return from barrier_cross.
Leave(t) ==
    /\ place[t] = "leave"
    /\ mutex' = Free
    /\ left' = [left EXCEPT ![t] = @ + 1]
    /\ place' = [place EXCEPT ![t] = IF arrived[t] < Rounds THEN "outside" ELSE "done"]
    /\ UNCHANGED <<crossing, arrived>>

barrier_cross(t) ==
    Arrive(t) \/ TakeMutex(t) \/ CrossAndWait(t) \/ CrossAndRelease(t) \/ Leave(t)

AllCrossed == \A t \in Crossers : place[t] = "done"

BarrierNext ==
    \/ \E t \in Crossers : barrier_cross(t)
    \/ AllCrossed /\ UNCHANGED barrierVars

BarrierSpec == barrier_init /\ [][BarrierNext]_barrierVars

\* Every thread is scheduled; a free mutex is granted.
FairBarrierSpec == BarrierSpec /\ \A t \in Crossers : WF_barrierVars(barrier_cross(t))

\* With all the wake-ups POSIX allows.
PosixSpec == barrier_init /\ [][BarrierNext \/ \E t \in Crossers : SpuriousWakeup(t)]_barrierVars

-----------------------------------------------------------------------------
(* Nobody leaves the barrier for the n-th time before everybody has        *)
(* arrived for the n-th time: "If not all here, wait" (locks.hpp:29).      *)
NobodyLeavesEarly == \A t, u \in Crossers : left[t] <= arrived[u]

(* Everybody gets through: no wake-up is lost and the mutex comes back.    *)
EverybodyCrosses == <>AllCrossed

-----------------------------------------------------------------------------
(* The inductive invariant behind NobodyLeavesEarly: all threads are in    *)
(* the same crossing.  After g releases whoever is between calls has left  *)
(* g times, whoever has arrived since is waiting for the next release, and *)
(* whoever is still on its way out was let go by the last one.             *)
Generation(g) ==
    \A t \in Crossers :
        /\ place[t] \in {"outside", "done"} => arrived[t] = g /\ left[t] = g
        /\ place[t] \in {"enter", "inside", "waiting"} => arrived[t] = g + 1 /\ left[t] = g
        /\ place[t] \in {"woken", "leave"} => arrived[t] = g /\ left[t] = g - 1

Waiters == {t \in Crossers : place[t] = "waiting"}

BarrierInv ==
    /\ BarrierTypeOK
    /\ \A t \in Crossers : place[t] = "outside" => arrived[t] < Rounds
    /\ crossing = Cardinality(Waiters)
    /\ \E g \in 0 .. Rounds : Generation(g)
=============================================================================
