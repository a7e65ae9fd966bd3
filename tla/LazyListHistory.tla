-------------------------- MODULE LazyListHistory --------------------------
(***************************************************************************)
(* LazyList with two history variables, which the code does not have and   *)
(* no step of the list reads, and the refinement they are there for: the   *)
(* list is a linearizable set (LinSet).                                    *)
(***************************************************************************)
EXTENDS LazyList

Membership(k, S) == IF k \in S THEN "in" ELSE "out"

VARIABLES seen,   \* seen[t]: "in" / "out": arg[t] was in the set / was not since t's call
          alive   \* alive[t]: the nodes that were in the list at some time since

hvars == <<vars, seen, alive>>

HInit ==
    /\ Init
    /\ seen = [t \in Threads |-> {}]
    /\ alive = [t \in Threads |-> {}]

\* A call starts its history, every later step adds the new state to it.
Record ==
    /\ seen' = [t \in Threads |->
                  IF op'[t] = "none" THEN {} ELSE seen[t] \cup {Membership(arg'[t], AbsSet')}]
    /\ alive' = [t \in Threads |->
                  IF op'[t] = "none" THEN {} ELSE alive[t] \cup InList']

HNext == Next /\ Record

HSpec == HInit /\ [][HNext]_hvars

\* With the fairness of FairSpec, for liveness.
HFairSpec == HSpec /\ \A t \in Threads : WF_vars(Step(t))

-----------------------------------------------------------------------------
Abstract == INSTANCE LinSet WITH set <- AbsSet, call <- op

(* The list is a linearizable set: every answer was right at some instant  *)
(* of its call, an add or remove that answers TRUE took effect once and    *)
(* one that answers ABORT or FALSE not at all (ConcurrentList.cpp).        *)
Linearizable == Abstract!Spec

(* What the walk without locks rests on: whoever walks for a key that was  *)
(* in the set since its call only meets nodes that were in the list since  *)
(* its call, and none of them links past the key (contains, line 14).      *)
Hindsight ==
    \A t \in Threads : op[t] # "none" /\ "out" \notin seen[t] =>
        /\ \A n \in alive[t] :
              /\ key[n] < arg[t] => next[n] \in alive[t] /\ key[next[n]] <= arg[t]
              /\ key[n] = arg[t] => ~marked[n]
        /\ pc[t] = "search" => curr[t] \in alive[t] /\ key[curr[t]] <= arg[t]

(* The history is complete, and with it IInv and Hindsight are inductive. *)
HistoryOK ==
    /\ seen \in [Threads -> SUBSET {"in", "out"}]
    /\ alive \in [Threads -> SUBSET alloc]
    /\ \A t \in Threads :
          /\ op[t] = "none" => seen[t] = {} /\ alive[t] = {}
          /\ op[t] # "none" => Membership(arg[t], AbsSet) \in seen[t] /\ InList \subseteq alive[t]

HInv == IInv /\ HistoryOK /\ Hindsight
=============================================================================
