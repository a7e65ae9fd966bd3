------------------------------- MODULE LinSet -------------------------------
(***************************************************************************)
(* What a concurrent set of integers promises to its callers, whatever     *)
(* data structure is behind it: every operation takes effect at one        *)
(* instant between its call and its return.                                *)
(*                                                                         *)
(* An operation that changes the set does so in a step of its own          *)
(* (AddEffect, RemoveEffect).  An operation that changes nothing answers   *)
(* with a value that was right at some instant of its call: seen[t] holds  *)
(* "in" if t's key was in the set, and "out" if it was not, since t's call.*)
(* An update may also give up (ABORT), and then it changes nothing.        *)
(***************************************************************************)
CONSTANTS Threads,      \* the callers
          Keys,         \* the keys they pass
          NoKey         \* the argument of a caller that is not in a call

VARIABLES set,          \* the keys in the set
          call,         \* call[t]: the operation t is in, "none" outside a call
          arg,          \* arg[t]: its key
          seen,         \* seen[t]: what was true of its key since the call
          res           \* res[t]: the outcome decided for t's call, or "none"

vars == <<set, call, arg, seen, res>>

Ops == {"contains", "add", "remove"}
Outcomes == {"TRUE", "FALSE", "ABORT"}

Membership(k, S) == IF k \in S THEN "in" ELSE "out"

Init ==
    /\ set = {}
    /\ call = [t \in Threads |-> "none"]
    /\ arg = [t \in Threads |-> NoKey]
    /\ seen = [t \in Threads |-> {}]
    /\ res = [t \in Threads |-> "none"]

Invoke(t, o, k) ==
    /\ call[t] = "none"
    /\ call' = [call EXCEPT ![t] = o]
    /\ arg' = [arg EXCEPT ![t] = k]
    /\ seen' = [seen EXCEPT ![t] = {Membership(k, set)}]
    /\ UNCHANGED <<set, res>>

\* The calls in progress on key k see that its membership is now m.
Witness(k, m) ==
    seen' = [u \in Threads |->
                IF call[u] # "none" /\ arg[u] = k THEN seen[u] \cup {m} ELSE seen[u]]

AddEffect(t) ==
    /\ call[t] = "add" /\ res[t] = "none"
    /\ arg[t] \notin set
    /\ set' = set \cup {arg[t]}
    /\ Witness(arg[t], "in")
    /\ res' = [res EXCEPT ![t] = "TRUE"]
    /\ UNCHANGED <<call, arg>>

RemoveEffect(t) ==
    /\ call[t] = "remove" /\ res[t] = "none"
    /\ arg[t] \in set
    /\ set' = set \ {arg[t]}
    /\ Witness(arg[t], "out")
    /\ res' = [res EXCEPT ![t] = "TRUE"]
    /\ UNCHANGED <<call, arg>>

\* The outcomes a call that changes nothing may have.
Admissible(t, r) ==
    \/ call[t] = "contains" /\ r = "TRUE" /\ "in" \in seen[t]
    \/ call[t] = "contains" /\ r = "FALSE" /\ "out" \in seen[t]
    \/ call[t] = "add" /\ r = "FALSE" /\ "in" \in seen[t]
    \/ call[t] = "remove" /\ r = "FALSE" /\ "out" \in seen[t]
    \/ call[t] \in {"add", "remove"} /\ r = "ABORT"

Decide(t, r) ==
    /\ res[t] = "none"
    /\ Admissible(t, r)
    /\ res' = [res EXCEPT ![t] = r]
    /\ UNCHANGED <<set, call, arg, seen>>

Return(t) ==
    /\ call[t] # "none" /\ res[t] # "none"
    /\ call' = [call EXCEPT ![t] = "none"]
    /\ arg' = [arg EXCEPT ![t] = NoKey]
    /\ seen' = [seen EXCEPT ![t] = {}]
    /\ res' = [res EXCEPT ![t] = "none"]
    /\ set' = set

Next ==
    \E t \in Threads :
        \/ \E o \in Ops, k \in Keys : Invoke(t, o, k)
        \/ AddEffect(t)
        \/ RemoveEffect(t)
        \/ \E r \in Outcomes : Decide(t, r)
        \/ Return(t)

Spec == Init /\ [][Next]_vars
=============================================================================
