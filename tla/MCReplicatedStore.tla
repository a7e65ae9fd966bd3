-------------------------- MODULE MCReplicatedStore -------------------------
(* The replicated store for TLC. *)
EXTENDS ReplicatedStore

SomeElements == {<<1, 1>>, <<1, 2>>}
NonePopulated == [k \in Keys |-> NoVal]
OnePopulated == [k \in Keys |-> IF k = 1 THEN 1 ELSE NoVal]
=============================================================================
