----------------------------- MODULE MCInfinity -----------------------------
(* The RDMA library for TLC. *)
EXTENDS Infinity, TLC

CONSTANT w1

OneWorker == {w1}
=============================================================================
