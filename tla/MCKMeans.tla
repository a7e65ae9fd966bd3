------------------------------ MODULE MCKMeans ------------------------------
(* Parallel k-means for TLC: points in the plane, in halves. *)
EXTENDS KMeansSerial

FourPoints == 0 .. 3
HalfValue == [p \in FourPoints |-> CASE p = 0 -> <<-2, -5>> [] p = 1 -> <<7, -8>>
                                     [] p = 2 -> <<4, 5>>   [] p = 3 -> <<-8, 6>>]
=============================================================================
