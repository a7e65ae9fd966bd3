---------------------------- MODULE KMeansSerial ----------------------------
(***************************************************************************)
(* The serial k-means of K-Means/kmeans475-serial.cpp as a function of the *)
(* points that were drawn (solution.cpp is the same program with vector    *)
(* instructions), and what the parallel program of module KMeans computes  *)
(* compared with it.  The serial program does all its arithmetic with      *)
(* doubles: a center is a vector of sums and a number to divide them by,   *)
(* and no rounding is modelled.                                            *)
(***************************************************************************)
EXTENDS KMeans

VARIABLE seed       \* the points both programs draw; no step changes it

svars == <<kmeansVars, seed>>

SInit ==
    /\ KMeansInit
    /\ seed \in [Clusters -> Points]
    /\ \A c \in Clusters : members[c] = {seed[c]}

SNext == KMeansNext /\ UNCHANGED seed

SSpec == SInit /\ [][SNext]_svars
              /\ (\A p \in Points : WF_svars(Task(p) /\ UNCHANGED seed))
              /\ WF_svars(Recenter /\ UNCHANGED seed)

-----------------------------------------------------------------------------
\* A state of the serial program: the cluster of each point, the centers, and
\* whether the last pass moved no point.
Drawn ==
    [cluster |-> [p \in Points |-> IF \E c \in Clusters : seed[c] = p
                                   THEN CHOOSE c \in Clusters : seed[c] = p ELSE NoCluster],
     center |-> [c \in Clusters |-> [sum |-> Value[seed[c]], n |-> 1]],
     done |-> FALSE]

\* The square of the distance of p from a center, times n * n.
Far(m, p) == SumFunction([j \in Coords |-> (m.sum[j] - m.n * Value[p][j])
                                            * (m.sum[j] - m.n * Value[p][j])])

\* m is strictly nearer to p than l.
Nearer(p, m, l) == Far(m, p) * l.n * l.n < Far(l, p) * m.n * m.n

\* getIDNearestCenter: the first of the nearest centers.
Nearest(m, p) ==
    CHOOSE c \in Clusters :
        \A d \in Clusters : ~Nearer(p, m[d], m[c]) /\ (d < c => Nearer(p, m[c], m[d]))

\* The vector of a cluster, which addPoint and removePoint keep.
ClusterPoints(assigned, c) == {p \in Points : assigned[p] = c}

\* One pass: every point to its nearest center, then every center that has
\* points to their mean.
Pass(s) ==
    LET assigned == [p \in Points |-> Nearest(s.center, p)]
        Mean(c) == LET ps == ClusterPoints(assigned, c) IN
                   IF ps = {} THEN s.center[c]
                   ELSE [sum |-> [j \in Coords |-> SumFunction([p \in ps |-> Value[p][j]])],
                         n |-> Cardinality(ps)]
    IN  [cluster |-> assigned, center |-> [c \in Clusters |-> Mean(c)],
         done |-> assigned = s.cluster]

\* The state after n passes, or after the last one.
SerialRun ==
    LET run[n \in 0 .. MaxIter] ==
            IF n = 0 THEN Drawn ELSE IF run[n - 1].done THEN run[n - 1] ELSE Pass(run[n - 1])
    IN  run

(* The parallel program assigns the points as the serial one does and      *)
(* stops after the same iteration ("Implement a parallel version of the    *)
(* given serial k-means solution", instructions.txt:140).  It does not:    *)
(* it cuts differences and sums to ints (kmeans475-paralell.cpp, lines     *)
(* 175, 187 and 269 to 275).                                               *)
SameAsSerial ==
    AllFinished =>
        cluster = SerialRun[round].cluster /\ done = SerialRun[round].done
=============================================================================
