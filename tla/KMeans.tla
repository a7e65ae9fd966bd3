------------------------------- MODULE KMeans -------------------------------
(***************************************************************************)
(* The parallel k-means of K-Means/kmeans475-paralell.cpp.  An iteration   *)
(* assigns every point to its nearest center, one task per point (the      *)
(* simple_partitioner splits down to single points), and then moves the    *)
(* centers.  A task takes its point out of one cluster and puts it into    *)
(* another, each time under the lock of that cluster.                      *)
(*                                                                         *)
(* A vector of points is a set of point numbers; push_back and erase read  *)
(* it in one step and write it in another.  Coordinates and centers are    *)
(* doubles, here multiples of 1/Unit; the program cuts them to ints of     *)
(* Width bits at every difference and at every addition, and multiplies    *)
(* and adds the ints modulo 2^Width.                                       *)
(***************************************************************************)
EXTENDS Integers, FiniteSets, Functions

CONSTANTS Points,     \* the numbers of the points
          Dim,        \* total_values
          Value,      \* Value[p][j]: coordinate j of point p, times Unit
          Unit,       \* what stands for 1.0
          Width,      \* the bits of an int
          K,          \* the number of clusters
          MaxIter,    \* max_iterations
          Nobody,     \* the owner of a free lock
          NoCluster   \* the cluster of a point before its first assignment: -1

Clusters == 0 .. K - 1
Coords == 1 .. Dim

ASSUME KMeansAssumption ==
    /\ IsFiniteSet(Points) /\ Nobody \notin Points
    /\ Dim \in Nat \ {0} /\ Value \in [Points -> [Coords -> Int]]
    /\ Unit \in Nat \ {0} /\ Width \in Nat \ {0}
    /\ K \in Nat \ {0} /\ K <= Cardinality(Points)   \* run returns at once otherwise
    /\ MaxIter \in Nat \ {0} /\ NoCluster \notin Clusters

VARIABLES cluster,    \* cluster[p]: id_cluster of point p
          members,    \* members[c]: the points of cluster c
          center,     \* center[c][j]: central_values of cluster c
          lock,       \* tsx_mtx
          task,       \* where the task of each point is
          target,     \* id_nearest_center
          copy,       \* the vector the task has read and will write
          done, ended,
          round       \* iter

taskVars == <<task, target, copy>>
loopVars == <<center, round, ended>>
kmeansVars == <<cluster, members, center, lock, task, target, copy, done, round, ended>>

KMeansTypeOK ==
    /\ cluster \in [Points -> Clusters \cup {NoCluster}]
    /\ members \in [Clusters -> SUBSET Points]
    /\ center \in [Clusters -> [Coords -> Int]]
    /\ lock \in [Clusters -> Points \cup {Nobody}]
    /\ task \in [Points -> {"ready", "leave", "leaving", "join", "joining", "finished"}]
    /\ target \in [Points -> Clusters]
    /\ copy \in [Points -> SUBSET Points]
    /\ done \in BOOLEAN /\ ended \in BOOLEAN
    /\ round \in 1 .. MaxIter

-----------------------------------------------------------------------------
\* K different points, drawn at random, become the centers of the clusters.
KMeansInit ==
    /\ \E seed \in [Clusters -> Points] :
          /\ \A c, d \in Clusters : c # d => seed[c] # seed[d]
          /\ members = [c \in Clusters |-> {seed[c]}]
          /\ center = [c \in Clusters |-> Value[seed[c]]]
          /\ cluster \in [Points -> Clusters \cup {NoCluster}]
          /\ \A p \in Points, c \in Clusters : cluster[p] = c <=> p = seed[c]
    /\ lock = [c \in Clusters |-> Nobody]
    /\ task = [p \in Points |-> "ready"]
    /\ target = [p \in Points |-> 0]
    /\ copy = [p \in Points |-> {}]
    /\ done = TRUE /\ round = 1 /\ ended = FALSE

\* Division of C++: towards zero.
Quotient(a, n) == IF a >= 0 THEN a \div n ELSE -((-a) \div n)

MinInt == -(2 ^ (Width - 1))

\* A double is cut to an int, or becomes MinInt when that is too large (the
\* instruction the compiler uses); an int that overflows wraps around.
Cut(x) == LET n == Quotient(x, Unit) IN IF MinInt <= n /\ n < -MinInt THEN n ELSE MinInt
Wrap(n) == ((n - MinInt) % (2 ^ Width)) + MinInt

\* The sum of the squares, whose root has the same order.  The root of a
\* negative sum is not a number.
Distance(p, c) ==
    SumFunction([j \in Coords |-> LET val == Cut(center[c][j] - Value[p][j]) IN Wrap(val * val)])

\* getIDNearestCenter returns c: the first of the nearest centers, skipping those
\* whose distance is not a number; but no distance is less than that of center 0
\* if that one is not a number.
IDNearestCenter(p, c) ==
    IF Distance(p, 0) < 0 THEN c = 0
    ELSE /\ Distance(p, c) >= 0
         /\ \A d \in Clusters :
               \/ Distance(p, d) < 0 \/ Distance(p, c) < Distance(p, d)
               \/ Distance(p, c) = Distance(p, d) /\ c <= d

\* The body of the loop for point p: nothing to do, or a new cluster.
Examine(p) ==
    /\ task[p] = "ready" /\ ~ended
    /\ \E c \in Clusters :
          /\ IDNearestCenter(p, c)
          /\ target' = [target EXCEPT ![p] = c]
          /\ task' = [task EXCEPT ![p] = CASE c = cluster[p] -> "finished"
                                          [] c # cluster[p] /\ cluster[p] = NoCluster -> "join"
                                          [] c # cluster[p] /\ cluster[p] # NoCluster -> "leave"]
    /\ UNCHANGED <<cluster, members, lock, copy, done, loopVars>>

\* Mutant: the lock of a cluster is taken although a task holds it.
Take_NoWait(p, c) ==
    /\ lock' = [lock EXCEPT ![c] = p]
    /\ copy' = [copy EXCEPT ![p] = members[c]]

\* LOCK, and the vector is read; then it is written, and UNLOCK.
Take(p, c) ==
    /\ lock[c] = Nobody
    /\ lock' = [lock EXCEPT ![c] = p]
    /\ copy' = [copy EXCEPT ![p] = members[c]]

\* Mutant: the lock is not given back.
Put_Locked(c, S) ==
    /\ members' = [members EXCEPT ![c] = S]
    /\ lock' = lock

Put(c, S) ==
    /\ members' = [members EXCEPT ![c] = S]
    /\ lock' = [lock EXCEPT ![c] = Nobody]

\* safeRemovePoint on the old cluster.
LeaveCluster(p) ==
    /\ task[p] = "leave"
    /\ Take(p, cluster[p])
    /\ task' = [task EXCEPT ![p] = "leaving"]
    /\ UNCHANGED <<cluster, members, target, done, loopVars>>

LeftCluster(p) ==
    /\ task[p] = "leaving"
    /\ Put(cluster[p], copy[p] \ {p})
    /\ task' = [task EXCEPT ![p] = "join"]
    /\ UNCHANGED <<cluster, target, copy, done, loopVars>>

\* setCluster, and safeAddPoint on the new cluster.
JoinCluster(p) ==
    /\ task[p] = "join"
    /\ Take(p, target[p])
    /\ cluster' = [cluster EXCEPT ![p] = target[p]]
    /\ task' = [task EXCEPT ![p] = "joining"]
    /\ UNCHANGED <<members, target, done, loopVars>>

\* Mutant: the change is not recorded.
JoinedCluster_Silent(p) ==
    /\ task[p] = "joining"
    /\ Put(cluster[p], copy[p] \cup {p})
    /\ task' = [task EXCEPT ![p] = "finished"]
    /\ UNCHANGED <<cluster, target, copy, done, loopVars>>

JoinedCluster(p) ==
    /\ task[p] = "joining"
    /\ Put(cluster[p], copy[p] \cup {p})
    /\ done' = FALSE
    /\ task' = [task EXCEPT ![p] = "finished"]
    /\ UNCHANGED <<cluster, target, copy, loopVars>>

-----------------------------------------------------------------------------
AllFinished == \A p \in Points : task[p] = "finished"

\* What parallel_reduce can return for coordinate j of the points S.  The order
\* of a vector and the way the range is split depend on the scheduler: a point is
\* added to a running total, which is cut, or two totals are added.
Totals ==
    [j \in Coords |->
        LET total[S \in SUBSET Points] ==
                IF S = {} THEN {0}
                ELSE UNION {{Cut(Unit * r + Value[p][j]) : r \in total[S \ {p}]} : p \in S}
                     \cup UNION {{Wrap(a + b) : a \in total[T], b \in total[S \ T]} :
                                 T \in (SUBSET S) \ {{}, S}}
        IN  total]

\* The possible new centers of c: the mean of its points as an int; an empty
\* cluster keeps its center.
Recentered(c) ==
    LET Mean(j) == {Unit * Quotient(sum, Cardinality(members[c])) : sum \in Totals[j][members[c]]}
    IN  IF members[c] = {} THEN {center[c]}
        ELSE {x \in [Coords -> UNION {Mean(j) : j \in Coords}] : \A j \in Coords : x[j] \in Mean(j)}

\* The end of an iteration, when parallel_for has returned.
Recenter ==
    /\ ~ended /\ AllFinished
    /\ center' \in [Clusters -> UNION {Recentered(c) : c \in Clusters}]
    /\ \A c \in Clusters : center'[c] \in Recentered(c)
    /\ IF done \/ round >= MaxIter
       THEN ended' = TRUE /\ UNCHANGED <<task, done, round>>
       ELSE /\ round' = round + 1
            /\ done' = TRUE
            /\ task' = [p \in Points |-> "ready"]
            /\ ended' = ended
    /\ UNCHANGED <<cluster, members, lock, target, copy>>

Task(p) == Examine(p) \/ LeaveCluster(p) \/ LeftCluster(p) \/ JoinCluster(p) \/ JoinedCluster(p)

KMeansNext ==
    \/ \E p \in Points : Task(p)
    \/ Recenter
    \/ ended /\ UNCHANGED kmeansVars

KMeansSpec == KMeansInit /\ [][KMeansNext]_kmeansVars

\* The task scheduler runs every task; a free lock is granted.
FairKMeansSpec == KMeansSpec /\ (\A p \in Points : WF_kmeansVars(Task(p))) /\ WF_kmeansVars(Recenter)

-----------------------------------------------------------------------------
(* When the tasks of an iteration are over, each point is in the cluster   *)
(* it says it is in and in no other: no concurrent push_back or erase was  *)
(* lost (safeAddPoint, safeRemovePoint, lines 116 to 126).                 *)
Partition ==
    AllFinished => \A p \in Points, c \in Clusters : p \in members[c] <=> cluster[p] = c

(* The center of c comes from the points that are in c now, or c is as it  *)
(* was drawn.                                                              *)
Centered(c) ==
    center[c] \in Recentered(c) \/ \E p \in Points : members[c] = {p} /\ center[c] = Value[p]

(* An iteration that ends with done, after which the run stops, has found  *)
(* a fixed point ("perfect clusters", line 241): each center comes from    *)
(* the points its cluster has, and each point is in the cluster of the     *)
(* center that the program takes for the nearest one.  The centers are     *)
(* then computed once more from the same points; as the sums are cut at    *)
(* every addition they need not come out the same.                         *)
PerfectClusters ==
    done /\ AllFinished =>
        /\ \A c \in Clusters : Centered(c)
        /\ ~ended => \A p \in Points : IDNearestCenter(p, cluster[p])

(* run returns.                                                            *)
Terminates == <>ended

-----------------------------------------------------------------------------
(* The inductive invariant behind Partition: where the task of a point is  *)
(* tells which clusters hold the point, and a copy is fresh as long as its *)
(* task holds the lock.                                                    *)
TasksOK ==
    /\ cluster \in [Points -> Clusters \cup {NoCluster}]
    /\ members \in [Clusters -> SUBSET Points]
    /\ lock \in [Clusters -> Points \cup {Nobody}]
    /\ task \in [Points -> {"ready", "leave", "leaving", "join", "joining", "finished"}]
    /\ target \in [Points -> Clusters]
    /\ copy \in [Points -> SUBSET Points]
    /\ \A p \in Points : task[p] \in {"leave", "leaving", "joining", "finished"} => cluster[p] \in Clusters

MembersOK ==
    \A p \in Points, c \in Clusters :
        p \in members[c] <=> cluster[p] = c /\ task[p] \notin {"join", "joining"}

CopiesOK ==
    \A p \in Points : task[p] \in {"leaving", "joining"} =>
        lock[cluster[p]] = p /\ copy[p] = members[cluster[p]]

ClusterInv == TasksOK /\ MembersOK /\ CopiesOK

(* Behind PerfectClusters: a task whose point is on its way between two    *)
(* clusters will record the change, and until one does the centers are     *)
(* those of the members and every finished point has the nearest one.      *)
CentersOK ==
    done /\ (\A p \in Points : task[p] \notin {"join", "joining"}) =>
        \A c \in Clusters : Centered(c)

NearestOK ==
    /\ ~ended => \A p \in Points : done /\ task[p] = "finished" => IDNearestCenter(p, cluster[p])
    /\ ended => AllFinished

CenterInv == CentersOK /\ NearestOK
=============================================================================
