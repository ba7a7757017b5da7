---------------------------- MODULE ResourcePools ----------------------------
(* Resource pools: whether the cluster can hold them, and where Ray puts     *)
(* them.                                                                     *)
(*                                                                           *)
(* A job names its pools with the GPUs each of their placement groups needs  *)
(* on one node (bundle) and how many such groups there are (width).  Before  *)
(* anything is created, ResourcePoolManager._check_resource_available adds   *)
(* up the GPUs and then walks, pool by pool, over the nodes in the order Ray *)
(* lists them, booking one group on each node that still has room.  Nothing  *)
(* it books is kept: Ray is later asked for the groups of one pool at a time *)
(* and puts each of them on any node with enough free GPUs, two on the same  *)
(* node if it likes.                                                         *)
EXTENDS Naturals, Sequences, FiniteSets, FiniteSetsExt

CONSTANTS
    NodeCount,  \* the number of nodes
    Clusters,   \* the free GPUs the nodes may have
    Jobs        \* the pools a job may ask for, with the engines' group size

(* The nodes, in the order in which Ray lists them.                          *)
Nodes == 1 .. NodeCount

ASSUME NodeCountAssumption == NodeCount \in Nat \ {0}
ASSUME ClustersAssumption == Clusters \subseteq [Nodes -> Nat]
ASSUME JobsAssumption ==
    \A j \in Jobs : /\ j.bundle \in Seq(Nat \ {0})
                    /\ j.width \in Seq(Nat \ {0})
                    /\ Len(j.bundle) = Len(j.width)
                    /\ Len(j.bundle) > 0
                    /\ j.tp \in Nat \ {0}

VARIABLES
    job,        \* the pools of this job
    gpus,       \* the free GPUs of the nodes when the job starts
    avail,      \* the check's own count of what is left on each node
    pool,       \* the pool the check looks at
    node,       \* the node it looks at
    left,       \* how many groups of the pool it has not booked yet
    verdict,    \* what the check has come to
    loc,        \* the node of each placement group, 0 while it waits
    free        \* the GPUs Ray has not given to a placement group

poolVars == <<job, gpus, avail, pool, node, left, verdict, loc, free>>
checkVars == <<avail, pool, node, left, verdict>>

Pools == 1 .. Len(job.bundle)
Groups(p) == 1 .. job.width[p]
WorldSize(p) == job.bundle[p] * job.width[p]

(* The placement groups of all pools of the job: pairs of pool and index.    *)
PlacementGroups == UNION {{<<p, i>> : i \in Groups(p)} : p \in Pools}

TotalFree == MapThenSumSet(LAMBDA n : gpus[n], Nodes)
TotalAsked == MapThenSumSet(WorldSize, Pools)

PoolsInit ==
    /\ job \in Jobs
    /\ gpus \in Clusters
    /\ avail = gpus
    /\ pool = 1
    /\ node = 1
    /\ left = job.width[1]
    /\ verdict = "unchecked"
    /\ loc = [g \in PlacementGroups |-> 0]
    /\ free = gpus

CheckTotal ==
    /\ verdict = "unchecked"
    /\ verdict' = IF TotalFree < TotalAsked THEN "refused" ELSE "fitting"
    /\ UNCHANGED <<job, gpus, avail, pool, node, left, loc, free>>

HasAnyRoom(n) == avail[n] > 0                       \* without the size
HasRoom(n) == avail[n] >= job.bundle[pool]

NotBooked == avail                                  \* the count is not kept
Booked == [avail EXCEPT ![node] = @ - job.bundle[pool]]

(* The next node has room: a group of the pool is booked on it.  The last    *)
(* group of a pool ends the walk, and the next pool starts at the first      *)
(* node again.                                                               *)
Book ==
    /\ verdict = "fitting"
    /\ node \in Nodes
    /\ HasRoom(node)
    /\ avail' = Booked
    /\ IF left > 1
       THEN left' = left - 1 /\ node' = node + 1 /\ UNCHANGED <<pool, verdict>>
       ELSE IF pool < Len(job.bundle)
            THEN /\ pool' = pool + 1
                 /\ node' = 1
                 /\ left' = job.width[pool + 1]
                 /\ UNCHANGED verdict
            ELSE /\ left' = 0
                 /\ verdict' = "accepted"
                 /\ UNCHANGED <<pool, node>>
    /\ UNCHANGED <<job, gpus, loc, free>>

PassOver ==
    /\ verdict = "fitting"
    /\ node \in Nodes
    /\ ~HasRoom(node)
    /\ node' = node + 1
    /\ UNCHANGED <<job, gpus, avail, pool, left, verdict, loc, free>>

Refuse ==
    /\ verdict = "fitting"
    /\ node \notin Nodes
    /\ verdict' = "refused"
    /\ UNCHANGED <<job, gpus, avail, pool, node, left, loc, free>>

CheckStep == CheckTotal \/ Book \/ PassOver \/ Refuse

(* Ray: a group that was asked for is packed on one node.                    *)
PlaceGroup(p) ==
    /\ \E i \in Groups(p), n \in Nodes :
          /\ loc[<<p, i>>] = 0
          /\ free[n] >= job.bundle[p]
          /\ loc' = [loc EXCEPT ![<<p, i>>] = n]
          /\ free' = [free EXCEPT ![n] = @ - job.bundle[p]]
    /\ UNCHANGED <<job, gpus>>
    /\ UNCHANGED checkVars

Placed(p) == \A i \in Groups(p) : loc[<<p, i>>] # 0

------------------------------------------------------------------------------

PoolsTypeOK ==
    /\ job \in Jobs
    /\ gpus \in Clusters
    /\ avail \in [Nodes -> Nat]
    /\ pool \in Pools
    /\ node \in Nat
    /\ left \in Nat
    /\ verdict \in {"unchecked", "fitting", "accepted", "refused"}
    /\ loc \in [PlacementGroups -> {0} \cup Nodes]
    /\ free \in [Nodes -> Nat]

EqualBundles == \A p, q \in Pools : job.bundle[p] = job.bundle[q]

(* The GPUs of a node that a group of pool p has when its first one is i.    *)
GpusOf(p, i) == i .. i + job.bundle[p] - 1

(* PoolsFit: when the check accepts a job, its pools can all be held at      *)
(* once: nodes can be chosen for every pool, as many different ones as it    *)
(* has groups, such that the groups which meet on a node have GPUs of their  *)
(* own there, and the node has these                                         *)
(* (ResourcePoolManager._check_resource_available, whose walk must not count *)
(* a GPU for two pools).                                                     *)
PoolsFit ==
    verdict = "accepted" =>
        \E on \in [Pools -> SUBSET Nodes] :
            /\ \A p \in Pools : Cardinality(on[p]) = job.width[p]
            /\ \A n \in Nodes : \E first \in [Pools -> 0 .. gpus[n]] :
                  \A p \in Pools : n \in on[p] =>
                      /\ GpusOf(p, first[p]) \subseteq 0 .. gpus[n] - 1
                      /\ \A q \in Pools \ {p} :
                            n \in on[q] => GpusOf(p, first[p]) \cap GpusOf(q, first[q]) = {}
=============================================================================
