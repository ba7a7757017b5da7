----------------------------- MODULE WorkerGroup -----------------------------
(* The worker groups: one group of worker processes per resource pool.       *)
(*                                                                           *)
(* RayWorkerGroup._init_with_resource_pool sorts the pool's placement groups *)
(* by the address of their node and creates the workers in that order, so    *)
(* that a worker's rank, its name (group index and local rank) and its node  *)
(* hang together.  Rank 0 comes first: its constructor creates the register  *)
(* center, and the driver waits for that actor to appear, but not longer     *)
(* than ray_wait_register_center_timeout.  Then all others are created at    *)
(* once.  Each of them looks the center up and tells it its node, and        *)
(* returns from its constructor only after the center has answered.          *)
EXTENDS ResourcePools

CONSTANTS
    Ip,             \* the address of each node
    MaxDeaths       \* how many constructors may fail (bound of the model)

ASSUME IpAssumption == Ip \in [Nodes -> Nat]
ASSUME MaxDeathsAssumption == MaxDeaths \in Nat

VARIABLES
    order,      \* per pool, its group indices sorted by the node's address
    worker,     \* state of each worker: not created, starting, up or dead
    center,     \* per pool, whether its register center runs
    info,       \* what the centers know: the node of a rank, 0 if nothing
    deaths      \* how many constructors have failed

groupVars == <<order, worker, center, info, deaths>>

Ranks(p) == 0 .. WorldSize(p) - 1
Workers == UNION {{<<p, r>> : r \in Ranks(p)} : p \in Pools}

(* Where rank r was put: in the placement group that comes at place          *)
(* r \div bundle when they are sorted.  Its name has the same two parts.     *)
GroupIndex(p, r) == r \div job.bundle[p]
LocalRank(p, r) == r % job.bundle[p]
NodeOf(p, r) == loc[<<p, order[p][GroupIndex(p, r) + 1]>>]

(* sort_placement_group_by_node_ip: a stable sort by the node's address.     *)
SortedByIp(p, s) ==
    \A i, j \in Groups(p) :
        i < j => \/ Ip[loc[<<p, s[i]>>]] < Ip[loc[<<p, s[j]>>]]
                 \/ Ip[loc[<<p, s[i]>>]] = Ip[loc[<<p, s[j]>>]] /\ s[i] < s[j]

GroupInit ==
    /\ order = [p \in Pools |-> [i \in Groups(p) |-> i]]
    /\ worker = [w \in Workers |-> "none"]
    /\ center = [p \in Pools |-> FALSE]
    /\ info = [w \in Workers |-> 0]
    /\ deaths = 0

StartRankZero(p) ==
    /\ worker[<<p, 0>>] = "none"
    /\ \E s \in [Groups(p) -> Groups(p)] :
          /\ SortedByIp(p, s)
          /\ order' = [order EXCEPT ![p] = s]
    /\ worker' = [worker EXCEPT ![<<p, 0>>] = "starting"]
    /\ UNCHANGED <<center, info, deaths>>

CreateCenter(p) ==
    /\ worker[<<p, 0>>] = "starting"
    /\ ~center[p]
    /\ center' = [center EXCEPT ![p] = TRUE]
    /\ UNCHANGED <<order, worker, info, deaths>>

(* The driver has found the center; the remaining workers are created.       *)
StartOthers(p) ==
    /\ center[p]
    /\ worker' = [w \in Workers |->
                    IF w[1] = p /\ w[2] # 0 THEN "starting" ELSE worker[w]]
    /\ UNCHANGED <<order, center, info, deaths>>

(* The end of a worker's constructor: set_worker_info was answered.          *)
Register(p, r) ==
    /\ worker[<<p, r>>] = "starting"
    /\ center[p]
    /\ info' = [info EXCEPT ![<<p, r>>] = NodeOf(p, r)]
    /\ worker' = [worker EXCEPT ![<<p, r>>] = "up"]
    /\ UNCHANGED <<order, center, deaths>>

(* A constructor fails.  Rank 0 owns the register center, which ends with    *)
(* it.                                                                       *)
FailToStart(p, r) ==
    /\ worker[<<p, r>>] = "starting"
    /\ deaths < MaxDeaths
    /\ deaths' = deaths + 1
    /\ worker' = [worker EXCEPT ![<<p, r>>] = "dead"]
    /\ center' = [center EXCEPT ![p] = @ /\ r # 0]
    /\ UNCHANGED <<order, info>>

(* A worker that finds no center raises in its constructor.                  *)
FindNoCenter(p, r) ==
    /\ r # 0
    /\ worker[<<p, r>>] = "starting"
    /\ ~center[p]
    /\ worker' = [worker EXCEPT ![<<p, r>>] = "dead"]
    /\ UNCHANGED <<order, center, info, deaths>>

WorkerStep ==
    \E p \in Pools :
        \/ CreateCenter(p)
        \/ \E r \in Ranks(p) :
              Register(p, r) \/ FailToStart(p, r) \/ FindNoCenter(p, r)

(* A call on the whole group returns when every worker has answered, and     *)
(* raises as soon as one is dead.                                            *)
AllUp(p) == \A r \in Ranks(p) : worker[<<p, r>>] = "up"
SomeDead(p) == \E r \in Ranks(p) : worker[<<p, r>>] = "dead"

------------------------------------------------------------------------------

GroupTypeOK ==
    /\ DOMAIN order = Pools
    /\ \A p \in Pools : order[p] \in [Groups(p) -> Groups(p)]
    /\ worker \in [Workers -> {"none", "starting", "up", "dead"}]
    /\ center \in [Pools -> BOOLEAN]
    /\ info \in [Workers -> {0} \cup Nodes]
    /\ deaths \in 0 .. MaxDeaths
=============================================================================
