------------------------------- MODULE BringUp -------------------------------
(* Bringing a training job up: RayPPOTrainer.init_workers drives the pools,  *)
(* the worker groups and the server manager, which run beside it.            *)
(*                                                                           *)
(* The driver checks the cluster, then takes the pools in order: it asks Ray *)
(* for the placement groups of a pool and waits for them, without a timeout; *)
(* creates rank 0 and waits for the register center, with one; and creates   *)
(* the other workers.  Then it initialises the models, those of the actor's  *)
(* pool last, and lets the server manager start its servers, their engines   *)
(* and the thread of the chat scheduler, whose constructor may raise.        *)
EXTENDS ServerManager

VARIABLES
    driver,     \* what the driver is doing
    at,         \* the pool it does it for
    scheduler   \* the chat scheduler: none, ready, or broken

vars == <<poolVars, groupVars, serverVars, driver, at, scheduler>>

Init ==
    /\ PoolsInit
    /\ GroupInit
    /\ ServersInit
    /\ driver = "check"
    /\ at = 1
    /\ scheduler = "none"

Only(d) == driver = d /\ UNCHANGED <<at, scheduler>>
GoTo(d) == driver' = d /\ UNCHANGED <<at, scheduler>>

CheckPools ==
    /\ Only("check")
    /\ CheckStep
    /\ driver' = CASE verdict' = "accepted" -> "place"
                   [] verdict' = "refused" -> "failed"
                   [] OTHER -> "check"
    /\ UNCHANGED <<groupVars, serverVars>>

RayPlaces ==
    /\ Only("place")
    /\ PlaceGroup(at)
    /\ UNCHANGED <<driver, groupVars, serverVars>>

CreateRankZero ==
    /\ driver = "place"
    /\ Placed(at)
    /\ StartRankZero(at)
    /\ GoTo("center")
    /\ UNCHANGED <<poolVars, serverVars>>

(* The register center is there: the group is created, and the next pool's   *)
(* turn comes.                                                               *)
CreateOthers ==
    /\ driver = "center"
    /\ StartOthers(at)
    /\ IF at < Len(job.bundle)
       THEN at' = at + 1 /\ driver' = "place"
       ELSE at' = at /\ driver' = "models"
    /\ UNCHANGED <<poolVars, serverVars, scheduler>>

CenterTimeout ==
    /\ driver = "center"
    /\ ~center[at]
    /\ GoTo("failed")
    /\ UNCHANGED <<poolVars, groupVars, serverVars>>

(* init_model of the pools, the actor's last.  It is there that the group    *)
(* size of the engines is found not to divide the number of workers.         *)
InitModel ==
    /\ driver = "models"
    /\ AllUp(at)
    /\ IF at # ActorPool
       THEN at' = at - 1 /\ driver' = "models"
       ELSE /\ at' = at
            /\ driver' = IF WorldSize(ActorPool) % Tp = 0 THEN "servers" ELSE "failed"
    /\ UNCHANGED <<poolVars, groupVars, serverVars, scheduler>>

ModelRaises ==
    /\ driver = "models"
    /\ SomeDead(at)
    /\ GoTo("failed")
    /\ UNCHANGED <<poolVars, groupVars, serverVars>>

AskServers ==
    /\ Only("servers")
    /\ AskStep
    /\ driver' = IF unready' = {} THEN "engines" ELSE "servers"
    /\ UNCHANGED <<poolVars, groupVars>>

EnginesReadyDespiteErrors ==                        \* exceptions are returned
    /\ driver = "engines"
    /\ \A d \in DpRanks : server[d] \in {"serving", "dead"}
    /\ GoTo("scheduler")
    /\ UNCHANGED <<poolVars, groupVars, serverVars>>

(* ray.get over init_engine of all servers: it returns when all have         *)
(* answered, and raises when one is dead.                                    *)
EnginesReady ==
    /\ driver = "engines"
    /\ \A d \in DpRanks : server[d] = "serving"
    /\ GoTo("scheduler")
    /\ UNCHANGED <<poolVars, groupVars, serverVars>>

EngineRaises ==
    /\ driver = "engines"
    /\ \E d \in DpRanks : server[d] = "dead"
    /\ GoTo("failed")
    /\ UNCHANGED <<poolVars, groupVars, serverVars>>

SchedulerReadyUnlessBroken ==                       \* no finally
    /\ driver = "scheduler"
    /\ scheduler = "none"
    /\ scheduler' \in {"ready", "broken"}
    /\ driver' = IF scheduler' = "ready" THEN "up" ELSE driver
    /\ UNCHANGED <<at, poolVars, groupVars, serverVars>>

(* The scheduler's thread sets its event whether or not the constructor      *)
(* raised; the manager goes on either way.                                   *)
SchedulerReady ==
    /\ driver = "scheduler"
    /\ scheduler' \in {"ready", "broken"}
    /\ driver' = "up"
    /\ UNCHANGED <<at, poolVars, groupVars, serverVars>>

DriverStep ==
    \/ CheckPools \/ CreateRankZero \/ CreateOthers \/ CenterTimeout
    \/ InitModel \/ ModelRaises \/ AskServers \/ EnginesReady \/ EngineRaises
    \/ SchedulerReady

Running == driver \notin {"up", "failed"}

WorkersRun ==
    /\ Running
    /\ WorkerStep
    /\ UNCHANGED <<poolVars, serverVars, driver, at, scheduler>>

ServersRun ==
    /\ Running
    /\ \/ ServerStep
       \/ driver = "engines" /\ \E d \in DpRanks : InitEngine(d)
    /\ UNCHANGED <<poolVars, groupVars, driver, at, scheduler>>

Next == DriverStep \/ RayPlaces \/ WorkersRun \/ ServersRun

Fairness ==
    /\ WF_vars(DriverStep)
    /\ WF_vars(RayPlaces)
    /\ WF_vars(WorkersRun)
    /\ WF_vars(ServersRun)

Spec == Init /\ [][Next]_vars
FairSpec == Spec /\ Fairness

------------------------------------------------------------------------------

TypeOK ==
    /\ PoolsTypeOK
    /\ GroupTypeOK
    /\ ServersTypeOK
    /\ driver \in {"check", "place", "center", "models", "servers", "engines",
                   "scheduler", "up", "failed"}
    /\ at \in Pools
    /\ scheduler \in {"none", "ready", "broken"}

(* RoomIsLeft: where the placement groups of all pools need the same number  *)
(* of GPUs, a group that still waits for its place has a node with room for  *)
(* it, wherever Ray has put the others.  The check walks nodes of its own    *)
(* and its bookings are not kept, and the wait for Ray has no timeout        *)
(* (ResourcePoolManager._check_resource_available,                           *)
(* RayResourcePool.get_placement_groups).                                    *)
RoomIsLeft ==
    EqualBundles /\ driver = "place" =>
        \A i \in Groups(at) :
            loc[<<at, i>>] = 0 => \E n \in Nodes : free[n] >= job.bundle[at]

(* UpMeansServed: when the driver is through, every rank's address is that   *)
(* of a server which listens there with its engine started, and no two ranks *)
(* share one; a server that lost its port after it had told its address      *)
(* must not have been overlooked (AsyncLLMServerManager.__init__).           *)
UpMeansServed ==
    driver \in {"scheduler", "up"} =>
        /\ \A d \in DpRanks : /\ server[d] = "serving"
                              /\ address[d] = <<ServerNode(d), port[d]>>
        /\ \A d, e \in DpRanks : address[d] = address[e] => d = e

(* Every rank has registered before the manager asks where it is: the        *)
(* assertion on workers_info never fails, and what it says is true.          *)
RanksRegistered ==
    driver \in {"servers", "engines", "scheduler", "up"} =>
        \A r \in Ranks(ActorPool) : /\ info[<<ActorPool, r>>] # 0
                                    /\ info[<<ActorPool, r>>] = NodeOf(ActorPool, r)

(* No worker is driven by two engines.  An engine of vLLM drives exactly the *)
(* workers that take themselves for its group (rank divided by the group     *)
(* size), all of them on the server's node when groups do not reach over     *)
(* nodes.  One of SGLang does where engines are of one worker and the pool   *)
(* is one placement group; elsewhere it drives one worker, which need not be *)
(* of its group, or none (AsyncSglangServer.init_engine).                    *)
OwnRanks(d) == {r \in Ranks(ActorPool) : r \div Tp = d}
NameOf(r) == <<GroupIndex(ActorPool, r), LocalRank(ActorPool, r)>>
NamesAreRanks == backend = "vllm" \/ (Tp = 1 /\ job.width[ActorPool] = 1)

EnginesDriveTheirRanks ==
    /\ \A d, e \in DpRanks :
          server[d] = "serving" /\ server[e] = "serving" /\ d # e =>
              driven[d] \cap driven[e] = {}
    /\ NamesAreRanks =>
          \A d \in DpRanks : server[d] = "serving" =>
              /\ driven[d] = {NameOf(r) : r \in OwnRanks(d)}
              /\ job.bundle[ActorPool] % Tp = 0 =>
                    \A r \in OwnRanks(d) : NodeOf(ActorPool, r) = ServerNode(d)

(* EnginesRight: what the manager relies on from the worker groups, and what *)
(* the workers get from it.                                                  *)
EnginesRight == RanksRegistered /\ EnginesDriveTheirRanks

(* BringUpEnds: the driver comes to an end, up or with an exception: a dead  *)
(* worker, a center that never appears, servers that keep losing their ports *)
(* or a scheduler that raises leave it waiting for nothing, as long as the   *)
(* placement groups of all pools need the same number of GPUs.  (With        *)
(* unequal ones Ray may place an early pool where a later one was meant to   *)
(* go, and nothing limits that wait.)                                        *)
BringUpEnds == EqualBundles => <>(driver \in {"up", "failed"})
=============================================================================
