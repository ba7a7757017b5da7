---------------------------- MODULE ServerManager ----------------------------
(* AsyncLLMServerManager: one inference server per data parallel rank of the *)
(* actor's worker group, each on the node of the first worker it will drive. *)
(*                                                                           *)
(* A server picks a port nobody listens on, says that it is ready, and only  *)
(* then binds the port; two servers of a node may have picked the same one,  *)
(* and the one that comes second leaves its process.  The manager creates    *)
(* the servers it has no address of, asks them one after another for their   *)
(* address, and creates again those that died before they answered.  One     *)
(* that dies after it answered is not noticed before its engine is started.  *)
EXTENDS WorkerGroup

CONSTANTS
    Ports,      \* the ports of a node
    Backends    \* the rollout backends that may be configured

ASSUME BackendsAssumption == Backends \subseteq {"vllm", "sglang"}

VARIABLES
    backend,    \* the configured rollout backend
    server,     \* state of the server process of each rank
    port,       \* the port it has picked, 0 before
    address,    \* what the manager knows: node and port, or NoAddress
    unready,    \* the ranks whose address the manager lacks
    round,      \* the ranks whose server it has still to ask in this round
    driven      \* the workers (group index, local rank) an engine drives

serverVars == <<backend, server, port, address, unready, round, driven>>

NoAddress == <<0, 0>>
ActorPool == 1      \* the first pool holds the actor and the rollout

Tp == job.tp
DpSize == WorldSize(ActorPool) \div Tp
DpRanks == 0 .. DpSize - 1

ServerNode(d) == info[<<ActorPool, d * Tp>>]
Listening(d) == server[d] \in {"listening", "serving"}
Taken(n) == {port[d] : d \in {e \in DpRanks : Listening(e) /\ ServerNode(e) = n}}

ServersInit ==
    /\ backend \in Backends
    /\ server = [d \in DpRanks |-> "none"]
    /\ port = [d \in DpRanks |-> 0]
    /\ address = [d \in DpRanks |-> NoAddress]
    /\ unready = DpRanks
    /\ round = {}
    /\ driven = [d \in DpRanks |-> {}]

StartRound ==
    /\ round = {}
    /\ unready # {}
    /\ round' = unready
    /\ server' = [d \in DpRanks |-> IF d \in unready THEN "starting" ELSE server[d]]
    /\ UNCHANGED <<backend, port, address, unready, driven>>

PickPort(d) ==
    /\ server[d] = "starting"
    /\ \E q \in Ports \ Taken(ServerNode(d)) : port' = [port EXCEPT ![d] = q]
    /\ server' = [server EXCEPT ![d] = "ready"]
    /\ UNCHANGED <<backend, address, unready, round, driven>>

Bind(d) ==
    /\ server[d] = "ready"
    /\ server' = [server EXCEPT ![d] =
                    IF port[d] \in Taken(ServerNode(d)) THEN "dead" ELSE "listening"]
    /\ UNCHANGED <<backend, port, address, unready, round, driven>>

NextAsked(d) == d \in round /\ \A e \in round : d <= e

RecordAddress(d) ==
    /\ NextAsked(d)
    /\ server[d] \in {"ready", "listening"}
    /\ address' = [address EXCEPT ![d] = <<ServerNode(d), port[d]>>]
    /\ unready' = unready \ {d}
    /\ round' = round \ {d}
    /\ UNCHANGED <<backend, server, port, driven>>

AskDead(d) ==
    /\ NextAsked(d)
    /\ server[d] = "dead"
    /\ round' = round \ {d}
    /\ UNCHANGED <<backend, server, port, address, unready, driven>>

(* The workers an engine drives, found by their names.                       *)
Names == (0 .. job.width[ActorPool] - 1) \X (0 .. job.bundle[ActorPool] - 1)

(* vLLM: all names are sorted and the engine takes its slice of them; a name *)
(* comes after those with a smaller group index, and within the group after  *)
(* those with a smaller local rank.                                          *)
ByLocalRankFirst(w) == w[2] * job.width[ActorPool] + w[1]
PlaceAmongNames(w) == w[1] * job.bundle[ActorPool] + w[2]
DrivenByVllm(d) ==
    {w \in Names : d * Tp <= PlaceAmongNames(w) /\ PlaceAmongNames(w) < (d + 1) * Tp}

(* SGLang: the rank is computed from the name, with the number of engines    *)
(* where the workers of a group are meant, and divided by a group size which *)
(* the server looks up under `rollout` at the top of the trainer's           *)
(* configuration.  There is none there, so that it divides by the default of *)
(* one, whatever job.tp is.                                                  *)
DrivenBySglang(d) == {w \in Names : DpSize * w[1] + w[2] = d}

(* init_engine.  It runs on the server's event loop after the bind, which    *)
(* was already queued there when the address was answered.                   *)
InitEngine(d) ==
    /\ server[d] = "listening"
    /\ server' = [server EXCEPT ![d] = "serving"]
    /\ driven' = [driven EXCEPT ![d] =
                    IF backend = "vllm" THEN DrivenByVllm(d) ELSE DrivenBySglang(d)]
    /\ UNCHANGED <<backend, port, address, unready, round>>

ServerStep == \E d \in DpRanks : PickPort(d) \/ Bind(d)

AskStep == StartRound \/ \E d \in DpRanks : RecordAddress(d) \/ AskDead(d)

------------------------------------------------------------------------------

ServersTypeOK ==
    /\ backend \in Backends
    /\ server \in [DpRanks ->
                     {"none", "starting", "ready", "listening", "serving", "dead"}]
    /\ port \in [DpRanks -> {0} \cup Ports]
    /\ address \in [DpRanks -> ({0} \cup Nodes) \X ({0} \cup Ports)]
    /\ unready \subseteq DpRanks
    /\ round \subseteq unready
    /\ driven \in [DpRanks -> SUBSET Names]
=============================================================================
