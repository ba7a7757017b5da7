----------------------------- MODULE HybridEngine -----------------------------
(* The workers that train the policy and generate with it in turns: FSDP     *)
(* module and vLLM engine in one process, FSDPVLLMShardingManager between    *)
(* them.  Worker w is rank w; Tp neighbours drive one engine.                *)
(*                                                                           *)
(* In sync mode a worker enters the manager, generates and leaves it within  *)
(* one call of the driver; its engine was put to sleep when it was built,    *)
(* with dummy weights.  In async mode the servers call vLLMAsyncRollout's    *)
(* wake_up and sleep; the engine was built last, with the weights of the     *)
(* model's path, and stayed awake.  is_sleep says what "asleep" says here.   *)
(*                                                                           *)
(* A random state is a stream and how far it was drawn: a worker's own       *)
(* stream for training, one per engine for rollouts (gen_dp_rank + 1000),    *)
(* and the engine's seed.  That the own streams of a group differ is what a  *)
(* comment in the code allows for.                                           *)
EXTENDS DataProto

CONSTANTS
    Dp,     \* number of engines
    Tp      \* workers of an engine

ASSUME MeshAssumption == Dp \in Nat \ {0} /\ Tp \in Nat \ {0}

WorldSize == Dp * Tp
Workers == 0 .. WorldSize - 1
Engines == 0 .. Dp - 1
Dummy == -1

VARIABLES
    engine,     \* asleep, weights (no KV cache yet) or awake
    loaded,     \* the version of the weights the engine has
    version,    \* the version of the weights FSDP has: the number of updates
    rng,        \* the device's random state
    train,      \* torch_random_states
    gen,        \* gen_random_states
    stage,      \* where the worker is in a rollout
    held        \* the rows it has been given, gathered or made

hybridVars == <<engine, loaded, version, rng, train, gen, stage, held>>

EngineOf(w) == w \div Tp
TpRank(w) == w % Tp
Group(d) == {w \in Workers : EngineOf(w) = d}

OwnStream(w, drawn) == <<"own", w, drawn>>
SeedPerRank(w) == <<"rollout", w, 0>>               \* rank + 1000
RolloutSeed(w) == <<"rollout", EngineOf(w), 0>>
EngineSeed(w) == <<"engine", EngineOf(w), 0>>
Drawn(stream) == <<stream[1], stream[2], stream[3] + 1>>

HybridInit(async) ==
    /\ engine = [w \in Workers |-> IF async THEN "awake" ELSE "asleep"]
    /\ loaded = [w \in Workers |-> IF async THEN 0 ELSE Dummy]
    /\ version = 0
    /\ rng = [w \in Workers |-> IF async THEN EngineSeed(w) ELSE OwnStream(w, 0)]
    /\ train = [w \in Workers |-> OwnStream(w, 0)]
    /\ gen = [w \in Workers |-> RolloutSeed(w)]
    /\ stage = [w \in Workers |-> "out"]
    /\ held = [w \in Workers |-> <<>>]

All(s) == \A w \in Workers : stage[w] = s
Goes(w, s) == stage' = [stage EXCEPT ![w] = s]

(* The driver's calls that begin a rollout and end one.                      *)
Begin(parts) ==
    /\ stage' = [w \in Workers |-> "entering"]
    /\ held' = parts
    /\ UNCHANGED <<engine, loaded, version, rng, train, gen>>

End ==
    /\ stage' = [w \in Workers |-> "out"]
    /\ held' = [w \in Workers |-> <<>>]
    /\ UNCHANGED <<engine, loaded, version, rng, train, gen>>

(* __enter__: the module's parameters are taken and the engine's memory for  *)
(* weights comes back, with what was in it when it went to sleep.            *)
Load(w, async) ==
    /\ stage[w] = "entering"
    /\ ~(async /\ engine[w] = "awake")
    /\ engine' = [engine EXCEPT ![w] = "weights"]
    /\ Goes(w, "loading")
    /\ UNCHANGED <<loaded, version, rng, train, gen, held>>

(* wake_up of a rollout that is not asleep.                                  *)
SkipWake(w, async) ==
    /\ stage[w] = "entering"
    /\ async
    /\ engine[w] = "awake"
    /\ Goes(w, "inside")
    /\ UNCHANGED <<engine, loaded, version, rng, train, gen, held>>

SyncOnce(w) ==                                      \* as for a frozen base model
    /\ stage[w] = "loading"
    /\ \A v \in Workers : stage[v] # "entering"
    /\ loaded' = [loaded EXCEPT ![w] = IF loaded[w] = Dummy THEN version ELSE loaded[w]]
    /\ engine' = [engine EXCEPT ![w] = "awake"]
    /\ train' = [train EXCEPT ![w] = rng[w]]
    /\ rng' = [rng EXCEPT ![w] = gen[w]]
    /\ Goes(w, "inside")
    /\ UNCHANGED <<version, gen, held>>

(* The shards of all workers are gathered, tensor by tensor, into the        *)
(* engine; then the KV cache is built and the random states are swapped.     *)
Sync(w) ==
    /\ stage[w] = "loading"
    /\ \A v \in Workers : stage[v] # "entering"
    /\ loaded' = [loaded EXCEPT ![w] = version]
    /\ engine' = [engine EXCEPT ![w] = "awake"]
    /\ train' = [train EXCEPT ![w] = rng[w]]
    /\ rng' = [rng EXCEPT ![w] = gen[w]]
    /\ Goes(w, "inside")
    /\ UNCHANGED <<version, gen, held>>

GroupGoes(d, s) == stage' = [w \in Workers |-> IF w \in Group(d) THEN s ELSE stage[w]]

(* preprocess_data: the workers of an engine exchange their rows, each gets  *)
(* all of them in the order of the ranks.                                    *)
Gathered(d) == Concat([t \in 0 .. Tp - 1 |-> held[d * Tp + t]], Tp)

Gather(d) ==
    /\ \A w \in Group(d) : stage[w] = "inside"
    /\ held' = [w \in Workers |-> IF w \in Group(d) THEN Gathered(d) ELSE held[w]]
    /\ GroupGoes(d, "ready")
    /\ UNCHANGED <<engine, loaded, version, rng, train, gen>>

(* In async mode the rows reach the engines as requests.                     *)
Serve ==
    /\ All("inside")
    /\ stage' = [w \in Workers |-> "ready"]
    /\ UNCHANGED <<engine, loaded, version, rng, train, gen, held>>

(* The k-th answer to a row is <<row, k>>; the answers to a row follow each  *)
(* other.                                                                    *)
Answers(rows, n) ==
    [i \in 1 .. n * Len(rows) |-> <<rows[((i - 1) \div n) + 1], ((i - 1) % n) + 1>>]

(* The workers of an engine sample the same tokens, each from its own random *)
(* state.                                                                    *)
Generate(d, n, async) ==
    /\ \A w \in Group(d) : stage[w] = "ready"
    /\ rng' = [w \in Workers |-> IF w \in Group(d) THEN Drawn(rng[w]) ELSE rng[w]]
    /\ held' = IF async THEN held
               ELSE [w \in Workers |-> IF w \in Group(d) THEN Answers(held[w], n)
                                                         ELSE held[w]]
    /\ GroupGoes(d, IF async THEN "served" ELSE "leaving")
    /\ UNCHANGED <<engine, loaded, version, train, gen>>

Dismiss ==                                          \* the servers call sleep
    /\ All("served")
    /\ stage' = [w \in Workers |-> "leaving"]
    /\ UNCHANGED <<engine, loaded, version, rng, train, gen, held>>

LeaveAsEntered(w, async) ==                         \* the random state is kept
    /\ stage[w] = "leaving"
    /\ held' = IF async THEN held
               ELSE [held EXCEPT ![w] = Chunk(held[w], Tp, TpRank(w))]
    /\ engine' = [engine EXCEPT ![w] = "asleep"]
    /\ gen' = [gen EXCEPT ![w] = rng[w]]
    /\ Goes(w, "done")
    /\ UNCHANGED <<loaded, version, rng, train>>

(* postprocess_data and __exit__: the worker keeps its part of the answers,  *)
(* the engine goes to sleep and the random states are swapped back.  sleep   *)
(* returns early only when the engine sleeps already, which no caller of it  *)
(* meets.                                                                    *)
Leave(w, async) ==
    /\ stage[w] = "leaving"
    /\ held' = IF async THEN held
               ELSE [held EXCEPT ![w] = Chunk(held[w], Tp, TpRank(w))]
    /\ IF async /\ engine[w] = "asleep"
       THEN UNCHANGED <<engine, gen, rng>>
       ELSE /\ engine' = [engine EXCEPT ![w] = "asleep"]
            /\ gen' = [gen EXCEPT ![w] = rng[w]]
            /\ rng' = [rng EXCEPT ![w] = train[w]]
    /\ Goes(w, "done")
    /\ UNCHANGED <<loaded, version, train>>

(* The driver's calls between rollouts, collective and blocking.             *)
Update ==
    /\ version' = version + 1
    /\ rng' = [w \in Workers |-> Drawn(rng[w])]
    /\ UNCHANGED <<engine, loaded, train, gen, stage, held>>

(* Weights and the random state of each rank, as saved after that many       *)
(* updates.                                                                  *)
Restore(updates) ==
    /\ version' = updates
    /\ rng' = [w \in Workers |-> OwnStream(w, updates)]
    /\ UNCHANGED <<engine, loaded, train, gen, stage, held>>

RolloutStep(n, async) ==
    \/ \E w \in Workers : Load(w, async) \/ SkipWake(w, async) \/ Sync(w) \/ Leave(w, async)
    \/ \E d \in Engines : ~async /\ Gather(d)
    \/ async /\ Serve
    \/ \E d \in Engines : Generate(d, n, async)
    \/ async /\ Dismiss

Streams == {"own", "rollout", "engine"} \X Nat \X Nat

HybridTypeOK ==
    /\ engine \in [Workers -> {"asleep", "weights", "awake"}]
    /\ loaded \in [Workers -> Nat \cup {Dummy}]
    /\ version \in Nat
    /\ rng \in [Workers -> Streams]
    /\ train \in [Workers -> Streams]
    /\ gen \in [Workers -> Streams]
    /\ stage \in [Workers -> {"out", "entering", "loading", "inside", "ready",
                              "served", "leaving", "done"}]
    /\ DOMAIN held = Workers
===============================================================================
