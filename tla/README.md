# TabSieve in TLA+

TabSieve is a fork of verl: reinforcement learning of language models on tables,
with Ray for the processes, FSDP for the workers and vLLM or SGLang for the
rollout. This directory holds TLA+ models of the parts of it whose correctness
depends on order, failure or long sequences of calls, the TLC configurations that
check them, and TLAPS proofs about them. Paths below are relative to the
repository; PROJECT.json names, for every definition, the lines it stands for.

Run `tlc -config ChatScheduler.cfg MCChatScheduler.tla` (and so on) to check, and
`tlapm ChatSchedulerProofs.tla` to prove.

## The system

One driver process (`RayPPOTrainer.fit`) goes through the steps of a training. A
step generates responses with the rollout workers, scores them, computes
advantages, updates critic and actor and now and then saves a checkpoint. What
the driver calls are groups of Ray actors; a call sends each its part of a batch
and collects the answers.

| Component | State | Operations | Talks to | What is hard | Correct when | Model |
|---|---|---|---|---|---|---|
| Chat completion scheduler (`rollout/chat_scheduler.py`) | heap of addresses with counts, LRU cache of routes, per conversation messages, depth and done event | `generate_sequences`, submit, callback, tool call | servers by HTTP, tools | coroutines interleave; requests, tools and callbacks fail; the cache evicts | every turn finds its route and goes to the same server; what is done has nothing under way that will go on; the call returns | ChatScheduler, Rollout |
| Activation offloading (`utils/activation_offload.py`) | tensors per group on device or host, copies on two streams, counters | push, pop, commit forward, commit backward | autograd hooks, CUDA streams | copies run on their own; layers do not divide evenly | a backward pass finds its tensors; nothing is freed under a copy; at most two groups on the device | ActivationOffload |
| Checkpoints (`utils/checkpoint/`, `_save_checkpoint`, `_load_checkpoint`) | files per rank and role, tracker file, in memory the paths to rotate | rotate, barrier, write shard, write data, write tracker, load | all ranks, the file system | a crash between any two writes; barriers; forgotten paths after a restart | the tracked checkpoint is whole and of one run; little work is lost; one run keeps few | Checkpointing, ResumableRun |
| Tools and rate limiter (`tools/`) | semaphore of a named actor, queues of actors, threads of pools | create, execute, acquire, release | conversations, one limiter for all pools | blocking acquire, asynchronous release, exceptions, several creators | no token is lost; the limit holds; nobody starves | RateLimiter, Throttle |
| Dynamic task weighting (`ray_trainer.py` 345-688) | moving averages and counts per task, weights | measure on the ranks, collect, average, derive weights, apply one step later | actor workers, advantage computation | absent tasks, unequal counts, restarts, zeros | weights on their side of one; neutral until both tasks are known; averages among what was measured | TaskWeight |
| Trainer loop (`fit`, `_validate`) | global step, the driver's batch, padding counts | load, validate, generate, join, balance, score, update | all worker groups | resuming, validations between updates, rows moved by five functions | each row meets answers to its own prompt; rollouts leave no trace in training | TrainingStep; saving in Checkpointing, weights in TaskWeight |
| Resource pools (`ResourcePoolManager`) | free GPUs per node, placement groups | first-fit check, placement | Ray | order of pools, a wait without timeout | what is accepted fits; the driver does not wait for ever | ResourcePools |
| Dispatch (`single_controller/base/decorator.py`, `protocol.py`) | none | chunk, pad, concat, repeat, cut, reorder | worker groups | uneven sizes, keyword arguments | one answer for each input row, in order | DataProto |
| Worker groups (`single_controller/ray/base.py`) | actors, placement groups, register center | create, register, wait with a timeout | Ray | constructors fail, ranks over nodes | a rank, its name and its node agree, or bring-up raises | WorkerGroup |
| Sequence length balancing | none | partition a batch | trainer | equal sizes | a partition into equal parts | any permutation, in TrainingStep |
| Async server manager (`rollout/async_server.py`) | servers, ports, unready ranks, scheduler thread | start, restart, init engine, wake, sleep | servers, scheduler, workers | ports in use, servers that die late, a thread that fails to start | every rank ends with one live server that drives its own workers | ServerManager; wake and sleep in HybridEngine |
| Rollout engines and request schemas | engine's weights, KV cache, random state | generate, sleep, wake | sharding manager | the workers of an engine sample in lock step | fresh weights, the same rows and random state in a group | HybridEngine (vLLM) |
| Sharding managers (`fsdp_vllm.py`) | engine awake or asleep, two random states | enter, exit, gather and split of rows | engine, FSDP | entered by the worker in one mode and by the server in the other | calls in pairs, random states restored | HybridEngine |
| Selection reward (`config/rl/reward.py`) | none | parse, F-beta | reward manager | empty sets | the score it documents | not modelled |
| Embedding reward server | shards of two libraries | top-k, similarity, rank | HTTP, RPC to ranks | uneven shards, k above a shard | as if there were one shard | not modelled |
| Reward managers | pool of processes | score a batch | reward functions | timeouts, stuck processes | a row is zero only if its own scoring failed | not modelled |
| Losses, workers, data sets, logging, models, recipes | tensors, files | numerics and I/O | | | | not modelled |

## Modules

**ChatScheduler** (with `MCChatScheduler`, `ChatSchedulerProofs`) models
`ChatCompletionScheduler` and `ToolCompletionCallback`. One action is what a
coroutine does between two awaits, since the event loop interleaves nothing else.
A conversation is row `r` of call `b`; `pc` is the task that carries it on
(submitted, posted, in its tools, ended, or dead by an exception no one handles).
`load` and `IsTop` are the heap, `cache` the LRU cache (an entry is touched
once more only when it is popped, so the oldest id is the least recently used),
`depth` and `done` the two fields of `info`, `tool` the states of the gathered
tool tasks. Answers, finish reasons and the outcome of tools are free choices. A
message counts; its text does not exist; `MaxTurns` is `max_turns`, 0 where the
code has None and no limit. `StartFails` is the assertion that a
route is known: it kills the task before the depth is lowered.

**Rollout** is what the caller of `generate_sequences` may rely on: conversations
of the running call grow until each is closed once, those of earlier calls never
change. ChatScheduler implements it with `open` as the conversations whose done
event is not set.

**ActivationOffload** (with MC and Proofs modules) has the host thread's forward
and backward passes, and the two copy streams as sets of groups whose copy is not
ordered before the next operation of the compute stream. A copy is as slow as
the streams allow, since only `wait_stream` takes a group out. `Window` is
`layer_window_map` with its spread of the remainder.

**Checkpointing** (with MC and Proofs modules) models a job that is started,
trains, saves and may crash at any point, from the driver's `_save_checkpoint`
down to each rank's barriers and shard in `FSDPCheckpointManager`. A file is
absent, torn or of the run that wrote it, so that a mixture of two runs in one
directory is seen. `saved` is `previous_saved_paths`, forgotten at a restart.
Opening a file for writing and finishing it are two steps, for shards,
`data.pt` and the tracker alike. **ResumableRun** is what remains of it for whoever
starts the job: the step a run is at, the last one it kept, and whether it can be
resumed. Checkpointing implements it with `KeptStep`, the step the tracker names or
is about to name, and `Status`, which is lost once a start would not find what it
needs.

**RateLimiter** (with MC and Proofs modules) follows a call through the queue of
its pool, a thread, the queue of the one limiter actor, and the token that goes
back by a message nobody waits for. **Throttle** is its abstract specification: a
limit that is set once and never exceeded.

**TaskWeight** (with MC and Proofs modules) models the averages and weights of
TabSieve's mixed classification and regression training. Numbers are exact
fractions. `Collected` is `DataProto.concat`, which keeps the metrics of rank 0
alone; `applied` is the weight a batch was scaled with, one step late; `Resume`
starts from a checkpoint, which holds neither averages nor weights.

**BringUp** (with MC and Proofs modules) composes three modules in the order in
which `RayPPOTrainer.init_workers` uses what they model. **ResourcePools** is the
first-fit walk of `_check_resource_available` and then Ray, which puts the
placement groups of one pool at a time on any nodes that have room and knows
nothing of the walk. **WorkerGroup** is `_init_with_resource_pool`: groups sorted
by address, rank 0 and the register center it creates, the driver's wait with a
timeout, the other constructors, each of which may fail, and the center that dies
with rank 0. **ServerManager** is `AsyncLLMServerManager.__init__`: a server picks
a free port, says that it is ready and only then binds, so that two may race for
one; the manager records addresses in rank order, creates the dead again, starts
the engines of vLLM or SGLang with the workers whose names they look up, and at
last the chat scheduler's thread. BringUp has the driver and who waits for whom.

**TrainingStep** (with an MC module and two proof modules, `TrainingStepProofs` and
`RowsProofs`) is the loop of `fit` over **HybridEngine**, the workers that train and
generate in turns, and over **DataProto**, the functions on batches. A prompt is its
index in the loaded batch and the k-th answer to it the pair of the two: what the
functions do to contents follows from what they do to positions. A worker enters
the sharding manager (`Load`, `Sync`), the workers of an engine gather their rows
and generate together, and each leaves with its part (`Leave`); in async mode the
servers wake and dismiss the engines and rows travel as requests. A random state
is a stream and how far it was drawn, which is all that tells whether two ranks
sample the same or a rollout has disturbed training. A job is a record of the
switches that matter: sync or async, new or resumed, automatic padding,
balancing, answers per prompt, batch sizes.

How the modules fit together. BringUp composes ResourcePools, WorkerGroup and
ServerManager; TrainingStep composes HybridEngine and DataProto; ChatScheduler
implements Rollout, RateLimiter implements Throttle and Checkpointing implements
ResumableRun. The rest of the
interaction is by what one model leaves free because another shows it: how the
answers of TrainingStep come about in async mode is ChatScheduler; a tool call in
ChatScheduler may take any time and fail, which is what RateLimiter shows of it
from outside; that servers exist and drive their workers is what BringUp ends
in; saving and resuming are Checkpointing, `LoadCheckpoint` in TrainingStep and
`Resume` in TaskWeight.

## Runs

| Run | Instance | Shows |
|---|---|---|
| chat_routes | two calls, two rows, two servers, one tool, cache of two | with as many cache entries as conversations of a call, routes are always known, conversations stay with their server, `generate_sequences` returns or raises; old entries of the first call are evicted, never live ones |
| chat_tools | three rows, two tools, cache of two | with gathered tools, and even when a route is lost: a conversation that is done has no request and no callback left, and no tool that runs but beside one that raised, and one with neither is done; routes and turns stay within their limits, conversations spread over servers, and the scheduler implements Rollout |
| chat_eviction (violation) | three rows, cache of two | with more conversations than entries the assertion on the route fails and the task dies without setting its event |
| offload_enabled | five layers, four groups, two tensors | the configuration `enable_activation_offloading` sets up: tensors are there and ordered, lookups succeed, a micro batch leaves nothing, at most two groups are resident |
| ckpt_crashes | two ranks, actor keeps two, critic three, seven steps, three runs | the tracked checkpoint is whole and of one run, one run keeps what it should, a run resumes after the step kept last and passes none that was due (ResumableRun), the job ends unless the tracker is torn |
| tools_rate | three conversations, four pools, limits one and two | tokens are conserved, the limit holds, every call is served, and the abstract throttle is implemented |
| tools_shared (violation) | same | more code runs than the code tool's own rate when a search tool created the limiter |
| weights | two ranks, sizes 0, 2, 3 or none, five steps, beta one half | weights are directed, neutral until both tasks are known, averages stay within, the larger task is recognised when both were measured equally often |
| weights_ratio (violation) | same | with unequal counts the bias correction makes the smaller task look larger |
| bring_up | two nodes of 0 to 4 GPUs, six jobs, two ports, one failing constructor, vLLM and SGLang | what the check accepts fits, and with groups of one size the next one always finds room; when the driver is through, every rank has a live server and an address of its own; engines drive their own ranks; the driver always ends, up or with an exception, when all placement groups are of one size |
| training_step | two engines of two workers, batches of three and four, one and two answers, two steps with validation batches possible around each, a critic that warms up for none, one or four steps of training, every combination of modes | every row has an answer to its own prompt and each prompt all of its answers, and a job fails only when its batch does not split; the workers of an engine agree; engines are fresh; training draws from each worker's own random state, and only updates draw from it |
| async_resume (violation) | same | in async mode the first rollout of a resumed job is made with the weights of the model's path |

Bounds. Three conversations and two servers are the least where one conversation's
requests evict another's route while a third decides the heap's order; two calls
make stale entries. Two tensors tell a partly copied group from a whole one, and
five layers exercise a first, a middle and a last window and the spread of the
remainder; the proofs cover every other number of layers. Seven steps with three runs let a rotation happen before and
after a restart, with two crashes at any point. Three clients fill a pool's
two threads while a third waits, and rates of one and two differ. Five steps give
averages of unequal counts and a resume between any two of them.

For bring_up, two nodes listed against the order of their addresses make sorting
matter; with 0 to 4 GPUs a job fits in one way, in several or not at all. The
jobs have groups of equal and of unequal size, in one pool or two, engines that fit
a node, reach over nodes or do not divide the workers. Two ports for two servers that may share a
node make every order of picking, answering and binding possible, among them a
server that dies after it answered; one failing constructor may be any, rank 0's
too. For training_step, two engines of two workers are the least where gathering
within an engine and splitting over all differ. Batches of four split over four
workers; one of three is refused, padded by a row, or, with two answers for each
row, cut one row short of what can be joined. Two steps, and four rollouts at most
before the last validation begins, make every order of rollout, update and
validations of one batch and of several; two reorderings stand for what balancing
chooses (`Orders`). The checkpoint was saved after step three, a version a new job
does not reach within its two. While the critic warms up (`warmup`) a step leaves the
actor alone: with 2 it is the first step of a new job, with 5 both steps of a new
one and the first of a resumed one, whose checkpoint then has the initial weights.

Every bound is a constant of a configuration or named in the module: `Batches`,
`MaxRuns`, `MaxDeaths`, `MaxSteps` for the steps of TrainingStep and of TaskWeight,
and `MaxRollouts`, after which TrainingStep begins no validation. `MaxTurns` is the
code's own.

Fairness. The event loop runs every ready coroutine, so each conversation's
tasks are weakly fair; a request is assumed to be answered or to fail, and a
tool to end (the client has no total timeout: a server that hangs hangs the
call). In Checkpointing processes go on until they crash, and crashes are
bounded by the number of starts; no fairness is assumed of a crash. In RateLimiter
actors, threads and messages make progress and functions end, as they use
requests with timeouts; a conversation need not call a tool. In BringUp the
driver, Ray, the workers and the servers each make progress; that a constructor
fails, that a port is taken or that the wait for the center times out is never
required to happen. A server binds before its engine is started, since the bind is
queued on its event loop before its address is answered. TaskWeight and
TrainingStep need none: they have no liveness property.

Deadlock is checked except where the system stops: after a lost route the
scheduler's caller waits for ever or raises, and a job that is up, has failed or waits
for placement groups that do not fit does nothing more. TrainingStep names its
two ends (`Stopped`), so that a rollout whose workers wait for each other would
be reported as a deadlock.

## Proofs

Each proofs module shows an inductive invariant and derives the theorems from it,
for every value of the constants that the named assumptions allow.

* **ChatSchedulerProofs**. The type invariant needs to know what a task's `pc` says
  about its depth, event and tools (`Progress`). `DoneMeansEnded` follows from it and from
`ToolsInv`: outside a callback a tool still runs only where another one raised.
  For `RouteKnown` request ids are shown distinct and ordered by call, and each
  running conversation's last id cached: of each conversation at most one id is
  alive, so when the rows of a call are no more than the cache's entries the
  evicted (smallest) id is never one of them. This is the assumption of
  `RouteAlwaysKnown`; chat_eviction shows that it is needed. `Sticky` and
  `ConversationsSpread` hold without it. `SchedulerRefinesRollout` maps every
  step to a step of Rollout or to a stutter. `CacheFits` (a finite set of at most as
  many keys as the cache holds, one removed before one is added) gives
  `CacheStaysBounded`, and `TurnsInv`, which relates messages, depth and the tool
  tasks under way, gives `TurnsStayBounded`.
* **ActivationOffloadProofs**. In a pass, the whole state is a function of the
  current layer: which groups are on the host, in flight, counted and mapped. The
  invariant says which. The theorems assume `Setup`, at least three layers and
  all groups but the last offloaded, which is what `enable_activation_offloading`
  passes; other ratios of groups to layers are not proved.
* **CheckpointingProofs**. Saved paths increase strictly and end at or before the
  tracker, so that a rotation that keeps two or more never dooms the tracked one.
  Where a role keeps exactly one it does, before the successor is written, so
  `Tracked` lets files of the tracked checkpoint be missing, but never of another
  run, while the job saves and after it crashed there (`Thinned`).
  `TrackedCheckpointIsWhole` is therefore the one theorem that assumes `Spare`, that
  no role keeps exactly one; `NoneResumesFromAMix` says what is left without it:
  a run that trains stands on a whole checkpoint of one run. The files of the
  checkpoint being written are those of this run only, and `NoneSkipped` (no step
  that was due to be saved was passed) bounds lost work by SaveFreq steps
  (`LostWorkIsBounded`; no run lists it, as the refinement says more). With both
  invariants `RefinesResumableRun` maps each action to a step of ResumableRun or to a
  stutter: the tracker's opening keeps the step, a crash kills or loses the run.
  `KeptInv` says where in a save the ranks are and that what a run wrote is what it
  remembers, and one checkpoint more only while a rank is past its rotation: hence
  `KeepsNoMore`.
* **RateLimiterProofs**. A call is at one place of one queue (`Shape`), hence a
  token that leaves the semaphore goes to a call that did not hold one, and
  tokens, holders and returning messages add up to the limit. `LimitHolds` and
  the implementation of Throttle follow. `CodeStaysWithinRate` is the property of
  tools_shared where it can hold. It counts the code that runs in all pools of all
  processes: code runs only with a token (`CodeIsThrottled`, without the limiter it
  fails), and the limit is the rate of some pool, so that the code tool's rate holds
  if no pool under the limiter gives a higher one (`RatesFit`). That this is needed in
  general is not proved; tools_shared is one case without it.
* **TaskWeightProofs**. Fractions are ordered totally and transitively, clipping
  respects the order, and no denominator becomes zero since 1 - beta ** n stays
  positive (`Correctable`). From there every mode's weights are directed, and an
  average, being a convex combination, stays within what it averages. That tasks
  measured equally often are compared fairly needs their denominators to be the same powers;
  the invariant `Powers` has them read off one ladder of powers, a function that
  exists and is extended by a rung in every step, in place of an induction.
  `EqualCountsAreFair` assumes an eps of at most one, the least difference of two
  sizes.
* **BringUpProofs**. `PoolsFit` asks for a distribution of the groups over the nodes,
  for any numbers of both. The invariant `Booking` exhibits one: what the walk has
  booked so far is counted per node (`NodesBooked`) and handed out GPU by GPU
  (`GpusBooked`), and each booking extends both. `RoomIsLeft` is a pigeonhole: if all
  groups need b GPUs, what fits has slots of b GPUs, one for each group
  (`FitInSlots`), and what Ray placed fills the slots of a node from below
  (`Packing`); were no node to have b GPUs left, every slot would be taken and so
  every group placed (`StuckIsFull`). With unequal groups this fails, hence the
  premise `EqualBundles` of `BringUpEnds`.
  For the rest, the invariant says who exists when (`Created`: workers only
  after the placement of their groups, rank 0 first), what the center knows
  (`Registered`), what each phase of the driver presupposes (`Phased`), that a
  recorded address is that of the present process (`Known`), that a port has one
  listener, and which workers an engine took (`Driving`). `UpIsServed` and
  `EnginesAreRight` follow for any cluster, jobs, ports and failures; that slices
  of sorted names are the ranks of a group is arithmetic of quotients. That no worker
  is driven twice holds of both engines; that an engine drives its own ranks is
  claimed of SGLang only where the code has it (`NamesAreRanks`): engines of one
  worker on one placement group.
* **TrainingStepProofs**. The invariant `Control` follows the driver, the stage of
  every worker and, for each of its three random states, which stream it is and how
  far it was drawn (by rollouts or by updates) as a function of the stage; from it
  the workers of an engine agree, engines are fresh and each worker trains with its
  own random state. How far that was drawn is `OwnDraws`: by every update since the
  first job began, but in a resumed async job, which loses the saved state, by its
  own updates only.
* **RowsProofs** builds on it: `Batches` says what was asked (a batch and its padding),
  what each worker carries (its part, its group's rows, their answers, its part
  again) and what is collected. Positions are pairs of quotient and remainder
  (`At`), and each function on batches gets a lemma about one position. The theorem
  `AnswersFit` needs no bound on workers, engines, rows or answers, and the
  permutations of balancing are any.

Assumptions about the code which the theorems of TrainingStep rest on: the answers
of the async scheduler come back in the order of the prompts (ChatScheduler gathers
them so), every engine gets requests in a rollout, an engine's seed is the same on
all of its workers, and a rollout that raises ends the job.

Only model-checked: the liveness properties (`GenerateReturns`, `Ends`, `Served`,
`BringUpEnds`), since the prover treats neither fairness nor ENABLED. Every
invariant and action property that a passing run checks has a theorem, and so has
every refinement, under the assumptions named above.

## Where code and comments disagree

The violation runs show four cases TLC reproduces; PROJECT.json quotes the lines.
Noticed while reading or modelling, without a run:

* `chat_scheduler.py` 238 and 337: a first request that fails leaves a conversation
  without a response, against the assertion in postprocess.
* `ray_trainer.py` 1192: the tracker is opened with "w", which empties it before it
  is written, although a comment calls it atomic.
* `fsdp_checkpoint_manager.py` 163: with one checkpoint to keep, the tracked one is
  removed before its successor is written.
* `ray_trainer.py` 119: the greedy walk refuses clusters that would fit (nodes of 8 and
  4 GPUs, pools of 4 and then 8).
* `single_controller/ray/base.py`: the wait for placement groups has no timeout; with
  groups of unequal size Ray may put an early pool where a later one had to go.
* `async_server.py` 128: a server whose port is taken is created again only if it died
  before it gave its address; otherwise the start of its engine raises.
* `async_sglang_server.py` 51: ranks are computed with the number of engines where the
  number of workers per node is meant, right only on one node or where they agree. And
  the group size is looked up under `rollout` at the top of the configuration (line
  34), where `async_server.py` 139 passes the trainer's whole one, so it is always 1:
  with larger groups the request of an engine does not go to "master worker in tp rank
  0" (line 62) of its group.
* `chat_scheduler.py` 125: the gather of tool calls ends with the first one that raises
  and leaves the others running, after the conversation's event is set.
* `ray_trainer.py`: the baseline rollout of REMAX raises in async mode; with automatic
  padding a batch that does not split always fails at the union after `compute_log_prob`,
  since the padding is added to the caller's batch in place.
* In async mode the skipped first `wake_up` of a resumed job also makes the saved random
  state of training that of the first rollout, on each rank its own; the first sleep
  then puts back the one of the engine's construction (`fsdp_vllm.py` 225), and the
  saved state is lost. `GroupAgrees` and `TrainsUndisturbed` say so.
* `sandbox_fusion_tools.py`: with the global limit switched off, reading the release
  method of no worker raises.
* `config/rl/reward.py` `_compute_f_beta`: unknown predictions count as nothing,
  the docstring says as false positives; its split pattern, `[\\s,，]+` in a raw
  string, matches a backslash and the letter s, not white space.
* `decorator.py` 118-123: batches passed by keyword get a padding count without
  being padded, so that answer rows are cut off.
* `prime.py`: the 300 s of a row include the time it waits for a process.
* `reward_server.py`: the "dense rank" counts all larger samples.
* `chat_scheduler.py`: "least requests" counts conversations, at their start.
* `config/run_qwen3-8b.sh` sets the largest weight to one, so that the boost of
  classification has no effect in any mode.
* Checkpoints of earlier runs are never removed; a job resumed at its last step
  trains one step more.

## Not modelled, and why

Numerics (losses, advantages, forward passes), text (prompts, parsing, tokenising),
file formats, logging and external engines are out of the reach of these
methods or have no order to get wrong; so are the models, kernels, recipes and
scripts, which make up most of the repository's lines. Of the modelled components,
the following is left out: the Megatron checkpoint manager, explicit resume paths
and remote copies; the tools without a pool and the limiter's `current_count`,
which is only observed; the switches of the task weights when they are off, its
fallback that no caller uses, and measurements that are not numbers; accelerator
types and CPUs, detached and fused workers and the liveness checker nobody starts;
servers that fail after the start; the critic (but for the steps in which it warms
up), reference policy, rewards and advantages in the training step; the other
dispatch modes, futures and batches passed by keyword; SGLang's and Megatron's sharding managers, LoRA's base weights and
vLLM before 0.7; the request states of SGLang's own multi-turn loop.

## Plan

1. Done: ChatScheduler and Rollout, ActivationOffload, Checkpointing, RateLimiter
   and Throttle, TaskWeight; BringUp with ResourcePools, WorkerGroup and
   ServerManager; TrainingStep with HybridEngine and DataProto; the proofs above.
2. SelectReward: F-beta over sets of rows against its definition by precision and
   recall, its range and monotonicity as theorems.
3. RewardServer: shard ranges as a partition (theorem), merged top-k and rank
   against one shard.
4. PrimeScoring: pool of processes, queue and timeouts; "only a row whose own
   scoring failed is zero" is expected to be violated.
5. SequenceBalance: Karmarkar-Karp merging as a function over heaps, whose result
   is among the permutations TrainingStep takes for it.
6. RequestStates: the legal sequences of `schemas.py`'s request states.
7. Proofs: offloading for other ratios of layers to groups.
