----------------------------- MODULE TrainingStep -----------------------------
(* The loop of RayPPOTrainer.fit around the workers: load a checkpoint,      *)
(* validate, and for each step generate, join the answers to their prompts,  *)
(* balance the batch, let the workers compute log probabilities, update.     *)
(*                                                                           *)
(* A prompt is its index in the batch.  Rewards, advantages and the contents *)
(* of rows are left out; a rollout that raises ends the job and is left out  *)
(* too.                                                                      *)
EXTENDS HybridEngine

CONSTANTS
    Jobs,       \* the configurations considered
    Saved,      \* the step of the checkpoint there is for a resumed job
    MaxSteps,   \* bound: steps of the job
    MaxRollouts,\* bound: no validation begins after that many rollouts
    Orders      \* permutations of rows that balancing may choose

ASSUME JobsAssumption ==
    Jobs \subseteq [async : BOOLEAN, resumed : BOOLEAN, autopad : BOOLEAN,
                    balance : BOOLEAN, n : Nat \ {0}, size : Nat \ {0},
                    testsize : Nat \ {0}, warmup : Nat]
ASSUME StepsAssumption == Saved \in Nat /\ MaxSteps \in Nat /\ MaxRollouts \in Nat
ASSUME OrdersAssumption ==
    \A o \in Orders : o \in [DOMAIN o -> DOMAIN o]
                      /\ \A i \in DOMAIN o : \E j \in DOMAIN o :
                            o[j] = i /\ \A k \in DOMAIN o : o[k] = i => k = j

VARIABLES
    job,        \* the configuration
    driver,     \* what the driver does
    steps,      \* steps done since it started
    rollouts,   \* rollouts begun
    testing,    \* the last rollout is one of a validation
    asked,      \* the prompts sent to the rollout
    pad,        \* the padding to be cut off its output
    rows,       \* the driver's batch: the prompt of each row
    answers,    \* the answer of each row
    scored      \* the answer whose log probability each row has

batchVars == <<testing, asked, pad, rows, answers, scored>>
vars == <<hybridVars, job, driver, steps, rollouts, batchVars>>

Prompts(size) == [i \in 1 .. size |-> i]
Samples == IF testing THEN 1 ELSE job.n

Init ==
    /\ job \in Jobs
    /\ HybridInit(job.async)
    /\ driver = "load"
    /\ steps = 0
    /\ rollouts = 0
    /\ testing = FALSE
    /\ asked = <<>> /\ pad = 0
    /\ rows = <<>> /\ answers = <<>> /\ scored = <<>>

(* The critic warms up first: only the steps from job.warmup on update the   *)
(* actor.  TrainedBy(step) of them do so up to that step.                    *)
StartStep == IF job.resumed THEN Saved ELSE 0
TrainsActor(step) == job.warmup <= step
TrainedBy(step) ==
    IF ~TrainsActor(step) THEN 0 ELSE IF job.warmup = 0 THEN step ELSE step - job.warmup + 1

LoadCheckpoint ==
    /\ driver = "load"
    /\ IF job.resumed THEN Restore(TrainedBy(Saved)) ELSE UNCHANGED hybridVars
    /\ driver' = "next"
    /\ UNCHANGED <<job, steps, rollouts, batchVars>>

(* What the dispatch makes of a batch: padded when that is enabled; a batch  *)
(* that does not split is refused.                                           *)
Padded(batch) == IF job.autopad THEN PadWithLast(batch, WorldSize) ELSE batch
Parts(batch) == [w \in Workers |-> Chunk(batch, WorldSize, w)]

StartRollout(batch) ==
    /\ rollouts' = rollouts + 1
    /\ asked' = batch
    /\ answers' = <<>> /\ scored' = <<>>
    /\ Begin(IF job.async THEN [w \in Workers |-> <<>>] ELSE Parts(batch))
    /\ driver' = "rollout"

(* A batch of _validate, before the first step and after a step: padded for  *)
(* the workers, in async mode too.  A validation is a row of them.           *)
StartTest ==
    /\ driver = "next"
    /\ rollouts < MaxRollouts
    /\ LET batch == Prompts(job.testsize)
       IN  /\ StartRollout(PadWithFirst(batch, WorldSize))
           /\ rows' = batch
           /\ pad' = PadSize(Len(batch), WorldSize)
    /\ testing' = TRUE
    /\ UNCHANGED <<job, steps>>

StartTrain ==
    /\ driver = "next"
    /\ steps < MaxSteps
    /\ LET batch == Prompts(job.size)
           sent == IF job.async THEN batch ELSE Padded(batch)
       IN  /\ job.async \/ Splits(sent, WorldSize)
           /\ StartRollout(sent)
           /\ rows' = batch
           /\ pad' = Len(sent) - Len(batch)
    /\ testing' = FALSE
    /\ UNCHANGED <<job, steps>>

RefuseTrain ==                                      \* chunk's assertion
    /\ driver = "next"
    /\ steps < MaxSteps
    /\ ~job.async
    /\ ~Splits(Padded(Prompts(job.size)), WorldSize)
    /\ driver' = "failed"
    /\ UNCHANGED <<hybridVars, job, steps, rollouts, batchVars>>

WorkersRun ==
    /\ RolloutStep(Samples, job.async)
    /\ UNCHANGED <<job, driver, steps, rollouts, batchVars>>

(* The workers' outputs in the order of their ranks; in async mode the       *)
(* scheduler's, in the order of the prompts.                                 *)
Collect ==
    /\ driver = "rollout"
    /\ All("done")
    /\ answers' = Unpad(IF job.async THEN Answers(asked, Samples)
                                     ELSE Concat(held, WorldSize), pad)
    /\ End
    /\ driver' = "join"
    /\ UNCHANGED <<job, steps, rollouts, testing, asked, pad, rows, scored>>

(* Each prompt is repeated for its answers, and the two batches united: row  *)
(* by row, so their sizes must agree.                                        *)
Join ==
    /\ driver = "join"
    /\ LET repeated == Repeat(rows, Samples)
       IN  IF Len(repeated) = Len(answers)
           THEN rows' = repeated /\ driver' = "joined"
           ELSE rows' = rows /\ driver' = "failed"
    /\ UNCHANGED <<hybridVars, job, steps, rollouts, testing, asked, pad, answers, scored>>

FinishTest ==
    /\ driver = "joined"
    /\ testing
    /\ driver' = "next"
    /\ UNCHANGED <<hybridVars, job, steps, rollouts, batchVars>>

KeepOrder ==
    /\ driver = "joined"
    /\ ~testing
    /\ ~job.balance
    /\ driver' = "balanced"
    /\ UNCHANGED <<hybridVars, job, steps, rollouts, batchVars>>

(* _balance_batch wants parts of one size.                                   *)
Balance ==
    /\ driver = "joined"
    /\ ~testing
    /\ job.balance
    /\ Splits(rows, WorldSize)
    /\ \E o \in Orders :
          /\ DOMAIN o = DOMAIN rows
          /\ rows' = Reorder(rows, o)
          /\ answers' = Reorder(answers, o)
    /\ driver' = "balanced"
    /\ UNCHANGED <<hybridVars, job, steps, rollouts, testing, asked, pad, scored>>

RefuseBalance ==
    /\ driver = "joined"
    /\ ~testing
    /\ job.balance
    /\ ~Splits(rows, WorldSize)
    /\ driver' = "failed"
    /\ UNCHANGED <<hybridVars, job, steps, rollouts, batchVars>>

(* compute_log_prob: the dispatch pads the driver's own batch in place while *)
(* the output is cut to what it was, so that a batch which needed padding    *)
(* cannot be united with it.                                                 *)
LogProbs ==
    /\ driver = "balanced"
    /\ LET sent == Padded(answers)
           output == Unpad(Concat(Parts(sent), WorldSize), Len(sent) - Len(answers))
       IN  IF Splits(sent, WorldSize) /\ Len(output) = Len(sent)
           THEN scored' = output /\ driver' = "scored"
           ELSE scored' = scored /\ driver' = "failed"
    /\ UNCHANGED <<hybridVars, job, steps, rollouts, testing, asked, pad, rows, answers>>

UpdateActor ==
    /\ driver = "scored"
    /\ IF TrainsActor(StartStep + steps + 1) THEN Update ELSE UNCHANGED hybridVars
    /\ steps' = steps + 1
    /\ driver' = "next"
    /\ UNCHANGED <<job, rollouts, batchVars>>

Finish ==
    /\ driver = "next"
    /\ steps = MaxSteps
    /\ driver' = "done"
    /\ UNCHANGED <<hybridVars, job, steps, rollouts, batchVars>>

Stopped == driver \in {"done", "failed"} /\ UNCHANGED vars

Next ==
    \/ LoadCheckpoint \/ StartTest \/ StartTrain \/ RefuseTrain \/ WorkersRun
    \/ Collect \/ Join \/ FinishTest \/ KeepOrder \/ Balance \/ RefuseBalance
    \/ LogProbs \/ UpdateActor \/ Finish \/ Stopped

Spec == Init /\ [][Next]_vars

------------------------------------------------------------------------------

Phases == {"load", "next", "rollout", "join", "joined", "balanced", "scored",
           "done", "failed"}

TypeOK ==
    /\ HybridTypeOK
    /\ job \in Jobs
    /\ driver \in Phases
    /\ steps \in 0 .. MaxSteps
    /\ rollouts \in Nat
    /\ testing \in BOOLEAN
    /\ pad \in 0 .. WorldSize - 1
    /\ asked \in Seq(Nat) /\ rows \in Seq(Nat)
    /\ answers \in Seq(Nat \X Nat) /\ scored \in Seq(Nat \X Nat)

(* AnswersFitPrompts: once the batches are united, each row has an answer to *)
(* its own prompt and, when it was scored, the score of its own answer; each *)
(* prompt of the batch has its Samples answers, and each of them once.  Rows *)
(* have then been padded, split, exchanged, multiplied, split again, put     *)
(* together, cut and reordered by five pieces of code.                       *)
Size == IF testing THEN job.testsize ELSE job.size
OwnAnswers == \A i \in DOMAIN rows : answers[i][1] = rows[i]
EachOnce ==
    \A p \in 1 .. Size, k \in 1 .. Samples :
        \E i \in DOMAIN answers : /\ answers[i] = <<p, k>>
                                  /\ \A j \in DOMAIN answers : answers[j] = <<p, k>> => j = i

(* A job fails only because its batch does not split over the workers.       *)
EvenJob ==
    /\ job.async \/ job.size % WorldSize = 0
    /\ (job.size * job.n) % WorldSize = 0

AnswersFitPrompts ==
    /\ driver \in {"joined", "balanced", "scored"} =>
          /\ Len(rows) = Size * Samples
          /\ Len(answers) = Len(rows)
          /\ OwnAnswers
          /\ EachOnce
    /\ driver = "scored" => scored = answers
    /\ driver = "failed" => ~EvenJob

(* GroupAgrees: the workers of an engine, which sample in lock step, do so   *)
(* with the same rows, the same weights and the same random state, although  *)
(* each keeps two random states of its own and swaps them in every rollout.  *)
(* (A resumed job in async mode is excepted: its first wake_up does nothing, *)
(* so that its own streams become those of the rollouts.)                    *)
WakesLate == job.async /\ job.resumed

GroupAgrees ==
    \A d \in Engines : \A v, w \in Group(d) :
        stage[v] = "ready" /\ stage[w] = "ready" =>
            /\ held[v] = held[w]
            /\ loaded[v] = loaded[w]
            /\ ~WakesLate => rng[v] = rng[w]

(* EngineFresh: an engine that generates is awake, with the weights of the   *)
(* last update.  The comments of wake_up say that it loads them.             *)
EngineFresh ==
    \A w \in Workers : stage[w] = "ready" => engine[w] = "awake" /\ loaded[w] = version

(* EngineFreshOnceSynced: this holds but for the first rollout of a resumed  *)
(* job in async mode.                                                        *)
EngineFreshOnceSynced == (WakesLate /\ rollouts = 1) \/ EngineFresh

(* TrainsUndisturbed: while the driver trains, every engine sleeps, and each *)
(* worker's random state is its own, drawn by the updates and nothing else:  *)
(* rollouts and validations leave no trace in it, and a resumed job goes on  *)
(* where the saved one was.  In async mode it does not: the first rollout    *)
(* draws from the state that was loaded, and the first sleep puts back the   *)
(* one of the engine's construction, so that the saved state is lost and the *)
(* updates draw what those of a new job draw.                                *)
OwnDraws == IF WakesLate THEN version - TrainedBy(Saved) ELSE version

TrainsUndisturbed ==
    driver \in {"join", "joined", "balanced", "scored"} =>
        \A w \in Workers : engine[w] = "asleep" /\ rng[w] = OwnStream(w, OwnDraws)
===============================================================================
