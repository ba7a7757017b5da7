-------------------------- MODULE TrainingStepProofs --------------------------
(* Proofs about TrainingStep, for any number of engines and of workers of    *)
(* each: the control, the weights and the random states.                     *)
EXTENDS TrainingStep, TLAPS

LEMMA JobFacts ==
    ASSUME job \in Jobs
    PROVE  /\ job.async \in BOOLEAN /\ job.resumed \in BOOLEAN
           /\ job.autopad \in BOOLEAN /\ job.balance \in BOOLEAN
           /\ job.n \in Nat \ {0} /\ job.size \in Nat \ {0} /\ job.testsize \in Nat \ {0}
           /\ job.warmup \in Nat
BY JobsAssumption

LEMMA TrainedNat == job \in Jobs => TrainedBy(Saved) \in Nat
BY JobFacts, StepsAssumption DEF TrainedBy, TrainsActor

LEMMA MeshFacts ==
    /\ WorldSize \in Nat \ {0}
    /\ \A w \in Workers : w \in Nat /\ EngineOf(w) \in Nat /\ TpRank(w) \in 0 .. Tp - 1
<1>1. Dp \in Nat \ {0} /\ Tp \in Nat \ {0}
  BY MeshAssumption
<1>2. ASSUME NEW a \in Nat \ {0}, NEW b \in Nat \ {0} PROVE a * b \in Nat \ {0}
  OBVIOUS
<1>3. WorldSize \in Nat \ {0}
  BY <1>1, <1>2 DEF WorldSize
<1>4. ASSUME NEW w \in Nat, NEW t \in Nat \ {0} PROVE w \div t \in Nat /\ (w % t) \in 0 .. t - 1
  OBVIOUS
<1>5. ASSUME NEW w \in Workers PROVE w \in Nat
  BY <1>3 DEF Workers
<1>6. ASSUME NEW w \in Workers PROVE w \div Tp \in Nat /\ (w % Tp) \in 0 .. Tp - 1
  BY <1>1, <1>4, <1>5
<1> QED BY <1>3, <1>5, <1>6 DEF EngineOf, TpRank

------------------------------------------------------------------------------
(* The invariant of the control.                                             *)

Inside == {"inside", "ready", "served", "leaving"}

ControlTypeOK ==
    /\ HybridTypeOK
    /\ job \in Jobs
    /\ driver \in Phases
    /\ steps \in 0 .. MaxSteps
    /\ rollouts \in Nat
    /\ testing \in BOOLEAN

(* Until the first rollout is over, the weights are those of the start; a    *)
(* batch is there to be trained with only when a step is left.               *)
Life ==
    /\ driver # "rollout" => All("out")
    /\ driver = "load" => rollouts = 0
    /\ rollouts = 0 => driver \in {"load", "next", "done", "failed"}
    /\ rollouts = 0 \/ (rollouts = 1 /\ driver = "rollout") =>
          version = IF job.resumed /\ driver # "load" THEN TrainedBy(Saved) ELSE 0
    /\ driver \in {"balanced", "scored"} => ~testing
    /\ driver \in {"rollout", "join", "joined", "balanced", "scored"} =>
          testing \/ steps < MaxSteps

(* An engine sleeps between rollouts, but in async mode not before the first *)
(* one; and it is fresh once it was woken.                                   *)
EngineKnown(w) ==
    /\ stage[w] = "out" =>
          engine[w] = IF job.async /\ rollouts = 0 THEN "awake" ELSE "asleep"
    /\ stage[w] = "entering" =>
          engine[w] = IF job.async /\ rollouts = 1 THEN "awake" ELSE "asleep"
    /\ stage[w] = "loading" => engine[w] = "weights" /\ ~(job.async /\ rollouts = 1)
    /\ stage[w] \in Inside =>
          /\ engine[w] = "awake"
          /\ loaded[w] = IF WakesLate /\ rollouts = 1 THEN 0 ELSE version
    /\ stage[w] = "done" => engine[w] = "asleep"
    /\ job.async /\ (rollouts = 0 \/ (rollouts = 1 /\ stage[w] = "entering")) => loaded[w] = 0

EnginesKnown == \A w \in Workers : EngineKnown(w)

(* The stream a worker trains with, and the one it generates with: the one   *)
(* is installed, the other put by.  Of a resumed job in async mode, the      *)
(* first is the one its engine was built beside, the saved one being lost.   *)
TrainStream(w) == IF engine[w] = "awake" THEN train[w] ELSE rng[w]
GenStream(w) == IF engine[w] = "awake" THEN rng[w] ELSE gen[w]

TrainDraws == IF driver = "load" THEN 0 ELSE OwnDraws

StreamsApart ==
    /\ \A w \in Workers : TrainStream(w) = OwnStream(w, TrainDraws)
    /\ ~WakesLate =>
           \A v, w \in Workers : EngineOf(v) = EngineOf(w) => GenStream(v) = GenStream(w)

ReadyAgree ==
    /\ \A v, w \in Workers :
          EngineOf(v) = EngineOf(w) /\ stage[v] = "ready" /\ stage[w] = "ready" =>
              held[v] = held[w]
    /\ job.async => \A w \in Workers : held[w] = <<>>

Control == ControlTypeOK /\ Life /\ EnginesKnown /\ StreamsApart /\ ReadyAgree

------------------------------------------------------------------------------

LEMMA SameStart ==
    ASSUME job' = job
    PROVE  TrainedBy(Saved)' = TrainedBy(Saved) /\ WakesLate' = WakesLate
BY DEF TrainedBy, TrainsActor, WakesLate

(* A step that exchanges the streams, or none, keeps them apart.             *)
LEMMA StreamsKept ==
    ASSUME StreamsApart, job' = job, version' = version, driver = "load" <=> driver' = "load",
           \A w \in Workers : TrainStream(w)' = TrainStream(w),
           ~WakesLate => \A v, w \in Workers :
               EngineOf(v) = EngineOf(w) => GenStream(v)' = GenStream(w)'
    PROVE  StreamsApart'
<1>1. TrainDraws' = TrainDraws /\ WakesLate' = WakesLate
  BY SameStart DEF TrainDraws, OwnDraws
<1>2. \A w \in Workers : TrainStream(w)' = OwnStream(w, TrainDraws')
  BY <1>1 DEF StreamsApart
<1> QED BY <1>1, <1>2 DEF StreamsApart, OwnStream

LEMMA InitControl == Init => Control
<1> SUFFICES ASSUME Init PROVE Control
  OBVIOUS
<1>1. job \in Jobs /\ HybridInit(job.async)
  BY DEF Init
<1>2. /\ \A w \in Workers : w \in Nat /\ EngineOf(w) \in Nat
      /\ \A w \in Workers : OwnStream(w, 0) \in Streams /\ RolloutSeed(w) \in Streams
                            /\ EngineSeed(w) \in Streams
  BY MeshFacts DEF OwnStream, RolloutSeed, EngineSeed, Streams
<1>3. HybridTypeOK
  BY <1>1, <1>2 DEF HybridInit, HybridTypeOK
<1>4. ControlTypeOK
  <2>1. driver = "load" /\ steps = 0 /\ rollouts = 0 /\ testing = FALSE
    BY DEF Init
  <2>2. steps \in 0 .. MaxSteps /\ rollouts \in Nat
    BY <2>1, StepsAssumption
  <2>3. driver \in Phases /\ testing \in BOOLEAN
    BY <2>1 DEF Phases
  <2> QED BY <1>1, <1>3, <2>2, <2>3 DEF ControlTypeOK
<1>5. Life
  BY <1>1 DEF Init, HybridInit, Life, All
<1>6. EnginesKnown
  BY <1>1 DEF Init, HybridInit, EnginesKnown, EngineKnown, Inside
<1>7. StreamsApart
  <2>1. TrainDraws = 0
    BY DEF Init, TrainDraws
  <2> QED BY <1>1, <2>1 DEF HybridInit, StreamsApart, TrainStream, GenStream, RolloutSeed, EngineSeed
<1>8. ReadyAgree
  BY <1>1 DEF HybridInit, ReadyAgree
<1> QED BY <1>4, <1>5, <1>6, <1>7, <1>8 DEF Control

(* What does not touch the workers keeps what is known of them.              *)
LEMMA FrameControl ==
    ASSUME Control, UNCHANGED <<hybridVars, job, rollouts>>, driver' \in Phases \ {"load"},
           steps' \in 0 .. MaxSteps, testing' \in BOOLEAN,
           driver # "rollout", driver # "load", driver' # "rollout",
           rollouts = 0 => driver' \in {"next", "done", "failed"},
           driver' \in {"balanced", "scored"} => ~testing',
           driver' \in {"rollout", "join", "joined", "balanced", "scored"} =>
               testing' \/ steps' < MaxSteps
    PROVE  Control'
<1> USE DEF Control, hybridVars
<1>1. HybridTypeOK'
  BY DEF ControlTypeOK, HybridTypeOK
<1>2. ControlTypeOK'
  BY <1>1 DEF ControlTypeOK
<1>3. Life'
  BY SameStart DEF Life, All
<1>4. EnginesKnown'
  BY DEF EnginesKnown, EngineKnown, WakesLate
<1>5. StreamsApart'
  BY StreamsKept DEF StreamsApart, TrainStream, GenStream
<1>6. ReadyAgree'
  BY DEF ReadyAgree
<1> QED BY <1>2, <1>3, <1>4, <1>5, <1>6

LEMMA LoadControl == Control /\ LoadCheckpoint => Control'
<1> SUFFICES ASSUME Control, LoadCheckpoint PROVE Control'
  OBVIOUS
<1>0. /\ driver = "load" /\ driver' = "next" /\ rollouts = 0 /\ All("out") /\ version = 0
      /\ job \in Jobs /\ Saved \in Nat /\ job.async \in BOOLEAN
      /\ UNCHANGED <<job, steps, rollouts, testing>>
  BY JobFacts, StepsAssumption DEF Control, Life, LoadCheckpoint, ControlTypeOK, batchVars
<1>1. UNCHANGED <<engine, loaded, train, gen, stage, held>>
  BY DEF LoadCheckpoint, Restore, hybridVars
<1>2. /\ version' = IF job.resumed THEN TrainedBy(Saved) ELSE 0
      /\ rng' = IF job.resumed THEN [w \in Workers |-> OwnStream(w, TrainedBy(Saved))] ELSE rng
  BY <1>0 DEF LoadCheckpoint, Restore, hybridVars
<1>3. HybridTypeOK'
  <2>1. rng' \in [Workers -> Streams]
    BY <1>0, <1>2, MeshFacts, TrainedNat DEF OwnStream, Streams, Control, ControlTypeOK, HybridTypeOK
  <2> QED BY <1>0, <1>1, <1>2, <2>1, TrainedNat DEF Control, ControlTypeOK, HybridTypeOK
<1>4. ControlTypeOK'
  BY <1>0, <1>3 DEF Control, ControlTypeOK, Phases
<1>5. Life'
  BY <1>0, <1>1, <1>2, SameStart DEF Life, All
<1>6. EnginesKnown'
  BY <1>0, <1>1 DEF Control, EnginesKnown, EngineKnown, All, Inside
<1>7. StreamsApart'
  <2>1. \A w \in Workers : engine[w] = IF job.async THEN "awake" ELSE "asleep"
    BY <1>0 DEF All, Control, EnginesKnown, EngineKnown
  <2>2. \A w \in Workers : TrainStream(w) = OwnStream(w, 0)
    BY <1>0 DEF Control, StreamsApart, TrainDraws
  <2>3. TrainDraws' = IF job.async THEN 0 ELSE version'
    <3>1. TrainDraws' = OwnDraws' /\ TrainedBy(Saved)' = TrainedBy(Saved) /\ WakesLate' = WakesLate
      BY <1>0 DEF TrainDraws, TrainedBy, TrainsActor, WakesLate
    <3>2. TrainedBy(Saved) \in Nat
      BY <1>0, TrainedNat
    <3> QED BY <1>0, <1>2, <3>1, <3>2 DEF OwnDraws, WakesLate
  <2>4. ASSUME NEW w \in Workers PROVE TrainStream(w)' = OwnStream(w, TrainDraws')
    BY <1>0, <1>1, <1>2, <2>1, <2>2, <2>3 DEF TrainStream
  <2>5. ~WakesLate =>
            \A v, w \in Workers : EngineOf(v) = EngineOf(w) => GenStream(v)' = GenStream(w)'
    BY <1>0, <1>1, <1>2, <2>1 DEF Control, StreamsApart, GenStream, WakesLate
  <2>6. WakesLate' = WakesLate
    BY <1>0 DEF WakesLate
  <2> QED BY <2>4, <2>5, <2>6 DEF StreamsApart, OwnStream
<1>8. ReadyAgree'
  BY <1>0, <1>1 DEF Control, ReadyAgree
<1> QED BY <1>4, <1>5, <1>6, <1>7, <1>8 DEF Control

LEMMA StartControl ==
    ASSUME Control, driver = "next", NEW batch, StartRollout(batch),
           job' = job, steps' = steps, testing' \in BOOLEAN, testing' \/ steps < MaxSteps
    PROVE  Control'
<1>0. /\ driver' = "rollout" /\ rollouts' = rollouts + 1 /\ rollouts \in Nat
      /\ stage' = [w \in Workers |-> "entering"]
      /\ UNCHANGED <<engine, loaded, version, rng, train, gen>>
      /\ held' = IF job.async THEN [w \in Workers |-> <<>>] ELSE Parts(batch)
      /\ DOMAIN held' = Workers
      /\ All("out") /\ job \in Jobs
  BY DEF Control, ControlTypeOK, Life, StartRollout, Begin, Parts
<1>1. ControlTypeOK'
  BY <1>0 DEF Control, ControlTypeOK, HybridTypeOK, Phases
<1>2. Life'
  BY <1>0, SameStart DEF Control, Life, All
<1>3. EnginesKnown'
  BY <1>0 DEF Control, EnginesKnown, EngineKnown, All, Inside
<1>4. StreamsApart'
  BY <1>0, StreamsKept DEF Control, StreamsApart, TrainStream, GenStream
<1>5. ReadyAgree'
  BY <1>0 DEF ReadyAgree
<1> QED BY <1>1, <1>2, <1>3, <1>4, <1>5 DEF Control

LEMMA CollectControl == Control /\ Collect => Control'
<1> SUFFICES ASSUME Control, Collect PROVE Control'
  OBVIOUS
<1>0. /\ driver = "rollout" /\ driver' = "join" /\ All("done")
      /\ UNCHANGED <<job, steps, rollouts, testing, engine, loaded, version, rng, train, gen>>
      /\ stage' = [w \in Workers |-> "out"]
      /\ held' = [w \in Workers |-> <<>>]
      /\ rollouts \in Nat \ {0}
  BY DEF Collect, End, Control, Life, ControlTypeOK
<1>1. ControlTypeOK'
  BY <1>0 DEF Control, ControlTypeOK, HybridTypeOK, Phases
<1>2. Life'
  BY <1>0, SameStart DEF Control, Life, All
<1>3. EnginesKnown'
  BY <1>0 DEF Control, EnginesKnown, EngineKnown, All, Inside
<1>4. StreamsApart'
  BY <1>0, StreamsKept DEF Control, StreamsApart, TrainStream, GenStream
<1>5. ReadyAgree'
  BY <1>0 DEF ReadyAgree
<1> QED BY <1>1, <1>2, <1>3, <1>4, <1>5 DEF Control

LEMMA UpdateControl ==
    ASSUME Control, UpdateActor, TrainsActor(StartStep + steps + 1)
    PROVE  Control'
<1>0. /\ driver = "scored" /\ driver' = "next" /\ All("out") /\ rollouts \in Nat \ {0}
      /\ UNCHANGED <<job, rollouts, testing, engine, loaded, train, gen, stage, held>>
      /\ version' = version + 1 /\ steps' = steps + 1
      /\ rng' = [w \in Workers |-> Drawn(rng[w])]
      /\ job \in Jobs /\ version \in Nat /\ MaxSteps \in Nat /\ steps < MaxSteps
  BY StepsAssumption DEF UpdateActor, Update, Control, Life, ControlTypeOK, HybridTypeOK, batchVars
<1>1. \A w \in Workers : engine[w] = "asleep"
  BY <1>0 DEF Control, EnginesKnown, EngineKnown, All
<1>2. ControlTypeOK'
  <2>1. rng' \in [Workers -> Streams]
    BY <1>0 DEF Control, ControlTypeOK, HybridTypeOK, Streams, Drawn
  <2>2. steps' \in 0 .. MaxSteps
    BY <1>0 DEF Control, ControlTypeOK
  <2> QED BY <1>0, <2>1, <2>2 DEF Control, ControlTypeOK, HybridTypeOK, Phases
<1>3. Life'
  BY <1>0 DEF Life, All
<1>4. EnginesKnown'
  BY <1>0, <1>1 DEF Control, EnginesKnown, EngineKnown, All, Inside
<1>5. StreamsApart'
  <2>1. TrainDraws' = TrainDraws + 1 /\ TrainDraws \in Int /\ WakesLate' = WakesLate
    <3>1. TrainedBy(Saved)' = TrainedBy(Saved) /\ TrainedBy(Saved) \in Nat /\ WakesLate' = WakesLate
      BY <1>0, TrainedNat DEF TrainedBy, TrainsActor, WakesLate
    <3> QED BY <1>0, <3>1 DEF TrainDraws, OwnDraws
  <2>2. \A w \in Workers : rng[w] = OwnStream(w, TrainDraws)
    BY <1>1 DEF Control, StreamsApart, TrainStream
  <2>3. \A w \in Workers : rng'[w] = OwnStream(w, TrainDraws + 1)
    BY <1>0, <2>2 DEF OwnStream, Drawn
  <2>4. \A w \in Workers : TrainStream(w)' = OwnStream(w, TrainDraws')
    BY <1>0, <1>1, <2>1, <2>3 DEF TrainStream
  <2>5. ~WakesLate =>
            \A v, w \in Workers : EngineOf(v) = EngineOf(w) => GenStream(v)' = GenStream(w)'
    BY <1>0, <1>1 DEF Control, StreamsApart, GenStream
  <2> QED BY <2>1, <2>4, <2>5 DEF StreamsApart, OwnStream
<1>6. ReadyAgree'
  BY <1>0 DEF Control, ReadyAgree
<1> QED BY <1>2, <1>3, <1>4, <1>5, <1>6 DEF Control
------------------------------------------------------------------------------
(* The steps of the workers.  None of them touches the driver, and all of    *)
(* them are part of a rollout.                                               *)

StaysDriver == UNCHANGED <<job, driver, steps, rollouts, batchVars>>

LEMMA WorkersControl ==
    ASSUME Control, StaysDriver, HybridTypeOK', version' = version,
           driver = "rollout" \/ stage' = stage
    PROVE  ControlTypeOK' /\ Life'
<1>1. ControlTypeOK'
  BY DEF Control, ControlTypeOK, StaysDriver, batchVars
<1>2. Life'
  BY SameStart DEF Control, Life, All, StaysDriver, batchVars
<1> QED BY <1>1, <1>2

LEMMA LoadStep ==
    ASSUME Control, StaysDriver, NEW w \in Workers, Load(w, job.async)
    PROVE  Control'
<1>0. /\ stage[w] = "entering" /\ ~(job.async /\ engine[w] = "awake")
      /\ engine' = [engine EXCEPT ![w] = "weights"]
      /\ stage' = [stage EXCEPT ![w] = "loading"]
      /\ UNCHANGED <<loaded, version, rng, train, gen, held, job, rollouts>>
      /\ job.async \in BOOLEAN /\ HybridTypeOK
  BY JobFacts DEF Load, Goes, StaysDriver, Control, ControlTypeOK
<1>1. engine[w] = "asleep" /\ ~(job.async /\ rollouts = 1)
  BY <1>0 DEF Control, EnginesKnown, EngineKnown
<1>2. driver = "rollout"
  BY <1>0 DEF Control, Life, All
<1>3. HybridTypeOK'
  BY <1>0 DEF HybridTypeOK
<1>4. EnginesKnown'
  BY <1>0, <1>1 DEF Control, EnginesKnown, EngineKnown, HybridTypeOK, Inside, WakesLate
<1>5. \A v \in Workers : TrainStream(v)' = TrainStream(v) /\ GenStream(v)' = GenStream(v)
  BY <1>0, <1>1 DEF TrainStream, GenStream, HybridTypeOK
<1>6. StreamsApart'
  BY <1>0, <1>5, StreamsKept DEF Control, StreamsApart, StaysDriver
<1>7. ReadyAgree'
  BY <1>0 DEF Control, ReadyAgree, HybridTypeOK
<1> QED BY <1>0, <1>2, <1>3, <1>4, <1>6, <1>7, WorkersControl DEF Control

LEMMA SkipStep ==
    ASSUME Control, StaysDriver, NEW w \in Workers, SkipWake(w, job.async)
    PROVE  Control'
<1>0. /\ stage[w] = "entering" /\ job.async /\ engine[w] = "awake"
      /\ stage' = [stage EXCEPT ![w] = "inside"]
      /\ UNCHANGED <<engine, loaded, version, rng, train, gen, held, job, rollouts>>
      /\ job.resumed \in BOOLEAN /\ HybridTypeOK
  BY JobFacts DEF SkipWake, Goes, StaysDriver, Control, ControlTypeOK
<1>1. rollouts = 1 /\ loaded[w] = 0
  BY <1>0 DEF Control, EnginesKnown, EngineKnown
<1>2. driver = "rollout"
  BY <1>0 DEF Control, Life, All
<1>3. version = IF job.resumed THEN TrainedBy(Saved) ELSE 0
  BY <1>1, <1>2 DEF Control, Life
<1>4. HybridTypeOK'
  BY <1>0 DEF HybridTypeOK
<1>5. EnginesKnown'
  BY <1>0, <1>1, <1>3 DEF Control, EnginesKnown, EngineKnown, HybridTypeOK, Inside, WakesLate
<1>6. StreamsApart'
  BY <1>0, StreamsKept DEF Control, StreamsApart, TrainStream, GenStream, StaysDriver
<1>7. ReadyAgree'
  BY <1>0 DEF Control, ReadyAgree, HybridTypeOK
<1> QED BY <1>0, <1>2, <1>4, <1>5, <1>6, <1>7, WorkersControl DEF Control

LEMMA SyncStep ==
    ASSUME Control, StaysDriver, NEW w \in Workers, Sync(w)
    PROVE  Control'
<1>0. /\ stage[w] = "loading"
      /\ loaded' = [loaded EXCEPT ![w] = version]
      /\ engine' = [engine EXCEPT ![w] = "awake"]
      /\ train' = [train EXCEPT ![w] = rng[w]]
      /\ rng' = [rng EXCEPT ![w] = gen[w]]
      /\ stage' = [stage EXCEPT ![w] = "inside"]
      /\ UNCHANGED <<version, gen, held, job, rollouts>>
      /\ job.async \in BOOLEAN /\ HybridTypeOK
  BY JobFacts DEF Sync, Goes, StaysDriver, Control, ControlTypeOK
<1>1. engine[w] = "weights" /\ ~(job.async /\ rollouts = 1)
  BY <1>0 DEF Control, EnginesKnown, EngineKnown
<1>2. driver = "rollout"
  BY <1>0 DEF Control, Life, All
<1>3. HybridTypeOK'
  BY <1>0 DEF HybridTypeOK
<1>4. EnginesKnown'
  <2>1. /\ stage'[w] = "inside" /\ engine'[w] = "awake" /\ loaded'[w] = version
        /\ ~(WakesLate /\ rollouts = 1)' /\ (rollouts \in Nat \ {0})'
    BY <1>0, <1>1, <1>2 DEF HybridTypeOK, WakesLate, Control, Life, ControlTypeOK
  <2>2. EngineKnown(w)'
    BY <1>0, <2>1 DEF EngineKnown, Inside
  <2>3. ASSUME NEW v \in Workers, v # w PROVE EngineKnown(v)'
    <3>1. stage'[v] = stage[v] /\ engine'[v] = engine[v] /\ loaded'[v] = loaded[v]
      BY <1>0, <2>3 DEF HybridTypeOK
    <3> QED BY <1>0, <3>1 DEF Control, EnginesKnown, EngineKnown, WakesLate
  <2> QED BY <2>2, <2>3 DEF EnginesKnown
<1>5. \A v \in Workers : TrainStream(v)' = TrainStream(v) /\ GenStream(v)' = GenStream(v)
  BY <1>0, <1>1 DEF TrainStream, GenStream, HybridTypeOK
<1>6. StreamsApart'
  BY <1>0, <1>5, StreamsKept DEF Control, StreamsApart, StaysDriver
<1>7. ReadyAgree'
  BY <1>0 DEF Control, ReadyAgree, HybridTypeOK
<1> QED BY <1>0, <1>2, <1>3, <1>4, <1>6, <1>7, WorkersControl DEF Control

LEMMA LeaveStep ==
    ASSUME Control, StaysDriver, NEW w \in Workers, Leave(w, job.async)
    PROVE  Control'
<1>0. /\ stage[w] = "leaving"
      /\ stage' = [stage EXCEPT ![w] = "done"]
      /\ UNCHANGED <<loaded, version, train, job, rollouts>>
      /\ HybridTypeOK
  BY DEF Leave, Goes, StaysDriver, Control, ControlTypeOK
<1>1. engine[w] = "awake"
  BY <1>0 DEF Control, EnginesKnown, EngineKnown, Inside
<1>2. driver = "rollout"
  BY <1>0 DEF Control, Life, All
<1>3. /\ engine' = [engine EXCEPT ![w] = "asleep"]
      /\ gen' = [gen EXCEPT ![w] = rng[w]]
      /\ rng' = [rng EXCEPT ![w] = train[w]]
  BY <1>1 DEF Leave
<1>4. \A v \in Workers : v # w => held'[v] = held[v]
  <2>1. held' = held \/ held' = [held EXCEPT ![w] = Chunk(held[w], Tp, TpRank(w))]
    BY DEF Leave
  <2> QED BY <1>0, <2>1 DEF HybridTypeOK
<1>5. HybridTypeOK'
  <2>1. DOMAIN held' = Workers
    BY <1>0 DEF HybridTypeOK, Leave
  <2> QED BY <1>0, <1>3, <2>1 DEF HybridTypeOK
<1>6. EnginesKnown'
  BY <1>0, <1>3 DEF Control, EnginesKnown, EngineKnown, HybridTypeOK, Inside, WakesLate
<1>7. \A v \in Workers : TrainStream(v)' = TrainStream(v) /\ GenStream(v)' = GenStream(v)
  BY <1>0, <1>1, <1>3 DEF TrainStream, GenStream, HybridTypeOK
<1>8. StreamsApart'
  BY <1>0, <1>7, StreamsKept DEF Control, StreamsApart, StaysDriver
<1>9. ReadyAgree'
  <2>1. job.async => held' = held
    BY DEF Leave
  <2>2. \A v \in Workers : stage'[v] = "ready" => v # w /\ stage[v] = "ready"
    BY <1>0 DEF HybridTypeOK
  <2>3. \A u, v \in Workers :
            EngineOf(u) = EngineOf(v) /\ stage'[u] = "ready" /\ stage'[v] = "ready" =>
                held'[u] = held'[v]
    BY <1>4, <2>2 DEF Control, ReadyAgree
  <2>4. job.async => \A v \in Workers : held'[v] = <<>>
    BY <2>1 DEF Control, ReadyAgree
  <2> QED BY <1>0, <2>3, <2>4 DEF ReadyAgree
<1> QED BY <1>0, <1>2, <1>5, <1>6, <1>8, <1>9, WorkersControl DEF Control

LEMMA GatherStep ==
    ASSUME Control, StaysDriver, ~job.async, NEW d \in Engines, Gather(d)
    PROVE  Control'
<1>0. /\ \A w \in Group(d) : stage[w] = "inside"
      /\ held' = [w \in Workers |-> IF w \in Group(d) THEN Gathered(d) ELSE held[w]]
      /\ stage' = [w \in Workers |-> IF w \in Group(d) THEN "ready" ELSE stage[w]]
      /\ UNCHANGED <<engine, loaded, version, rng, train, gen, job, rollouts>>
      /\ HybridTypeOK
  BY DEF Gather, GroupGoes, StaysDriver, Control, ControlTypeOK
<1>1. \A w \in Workers : w \in Group(d) <=> EngineOf(w) = d
  BY DEF Group
<1>2. driver = "rollout" \/ stage' = stage
  <2>1. CASE Group(d) = {}
    BY <1>0, <2>1 DEF HybridTypeOK
  <2>2. CASE Group(d) # {}
    BY <1>0, <2>2 DEF Control, Life, All, Group
  <2> QED BY <2>1, <2>2
<1>3. HybridTypeOK'
  BY <1>0 DEF HybridTypeOK
<1>4. EnginesKnown'
  BY <1>0 DEF Control, EnginesKnown, EngineKnown, Inside, WakesLate
<1>5. StreamsApart'
  BY <1>0, StreamsKept DEF Control, StreamsApart, TrainStream, GenStream, StaysDriver
<1>6. ReadyAgree'
  BY <1>0, <1>1 DEF Control, ReadyAgree
<1> QED BY <1>0, <1>2, <1>3, <1>4, <1>5, <1>6, WorkersControl DEF Control

LEMMA AllStep ==                                    \* the driver moves all workers on
    ASSUME Control, StaysDriver, NEW from \in Inside, NEW to \in Inside, to # "inside",
           All(from), stage' = [w \in Workers |-> to],
           UNCHANGED <<engine, loaded, version, rng, train, gen, held>>,
           to = "ready" => \A v, w \in Workers : EngineOf(v) = EngineOf(w) => held[v] = held[w]
    PROVE  Control'
<1>0. HybridTypeOK /\ UNCHANGED <<job, rollouts>>
  BY DEF Control, ControlTypeOK, StaysDriver
<1>1. driver = "rollout"
  <2>1. 0 \in Workers
    BY MeshFacts DEF Workers
  <2> QED BY <2>1 DEF Control, Life, All, Inside
<1>2. HybridTypeOK'
  BY <1>0 DEF HybridTypeOK, Inside
<1>3. EnginesKnown'
  BY <1>0 DEF Control, EnginesKnown, EngineKnown, All, Inside, WakesLate
<1>4. StreamsApart'
  BY <1>0, StreamsKept DEF Control, StreamsApart, TrainStream, GenStream, StaysDriver
<1>5. ReadyAgree'
  BY <1>0 DEF Control, ReadyAgree
<1> QED BY <1>1, <1>2, <1>3, <1>4, <1>5, WorkersControl DEF Control

LEMMA GenerateStep ==
    ASSUME Control, StaysDriver, NEW d \in Engines, NEW n, Generate(d, n, job.async)
    PROVE  Control'
<1> DEFINE next == IF job.async THEN "served" ELSE "leaving"
<1>0. /\ \A w \in Group(d) : stage[w] = "ready"
      /\ rng' = [w \in Workers |-> IF w \in Group(d) THEN Drawn(rng[w]) ELSE rng[w]]
      /\ stage' = [w \in Workers |-> IF w \in Group(d) THEN next ELSE stage[w]]
      /\ UNCHANGED <<engine, loaded, version, train, gen, job, rollouts>>
      /\ HybridTypeOK
  BY DEF Generate, GroupGoes, StaysDriver, Control, ControlTypeOK
<1>1. \A w \in Workers : w \in Group(d) <=> EngineOf(w) = d
  BY DEF Group
<1>2. next \in {"served", "leaving"}
  OBVIOUS
<1> HIDE DEF next
<1>3. driver = "rollout" \/ stage' = stage
  <2>1. CASE Group(d) = {}
    BY <1>0, <2>1 DEF HybridTypeOK
  <2>2. CASE Group(d) # {}
    BY <1>0, <2>2 DEF Control, Life, All, Group
  <2> QED BY <2>1, <2>2
<1>4. \A w \in Workers : w \notin Group(d) => held'[w] = held[w]
  BY DEF Generate
<1>5. HybridTypeOK'
  <2>1. DOMAIN held' = Workers
    BY <1>0 DEF Generate, HybridTypeOK
  <2>2. rng' \in [Workers -> Streams]
    BY <1>0 DEF HybridTypeOK, Streams, Drawn
  <2>3. stage' \in [Workers -> {"out", "entering", "loading", "inside", "ready",
                                "served", "leaving", "done"}]
    BY <1>0, <1>2 DEF HybridTypeOK
  <2> QED BY <1>0, <2>1, <2>2, <2>3 DEF HybridTypeOK
<1>6. EnginesKnown'
  BY <1>0, <1>2 DEF Control, EnginesKnown, EngineKnown, Inside, WakesLate
<1>7. \A w \in Workers : TrainStream(w)' = TrainStream(w)
  <2>1. \A w \in Group(d) : engine[w] = "awake"
    BY <1>0 DEF Control, EnginesKnown, EngineKnown, Inside, Group
  <2> QED BY <1>0, <2>1 DEF TrainStream
<1>8. \A w \in Workers :
          GenStream(w)' = IF EngineOf(w) = d THEN Drawn(GenStream(w)) ELSE GenStream(w)
  <2>1. \A w \in Group(d) : engine[w] = "awake"
    BY <1>0 DEF Control, EnginesKnown, EngineKnown, Inside, Group
  <2> QED BY <1>0, <1>1, <2>1 DEF GenStream
<1>9. StreamsApart'
  BY <1>0, <1>7, <1>8, StreamsKept DEF Control, StreamsApart, StaysDriver
<1>10. ReadyAgree'
  <2>1. ASSUME NEW v \in Workers, (stage[v] = "ready")' PROVE v \notin Group(d) /\ stage[v] = "ready"
    BY <1>0, <1>2, <2>1
  <2>2. job.async => held' = held
    BY DEF Generate
  <2> QED BY <1>0, <1>4, <2>1, <2>2 DEF Control, ReadyAgree
<1> QED BY <1>0, <1>3, <1>5, <1>6, <1>9, <1>10, WorkersControl DEF Control

LEMMA WorkersStep == Control /\ WorkersRun => Control'
<1> SUFFICES ASSUME Control, WorkersRun PROVE Control'
  OBVIOUS
<1>0. StaysDriver /\ RolloutStep(Samples, job.async)
  BY DEF WorkersRun, StaysDriver
<1>1. ASSUME NEW w \in Workers, Load(w, job.async) PROVE Control'
  BY <1>0, <1>1, LoadStep
<1>2. ASSUME NEW w \in Workers, SkipWake(w, job.async) PROVE Control'
  BY <1>0, <1>2, SkipStep
<1>3. ASSUME NEW w \in Workers, Sync(w) PROVE Control'
  BY <1>0, <1>3, SyncStep
<1>4. ASSUME NEW w \in Workers, Leave(w, job.async) PROVE Control'
  BY <1>0, <1>4, LeaveStep
<1>5. ASSUME NEW d \in Engines, ~job.async, Gather(d) PROVE Control'
  BY <1>0, <1>5, GatherStep
<1>6. ASSUME NEW d \in Engines, Generate(d, Samples, job.async) PROVE Control'
  BY <1>0, <1>6, GenerateStep
<1>7. CASE job.async /\ Serve
  <2>1. /\ All("inside") /\ stage' = [w \in Workers |-> "ready"]
        /\ UNCHANGED <<engine, loaded, version, rng, train, gen, held>>
    BY <1>7 DEF Serve
  <2>2. \A v, w \in Workers : held[v] = held[w]
    BY <1>7 DEF Control, ReadyAgree
  <2>3. "inside" \in Inside /\ "ready" \in Inside
    BY DEF Inside
  <2> QED BY <1>0, <2>1, <2>2, <2>3, AllStep
<1>8. CASE job.async /\ Dismiss
  <2>1. /\ All("served") /\ stage' = [w \in Workers |-> "leaving"]
        /\ UNCHANGED <<engine, loaded, version, rng, train, gen, held>>
    BY <1>8 DEF Dismiss
  <2>2. "served" \in Inside /\ "leaving" \in Inside
    BY DEF Inside
  <2> QED BY <1>0, <2>1, <2>2, AllStep
<1> QED BY <1>0, <1>1, <1>2, <1>3, <1>4, <1>5, <1>6, <1>7, <1>8 DEF RolloutStep

LEMMA NextControl == Control /\ [Next]_vars => Control'
<1> SUFFICES ASSUME Control, [Next]_vars PROVE Control'
  OBVIOUS
<1>0. /\ job \in Jobs /\ steps \in 0 .. MaxSteps /\ testing \in BOOLEAN /\ driver \in Phases
      /\ MaxSteps \in Nat
  BY StepsAssumption DEF Control, ControlTypeOK
<1>1. CASE LoadCheckpoint
  BY <1>1, LoadControl
<1>2. CASE StartTest
  <2>1. PICK batch : StartRollout(batch)
    BY <1>2 DEF StartTest
  <2>2. driver = "next" /\ job' = job /\ steps' = steps /\ testing' = TRUE
    BY <1>2 DEF StartTest
  <2> QED BY <2>1, <2>2, StartControl
<1>3. CASE StartTrain
  <2>1. PICK batch : StartRollout(batch)
    BY <1>3 DEF StartTrain
  <2>2. driver = "next" /\ job' = job /\ steps' = steps /\ testing' = FALSE /\ steps < MaxSteps
    BY <1>3 DEF StartTrain
  <2> QED BY <2>1, <2>2, StartControl
<1>4. CASE WorkersRun
  BY <1>4, WorkersStep
<1>5. CASE Collect
  BY <1>5, CollectControl
<1>6. CASE UpdateActor
  <2>1. CASE TrainsActor(StartStep + steps + 1)
    BY <1>6, <2>1, UpdateControl
  <2>2. CASE ~TrainsActor(StartStep + steps + 1)
    <3>1. /\ UNCHANGED <<hybridVars, job, rollouts, testing>>
          /\ driver = "scored" /\ driver' = "next" /\ steps' = steps + 1
      BY <1>6, <2>2 DEF UpdateActor, batchVars
    <3>2. rollouts # 0 /\ ~testing /\ steps < MaxSteps
      BY <3>1 DEF Control, Life
    <3>3. steps' \in 0 .. MaxSteps /\ testing' \in BOOLEAN /\ driver' \in Phases \ {"load"}
      BY <1>0, <3>1, <3>2 DEF Phases
    <3> QED BY <3>1, <3>2, <3>3, FrameControl
  <2> QED BY <2>1, <2>2
<1>7. CASE UNCHANGED vars \/ Stopped
  <2>1. UNCHANGED vars
    BY <1>7 DEF Stopped
  <2>2. HybridTypeOK'
    BY <2>1 DEF Control, ControlTypeOK, HybridTypeOK, vars, hybridVars
  <2>3. UNCHANGED <<job, driver, steps, rollouts, testing, engine, loaded, version, rng, train,
                    gen, stage, held>>
    BY <2>1 DEF vars, hybridVars, batchVars
  <2>4. ControlTypeOK' /\ Life'
    BY <2>2, <2>3, SameStart DEF Control, ControlTypeOK, Life, All
  <2>5. EnginesKnown' /\ ReadyAgree'
    BY <2>3 DEF Control, EnginesKnown, EngineKnown, ReadyAgree, WakesLate
  <2>6. StreamsApart'
    BY <2>3, StreamsKept DEF Control, StreamsApart, TrainStream, GenStream
  <2> QED BY <2>4, <2>5, <2>6 DEF Control
<1>8. ASSUME UNCHANGED <<hybridVars, job, rollouts, steps, testing>>,
             driver \in {"next", "join", "joined", "balanced"},
             driver' \in {"failed", "done", "joined", "next", "balanced", "scored"},
             driver = "next" => driver' \in {"failed", "done"},
             driver' \in {"balanced", "scored"} => ~testing
      PROVE  Control'
  <2>1. rollouts = 0 => driver = "next"
    BY <1>8 DEF Control, Life
  <2>2. driver # "next" => testing \/ steps < MaxSteps
    BY <1>8 DEF Control, Life
  <2>3. driver' \in Phases \ {"load"} /\ driver # "rollout" /\ driver # "load" /\ driver' # "rollout"
    BY <1>8 DEF Phases
  <2>4. rollouts = 0 => driver' \in {"next", "done", "failed"}
    BY <1>8, <2>1
  <2>5. driver' \in {"balanced", "scored"} => ~testing'
    BY <1>8
  <2>6. driver' \in {"rollout", "join", "joined", "balanced", "scored"} => testing' \/ steps' < MaxSteps
    BY <1>8, <2>2
  <2>7. steps' \in 0 .. MaxSteps /\ testing' \in BOOLEAN
    BY <1>0, <1>8
  <2> QED BY <1>8, <2>3, <2>4, <2>5, <2>6, <2>7, FrameControl
<1>9. CASE RefuseTrain \/ Finish
  BY <1>8, <1>9 DEF RefuseTrain, Finish, batchVars
<1>10. CASE Join
  BY <1>8, <1>10 DEF Join
<1>11. CASE FinishTest \/ KeepOrder \/ RefuseBalance
  BY <1>8, <1>11 DEF FinishTest, KeepOrder, RefuseBalance, batchVars
<1>12. CASE Balance
  BY <1>8, <1>12 DEF Balance
<1>13. CASE LogProbs
  <2>1. driver = "balanced" /\ ~testing
    BY <1>13 DEF LogProbs, Control, Life
  <2> QED BY <1>8, <1>13, <2>1 DEF LogProbs
<1> QED BY <1>1, <1>2, <1>3, <1>4, <1>5, <1>6, <1>7, <1>9, <1>10, <1>11, <1>12, <1>13 DEF Next

LEMMA ControlHolds == Spec => []Control
BY InitControl, NextControl, PTL DEF Spec

(* For any number of engines and workers, and in any order of their steps:   *)
(* the workers of an engine generate with the same rows, weights and random  *)
(* state.                                                                    *)
THEOREM GroupsAgree == Spec => []GroupAgrees
<1>1. Control => GroupAgrees
  <2> SUFFICES ASSUME Control, NEW d \in Engines, NEW v \in Group(d), NEW w \in Group(d),
                      stage[v] = "ready", stage[w] = "ready"
               PROVE  /\ held[v] = held[w]
                      /\ loaded[v] = loaded[w]
                      /\ ~WakesLate => rng[v] = rng[w]
    BY DEF GroupAgrees
  <2>1. v \in Workers /\ w \in Workers /\ EngineOf(v) = EngineOf(w)
    BY DEF Group
  <2>2. /\ engine[v] = "awake" /\ engine[w] = "awake"
        /\ loaded[v] = loaded[w]
    BY <2>1 DEF Control, EnginesKnown, EngineKnown, Inside
  <2>3. held[v] = held[w]
    BY <2>1 DEF Control, ReadyAgree
  <2>4. ~WakesLate => rng[v] = rng[w]
    BY <2>1, <2>2 DEF Control, StreamsApart, GenStream
  <2> QED BY <2>2, <2>3, <2>4
<1> QED BY <1>1, ControlHolds, PTL

(* An engine that generates is awake with the weights of the last update,    *)
(* but for the first rollout of a resumed job in async mode.                 *)
THEOREM FreshOnceSynced == Spec => []EngineFreshOnceSynced
<1>1. Control => EngineFreshOnceSynced
  BY DEF Control, EnginesKnown, EngineKnown, EngineFreshOnceSynced, EngineFresh, Inside
<1> QED BY <1>1, ControlHolds, PTL

(* Rollouts leave the workers' own random states where the updates drew them *)
(* to, from the saved one on or, in async mode, from a new job's.            *)
THEOREM Undisturbed == Spec => []TrainsUndisturbed
<1>1. Control => TrainsUndisturbed
  <2> SUFFICES ASSUME Control, driver \in {"join", "joined", "balanced", "scored"},
                      NEW w \in Workers
               PROVE  engine[w] = "asleep" /\ rng[w] = OwnStream(w, OwnDraws)
    BY DEF TrainsUndisturbed
  <2>1. stage[w] = "out" /\ rollouts # 0
    BY DEF Control, Life, All
  <2>2. engine[w] = "asleep"
    BY <2>1 DEF Control, EnginesKnown, EngineKnown
  <2> QED BY <2>2 DEF Control, StreamsApart, TrainStream, TrainDraws
<1> QED BY <1>1, ControlHolds, PTL
===============================================================================
