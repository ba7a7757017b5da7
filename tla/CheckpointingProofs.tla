------------------------- MODULE CheckpointingProofs -------------------------
(***************************************************************************)
(* Proofs about Checkpointing for every number of ranks, steps, runs and   *)
(* checkpoints to keep.                                                    *)
(***************************************************************************)
EXTENDS Checkpointing, FiniteSetTheorems, TLAPS

(* The process is up.                                                      *)
Live == job \in {"training", "saving", "saved"}

(* Role r is saved and the tracker does not name the new checkpoint yet.   *)
Appended(r) ==
  job = "saving" /\ ((at = "critic" /\ r = "actor") \/ at \notin {"actor", "critic"})

(* Where the driver is, and how far the tracker is behind.                 *)
Phase ==
  /\ Live => run > 0
  /\ step < Total + run \/ (run = 0 /\ step = 0)
  /\ tracker < Total + run
  /\ job = "saving" => at # "none" /\ step > 0 /\ step > tracker /\ (at = "critic" => UseCritic)
  /\ job = "saving" /\ at # "tracker_open" => tracker # Torn
  /\ job = "training" => step > tracker /\ tracker # Torn
  /\ job = "saved" => step = tracker /\ step > 0

(* The paths rank 0 remembers are of ever later checkpoints.               *)
Ordered(r) ==
  /\ \A i, j \in 1 .. Len(saved[r]) : i < j => saved[r][i] < saved[r][j]
  /\ Live => \A i \in 1 .. Len(saved[r]) : saved[r][i] <= step
  /\ Live /\ ~Appended(r) => \A i \in 1 .. Len(saved[r]) : saved[r][i] <= tracker

(* What of the new checkpoint is on the disk.                              *)
Whole(r) == \A k \in Ranks : shard[<<r, step, k>>] = run

NewFiles ==
  job = "saving" =>
    /\ at \in Roles => \A k \in Ranks : pc[k] = "written" => shard[<<at, step, k>>] = run
    /\ \A r \in Roles : Appended(r) => Whole(r)
    /\ at \in {"tracker", "tracker_open"} => data[step] = run

(* With a single one, files of the tracked checkpoint may be gone while    *)
(* the next is saved, and when the job has crashed then.                   *)
Thinned == ~Spare /\ job \in {"saving", "down", "broken"}

(* What is left of the tracked checkpoint was written by one run.          *)
Tracked ==
  tracker > 0 => \E n \in 1 .. run :
    /\ data[tracker] = n
    /\ \A f \in Shards : f[2] = tracker => shard[f] = n \/ (Thinned /\ shard[f] = 0)

Inv ==
  /\ TypeOK
  /\ Phase
  /\ \A r \in Roles : Ordered(r)
  /\ NewFiles
  /\ Tracked

LEMMA Params ==
  /\ LastRank \in Nat /\ Total \in Nat \ {0} /\ MaxRuns \in Nat \ {0} /\ SaveFreq \in Nat \ {0}
  /\ 0 \in Ranks /\ Steps \subseteq Nat \ {0}
  /\ Roles \subseteq {"actor", "critic"} /\ "actor" \in Roles
  /\ "critic" \in Roles <=> UseCritic
  /\ \A r \in Roles : Keep[r] \in Nat
  BY CheckpointAssumption DEF Ranks, Steps, Roles

LEMMA ShardFacts ==
  ASSUME NEW f \in Shards
  PROVE  f = <<f[1], f[2], f[3]>> /\ f[1] \in Roles /\ f[2] \in Steps /\ f[3] \in Ranks
  BY DEF Shards

(* The tracked checkpoint stays what it is while its files are left alone. *)
LEMMA KeepTracked ==
  ASSUME TypeOK, Tracked, tracker' = tracker,
         run' \in Nat, run' >= run,
         Thinned => Thinned',
         tracker > 0 => data'[tracker] = data[tracker],
         \A f \in Shards : f[2] = tracker => shard'[f] = shard[f]
  PROVE  Tracked'
  <1> SUFFICES ASSUME tracker > 0
               PROVE  \E n \in 1 .. run' :
                        /\ data'[tracker] = n
                        /\ \A f \in Shards : f[2] = tracker =>
                              shard'[f] = n \/ (Thinned' /\ shard'[f] = 0)
    BY DEF Tracked
  <1>1. PICK n \in 1 .. run :
          /\ data[tracker] = n
          /\ \A f \in Shards : f[2] = tracker => shard[f] = n \/ (Thinned /\ shard[f] = 0)
    BY DEF Tracked
  <1>2. n \in 1 .. run'
    BY Params DEF TypeOK
  <1> QED BY <1>1, <1>2

LEMMA RotatedFacts ==
  ASSUME TypeOK, NEW r \in Roles
  PROVE  /\ Len(saved[r]) \in Nat
         /\ Rotated(r) \in 0 .. Len(saved[r])
         /\ Keep[r] # 1 => Rotated(r) = 0 \/ Rotated(r) < Len(saved[r])
  <1>1. Len(saved[r]) \in Nat /\ Keep[r] \in Nat
    BY Params DEF TypeOK
  <1> QED BY <1>1 DEF Rotated

(* What rank 0 removes is older than the checkpoint it writes, and, with   *)
(* one to spare, than the one the tracker names.                           *)
LEMMA DoomedIsOld ==
  ASSUME Inv, SavingRole, NEW s \in Doomed(at)
  PROVE  s \in Steps /\ s < step /\ (Spare => s < tracker)
  <1>1. at \in Roles /\ job = "saving" /\ ~Appended(at)
    BY Params DEF SavingRole, Appended
  <1>2. Ordered(at) /\ (Spare => Keep[at] # 1)
    BY <1>1 DEF Inv, Spare
  <1>3. PICK i \in 1 .. Rotated(at) : s = saved[at][i]
    BY DEF Doomed
  <1>4. Len(saved[at]) \in Nat /\ Rotated(at) <= Len(saved[at])
        /\ (Spare => Rotated(at) < Len(saved[at]))
    BY <1>1, <1>2, <1>3, RotatedFacts DEF Inv
  <1>5. i \in 1 .. Len(saved[at]) /\ (Spare => i + 1 \in 1 .. Len(saved[at]))
    BY <1>1, <1>3, <1>4, RotatedFacts DEF Inv
  <1>6. saved[at] \in Seq(Steps)
    BY <1>1 DEF Inv, TypeOK
  <1>7. \A x \in Steps : x \in Int
    BY Params
  <1>8. tracker < step /\ tracker \in Int /\ step \in Int
    BY <1>1, Params DEF Inv, Phase, TypeOK, Torn
  <1>9. saved[at][i] \in Steps /\ saved[at][i] \in Int /\ saved[at][i] <= tracker
    BY <1>1, <1>2, <1>5, <1>6, <1>7 DEF Ordered, Live
  <1>10. ASSUME Spare PROVE saved[at][i] < tracker
    <2>1. saved[at][i + 1] \in Steps /\ saved[at][i + 1] \in Int
      BY <1>5, <1>6, <1>7, <1>10
    <2>2. saved[at][i] < saved[at][i + 1] /\ saved[at][i + 1] <= tracker
      BY <1>1, <1>2, <1>5, <1>10 DEF Ordered, Live
    <2> QED BY <1>8, <1>9, <2>1, <2>2
  <1> QED BY <1>3, <1>8, <1>9, <1>10

LEMMA InitInv == Init => Inv
  <1> SUFFICES ASSUME Init PROVE Inv
    OBVIOUS
  <1>1. TypeOK
    BY Params DEF Init, TypeOK
  <1>2. Phase /\ NewFiles /\ Tracked
    BY Params DEF Init, Phase, Live, NewFiles, Tracked
  <1>3. ASSUME NEW r \in Roles PROVE Ordered(r)
    BY DEF Init, Ordered, Live
  <1> QED BY <1>1, <1>2, <1>3 DEF Inv

LEMMA LaunchInv ==
  ASSUME Inv, Start \/ StartFails
  PROVE  Inv'
  <1>0. run \in Nat /\ step \in Nat /\ tracker \in Int /\ tracker >= -1
    BY Params DEF Inv, TypeOK, Torn
  <1>1. /\ run' = run + 1 /\ run < MaxRuns /\ shard' = shard /\ data' = data /\ tracker' = tracker
        /\ at' = "none" /\ saved' = [r \in Roles |-> <<>>] /\ pc' = [k \in Ranks |-> "away"]
    BY DEF Start, StartFails, Launch
  <1>2. \/ job' = "training" /\ step' = tracker + 1 /\ tracker >= 0
        \/ job' = "broken" /\ step' = step
    <2>1. CASE Start
      BY <1>0, <2>1 DEF Start, Resumable
    <2>2. CASE StartFails
      BY <2>2 DEF StartFails
    <2> QED BY <2>1, <2>2
  <1>3. step < Total + run \/ (run = 0 /\ step = 0)
    BY DEF Inv, Phase
  <1>4. tracker < Total + run
    BY DEF Inv, Phase
  <1>5. step' \in 0 .. Total + MaxRuns - 1 /\ step' < Total + run'
    BY <1>0, <1>1, <1>2, <1>3, <1>4, Params
  <1>6. TypeOK'
    BY <1>0, <1>1, <1>2, <1>5, Params DEF Inv, TypeOK
  <1>7. Phase'
    BY <1>0, <1>1, <1>2, <1>4, <1>5, Params DEF Phase, Live, Torn
  <1>8. ASSUME NEW r \in Roles PROVE Ordered(r)'
    BY <1>1, <1>2 DEF Ordered
  <1>9. NewFiles'
    BY <1>1, <1>2 DEF NewFiles
  <1>10. Tracked'
    <2>1. CASE StartFails
      BY <1>0, <1>1, <2>1, KeepTracked DEF Inv, StartFails, Thinned
    <2>2. CASE Start /\ tracker > 0
      <3>1. PICK n \in 1 .. run :
              /\ data[tracker] = n
              /\ \A f \in Shards : f[2] = tracker => shard[f] = n \/ shard[f] = 0
        BY <2>2 DEF Inv, Tracked
      <3>2. \A f \in Shards : f[2] = tracker => shard[f] = n
        BY <2>2, <3>1 DEF Start, Resumable, Loadable
      <3>3. n \in 1 .. run'
        BY <1>0, <1>1
      <3> QED BY <1>1, <3>1, <3>2, <3>3 DEF Tracked
    <2>3. CASE Start /\ ~(tracker > 0)
      BY <1>1, <2>3 DEF Tracked
    <2> QED BY <2>1, <2>2, <2>3
  <1> QED BY <1>6, <1>7, <1>8, <1>9, <1>10 DEF Inv

LEMMA AdvanceInv ==
  ASSUME Inv, Train \/ Continue
  PROVE  Inv'
  <1>1. /\ job \in {"training", "saved"} /\ Advance
        /\ UNCHANGED <<at, run, pc, saved, shard, data, tracker>>
    BY DEF Train, Continue
  <1>2. run \in Nat /\ step \in Nat /\ tracker \in Int /\ run > 0
    BY <1>1, Params DEF Inv, TypeOK, Torn, Phase, Live
  <1>3. tracker <= step /\ tracker # Torn
    BY <1>1, <1>2, Params DEF Inv, Phase, TypeOK, Torn
  <1>4. \/ job' = "finished" /\ step' = step
        \/ job' = "training" /\ step' = step + 1 /\ step < Total
    BY <1>1, <1>2, Params DEF Advance, IsLastStep
  <1>5. step' \in 0 .. Total + MaxRuns - 1 /\ (step' < Total + run)
    BY <1>2, <1>4, Params DEF Inv, TypeOK, Phase
  <1>6. TypeOK'
    BY <1>1, <1>4, <1>5 DEF Inv, TypeOK
  <1>7. Phase'
    BY <1>1, <1>2, <1>3, <1>4, <1>5 DEF Inv, Phase, Live
  <1>8. ASSUME NEW r \in Roles PROVE Ordered(r)'
    <2>1. Ordered(r) /\ saved[r] \in Seq(Steps)
      BY DEF Inv, TypeOK
    <2>2. \A i \in 1 .. Len(saved[r]) : saved[r][i] \in Nat
      <3>1. \A i \in 1 .. Len(saved[r]) : saved[r][i] \in Steps
        BY <2>1
      <3> QED BY <3>1, Params
    <2>3. ~Appended(r)
      BY <1>1 DEF Appended
    <2> QED BY <1>1, <1>2, <1>3, <1>4, <2>1, <2>2, <2>3 DEF Ordered, Live
  <1>9. NewFiles'
    BY <1>4 DEF NewFiles
  <1>10. Tracked'
    BY <1>1, <1>2, KeepTracked DEF Inv, Thinned
  <1> QED BY <1>6, <1>7, <1>8, <1>9, <1>10 DEF Inv

LEMMA TrainAndSaveInv ==
  ASSUME Inv, TrainAndSave
  PROVE  Inv'
  <1>1. /\ job = "training" /\ job' = "saving" /\ at' = "actor" /\ pc' = [k \in Ranks |-> "called"]
        /\ UNCHANGED <<run, step, saved, shard, data, tracker>>
    BY DEF TrainAndSave
  <1>2. run \in Nat /\ step \in Nat /\ tracker \in Int /\ tracker >= 0 /\ tracker < step
    BY <1>1, Params DEF Inv, TypeOK, Torn, Phase
  <1>3. TypeOK'
    BY <1>1 DEF Inv, TypeOK
  <1>4. Phase'
    BY <1>1, <1>2 DEF Inv, Phase, Live
  <1>5. ASSUME NEW r \in Roles PROVE Ordered(r)'
    BY <1>1 DEF Inv, Ordered, Live, Appended
  <1>6. NewFiles'
    BY <1>1 DEF NewFiles, Appended
  <1>7. Tracked'
    BY <1>1, <1>2, KeepTracked DEF Inv, Thinned
  <1> QED BY <1>3, <1>4, <1>5, <1>6, <1>7 DEF Inv

LEMMA CrashInv ==
  ASSUME Inv, Crash
  PROVE  Inv'
  <1>1. job' = "down" /\ UNCHANGED <<at, run, step, pc, saved, shard, data, tracker>>
    BY DEF Crash
  <1>2. TypeOK' /\ Phase' /\ NewFiles'
    BY <1>1 DEF Inv, TypeOK, Phase, Live, NewFiles
  <1>3. ASSUME NEW r \in Roles PROVE Ordered(r)'
    BY <1>1 DEF Inv, Ordered, Live
  <1>4. Tracked'
    BY <1>1, Params, KeepTracked DEF Inv, TypeOK, Thinned
  <1> QED BY <1>2, <1>3, <1>4 DEF Inv

LEMMA RotateInv ==
  ASSUME Inv, Rotate
  PROVE  Inv'
  <1>1. PICK s \in Doomed(at), k \in Ranks : shard' = [shard EXCEPT ![<<at, s, k>>] = 0]
    BY DEF Rotate
  <1>2. /\ job = "saving" /\ at \in Roles /\ SavingRole
        /\ UNCHANGED <<job, at, run, step, pc, saved, data, tracker>>
    BY DEF Rotate, SavingRole
  <1>3. s \in Steps /\ s < step /\ (Spare => s < tracker)
    BY <1>2, DoomedIsOld
  <1>4. tracker \in Int /\ step \in Nat /\ s \in Int /\ run \in Nat
    BY <1>3, Params DEF Inv, TypeOK, Torn
  <1>5. \A f \in Shards : f[2] # s => shard'[f] = shard[f]
    BY <1>1 DEF Inv, TypeOK
  <1>6. TypeOK'
    <2>1. 0 \in -1 .. MaxRuns
      BY Params
    <2>2. shard' \in [Shards -> -1 .. MaxRuns]
      BY <1>1, <2>1 DEF Inv, TypeOK
    <2> QED BY <1>2, <2>2 DEF Inv, TypeOK
  <1>7. Phase'
    BY <1>2 DEF Inv, Phase, Live
  <1>8. ASSUME NEW r \in Roles PROVE Ordered(r)'
    BY <1>2 DEF Inv, Ordered, Live, Appended
  <1>9. \A r \in Roles, q \in Ranks : shard'[<<r, step, q>>] = shard[<<r, step, q>>]
    <2>1. step \in Steps
      BY <1>2, Params DEF Inv, TypeOK, Phase, Steps
    <2>2. ASSUME NEW r \in Roles, NEW q \in Ranks PROVE shard'[<<r, step, q>>] = shard[<<r, step, q>>]
      <3>1. <<r, step, q>> \in Shards
        BY <2>1 DEF Shards
      <3>2. <<r, step, q>>[2] # s
        BY <1>3, <1>4
      <3> QED BY <1>5, <3>1, <3>2
    <2> QED BY <2>2
  <1>10. NewFiles'
    BY <1>2, <1>9 DEF Inv, NewFiles, Whole, Appended
  <1>11. Tracked'
    <2>1. CASE Spare
      <3>1. \A f \in Shards : f[2] = tracker => shard'[f] = shard[f]
        BY <1>3, <1>4, <1>5, <2>1
      <3> QED BY <1>2, <1>4, <3>1, KeepTracked DEF Inv, Thinned
    <2>2. CASE ~Spare
      <3>1. \A f \in Shards : shard'[f] = shard[f] \/ shard'[f] = 0
        BY <1>1 DEF Inv, TypeOK
      <3>2. Thinned /\ Thinned'
        BY <1>2, <2>2 DEF Thinned
      <3> QED BY <1>2, <3>1, <3>2 DEF Inv, Tracked
    <2> QED BY <2>1, <2>2
  <1> QED BY <1>6, <1>7, <1>8, <1>10, <1>11 DEF Inv

LEMMA EnterInv ==
  ASSUME Inv, NEW k \in Ranks, Enter(k)
  PROVE  Inv'
  <1>1. /\ job = "saving" /\ at \in Roles /\ pc' = [pc EXCEPT ![k] = "entered"]
        /\ saved' = IF k = 0 THEN [saved EXCEPT ![at] = SubSeq(@, Rotated(at) + 1, Len(@))] ELSE saved
        /\ UNCHANGED <<job, at, run, step, shard, data, tracker>>
    BY DEF Enter, SavingRole
  <1>2. ASSUME NEW r \in Roles PROVE saved'[r] \in Seq(Steps) /\ Ordered(r)'
    <2>1. saved[r] \in Seq(Steps) /\ Ordered(r)
      BY DEF Inv, TypeOK
    <2>2. CASE saved'[r] = saved[r]
      BY <1>1, <2>1, <2>2 DEF Ordered, Live, Appended
    <2>3. CASE r = at /\ k = 0
      <3> DEFINE n == Rotated(at)
      <3>1. n \in 0 .. Len(saved[at]) /\ Len(saved[at]) \in Nat
        BY <1>1, RotatedFacts DEF Inv
      <3>2. saved'[r] = SubSeq(saved[r], n + 1, Len(saved[r]))
        BY <1>1, <2>3 DEF Inv, TypeOK
      <3>3. /\ saved'[r] \in Seq(Steps)
            /\ Len(saved'[r]) = Len(saved[r]) - n
            /\ \A i \in 1 .. Len(saved[r]) - n : saved'[r][i] = saved[r][i + n]
        <4>1. ASSUME NEW q \in Seq(Steps), NEW m \in 0 .. Len(q)
              PROVE  /\ SubSeq(q, m + 1, Len(q)) \in Seq(Steps)
                     /\ Len(SubSeq(q, m + 1, Len(q))) = Len(q) - m
                     /\ \A i \in 1 .. Len(q) - m : SubSeq(q, m + 1, Len(q))[i] = q[i + m]
          OBVIOUS
        <4>2. n \in 0 .. Len(saved[r])
          BY <2>3, <3>1
        <4> HIDE DEF n
        <4> QED BY <2>1, <3>2, <4>1, <4>2, Zenon
      <3>4. \A i \in 1 .. Len(saved[r]) - n : i + n \in 1 .. Len(saved[r])
        BY <2>3, <3>1
      <3>5. \A i, j \in 1 .. Len(saved'[r]) : i < j => saved'[r][i] < saved'[r][j]
        <4>1. ASSUME NEW i \in 1 .. Len(saved[r]) - n, NEW j \in 1 .. Len(saved[r]) - n, i < j
              PROVE  saved[r][i + n] < saved[r][j + n]
          <5>1. i + n < j + n
            BY <4>1, <3>1
          <5> QED BY <2>1, <3>4, <4>1, <5>1 DEF Ordered
        <4> QED BY <3>3, <4>1
      <3>6. \A i \in 1 .. Len(saved'[r]) : saved'[r][i] <= step /\ saved'[r][i] <= tracker
        <4>1. Live /\ ~Appended(r)
          BY <1>1, <2>3, Params DEF Live, Appended
        <4>2. \A i \in 1 .. Len(saved[r]) : saved[r][i] <= step /\ saved[r][i] <= tracker
          BY <2>1, <4>1 DEF Ordered
        <4> QED BY <3>3, <3>4, <4>2
      <3> QED BY <1>1, <3>3, <3>5, <3>6 DEF Ordered
    <2>4. saved'[r] = saved[r] \/ (r = at /\ k = 0)
      BY <1>1 DEF Inv, TypeOK
    <2> QED BY <2>1, <2>2, <2>3, <2>4
  <1>3. saved' \in [Roles -> Seq(Steps)]
    <2>1. saved' = [r \in Roles |-> saved'[r]]
      BY <1>1 DEF Inv, TypeOK
    <2> QED BY <1>2, <2>1
  <1>4. TypeOK'
    BY <1>1, <1>3 DEF Inv, TypeOK
  <1>5. Phase'
    BY <1>1 DEF Inv, Phase, Live
  <1>6. \A q \in Ranks : pc'[q] = "written" => pc[q] = "written"
    BY <1>1 DEF Inv, TypeOK
  <1>7. NewFiles'
    BY <1>1, <1>6 DEF Inv, NewFiles, Whole, Appended
  <1>8. Tracked'
    BY <1>1, Params, KeepTracked DEF Inv, TypeOK, Thinned
  <1> QED BY <1>2, <1>4, <1>5, <1>7, <1>8 DEF Inv

(* Rank k writes its file of the new checkpoint, whole (v = run) or torn.  *)
LEMMA WriteInv ==
  ASSUME Inv, NEW k \in Ranks, WriteShard(k) \/ ShardWritten(k)
  PROVE  Inv'
  <1>1. /\ job = "saving" /\ at \in Roles
        /\ UNCHANGED <<job, at, run, step, saved, data, tracker>>
        /\ \/ pc' = [pc EXCEPT ![k] = "writing"] /\ shard' = [shard EXCEPT ![<<at, step, k>>] = Torn]
           \/ pc' = [pc EXCEPT ![k] = "written"] /\ shard' = [shard EXCEPT ![<<at, step, k>>] = run]
    BY DEF WriteShard, ShardWritten, SavingRole
  <1>2. run \in 1 .. MaxRuns /\ step \in Steps /\ step \in Int /\ tracker \in Int /\ tracker < step
    BY <1>1, Params DEF Inv, TypeOK, Phase, Live, Steps, Torn
  <1>3. <<at, step, k>> \in Shards
    BY <1>1, <1>2 DEF Shards
  <1>4. \A f \in Shards : f # <<at, step, k>> => shard'[f] = shard[f]
    BY <1>1 DEF Inv, TypeOK
  <1>5. TypeOK'
    <2>1. pc' \in [Ranks -> {"away", "called", "entered", "writing", "written"}]
      BY <1>1 DEF Inv, TypeOK
    <2>2. Torn \in -1 .. MaxRuns /\ run \in -1 .. MaxRuns
      BY <1>2, Params DEF Torn
    <2>3. shard' \in [Shards -> -1 .. MaxRuns]
      BY <1>1, <1>3, <2>2 DEF Inv, TypeOK
    <2> QED BY <1>1, <2>1, <2>3 DEF Inv, TypeOK
  <1>6. Phase'
    BY <1>1 DEF Inv, Phase, Live
  <1>7. ASSUME NEW r \in Roles PROVE Ordered(r)'
    BY <1>1 DEF Inv, Ordered, Live, Appended
  <1>8. \A q \in Ranks : pc'[q] = "written" => shard'[<<at, step, q>>] = run
    <2>1. ASSUME NEW q \in Ranks, pc'[q] = "written", q # k PROVE shard'[<<at, step, q>>] = run
      <3>1. pc[q] = "written"
        BY <1>1, <2>1 DEF Inv, TypeOK
      <3>2. <<at, step, q>> \in Shards /\ <<at, step, q>> # <<at, step, k>>
        BY <1>1, <1>2, <2>1 DEF Shards
      <3> QED BY <1>1, <1>4, <3>1, <3>2 DEF Inv, NewFiles
    <2>2. ASSUME pc'[k] = "written" PROVE shard'[<<at, step, k>>] = run
      BY <1>1, <1>3, <2>2 DEF Inv, TypeOK
    <2> QED BY <2>1, <2>2
  <1>9. ASSUME NEW r \in Roles, Appended(r) PROVE r # at /\ Whole(r)'
    <2>1. r # at
      BY <1>1, <1>9, Params DEF Appended
    <2>2. Whole(r)
      BY <1>1, <1>9 DEF Inv, NewFiles
    <2>3. ASSUME NEW q \in Ranks PROVE shard'[<<r, step, q>>] = run
      <3>1. <<r, step, q>> \in Shards /\ <<r, step, q>> # <<at, step, k>>
        BY <1>2, <2>1 DEF Shards
      <3> QED BY <1>4, <2>2, <3>1 DEF Whole
    <2> QED BY <1>1, <2>1, <2>3 DEF Whole
  <1>10. NewFiles'
    <2>1. at \notin {"tracker", "tracker_open"}
      BY <1>1, Params
    <2> QED BY <1>1, <1>8, <1>9, <2>1 DEF NewFiles, Appended
  <1>11. Tracked'
    <2>1. \A f \in Shards : f[2] = tracker => shard'[f] = shard[f]
      BY <1>2, <1>4
    <2> QED BY <1>1, <1>2, <2>1, Params, KeepTracked DEF Inv, Thinned
  <1> QED BY <1>5, <1>6, <1>7, <1>10, <1>11 DEF Inv

LEMMA RoleSavedInv ==
  ASSUME Inv, RoleSaved
  PROVE  Inv'
  <1>1. /\ job = "saving" /\ at \in Roles /\ \A q \in Ranks : pc[q] = "written"
        /\ saved' = [saved EXCEPT ![at] = Append(@, step)]
        /\ UNCHANGED <<job, run, step, shard, data, tracker>>
        /\ \/ at = "actor" /\ UseCritic /\ at' = "critic" /\ pc' = [q \in Ranks |-> "called"]
           \/ ~(at = "actor" /\ UseCritic) /\ at' = "data" /\ pc' = [q \in Ranks |-> "away"]
    BY DEF RoleSaved, SavingRole
  <1>2. run \in 1 .. MaxRuns /\ step \in Steps /\ step \in Int /\ tracker \in Int /\ tracker < step
    BY <1>1, Params DEF Inv, TypeOK, Phase, Live, Steps, Torn
  <1>3. ASSUME NEW r \in Roles PROVE saved'[r] \in Seq(Steps) /\ Ordered(r)'
    <2>1. saved[r] \in Seq(Steps) /\ Ordered(r)
      BY DEF Inv, TypeOK
    <2>2. CASE r # at
      <3>1. saved'[r] = saved[r]
        BY <1>1, <2>2 DEF Inv, TypeOK
      <3>2. Appended(r)' => Appended(r)
        BY <1>1, <2>2, Params DEF Appended
      <3>3. ~Appended(r)' => ~Appended(r)
        BY <1>1, <2>2, Params DEF Appended
      <3> QED BY <1>1, <2>1, <3>1, <3>2, <3>3 DEF Ordered, Live
    <2>3. CASE r = at
      <3> DEFINE n == Len(saved[r])
      <3>1. saved'[r] = Append(saved[r], step) /\ n \in Nat
        BY <1>1, <2>1, <2>3 DEF Inv, TypeOK
      <3>2. /\ saved'[r] \in Seq(Steps) /\ Len(saved'[r]) = n + 1
            /\ saved'[r][n + 1] = step
            /\ \A i \in 1 .. n : saved'[r][i] = saved[r][i]
        BY <1>2, <2>1, <3>1
      <3>3. Live /\ ~Appended(r) /\ Appended(r)'
        BY <1>1, <2>3, Params DEF Live, Appended
      <3>4. \A i \in 1 .. n : saved[r][i] < step
        <4>1. \A i \in 1 .. n : saved[r][i] <= tracker /\ saved[r][i] \in Steps
          BY <2>1, <3>3 DEF Ordered
        <4>2. \A x \in Steps : x \in Int
          BY Params
        <4>3. ASSUME NEW i \in 1 .. n PROVE saved[r][i] < step
          <5>1. saved[r][i] \in Int /\ saved[r][i] <= tracker
            BY <4>1, <4>2
          <5> QED BY <1>2, <5>1
        <4> QED BY <4>3
      <3>5. \A i, j \in 1 .. n + 1 : i < j => saved'[r][i] < saved'[r][j]
        <4>1. ASSUME NEW i \in 1 .. n + 1, NEW j \in 1 .. n + 1, i < j
              PROVE  saved'[r][i] < saved'[r][j]
          <5>1. i \in 1 .. n /\ (j \in 1 .. n \/ j = n + 1)
            BY <3>1, <4>1
          <5> QED BY <2>1, <3>2, <3>4, <4>1, <5>1 DEF Ordered
        <4> QED BY <4>1
      <3>6. \A i \in 1 .. n + 1 : saved'[r][i] <= step
        <4>1. ASSUME NEW i \in 1 .. n PROVE saved'[r][i] <= step
          BY <2>1, <3>2, <3>3 DEF Ordered
        <4>2. \A i \in 1 .. n + 1 : i \in 1 .. n \/ i = n + 1
          BY <3>1
        <4> QED BY <1>2, <3>2, <4>1, <4>2
      <3> QED BY <1>1, <3>2, <3>3, <3>5, <3>6 DEF Ordered
    <2> QED BY <2>2, <2>3
  <1>4. saved' \in [Roles -> Seq(Steps)]
    <2>1. saved' = [r \in Roles |-> saved'[r]]
      BY <1>1 DEF Inv, TypeOK
    <2> QED BY <1>3, <2>1
  <1>5. TypeOK'
    BY <1>1, <1>4 DEF Inv, TypeOK
  <1>6. Phase'
    BY <1>1, Params DEF Inv, Phase, Live
  <1>7. ASSUME NEW r \in Roles, Appended(r)' PROVE Whole(r)'
    <2>1. r = at \/ Appended(r)
      BY <1>1, <1>7, Params DEF Appended
    <2>2. Whole(r)
      BY <1>1, <2>1 DEF Inv, NewFiles, Whole
    <2> QED BY <1>1, <2>2 DEF Whole
  <1>8. NewFiles'
    BY <1>1, <1>7 DEF NewFiles
  <1>9. Tracked'
    BY <1>1, <1>2, Params, KeepTracked DEF Inv, Thinned
  <1> QED BY <1>3, <1>5, <1>6, <1>8, <1>9 DEF Inv

LEMMA DataInv ==
  ASSUME Inv, WriteData \/ DataWritten
  PROVE  Inv'
  <1>1. /\ job = "saving"
        /\ UNCHANGED <<job, run, step, pc, saved, shard, tracker>>
        /\ \/ at = "data" /\ at' = "data_open" /\ data' = [data EXCEPT ![step] = Torn]
           \/ at = "data_open" /\ at' = "tracker" /\ data' = [data EXCEPT ![step] = run]
    BY DEF WriteData, DataWritten
  <1>2. run \in 1 .. MaxRuns /\ step \in Steps /\ step \in Int /\ tracker \in Int /\ tracker < step
    BY <1>1, Params DEF Inv, TypeOK, Phase, Live, Steps, Torn
  <1>3. TypeOK'
    <2>1. Torn \in -1 .. MaxRuns /\ run \in -1 .. MaxRuns
      BY <1>2, Params DEF Torn
    <2>2. data' \in [Steps -> -1 .. MaxRuns]
      BY <1>1, <2>1 DEF Inv, TypeOK
    <2> QED BY <1>1, <2>2 DEF Inv, TypeOK
  <1>4. Phase'
    BY <1>1 DEF Inv, Phase, Live
  <1>5. ASSUME NEW r \in Roles PROVE Ordered(r)'
    <2>1. Appended(r) /\ Appended(r)'
      BY <1>1 DEF Appended
    <2> QED BY <1>1, <2>1 DEF Inv, Ordered, Live
  <1>6. NewFiles'
    <2>1. ASSUME NEW r \in Roles PROVE Whole(r)'
      <3>1. Appended(r)
        BY <1>1 DEF Appended
      <3> QED BY <1>1, <3>1 DEF Inv, NewFiles, Whole
    <2>2. at' \notin Roles
      BY <1>1, Params
    <2>3. at' \in {"tracker", "tracker_open"} => data'[step] = run
      BY <1>1, <1>2 DEF Inv, TypeOK
    <2> QED BY <1>1, <2>1, <2>2, <2>3 DEF NewFiles
  <1>7. Tracked'
    <2>1. ASSUME tracker > 0 PROVE data'[tracker] = data[tracker]
      <3>1. tracker \in Steps /\ tracker # step
        BY <1>2, <2>1 DEF Inv, TypeOK, Torn
      <3> QED BY <1>1, <3>1 DEF Inv, TypeOK
    <2> QED BY <1>1, <1>2, <2>1, KeepTracked DEF Inv, Thinned
  <1> QED BY <1>3, <1>4, <1>5, <1>6, <1>7 DEF Inv

LEMMA OpenTrackerInv ==
  ASSUME Inv, OpenTracker
  PROVE  Inv'
  <1>1. /\ job = "saving" /\ at = "tracker" /\ at' = "tracker_open" /\ tracker' = -1
        /\ UNCHANGED <<job, run, step, pc, saved, shard, data>>
    BY DEF OpenTracker, Torn
  <1>2. TypeOK'
    BY <1>1 DEF Inv, TypeOK, Torn
  <1>3. step \in Nat /\ run \in Nat
    BY Params DEF Inv, TypeOK
  <1>4. Phase'
    BY <1>1, <1>3, Params DEF Inv, Phase, Live
  <1>5. ASSUME NEW r \in Roles PROVE Ordered(r)'
    <2>1. Appended(r) /\ Appended(r)'
      BY <1>1 DEF Appended
    <2> QED BY <1>1, <2>1 DEF Inv, Ordered, Live
  <1>6. NewFiles'
    BY <1>1, Params DEF Inv, NewFiles, Whole, Appended
  <1>7. Tracked'
    BY <1>1 DEF Tracked
  <1> QED BY <1>2, <1>4, <1>5, <1>6, <1>7 DEF Inv

LEMMA WriteTrackerInv ==
  ASSUME Inv, WriteTracker
  PROVE  Inv'
  <1>1. /\ job = "saving" /\ at = "tracker_open" /\ job' = "saved" /\ at' = "none" /\ tracker' = step
        /\ UNCHANGED <<run, step, pc, saved, shard, data>>
    BY DEF WriteTracker
  <1>2. run \in 1 .. MaxRuns /\ step \in Steps /\ step \in Int /\ step > 0
    BY <1>1, Params DEF Inv, TypeOK, Phase, Live, Steps, Torn
  <1>3. TypeOK'
    BY <1>1, <1>2 DEF Inv, TypeOK
  <1>4. Phase'
    BY <1>1, <1>2, Params DEF Inv, Phase, Live, Torn
  <1>5. ASSUME NEW r \in Roles PROVE Ordered(r)'
    BY <1>1 DEF Inv, Ordered, Live
  <1>6. NewFiles'
    BY <1>1 DEF NewFiles
  <1>7. Tracked'
    <2>1. ASSUME NEW f \in Shards, f[2] = step PROVE shard[f] = run
      <3>1. Appended(f[1]) /\ f[1] \in Roles
        BY <1>1, <2>1, ShardFacts DEF Appended
      <3>2. Whole(f[1])
        BY <1>1, <3>1 DEF Inv, NewFiles
      <3>3. f = <<f[1], step, f[3]>> /\ f[3] \in Ranks
        BY <2>1, ShardFacts
      <3> QED BY <3>2, <3>3 DEF Whole
    <2>2. data[step] = run
      BY <1>1 DEF Inv, NewFiles
    <2> QED BY <1>1, <1>2, <2>1, <2>2 DEF Tracked
  <1> QED BY <1>3, <1>4, <1>5, <1>6, <1>7 DEF Inv

LEMMA NextInv == ASSUME Inv, [Next]_vars PROVE Inv'
  <1>1. CASE UNCHANGED vars
    <2>1. TypeOK' /\ Phase' /\ NewFiles' /\ Tracked'
      BY <1>1 DEF vars, Inv, TypeOK, Phase, Live, NewFiles, Whole, Appended, Tracked, Thinned
    <2>2. ASSUME NEW r \in Roles PROVE Ordered(r)'
      BY <1>1 DEF vars, Inv, Ordered, Live, Appended
    <2> QED BY <2>1, <2>2 DEF Inv
  <1>2. CASE Work
    <2>1. CASE Start \/ StartFails \/ Train \/ TrainAndSave \/ Continue
      BY <2>1, LaunchInv, AdvanceInv, TrainAndSaveInv
    <2>2. CASE SaveRole
      BY <2>2, RotateInv, EnterInv, WriteInv, RoleSavedInv DEF SaveRole
    <2>3. CASE SaveRest
      BY <2>3, DataInv, OpenTrackerInv, WriteTrackerInv DEF SaveRest
    <2> QED BY <1>2, <2>1, <2>2, <2>3 DEF Work
  <1>3. CASE Crash
    BY <1>3, CrashInv
  <1> QED BY <1>1, <1>2, <1>3 DEF Next, Stopped

THEOREM InvAlways == Spec => []Inv
  <1>1. Inv /\ [Next]_vars => Inv'
    BY NextInv
  <1> QED BY <1>1, InitInv, PTL DEF Spec

-----------------------------------------------------------------------------
(* The state is well typed, and global_steps never exceeds the steps that  *)
(* the number of starts accounts for.                                      *)
THEOREM TypeCorrect == Spec => []TypeOK
  <1> Inv => TypeOK
    BY DEF Inv
  <1> QED BY InvAlways, PTL

(* As long as at least two checkpoints of every role that is rotated are   *)
(* kept, the checkpoint that the tracker names is whole and of one run,    *)
(* wherever and however often the job crashes.                             *)
THEOREM TrackedCheckpointIsWhole == Spare => (Spec => []TrackedIsWhole)
  <1> SUFFICES ASSUME Spare PROVE Spec => []TrackedIsWhole
    OBVIOUS
  <1>1. Inv => TrackedIsWhole
    BY DEF Inv, Tracked, Thinned, TrackedIsWhole, OfOneRun
  <1> QED BY <1>1, InvAlways, PTL

(* However few checkpoints are kept, no run trains from a mixed or thinned *)
(* one: a restart that finds the tracked checkpoint thinned does not get   *)
(* as far, and one that loads it finds the files of one run.               *)
THEOREM NoneResumesFromAMix == Spec => []ResumedIsWhole
  <1>1. Inv => ResumedIsWhole
    BY DEF Inv, Tracked, Thinned, ResumedIsWhole, TrackedIsWhole, OfOneRun
  <1> QED BY <1>1, InvAlways, PTL

-----------------------------------------------------------------------------
(* Between the tracked step and the current one there is none that is      *)
(* saved, and what is tracked is a multiple of SaveFreq or a last step.    *)
NoneSkipped ==
  /\ tracker > 0 => tracker % SaveFreq = 0 \/ tracker >= Total
  /\ job = "saving" => IsLastStep \/ step % SaveFreq = 0
  /\ job \in {"training", "saving"} /\ tracker # Torn =>
       /\ \A s \in Nat : tracker < s /\ s < step => s % SaveFreq # 0 /\ s < Total
       /\ tracker >= Total => step = tracker + 1

LEMMA NextMultiple ==
  ASSUME NEW a \in Nat, NEW b \in Nat \ {0}, a % b = 0
  PROVE  (a + b) % b = 0
  <1>1. a = b * (a \div b) + (a % b) /\ a \div b \in Int
    BY Z3
  <1>2. a + b = b * ((a \div b) + 1)
    BY <1>1, Z3
  <1>3. \A q \in Int : (b * q) % b = 0
    BY Z3
  <1> QED BY <1>1, <1>2, <1>3

LEMMA SkipInit == Init => NoneSkipped
  BY DEF Init, NoneSkipped

LEMMA SkipNext == ASSUME Inv, NoneSkipped, [Next]_vars PROVE NoneSkipped'
  <1>1. /\ step \in Nat /\ tracker \in Int /\ Total \in Nat
        /\ tracker # Torn => tracker \in Nat
    BY Params DEF Inv, TypeOK, Torn
  <1>2. CASE Start
    BY <1>1, <1>2, Params DEF Start, Launch, NoneSkipped, Torn
  <1>3. CASE StartFails
    BY <1>3 DEF StartFails, Launch, NoneSkipped
  <1>4. CASE Train
    <2>1. /\ job = "training" /\ step < Total /\ step % SaveFreq # 0 /\ tracker' = tracker
          /\ job' = "training" /\ step' = step + 1 /\ tracker < step
      BY <1>1, <1>4 DEF Train, Saves, IsLastStep, Advance, Inv, Phase
    <2>2. tracker < Total
      BY <1>1, <2>1
    <2>3. ASSUME tracker # Torn, NEW s \in Nat, tracker < s, s < step + 1
          PROVE  s % SaveFreq # 0 /\ s < Total
      <3>1. s = step \/ s < step
        BY <1>1, <2>3
      <3> QED BY <2>1, <2>3, <3>1 DEF NoneSkipped
    <2> QED BY <1>1, <2>1, <2>2, <2>3 DEF NoneSkipped
  <1>5. CASE TrainAndSave
    BY <1>5 DEF TrainAndSave, NoneSkipped, Saves, IsLastStep
  <1>6. CASE Continue
    <2>1. job = "saved" /\ tracker' = tracker /\ step = tracker
      BY <1>6 DEF Continue, Inv, Phase
    <2>2. \/ job' = "finished"
          \/ job' = "training" /\ step' = tracker + 1 /\ tracker < Total
      BY <1>1, <1>6, <2>1 DEF Continue, Advance, IsLastStep
    <2> QED BY <1>1, <2>1, <2>2 DEF NoneSkipped
  <1>7. CASE Rotate \/ (\E k \in Ranks : Enter(k) \/ WriteShard(k) \/ ShardWritten(k))
             \/ RoleSaved \/ WriteData \/ DataWritten \/ UNCHANGED vars
    <2>1. UNCHANGED <<job, step, tracker>>
      BY <1>7 DEF Rotate, Enter, WriteShard, ShardWritten, RoleSaved, WriteData, DataWritten, vars
    <2> QED BY <2>1 DEF NoneSkipped, IsLastStep
  <1>8. CASE OpenTracker
    BY <1>8 DEF OpenTracker, NoneSkipped, Torn, IsLastStep
  <1>9. CASE WriteTracker
    BY <1>9 DEF WriteTracker, NoneSkipped, IsLastStep
  <1>10. CASE Crash
    BY <1>10 DEF Crash, NoneSkipped
  <1> QED BY <1>2, <1>3, <1>4, <1>5, <1>6, <1>7, <1>8, <1>9, <1>10
          DEF Next, Work, SaveRole, SaveRest, Stopped

(* A crash loses at most SaveFreq steps of training: the step at work is   *)
(* never further from the one the tracker names.                           *)
THEOREM LostWorkIsBounded == Spec => []LostWorkBounded
  <1>1. Inv /\ NoneSkipped /\ [Next]_vars => NoneSkipped'
    BY SkipNext
  <1>2. ASSUME Inv, NoneSkipped PROVE LostWorkBounded
    <2> SUFFICES ASSUME job \in {"training", "saving", "saved"}, tracker # Torn
                 PROVE  step <= tracker + SaveFreq
      BY DEF LostWorkBounded
    <2>1. step \in Nat /\ tracker \in Nat /\ SaveFreq \in Nat \ {0}
      BY <1>2, Params DEF Inv, TypeOK, Torn
    <2>2. CASE job = "saved"
      BY <1>2, <2>1, <2>2 DEF Inv, Phase
    <2>3. CASE job # "saved" /\ tracker >= Total
      BY <1>2, <2>1, <2>3 DEF NoneSkipped
    <2>4. CASE job # "saved" /\ tracker < Total
      <3>1. tracker % SaveFreq = 0
        <4>1. CASE tracker = 0
          <5>1. \A b \in Nat \ {0} : 0 % b = 0
            BY Z3
          <5> QED BY <2>1, <4>1, <5>1
        <4>2. CASE tracker > 0
          BY <1>2, <2>1, <2>4, <4>2, Params DEF NoneSkipped
        <4> QED BY <2>1, <4>1, <4>2
      <3>2. (tracker + SaveFreq) % SaveFreq = 0
        BY <2>1, <3>1, NextMultiple
      <3>3. tracker + SaveFreq \in Nat /\ tracker < tracker + SaveFreq
        BY <2>1
      <3>4. ~(tracker + SaveFreq < step)
        BY <1>2, <2>4, <3>2, <3>3 DEF NoneSkipped
      <3> QED BY <2>1, <3>3, <3>4
    <2> QED BY <2>2, <2>3, <2>4, <2>1, Params
  <1> QED BY <1>1, <1>2, SkipInit, InvAlways, PTL DEF Spec

-----------------------------------------------------------------------------
(* The refinement of ResumableRun, step by step.                           *)
LEMMA ResumableUnlessThinned ==
  ASSUME Inv, ~Thinned, tracker # Torn
  PROVE  Resumable
  <1>1. tracker = 0 \/ tracker > 0
    BY Params DEF Inv, TypeOK, Torn
  <1>2. ASSUME tracker > 0 PROVE Loadable(tracker)
    <2>1. PICK n \in 1 .. run :
            /\ data[tracker] = n
            /\ \A f \in Shards : f[2] = tracker => shard[f] = n
      BY <1>2 DEF Inv, Tracked
    <2> QED BY <2>1, Params DEF Loadable, Torn
  <1> QED BY <1>1, <1>2 DEF Resumable

LEMMA RunStarts == Init => Run!RunInit
  BY DEF Init, Run!RunInit, Status, KeptStep, Resumable, Torn

(* Each start resumes after the step kept last.                            *)
LEMMA StartResumes ==
  ASSUME Inv, Start
  PROVE  Run!Resume
  <1>1. /\ job = "down" /\ Resumable /\ job' = "training"
        /\ step' = tracker + 1 /\ tracker' = tracker
    BY DEF Start, Launch
  <1>2. tracker # Torn
    BY <1>1 DEF Resumable, Torn
  <1> QED BY <1>1, <1>2 DEF Run!Resume, Status, KeptStep

LEMMA FailedStartIsLost ==
  ASSUME Inv, StartFails
  PROVE  Status' = Status /\ KeptStep' = KeptStep /\ step' = step
  BY DEF StartFails, Launch, Status, KeptStep

(* A step that is due is followed by another, or by the end, once it is    *)
(* tracked.                                                                *)
LEMMA AdvanceMoves ==
  ASSUME Inv, Train \/ Continue
  PROVE  Run!NextStep \/ Run!Finish
  <1>1. step \in Nat /\ Total \in Nat
    BY Params DEF Inv, TypeOK
  <1>2. Status = "training" /\ KeptStep' = IF tracker = Torn THEN step' ELSE tracker
    BY DEF Train, Continue, Status, KeptStep
  <1>3. tracker # Torn /\ KeptStep' = KeptStep
    <2>1. CASE Train
      BY <2>1 DEF Train, Inv, Phase, KeptStep
    <2>2. CASE Continue
      BY <1>1, <2>2 DEF Continue, Inv, Phase, KeptStep, Torn
    <2> QED BY <2>1, <2>2
  <1>4. Run!Due => KeptStep = step
    <2>1. CASE Train
      BY <1>1, <2>1 DEF Train, Saves, IsLastStep, Run!Due
    <2>2. CASE Continue
      BY <1>3, <2>2 DEF Continue, Inv, Phase, KeptStep
    <2> QED BY <2>1, <2>2
  <1>5. CASE step >= Total
    <2>1. Run!Due
      BY <1>5 DEF Run!Due
    <2>2. job' = "finished" /\ step' = step
      BY <1>5 DEF Train, Continue, Advance, IsLastStep
    <2> QED BY <1>2, <1>3, <1>4, <1>5, <2>1, <2>2 DEF Run!Finish, Status
  <1>6. CASE ~(step >= Total)
    <2>1. job' = "training" /\ step' = step + 1
      BY <1>6 DEF Train, Continue, Advance, IsLastStep
    <2> QED BY <1>1, <1>2, <1>3, <1>4, <1>6, <2>1 DEF Run!NextStep, Status
  <1> QED BY <1>5, <1>6

(* Nothing of a save counts as kept before the tracker is opened.          *)
LEMMA SavingKeepsLast ==
  ASSUME Inv, TrainAndSave \/ SaveRole \/ WriteData \/ DataWritten
  PROVE  Status' = Status /\ KeptStep' = KeptStep /\ step' = step
  <1>1. job \in {"training", "saving"} /\ job' = "saving" /\ step' = step /\ tracker' = tracker
    BY DEF TrainAndSave, SaveRole, WriteData, DataWritten, Rotate, Enter,
           WriteShard, ShardWritten, RoleSaved, SavingRole
  <1> QED BY <1>1 DEF Status, KeptStep

(* From when it is, the new step is, as it was due.                        *)
LEMMA TrackingKeeps ==
  ASSUME Inv, NoneSkipped, OpenTracker \/ WriteTracker
  PROVE  Run!KeepStep
  <1>1. /\ job = "saving" /\ job' \in {"saving", "saved"} /\ step' = step
        /\ tracker' = Torn \/ tracker' = step
    BY DEF OpenTracker, WriteTracker
  <1>2. Run!Due
    BY <1>1 DEF NoneSkipped, IsLastStep, Run!Due
  <1> QED BY <1>1, <1>2 DEF Run!KeepStep, Status, KeptStep

(* What a crash leaves can be resumed from, unless it came while a step    *)
(* was being kept: with the tracker cut, or the tracked checkpoint         *)
(* thinned.                                                                *)
LEMMA CrashKillsOrLoses ==
  ASSUME Inv, NoneSkipped, Crash
  PROVE  Run!Die \/ Run!Lose
  <1>1. /\ Status = "training" /\ job' = "down"
        /\ UNCHANGED <<step, shard, data, tracker>>
    BY DEF Crash, Status
  <1>2. KeptStep' = KeptStep /\ Resumable' = Resumable
    BY <1>1 DEF KeptStep, Resumable, Loadable
  <1>3. CASE Resumable
    BY <1>1, <1>2, <1>3 DEF Run!Die, Status
  <1>4. CASE ~Resumable
    <2>1. Thinned \/ tracker = Torn
      BY <1>4, ResumableUnlessThinned
    <2>2. job = "saving"
      <3>1. job \in {"training", "saving", "saved"}
        BY DEF Crash
      <3>2. job = "saved" => tracker # Torn
        BY Params DEF Inv, Phase, TypeOK, Torn
      <3> QED BY <2>1, <3>1, <3>2 DEF Thinned, Inv, Phase
    <2>3. Run!Due
      BY <2>2 DEF NoneSkipped, IsLastStep, Run!Due
    <2>4. Spare => KeptStep = step
      BY <2>1 DEF Thinned, KeptStep
    <2>5. Status' = "lost"
      BY <1>1, <1>2, <1>4 DEF Status
    <2> QED BY <1>1, <1>2, <2>3, <2>4, <2>5 DEF Run!Lose
  <1> QED BY <1>3, <1>4

LEMMA RunSteps ==
  ASSUME Inv, NoneSkipped, [Next]_vars
  PROVE  [Run!RunNext]_(Run!rvars)
  <1>1. CASE Start
    BY <1>1, StartResumes DEF Run!RunNext
  <1>2. CASE StartFails
    BY <1>2, FailedStartIsLost DEF Run!rvars
  <1>3. CASE Train \/ Continue
    BY <1>3, AdvanceMoves DEF Run!RunNext
  <1>4. CASE TrainAndSave \/ SaveRole \/ WriteData \/ DataWritten
    BY <1>4, SavingKeepsLast DEF Run!rvars
  <1>5. CASE OpenTracker \/ WriteTracker
    BY <1>5, TrackingKeeps DEF Run!RunNext
  <1>6. CASE Crash
    BY <1>6, CrashKillsOrLoses DEF Run!RunNext
  <1>7. CASE UNCHANGED vars
    BY <1>7 DEF vars, Run!rvars, Status, KeptStep, Resumable, Loadable
  <1> QED BY <1>1, <1>2, <1>3, <1>4, <1>5, <1>6, <1>7
          DEF Next, Work, SaveRest, Stopped

(* However many ranks save, however few checkpoints are kept and wherever  *)
(* the job crashes, a run behaves as ResumableRun.                         *)
THEOREM RefinesResumableRun == Spec => ImplementsResumableRun
  <1>1. Inv /\ NoneSkipped /\ [Next]_vars => NoneSkipped'
    BY SkipNext
  <1>2. Inv /\ NoneSkipped /\ [Next]_vars => [Run!RunNext]_(Run!rvars)
    BY RunSteps
  <1> QED BY <1>1, <1>2, RunStarts, SkipInit, InvAlways, PTL
          DEF Spec, ImplementsResumableRun, Run!RunSpec

-----------------------------------------------------------------------------
(* What a run has on the disk, it remembers: rank 0's paths, and from the  *)
(* first barrier on the checkpoint that is being written, for which there  *)
(* is room.                                                                *)
Path(r, s) == \E i \in 1 .. Len(saved[r]) : saved[r][i] = s
Writing(r) == at = r /\ pc[0] \in {"entered", "writing", "written"}

Remembered(r) ==
  /\ \A s \in Steps, k \in Ranks :
       shard[<<r, s, k>>] = run => run = 0 \/ Path(r, s) \/ (s = step /\ Writing(r))
  /\ Keep[r] > 0 => Len(saved[r]) <= Keep[r] /\ (Writing(r) => Len(saved[r]) < Keep[r])

(* Behind the first barrier there is no rank before it.                     *)
Barrier ==
  at \in Roles =>
    \A k \in Ranks : pc[k] # "away" /\ (pc[k] \in {"writing", "written"} => pc[0] # "called")

KeptInv ==
  /\ Barrier
  /\ \A f \in Shards : shard[f] <= run
  /\ job \in {"training", "saved"} => at = "none"
  /\ \A r \in Roles : Remembered(r)

LEMMA KeptFits == Inv /\ KeptInv => KeptByRun
  <1> SUFFICES ASSUME Inv, KeptInv, run > 0, NEW r \in Roles, Keep[r] > 0
               PROVE  Cardinality(KeptOf(r, run)) <= Keep[r]
    BY DEF KeptByRun
  <1>1. saved[r] \in Seq(Steps) /\ Keep[r] \in Nat
    BY Params DEF Inv, TypeOK
  <1>2. PICK len \in Nat, keep \in Nat : len = Len(saved[r]) /\ keep = Keep[r]
    BY <1>1
  <1>3. len <= keep /\ (Writing(r) => len < keep)
    BY <1>2 DEF KeptInv, Remembered
  <1> DEFINE P == {saved[r][i] : i \in 1 .. len}
             f == [i \in 1 .. len |-> saved[r][i]]
  <1>4. IsFiniteSet(P) /\ Cardinality(P) <= len /\ Cardinality(P) \in Nat
    <2>1. f \in Surjection(1 .. len, P)
      BY DEF Surjection
    <2>2. IsFiniteSet(1 .. len) /\ Cardinality(1 .. len) = len
      BY FS_Interval
    <2> HIDE DEF P, f
    <2>3. IsFiniteSet(P) /\ Cardinality(P) <= len
      BY <2>1, <2>2, FS_Surjection
    <2> QED BY <2>3, FS_CardinalityType
  <1>5. \A s \in KeptOf(r, run) : s \in P \/ (s = step /\ Writing(r))
    <2> SUFFICES ASSUME NEW s \in KeptOf(r, run), ~(s = step /\ Writing(r)) PROVE s \in P
      OBVIOUS
    <2>1. s \in Steps /\ \E k \in Ranks : shard[<<r, s, k>>] = run
      BY DEF KeptOf
    <2>2. run # 0
      BY Params DEF Inv, TypeOK
    <2>3. Path(r, s)
      BY <2>1, <2>2 DEF KeptInv, Remembered
    <2> QED BY <1>2, <2>3 DEF Path
  <1> HIDE DEF P, f
  <1>6. CASE Writing(r)
    <2>1. KeptOf(r, run) \subseteq P \cup {step}
      BY <1>5
    <2>2. IsFiniteSet(P \cup {step}) /\ Cardinality(P \cup {step}) <= Cardinality(P) + 1
      <3>1. IsFiniteSet(P)
        BY <1>4
      <3>2. /\ IsFiniteSet(P \cup {step})
            /\ Cardinality(P \cup {step}) = IF step \in P THEN Cardinality(P) ELSE Cardinality(P) + 1
        BY <3>1, FS_AddElement, Zenon
      <3> QED BY <1>4, <3>2
    <2>3. IsFiniteSet(KeptOf(r, run)) /\ Cardinality(KeptOf(r, run)) <= Cardinality(P \cup {step})
      BY <2>1, <2>2, FS_Subset
    <2>4. Cardinality(KeptOf(r, run)) \in Nat /\ Cardinality(P \cup {step}) \in Nat
      BY <2>2, <2>3, FS_CardinalityType
    <2> QED BY <1>2, <1>3, <1>4, <1>6, <2>2, <2>3, <2>4
  <1>7. CASE ~Writing(r)
    <2>1. KeptOf(r, run) \subseteq P
      BY <1>5, <1>7
    <2>2. IsFiniteSet(KeptOf(r, run)) /\ Cardinality(KeptOf(r, run)) <= Cardinality(P)
      BY <1>4, <2>1, FS_Subset
    <2>3. Cardinality(KeptOf(r, run)) \in Nat
      BY <2>2, FS_CardinalityType
    <2> QED BY <1>2, <1>3, <1>4, <2>2, <2>3
  <1> QED BY <1>6, <1>7

LEMMA KeptNext == Inv /\ KeptInv /\ [Next]_vars => KeptInv'
  <1> SUFFICES ASSUME Inv, KeptInv, [Next]_vars PROVE KeptInv'
    OBVIOUS
  <1>1. /\ shard \in [Shards -> -1 .. MaxRuns] /\ run \in Nat
        /\ pc \in [Ranks -> {"away", "called", "entered", "writing", "written"}]
        /\ saved \in [Roles -> Seq(Steps)] /\ 0 \in Ranks
        /\ \A r \in Roles : Keep[r] \in Nat /\ Len(saved[r]) \in Nat
        /\ job \in {"training", "saving", "saved"} => run > 0
    BY Params DEF Inv, TypeOK, Phase, Live
  <1>2. \A r \in Roles, s \in Steps, k \in Ranks : <<r, s, k>> \in Shards
    BY DEF Shards
  <1>3. Roles \subseteq {"actor", "critic"}
    BY Params
  <1>4. ASSUME Launch, job' \notin {"saved"} PROVE KeptInv'
    <2>1. run' = run + 1 /\ shard' = shard /\ at' = "none" /\ saved' = [r \in Roles |-> <<>>]
      BY <1>4 DEF Launch
    <2>2. \A f \in Shards : shard'[f] <= run' /\ shard'[f] # run'
      BY <1>1, <2>1 DEF KeptInv
    <2>3. ASSUME NEW r \in Roles PROVE Remembered(r)'
      <3>1. saved'[r] = <<>> /\ ~Writing(r)'
        BY <1>3, <2>1 DEF Writing
      <3> QED BY <1>1, <1>2, <2>2, <3>1 DEF Remembered
    <2> QED BY <1>3, <2>1, <2>2, <2>3 DEF KeptInv, Barrier
  <1>5. ASSUME UNCHANGED <<run, shard, saved>>, Barrier', job' \in {"training", "saved"} => at' = "none",
               \A r \in Roles : ~Writing(r) /\ ~Writing(r)'
        PROVE  KeptInv'
    BY <1>5 DEF KeptInv, Remembered, Path
  <1>6. ASSUME UNCHANGED <<run, shard, saved, at, step, pc>>,
               job' \in {"training", "saved"} => at = "none"
        PROVE  KeptInv'
    BY <1>6 DEF KeptInv, Remembered, Path, Writing, Barrier
  <1>7. CASE Start \/ StartFails
    BY <1>4, <1>7 DEF Start, StartFails
  <1>8. CASE Train \/ TrainAndSave \/ Continue
    <2>1. at = "none" /\ \A r \in Roles : ~Writing(r)
      BY <1>3, <1>8 DEF Train, TrainAndSave, Continue, KeptInv, Writing
    <2>2. \A r \in Roles : ~Writing(r)'
      BY <1>1, <1>3, <1>8, <2>1 DEF Train, TrainAndSave, Continue, Writing
    <2>3. UNCHANGED <<run, shard, saved>> /\ (job' \in {"training", "saved"} => at' = "none")
      BY <1>8, <2>1 DEF Train, TrainAndSave, Continue
    <2>4. Barrier'
      BY <1>1, <1>3, <1>8, <2>1 DEF Train, TrainAndSave, Continue, Barrier
    <2> QED BY <1>5, <2>1, <2>2, <2>3, <2>4
  <1>9. CASE Rotate
    <2>1. PICK f \in Shards : shard' = [shard EXCEPT ![f] = 0]
      <3>1. PICK s \in Doomed(at), k \in Ranks : shard' = [shard EXCEPT ![<<at, s, k>>] = 0]
        BY <1>9 DEF Rotate
      <3>2. at \in Roles /\ s \in Steps
        <4>1. at \in Roles
          BY <1>9 DEF Rotate, SavingRole
        <4> QED BY <1>1, <4>1, RotatedFacts DEF Doomed, Inv
      <3> QED BY <1>2, <3>1, <3>2
    <2>2. UNCHANGED <<job, at, run, step, pc, saved>>
      BY <1>9 DEF Rotate
    <2>3. \A g \in Shards : shard'[g] = shard[g] \/ shard'[g] = 0
      BY <1>1, <2>1
    <2>4. ASSUME NEW r \in Roles PROVE Remembered(r)'
      <3>1. Remembered(r)
        BY DEF KeptInv
      <3>2. \A t \in Steps, q \in Ranks : shard'[<<r, t, q>>] = run => run = 0 \/ shard[<<r, t, q>>] = run
        BY <1>2, <2>3
      <3> QED BY <2>2, <3>1, <3>2 DEF Remembered, Path, Writing
    <2>5. \A g \in Shards : shard'[g] <= run'
      BY <1>1, <2>2, <2>3 DEF KeptInv
    <2>6. Barrier' /\ (job' \in {"training", "saved"} => at' = "none")
      BY <2>2 DEF KeptInv, Barrier
    <2> QED BY <2>4, <2>5, <2>6 DEF KeptInv
  <1>10. ASSUME NEW k \in Ranks, Enter(k) PROVE KeptInv'
    <2>1. /\ at \in Roles /\ run > 0 /\ UNCHANGED <<job, at, run, step, shard>>
          /\ pc[k] = "called" /\ pc' = [pc EXCEPT ![k] = "entered"]
      BY <1>1, <1>10 DEF Enter, SavingRole
    <2>0. Barrier'
      BY <1>1, <2>1 DEF KeptInv, Barrier
    <2>2. CASE k # 0
      <3>1. saved' = saved /\ pc'[0] = pc[0]
        BY <1>1, <1>10, <2>1, <2>2 DEF Enter
      <3>2. ASSUME NEW r \in Roles PROVE Remembered(r)'
        BY <2>1, <3>1 DEF KeptInv, Remembered, Path, Writing
      <3> QED BY <2>0, <2>1, <3>2 DEF KeptInv
    <2>3. CASE k = 0
      <3> DEFINE n == Rotated(at)
                 l == Len(saved[at])
                 t == SubSeq(saved[at], n + 1, l)
      <3>1. saved' = [saved EXCEPT ![at] = t]
            /\ \A s \in Doomed(at), q \in Ranks : shard[<<at, s, q>>] = 0
        BY <1>10, <2>3 DEF Enter
      <3>2. saved[at] \in Seq(Steps) /\ l \in Nat /\ n \in 0 .. l
        BY <1>1, <2>1, RotatedFacts DEF Inv
      <3>3. Len(t) = l - n /\ \A i \in 1 .. l - n : t[i] = saved[at][n + i]
        BY <3>2
      <3>4. Keep[at] > 0 => l - n < Keep[at]
        <4>1. l <= Keep[at] \/ Keep[at] = 0
          BY <1>1, <2>1 DEF KeptInv, Remembered
        <4> QED BY <1>1, <2>1, <4>1 DEF Rotated
      <3>5. ~Writing(at)
        BY <2>1, <2>3 DEF Writing
      <3>6. \A s \in Doomed(at), q \in Ranks : shard[<<at, s, q>>] = 0
        BY <3>1
      <3>7. \A i \in 1 .. n : saved[at][i] \in Doomed(at)
        BY DEF Doomed
      <3> HIDE DEF n, l, t
      <3>8. ASSUME NEW s \in Steps, NEW q \in Ranks, shard[<<at, s, q>>] = run
            PROVE  Path(at, s)'
        <4>1. PICK i \in 1 .. l : saved[at][i] = s
          BY <2>1, <3>5, <3>8 DEF KeptInv, Remembered, Path, l
        <4>2. ~(i \in 1 .. n)
          BY <1>1, <2>1, <3>6, <3>7, <3>8, <4>1
        <4>3. i - n \in 1 .. l - n /\ n + (i - n) = i
          BY <3>2, <4>2
        <4>4. t[i - n] = s
          BY <3>3, <4>1, <4>3
        <4>5. saved'[at] = t
          BY <1>1, <2>1, <3>1
        <4> QED BY <2>1, <3>3, <4>3, <4>4, <4>5 DEF Path
      <3>9. ASSUME NEW r \in Roles PROVE Remembered(r)'
        <4>1. CASE r = at
          <5>1. saved'[at] = t /\ at' = at
            BY <1>1, <2>1, <3>1
          <5>2. Len(t) < Keep[at] \/ Keep[at] = 0
            BY <1>1, <2>1, <3>3, <3>4
          <5>3. Len(t) \in Nat /\ Keep[at] \in Nat
            BY <1>1, <2>1, <3>2, <3>3
          <5> QED BY <2>1, <3>8, <4>1, <5>1, <5>2, <5>3 DEF Remembered
        <4>2. CASE r # at
          <5>1. saved'[r] = saved[r] /\ ~Writing(r) /\ ~Writing(r)'
            BY <1>1, <2>1, <3>1, <4>2 DEF Writing
          <5> QED BY <2>1, <5>1 DEF KeptInv, Remembered, Path
        <4> QED BY <4>1, <4>2
      <3> QED BY <2>0, <2>1, <3>9 DEF KeptInv
    <2> QED BY <2>2, <2>3
  <1>11. ASSUME NEW k \in Ranks, WriteShard(k) \/ ShardWritten(k) PROVE KeptInv'
    <2>1. /\ at \in Roles /\ run > 0 /\ UNCHANGED <<job, at, run, step, saved>>
          /\ pc[k] \in {"entered", "writing"}
          /\ \E p \in {"writing", "written"} : pc' = [pc EXCEPT ![k] = p]
          /\ \E v \in {Torn, run} : shard' = [shard EXCEPT ![<<at, step, k>>] = v]
      BY <1>1, <1>11 DEF WriteShard, ShardWritten, SavingRole
    <2>2. pc[0] \in {"entered", "writing", "written"} /\ pc'[0] \in {"entered", "writing", "written"}
      <3>1. pc[0] # "called" /\ pc[0] # "away"
        BY <1>1, <1>11, <2>1 DEF WriteShard, ShardWritten, KeptInv, Barrier
      <3> QED BY <1>1, <2>1, <3>1
    <2>3. Writing(at) /\ Writing(at)'
      BY <2>1, <2>2 DEF Writing
    <2>4. \A f \in Shards : shard'[f] = shard[f] \/ (f = <<at, step, k>> /\ shard'[f] \in {Torn, run})
      BY <1>1, <2>1
    <2>5. ASSUME NEW r \in Roles PROVE Remembered(r)'
      <3>1. Remembered(r)
        BY DEF KeptInv
      <3>2. Writing(r)' = Writing(r)
        BY <2>1, <2>2 DEF Writing
      <3>3. ASSUME NEW s \in Steps, NEW q \in Ranks, shard'[<<r, s, q>>] = run
            PROVE  Path(r, s) \/ (s = step /\ Writing(r))
        <4>1. CASE shard[<<r, s, q>>] = run
          BY <2>1, <3>1, <4>1 DEF Remembered
        <4>2. CASE shard[<<r, s, q>>] # run
          BY <1>2, <2>3, <2>4, <3>3, <4>2
        <4> QED BY <4>1, <4>2
      <3> QED BY <2>1, <3>1, <3>2, <3>3 DEF Remembered, Path
    <2>6. Barrier'
      <3>1. \A q \in Ranks : pc'[q] # "away"
        BY <1>1, <2>1 DEF KeptInv, Barrier
      <3> QED BY <2>2, <3>1 DEF Barrier
    <2>7. \A f \in Shards : shard'[f] <= run'
      BY <1>1, <2>1, <2>4 DEF KeptInv, Torn
    <2> QED BY <2>1, <2>5, <2>6, <2>7 DEF KeptInv
  <1>12. CASE RoleSaved
    <2>1. /\ at \in Roles /\ run > 0 /\ UNCHANGED <<job, run, step, shard>> /\ job = "saving"
          /\ \A k \in Ranks : pc[k] = "written"
          /\ saved' = [saved EXCEPT ![at] = Append(@, step)]
          /\ at' \in {"critic", "data"} /\ at' # at
          /\ at' = "critic" => \A k \in Ranks : pc'[k] = "called"
      BY <1>1, <1>3, <1>12 DEF RoleSaved, SavingRole
    <2>2. Writing(at) /\ \A r \in Roles : ~Writing(r)'
      BY <1>1, <1>3, <2>1 DEF Writing
    <2>3. ASSUME NEW r \in Roles PROVE Remembered(r)'
      <3>1. Remembered(r)
        BY DEF KeptInv
      <3>2. CASE r = at
        <4>1. step \in Steps
          BY <2>1, Params DEF Inv, TypeOK, Phase, Steps
        <4>2. PICK p \in Seq(Steps), l \in Nat : p = saved[at] /\ l = Len(p)
          BY <1>1, <2>1
        <4>3. /\ saved'[at] = Append(p, step) /\ Len(Append(p, step)) = l + 1
              /\ \A i \in 1 .. l : Append(p, step)[i] = p[i]
              /\ Append(p, step)[l + 1] = step
          BY <1>1, <2>1, <4>1, <4>2
        <4>6. Len(saved'[r]) = l + 1 /\ l + 1 \in 1 .. l + 1
          BY <3>2, <4>2, <4>3
        <4>4. ASSUME NEW s \in Steps, Path(r, s) \/ s = step PROVE Path(r, s)'
          <5>1. CASE s = step
            BY <3>2, <4>2, <4>3, <4>6, <5>1 DEF Path
          <5>2. CASE Path(r, s)
            <6>1. PICK i \in 1 .. l : p[i] = s
              BY <3>2, <4>2, <5>2 DEF Path
            <6>2. i \in 1 .. l + 1 /\ Append(p, step)[i] = s
              BY <4>3, <6>1
            <6> QED BY <3>2, <4>3, <4>6, <6>2 DEF Path
          <5> QED BY <4>4, <5>1, <5>2
        <4>5. Keep[at] > 0 => l + 1 <= Keep[at]
          BY <1>1, <2>1, <2>2, <3>1, <3>2, <4>2 DEF Remembered
        <4> QED BY <2>1, <2>2, <3>1, <3>2, <4>3, <4>4, <4>5 DEF Remembered
      <3>3. CASE r # at
        <4>1. saved'[r] = saved[r] /\ ~Writing(r) /\ ~Writing(r)'
          BY <1>1, <2>1, <2>2, <3>3 DEF Writing
        <4> QED BY <2>1, <3>1, <4>1 DEF Remembered, Path
      <3> QED BY <3>2, <3>3
    <2>4. Barrier'
      BY <1>3, <2>1 DEF Barrier
    <2> QED BY <2>1, <2>3, <2>4 DEF KeptInv
  <1>13. CASE SaveRest
    <2>1. at \notin Roles /\ at' \notin Roles /\ UNCHANGED <<run, shard, saved>>
      BY <1>3, <1>13 DEF SaveRest, WriteData, DataWritten, OpenTracker, WriteTracker
    <2>2. job' \in {"training", "saved"} => at' = "none"
      BY <1>13 DEF SaveRest, WriteData, DataWritten, OpenTracker, WriteTracker
    <2>3. Barrier' /\ \A r \in Roles : ~Writing(r) /\ ~Writing(r)'
      BY <2>1 DEF Barrier, Writing
    <2> QED BY <1>5, <2>1, <2>2, <2>3
  <1>14. CASE Crash \/ Stopped \/ UNCHANGED vars
    BY <1>6, <1>14 DEF Crash, Stopped, vars, KeptInv
  <1> QED BY <1>7, <1>8, <1>9, <1>10, <1>11, <1>12, <1>13, <1>14 DEF Next, Work, SaveRole

(* A run never has more checkpoints of a role on the disk than             *)
(* max_ckpt_to_keep, in the middle of a save neither.                      *)
THEOREM KeepsNoMore == Spec => []KeptByRun
  <1>1. Init => KeptInv
    <2> SUFFICES ASSUME Init PROVE KeptInv
      OBVIOUS
    <2>1. /\ run = 0 /\ at = "none" /\ \A f \in Shards : shard[f] = 0
          /\ \A r \in Roles : saved[r] = <<>> /\ Keep[r] \in Nat /\ r # "none"
      BY Params DEF Init
    <2> QED BY <2>1 DEF KeptInv, Remembered, Writing, Barrier
  <1>2. Inv /\ KeptInv /\ [Next]_vars => (Inv /\ KeptInv)'
    BY NextInv, KeptNext
  <1>3. Inv /\ KeptInv => KeptByRun
    BY KeptFits
  <1> QED BY <1>1, <1>2, <1>3, InitInv, PTL DEF Spec

=============================================================================
