---------------------------- MODULE Checkpointing ----------------------------
(***************************************************************************)
(* Saving and resuming of a training run: RayPPOTrainer.fit,               *)
(* _save_checkpoint and _load_checkpoint drive the checkpoint managers of  *)
(* the actor's and the critic's workers (FSDPCheckpointManager), which     *)
(* rotate old checkpoints and write one shard per rank between barriers.   *)
(* The whole job may crash between any two steps and is then started       *)
(* again on the same directory, with resume_mode "auto".                   *)
(*                                                                         *)
(* A file is 0 while it does not exist, Torn while it is being written (or *)
(* was, in a crash), and else the number of the run that wrote it: files   *)
(* of two runs in one checkpoint do not fit together.  global_step_N is    *)
(* never removed, only the folders of its roles are.                       *)
(***************************************************************************)
EXTENDS Integers, Sequences, FiniteSets

CONSTANTS
  LastRank,   (* the ranks of a worker group are 0 .. LastRank               *)
  UseCritic,  (* use_critic: there is a critic to save                       *)
  Keep,       (* max_ckpt_to_keep of a role, 0 for None                      *)
  Total,      (* total_training_steps                                        *)
  SaveFreq,   (* trainer.save_freq                                           *)
  MaxRuns     (* bound: how often the job is started                         *)

Ranks == 0 .. LastRank
Roles == IF UseCritic THEN {"actor", "critic"} ELSE {"actor"}

ASSUME CheckpointAssumption ==
  /\ LastRank \in Nat
  /\ UseCritic \in BOOLEAN
  /\ Keep \in [Roles -> Nat]
  /\ Total \in Nat \ {0} /\ SaveFreq \in Nat \ {0} /\ MaxRuns \in Nat \ {0}

(* Bound: a job resumed from its last step takes one step more, if the     *)
(* dataloader still yields a batch.                                        *)
Steps == 1 .. Total + MaxRuns - 1
Shards == Roles \X Steps \X Ranks
Torn == -1

VARIABLES
  job,      (* "down", "training", "saving", "saved", "finished", "broken"   *)
  at,       (* what _save_checkpoint is at                                   *)
  run,      (* how often the job was started                                 *)
  step,     (* global_steps                                                  *)
  pc,       (* where each rank is in save_checkpoint                         *)
  saved,    (* previous_saved_paths of rank 0, for each role                 *)
  shard,    (* the files of a role's checkpoint, for each rank               *)
  data,     (* data.pt, the state of the dataloader                          *)
  tracker   (* latest_checkpointed_iteration.txt, 0 if it is missing         *)

vars == <<job, at, run, step, pc, saved, shard, data, tracker>>

Init ==
  /\ job = "down" /\ at = "none"
  /\ run = 0 /\ step = 0
  /\ pc = [k \in Ranks |-> "away"]
  /\ saved = [r \in Roles |-> <<>>]
  /\ shard = [f \in Shards |-> 0]
  /\ data = [s \in Steps |-> 0]
  /\ tracker = 0

(* What is read back of checkpoint s can be: every shard, and data.pt when *)
(* it is there; without it fit warns and begins the data from the front.   *)
Loadable(s) == (\A f \in Shards : f[2] = s => shard[f] > 0) /\ data[s] # Torn

(* A start would find what it needs: no tracker, or what the tracker names.*)
Resumable == tracker = 0 \/ (tracker > 0 /\ Loadable(tracker))

(* The process starts: what it remembered of its checkpoints is gone.      *)
Launch ==
  /\ job = "down" /\ run < MaxRuns
  /\ run' = run + 1
  /\ saved' = [r \in Roles |-> <<>>]
  /\ pc' = [k \in Ranks |-> "away"]
  /\ at' = "none"
  /\ UNCHANGED <<shard, data, tracker>>

(* _load_checkpoint finds no tracker file and trains from scratch, or      *)
(* loads what the tracker names; fit then starts from the step after.      *)
Start ==
  /\ Launch
  /\ Resumable
  /\ job' = "training" /\ step' = tracker + 1

(* The tracker is no number, or a shard is missing or a file cut short.    *)
StartFails ==
  /\ Launch
  /\ ~Resumable
  /\ job' = "broken" /\ UNCHANGED step

IsLastStep == step >= Total

(* Mutant of Saves: the last step is the only one saved.                   *)
SavesLastOnly == IsLastStep

(* The condition under which fit saves after a step.                       *)
Saves == IsLastStep \/ step % SaveFreq = 0

(* Mutant of Advance: fit does not return after the last step.             *)
AdvanceAlways == job' = "training" /\ step' = step + 1

(* The end of an iteration of fit.                                         *)
Advance ==
  IF IsLastStep THEN job' = "finished" /\ UNCHANGED step
                ELSE job' = "training" /\ step' = step + 1

(* A training step that is not saved.                                      *)
Train ==
  /\ job = "training" /\ ~Saves
  /\ Advance
  /\ UNCHANGED <<at, run, pc, saved, shard, data, tracker>>

(* A training step that is: the workers of the actor are called.           *)
TrainAndSave ==
  /\ job = "training" /\ Saves
  /\ job' = "saving" /\ at' = "actor"
  /\ pc' = [k \in Ranks |-> "called"]
  /\ UNCHANGED <<run, step, saved, shard, data, tracker>>

SavingRole == job = "saving" /\ at \in Roles

(* Mutant of Rotated: nothing is ever taken off.                            *)
RotatedNone(r) == 0

(* The number of paths rank 0 takes off the front of its list.             *)
Rotated(r) ==
  IF Keep[r] = 0 \/ Len(saved[r]) < Keep[r] THEN 0 ELSE Len(saved[r]) - Keep[r] + 1

Doomed(r) == {saved[r][i] : i \in 1 .. Rotated(r)}

(* remove_previous_save_local_path: rank 0 removes a file.                 *)
Rotate ==
  /\ SavingRole /\ pc[0] = "called"
  /\ \E s \in Doomed(at), k \in Ranks :
       /\ shard[<<at, s, k>>] # 0
       /\ shard' = [shard EXCEPT ![<<at, s, k>>] = 0]
  /\ UNCHANGED <<job, at, run, step, pc, saved, data, tracker>>

(* Rank k arrives at the first barrier, rank 0 when the old checkpoints    *)
(* are gone.                                                               *)
Enter(k) ==
  /\ SavingRole /\ pc[k] = "called"
  /\ k = 0 => \A s \in Doomed(at), q \in Ranks : shard[<<at, s, q>>] = 0
  /\ saved' = IF k = 0 THEN [saved EXCEPT ![at] = SubSeq(@, Rotated(at) + 1, Len(@))] ELSE saved
  /\ pc' = [pc EXCEPT ![k] = "entered"]
  /\ UNCHANGED <<job, at, run, step, shard, data, tracker>>

(* Mutant of WriteShard: rank 0 alone writes.                              *)
WriteShardAlone(k) ==
  /\ SavingRole /\ k = 0 /\ pc[k] = "entered"
  /\ \A q \in Ranks : pc[q] # "called"
  /\ pc' = [pc EXCEPT ![k] = "writing"]
  /\ shard' = [shard EXCEPT ![<<at, step, k>>] = Torn]
  /\ UNCHANGED <<job, at, run, step, saved, data, tracker>>

(* Past the barrier every rank writes its shard.                           *)
WriteShard(k) ==
  /\ SavingRole /\ pc[k] = "entered"
  /\ \A q \in Ranks : pc[q] # "called"
  /\ pc' = [pc EXCEPT ![k] = "writing"]
  /\ shard' = [shard EXCEPT ![<<at, step, k>>] = Torn]
  /\ UNCHANGED <<job, at, run, step, saved, data, tracker>>

(* Rank k arrives at the second barrier.                                   *)
ShardWritten(k) ==
  /\ SavingRole /\ pc[k] = "writing"
  /\ pc' = [pc EXCEPT ![k] = "written"]
  /\ shard' = [shard EXCEPT ![<<at, step, k>>] = run]
  /\ UNCHANGED <<job, at, run, step, saved, data, tracker>>

(* Mutant of RoleSaved: the driver goes on when the first rank is through. *)
RoleSavedEarly ==
  /\ SavingRole
  /\ \E k \in Ranks : pc[k] = "written"
  /\ saved' = [saved EXCEPT ![at] = Append(@, step)]
  /\ IF at = "actor" /\ UseCritic
       THEN at' = "critic" /\ pc' = [k \in Ranks |-> "called"]
       ELSE at' = "data" /\ pc' = [k \in Ranks |-> "away"]
  /\ UNCHANGED <<job, run, step, shard, data, tracker>>

(* Past the second barrier the calls return, and the driver goes on.       *)
RoleSaved ==
  /\ SavingRole
  /\ \A k \in Ranks : pc[k] = "written"
  /\ saved' = [saved EXCEPT ![at] = Append(@, step)]
  /\ IF at = "actor" /\ UseCritic
       THEN at' = "critic" /\ pc' = [k \in Ranks |-> "called"]
       ELSE at' = "data" /\ pc' = [k \in Ranks |-> "away"]
  /\ UNCHANGED <<job, run, step, shard, data, tracker>>

(* The dataloader's state is written.                                      *)
WriteData ==
  /\ job = "saving" /\ at = "data"
  /\ at' = "data_open"
  /\ data' = [data EXCEPT ![step] = Torn]
  /\ UNCHANGED <<job, run, step, pc, saved, shard, tracker>>

DataWritten ==
  /\ job = "saving" /\ at = "data_open"
  /\ at' = "tracker"
  /\ data' = [data EXCEPT ![step] = run]
  /\ UNCHANGED <<job, run, step, pc, saved, shard, tracker>>

(* open(tracker, "w") cuts the file and write fills it.                    *)
OpenTracker ==
  /\ job = "saving" /\ at = "tracker"
  /\ at' = "tracker_open"
  /\ tracker' = Torn
  /\ UNCHANGED <<job, run, step, pc, saved, shard, data>>

WriteTracker ==
  /\ job = "saving" /\ at = "tracker_open"
  /\ job' = "saved" /\ at' = "none"
  /\ tracker' = step
  /\ UNCHANGED <<run, step, pc, saved, shard, data>>

(* fit logs the step that was saved and goes on.                           *)
Continue ==
  /\ job = "saved"
  /\ Advance
  /\ UNCHANGED <<at, run, pc, saved, shard, data, tracker>>

(* The job dies and can be started once more.                              *)
Crash ==
  /\ job \in {"training", "saving", "saved"} /\ run < MaxRuns
  /\ job' = "down"
  /\ UNCHANGED <<at, run, step, pc, saved, shard, data, tracker>>

SaveRole ==
  \/ Rotate
  \/ \E k \in Ranks : Enter(k) \/ WriteShard(k) \/ ShardWritten(k)
  \/ RoleSaved

SaveRest == WriteData \/ DataWritten \/ OpenTracker \/ WriteTracker

Work == Start \/ StartFails \/ Train \/ TrainAndSave \/ SaveRole \/ SaveRest \/ Continue

Stopped == job \in {"finished", "broken"} /\ UNCHANGED vars

Next == Work \/ Crash \/ Stopped

Spec == Init /\ [][Next]_vars

(* The process and its workers go on until they crash.                     *)
FairSpec == Spec /\ WF_vars(Work)

-----------------------------------------------------------------------------
(* Types; no step is taken that no start of the job accounts for.          *)
TypeOK ==
  /\ job \in {"down", "training", "saving", "saved", "finished", "broken"}
  /\ at \in {"none", "actor", "critic", "data", "data_open", "tracker", "tracker_open"}
  /\ run \in 0 .. MaxRuns
  /\ step \in 0 .. Total + MaxRuns - 1
  /\ pc \in [Ranks -> {"away", "called", "entered", "writing", "written"}]
  /\ saved \in [Roles -> Seq(Steps)]
  /\ shard \in [Shards -> -1 .. MaxRuns]
  /\ data \in [Steps -> -1 .. MaxRuns]
  /\ tracker \in Steps \cup {0, Torn}

(* All files of checkpoint s were written by one run.                      *)
OfOneRun(s) == \E n \in 1 .. run :
  /\ data[s] = n
  /\ \A f \in Shards : f[2] = s => shard[f] = n

(* The checkpoint the tracker names is whole and of one run, whatever was  *)
(* rotated, overwritten or cut short since: a restart resumes from it.     *)
TrackedIsWhole == tracker > 0 => OfOneRun(tracker)

(* A run that trains, or is through, has a whole checkpoint of one run     *)
(* behind it, even when a single one is kept and the old one goes before   *)
(* the new one is written: what a crash left of it is never trained from.  *)
ResumedIsWhole == job \in {"training", "saved", "finished"} => TrackedIsWhole

(* Training never runs further ahead of its last checkpoint than SaveFreq  *)
(* steps: that is all a crash can lose.                                    *)
LostWorkBounded ==
  job \in {"training", "saving", "saved"} /\ tracker # Torn => step <= tracker + SaveFreq

(* The checkpoints of a role that run n wrote.                             *)
KeptOf(r, n) == {s \in Steps : \E k \in Ranks : shard[<<r, s, k>>] = n}

(* "keeping at most max_ckpt_to_keep", as far as one run is concerned.     *)
KeptByRun ==
  run > 0 => \A r \in Roles :
    Keep[r] > 0 => Cardinality(KeptOf(r, run)) <= Keep[r]

(* At least two checkpoints are kept of a role that is rotated at all.     *)
Spare == \A r \in Roles : Keep[r] # 1

(* What the run is to its user, and the step it has kept: a tracker that   *)
(* is cut is about to name the step it was cut for.                        *)
Status ==
  CASE job \in {"training", "saving", "saved"} -> "training"
    [] job = "finished" -> "finished"
    [] job = "down" /\ Resumable -> "down"
    [] OTHER -> "lost"

KeptStep == IF tracker = Torn THEN step ELSE tracker

Run == INSTANCE ResumableRun WITH status <- Status, kept <- KeptStep, Spared <- Spare

(* Saving, rotating and resuming keep what ResumableRun promises: each     *)
(* start goes on after the checkpoint saved last, no step that is due is   *)
(* left unsaved, and a run is lost to a crash only while it saves, and     *)
(* only as the tracker is written if no role keeps a single checkpoint.    *)
ImplementsResumableRun == Run!RunSpec

(* The job ends, or a crash has left a tracker file that cannot be read.   *)
Ends == <>(job = "finished" \/ (job = "broken" /\ tracker = Torn))

=============================================================================
