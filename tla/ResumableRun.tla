----------------------------- MODULE ResumableRun -----------------------------
(***************************************************************************)
(* What the checkpoints of a training run promise, whatever is written     *)
(* where: a run that crashes resumes at the step after the one it kept     *)
(* last, and no step follows one that was due to be kept before it is.     *)
(* Only while a step is being kept can a crash leave nothing to resume     *)
(* from: as the new step takes the old one's place, or, with no step to    *)
(* spare beside the one being written, from the start of the save.         *)
(***************************************************************************)
EXTENDS Integers

CONSTANTS
  Total,     (* the step training ends with                                  *)
  SaveFreq,  (* one step in so many is kept                                  *)
  Spared     (* the last step kept is left alone while the next is           *)

VARIABLES
  status,  (* "down", "training", "finished", or "lost" for good             *)
  step,    (* the step the run is at, or died at                             *)
  kept     (* the last step kept, 0 for none                                 *)

rvars == <<status, step, kept>>

RunInit == status = "down" /\ step = 0 /\ kept = 0

Due == step >= Total \/ (step % SaveFreq) = 0

Resume ==
  /\ status = "down"
  /\ status' = "training" /\ step' = kept + 1
  /\ UNCHANGED kept

NextStep ==
  /\ status = "training"
  /\ step < Total
  /\ Due => kept = step
  /\ step' = step + 1
  /\ UNCHANGED <<status, kept>>

KeepStep ==
  /\ status = "training" /\ Due
  /\ kept' = step
  /\ UNCHANGED <<status, step>>

Finish ==
  /\ status = "training"
  /\ step >= Total /\ kept = step
  /\ status' = "finished"
  /\ UNCHANGED <<step, kept>>

Die ==
  /\ status = "training"
  /\ status' = "down"
  /\ UNCHANGED <<step, kept>>

Lose ==
  /\ status = "training" /\ Due
  /\ Spared => kept = step
  /\ status' = "lost"
  /\ UNCHANGED <<step, kept>>

RunNext == Resume \/ NextStep \/ KeepStep \/ Finish \/ Die \/ Lose

RunSpec == RunInit /\ [][RunNext]_rvars

=============================================================================
