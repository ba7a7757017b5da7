--------------------------- MODULE MCCheckpointing ---------------------------
(* Instances of Checkpointing for TLC: how many checkpoints a role keeps.  *)
EXTENDS Checkpointing

KeepTwoAndThree == [r \in Roles |-> IF r = "actor" THEN 2 ELSE 3]

=============================================================================
