---------------------------- MODULE MCTaskWeight ----------------------------
(* Instances of TaskWeight for TLC: two ranks, a beta of one half.         *)
EXTENDS TaskWeight

MCEps == <<1, 100>>
MCWMin == <<1, 10>>
MCWMax == <<10, 1>>

=============================================================================
