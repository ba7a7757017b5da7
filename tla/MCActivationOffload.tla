------------------------- MODULE MCActivationOffload -------------------------
(* Instances of ActivationOffload for TLC: saved tensors are alike.        *)
EXTENDS ActivationOffload, TLC

Symmetry == Permutations(Tensors)

=============================================================================
