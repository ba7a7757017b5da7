---------------------------- MODULE MCTrainingStep ----------------------------
(* Two engines of two workers; batches that split over the workers and       *)
(* batches that do not, one and two answers for each prompt; critics that    *)
(* warm up not at all, for one step, and until after the checkpoint.         *)
EXTENDS TrainingStep, SequencesExt

MCJobs ==
    [async : BOOLEAN, resumed : BOOLEAN, autopad : BOOLEAN, balance : BOOLEAN,
     n : {1, 2}, size : {3, 4}, testsize : {3, 4}, warmup : {0, 2, 5}]

(* Reversed, and the odd rows before the even ones.                          *)
MCOrders ==
    {[i \in 1 .. len |-> len + 1 - i] : len \in {4, 8}} \cup
    {[i \in 1 .. len |-> IF i <= len \div 2 THEN 2 * i - 1 ELSE 2 * i - len] : len \in {4, 8}}

(* Concat against the library's concatenation.                              *)
ASSUME \A r \in [1 .. 4 -> 1 .. 3], k \in {1, 2, 4} :
    LET parts == [i \in 0 .. k - 1 |-> Chunk(r, k, i)]
    IN  Concat(parts, k) = FlattenSeq([i \in 1 .. k |-> parts[i - 1]])
===============================================================================
