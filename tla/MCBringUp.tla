------------------------------ MODULE MCBringUp ------------------------------
(* Two nodes with up to four free GPUs each, listed in the opposite order of *)
(* their addresses; jobs with equal and with unequal groups, with engines    *)
(* that fit a node, that reach over nodes and that do not divide the         *)
(* workers.                                                                  *)
EXTENDS BringUp

MCClusters == [Nodes -> 0 .. 4]
MCIp == [n \in Nodes |-> 3 - n]
MCJobs ==
    {[bundle |-> <<2>>, width |-> <<2>>, tp |-> 2],
     [bundle |-> <<3>>, width |-> <<1>>, tp |-> 2],
     [bundle |-> <<1, 1>>, width |-> <<2, 1>>, tp |-> 1],
     [bundle |-> <<2, 2>>, width |-> <<1, 1>>, tp |-> 2],
     [bundle |-> <<2, 1>>, width |-> <<1, 1>>, tp |-> 1],
     [bundle |-> <<1, 2>>, width |-> <<2, 1>>, tp |-> 2]}
==============================================================================
