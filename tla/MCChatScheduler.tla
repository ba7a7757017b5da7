--------------------------- MODULE MCChatScheduler ---------------------------
(* Instances of ChatScheduler for TLC: rows and tool calls are             *)
(* interchangeable, servers are not (the heap orders their addresses).     *)
EXTENDS ChatScheduler, TLC

Symmetry == Permutations(Rows) \cup Permutations(Tools)

=============================================================================
