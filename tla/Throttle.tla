------------------------------- MODULE Throttle -------------------------------
(***************************************************************************)
(* What rate limiting promises the calls of the tools, whatever the actors *)
(* between them do: the limit is set once, a call begins only if it waits  *)
(* and fewer than that many execute, and every call is over at most once.  *)
(***************************************************************************)
EXTENDS Naturals, FiniteSets

CONSTANT Clients

VARIABLES limit, phase

vars == <<limit, phase>>

Executing == {c \in Clients : phase[c] = "executing"}

Init == limit = 0 /\ phase = [c \in Clients |-> "idle"]

(* The limit is set once.                                                  *)
Open ==
  /\ limit = 0
  /\ limit' \in Nat \ {0}
  /\ UNCHANGED phase

Request(c) ==
  /\ phase[c] = "idle"
  /\ phase' = [phase EXCEPT ![c] = "waiting"]
  /\ UNCHANGED limit

Begin(c) ==
  /\ phase[c] = "waiting" /\ Cardinality(Executing) < limit
  /\ phase' = [phase EXCEPT ![c] = "executing"]
  /\ UNCHANGED limit

Finish(c) ==
  /\ phase[c] = "executing"
  /\ phase' = [phase EXCEPT ![c] = "idle"]
  /\ UNCHANGED limit

Next == Open \/ \E c \in Clients : Request(c) \/ Begin(c) \/ Finish(c)

Spec == Init /\ [][Next]_vars

=============================================================================
