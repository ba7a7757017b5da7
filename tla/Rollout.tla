------------------------------- MODULE Rollout -------------------------------
(***************************************************************************)
(* What generate_sequences promises its caller, whatever the servers, the  *)
(* tools and the scheduling do: while a call runs only the conversations   *)
(* of that call that are still open gain messages, each is closed once,    *)
(* and the call ends when none is open.  The conversations of a call that  *)
(* has ended never change again.                                           *)
(***************************************************************************)
EXTENDS Integers

CONSTANTS Batches, Rows, PromptLen

Conv == (1 .. Batches) \X Rows
Batch(b) == {b} \X Rows

VARIABLES status, batch, open, messages

vars == <<status, batch, open, messages>>

Init ==
  /\ status = "idle"
  /\ batch = 0
  /\ open = {}
  /\ messages = [c \in Conv |-> PromptLen]

Begin ==
  /\ status = "idle" /\ batch < Batches
  /\ status' = "running"
  /\ batch' = batch + 1
  /\ open' = Batch(batch + 1)
  /\ UNCHANGED messages

(* An open conversation gains messages, and may be over with them.         *)
Converse(c) ==
  /\ c \in open
  /\ messages' = [messages EXCEPT ![c] = messages'[c]]
  /\ messages'[c] >= messages[c]
  /\ open' \in {open, open \ {c}}
  /\ UNCHANGED <<status, batch>>

(* The call returns its conversations, or fails because one of them has no *)
(* response.                                                               *)
End ==
  /\ status = "running" /\ open = {}
  /\ status' = IF \A c \in Batch(batch) : messages[c] > PromptLen
                 THEN "idle" ELSE "failed"
  /\ UNCHANGED <<batch, open, messages>>

Next == Begin \/ End \/ \E c \in Conv : Converse(c)

Spec == Init /\ [][Next]_vars

=============================================================================
