-------------------------- MODULE ActivationOffload --------------------------
(***************************************************************************)
(* The activation offloading of verl/utils/activation_offload.py: the      *)
(* tensors autograd saves are grouped by layer, copied to the host on a    *)
(* stream of their own while the next layers compute, and copied back      *)
(* ahead of the layer whose backward pass needs them.                      *)
(*                                                                         *)
(* The host thread runs the layers forward, then backward; the two copy    *)
(* streams run on their own.  d2h and h2d hold the groups whose copy was   *)
(* issued and is not yet ordered before the next operation of the compute  *)
(* stream: only wait_stream takes a group out of them, so that a copy may  *)
(* be as slow as the streams allow.                                        *)
(***************************************************************************)
EXTENDS Integers, FiniteSets

CONSTANTS
  NumLayers,   (* num_model_group: wrapped layers of the model               *)
  NumOffload,  (* num_offload_group: groups that are offloaded               *)
  Tensors      (* the tensors a layer may save                               *)

(* "must be <= actual number of groups (number of commits)"                *)
ASSUME OffloadAssumption ==
  /\ NumLayers \in Nat \ {0}
  /\ NumOffload \in 1 .. NumLayers
  /\ IsFiniteSet(Tensors)

Groups == 0 .. NumLayers - 1
Offloaded == 0 .. NumOffload - 1
Tags == Groups \X Tensors

VARIABLES
  pass,     (* "forward" or "backward"                                       *)
  current,  (* current_group                                                 *)
  count,    (* offloaded_group_count                                         *)
  state,    (* tensor_tag_to_state: no entry, a device tensor, a host copy   *)
  buf,      (* tensor_tag_to_buf: no entry, a tensor, or None                *)
  mapping,  (* the keys of group_offload_mapping                             *)
  d2h,      (* groups whose copy to the host is not ordered yet              *)
  h2d       (* groups whose copy to the device is not ordered yet            *)

vars == <<pass, current, count, state, buf, mapping, d2h, h2d>>

Min2(a, b) == IF a <= b THEN a ELSE b

(* Mutant of Window: the remainder is not spread over the first groups.    *)
UnevenWindow(i) == (NumLayers \div NumOffload) * (i + 1) - 1

(* layer_window_map[i]: the commit that ends the copy of group i.  The     *)
(* first groups take one layer more each while the remainder lasts.        *)
Window(i) ==
  (NumLayers \div NumOffload) * (i + 1) - 1 + Min2(i + 1, NumLayers % NumOffload)

Init ==
  /\ pass = "forward"
  /\ current = 0
  /\ count = 0
  /\ state = [g \in Tags |-> "none"]
  /\ buf = [g \in Tags |-> "none"]
  /\ mapping = {}
  /\ d2h = {}
  /\ h2d = {}

(* tensor_push: autograd saves a tensor of the layer that computes.        *)
Push(t) ==
  /\ pass = "forward" /\ state[<<current, t>>] = "none"
  /\ state' = [state EXCEPT ![<<current, t>>] = "device"]
  /\ buf' = IF current < NumOffload
              THEN [buf EXCEPT ![<<current, t>>] = "tensor"] ELSE buf
  /\ UNCHANGED <<pass, current, count, mapping, d2h, h2d>>

(* bulk_offload_group of the groups G: their entries become host copies.   *)
ToHost(G) ==
  [g \in Tags |-> IF g[1] \in G /\ state[g] = "device" THEN "host" ELSE state[g]]

(* Mutant of Starting: the group after the last one is started as well.    *)
StartsOneMore ==
  (IF current = 0 THEN {0} ELSE {}) \cup (IF Window(count) = current THEN {count + 1} ELSE {})

(* The groups a forward commit starts to offload: the first one by itself, *)
(* every other one when the group before it was freed.                     *)
Starting ==
  (IF current = 0 THEN {0} ELSE {})
    \cup (IF Window(count) = current /\ count < NumOffload - 1 THEN {count + 1} ELSE {})

(* The groups among G that have a tensor with entry s to copy.             *)
Having(G, s) == {g \in G : \E t \in Tensors : state[<<g, t>>] = s}

(* The next pass begins when the last layer has committed.                 *)
Advance ==
  /\ current' = current + 1
  /\ pass' = IF current + 1 = NumLayers THEN "backward" ELSE "forward"

(* Mutant of CommitForward: the compute stream does not wait for d2h.      *)
CommitUnordered ==
  /\ pass = "forward" /\ count < NumOffload
  /\ state' = ToHost(Starting)
  /\ mapping' = mapping \cup Starting
  /\ d2h' = d2h \cup Having(Starting, "device")
  /\ IF Window(count) = current
       THEN /\ buf' = [g \in Tags |-> IF g[1] = count /\ buf[g] # "none"
                                        THEN "freed" ELSE buf[g]]
            /\ count' = count + 1
       ELSE UNCHANGED <<buf, count>>
  /\ Advance
  /\ UNCHANGED h2d

(* Mutant of CommitForward: the group before the last one copied is freed. *)
CommitFreesLate ==
  /\ pass = "forward" /\ count < NumOffload
  /\ state' = ToHost(Starting)
  /\ mapping' = mapping \cup Starting
  /\ IF Window(count) = current
       THEN /\ d2h' = Having(Starting \ {0}, "device")
            /\ buf' = [g \in Tags |-> IF g[1] = count - 1 /\ buf[g] # "none"
                                        THEN "freed" ELSE buf[g]]
            /\ count' = count + 1
       ELSE d2h' = d2h \cup Having(Starting, "device") /\ UNCHANGED <<buf, count>>
  /\ Advance
  /\ UNCHANGED h2d

(* on_group_commit_forward: at a window boundary the compute stream waits  *)
(* for every copy issued so far (that of the current group too, if it is   *)
(* the first), the device memory of group `count' is freed and the next    *)
(* group starts.  A lookup outside layer_window_map would raise.           *)
CommitForward ==
  /\ pass = "forward" /\ count < NumOffload
  /\ state' = ToHost(Starting)
  /\ mapping' = mapping \cup Starting
  /\ IF Window(count) = current
       THEN /\ d2h' = Having(Starting \ {0}, "device")
            /\ buf' = [g \in Tags |-> IF g[1] = count /\ buf[g] # "none"
                                        THEN "freed" ELSE buf[g]]
            /\ count' = count + 1
       ELSE d2h' = d2h \cup Having(Starting, "device") /\ UNCHANGED <<buf, count>>
  /\ Advance
  /\ UNCHANGED h2d

(* Every tensor of a layer is used before the layer below commits.         *)
Drained(g) == \A t \in Tensors : state[<<g, t>>] = "none"

(* bulk_reload_group: the entries of group g become device tensors again,  *)
(* on the h2d stream.                                                      *)
FromHost(g) ==
  [h \in Tags |-> IF h[1] = g /\ state[h] = "host" THEN "device" ELSE state[h]]

(* Mutants of CommitBackward: the reload is not waited for at a window     *)
(* boundary; the counter is not reset after the last group.                *)
CommitUnwaited ==
  /\ pass = "backward" /\ current > 0 /\ count > 0
  /\ current < NumLayers => Drained(current)
  /\ current' = current - 1
  /\ IF Window(count - 1) = current'
       THEN /\ state' = FromHost(count - 1)
            /\ mapping' = mapping \ {count - 1}
            /\ h2d' = IF current' = 0 THEN {} ELSE h2d \cup Having({count - 1}, "host")
            /\ count' = IF current' = 0 THEN 0 ELSE IF count > 1 THEN count - 1 ELSE count
       ELSE /\ h2d' = IF current' = 0 THEN {} ELSE h2d
            /\ count' = IF current' = 0 THEN 0 ELSE count
            /\ UNCHANGED <<state, mapping>>
  /\ UNCHANGED <<pass, buf, d2h>>

CommitNotReset ==
  /\ pass = "backward" /\ current > 0 /\ count > 0
  /\ current < NumLayers => Drained(current)
  /\ current' = current - 1
  /\ IF Window(count - 1) = current'
       THEN /\ state' = FromHost(count - 1)
            /\ mapping' = mapping \ {count - 1}
            /\ h2d' = IF current' = 0 THEN {} ELSE Having({count - 1}, "host")
            /\ count' = IF count > 1 THEN count - 1 ELSE count
       ELSE /\ h2d' = IF current' = 0 THEN {} ELSE h2d
            /\ UNCHANGED <<count, state, mapping>>
  /\ UNCHANGED <<pass, buf, d2h>>

(* on_group_commit_backward: at a window boundary the compute stream waits *)
(* for the reloads issued so far and the group below is reloaded; before   *)
(* the last layer it waits for all of them.                                *)
CommitBackward ==
  /\ pass = "backward" /\ current > 0 /\ count > 0
  /\ current < NumLayers => Drained(current)
  /\ current' = current - 1
  /\ IF Window(count - 1) = current'
       THEN /\ state' = FromHost(count - 1)
            /\ mapping' = mapping \ {count - 1}
            /\ h2d' = IF current' = 0 THEN {} ELSE Having({count - 1}, "host")
            /\ count' = IF current' = 0 THEN 0 ELSE IF count > 1 THEN count - 1 ELSE count
       ELSE /\ h2d' = IF current' = 0 THEN {} ELSE h2d
            /\ count' = IF current' = 0 THEN 0 ELSE count
            /\ UNCHANGED <<state, mapping>>
  /\ UNCHANGED <<pass, buf, d2h>>

(* tensor_pop: the backward of the current layer uses a saved tensor.      *)
Pop(t) ==
  /\ pass = "backward" /\ current < NumLayers
  /\ state[<<current, t>>] # "none"
  /\ state' = [state EXCEPT ![<<current, t>>] = "none"]
  /\ buf' = [buf EXCEPT ![<<current, t>>] = "none"]
  /\ UNCHANGED <<pass, current, count, mapping, d2h, h2d>>

(* The backward pass is over and the next micro batch begins.              *)
NextMicroBatch ==
  /\ pass = "backward" /\ current = 0 /\ Drained(0)
  /\ pass' = "forward"
  /\ UNCHANGED <<current, count, state, buf, mapping, d2h, h2d>>

Next ==
  \/ \E t \in Tensors : Push(t) \/ Pop(t)
  \/ CommitForward
  \/ CommitBackward
  \/ NextMicroBatch

Spec == Init /\ [][Next]_vars

-----------------------------------------------------------------------------
(* The types of the handler's tables; what is copied is an offloaded group.*)
TypeOK ==
  /\ pass \in {"forward", "backward"}
  /\ current \in 0 .. NumLayers
  /\ count \in 0 .. NumOffload
  /\ state \in [Tags -> {"none", "device", "host"}]
  /\ buf \in [Tags -> {"none", "tensor", "freed"}]
  /\ mapping \subseteq Offloaded
  /\ d2h \subseteq Offloaded
  /\ h2d \subseteq Offloaded

(* The assertion of tensor_pop, and more: what the backward pass of a      *)
(* layer finds is a device tensor whose copy is ordered before its use.    *)
PopIsReady ==
  pass = "backward" /\ current < NumLayers /\ ~Drained(current) =>
    /\ current \notin h2d
    /\ \A t \in Tensors : state[<<current, t>>] # "host"

(* Device memory is freed, and a host copy is read back, only when the     *)
(* copy to the host is ordered before.                                     *)
CopyIsWaitedFor ==
  /\ \A g \in Tags : buf[g] = "freed" => g[1] \notin d2h
  /\ h2d \cap d2h = {}

(* Every commit finds the window and the host copies it looks up.          *)
LookupsSucceed ==
  /\ pass = "forward" => count \in Offloaded
  /\ pass = "backward" /\ current > 0 => count - 1 \in Offloaded
  /\ pass = "backward" /\ current > 0 /\ Window(count - 1) = current - 1
       => count - 1 \in mapping

(* A micro batch starts from the state the first one started from.         *)
CleanStart ==
  pass = "forward" /\ current = 0 =>
    /\ count = 0 /\ mapping = {} /\ d2h = {} /\ h2d = {}
    /\ \A g \in Tags : g[1] # 0 => state[g] = "none" /\ buf[g] = "none"

(* The groups that hold device memory.                                     *)
Resident == {g \in Groups : \E t \in Tensors : state[<<g, t>>] = "device" \/ buf[<<g, t>>] = "tensor"}

(* "there are at most two activation groups in GPU memory"                 *)
AtMostTwoResident == Cardinality(Resident) <= 2

=============================================================================
