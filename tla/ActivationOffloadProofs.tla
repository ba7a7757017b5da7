----------------------- MODULE ActivationOffloadProofs -----------------------
(***************************************************************************)
(* Proofs about ActivationOffload for every number of layers and tensors,  *)
(* in the configuration enable_activation_offloading sets up.              *)
(***************************************************************************)
EXTENDS ActivationOffload, FiniteSetTheorems, TLAPS

(* All layers but the last are offloaded, and there are at least three.    *)
Setup == NumLayers >= 3 /\ NumOffload = NumLayers - 1

(* The group count, the pending copies and the host copies are functions   *)
(* of the pass and of the current layer.                                   *)
Counted ==
  count = IF pass = "forward" THEN (IF current = 0 THEN 0 ELSE current - 1)
          ELSE (IF current < 2 THEN current ELSE current - 1)

Mapped ==
  mapping = {g \in Offloaded : g < IF pass = "forward" THEN current ELSE current - 1}

Pending ==
  /\ d2h \subseteq (IF pass = "forward" /\ current > 0 THEN {current - 1} ELSE {})
  /\ h2d \subseteq (IF pass = "backward" /\ current \in 1 .. NumLayers - 1
                      THEN {current - 1} ELSE {})

(* Where the tensors of group g are.                                       *)
Placed(g) ==
  /\ state[g] = "device" => g[1] = current \/ (pass = "backward" /\ g[1] = current - 1)
  /\ state[g] = "host" => g[1] < NumOffload /\ g[1] < (IF pass = "forward" THEN current ELSE current - 1)
  /\ buf[g] # "none" => state[g] # "none" /\ g[1] < NumOffload
  /\ buf[g] = "tensor" => pass = "forward" /\ g[1] \in {current, current - 1}
  /\ buf[g] = "freed" => pass = "backward" \/ g[1] < current - 1

Inv ==
  /\ TypeOK
  /\ pass = "forward" => current < NumLayers
  /\ Counted /\ Mapped /\ Pending
  /\ \A g \in Tags : Placed(g)

(* With one layer left over every window is one layer, shifted by one.     *)
LEMMA OneLayerWindow ==
  ASSUME Setup, NEW i \in Int
  PROVE  Window(i) = i + 1 \/ i < 0
  <1> DEFINE L == NumLayers
  <1>1. L \in Int /\ L >= 3 /\ NumOffload = L - 1
    BY OffloadAssumption DEF Setup
  <1>2. L \div (L - 1) = 1
    BY <1>1, Z3
  <1>3. L % (L - 1) = 1
    BY <1>1, Z3
  <1> QED BY <1>1, <1>2, <1>3 DEF Window, Min2

LEMMA TagFacts ==
  ASSUME NEW g \in Tags
  PROVE  g = <<g[1], g[2]>> /\ g[1] \in 0 .. NumLayers - 1 /\ g[1] \in Int /\ g[2] \in Tensors
  BY OffloadAssumption DEF Tags, Groups

LEMMA InitInv == ASSUME Setup, Init PROVE Inv
  <1>1. TypeOK
    BY OffloadAssumption DEF Init, TypeOK
  <1>2. Counted /\ Mapped /\ Pending /\ current < NumLayers
    BY OffloadAssumption DEF Init, Counted, Mapped, Pending, Offloaded
  <1>3. \A g \in Tags : Placed(g)
    BY DEF Init, Placed
  <1> QED BY <1>1, <1>2, <1>3 DEF Inv

(* Saving a tensor touches the entry of the computing layer alone.         *)
LEMMA PushInv ==
  ASSUME Setup, Inv, NEW t \in Tensors, Push(t)
  PROVE  Inv'
  <1>1. current \in 0 .. NumLayers - 1 /\ current \in Int /\ NumOffload = NumLayers - 1 /\ NumLayers \in Nat
    BY OffloadAssumption DEF Inv, TypeOK, Push, Setup
  <1> DEFINE k == <<current, t>>
  <1>2. k \in Tags
    BY <1>1 DEF Tags, Groups
  <1>3. TypeOK'
    BY <1>2 DEF Inv, TypeOK, Push
  <1>4. ASSUME NEW g \in Tags PROVE Placed(g)'
    <2>1. Placed(g)
      BY DEF Inv
    <2>2. CASE g = k
      <3>1. state'[g] = "device" /\ (buf'[g] = buf[g] \/ (buf'[g] = "tensor" /\ current < NumOffload))
        BY <1>2, <2>2 DEF Inv, TypeOK, Push
      <3>2. g[1] = current
        BY <2>2
      <3>3. state[g] = "none"
        BY <2>2 DEF Push
      <3> QED BY <1>1, <2>1, <3>1, <3>2, <3>3 DEF Placed, Push
    <2>3. CASE g # k
      <3>1. state'[g] = state[g] /\ buf'[g] = buf[g]
        BY <1>2, <2>3 DEF Inv, TypeOK, Push
      <3> QED BY <2>1, <3>1 DEF Placed, Push
    <2> QED BY <2>2, <2>3
  <1>5. Counted' /\ Mapped' /\ Pending' /\ (pass' = "forward" => current' < NumLayers)
    BY DEF Inv, Counted, Mapped, Pending, Push
  <1> QED BY <1>3, <1>4, <1>5 DEF Inv

LEMMA PopInv ==
  ASSUME Setup, Inv, NEW t \in Tensors, Pop(t)
  PROVE  Inv'
  <1>1. current \in 0 .. NumLayers - 1
    BY OffloadAssumption DEF Inv, TypeOK, Pop
  <1> DEFINE k == <<current, t>>
  <1>2. k \in Tags
    BY <1>1 DEF Tags, Groups
  <1>3. TypeOK'
    BY <1>2 DEF Inv, TypeOK, Pop
  <1>4. ASSUME NEW g \in Tags PROVE Placed(g)'
    <2>1. Placed(g)
      BY DEF Inv
    <2>2. CASE g = k
      <3>1. state'[g] = "none" /\ buf'[g] = "none"
        BY <1>2, <2>2 DEF Inv, TypeOK, Pop
      <3> QED BY <3>1 DEF Placed
    <2>3. CASE g # k
      <3>1. state'[g] = state[g] /\ buf'[g] = buf[g]
        BY <1>2, <2>3 DEF Inv, TypeOK, Pop
      <3> QED BY <2>1, <3>1 DEF Placed, Pop
    <2> QED BY <2>2, <2>3
  <1>5. Counted' /\ Mapped' /\ Pending' /\ (pass' = "forward" => current' < NumLayers)
    BY DEF Inv, Counted, Mapped, Pending, Pop
  <1> QED BY <1>3, <1>4, <1>5 DEF Inv

(* A forward commit starts the copy of its own group, and from the second  *)
(* commit on frees the group below.                                        *)
LEMMA ForwardFacts ==
  ASSUME Setup, Inv, CommitForward
  PROVE  /\ current \in 0 .. NumLayers - 1 /\ count \in 0 .. NumLayers - 2
         /\ Starting = (IF current < NumOffload THEN {current} ELSE {})
         /\ (Window(count) = current) <=> (current > 0)
         /\ count' = current
         /\ current > 0 => count = current - 1
         /\ d2h' \subseteq Starting
         /\ \A g \in Tags : state'[g] = IF g[1] \in Starting /\ state[g] = "device"
                                         THEN "host" ELSE state[g]
         /\ \A g \in Tags : buf'[g] = IF current > 0 /\ g[1] = current - 1 /\ buf[g] # "none"
                                       THEN "freed" ELSE buf[g]
  <1>1. NumOffload = NumLayers - 1 /\ NumLayers \in Nat /\ NumLayers >= 3
    BY OffloadAssumption DEF Setup
  <1>2. pass = "forward" /\ current \in 0 .. NumLayers - 1
    BY <1>1 DEF Inv, TypeOK, CommitForward
  <1>3. count = (IF current = 0 THEN 0 ELSE current - 1) /\ count \in 0 .. NumLayers - 2
    BY <1>1, <1>2 DEF Inv, Counted
  <1>4. Window(count) = count + 1
    BY <1>3, OneLayerWindow
  <1>5. (Window(count) = current) <=> (current > 0)
    BY <1>2, <1>3, <1>4
  <1>6. Starting = (IF current < NumOffload THEN {current} ELSE {})
    BY <1>1, <1>2, <1>3, <1>5 DEF Starting
  <1>7. count' = current
    BY <1>2, <1>3, <1>5 DEF CommitForward
  <1>8. d2h' \subseteq Starting
    <2>1. CASE current = 0
      BY <1>2, <1>5, <2>1 DEF Inv, Pending, CommitForward, Having
    <2>2. CASE current > 0
      BY <1>5, <2>2 DEF CommitForward, Having
    <2> QED BY <1>2, <2>1, <2>2
  <1>9. \A g \in Tags : state'[g] = IF g[1] \in Starting /\ state[g] = "device"
                                    THEN "host" ELSE state[g]
    BY DEF CommitForward, ToHost
  <1>10. \A g \in Tags : buf'[g] = IF current > 0 /\ g[1] = current - 1 /\ buf[g] # "none"
                                   THEN "freed" ELSE buf[g]
    BY <1>2, <1>3, <1>5 DEF CommitForward
  <1> QED BY <1>2, <1>3, <1>5, <1>6, <1>7, <1>8, <1>9, <1>10

LEMMA ForwardInv ==
  ASSUME Setup, Inv, CommitForward
  PROVE  Inv'
  <1>1. NumOffload = NumLayers - 1 /\ NumLayers \in Nat /\ NumLayers >= 3
    BY OffloadAssumption DEF Setup
  <1>2. /\ pass = "forward" /\ current' = current + 1 /\ h2d' = h2d
        /\ pass' = (IF current + 1 = NumLayers THEN "backward" ELSE "forward")
        /\ mapping' = mapping \cup Starting
    BY DEF CommitForward, Advance
  <1>3. ASSUME NEW g \in Tags PROVE Placed(g)'
    <2>1. Placed(g) /\ state[g] \in {"none", "device", "host"} /\ buf[g] \in {"none", "tensor", "freed"}
      BY DEF Inv, TypeOK
    <2>2. g[1] \in 0 .. NumLayers - 1 /\ current \in 0 .. NumLayers - 1
      BY TagFacts, ForwardFacts
    <2>3. /\ state'[g] = IF g[1] = current /\ current < NumOffload /\ state[g] = "device"
                            THEN "host" ELSE state[g]
          /\ buf'[g] = IF current > 0 /\ g[1] = current - 1 /\ buf[g] # "none"
                          THEN "freed" ELSE buf[g]
      BY ForwardFacts
    <2> QED BY <1>1, <1>2, <2>1, <2>2, <2>3 DEF Placed
  <1>4. TypeOK'
    <2>1. state' \in [Tags -> {"none", "device", "host"}]
      BY DEF Inv, TypeOK, CommitForward, ToHost
    <2>2. buf' \in [Tags -> {"none", "tensor", "freed"}]
      BY DEF Inv, TypeOK, CommitForward
    <2>3. Starting \subseteq Offloaded
      BY <1>1, ForwardFacts DEF Offloaded
    <2>4. mapping' \subseteq Offloaded /\ d2h' \subseteq Offloaded /\ h2d' \subseteq Offloaded
      BY <1>2, <2>3, ForwardFacts DEF Inv, TypeOK
    <2>5. current' \in 0 .. NumLayers /\ count' \in 0 .. NumOffload /\ pass' \in {"forward", "backward"}
      BY <1>1, <1>2, ForwardFacts
    <2> QED BY <2>1, <2>2, <2>4, <2>5 DEF TypeOK
  <1>5. Counted' /\ (pass' = "forward" => current' < NumLayers)
    BY <1>1, <1>2, ForwardFacts DEF Counted
  <1>6. Mapped'
    <2>1. mapping = {g \in Offloaded : g < current}
      BY <1>2 DEF Inv, Mapped
    <2>2. mapping' = {g \in Offloaded : g < current + 1}
      BY <1>1, <1>2, <2>1, ForwardFacts DEF Offloaded
    <2>3. CASE current + 1 = NumLayers
      BY <1>1, <1>2, <2>2, <2>3 DEF Mapped, Offloaded
    <2>4. CASE current + 1 # NumLayers
      BY <1>2, <2>2, <2>4 DEF Mapped
    <2> QED BY <2>3, <2>4
  <1>7. Pending'
    BY <1>1, <1>2, ForwardFacts DEF Inv, Pending
  <1> QED BY <1>3, <1>4, <1>5, <1>6, <1>7 DEF Inv

(* A backward commit reloads the group below the one that computes next.   *)
LEMMA BackwardFacts ==
  ASSUME Setup, Inv, CommitBackward
  PROVE  /\ current \in 1 .. NumLayers
         /\ count = (IF current = 1 THEN 1 ELSE current - 1)
         /\ (Window(count - 1) = current - 1) <=> (current > 1)
         /\ count' = (IF current' < 2 THEN current' ELSE current' - 1)
         /\ h2d' \subseteq (IF current' = 0 THEN {} ELSE {current' - 1})
         /\ mapping' = IF current' = 0 THEN mapping ELSE mapping \ {current' - 1}
         /\ \A g \in Tags : state'[g] = IF current > 1 /\ g[1] = current - 2 /\ state[g] = "host"
                                         THEN "device" ELSE state[g]
  <1>1. NumOffload = NumLayers - 1 /\ NumLayers \in Nat /\ NumLayers >= 3
    BY OffloadAssumption DEF Setup
  <1>2. pass = "backward" /\ current \in 1 .. NumLayers /\ current' = current - 1
    BY <1>1 DEF Inv, TypeOK, CommitBackward
  <1>3. count = (IF current = 1 THEN 1 ELSE current - 1)
    BY <1>1, <1>2 DEF Inv, Counted
  <1>4. Window(count - 1) = count
    BY <1>2, <1>3, OneLayerWindow
  <1>5. (Window(count - 1) = current - 1) <=> (current > 1)
    BY <1>2, <1>3, <1>4
  <1>6. count' = (IF current' < 2 THEN current' ELSE current' - 1)
    BY <1>2, <1>3, <1>5 DEF CommitBackward
  <1>7. CASE current > 1
    <2>1. /\ state' = FromHost(current - 2)
          /\ mapping' = mapping \ {current - 2}
          /\ h2d' = Having({current - 2}, "host")
      BY <1>2, <1>3, <1>5, <1>7 DEF CommitBackward
    <2>2. \A g \in Tags : state'[g] = IF g[1] = current - 2 /\ state[g] = "host"
                                      THEN "device" ELSE state[g]
      BY <2>1 DEF FromHost
    <2>3. h2d' \subseteq {current - 2}
      BY <2>1 DEF Having
    <2> QED BY <1>2, <1>3, <1>5, <1>6, <1>7, <2>1, <2>2, <2>3
  <1>8. CASE current = 1
    BY <1>2, <1>3, <1>5, <1>6, <1>8 DEF CommitBackward
  <1> QED BY <1>2, <1>7, <1>8

LEMMA BackwardInv ==
  ASSUME Setup, Inv, CommitBackward
  PROVE  Inv'
  <1>1. NumOffload = NumLayers - 1 /\ NumLayers \in Nat /\ NumLayers >= 3
    BY OffloadAssumption DEF Setup
  <1>2. /\ pass = "backward" /\ pass' = "backward" /\ current' = current - 1
        /\ buf' = buf /\ d2h' = d2h
        /\ current < NumLayers => Drained(current)
    BY DEF CommitBackward
  <1>3. current \in 1 .. NumLayers
    BY BackwardFacts
  <1>4. ASSUME NEW g \in Tags PROVE Placed(g)'
    <2>1. Placed(g) /\ state[g] \in {"none", "device", "host"} /\ buf[g] \in {"none", "tensor", "freed"}
      BY DEF Inv, TypeOK
    <2>2. g[1] \in 0 .. NumLayers - 1
      BY TagFacts
    <2>3. state'[g] = IF current > 1 /\ g[1] = current - 2 /\ state[g] = "host"
                        THEN "device" ELSE state[g]
      BY BackwardFacts
    <2>4. g[1] = current => state[g] = "none"
      <3>1. g = <<g[1], g[2]>> /\ g[2] \in Tensors
        BY TagFacts
      <3> QED BY <1>1, <1>2, <2>2, <3>1 DEF Drained
    <2> QED BY <1>1, <1>2, <1>3, <2>1, <2>2, <2>3, <2>4 DEF Placed
  <1>5. TypeOK'
    <2>1. state' \in [Tags -> {"none", "device", "host"}]
      BY DEF Inv, TypeOK, CommitBackward, FromHost
    <2>2. mapping' \subseteq Offloaded
      BY BackwardFacts DEF Inv, TypeOK
    <2>3. h2d' \subseteq Offloaded
      BY <1>1, <1>2, <1>3, BackwardFacts DEF Offloaded
    <2>4. current' \in 0 .. NumLayers /\ count' \in 0 .. NumOffload
      BY <1>1, <1>2, <1>3, BackwardFacts
    <2> QED BY <1>2, <2>1, <2>2, <2>3, <2>4 DEF Inv, TypeOK
  <1>6. Counted'
    BY <1>2, BackwardFacts DEF Counted
  <1>7. Mapped'
    <2>1. mapping = {g \in Offloaded : g < current - 1}
      BY <1>2 DEF Inv, Mapped
    <2>2. mapping' = {g \in Offloaded : g < current - 2}
      BY <1>1, <1>2, <1>3, <2>1, BackwardFacts DEF Offloaded
    <2> QED BY <1>2, <1>3, <2>2 DEF Mapped
  <1>8. Pending'
    BY <1>1, <1>2, <1>3, BackwardFacts DEF Inv, Pending
  <1> QED BY <1>2, <1>4, <1>5, <1>6, <1>7, <1>8 DEF Inv

LEMMA MicroBatchInv ==
  ASSUME Setup, Inv, NextMicroBatch
  PROVE  Inv'
  <1>1. NumOffload = NumLayers - 1 /\ NumLayers \in Nat /\ NumLayers >= 3
    BY OffloadAssumption DEF Setup
  <1>2. /\ pass = "backward" /\ pass' = "forward" /\ current = 0 /\ current' = 0
        /\ state' = state /\ buf' = buf /\ mapping' = mapping /\ count' = count
        /\ d2h' = d2h /\ h2d' = h2d /\ Drained(0)
    BY DEF NextMicroBatch
  <1>3. ASSUME NEW g \in Tags PROVE Placed(g)'
    <2>1. Placed(g) /\ state[g] \in {"none", "device", "host"}
      BY DEF Inv, TypeOK
    <2>2. state[g] = "none"
      BY <1>1, <1>2, <2>1, TagFacts DEF Placed, Drained
    <2> QED BY <1>2, <2>1, <2>2 DEF Placed
  <1>4. TypeOK' /\ Counted' /\ Pending'
    BY <1>1, <1>2 DEF Inv, TypeOK, Counted, Pending
  <1>5. Mapped'
    BY <1>1, <1>2 DEF Inv, Mapped, Offloaded
  <1> QED BY <1>1, <1>2, <1>3, <1>4, <1>5 DEF Inv

LEMMA NextInv == ASSUME Setup, Inv, [Next]_vars PROVE Inv'
  <1>1. CASE UNCHANGED vars
    BY <1>1 DEF vars, Inv, TypeOK, Counted, Mapped, Pending, Placed
  <1>2. CASE Next
    BY <1>2, PushInv, PopInv, ForwardInv, BackwardInv, MicroBatchInv DEF Next
  <1> QED BY <1>1, <1>2

THEOREM InvAlways == Setup => (Spec => []Inv)
  <1> SUFFICES ASSUME Setup PROVE Spec => []Inv
    OBVIOUS
  <1>1. Inv /\ [Next]_vars => Inv'
    BY NextInv
  <1>2. Init => Inv
    BY InitInv
  <1> QED BY <1>1, <1>2, PTL DEF Spec

-----------------------------------------------------------------------------
(* What is copied either way is an offloaded group, for any model.         *)
THEOREM TypeCorrect == Setup => (Spec => []TypeOK)
  <1> Inv => TypeOK
    BY DEF Inv
  <1> QED BY InvAlways, PTL

(* The backward pass of a layer finds device tensors whose copy is ordered *)
(* before their use.                                                       *)
THEOREM BackwardFindsTensors == Setup => (Spec => []PopIsReady)
  <1> SUFFICES ASSUME Setup PROVE Spec => []PopIsReady
    OBVIOUS
  <1>1. ASSUME Inv, pass = "backward", current < NumLayers PROVE PopIsReady
    <2>1. current \in 0 .. NumLayers - 1 /\ current \notin h2d
      BY <1>1, OffloadAssumption DEF Inv, TypeOK, Pending
    <2>2. ASSUME NEW t \in Tensors PROVE state[<<current, t>>] # "host"
      <3>1. <<current, t>> \in Tags
        BY <2>1 DEF Tags, Groups
      <3> QED BY <1>1, <2>1, <3>1 DEF Inv, Placed
    <2> QED BY <2>1, <2>2 DEF PopIsReady
  <1>2. Inv => PopIsReady
    BY <1>1 DEF PopIsReady
  <1> QED BY <1>2, InvAlways, PTL

(* No device memory is freed, and no host copy read, before the copy to    *)
(* the host is ordered.                                                    *)
THEOREM CopiesAreOrdered == Setup => (Spec => []CopyIsWaitedFor)
  <1> SUFFICES ASSUME Setup PROVE Spec => []CopyIsWaitedFor
    OBVIOUS
  <1>1. ASSUME Inv PROVE CopyIsWaitedFor
    <2>1. current \in Int
      BY <1>1, OffloadAssumption DEF Inv, TypeOK
    <2>2. ASSUME NEW g \in Tags, buf[g] = "freed" PROVE g[1] \notin d2h
      BY <1>1, <2>1, <2>2, TagFacts DEF Inv, Placed, Pending
    <2>3. h2d \cap d2h = {}
      BY <1>1 DEF Inv, Pending
    <2> QED BY <2>2, <2>3 DEF CopyIsWaitedFor
  <1> QED BY <1>1, InvAlways, PTL

(* No commit looks up a window or a host copy that is not there.           *)
THEOREM NoLookupFails == Setup => (Spec => []LookupsSucceed)
  <1> SUFFICES ASSUME Setup PROVE Spec => []LookupsSucceed
    OBVIOUS
  <1>1. ASSUME Inv PROVE LookupsSucceed
    <2>1. NumOffload = NumLayers - 1 /\ NumLayers \in Nat /\ NumLayers >= 3 /\ current \in 0 .. NumLayers
      BY <1>1, OffloadAssumption DEF Setup, Inv, TypeOK
    <2>2. ASSUME pass = "forward" PROVE count \in Offloaded
      BY <1>1, <2>1, <2>2 DEF Inv, Counted, Offloaded
    <2>3. ASSUME pass = "backward", current > 0
          PROVE  /\ count - 1 \in Offloaded
                 /\ Window(count - 1) = current - 1 => count - 1 \in mapping
      <3>1. count = IF current < 2 THEN current ELSE current - 1
        BY <1>1, <2>3 DEF Inv, Counted
      <3>2. count - 1 \in Offloaded /\ count - 1 >= 0
        BY <2>1, <2>3, <3>1 DEF Offloaded
      <3>3. Window(count - 1) = count
        BY <2>1, <2>3, <3>1, <3>2, OneLayerWindow
      <3>4. mapping = {g \in Offloaded : g < current - 1}
        BY <1>1, <2>3 DEF Inv, Mapped
      <3> QED BY <2>1, <2>3, <3>1, <3>2, <3>3, <3>4
    <2> QED BY <2>2, <2>3 DEF LookupsSucceed
  <1> QED BY <1>1, InvAlways, PTL

(* A micro batch leaves nothing behind for the next one.                   *)
THEOREM NothingIsLeft == Setup => (Spec => []CleanStart)
  <1> SUFFICES ASSUME Setup PROVE Spec => []CleanStart
    OBVIOUS
  <1>1. ASSUME Inv, pass = "forward", current = 0 PROVE CleanStart
    <2>1. count = 0 /\ d2h = {} /\ h2d = {} /\ mapping = {}
      BY <1>1 DEF Inv, Counted, Pending, Mapped, Offloaded
    <2>2. ASSUME NEW g \in Tags, g[1] # 0 PROVE state[g] = "none" /\ buf[g] = "none"
      <3>1. Placed(g) /\ state[g] \in {"none", "device", "host"} /\ g[1] \in 0 .. NumLayers - 1
        BY <1>1, TagFacts DEF Inv, TypeOK
      <3> QED BY <1>1, <2>2, <3>1, OffloadAssumption DEF Placed
    <2> QED BY <2>1, <2>2 DEF CleanStart
  <1>2. Inv => CleanStart
    BY <1>1 DEF CleanStart
  <1> QED BY <1>2, InvAlways, PTL

(* "at most two activation groups in GPU memory": that of the current      *)
(* layer and that of the layer below.                                      *)
THEOREM TwoGroupsResident == Setup => (Spec => []AtMostTwoResident)
  <1> SUFFICES ASSUME Setup PROVE Spec => []AtMostTwoResident
    OBVIOUS
  <1>1. ASSUME Inv PROVE AtMostTwoResident
    <2>1. Resident \subseteq {current, current - 1}
      <3>1. ASSUME NEW g \in Resident PROVE g \in {current, current - 1}
        <4>1. PICK t \in Tensors : state[<<g, t>>] = "device" \/ buf[<<g, t>>] = "tensor"
          BY DEF Resident
        <4>2. <<g, t>> \in Tags
          BY DEF Resident, Tags
        <4> QED BY <1>1, <4>1, <4>2 DEF Inv, Placed
      <3> QED BY <3>1
    <2>2. IsFiniteSet({current, current - 1}) /\ Cardinality({current, current - 1}) <= 2
      <3>1. IsFiniteSet({current}) /\ Cardinality({current}) = 1
        BY FS_Singleton
      <3>2. {current, current - 1} = {current} \cup {current - 1}
        OBVIOUS
      <3> QED BY <3>1, <3>2, FS_AddElement
    <2>3. Cardinality(Resident) <= Cardinality({current, current - 1})
          /\ Cardinality(Resident) \in Nat
      BY <2>1, <2>2, FS_Subset, FS_CardinalityType
    <2>4. Cardinality({current, current - 1}) \in Nat
      BY <2>2, FS_CardinalityType
    <2> QED BY <2>2, <2>3, <2>4 DEF AtMostTwoResident
  <1> QED BY <1>1, InvAlways, PTL

=============================================================================
