---------------------------- MODULE BringUpProofs ----------------------------
(* Proofs about BringUp.                                                     *)
EXTENDS BringUp, FiniteSetTheorems, FunctionTheorems, TLAPS

(* What a job is made of.                                                    *)
LEMMA JobFacts ==
    ASSUME job \in Jobs
    PROVE  /\ Len(job.bundle) \in Nat \ {0}
           /\ 1 \in Pools
           /\ \A p \in Pools : /\ p \in Nat \ {0}
                               /\ job.bundle[p] \in Nat \ {0}
                               /\ job.width[p] \in Nat \ {0}
                               /\ WorldSize(p) \in Nat \ {0}
                               /\ Groups(p) \subseteq Nat
                               /\ <<p, 0>> \in Workers
           /\ job.tp \in Nat \ {0}
           /\ DpSize \in Nat
<1>1. /\ job.bundle \in Seq(Nat \ {0}) /\ job.width \in Seq(Nat \ {0})
      /\ Len(job.bundle) = Len(job.width) /\ Len(job.bundle) > 0
      /\ job.tp \in Nat \ {0}
  BY JobsAssumption
<1>2. Len(job.bundle) \in Nat \ {0}
  BY <1>1
<1>3. ASSUME NEW p \in Pools
      PROVE  p \in Nat \ {0} /\ job.bundle[p] \in Nat \ {0} /\ job.width[p] \in Nat \ {0}
  BY <1>1, <1>2 DEF Pools
<1>4. ASSUME NEW b \in Nat \ {0}, NEW w \in Nat \ {0} PROVE b * w \in Nat \ {0}
  OBVIOUS
<1>5. ASSUME NEW p \in Pools PROVE WorldSize(p) \in Nat \ {0}
  BY <1>3, <1>4 DEF WorldSize
<1>6. ASSUME NEW p \in Pools PROVE <<p, 0>> \in Workers
  <2>1. 0 \in Ranks(p)
    BY <1>5 DEF Ranks
  <2> QED BY <2>1 DEF Workers
<1>7. 1 \in Pools
  BY <1>2 DEF Pools
<1>8. ASSUME NEW a \in Nat, NEW t \in Nat \ {0} PROVE a \div t \in Nat
  OBVIOUS
<1>9. DpSize \in Nat
  BY <1>1, <1>5, <1>7, <1>8 DEF DpSize, Tp, ActorPool
<1>10. ASSUME NEW p \in Pools PROVE Groups(p) \subseteq Nat
  BY <1>3 DEF Groups
<1> QED BY <1>1, <1>2, <1>3, <1>5, <1>6, <1>7, <1>9, <1>10

(* All that is defined from the job alone stays as it is.                    *)
LEMMA Rigid ==
    ASSUME job' = job
    PROVE  /\ Pools' = Pools
           /\ PlacementGroups' = PlacementGroups
           /\ Workers' = Workers
           /\ DpRanks' = DpRanks
           /\ Names' = Names
           /\ Tp' = Tp
           /\ EqualBundles' = EqualBundles
           /\ NamesAreRanks' = (backend' = "vllm" \/ (Tp = 1 /\ job.width[ActorPool] = 1))
<1>1. Pools' = Pools
  BY DEF Pools
<1>2. PlacementGroups' = PlacementGroups
  BY <1>1 DEF PlacementGroups, Groups
<1>3. Workers' = Workers
  BY <1>1 DEF Workers, Ranks, WorldSize
<1>4. DpRanks' = DpRanks /\ Tp' = Tp
  BY DEF DpRanks, DpSize, WorldSize, Tp
<1>5. Names' = Names
  BY DEF Names
<1>6. EqualBundles' = EqualBundles
  BY <1>1 DEF EqualBundles
<1> QED BY <1>1, <1>2, <1>3, <1>4, <1>5, <1>6 DEF NamesAreRanks, DpSize, WorldSize, Tp

------------------------------------------------------------------------------
(* The parts of the inductive invariant.                                     *)

(* A pool's workers exist only when its placement groups have their nodes,   *)
(* and rank 0 comes first.                                                   *)
Created ==
    \A p \in Pools :
        /\ center[p] => Placed(p) /\ worker[<<p, 0>>] # "none"
        /\ \A r \in Ranks(p) :
              worker[<<p, r>>] # "none" => Placed(p) /\ worker[<<p, 0>>] # "none"

(* Who is up has told the center where it is.                                *)
Registered ==
    \A p \in Pools : \A r \in Ranks(p) :
        worker[<<p, r>>] = "up" =>
            info[<<p, r>>] # 0 /\ info[<<p, r>>] = NodeOf(p, r)

Serving == {"servers", "engines", "scheduler", "up"}

(* The servers come after the workers, the engines after the addresses.      *)
Phased ==
    /\ driver \in Serving \/ (\E d \in DpRanks : server[d] # "none") =>
          AllUp(ActorPool) /\ WorldSize(ActorPool) % Tp = 0
    /\ driver \in {"check", "place", "center", "models"} =>
          unready = DpRanks /\ \A d \in DpRanks : server[d] = "none"
    /\ driver \in {"engines", "scheduler", "up"} => unready = {}
    /\ driver \in {"scheduler", "up"} => \A d \in DpRanks : server[d] = "serving"

(* A known address is that of the server's present process.                  *)
Known ==
    \A d \in DpRanks :
        d \in unready \/ ( /\ server[d] \notin {"none", "starting"}
                           /\ address[d] = <<ServerNode(d), port[d]>> )

(* A port has one listener.                                                  *)
OneListener ==
    \A d, e \in DpRanks :
        Listening(d) /\ Listening(e) /\ d # e =>
            ServerNode(d) # ServerNode(e) \/ port[d] # port[e]

Driving ==
    \A d \in DpRanks :
        server[d] = "serving" =>
            driven[d] = IF backend = "vllm" THEN DrivenByVllm(d) ELSE DrivenBySglang(d)

Inv == TypeOK /\ Created /\ Registered /\ Phased /\ Known /\ OneListener /\ Driving

------------------------------------------------------------------------------
(* Type correctness, component by component.                                 *)

LEMMA PoolsFrame ==
    ASSUME PoolsTypeOK, UNCHANGED poolVars
    PROVE  PoolsTypeOK'
BY Rigid DEF PoolsTypeOK, poolVars

LEMMA PoolsCheck ==
    ASSUME PoolsTypeOK, CheckStep
    PROVE  PoolsTypeOK' /\ UNCHANGED <<job, gpus, loc, free>>
<1>0. /\ \A p \in Pools : job.bundle[p] \in Nat \ {0} /\ job.width[p] \in Nat \ {0} /\ p \in Nat \ {0}
      /\ Len(job.bundle) \in Nat \ {0}
  BY JobFacts DEF PoolsTypeOK
<1>1. CASE CheckTotal
  BY <1>1, Rigid DEF CheckTotal, PoolsTypeOK
<1>2. CASE Book
  <2>1. job' = job /\ gpus' = gpus /\ loc' = loc /\ free' = free /\ node \in Nodes
    BY <1>2 DEF Book
  <2>2. avail[node] \in Nat /\ job.bundle[pool] \in Nat /\ avail[node] >= job.bundle[pool]
    BY <1>2, <1>0 DEF Book, HasRoom, PoolsTypeOK
  <2>3. avail' \in [Nodes -> Nat]
    BY <1>2, <2>2 DEF Book, Booked, PoolsTypeOK
  <2>4. pool' \in Pools' /\ node' \in Nat /\ left' \in Nat
        /\ verdict' \in {"unchecked", "fitting", "accepted", "refused"}
    <3>1. CASE left > 1
      BY <1>2, <2>1, <3>1, Rigid DEF Book, PoolsTypeOK
    <3>2. CASE ~(left > 1) /\ pool < Len(job.bundle)
      <4>1. pool + 1 \in Pools
        BY <3>2, <1>0 DEF Pools, PoolsTypeOK
      <4>2. pool' = pool + 1 /\ node' = 1 /\ left' = job.width[pool + 1] /\ verdict' = verdict
        BY <1>2, <3>2 DEF Book
      <4> QED BY <4>1, <4>2, <2>1, <1>0, Rigid DEF PoolsTypeOK
    <3>3. CASE ~(left > 1) /\ ~(pool < Len(job.bundle))
      BY <1>2, <2>1, <3>3, Rigid DEF Book, PoolsTypeOK
    <3> QED BY <3>1, <3>2, <3>3
  <2> QED BY <2>1, <2>3, <2>4, Rigid DEF PoolsTypeOK
<1>3. CASE PassOver
  BY <1>3, Rigid DEF PassOver, PoolsTypeOK
<1>4. CASE Refuse
  BY <1>4, Rigid DEF Refuse, PoolsTypeOK
<1> QED BY <1>1, <1>2, <1>3, <1>4 DEF CheckStep

LEMMA PoolsPlace ==
    ASSUME PoolsTypeOK, NEW p \in Pools, PlaceGroup(p)
    PROVE  /\ PoolsTypeOK'
           /\ job' = job
           /\ \A g \in PlacementGroups : loc[g] # 0 => loc'[g] = loc[g]
<1>1. PICK i \in Groups(p), n \in Nodes :
          /\ loc[<<p, i>>] = 0
          /\ free[n] >= job.bundle[p]
          /\ loc' = [loc EXCEPT ![<<p, i>>] = n]
          /\ free' = [free EXCEPT ![n] = @ - job.bundle[p]]
  BY DEF PlaceGroup
<1>2. job' = job /\ gpus' = gpus /\ UNCHANGED checkVars
  BY DEF PlaceGroup
<1>3. job.bundle[p] \in Nat
  BY JobFacts DEF PoolsTypeOK
<1>4. free' \in [Nodes -> Nat]
  BY <1>1, <1>3 DEF PoolsTypeOK
<1>5. loc' \in [PlacementGroups -> {0} \cup Nodes]
  BY <1>1 DEF PoolsTypeOK
<1>6. ASSUME NEW g \in PlacementGroups, loc[g] # 0 PROVE loc'[g] = loc[g]
  BY <1>1, <1>6 DEF PoolsTypeOK
<1> QED BY <1>2, <1>4, <1>5, <1>6, Rigid DEF PoolsTypeOK, checkVars

LEMMA GroupFrame ==
    ASSUME GroupTypeOK, job' = job, UNCHANGED groupVars
    PROVE  GroupTypeOK'
<1>1. \A p : Groups(p)' = Groups(p)
  BY DEF Groups
<1> QED BY <1>1, Rigid DEF GroupTypeOK, groupVars

(* The place of a rank among the sorted groups is one of the pool's.         *)
LEMMA IndexInGroups ==
    ASSUME job \in Jobs, NEW p \in Pools, NEW r \in Ranks(p)
    PROVE  GroupIndex(p, r) + 1 \in Groups(p) /\ GroupIndex(p, r) \in Nat
<1> DEFINE b == job.bundle[p]
<1> DEFINE w == job.width[p]
<1>1. b \in Nat \ {0} /\ w \in Nat \ {0}
  BY JobFacts
<1>2. r \in Nat /\ r < b * w
  <2>1. b * w \in Nat
    BY <1>1
  <2> QED BY <2>1 DEF Ranks, WorldSize
<1> HIDE DEF b, w
<1>3. r \div b \in Nat /\ r \div b < w
  <2>1. r \div b \in Nat /\ r = b * (r \div b) + (r % b) /\ (r % b) \in 0 .. b - 1
    BY <1>1, <1>2
  <2>2. (r % b) >= 0
    BY <2>1, <1>1
  <2>3. b * (r \div b) <= r
    BY <2>1, <2>2, <1>1, <1>2, Z3
  <2>4. ASSUME NEW q \in Nat, q >= w, b * q <= r PROVE FALSE
    <3>1. b * q >= b * w
      BY <2>4, <1>1, Z3
    <3>2. b * q \in Int /\ b * w \in Int
      BY <1>1, <2>4
    <3> QED BY <3>1, <3>2, <2>4, <1>2
  <2>5. r \div b \in Nat
    BY <2>1
  <2>6. ~(r \div b >= w)
    BY <2>5, <2>3, <2>4
  <2> HIDE DEF b, w
  <2> QED BY <2>5, <2>6, <1>1
<1>4. r \div b + 1 \in 1 .. w
  BY <1>1, <1>3
<1> QED BY <1>3, <1>4 DEF GroupIndex, Groups, b, w

LEMMA NodeOfTyped ==
    ASSUME PoolsTypeOK, GroupTypeOK, NEW p \in Pools, NEW r \in Ranks(p)
    PROVE  /\ NodeOf(p, r) \in {0} \cup Nodes
           /\ order[p][GroupIndex(p, r) + 1] \in Groups(p)
           /\ <<p, order[p][GroupIndex(p, r) + 1]>> \in PlacementGroups
<1>1. order[p][GroupIndex(p, r) + 1] \in Groups(p)
  BY IndexInGroups DEF PoolsTypeOK, GroupTypeOK
<1>2. <<p, order[p][GroupIndex(p, r) + 1]>> \in PlacementGroups
  BY <1>1 DEF PlacementGroups
<1> QED BY <1>1, <1>2 DEF NodeOf, PoolsTypeOK

(* What the worker groups' actions do to the group's own state.              *)
LEMMA GroupTypes ==
    ASSUME PoolsTypeOK, GroupTypeOK, job' = job, loc' = loc, NEW p \in Pools
    PROVE  /\ StartRankZero(p) => GroupTypeOK'
           /\ CreateCenter(p) => GroupTypeOK'
           /\ StartOthers(p) => GroupTypeOK'
           /\ \A r \in Ranks(p) :
                 (Register(p, r) \/ FailToStart(p, r) \/ FindNoCenter(p, r))
                 => GroupTypeOK'
<1>0. /\ \A q : Groups(q)' = Groups(q)
      /\ Pools' = Pools /\ Workers' = Workers
      /\ <<p, 0>> \in Workers
  BY Rigid, JobFacts DEF Groups, PoolsTypeOK
<1>1. ASSUME StartRankZero(p) PROVE GroupTypeOK'
  <2>1. PICK t \in [Groups(p) -> Groups(p)] : order' = [order EXCEPT ![p] = t]
    BY <1>1 DEF StartRankZero
  <2>2. DOMAIN order' = Pools /\ \A q \in Pools : order'[q] \in [Groups(q) -> Groups(q)]
    BY <2>1 DEF GroupTypeOK
  <2>3. worker' \in [Workers -> {"none", "starting", "up", "dead"}]
    BY <1>1, <1>0 DEF StartRankZero, GroupTypeOK
  <2> QED BY <1>0, <1>1, <2>2, <2>3 DEF StartRankZero, GroupTypeOK
<1>2. ASSUME CreateCenter(p) PROVE GroupTypeOK'
  <2>1. center' \in [Pools -> BOOLEAN]
    BY <1>2 DEF CreateCenter, GroupTypeOK
  <2> QED BY <1>0, <1>2, <2>1 DEF CreateCenter, GroupTypeOK
<1>3. ASSUME StartOthers(p) PROVE GroupTypeOK'
  BY <1>0, <1>3 DEF StartOthers, GroupTypeOK
<1>4. ASSUME NEW r \in Ranks(p), Register(p, r) PROVE GroupTypeOK'
  <2>1. <<p, r>> \in Workers
    BY DEF Workers
  <2>2. info' \in [Workers -> {0} \cup Nodes]
    BY <1>4, <2>1, NodeOfTyped DEF Register, GroupTypeOK
  <2> QED BY <1>0, <1>4, <2>1, <2>2 DEF Register, GroupTypeOK
<1>5. ASSUME NEW r \in Ranks(p), FailToStart(p, r) PROVE GroupTypeOK'
  <2>1. center[p] \in BOOLEAN
    BY DEF GroupTypeOK
  <2>2. (center[p] /\ r # 0) \in BOOLEAN
    OBVIOUS
  <2>3. center' \in [Pools -> BOOLEAN]
    BY <1>5, <2>2 DEF FailToStart, GroupTypeOK
  <2>4. deaths' \in 0 .. MaxDeaths
    BY <1>5, MaxDeathsAssumption DEF FailToStart, GroupTypeOK
  <2> QED BY <1>0, <1>5, <2>3, <2>4 DEF FailToStart, GroupTypeOK
<1>6. ASSUME NEW r \in Ranks(p), FindNoCenter(p, r) PROVE GroupTypeOK'
  BY <1>0, <1>6 DEF FindNoCenter, GroupTypeOK
<1> QED BY <1>1, <1>2, <1>3, <1>4, <1>5, <1>6

LEMMA ServersFrame ==
    ASSUME ServersTypeOK, job' = job, UNCHANGED serverVars
    PROVE  ServersTypeOK'
BY Rigid DEF ServersTypeOK, serverVars

(* The rank a server is placed by is one of its pool.                        *)
LEMMA FirstOfEngine ==
    ASSUME job \in Jobs, NEW d \in DpRanks
    PROVE  d * Tp \in Ranks(ActorPool) /\ d \in Nat
<1> DEFINE W == WorldSize(ActorPool)
<1>1. W \in Nat \ {0} /\ Tp \in Nat \ {0}
  BY JobFacts DEF Tp, ActorPool
<1> HIDE DEF W
<1>2. W \div Tp \in Nat /\ Tp * (W \div Tp) <= W
  <2>1. W \div Tp \in Nat /\ W = Tp * (W \div Tp) + (W % Tp) /\ (W % Tp) \in 0 .. Tp - 1
    BY <1>1
  <2> QED BY <2>1, <1>1, Z3
<1>3. d \in Nat /\ d < W \div Tp
  <2>1. d \in 0 .. (W \div Tp) - 1
    BY DEF DpRanks, DpSize, W
  <2> QED BY <2>1, <1>2
<1>4. ASSUME NEW q \in Nat, NEW t \in Nat \ {0}, NEW v \in Nat, d < q, t * q <= v
      PROVE  d * t \in Nat /\ d * t < v
  <2>1. d + 1 <= q
    BY <1>3, <1>4
  <2>2. (d + 1) * t <= q * t
    BY <2>1, <1>3, <1>4, Z3
  <2>3. (d + 1) * t = d * t + t /\ q * t = t * q /\ d * t \in Nat
    BY <1>3, <1>4, Z3
  <2>4. t * q \in Nat
    BY <1>4
  <2> QED BY <2>2, <2>3, <2>4, <1>4
<1>5. d * Tp \in Nat /\ d * Tp < W
  BY <1>1, <1>2, <1>3, <1>4
<1>6. d * Tp \in 0 .. W - 1
  BY <1>1, <1>5
<1> QED BY <1>3, <1>6 DEF Ranks, W

LEMMA ServerNodeTyped ==
    ASSUME PoolsTypeOK, GroupTypeOK, NEW d \in DpRanks
    PROVE  ServerNode(d) \in {0} \cup Nodes
<1>1. <<ActorPool, d * Tp>> \in Workers
  BY FirstOfEngine, JobFacts DEF PoolsTypeOK, Workers, ActorPool
<1> QED BY <1>1 DEF ServerNode, GroupTypeOK

LEMMA ServersAsk ==
    ASSUME PoolsTypeOK, GroupTypeOK, ServersTypeOK, job' = job, AskStep
    PROVE  ServersTypeOK'
<1>0. DpRanks' = DpRanks /\ Names' = Names
  BY Rigid
<1>1. CASE StartRound
  BY <1>0, <1>1 DEF StartRound, ServersTypeOK
<1>2. ASSUME NEW d \in DpRanks, RecordAddress(d) PROVE ServersTypeOK'
  <2>1. address' \in [DpRanks -> ({0} \cup Nodes) \X ({0} \cup Ports)]
    <3>1. <<ServerNode(d), port[d]>> \in ({0} \cup Nodes) \X ({0} \cup Ports)
      BY ServerNodeTyped DEF ServersTypeOK
    <3> QED BY <1>2, <3>1 DEF RecordAddress, ServersTypeOK
  <2> QED BY <1>0, <1>2, <2>1 DEF RecordAddress, ServersTypeOK
<1>3. ASSUME NEW d \in DpRanks, AskDead(d) PROVE ServersTypeOK'
  BY <1>0, <1>3 DEF AskDead, ServersTypeOK
<1> QED BY <1>1, <1>2, <1>3 DEF AskStep

LEMMA ServersStep ==
    ASSUME ServersTypeOK, job' = job, NEW d \in DpRanks,
           PickPort(d) \/ Bind(d) \/ InitEngine(d)
    PROVE  ServersTypeOK'
<1>0. DpRanks' = DpRanks /\ Names' = Names
  BY Rigid
<1>1. CASE PickPort(d)
  BY <1>0, <1>1 DEF PickPort, ServersTypeOK
<1>2. CASE Bind(d)
  BY <1>0, <1>2 DEF Bind, ServersTypeOK
<1>3. CASE InitEngine(d)
  <2>1. DrivenByVllm(d) \in SUBSET Names /\ DrivenBySglang(d) \in SUBSET Names
    BY DEF DrivenByVllm, DrivenBySglang
  <2>2. driven' \in [DpRanks -> SUBSET Names]
    BY <1>3, <2>1 DEF InitEngine, ServersTypeOK
  <2> QED BY <1>0, <1>3, <2>2 DEF InitEngine, ServersTypeOK
<1> QED BY <1>1, <1>2, <1>3

LEMMA InitType == Init => TypeOK
<1> SUFFICES ASSUME Init PROVE TypeOK
  OBVIOUS
<1> USE DEF Init
<1>1. job \in Jobs /\ gpus \in Clusters
  BY DEF PoolsInit
<1>2. gpus \in [Nodes -> Nat]
  BY <1>1, ClustersAssumption
<1>3. 1 \in Pools /\ job.width[1] \in Nat
  BY <1>1, JobFacts
<1>4. PoolsTypeOK
  BY <1>1, <1>2, <1>3 DEF PoolsInit, PoolsTypeOK
<1>5. GroupTypeOK
  <2>1. \A p \in Pools : order[p] \in [Groups(p) -> Groups(p)]
    BY DEF GroupInit
  <2>2. DOMAIN order = Pools
    BY DEF GroupInit
  <2>3. deaths \in 0 .. MaxDeaths
    BY MaxDeathsAssumption DEF GroupInit
  <2> QED BY <2>1, <2>2, <2>3 DEF GroupInit, GroupTypeOK
<1>6. ServersTypeOK
  BY DEF ServersInit, ServersTypeOK, NoAddress
<1> QED BY <1>3, <1>4, <1>5, <1>6 DEF TypeOK

LEMMA NextType ==
    ASSUME TypeOK, [Next]_vars
    PROVE  TypeOK' /\ job' = job
<1> USE DEF Only, GoTo
<1>0. PoolsTypeOK /\ GroupTypeOK /\ ServersTypeOK /\ at \in Pools /\ job \in Jobs
  BY DEF TypeOK, PoolsTypeOK
<1>1. CASE CheckPools
  <2>1. PoolsTypeOK' /\ job' = job /\ loc' = loc
    BY <1>0, <1>1, PoolsCheck DEF CheckPools
  <2>2. GroupTypeOK' /\ ServersTypeOK'
    BY <1>0, <1>1, <2>1, GroupFrame, ServersFrame DEF CheckPools
  <2>3. driver' \in {"check", "place", "failed"} /\ at' = at /\ scheduler' = scheduler
    BY <1>1 DEF CheckPools
  <2> QED BY <1>0, <2>1, <2>2, <2>3, Rigid DEF TypeOK
<1>2. CASE RayPlaces
  <2>1. PoolsTypeOK' /\ job' = job
    BY <1>0, <1>2, PoolsPlace DEF RayPlaces
  <2>2. GroupTypeOK' /\ ServersTypeOK'
    BY <1>0, <1>2, <2>1, GroupFrame, ServersFrame DEF RayPlaces
  <2> QED BY <1>0, <1>2, <2>1, <2>2, Rigid DEF TypeOK, RayPlaces
<1>3. ASSUME UNCHANGED poolVars PROVE PoolsTypeOK' /\ job' = job /\ loc' = loc
  BY <1>0, <1>3, PoolsFrame DEF poolVars
<1>4. CASE CreateRankZero
  <2>1. UNCHANGED poolVars /\ UNCHANGED serverVars /\ StartRankZero(at)
        /\ driver' = "center" /\ at' = at /\ scheduler' = scheduler
    BY <1>4 DEF CreateRankZero
  <2>2. GroupTypeOK' /\ ServersTypeOK'
    BY <1>0, <1>3, <2>1, GroupTypes, ServersFrame
  <2> QED BY <1>0, <1>3, <2>1, <2>2, Rigid DEF TypeOK
<1>5. CASE CreateOthers
  <2>1. UNCHANGED poolVars /\ UNCHANGED serverVars /\ StartOthers(at) /\ scheduler' = scheduler
    BY <1>5 DEF CreateOthers
  <2>2. GroupTypeOK' /\ ServersTypeOK'
    BY <1>0, <1>3, <2>1, GroupTypes, ServersFrame
  <2>3. at' \in Pools /\ driver' \in {"place", "models"}
    BY <1>0, <1>5, JobFacts DEF CreateOthers, Pools
  <2> QED BY <1>3, <2>1, <2>2, <2>3, Rigid DEF TypeOK
<1>6. ASSUME UNCHANGED <<poolVars, groupVars>>
      PROVE  PoolsTypeOK' /\ GroupTypeOK' /\ job' = job /\ Pools' = Pools
  BY <1>0, <1>3, <1>6, GroupFrame, Rigid
<1>7. ASSUME UNCHANGED <<poolVars, groupVars, serverVars>>
      PROVE  PoolsTypeOK' /\ GroupTypeOK' /\ ServersTypeOK' /\ job' = job /\ Pools' = Pools
  BY <1>0, <1>6, <1>7, ServersFrame
<1>8. CASE InitModel
  <2>1. at' \in Pools
    BY <1>0, <1>8, JobFacts DEF InitModel, Pools, ActorPool
  <2>2. driver' \in {"models", "servers", "failed"}
    BY <1>8 DEF InitModel
  <2> QED BY <1>7, <1>8, <2>1, <2>2 DEF TypeOK, InitModel
<1>9. CASE CenterTimeout \/ ModelRaises \/ EnginesReady \/ EngineRaises \/ SchedulerReady
  <2>1. UNCHANGED <<poolVars, groupVars, serverVars>> /\ at' = at
    BY <1>9 DEF CenterTimeout, ModelRaises, EnginesReady, EngineRaises, SchedulerReady
  <2>2. driver' \in {"failed", "scheduler", "up"}
    BY <1>9 DEF CenterTimeout, ModelRaises, EnginesReady, EngineRaises, SchedulerReady
  <2>3. scheduler' \in {"none", "ready", "broken"}
    BY <1>9 DEF CenterTimeout, ModelRaises, EnginesReady, EngineRaises, SchedulerReady, TypeOK
  <2> QED BY <1>0, <1>7, <2>1, <2>2, <2>3 DEF TypeOK
<1>10. CASE AskServers
  <2>1. ServersTypeOK'
    BY <1>0, <1>6, <1>10, ServersAsk DEF AskServers
  <2> QED BY <1>0, <1>6, <1>10, <2>1 DEF TypeOK, AskServers
<1>11. CASE WorkersRun
  <2>1. UNCHANGED <<poolVars, serverVars, driver, at, scheduler>> /\ WorkerStep
    BY <1>11 DEF WorkersRun
  <2>2. GroupTypeOK'
    BY <1>0, <1>3, <2>1, GroupTypes DEF WorkerStep
  <2> QED BY <1>0, <1>3, <2>1, <2>2, ServersFrame, Rigid DEF TypeOK
<1>12. CASE ServersRun
  <2>1. UNCHANGED <<poolVars, groupVars, driver, at, scheduler>>
        /\ \E d \in DpRanks : PickPort(d) \/ Bind(d) \/ InitEngine(d)
    BY <1>12 DEF ServersRun, ServerStep
  <2>2. ServersTypeOK'
    BY <1>0, <1>6, <2>1, ServersStep
  <2> QED BY <1>0, <1>6, <2>1, <2>2 DEF TypeOK
<1>13. CASE UNCHANGED vars
  BY <1>0, <1>7, <1>13 DEF TypeOK, vars
<1> QED BY <1>1, <1>2, <1>4, <1>5, <1>8, <1>9, <1>10, <1>11, <1>12, <1>13 DEF Next, DriverStep

(* Whatever the cluster, the pools and the ports: no count of GPUs goes      *)
(* below zero and all state keeps its shape.                                 *)
THEOREM TypeCorrect == Spec => []TypeOK
<1>1. Init => TypeOK
  BY InitType
<1>2. TypeOK /\ [Next]_vars => TypeOK'
  BY NextType
<1> QED BY <1>1, <1>2, PTL DEF Spec

------------------------------------------------------------------------------
(* The other parts of the invariant: what a step leaves alone.               *)

LEMMA OwnSets ==
    ASSUME job' = job
    PROVE  \A p : /\ Groups(p)' = Groups(p)
                  /\ Ranks(p)' = Ranks(p)
                  /\ WorldSize(p)' = WorldSize(p)
                  /\ \A r : GroupIndex(p, r)' = GroupIndex(p, r)
BY DEF Groups, Ranks, WorldSize, GroupIndex

(* A placed pool keeps its nodes.                                            *)
LEMMA PlacedStays ==
    ASSUME TypeOK, job' = job, NEW p \in Pools, Placed(p),
           \A g \in PlacementGroups : loc[g] # 0 => loc'[g] = loc[g]
    PROVE  Placed(p)' /\ \A i \in Groups(p) : loc'[<<p, i>>] = loc[<<p, i>>]
<1>1. ASSUME NEW i \in Groups(p) PROVE <<p, i>> \in PlacementGroups
  BY DEF PlacementGroups
<1> QED BY <1>1, OwnSets DEF Placed

(* Then its ranks do, as long as they are not sorted anew.                   *)
LEMMA NodeStays ==
    ASSUME TypeOK, job' = job, NEW p \in Pools, Placed(p), order'[p] = order[p],
           \A g \in PlacementGroups : loc[g] # 0 => loc'[g] = loc[g],
           NEW r \in Ranks(p)
    PROVE  NodeOf(p, r)' = NodeOf(p, r) /\ NodeOf(p, r) # 0
<1>1. order[p][GroupIndex(p, r) + 1] \in Groups(p)
  BY NodeOfTyped DEF TypeOK
<1>2. \A i \in Groups(p) : loc'[<<p, i>>] = loc[<<p, i>>] /\ loc[<<p, i>>] # 0
  BY PlacedStays DEF Placed
<1>3. GroupIndex(p, r)' = GroupIndex(p, r)
  BY OwnSets
<1> QED BY <1>1, <1>2, <1>3 DEF NodeOf

(* Steps by which no placement, worker or register center changes.           *)
LEMMA GroupsRest ==
    ASSUME TypeOK, job' = job, loc' = loc, UNCHANGED groupVars
    PROVE  /\ Created => Created'
           /\ Registered => Registered'
<1>1. \A p : Placed(p)' = Placed(p)
  BY OwnSets DEF Placed
<1>2. \A p, r : NodeOf(p, r)' = NodeOf(p, r)
  BY OwnSets DEF NodeOf, groupVars
<1> QED BY <1>1, <1>2, OwnSets, Rigid DEF Created, Registered, groupVars

LEMMA WhoIsWhere ==
    ASSUME job \in Jobs, NEW p \in Pools, NEW r \in Ranks(p)
    PROVE  <<p, r>> \in Workers /\ <<p, 0>> \in Workers /\ 0 \in Ranks(p)
<1>1. 0 \in Ranks(p)
  <2>1. WorldSize(p) \in Nat \ {0}
    BY JobFacts
  <2> QED BY <2>1 DEF Ranks
<1> QED BY <1>1 DEF Workers

LEMMA CreatedStep ==
    ASSUME TypeOK, Created, [Next]_vars
    PROVE  Created'
<1>0. job' = job /\ job \in Jobs /\ at \in Pools /\ Pools' = Pools
  BY NextType, Rigid DEF TypeOK, PoolsTypeOK
<1>1. ASSUME loc' = loc
      PROVE  \A p : Placed(p)' = Placed(p)
  BY <1>0, <1>1, OwnSets DEF Placed
<1>2. \A p \in Pools : \A r \in Ranks(p) :
          <<p, r>> \in Workers /\ <<p, 0>> \in Workers /\ 0 \in Ranks(p)
  BY <1>0, WhoIsWhere
<1>3. CASE RayPlaces
  <2>1. \A g \in PlacementGroups : loc[g] # 0 => loc'[g] = loc[g]
    BY <1>0, <1>3, PoolsPlace DEF RayPlaces, TypeOK
  <2>2. worker' = worker /\ center' = center
    BY <1>3 DEF RayPlaces, groupVars
  <2>3. \A p \in Pools : Placed(p) => Placed(p)'
    BY <1>0, <2>1, PlacedStays
  <2> QED BY <1>0, <2>2, <2>3, OwnSets DEF Created
<1>4. CASE CreateRankZero
  <2>1. loc' = loc /\ center' = center /\ Placed(at)
        /\ worker' = [worker EXCEPT ![<<at, 0>>] = "starting"]
    BY <1>4 DEF CreateRankZero, StartRankZero, poolVars
  <2>2. \A w \in Workers : w # <<at, 0>> => worker'[w] = worker[w]
    BY <2>1 DEF TypeOK, GroupTypeOK
  <2>3. worker'[<<at, 0>>] = "starting"
    BY <1>0, <2>1, JobFacts DEF TypeOK, GroupTypeOK
  <2>4. ASSUME NEW p \in Pools, NEW r \in Ranks(p), worker'[<<p, r>>] # "none"
        PROVE  Placed(p)' /\ worker'[<<p, 0>>] # "none"
    BY <1>1, <1>2, <2>1, <2>2, <2>3, <2>4 DEF Created
  <2>5. ASSUME NEW p \in Pools, center'[p]
        PROVE  Placed(p)' /\ worker'[<<p, 0>>] # "none"
    BY <1>0, <1>1, <2>1, <2>2, <2>3, <2>5, JobFacts DEF Created
  <2> QED BY <1>0, <2>4, <2>5, OwnSets DEF Created
<1>5. CASE CreateOthers
  <2>1. loc' = loc /\ center' = center /\ center[at]
        /\ worker' = [w \in Workers |->
                        IF w[1] = at /\ w[2] # 0 THEN "starting" ELSE worker[w]]
    BY <1>5 DEF CreateOthers, StartOthers, poolVars
  <2>2. ASSUME NEW p \in Pools PROVE worker'[<<p, 0>>] = worker[<<p, 0>>]
    BY <1>0, <2>1, JobFacts
  <2>3. ASSUME NEW p \in Pools, NEW r \in Ranks(p), worker'[<<p, r>>] # "none"
        PROVE  Placed(p)' /\ worker'[<<p, 0>>] # "none"
    <3>1. CASE p = at
      BY <1>1, <2>1, <2>2, <3>1 DEF Created
    <3>2. CASE p # at
      <4>1. worker'[<<p, r>>] = worker[<<p, r>>]
        BY <1>2, <2>1, <3>2
      <4> QED BY <4>1, <1>1, <2>1, <2>2, <2>3 DEF Created
    <3> QED BY <3>1, <3>2
  <2> QED BY <1>0, <1>1, <2>1, <2>2, <2>3, OwnSets DEF Created
<1>6. CASE WorkersRun
  <2>1. loc' = loc /\ WorkerStep
    BY <1>6 DEF WorkersRun, poolVars
  <2>2. \A w \in Workers : (worker[w] = "none") <=> (worker'[w] = "none")
    BY <2>1, <1>2 DEF WorkerStep, CreateCenter, Register, FailToStart, FindNoCenter, TypeOK, GroupTypeOK
  <2>3. ASSUME NEW p \in Pools, center'[p] PROVE center[p] \/ worker[<<p, 0>>] # "none"
    BY <2>1, <2>3 DEF WorkerStep, CreateCenter, Register, FailToStart, FindNoCenter, TypeOK, GroupTypeOK
  <2>4. ASSUME NEW p \in Pools PROVE 0 \in Ranks(p) /\ <<p, 0>> \in Workers
    BY <1>0, JobFacts DEF Ranks
  <2>5. ASSUME NEW p \in Pools, center'[p] PROVE Placed(p)' /\ worker'[<<p, 0>>] # "none"
    BY <1>1, <2>1, <2>2, <2>3, <2>4, <2>5 DEF Created
  <2>6. ASSUME NEW p \in Pools, NEW r \in Ranks(p), worker'[<<p, r>>] # "none"
        PROVE  Placed(p)' /\ worker'[<<p, 0>>] # "none"
    BY <1>1, <1>2, <2>1, <2>2, <2>6 DEF Created
  <2> QED BY <1>0, <2>5, <2>6, OwnSets DEF Created
<1>7. ASSUME UNCHANGED groupVars, loc' = loc PROVE Created'
  BY <1>0, <1>7, GroupsRest
<1>8. CASE CheckPools
  BY <1>7, <1>8, PoolsCheck DEF CheckPools, TypeOK
<1>9. CASE \/ CenterTimeout \/ InitModel \/ ModelRaises \/ AskServers \/ EnginesReady
           \/ EngineRaises \/ SchedulerReady \/ ServersRun \/ UNCHANGED vars
  BY <1>7, <1>9 DEF CenterTimeout, InitModel, ModelRaises, AskServers, EnginesReady,
       EngineRaises, SchedulerReady, ServersRun, vars, poolVars
<1> QED BY <1>3, <1>4, <1>5, <1>6, <1>8, <1>9 DEF Next, DriverStep

LEMMA RegisteredStep ==
    ASSUME TypeOK, Created, Registered, [Next]_vars
    PROVE  Registered'
<1>0. job' = job /\ job \in Jobs /\ at \in Pools /\ Pools' = Pools
  BY NextType, Rigid DEF TypeOK, PoolsTypeOK
<1>2. \A p \in Pools : \A r \in Ranks(p) :
          <<p, r>> \in Workers /\ <<p, 0>> \in Workers /\ 0 \in Ranks(p)
  BY <1>0, WhoIsWhere
(* It is enough that who is up was up, with the same entry, in an order that *)
(* was not touched, or has just registered.                                  *)
<1>3. ASSUME NEW p \in Pools, NEW r \in Ranks(p), worker[<<p, r>>] # "none",
             order'[p] = order[p],
             \A g \in PlacementGroups : loc[g] # 0 => loc'[g] = loc[g],
             \/ worker[<<p, r>>] = "up" /\ info'[<<p, r>>] = info[<<p, r>>]
             \/ info'[<<p, r>>] = NodeOf(p, r)
      PROVE  info'[<<p, r>>] # 0 /\ info'[<<p, r>>] = NodeOf(p, r)'
  <2>1. Placed(p)
    BY <1>3 DEF Created
  <2>2. NodeOf(p, r)' = NodeOf(p, r) /\ NodeOf(p, r) # 0
    BY <1>0, <1>3, <2>1, NodeStays
  <2> QED BY <1>3, <2>2 DEF Registered
<1>4. CASE RayPlaces
  <2>1. \A g \in PlacementGroups : loc[g] # 0 => loc'[g] = loc[g]
    BY <1>0, <1>4, PoolsPlace DEF RayPlaces, TypeOK
  <2>2. UNCHANGED groupVars
    BY <1>4 DEF RayPlaces
  <2>3. ASSUME NEW p \in Pools, NEW r \in Ranks(p), worker'[<<p, r>>] = "up"
        PROVE  info'[<<p, r>>] # 0 /\ info'[<<p, r>>] = NodeOf(p, r)'
    BY <1>3, <2>1, <2>2, <2>3 DEF groupVars
  <2> QED BY <1>0, <2>3, OwnSets DEF Registered
<1>5. CASE CreateRankZero
  <2>1. loc' = loc /\ info' = info /\ worker[<<at, 0>>] = "none"
        /\ worker' = [worker EXCEPT ![<<at, 0>>] = "starting"]
        /\ \A p \in Pools : p # at => order'[p] = order[p]
    BY <1>5 DEF CreateRankZero, StartRankZero, poolVars, TypeOK, GroupTypeOK
  <2>2. ASSUME NEW p \in Pools, NEW r \in Ranks(p), worker'[<<p, r>>] = "up"
        PROVE  info'[<<p, r>>] # 0 /\ info'[<<p, r>>] = NodeOf(p, r)'
    <3>1. worker[<<p, r>>] = "up"
      BY <1>2, <2>1, <2>2 DEF TypeOK, GroupTypeOK
    <3>2. worker[<<p, 0>>] # "none"
      BY <3>1 DEF Created
    <3>3. p # at
      BY <2>1, <3>2
    <3> QED BY <1>3, <2>1, <3>1, <3>3
  <2> QED BY <1>0, <2>2, OwnSets DEF Registered
<1>6. CASE CreateOthers
  <2>1. loc' = loc /\ info' = info /\ order' = order
        /\ worker' = [w \in Workers |->
                        IF w[1] = at /\ w[2] # 0 THEN "starting" ELSE worker[w]]
    BY <1>6 DEF CreateOthers, StartOthers, poolVars
  <2>2. ASSUME NEW p \in Pools, NEW r \in Ranks(p), worker'[<<p, r>>] = "up"
        PROVE  info'[<<p, r>>] # 0 /\ info'[<<p, r>>] = NodeOf(p, r)'
    <3>1. worker[<<p, r>>] = "up"
      BY <1>2, <2>1, <2>2
    <3> QED BY <1>3, <2>1, <3>1
  <2> QED BY <1>0, <2>2, OwnSets DEF Registered
<1>7. CASE WorkersRun
  <2>1. loc' = loc /\ order' = order /\ WorkerStep
    BY <1>7 DEF WorkersRun, poolVars, WorkerStep, CreateCenter, Register, FailToStart, FindNoCenter
  <2>2. ASSUME NEW p \in Pools, NEW r \in Ranks(p), worker'[<<p, r>>] = "up"
        PROVE  /\ worker[<<p, r>>] # "none"
               /\ \/ worker[<<p, r>>] = "up" /\ info'[<<p, r>>] = info[<<p, r>>]
                  \/ info'[<<p, r>>] = NodeOf(p, r)
    <3>1. PICK q \in Pools : \/ CreateCenter(q)
                             \/ \E k \in Ranks(q) :
                                  Register(q, k) \/ FailToStart(q, k) \/ FindNoCenter(q, k)
      BY <2>1 DEF WorkerStep
    <3>2. CASE CreateCenter(q)
      BY <2>2, <3>2 DEF CreateCenter
    <3>3. ASSUME NEW k \in Ranks(q), FailToStart(q, k) \/ FindNoCenter(q, k)
          PROVE  worker[<<p, r>>] = "up" /\ info' = info
      BY <1>2, <2>2, <3>3 DEF FailToStart, FindNoCenter, TypeOK, GroupTypeOK
    <3>4. ASSUME NEW k \in Ranks(q), Register(q, k), <<p, r>> = <<q, k>>
          PROVE  worker[<<p, r>>] = "starting" /\ info'[<<p, r>>] = NodeOf(p, r)
      BY <1>2, <3>4 DEF Register, TypeOK, GroupTypeOK
    <3>5. ASSUME NEW k \in Ranks(q), Register(q, k), <<p, r>> # <<q, k>>
          PROVE  worker[<<p, r>>] = "up" /\ info'[<<p, r>>] = info[<<p, r>>]
      BY <1>2, <2>2, <3>5 DEF Register, TypeOK, GroupTypeOK
    <3> QED BY <3>1, <3>2, <3>3, <3>4, <3>5
  <2>3. ASSUME NEW p \in Pools, NEW r \in Ranks(p), worker'[<<p, r>>] = "up"
        PROVE  info'[<<p, r>>] # 0 /\ info'[<<p, r>>] = NodeOf(p, r)'
    BY <1>3, <2>1, <2>2, <2>3
  <2> QED BY <1>0, <2>3, OwnSets DEF Registered
<1>8. ASSUME UNCHANGED groupVars, loc' = loc PROVE Registered'
  BY <1>0, <1>8, GroupsRest
<1>9. CASE CheckPools
  BY <1>8, <1>9, PoolsCheck DEF CheckPools, TypeOK
<1>10. CASE \/ CenterTimeout \/ InitModel \/ ModelRaises \/ AskServers \/ EnginesReady
            \/ EngineRaises \/ SchedulerReady \/ ServersRun \/ UNCHANGED vars
  BY <1>8, <1>10 DEF CenterTimeout, InitModel, ModelRaises, AskServers, EnginesReady,
       EngineRaises, SchedulerReady, ServersRun, vars, poolVars
<1> QED BY <1>4, <1>5, <1>6, <1>7, <1>9, <1>10 DEF Next, DriverStep

(* What servers know and do, together.                                       *)
Served == Known /\ OneListener /\ Driving

LEMMA SameEngines ==
    ASSUME job' = job
    PROVE  /\ DpRanks' = DpRanks
           /\ \A d : DrivenByVllm(d)' = DrivenByVllm(d) /\ DrivenBySglang(d)' = DrivenBySglang(d)
<1>1. DpRanks' = DpRanks
  BY Rigid
<1>2. \A w : PlaceAmongNames(w)' = PlaceAmongNames(w)
  BY DEF PlaceAmongNames
<1> QED BY <1>1, <1>2 DEF DrivenByVllm, DrivenBySglang, Names, DpSize, WorldSize, Tp

LEMMA ServedRests ==
    ASSUME TypeOK, Served, job' = job, UNCHANGED serverVars,
           \A d \in DpRanks : ServerNode(d)' = ServerNode(d)
    PROVE  Served'
<1>1. \A d \in DpRanks : Listening(d)' = Listening(d)
  BY DEF Listening, serverVars
<1> QED BY <1>1, SameEngines DEF Served, Known, OneListener, Driving, serverVars

(* Before the servers there is nothing to know.                              *)
LEMMA NotServedYet ==
    ASSUME job' = job, unready' = DpRanks, \A d \in DpRanks : server'[d] = "none"
    PROVE  Served'
BY SameEngines DEF Served, Known, OneListener, Driving, Listening

(* Once all ranks of the actor's pool are up, their entries are settled.     *)
LEMMA Settled ==
    ASSUME TypeOK, AllUp(ActorPool), WorkersRun
    PROVE  /\ \A d \in DpRanks : ServerNode(d)' = ServerNode(d)
           /\ AllUp(ActorPool)'
<1>1. job' = job /\ job \in Jobs /\ ActorPool \in Pools
  BY JobFacts DEF WorkersRun, poolVars, TypeOK, PoolsTypeOK, ActorPool
<1>2. \A r \in Ranks(ActorPool) : <<ActorPool, r>> \in Workers /\ worker[<<ActorPool, r>>] = "up"
  BY <1>1, WhoIsWhere DEF AllUp
<1>3. \A r \in Ranks(ActorPool) : /\ worker'[<<ActorPool, r>>] = "up"
                                  /\ info'[<<ActorPool, r>>] = info[<<ActorPool, r>>]
  <2>1. PICK q \in Pools : \/ CreateCenter(q)
                           \/ \E k \in Ranks(q) :
                                Register(q, k) \/ FailToStart(q, k) \/ FindNoCenter(q, k)
    BY DEF WorkersRun, WorkerStep
  <2>2. CASE CreateCenter(q)
    BY <1>2, <2>2 DEF CreateCenter
  <2>3. ASSUME NEW k \in Ranks(q), Register(q, k) \/ FailToStart(q, k) \/ FindNoCenter(q, k)
        PROVE  \A r \in Ranks(ActorPool) : /\ worker'[<<ActorPool, r>>] = "up"
                                           /\ info'[<<ActorPool, r>>] = info[<<ActorPool, r>>]
    <3>1. worker[<<q, k>>] = "starting"
      BY <2>3 DEF Register, FailToStart, FindNoCenter
    <3>2. \A r \in Ranks(ActorPool) : <<ActorPool, r>> # <<q, k>>
      BY <1>2, <3>1
    <3>3. \A w \in Workers : w # <<q, k>> => worker'[w] = worker[w] /\ info'[w] = info[w]
      BY <2>3 DEF Register, FailToStart, FindNoCenter, TypeOK, GroupTypeOK
    <3> QED BY <1>2, <3>2, <3>3
  <2> QED BY <2>1, <2>2, <2>3
<1>4. \A d \in DpRanks : d * Tp \in Ranks(ActorPool)
  BY <1>1, FirstOfEngine
<1>5. Tp' = Tp
  BY <1>1, Rigid
<1> QED BY <1>1, <1>3, <1>4, <1>5, OwnSets DEF ServerNode, AllUp, ActorPool

LEMMA AskKeeps ==
    ASSUME TypeOK, Served, AskStep, job' = job, info' = info
    PROVE  Served'
<1>0. /\ DpRanks' = DpRanks
      /\ \A d : ServerNode(d)' = ServerNode(d)
  BY Rigid DEF ServerNode
<1>1. CASE StartRound
  <2>1. \A d \in DpRanks : d \in unready \/ server'[d] = server[d]
    BY <1>1 DEF StartRound
  <2>2. \A d \in DpRanks : d \in unready => server'[d] = "starting"
    BY <1>1 DEF StartRound
  <2>3. UNCHANGED <<backend, port, address, unready, driven>>
    BY <1>1 DEF StartRound
  <2>4. Known'
    BY <1>0, <2>1, <2>3 DEF Served, Known
  <2>5. OneListener'
    BY <1>0, <2>1, <2>2, <2>3 DEF Served, OneListener, Listening
  <2>6. Driving'
    BY <1>0, <2>1, <2>2, <2>3, SameEngines DEF Served, Driving
  <2> QED BY <2>4, <2>5, <2>6 DEF Served
<1>2. ASSUME NEW d \in DpRanks, RecordAddress(d) PROVE Served'
  <2>1. UNCHANGED <<backend, server, port, driven>>
        /\ unready' = unready \ {d}
        /\ address'[d] = <<ServerNode(d), port[d]>>
        /\ (\A e \in DpRanks : e # d => address'[e] = address[e])
        /\ server[d] \in {"ready", "listening"}
    BY <1>2 DEF RecordAddress, TypeOK, ServersTypeOK
  <2>2. Known'
    BY <1>0, <2>1 DEF Served, Known
  <2>3. OneListener'
    BY <1>0, <2>1 DEF Served, OneListener, Listening
  <2>4. Driving'
    BY <1>0, <2>1, SameEngines DEF Served, Driving
  <2> QED BY <2>2, <2>3, <2>4 DEF Served
<1>3. ASSUME NEW d \in DpRanks, AskDead(d) PROVE Served'
  BY <1>0, <1>3, SameEngines DEF AskDead, Served, Known, OneListener, Listening, Driving
<1> QED BY <1>1, <1>2, <1>3 DEF AskStep

LEMMA ServerKeeps ==
    ASSUME TypeOK, Served, job' = job, info' = info, NEW d \in DpRanks,
           PickPort(d) \/ Bind(d) \/ InitEngine(d)
    PROVE  /\ Served'
           /\ unready' = unready
           /\ server[d] \in {"starting", "ready", "listening"}
           /\ \A e \in DpRanks : e # d => server'[e] = server[e]
<1>0. /\ DpRanks' = DpRanks
      /\ \A e : ServerNode(e)' = ServerNode(e)
  BY Rigid DEF ServerNode
<1>1. CASE PickPort(d)
  <2>1. /\ server[d] = "starting" /\ server'[d] = "ready"
        /\ \A e \in DpRanks : e # d => server'[e] = server[e] /\ port'[e] = port[e]
        /\ UNCHANGED <<backend, address, unready, driven>>
    BY <1>1 DEF PickPort, TypeOK, ServersTypeOK
  <2>2. Known'
    BY <1>0, <2>1 DEF Served, Known
  <2>3. OneListener'
    BY <1>0, <2>1 DEF Served, OneListener, Listening
  <2>4. Driving'
    BY <1>0, <2>1, SameEngines DEF Served, Driving
  <2> QED BY <2>1, <2>2, <2>3, <2>4 DEF Served
<1>2. CASE Bind(d)
  <2>1. /\ server[d] = "ready" /\ server'[d] \in {"dead", "listening"}
        /\ \A e \in DpRanks : e # d => server'[e] = server[e]
        /\ UNCHANGED <<backend, port, address, unready, driven>>
    BY <1>2 DEF Bind, TypeOK, ServersTypeOK
  <2>2. Known'
    BY <1>0, <2>1 DEF Served, Known
  <2>3. server'[d] = "listening" => port[d] \notin Taken(ServerNode(d))
    BY <1>2 DEF Bind, TypeOK, ServersTypeOK
  <2>4. ASSUME NEW e \in DpRanks, e # d, Listening(e), server'[d] = "listening"
        PROVE  ServerNode(d) # ServerNode(e) \/ port[d] # port[e]
    BY <2>3, <2>4 DEF Taken
  <2>5. OneListener'
    BY <1>0, <2>1, <2>4 DEF Served, OneListener, Listening
  <2>6. Driving'
    BY <1>0, <2>1, SameEngines DEF Served, Driving
  <2> QED BY <2>1, <2>2, <2>5, <2>6 DEF Served
<1>3. CASE InitEngine(d)
  <2>1. /\ server[d] = "listening" /\ server'[d] = "serving"
        /\ \A e \in DpRanks : e # d => server'[e] = server[e] /\ driven'[e] = driven[e]
        /\ UNCHANGED <<backend, port, address, unready>>
        /\ driven'[d] = IF backend = "vllm" THEN DrivenByVllm(d) ELSE DrivenBySglang(d)
    BY <1>3 DEF InitEngine, TypeOK, ServersTypeOK
  <2>2. Known'
    BY <1>0, <2>1 DEF Served, Known
  <2>3. \A e \in DpRanks : Listening(e)' <=> Listening(e)
    BY <2>1 DEF Listening
  <2>4. OneListener'
    BY <1>0, <2>1, <2>3 DEF Served, OneListener
  <2>5. Driving'
    BY <1>0, <2>1, SameEngines DEF Served, Driving
  <2> QED BY <2>1, <2>2, <2>4, <2>5 DEF Served
<1> QED BY <1>1, <1>2, <1>3

LEMMA ServedStep ==
    ASSUME TypeOK, Served, Phased, [Next]_vars
    PROVE  Served' /\ Phased'
<1> USE DEF Only, GoTo
<1>0. job' = job /\ job \in Jobs /\ at \in Pools /\ DpRanks' = DpRanks /\ Tp' = Tp
      /\ WorldSize(ActorPool)' = WorldSize(ActorPool)
      /\ Ranks(ActorPool)' = Ranks(ActorPool)
  BY NextType, Rigid, OwnSets DEF TypeOK, PoolsTypeOK, ActorPool
<1> DEFINE Early == {"check", "place", "center", "models"}
(* Steps before there is a server.                                           *)
<1>1. ASSUME driver \in Early, UNCHANGED serverVars,
             driver' \in Early \cup {"failed", "servers"},
             driver' = "servers" => AllUp(ActorPool)' /\ WorldSize(ActorPool) % Tp = 0
      PROVE  Served' /\ Phased'
  <2>1. unready' = DpRanks /\ \A d \in DpRanks : server'[d] = "none"
    BY <1>1 DEF Phased, serverVars
  <2>2. Served'
    BY <1>0, <2>1, NotServedYet
  <2>3. Phased'
    BY <1>0, <1>1, <2>1 DEF Phased, Serving, ActorPool
  <2> QED BY <2>2, <2>3
<1>2. CASE CheckPools
  <2>1. driver' \in {"check", "place", "failed"} /\ UNCHANGED serverVars /\ driver = "check"
    BY <1>2 DEF CheckPools
  <2> QED BY <1>1, <2>1
<1>3. CASE RayPlaces \/ CreateRankZero \/ CreateOthers \/ CenterTimeout
  <2>1. /\ UNCHANGED serverVars
        /\ driver \in {"place", "center"}
        /\ driver' \in {"place", "center", "models", "failed"}
    BY <1>3 DEF RayPlaces, CreateRankZero, CreateOthers, CenterTimeout
  <2> QED BY <1>1, <2>1
<1>4. CASE InitModel
  <2>1. UNCHANGED serverVars /\ driver = "models" /\ worker' = worker
    BY <1>4 DEF InitModel, groupVars
  <2>2. driver' \in {"models", "servers", "failed"}
    BY <1>4 DEF InitModel
  <2>3. driver' = "servers" => AllUp(ActorPool) /\ WorldSize(ActorPool) % Tp = 0
    BY <1>4 DEF InitModel
  <2>4. AllUp(ActorPool)' = AllUp(ActorPool)
    BY <1>0, <2>1 DEF AllUp, ActorPool
  <2> QED BY <1>1, <2>1, <2>2, <2>3, <2>4
<1>5. CASE ModelRaises
  BY <1>1, <1>5 DEF ModelRaises
<1>6. ASSUME UNCHANGED <<poolVars, groupVars>>
      PROVE  /\ \A d \in DpRanks : ServerNode(d)' = ServerNode(d)
             /\ AllUp(ActorPool)' = AllUp(ActorPool)
             /\ info' = info
  BY <1>0, <1>6 DEF ServerNode, AllUp, groupVars, ActorPool
<1>7. CASE AskServers
  <2>1. UNCHANGED <<poolVars, groupVars>> /\ AskStep /\ driver = "servers"
        /\ driver' \in {"servers", "engines"} /\ (driver' = "engines" => unready' = {})
    BY <1>7 DEF AskServers
  <2>2. Served'
    BY <1>0, <1>6, <2>1, AskKeeps
  <2>3. Phased'
    BY <1>0, <1>6, <2>1 DEF Phased, Serving, ActorPool
  <2> QED BY <2>2, <2>3
<1>8. CASE EnginesReady \/ EngineRaises \/ SchedulerReady
  <2>1. UNCHANGED <<poolVars, groupVars, serverVars>>
        /\ driver \in {"engines", "scheduler"}
        /\ driver' \in {"scheduler", "failed", "up"}
    BY <1>8 DEF EnginesReady, EngineRaises, SchedulerReady
  <2>2. driver' # "failed" => \A d \in DpRanks : server[d] = "serving"
    BY <1>8 DEF EnginesReady, EngineRaises, SchedulerReady, Phased
  <2>3. Served'
    BY <1>0, <1>6, <2>1, ServedRests
  <2>4. Phased'
    BY <1>0, <1>6, <2>1, <2>2 DEF Phased, Serving, serverVars, ActorPool
  <2> QED BY <2>3, <2>4
<1>9. CASE WorkersRun
  <2>1. UNCHANGED serverVars /\ driver' = driver /\ driver \notin {"up", "failed"}
    BY <1>9 DEF WorkersRun, Running
  <2>2. CASE driver \in Early
    BY <1>1, <2>1, <2>2
  <2>3. CASE driver \in Serving
    <3>1. AllUp(ActorPool)
      BY <2>3 DEF Phased
    <3>2. (\A d \in DpRanks : ServerNode(d)' = ServerNode(d)) /\ AllUp(ActorPool)'
      BY <1>9, <3>1, Settled
    <3>3. Served'
      BY <1>0, <2>1, <3>2, ServedRests
    <3>4. Phased'
      BY <1>0, <2>1, <2>3, <3>2 DEF Phased, Serving, serverVars, ActorPool
    <3> QED BY <3>3, <3>4
  <2> QED BY <2>1, <2>2, <2>3 DEF TypeOK, Serving
<1>10. CASE ServersRun
  <2>1. /\ UNCHANGED <<poolVars, groupVars, driver>> /\ driver \notin {"up", "failed"}
        /\ \E d \in DpRanks : PickPort(d) \/ Bind(d) \/ InitEngine(d)
    BY <1>10 DEF ServersRun, ServerStep, Running
  <2>2. PICK d \in DpRanks : PickPort(d) \/ Bind(d) \/ InitEngine(d)
    BY <2>1
  <2>3. Served' /\ unready' = unready /\ server[d] \in {"starting", "ready", "listening"}
        /\ \A e \in DpRanks : e # d => server'[e] = server[e]
    BY <1>0, <1>6, <2>1, <2>2, ServerKeeps
  <2>4. driver \in {"servers", "engines"}
    BY <2>1, <2>3 DEF Phased, TypeOK
  <2>5. Phased'
    BY <1>0, <1>6, <2>1, <2>3, <2>4 DEF Phased, Serving, ActorPool
  <2> QED BY <2>3, <2>5
<1>11. CASE UNCHANGED vars
  <2>1. UNCHANGED <<poolVars, groupVars, serverVars>> /\ driver' = driver
    BY <1>11 DEF vars
  <2>2. Served'
    BY <1>0, <1>6, <2>1, ServedRests
  <2>3. Phased'
    BY <1>0, <1>6, <2>1 DEF Phased, Serving, serverVars, ActorPool
  <2> QED BY <2>2, <2>3
<1> QED BY <1>2, <1>3, <1>4, <1>5, <1>7, <1>8, <1>9, <1>10, <1>11 DEF Next, DriverStep

LEMMA InitRest == Init => Created /\ Registered /\ Phased /\ Served
<1> SUFFICES ASSUME Init PROVE Created /\ Registered /\ Phased /\ Served
  OBVIOUS
<1>1. \A p \in Pools : \A r \in Ranks(p) : worker[<<p, r>>] = "none"
  BY DEF Init, GroupInit, Workers
<1>2. \A p \in Pools : center[p] = FALSE
  BY DEF Init, GroupInit
<1>3. Created /\ Registered
  BY <1>1, <1>2 DEF Created, Registered
<1>4. unready = DpRanks /\ (\A d \in DpRanks : server[d] = "none") /\ driver = "check"
  BY DEF Init, ServersInit
<1> QED BY <1>3, <1>4 DEF Phased, Serving, Served, Known, OneListener, Listening, Driving

LEMMA Invariance == Spec => []Inv
<1>1. Init => Inv
  BY InitType, InitRest DEF Inv, Served
<1>2. Inv /\ [Next]_vars => Inv'
  BY NextType, CreatedStep, RegisteredStep, ServedStep DEF Inv, Served
<1> QED BY <1>1, <1>2, PTL DEF Spec

(* Whatever the ports the servers pick and the order in which they bind      *)
(* them: the driver is through only with a server, and a port of its own,    *)
(* behind every address.                                                     *)
THEOREM UpIsServed == Spec => []UpMeansServed
<1>1. Inv => UpMeansServed
  <2> SUFFICES ASSUME Inv, driver \in {"scheduler", "up"}
               PROVE  /\ \A d \in DpRanks : /\ server[d] = "serving"
                                            /\ address[d] = <<ServerNode(d), port[d]>>
                      /\ \A d, e \in DpRanks : address[d] = address[e] => d = e
    BY DEF UpMeansServed
  <2>1. \A d \in DpRanks : server[d] = "serving" /\ address[d] = <<ServerNode(d), port[d]>>
    BY DEF Inv, Phased, Known
  <2>2. ASSUME NEW d \in DpRanks, NEW e \in DpRanks, address[d] = address[e] PROVE d = e
    <3>1. ServerNode(d) = ServerNode(e) /\ port[d] = port[e]
      BY <2>1, <2>2
    <3>2. Listening(d) /\ Listening(e)
      BY <2>1 DEF Listening
    <3> QED BY <3>1, <3>2 DEF Inv, OneListener
  <2> QED BY <2>1, <2>2
<1> QED BY <1>1, Invariance, PTL

------------------------------------------------------------------------------
(* Names, ranks and engines.                                                 *)

LEMMA DivRest ==
    ASSUME NEW r \in Nat, NEW t \in Nat \ {0}
    PROVE  r \div t \in Nat /\ r = t * (r \div t) + (r % t) /\ (r % t) \in 0 .. t - 1
OBVIOUS

LEMMA DivBounds ==
    ASSUME NEW r \in Nat, NEW t \in Nat \ {0}, NEW d \in Nat
    PROVE  (r \div t = d) <=> (d * t <= r /\ r < (d + 1) * t)
<1>1. r \div t \in Nat /\ r = t * (r \div t) + (r % t) /\ (r % t) \in 0 .. t - 1
  OBVIOUS
<1> DEFINE q == r \div t
<1>2. q \in Nat /\ t * q <= r /\ r < t * q + t
  BY <1>1
<1> HIDE DEF q
<1>3. t * q = q * t /\ (q + 1) * t = q * t + t /\ (d + 1) * t = d * t + t
      /\ d * t \in Nat /\ q * t \in Nat
  BY <1>2, Z3
<1>4. ASSUME q = d PROVE d * t <= r /\ r < (d + 1) * t
  BY <1>2, <1>3, <1>4
<1>5. ASSUME d * t <= r, r < (d + 1) * t, q # d PROVE FALSE
  <2>1. CASE q < d
    <3>1. (q + 1) * t <= d * t
      BY <1>2, <2>1, Z3
    <3> QED BY <1>2, <1>3, <1>5, <3>1
  <2>2. CASE d < q
    <3>1. (d + 1) * t <= q * t
      BY <1>2, <2>2, Z3
    <3> QED BY <1>2, <1>3, <1>5, <3>1
  <2> QED BY <1>2, <1>5, <2>1, <2>2
<1> QED BY <1>4, <1>5 DEF q

LEMMA DivMod ==
    ASSUME NEW q \in Nat, NEW b \in Nat \ {0}, NEW s \in 0 .. b - 1
    PROVE  (q * b + s) \div b = q /\ ((q * b + s) % b) = s /\ q * b + s \in Nat
<1>1. q * b \in Nat /\ (q + 1) * b = q * b + b
  BY Z3
<1>2. q * b + s \in Nat /\ q * b <= q * b + s /\ q * b + s < (q + 1) * b
  BY <1>1
<1>3. (q * b + s) \div b = q
  BY <1>2, DivBounds
<1>4. ASSUME NEW r \in Nat, r \div b = q PROVE r = b * q + (r % b)
  <2>1. r = b * (r \div b) + (r % b)
    BY DivRest
  <2> QED BY <1>4, <2>1
<1>5. b * q = q * b
  BY Z3
<1>6. (q * b + s) = q * b + ((q * b + s) % b) /\ ((q * b + s) % b) \in 0 .. b - 1
  BY <1>2, <1>3, <1>4, <1>5, DivRest
<1> QED BY <1>1, <1>2, <1>3, <1>6

(* A rank and its name say the same.                                         *)
LEMMA NameIsRank ==
    ASSUME job \in Jobs
    PROVE  /\ \A r \in Ranks(ActorPool) : /\ NameOf(r) \in Names
                                          /\ PlaceAmongNames(NameOf(r)) = r
           /\ \A n \in Names : /\ PlaceAmongNames(n) \in Ranks(ActorPool)
                               /\ NameOf(PlaceAmongNames(n)) = n
<1> DEFINE b == job.bundle[ActorPool]
<1> DEFINE w == job.width[ActorPool]
<1>1. b \in Nat \ {0} /\ w \in Nat \ {0} /\ ActorPool \in Pools
  BY JobFacts DEF ActorPool
<1>2. Ranks(ActorPool) = 0 .. b * w - 1 /\ Groups(ActorPool) = 1 .. w
      /\ Names = (0 .. w - 1) \X (0 .. b - 1)
  BY DEF Ranks, WorldSize, Groups, Names
<1>3. b * w \in Nat /\ b * w = w * b
  BY <1>1, Z3
<1>4. ASSUME NEW r \in Ranks(ActorPool)
      PROVE  NameOf(r) \in Names /\ PlaceAmongNames(NameOf(r)) = r
  <2>1. r \in Nat
    BY <1>2, <1>3
  <2>2. r \div b \in Nat /\ r = b * (r \div b) + (r % b) /\ (r % b) \in 0 .. b - 1
    BY <1>1, <2>1, DivRest
  <2>3. (r \div b) + 1 \in 1 .. w
    BY <1>1, <1>2, IndexInGroups DEF GroupIndex
  <2>4. NameOf(r) = <<r \div b, r % b>>
    BY DEF NameOf, GroupIndex, LocalRank
  <2>5. r \div b \in 0 .. w - 1
    BY <1>1, <2>2, <2>3
  <2>6. NameOf(r) \in Names
    BY <1>2, <2>2, <2>4, <2>5
  <2>7. PlaceAmongNames(NameOf(r)) = (r \div b) * b + (r % b)
    BY <2>4 DEF PlaceAmongNames
  <2>8. b * (r \div b) = (r \div b) * b
    BY <1>1, <2>2, Z3
  <2> QED BY <2>2, <2>6, <2>7, <2>8
<1>5. ASSUME NEW n \in Names
      PROVE  PlaceAmongNames(n) \in Ranks(ActorPool) /\ NameOf(PlaceAmongNames(n)) = n
  <2>1. n = <<n[1], n[2]>> /\ n[1] \in 0 .. w - 1 /\ n[2] \in 0 .. b - 1
    BY <1>2
  <2>2. n[1] \in Nat /\ n[1] + 1 <= w
    BY <1>1, <2>1
  <2>3. (n[1] * b + n[2]) \div b = n[1] /\ ((n[1] * b + n[2]) % b) = n[2] /\ n[1] * b + n[2] \in Nat
    BY <1>1, <2>1, <2>2, DivMod
  <2>4. (n[1] + 1) * b <= w * b /\ (n[1] + 1) * b = n[1] * b + b
    <3>1. ASSUME NEW x \in Nat, NEW y \in Nat, NEW z \in Nat, x + 1 <= y
          PROVE  (x + 1) * z <= y * z /\ (x + 1) * z = x * z + z
      BY <3>1, Z3
    <3> QED BY <1>1, <2>2, <3>1
  <2>5. n[1] * b \in Nat
    BY <1>1, <2>2
  <2>6. n[1] * b + n[2] < b * w
    BY <1>1, <1>3, <2>1, <2>4, <2>5
  <2>7. PlaceAmongNames(n) = n[1] * b + n[2]
    BY DEF PlaceAmongNames
  <2>8. PlaceAmongNames(n) \in Ranks(ActorPool)
    BY <1>2, <1>3, <2>3, <2>6, <2>7
  <2> QED BY <2>1, <2>3, <2>7, <2>8 DEF NameOf, GroupIndex, LocalRank
<1> QED BY <1>4, <1>5

LEMMA EnginesDrive ==
    ASSUME job \in Jobs, NEW d \in DpRanks
    PROVE  /\ DrivenByVllm(d) = {NameOf(r) : r \in OwnRanks(d)}
           /\ Tp = 1 /\ job.width[ActorPool] = 1 =>
                 DrivenBySglang(d) = {NameOf(r) : r \in OwnRanks(d)}
<1>1. Tp \in Nat \ {0} /\ d \in Nat /\ ActorPool \in Pools
      /\ job.bundle[ActorPool] \in Nat \ {0} /\ WorldSize(ActorPool) \in Nat
      /\ DpSize \in Nat
  BY JobFacts, FirstOfEngine DEF Tp, ActorPool
<1>2. \A r \in Ranks(ActorPool) :
          (r \div Tp = d) <=> (d * Tp <= r /\ r < (d + 1) * Tp)
  <2>1. Ranks(ActorPool) \subseteq Nat
    BY <1>1 DEF Ranks
  <2> QED BY <1>1, <2>1, DivBounds
<1>3. {NameOf(r) : r \in OwnRanks(d)} = {n \in Names : PlaceAmongNames(n) \div Tp = d}
  BY NameIsRank DEF OwnRanks
<1>4. DrivenByVllm(d) = {n \in Names : PlaceAmongNames(n) \div Tp = d}
  BY <1>2, NameIsRank DEF DrivenByVllm
<1>5. ASSUME Tp = 1, job.width[ActorPool] = 1
      PROVE  DrivenBySglang(d) = {n \in Names : PlaceAmongNames(n) \div Tp = d}
  <2>1. ASSUME NEW n \in Names
        PROVE  DpSize * n[1] + n[2] = n[2] /\ PlaceAmongNames(n) \div Tp = n[2]
    <3>1. n[1] = 0 /\ n[2] \in Nat
      BY <1>1, <1>5, JobFacts DEF Names
    <3>2. DpSize * 0 = 0 /\ 0 * job.bundle[ActorPool] = 0
      BY <1>1
    <3>3. PlaceAmongNames(n) = n[2]
      BY <3>1, <3>2 DEF PlaceAmongNames
    <3> QED BY <1>5, <3>1, <3>2, <3>3
  <2> QED BY <2>1 DEF DrivenBySglang
<1> QED BY <1>3, <1>4, <1>5

(* Where the group size divides the workers of a node, an engine's workers   *)
(* are in one placement group.                                               *)
LEMMA OneGroupPerEngine ==
    ASSUME NEW b \in Nat \ {0}, NEW t \in Nat \ {0}, NEW d \in Nat, NEW r \in Nat,
           (b % t) = 0, r \div t = d
    PROVE  r \div b = (d * t) \div b
<1> DEFINE k == b \div t
<1> DEFINE g == r \div b
<1>1. k \in Nat /\ b = t * k
  BY Z3
<1>2. g \in Nat
  OBVIOUS
<1>3. d * t <= r /\ r < (d + 1) * t /\ d * t \in Nat
  BY DivBounds
<1>4. g * b <= r /\ r < (g + 1) * b
  BY <1>2, DivBounds
<1> HIDE DEF k, g
<1>5. g * k \in Nat /\ g * b = (g * k) * t
  BY <1>1, <1>2, Z3
<1>6. g * k <= d
  <2>1. ASSUME d + 1 <= g * k PROVE FALSE
    <3>1. (d + 1) * t <= (g * k) * t
      BY <1>5, <2>1, Z3
    <3>2. (d + 1) * t \in Nat /\ (g * k) * t \in Nat
      BY <1>5
    <3> QED BY <1>3, <1>4, <1>5, <3>1, <3>2
  <2> QED BY <1>5, <2>1
<1>7. (g * k) * t <= d * t
  BY <1>5, <1>6, Z3
<1>8. g * b \in Nat /\ (g + 1) * b \in Nat
  BY <1>2
<1>9. g * b <= d * t /\ d * t < (g + 1) * b
  BY <1>3, <1>4, <1>5, <1>7, <1>8
<1>10. PICK a \in Nat : a = d * t
  BY <1>3
<1>11. a \div b = g
  <2>1. (a \div b = g) <=> (g * b <= a /\ a < (g + 1) * b)
    BY <1>2, DivBounds
  <2> QED BY <1>9, <1>10, <2>1
<1> QED BY <1>10, <1>11 DEF g

(* No worker belongs to two engines.                                         *)
LEMMA EnginesApart ==
    ASSUME job \in Jobs, NEW d \in DpRanks, NEW e \in DpRanks, d # e
    PROVE  /\ DrivenByVllm(d) \cap DrivenByVllm(e) = {}
           /\ DrivenBySglang(d) \cap DrivenBySglang(e) = {}
<1>1. Tp \in Nat \ {0} /\ d \in Nat /\ e \in Nat /\ WorldSize(ActorPool) \in Nat
  BY JobFacts, FirstOfEngine DEF Tp, ActorPool
<1>2. ASSUME NEW n \in DrivenByVllm(d) \cap DrivenByVllm(e) PROVE FALSE
  <2>1. PlaceAmongNames(n) \in Nat
    BY <1>1, NameIsRank DEF DrivenByVllm, Ranks
  <2>2. PlaceAmongNames(n) \div Tp = d /\ PlaceAmongNames(n) \div Tp = e
    BY <1>1, <2>1, DivBounds DEF DrivenByVllm
  <2> QED BY <2>2
<1>3. DrivenBySglang(d) \cap DrivenBySglang(e) = {}
  BY DEF DrivenBySglang
<1> QED BY <1>2, <1>3

(* For every number of nodes, pools, workers and engines: no rank is missing *)
(* when the manager looks, no worker is driven by two engines, and every     *)
(* engine of vLLM (of SGLang only where engines are of one worker and the    *)
(* pool is one group) drives its own workers, on its own node.               *)
THEOREM EnginesAreRight == Spec => []EnginesRight
<1>1. Inv => EnginesRight
  <2> SUFFICES ASSUME Inv PROVE EnginesRight
    OBVIOUS
  <2>0. job \in Jobs /\ ActorPool \in Pools
    BY JobFacts DEF Inv, TypeOK, PoolsTypeOK, ActorPool
  <2>1. ASSUME AllUp(ActorPool), NEW r \in Ranks(ActorPool)
        PROVE  info[<<ActorPool, r>>] # 0 /\ info[<<ActorPool, r>>] = NodeOf(ActorPool, r)
    BY <2>0, <2>1 DEF Inv, Registered, AllUp
  <2>2. RanksRegistered
    BY <2>1 DEF RanksRegistered, Inv, Phased, Serving
  <2>3. ASSUME NamesAreRanks, NEW d \in DpRanks, server[d] = "serving"
        PROVE  driven[d] = {NameOf(r) : r \in OwnRanks(d)}
    <3>1. driven[d] = IF backend = "vllm" THEN DrivenByVllm(d) ELSE DrivenBySglang(d)
      BY <2>3 DEF Inv, Driving
    <3> QED BY <2>0, <2>3, <3>1, EnginesDrive DEF NamesAreRanks
  <2>4. ASSUME NEW d \in DpRanks, server[d] = "serving",
               (job.bundle[ActorPool] % Tp) = 0, NEW r \in OwnRanks(d)
        PROVE  NodeOf(ActorPool, r) = ServerNode(d)
    <3>1. AllUp(ActorPool)
      BY <2>4 DEF Inv, Phased
    <3>2. d * Tp \in Ranks(ActorPool) /\ d \in Nat
      BY <2>0, FirstOfEngine
    <3>3. ServerNode(d) = NodeOf(ActorPool, d * Tp)
      BY <2>1, <3>1, <3>2 DEF ServerNode
    <3>4. r \in Nat /\ r \div Tp = d /\ Tp \in Nat \ {0} /\ job.bundle[ActorPool] \in Nat \ {0}
      <4>1. WorldSize(ActorPool) \in Nat /\ job.tp \in Nat \ {0} /\ job.bundle[ActorPool] \in Nat \ {0}
        BY <2>0, JobFacts
      <4>2. r \in Ranks(ActorPool) /\ r \div Tp = d
        BY DEF OwnRanks
      <4>3. r \in Nat
        BY <4>1, <4>2 DEF Ranks
      <4> QED BY <4>1, <4>2, <4>3 DEF Tp
    <3>5. GroupIndex(ActorPool, r) = GroupIndex(ActorPool, d * Tp)
      BY <2>4, <3>2, <3>4, OneGroupPerEngine DEF GroupIndex
    <3> QED BY <3>3, <3>5 DEF NodeOf
  <2>5. ASSUME NEW d \in DpRanks, NEW e \in DpRanks,
               server[d] = "serving", server[e] = "serving", d # e
        PROVE  driven[d] \cap driven[e] = {}
    <3>1. \A k \in {d, e} :
            driven[k] = IF backend = "vllm" THEN DrivenByVllm(k) ELSE DrivenBySglang(k)
      BY <2>5 DEF Inv, Driving
    <3> QED BY <2>0, <2>5, <3>1, EnginesApart
  <2> QED BY <2>2, <2>3, <2>4, <2>5 DEF EnginesRight, EnginesDriveTheirRanks
<1> QED BY <1>1, Invariance, PTL

------------------------------------------------------------------------------
(* What the check accepts.                                                   *)

(* The nodes the walk has booked for each pool: all of a pool it is through  *)
(* with, none of one it has still to come to, and of the pool it looks at    *)
(* only nodes it has passed.                                                 *)
NodesBooked(on) ==
    /\ on \in [Pools -> SUBSET Nodes]
    /\ \A p \in Pools : p < pool => Cardinality(on[p]) = job.width[p]
    /\ \A p \in Pools : p > pool => on[p] = {}
    /\ Cardinality(on[pool]) + left = job.width[pool]
    /\ IF verdict = "accepted"
       THEN left = 0 /\ pool = Len(job.bundle)
       ELSE left > 0 /\ \A n \in on[pool] : n < node

(* The GPUs it has booked there: those from first[p][n] on.  They are taken  *)
(* from the node's end, so that what avail still counts lies below them.     *)
GpusBooked(on, first) ==
    /\ first \in [Pools -> [Nodes -> Nat]]
    /\ \A n \in Nodes : avail[n] <= gpus[n]
    /\ \A p \in Pools : \A n \in on[p] :
          avail[n] <= first[p][n] /\ first[p][n] + job.bundle[p] <= gpus[n]
    /\ \A p, q \in Pools : p # q =>
          \A n \in on[p] \cap on[q] :
             \/ first[p][n] + job.bundle[p] <= first[q][n]
             \/ first[q][n] + job.bundle[q] <= first[p][n]

Booking ==
    verdict # "refused" =>
        \E on, first : NodesBooked(on) /\ GpusBooked(on, first)

LEMMA BookingStarts == Init => Booking
<1> SUFFICES ASSUME Init PROVE Booking
  OBVIOUS
<1> DEFINE on == [p \in Pools |-> {}]
<1> DEFINE first == [p \in Pools |-> [n \in Nodes |-> 0]]
<1>0. job \in Jobs /\ gpus \in [Nodes -> Nat] /\ avail = gpus /\ pool = 1
      /\ left = job.width[1] /\ verdict = "unchecked"
  BY ClustersAssumption DEF Init, PoolsInit
<1>1. NodesBooked(on)
  <2>1. Cardinality({}) = 0
    BY FS_EmptySet
  <2>2. 1 \in Pools /\ job.width[1] \in Nat \ {0} /\ \A p \in Pools : p \in Nat \ {0}
    BY <1>0, JobFacts
  <2> QED BY <1>0, <2>1, <2>2 DEF NodesBooked
<1>2. GpusBooked(on, first)
  BY <1>0 DEF GpusBooked
<1> QED BY <1>1, <1>2 DEF Booking

(* A booking that is kept: it is one more node for the pool, and GPUs below  *)
(* all that were booked on it.                                               *)
LEMMA BookingGrows ==
    ASSUME PoolsTypeOK, Book, NEW on, NEW first, NodesBooked(on), GpusBooked(on, first)
    PROVE  \E on1, first1 : NodesBooked(on1)' /\ GpusBooked(on1, first1)'
<1>a. PICK on1 : on1 = [on EXCEPT ![pool] = @ \cup {node}]
  OBVIOUS
<1>b. PICK at0 : at0 = avail[node] - job.bundle[pool]
  OBVIOUS
<1>c. PICK first1 : first1 = [first EXCEPT ![pool] = [@ EXCEPT ![node] = at0]]
  OBVIOUS
<1>0. /\ job' = job /\ gpus' = gpus /\ node \in Nodes /\ pool \in Pools
      /\ avail[node] \in Nat /\ at0 \in Nat
      /\ \A p \in Pools : p \in Nat \ {0} /\ job.bundle[p] \in Nat \ {0}
                          /\ job.width[p] \in Nat \ {0}
      /\ Len(job.bundle) \in Nat \ {0} /\ Pools' = Pools
      /\ left \in Nat /\ left > 0 /\ verdict = "fitting"
      /\ node \notin on[pool]
  <2>1. job' = job /\ gpus' = gpus /\ node \in Nodes /\ avail[node] >= job.bundle[pool]
        /\ verdict = "fitting" /\ pool \in Pools /\ avail \in [Nodes -> Nat] /\ left \in Nat
    BY DEF Book, HasRoom, PoolsTypeOK
  <2>2. /\ \A p \in Pools : p \in Nat \ {0} /\ job.bundle[p] \in Nat \ {0}
                          /\ job.width[p] \in Nat \ {0}
        /\ Len(job.bundle) \in Nat \ {0}
    BY JobFacts DEF PoolsTypeOK
  <2>3. avail[node] \in Nat /\ at0 \in Nat
    BY <1>b, <2>1, <2>2
  <2>4. node \notin on[pool] /\ left > 0
    BY <2>1 DEF NodesBooked, Nodes
  <2> QED BY <2>1, <2>2, <2>3, <2>4, Rigid
<1>1. Cardinality(on[pool] \cup {node}) = Cardinality(on[pool]) + 1
      /\ Cardinality(on[pool]) \in Nat
  <2>1. IsFiniteSet(on[pool])
    <3>1. IsFiniteSet(1 .. NodeCount)
      BY NodeCountAssumption, FS_Interval
    <3>2. on[pool] \subseteq 1 .. NodeCount
      BY <1>0 DEF NodesBooked, Nodes
    <3> QED BY <3>1, <3>2, FS_Subset
  <2>2. Cardinality(on[pool] \cup {node}) =
           IF node \in on[pool] THEN Cardinality(on[pool]) ELSE Cardinality(on[pool]) + 1
    BY <2>1, FS_AddElement, Zenon
  <2>3. Cardinality(on[pool]) \in Nat
    BY <2>1, FS_CardinalityType
  <2> QED BY <1>0, <2>2, <2>3
<1>2. on1 \in [Pools -> SUBSET Nodes] /\ on1[pool] = on[pool] \cup {node}
      /\ \A p \in Pools \ {pool} : on1[p] = on[p]
  BY <1>a, <1>0 DEF NodesBooked
<1>3. NodesBooked(on1)'
  <2>1. CASE left > 1
    <3>1. left' = left - 1 /\ node' = node + 1 /\ pool' = pool /\ verdict' = verdict
      BY <2>1 DEF Book
    <3>2. \A n \in on1[pool] : n < node + 1
      BY <1>0, <1>2 DEF NodesBooked, Nodes
    <3>3. Cardinality(on1[pool]) + (left - 1) = job.width[pool] /\ left - 1 > 0
      BY <1>0, <1>1, <1>2, <2>1 DEF NodesBooked
    <3>4. ASSUME NEW p \in Pools
          PROVE  /\ p < pool => Cardinality(on1[p]) = job.width[p]
                 /\ p > pool => on1[p] = {}
      BY <1>0, <1>2 DEF NodesBooked
    <3> QED BY <1>0, <1>2, <3>1, <3>2, <3>3, <3>4 DEF NodesBooked
  <2>2. CASE left = 1 /\ pool < Len(job.bundle)
    <3>1. pool' = pool + 1 /\ node' = 1 /\ left' = job.width[pool + 1] /\ verdict' = verdict
      BY <2>2 DEF Book
    <3>2. pool + 1 \in Pools /\ pool + 1 # pool
      BY <1>0, <2>2 DEF Pools
    <3>3. on1[pool + 1] = {} /\ Cardinality({}) = 0
      BY <1>0, <1>2, <3>2, FS_EmptySet DEF NodesBooked
    <3>4. Cardinality(on1[pool]) = job.width[pool]
      BY <1>0, <1>1, <1>2, <2>2 DEF NodesBooked
    <3>5. ASSUME NEW p \in Pools, p < pool + 1 PROVE Cardinality(on1[p]) = job.width[p]
      <4>1. CASE p = pool
        BY <3>4, <4>1
      <4>2. CASE p < pool
        BY <1>0, <1>2, <4>2 DEF NodesBooked
      <4> QED BY <1>0, <3>5, <4>1, <4>2
    <3>6. ASSUME NEW p \in Pools, p > pool + 1 PROVE on1[p] = {}
      BY <1>0, <1>2, <3>6 DEF NodesBooked
    <3> QED BY <1>0, <1>2, <3>1, <3>2, <3>3, <3>5, <3>6 DEF NodesBooked
  <2>3. CASE left = 1 /\ ~(pool < Len(job.bundle))
    <3>1. left' = 0 /\ verdict' = "accepted" /\ pool' = pool
      BY <2>3 DEF Book
    <3>2. pool = Len(job.bundle)
      BY <1>0, <2>3 DEF Pools
    <3>4. Cardinality(on1[pool]) = job.width[pool]
      BY <1>0, <1>1, <1>2, <2>3 DEF NodesBooked
    <3> QED BY <1>0, <1>2, <3>1, <3>2, <3>4 DEF NodesBooked
  <2> QED BY <1>0, <2>1, <2>2, <2>3
<1>4. GpusBooked(on1, first1)'
  <2>0. avail' = [avail EXCEPT ![node] = at0] /\ avail \in [Nodes -> Nat] /\ gpus \in [Nodes -> Nat]
    BY <1>b, ClustersAssumption DEF Book, Booked, PoolsTypeOK
  <2>1. /\ first1 \in [Pools -> [Nodes -> Nat]]
        /\ first1[pool][node] = at0
        /\ \A p \in Pools, n \in Nodes : p # pool \/ n # node => first1[p][n] = first[p][n]
        /\ first \in [Pools -> [Nodes -> Nat]]
    BY <1>c, <1>0 DEF GpusBooked
  <2>2. /\ avail'[node] = at0 /\ at0 + job.bundle[pool] = avail[node]
        /\ \A n \in Nodes : n # node => avail'[n] = avail[n]
        /\ \A n \in Nodes : avail'[n] <= avail[n] /\ avail'[n] \in Nat /\ avail[n] \in Nat
    BY <1>b, <1>0, <2>0
  <2>3. \A p \in Pools : on[p] \subseteq Nodes /\ on1[p] \subseteq Nodes
    BY <1>2 DEF NodesBooked
  <2>4. ASSUME NEW p \in Pools, NEW n \in on1[p]
        PROVE  avail'[n] <= first1[p][n] /\ first1[p][n] + job.bundle[p] <= gpus[n]
    <3>1. CASE p = pool /\ n = node
      BY <1>0, <2>0, <2>1, <2>2, <3>1 DEF GpusBooked
    <3>2. CASE ~(p = pool /\ n = node)
      <4>1. n \in on[p] /\ n \in Nodes
        BY <1>2, <2>3, <3>2
      <4>2. avail[n] <= first[p][n] /\ first[p][n] + job.bundle[p] <= gpus[n]
        BY <4>1 DEF GpusBooked
      <4>3. first1[p][n] = first[p][n] /\ first[p][n] \in Nat
        BY <2>1, <3>2, <4>1
      <4> QED BY <2>2, <4>1, <4>2, <4>3
    <3> QED BY <3>1, <3>2
  <2>5. ASSUME NEW p \in Pools, p # pool, node \in on1[p]
        PROVE  first1[pool][node] + job.bundle[pool] <= first1[p][node]
    <3>1. node \in on[p]
      BY <1>2, <2>5
    <3>2. avail[node] <= first[p][node]
      BY <3>1 DEF GpusBooked
    <3> QED BY <1>0, <2>1, <2>2, <2>5, <3>2
  <2>6. ASSUME NEW p \in Pools, NEW q \in Pools, p # q, NEW n \in on1[p] \cap on1[q]
        PROVE  \/ first1[p][n] + job.bundle[p] <= first1[q][n]
               \/ first1[q][n] + job.bundle[q] <= first1[p][n]
    <3>1. CASE n = node /\ p = pool
      BY <2>5, <2>6, <3>1
    <3>2. CASE n = node /\ q = pool
      BY <2>5, <2>6, <3>2
    <3>3. CASE ~(n = node /\ p = pool) /\ ~(n = node /\ q = pool)
      <4>1. n \in on[p] \cap on[q] /\ n \in Nodes
        BY <1>2, <2>3, <3>3
      <4>2. first1[p][n] = first[p][n] /\ first1[q][n] = first[q][n]
        BY <2>1, <3>3, <4>1
      <4> QED BY <2>6, <4>1, <4>2 DEF GpusBooked
    <3> QED BY <3>1, <3>2, <3>3
  <2>7. \A n \in Nodes : avail'[n] <= gpus[n]
    BY <2>0, <2>2 DEF GpusBooked
  <2> QED BY <1>0, <2>1, <2>4, <2>6, <2>7 DEF GpusBooked
<1> QED BY <1>3, <1>4

LEMMA BookingKept ==
    ASSUME PoolsTypeOK, Booking, CheckStep \/ UNCHANGED <<job, gpus, checkVars>>
    PROVE  Booking'
<1>0. CASE verdict' = "refused"
  BY <1>0 DEF Booking
<1>1. CASE verdict # "refused" /\ verdict' # "refused"
  <2>1. PICK on, first : NodesBooked(on) /\ GpusBooked(on, first)
    BY <1>1 DEF Booking
  <2>2. CASE Book
    <3>1. \E on1, first1 : NodesBooked(on1)' /\ GpusBooked(on1, first1)'
      BY <2>1, <2>2, BookingGrows
    <3> QED BY <3>1 DEF Booking
  <2>3. ASSUME UNCHANGED <<job, gpus, avail, pool, left>>, verdict # "accepted",
               verdict' # "accepted",
               node' = node \/ (node \in Nodes /\ node' = node + 1)
        PROVE  Booking'
    <3>1. Pools' = Pools /\ node \in Nat
      BY <2>3 DEF Pools, PoolsTypeOK
    <3>2. GpusBooked(on, first)'
      BY <2>1, <2>3, <3>1 DEF GpusBooked
    <3>3. \A n \in on[pool] : n \in Nat /\ n < node
      BY <2>1, <2>3 DEF NodesBooked, Nodes, PoolsTypeOK
    <3>4. \A n \in on[pool] : n < node'
      BY <2>3, <3>1, <3>3
    <3>5. NodesBooked(on)'
      BY <2>1, <2>3, <3>1, <3>4 DEF NodesBooked
    <3> QED BY <3>2, <3>5 DEF Booking
  <2>4. CASE CheckTotal
    <3>1. /\ UNCHANGED <<job, gpus, avail, pool, left>> /\ node' = node
          /\ verdict = "unchecked" /\ verdict' \in {"refused", "fitting"}
      BY <2>4 DEF CheckTotal
    <3> QED BY <2>3, <3>1
  <2>5. CASE PassOver
    BY <2>3, <2>5 DEF PassOver
  <2>6. CASE Refuse
    BY <1>1, <2>6 DEF Refuse
  <2>7. CASE UNCHANGED <<job, gpus, checkVars>>
    <3>1. UNCHANGED <<job, gpus, avail, pool, node, left, verdict>>
      BY <2>7 DEF checkVars
    <3>2. Pools' = Pools
      BY <3>1 DEF Pools
    <3>3. NodesBooked(on)' /\ GpusBooked(on, first)'
      BY <2>1, <3>1, <3>2 DEF NodesBooked, GpusBooked
    <3> QED BY <3>3 DEF Booking
  <2> QED BY <2>2, <2>4, <2>5, <2>6, <2>7 DEF CheckStep
<1>2. CASE verdict = "refused" /\ verdict' # "refused"
  <2>1. ~CheckStep
    BY <1>2 DEF CheckStep, CheckTotal, Book, PassOver, Refuse
  <2>2. checkVars' = checkVars
    BY <2>1
  <2>3. verdict' = verdict
    BY <2>2 DEF checkVars
  <2> QED BY <1>2, <2>3
<1> QED BY <1>0, <1>1, <1>2

(* A finished booking holds all pools at once.                               *)
LEMMA AcceptedFits ==
    ASSUME PoolsTypeOK, Booking
    PROVE  PoolsFit
<1> SUFFICES ASSUME verdict = "accepted" PROVE PoolsFit
  BY DEF PoolsFit
<1>0. /\ gpus \in [Nodes -> Nat]
      /\ \A p \in Pools : p \in Nat \ {0} /\ job.bundle[p] \in Nat \ {0}
                          /\ job.width[p] \in Nat \ {0}
      /\ Len(job.bundle) \in Nat
  BY JobFacts, ClustersAssumption DEF PoolsTypeOK
<1>1. PICK on, first : NodesBooked(on) /\ GpusBooked(on, first)
  BY DEF Booking
<1>2. \A p \in Pools : Cardinality(on[p]) = job.width[p]
  <2>1. pool = Len(job.bundle) /\ left = 0 /\ pool \in Pools
        /\ Cardinality(on[pool]) + left = job.width[pool]
        /\ \A p \in Pools : p < pool => Cardinality(on[p]) = job.width[p]
    BY <1>1 DEF NodesBooked, PoolsTypeOK
  <2>2. on[pool] \subseteq 1 .. NodeCount
    BY <1>1, <2>1 DEF NodesBooked, Nodes
  <2>3. Cardinality(on[pool]) \in Nat
    <3>1. IsFiniteSet(1 .. NodeCount)
      BY NodeCountAssumption, FS_Interval
    <3> QED BY <2>2, <3>1, FS_Subset, FS_CardinalityType
  <2>4. Cardinality(on[pool]) = job.width[pool]
    BY <2>1, <2>3
  <2>5. \A p \in Pools : p = pool \/ p < pool
    BY <1>0, <2>1 DEF Pools
  <2> QED BY <2>1, <2>4, <2>5
<1>3. on \in [Pools -> SUBSET Nodes]
  BY <1>1 DEF NodesBooked
<1>4. ASSUME NEW n \in Nodes
      PROVE  \E f \in [Pools -> 0 .. gpus[n]] :
                \A p \in Pools : n \in on[p] =>
                    /\ GpusOf(p, f[p]) \subseteq 0 .. gpus[n] - 1
                    /\ \A q \in Pools \ {p} :
                          n \in on[q] => GpusOf(p, f[p]) \cap GpusOf(q, f[q]) = {}
  <2> DEFINE f == [p \in Pools |-> IF n \in on[p] THEN first[p][n] ELSE 0]
  <2>1. ASSUME NEW p \in Pools, n \in on[p]
        PROVE  /\ first[p][n] \in Nat /\ f[p] = first[p][n]
               /\ first[p][n] + job.bundle[p] <= gpus[n]
    BY <1>1, <2>1 DEF GpusBooked
  <2>2. f \in [Pools -> 0 .. gpus[n]]
    BY <1>0, <2>1
  <2> HIDE DEF f
  <2>3. ASSUME NEW p \in Pools, n \in on[p]
        PROVE  GpusOf(p, f[p]) \subseteq 0 .. gpus[n] - 1
    BY <1>0, <2>1, <2>3 DEF GpusOf
  <2>4. ASSUME NEW p \in Pools, n \in on[p], NEW q \in Pools \ {p}, n \in on[q]
        PROVE  GpusOf(p, f[p]) \cap GpusOf(q, f[q]) = {}
    <3>1. \/ first[p][n] + job.bundle[p] <= first[q][n]
          \/ first[q][n] + job.bundle[q] <= first[p][n]
      BY <1>1, <2>4 DEF GpusBooked
    <3>2. /\ q \in Pools /\ first[p][n] \in Nat /\ f[p] = first[p][n]
          /\ first[q][n] \in Nat /\ f[q] = first[q][n]
          /\ job.bundle[p] \in Nat /\ job.bundle[q] \in Nat
      BY <1>0, <2>1, <2>4
    <3>3. ASSUME NEW a \in Nat, NEW b \in Nat, NEW c \in Nat, NEW d \in Nat,
                 a + b <= c \/ c + d <= a
          PROVE  (a .. a + b - 1) \cap (c .. c + d - 1) = {}
      BY <3>3
    <3> QED BY <3>1, <3>2, <3>3 DEF GpusOf
  <2> QED BY <2>2, <2>3, <2>4
<1> QED BY <1>2, <1>3, <1>4 DEF PoolsFit

(* For every cluster, every list of pools and every number of nodes: what    *)
(* the check accepts can be held, all pools at once and no GPU twice.        *)
THEOREM AcceptedPoolsFit == Spec => []PoolsFit
<1> DEFINE I == TypeOK /\ Booking
<1>1. Init => I
  BY InitType, BookingStarts
<1>2. I /\ [Next]_vars => I'
  <2> SUFFICES ASSUME I, [Next]_vars PROVE I'
    OBVIOUS
  <2>1. TypeOK' /\ PoolsTypeOK
    BY NextType DEF TypeOK
  <2>2. CheckStep \/ UNCHANGED <<job, gpus, checkVars>>
    BY DEF Next, DriverStep, CheckPools, RayPlaces, PlaceGroup, CreateRankZero,
           CreateOthers, CenterTimeout, InitModel, ModelRaises, AskServers,
           EnginesReady, EngineRaises, SchedulerReady, WorkersRun, ServersRun,
           vars, poolVars, checkVars
  <2> QED BY <2>1, <2>2, BookingKept
<1>3. I => PoolsFit
  BY AcceptedFits DEF TypeOK
<1> QED BY <1>1, <1>2, <1>3, PTL DEF Spec

------------------------------------------------------------------------------
(* What Ray finds.                                                           *)

(* The GPUs of k placement groups, all groups being equal.                   *)
GpusFor(k) == k * job.bundle[1]

(* Ray's groups fill a node slot by slot: the c[n] slots of node n which are *)
(* taken all have a group that was placed, and nothing is free below them.   *)
Packing(slot, c) ==
    /\ DOMAIN slot = PlacementGroups
    /\ c \in [Nodes -> Nat]
    /\ \A n \in Nodes : free[n] + GpusFor(c[n]) = gpus[n]
    /\ \A n \in Nodes, k \in Nat :
          k < c[n] => \E g \in PlacementGroups : loc[g] # 0 /\ slot[g] = <<n, k>>

Packed == EqualBundles => \E slot, c : Packing(slot, c)

Accepted == driver \in {"check", "failed"} \/ verdict = "accepted"

LEMMA PackedStarts == Init => Packed
<1> SUFFICES ASSUME Init, EqualBundles PROVE \E slot, c : Packing(slot, c)
  BY DEF Packed
<1> DEFINE slot == [g \in PlacementGroups |-> <<1, 0>>]
<1> DEFINE c == [n \in Nodes |-> 0]
<1>1. gpus \in [Nodes -> Nat] /\ free = gpus /\ job.bundle[1] \in Nat
  BY JobFacts, ClustersAssumption DEF Init, PoolsInit
<1>2. GpusFor(0) = 0
  BY <1>1 DEF GpusFor
<1>3. Packing(slot, c)
  BY <1>1, <1>2 DEF Packing
<1> QED BY <1>3

LEMMA PackingGrows ==
    ASSUME PoolsTypeOK, EqualBundles, NEW p \in Pools, PlaceGroup(p),
           NEW slot, NEW c, Packing(slot, c)
    PROVE  \E slot1, c1 : Packing(slot1, c1)'
<1>1. PICK i \in Groups(p), n \in Nodes :
          /\ loc[<<p, i>>] = 0
          /\ free[n] >= job.bundle[p]
          /\ loc' = [loc EXCEPT ![<<p, i>>] = n]
          /\ free' = [free EXCEPT ![n] = @ - job.bundle[p]]
  BY DEF PlaceGroup
<1>2. PICK g : g = <<p, i>>
  OBVIOUS
<1>3. PICK slot1 : slot1 = [slot EXCEPT ![g] = <<n, c[n]>>]
  OBVIOUS
<1>4. PICK c1 : c1 = [c EXCEPT ![n] = @ + 1]
  OBVIOUS
<1>5. /\ job' = job /\ gpus' = gpus /\ PlacementGroups' = PlacementGroups
      /\ g \in PlacementGroups /\ n # 0
      /\ job.bundle[p] \in Nat /\ job.bundle[1] = job.bundle[p]
      /\ c \in [Nodes -> Nat] /\ c1 \in [Nodes -> Nat]
      /\ gpus \in [Nodes -> Nat] /\ free \in [Nodes -> Nat]
      /\ loc \in [PlacementGroups -> {0} \cup Nodes]
      /\ DOMAIN slot = PlacementGroups
  <2>1. job' = job /\ gpus' = gpus /\ job \in Jobs /\ gpus \in [Nodes -> Nat]
        /\ free \in [Nodes -> Nat] /\ loc \in [PlacementGroups -> {0} \cup Nodes]
    BY ClustersAssumption DEF PlaceGroup, PoolsTypeOK
  <2>2. g \in PlacementGroups /\ PlacementGroups' = PlacementGroups
    BY <1>2, <2>1, Rigid DEF PlacementGroups
  <2>3. 1 \in Pools /\ \A q \in Pools : job.bundle[q] \in Nat \ {0}
    BY <2>1, JobFacts
  <2>4. job.bundle[p] \in Nat /\ job.bundle[1] = job.bundle[p] /\ n # 0
    BY <2>3 DEF EqualBundles, Nodes
  <2>5. c \in [Nodes -> Nat] /\ c1 \in [Nodes -> Nat] /\ DOMAIN slot = PlacementGroups
    BY <1>4 DEF Packing
  <2> QED BY <2>1, <2>2, <2>4, <2>5
<1>6. ASSUME NEW m \in Nodes PROVE free'[m] + GpusFor(c1[m])' = gpus'[m]
  <2>0. free[m] + c[m] * job.bundle[1] = gpus[m]
    BY DEF Packing, GpusFor
  <2>1. CASE m = n
    <3>1. free'[m] = free[m] - job.bundle[1] /\ c1[m] = c[m] + 1
      BY <1>1, <1>4, <1>5, <2>1
    <3>2. (c[m] + 1) * job.bundle[1] = c[m] * job.bundle[1] + job.bundle[1]
          /\ c[m] * job.bundle[1] \in Nat
      <4>1. ASSUME NEW k \in Nat, NEW b \in Nat PROVE (k + 1) * b = k * b + b /\ k * b \in Nat
        BY Z3
      <4> QED BY <1>5, <4>1
    <3>3. c1[m] * job.bundle[1] = c[m] * job.bundle[1] + job.bundle[1]
      BY <3>1, <3>2
    <3> QED BY <1>5, <2>0, <3>1, <3>2, <3>3 DEF GpusFor
  <2>2. CASE m # n
    <3>1. free'[m] = free[m] /\ c1[m] = c[m]
      BY <1>1, <1>4, <1>5, <2>2
    <3> QED BY <1>5, <2>0, <3>1 DEF GpusFor
  <2> QED BY <2>1, <2>2
<1>7. ASSUME NEW m \in Nodes, NEW k \in Nat, k < c1[m]
      PROVE  \E h \in PlacementGroups : loc'[h] # 0 /\ slot1[h] = <<m, k>>
  <2>1. CASE m = n /\ k = c[n]
    BY <1>1, <1>2, <1>3, <1>5, <2>1
  <2>2. CASE ~(m = n /\ k = c[n])
    <3>1. k < c[m]
      BY <1>4, <1>5, <1>7, <2>2
    <3>2. PICK h \in PlacementGroups : loc[h] # 0 /\ slot[h] = <<m, k>>
      BY <3>1 DEF Packing
    <3>3. h # g
      BY <1>1, <1>2, <3>2
    <3>4. loc'[h] = loc[h] /\ slot1[h] = slot[h]
      BY <1>1, <1>2, <1>3, <1>5, <3>3
    <3> QED BY <3>2, <3>4
  <2> QED BY <2>1, <2>2
<1>8. Packing(slot1, c1)'
  <2>1. DOMAIN slot1 = PlacementGroups
    BY <1>3, <1>5
  <2> QED BY <1>5, <1>6, <1>7, <2>1 DEF Packing
<1> QED BY <1>8

LEMMA PackedKept ==
    ASSUME PoolsTypeOK, Packed,
           \/ \E p \in Pools : PlaceGroup(p)
           \/ job' = job /\ gpus' = gpus /\ loc' = loc /\ free' = free
    PROVE  Packed'
<1>0. job' = job
  BY DEF PlaceGroup
<1>1. SUFFICES ASSUME EqualBundles PROVE \E slot, c : Packing(slot, c)'
  BY <1>0, Rigid DEF Packed
<1>2. PICK slot, c : Packing(slot, c)
  BY <1>1 DEF Packed
<1>3. CASE \E p \in Pools : PlaceGroup(p)
  BY <1>1, <1>2, <1>3, PackingGrows
<1>4. CASE job' = job /\ gpus' = gpus /\ loc' = loc /\ free' = free
  <2>1. Packing(slot, c)'
    BY <1>2, <1>4, Rigid DEF Packing, GpusFor
  <2> QED BY <2>1
<1> QED BY <1>3, <1>4

(* Two runs of b GPUs that share none begin in different slots of b GPUs.    *)
LEMMA SlotsDiffer ==
    ASSUME NEW b \in Nat \ {0}, NEW x \in Nat, NEW y \in Nat, x \div b = y \div b
    PROVE  (x .. x + b - 1) \cap (y .. y + b - 1) # {}
<1> DEFINE q == x \div b
<1>1. q \in Nat /\ q * b <= x /\ x < (q + 1) * b
  <2>1. x \div b \in Nat
    OBVIOUS
  <2> QED BY <2>1, DivBounds
<1>2. q * b <= y /\ y < (q + 1) * b
  <2>1. y \div b = q /\ q \in Nat
    BY <1>1
  <2> HIDE DEF q
  <2> QED BY <2>1, DivBounds
<1> HIDE DEF q
<1>3. q * b \in Nat /\ (q + 1) * b = q * b + b
  BY <1>1, Z3
<1>4. x < y + b /\ y < x + b
  BY <1>1, <1>2, <1>3
<1>5. CASE x <= y
  <2>1. y \in (x .. x + b - 1) \cap (y .. y + b - 1)
    BY <1>4, <1>5
  <2> QED BY <2>1
<1>6. CASE y <= x
  <2>1. x \in (x .. x + b - 1) \cap (y .. y + b - 1)
    BY <1>4, <1>6
  <2> QED BY <2>1
<1> QED BY <1>5, <1>6

(* What fits can be given slots: every group one of its own, below the       *)
(* number of whole groups the node's GPUs make up.                           *)
Slots(s) ==
    /\ DOMAIN s = PlacementGroups
    /\ \A g \in PlacementGroups : \E n \in Nodes, k \in Nat :
          s[g] = <<n, k>> /\ GpusFor(k + 1) <= gpus[n]
    /\ \A g, h \in PlacementGroups : s[g] = s[h] => g = h

LEMMA FitInSlots ==
    ASSUME PoolsTypeOK, PoolsFit, verdict = "accepted", EqualBundles
    PROVE  IsFiniteSet(PlacementGroups) /\ \E s : Slots(s)
<1> DEFINE b == job.bundle[1]
<1>0. /\ gpus \in [Nodes -> Nat] /\ b \in Nat \ {0}
      /\ \A p \in Pools : job.bundle[p] = b /\ job.width[p] \in Nat /\ Groups(p) = 1 .. job.width[p]
      /\ Len(job.bundle) \in Nat
  <2>1. job \in Jobs /\ gpus \in [Nodes -> Nat]
    BY ClustersAssumption DEF PoolsTypeOK
  <2>2. 1 \in Pools /\ \A p \in Pools : job.bundle[p] \in Nat \ {0} /\ job.width[p] \in Nat \ {0}
    BY <2>1, JobFacts
  <2>3. Len(job.bundle) \in Nat
    BY <2>1, JobFacts
  <2>4. \A p \in Pools : job.bundle[p] = b
    BY <2>2 DEF EqualBundles
  <2> QED BY <2>1, <2>2, <2>3, <2>4 DEF Groups
<1> HIDE DEF b
<1>1. PICK on \in [Pools -> SUBSET Nodes] :
          /\ \A p \in Pools : Cardinality(on[p]) = job.width[p]
          /\ \A n \in Nodes : \E first \in [Pools -> 0 .. gpus[n]] :
                \A p \in Pools : n \in on[p] =>
                    /\ GpusOf(p, first[p]) \subseteq 0 .. gpus[n] - 1
                    /\ \A q \in Pools \ {p} :
                          n \in on[q] => GpusOf(p, first[p]) \cap GpusOf(q, first[q]) = {}
  BY DEF PoolsFit
<1> DEFINE Right(n, f) ==
        /\ f \in [Pools -> 0 .. gpus[n]]
        /\ \A p \in Pools : n \in on[p] =>
              /\ GpusOf(p, f[p]) \subseteq 0 .. gpus[n] - 1
              /\ \A q \in Pools \ {p} :
                    n \in on[q] => GpusOf(p, f[p]) \cap GpusOf(q, f[q]) = {}
<1> DEFINE F == [n \in Nodes |-> CHOOSE f : Right(n, f)]
<1>2. \A n \in Nodes : Right(n, F[n])
  <2>1. \A n \in Nodes : \E f : Right(n, f)
    BY <1>1
  <2> HIDE DEF Right
  <2> QED BY <2>1
<1> DEFINE B == [p \in Pools |-> CHOOSE f : f \in Bijection(Groups(p), on[p])]
<1>3. \A p \in Pools : B[p] \in Bijection(Groups(p), on[p])
  <2>1. ASSUME NEW p \in Pools PROVE \E f : f \in Bijection(Groups(p), on[p])
    <3>1. IsFiniteSet(on[p])
      <4>1. IsFiniteSet(1 .. NodeCount)
        BY NodeCountAssumption, FS_Interval
      <4>2. on[p] \subseteq 1 .. NodeCount
        BY DEF Nodes
      <4> QED BY <4>1, <4>2, FS_Subset
    <3>2. ExistsBijection(1 .. Cardinality(on[p]), on[p])
      BY <3>1, FS_CardinalityType
    <3>3. ExistsBijection(Groups(p), on[p])
      BY <1>0, <1>1, <3>2
    <3> QED BY <3>3, Fun_ExistsBij
  <2> QED BY <2>1
<1>4. ASSUME NEW p \in Pools
      PROVE  /\ \A i \in Groups(p) : B[p][i] \in on[p] /\ B[p][i] \in Nodes
             /\ \A i, j \in Groups(p) : B[p][i] = B[p][j] => i = j
  <2>1. B[p] \in Bijection(Groups(p), on[p])
    BY <1>3
  <2>2. B[p] \in [Groups(p) -> on[p]] /\ IsInjective(B[p])
    BY <2>1 DEF Bijection, Injection
  <2>3. on[p] \subseteq Nodes
    OBVIOUS
  <2> HIDE DEF B
  <2> QED BY <2>2, <2>3 DEF IsInjective
<1> HIDE DEF B, F
<1>5. \A g \in PlacementGroups : g[1] \in Pools /\ g[2] \in Groups(g[1]) /\ g = <<g[1], g[2]>>
  BY DEF PlacementGroups
<1>6. IsFiniteSet(PlacementGroups)
  <2> DEFINE e == [g \in PlacementGroups |-> <<g[1], B[g[1]][g[2]]>>]
  <2>1. e \in [PlacementGroups -> Pools \X Nodes]
    BY <1>4, <1>5
  <2>2. ASSUME NEW g \in PlacementGroups, NEW h \in PlacementGroups, e[g] = e[h]
        PROVE  g = h
    <3>1. g[1] = h[1] /\ B[g[1]][g[2]] = B[h[1]][h[2]]
      BY <2>2
    <3>2. g[2] = h[2]
      BY <1>4, <1>5, <3>1
    <3> QED BY <1>5, <3>1, <3>2
  <2> HIDE DEF e
  <2>3. e \in Injection(PlacementGroups, Pools \X Nodes)
    BY <2>1, <2>2 DEF Injection, IsInjective
  <2>4. IsFiniteSet(Pools) /\ IsFiniteSet(Nodes)
    <3>1. \A m \in Nat : IsFiniteSet(1 .. m)
      BY FS_Interval
    <3> QED BY <1>0, <3>1, NodeCountAssumption DEF Pools, Nodes
  <2>5. IsFiniteSet(Pools \X Nodes)
    BY <2>4, FS_Product
  <2> QED BY <2>3, <2>5, FS_Injection
<1> DEFINE node1(g) == B[g[1]][g[2]]
<1> DEFINE first1(g) == F[node1(g)][g[1]]
<1> DEFINE s == [g \in PlacementGroups |-> <<node1(g), first1(g) \div b>>]
<1>7. ASSUME NEW g \in PlacementGroups
      PROVE  /\ node1(g) \in Nodes /\ node1(g) \in on[g[1]] /\ first1(g) \in Nat
             /\ first1(g) + b <= gpus[node1(g)]
             /\ GpusOf(g[1], first1(g)) = first1(g) .. first1(g) + b - 1
  <2>1. g[1] \in Pools /\ node1(g) \in on[g[1]] /\ node1(g) \in Nodes
    BY <1>4, <1>5
  <2>2. Right(node1(g), F[node1(g)])
    BY <1>2, <2>1
  <2>3. first1(g) \in 0 .. gpus[node1(g)] /\ gpus[node1(g)] \in Nat
    BY <1>0, <2>1, <2>2
  <2>4. GpusOf(g[1], first1(g)) \subseteq 0 .. gpus[node1(g)] - 1
    BY <2>1, <2>2
  <2>5. GpusOf(g[1], first1(g)) = first1(g) .. first1(g) + b - 1
    BY <1>0, <2>1 DEF GpusOf
  <2> HIDE DEF node1, first1
  <2>6. first1(g) \in Nat /\ first1(g) + b - 1 \in first1(g) .. first1(g) + b - 1
    BY <1>0, <2>3
  <2>7. first1(g) + b - 1 \in 0 .. gpus[node1(g)] - 1
    BY <2>4, <2>5, <2>6
  <2> QED BY <1>0, <2>1, <2>3, <2>5, <2>6, <2>7
<1>8. ASSUME NEW g \in PlacementGroups
      PROVE  \E n \in Nodes, k \in Nat : s[g] = <<n, k>> /\ GpusFor(k + 1) <= gpus[n]
  <2>0. s[g] = <<node1(g), first1(g) \div b>>
    OBVIOUS
  <2> HIDE DEF node1, first1, s
  <2>1. PICK x \in Nat, n \in Nodes : x = first1(g) /\ n = node1(g) /\ x + b <= gpus[n]
    BY <1>7
  <2>2. PICK k \in Nat : k = x \div b
    <3>1. ASSUME NEW u \in Nat, NEW v \in Nat \ {0} PROVE u \div v \in Nat
      OBVIOUS
    <3>2. x \div b \in Nat
      BY <1>0, <3>1
    <3> QED BY <3>2
  <2>3. k * b <= x
    BY <1>0, <2>2, DivBounds
  <2>4. (k + 1) * b = k * b + b /\ k * b \in Nat
    <3>1. ASSUME NEW u \in Nat, NEW v \in Nat PROVE (u + 1) * v = u * v + v /\ u * v \in Nat
      BY Z3
    <3> QED BY <1>0, <3>1
  <2>5. (k + 1) * b <= gpus[n]
    BY <1>0, <2>1, <2>3, <2>4
  <2> QED BY <2>0, <2>1, <2>2, <2>5 DEF GpusFor, b
<1>9. ASSUME NEW g \in PlacementGroups, NEW h \in PlacementGroups, s[g] = s[h]
      PROVE  g = h
  <2>1. node1(g) = node1(h) /\ first1(g) \div b = first1(h) \div b
    BY <1>9
  <2>2. CASE g[1] = h[1]
    BY <1>4, <1>5, <2>1, <2>2
  <2>3. CASE g[1] # h[1]
    <3>1. g[1] \in Pools /\ h[1] \in Pools \ {g[1]}
      BY <1>5, <2>3
    <3>2. Right(node1(g), F[node1(g)]) /\ node1(g) \in on[g[1]] /\ node1(g) \in on[h[1]]
      BY <1>2, <1>7, <2>1
    <3>3. GpusOf(g[1], first1(g)) \cap GpusOf(h[1], first1(h)) = {}
      BY <2>1, <3>1, <3>2
    <3> HIDE DEF node1, first1, s
    <3>4. (first1(g) .. first1(g) + b - 1) \cap (first1(h) .. first1(h) + b - 1) # {}
      BY <1>0, <1>7, <2>1, SlotsDiffer
    <3> QED BY <1>7, <3>3, <3>4
  <2> QED BY <2>2, <2>3
<1>10. Slots(s)
  <2>1. DOMAIN s = PlacementGroups
    OBVIOUS
  <2> HIDE DEF s
  <2> QED BY <1>8, <1>9, <2>1 DEF Slots
<1> QED BY <1>6, <1>10

(* As long as one group waits, a node has room for it: if none had, the      *)
(* placed groups would fill all slots, and so be as many as all groups.      *)
LEMMA StuckIsFull ==
    ASSUME PoolsTypeOK, PoolsFit, verdict = "accepted", EqualBundles, Packed,
           NEW g0 \in PlacementGroups, loc[g0] = 0
    PROVE  \E n \in Nodes : free[n] >= job.bundle[1]
<1> SUFFICES ASSUME \A n \in Nodes : ~(free[n] >= job.bundle[1]) PROVE FALSE
  OBVIOUS
<1>1. PICK slot, c : Packing(slot, c)
  BY DEF Packed
<1>2. PICK s : Slots(s)
  BY FitInSlots
<1>3. /\ free \in [Nodes -> Nat] /\ c \in [Nodes -> Nat]
      /\ job.bundle[1] \in Nat \ {0} /\ gpus \in [Nodes -> Nat]
  BY <1>1, JobFacts, ClustersAssumption DEF PoolsTypeOK, Packing
<1>4. ASSUME NEW n \in Nodes, NEW k \in Nat, GpusFor(k + 1) <= gpus[n]
      PROVE  k < c[n]
  <2>1. free[n] + c[n] * job.bundle[1] = gpus[n] /\ free[n] < job.bundle[1]
        /\ (k + 1) * job.bundle[1] <= gpus[n]
    <3>1. free[n] + c[n] * job.bundle[1] = gpus[n]
      BY <1>1 DEF Packing, GpusFor
    <3>2. free[n] < job.bundle[1]
      BY <1>3
    <3> QED BY <1>4, <3>1, <3>2 DEF GpusFor
  <2>2. PICK x \in Nat, u \in Nat, t \in Nat, b \in Nat \ {0} :
            x = c[n] /\ u = free[n] /\ t = gpus[n] /\ b = job.bundle[1]
    BY <1>3
  <2>3. u + x * b = t /\ u < b /\ (k + 1) * b <= t
    BY <2>1, <2>2
  <2> SUFFICES ASSUME x <= k PROVE FALSE
    BY <2>2
  <2>4. x * b <= k * b
    BY Z3
  <2>5. (k + 1) * b = k * b + b /\ x * b \in Nat /\ k * b \in Nat
    BY Z3
  <2> QED BY <2>3, <2>4, <2>5
<1> DEFINE Taker(g, h) == h \in PlacementGroups /\ loc[h] # 0 /\ slot[h] = s[g]
<1> DEFINE f == [g \in PlacementGroups |-> CHOOSE h : Taker(g, h)]
<1>5. \A g \in PlacementGroups : Taker(g, f[g])
  <2>1. ASSUME NEW g \in PlacementGroups PROVE \E h : Taker(g, h)
    <3>1. PICK n \in Nodes, k \in Nat : s[g] = <<n, k>> /\ GpusFor(k + 1) <= gpus[n]
      BY <1>2 DEF Slots
    <3>2. k < c[n]
      BY <1>4, <3>1
    <3>3. PICK h \in PlacementGroups : loc[h] # 0 /\ slot[h] = <<n, k>>
      BY <1>1, <3>2 DEF Packing
    <3> QED BY <3>1, <3>3
  <2> HIDE DEF Taker
  <2> QED BY <2>1
<1>6. DOMAIN f = PlacementGroups
  OBVIOUS
<1> HIDE DEF f
<1>7. f \in Injection(PlacementGroups, PlacementGroups)
  <2>0. f = [g \in PlacementGroups |-> f[g]]
    BY DEF f
  <2>1. f \in [PlacementGroups -> PlacementGroups]
    BY <1>5, <2>0
  <2>2. ASSUME NEW g \in PlacementGroups, NEW h \in PlacementGroups, f[g] = f[h] PROVE g = h
    <3>1. s[g] = s[h]
      BY <1>5, <2>2
    <3> QED BY <1>2, <3>1 DEF Slots
  <2> QED BY <2>1, <2>2 DEF Injection, IsInjective
<1>8. f \in Surjection(PlacementGroups, PlacementGroups)
  BY <1>7, FitInSlots, FS_Injection
<1>9. PICK g \in PlacementGroups : f[g] = g0
  BY <1>8 DEF Surjection
<1> QED BY <1>5, <1>9

(* For every cluster, every job whose groups are equal, and every order and  *)
(* choice of nodes Ray may take: the wait for the placement groups never     *)
(* comes to where no node can take one that is missing.                      *)
THEOREM RoomIsAlwaysLeft == Spec => []RoomIsLeft
<1> DEFINE I == TypeOK /\ PoolsFit /\ Packed /\ Accepted
<1> DEFINE J == TypeOK /\ Packed /\ Accepted
<1>1. Init => J
  BY InitType, PackedStarts DEF Accepted, Init
<1>2. J /\ [Next]_vars => J'
  <2> SUFFICES ASSUME J, [Next]_vars PROVE J'
    OBVIOUS
  <2>1. TypeOK' /\ PoolsTypeOK /\ at \in Pools
    BY NextType DEF TypeOK
  <2>2. Packed'
    <3>1. CASE CheckPools
      <4>1. job' = job /\ gpus' = gpus /\ loc' = loc /\ free' = free
        BY <2>1, <3>1, PoolsCheck DEF CheckPools
      <4> QED BY <2>1, <4>1, PackedKept
    <3>2. CASE RayPlaces
      <4>1. PlaceGroup(at)
        BY <3>2 DEF RayPlaces
      <4> QED BY <2>1, <4>1, PackedKept
    <3>3. CASE UNCHANGED poolVars
      <4>1. job' = job /\ gpus' = gpus /\ loc' = loc /\ free' = free
        BY <3>3 DEF poolVars
      <4> QED BY <2>1, <4>1, PackedKept
    <3> QED BY <3>1, <3>2, <3>3
         DEF Next, DriverStep, CreateRankZero, CreateOthers, CenterTimeout, InitModel,
             ModelRaises, AskServers, EnginesReady, EngineRaises, SchedulerReady,
             WorkersRun, ServersRun, vars
  <2>3. Accepted'
    <3>1. CASE CheckPools
      BY <3>1 DEF CheckPools, Accepted
    <3>2. CASE ~CheckPools /\ UNCHANGED verdict
      BY <3>2 DEF Next, DriverStep, CreateRankZero, CreateOthers, CenterTimeout, InitModel,
             ModelRaises, AskServers, EnginesReady, EngineRaises, SchedulerReady,
             WorkersRun, ServersRun, vars, RayPlaces, Accepted, Only, GoTo
    <3>3. CheckPools \/ UNCHANGED verdict
      BY DEF Next, DriverStep, CreateRankZero, CreateOthers, CenterTimeout, InitModel,
             ModelRaises, AskServers, EnginesReady, EngineRaises, SchedulerReady,
             WorkersRun, ServersRun, vars, RayPlaces, PlaceGroup, poolVars, checkVars
    <3> QED BY <3>1, <3>2, <3>3
  <2> QED BY <2>1, <2>2, <2>3
<1>3. I => RoomIsLeft
  <2> SUFFICES ASSUME I, EqualBundles, driver = "place", NEW i \in Groups(at), loc[<<at, i>>] = 0
               PROVE  \E n \in Nodes : free[n] >= job.bundle[at]
    BY DEF RoomIsLeft
  <2>1. verdict = "accepted" /\ PoolsTypeOK /\ at \in Pools /\ job \in Jobs
    BY DEF Accepted, TypeOK, PoolsTypeOK
  <2>2. <<at, i>> \in PlacementGroups
    BY <2>1 DEF PlacementGroups
  <2>3. job.bundle[at] = job.bundle[1]
    <3>1. 1 \in Pools
      BY <2>1, JobFacts
    <3> QED BY <2>1, <3>1 DEF EqualBundles
  <2>4. \E n \in Nodes : free[n] >= job.bundle[1]
    BY <2>1, <2>2, StuckIsFull
  <2> QED BY <2>3, <2>4
<1>4. I <=> J /\ PoolsFit
  OBVIOUS
<1> HIDE DEF I, J
<1> QED BY <1>1, <1>2, <1>3, <1>4, AcceptedPoolsFit, PTL DEF Spec
=============================================================================
