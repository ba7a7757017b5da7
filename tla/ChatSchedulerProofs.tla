------------------------- MODULE ChatSchedulerProofs -------------------------
(***************************************************************************)
(* Proofs about ChatScheduler for every number of batches, rows, servers   *)
(* and tools.                                                              *)
(***************************************************************************)
EXTENDS ChatScheduler, FiniteSetTheorems, WellFoundedInduction, TLAPS

(* A conversation that carries on, in its own words: its depth counts its  *)
(* outstanding request, its done event is set when it ended, and the       *)
(* conversations of earlier calls have all ended.                          *)
Progress(c) ==
  /\ pc[c] = "idle" <=> c[1] > batch
  /\ pc[c] = "idle" => rid[c] = 0
  /\ depth[c] = IF pc[c] \in {"submitted", "posted", "dead"} THEN 1 ELSE 0
  /\ done[c] <=> pc[c] = "ended"
  /\ c[1] < batch => pc[c] = "ended"
  /\ status = "idle" /\ c[1] = batch => pc[c] = "ended"

ProgressInv == \A c \in Conv : Progress(c)

Inv == TypeOK /\ ProgressInv

LEMMA ConvFacts ==
  ASSUME NEW c \in Conv
  PROVE  /\ c[1] \in 1 .. Batches /\ c[1] \in Int /\ c[2] \in Rows
         /\ c = <<c[1], c[2]>>
  BY SchedulerAssumption DEF Conv

(* The cache after an insertion.                                           *)
LEMMA InsertFacts ==
  ASSUME NEW f, NEW i, NEW s
  PROVE  /\ i \in DOMAIN Insert(f, i, s)
         /\ DOMAIN Insert(f, i, s) \subseteq DOMAIN f \cup {i}
         /\ Insert(f, i, s)[i] = s
         /\ \A j \in DOMAIN Insert(f, i, s) : j # i => Insert(f, i, s)[j] = f[j]
         /\ Insert(f, i, s) = [j \in DOMAIN Insert(f, i, s) |-> Insert(f, i, s)[j]]
  <1>1. DOMAIN Evict(f) \subseteq DOMAIN f
    BY DEF Evict, Restrict
  <1>2. DOMAIN Insert(f, i, s) = DOMAIN Evict(f) \cup {i}
    BY DEF Insert
  <1>3. Insert(f, i, s) = [j \in DOMAIN Insert(f, i, s) |-> Insert(f, i, s)[j]]
    BY DEF Insert
  <1>4. \A j \in DOMAIN Insert(f, i, s) :
          Insert(f, i, s)[j] = IF j = i THEN s ELSE f[j]
    BY <1>2 DEF Insert
  <1> QED BY <1>1, <1>2, <1>3, <1>4

LEMMA InitInv == Init => Inv
  <1> SUFFICES ASSUME Init PROVE Inv
    OBVIOUS
  <1>1. TypeOK
    BY SchedulerAssumption DEF Init, TypeOK, NoServer
  <1>2. ProgressInv
    BY SchedulerAssumption, ConvFacts DEF Init, ProgressInv, Progress
  <1> QED BY <1>1, <1>2 DEF Inv

(* What posting a request of c does to the types, f being the cache the    *)
(* new id is put into.                                                     *)
LEMMA PostType ==
  ASSUME NEW c \in Conv, NEW s \in Servers, NEW f,
         TypeOK,
         DOMAIN f \subseteq DOMAIN cache,
         \A j \in DOMAIN f : f[j] = cache[j],
         Post(c, s, f)
  PROVE  /\ nextId' \in Nat \ {0}
         /\ rid' \in [Conv -> 0 .. nextId' - 1]
         /\ server' \in [Conv -> Servers \cup {NoServer}]
         /\ DOMAIN cache' \subseteq 1 .. nextId' - 1
         /\ cache' \in [DOMAIN cache' -> Servers]
  <1>1. nextId' = nextId + 1 /\ nextId \in Nat \ {0}
    BY DEF Post, TypeOK
  <1>2. rid' = [rid EXCEPT ![c] = nextId] /\ server' = [server EXCEPT ![c] = s]
    BY DEF Post
  <1>3. cache' = Insert(f, nextId, s)
    BY DEF Post
  <1>4. rid \in [Conv -> 0 .. nextId - 1] /\ server \in [Conv -> Servers \cup {NoServer}]
    BY DEF TypeOK
  <1>5. DOMAIN cache \subseteq 1 .. nextId - 1 /\ \A j \in DOMAIN cache : cache[j] \in Servers
    BY DEF TypeOK
  <1>6. DOMAIN cache' \subseteq 1 .. nextId' - 1
    BY <1>1, <1>3, <1>5, InsertFacts
  <1>7. \A j \in DOMAIN cache' : cache'[j] \in Servers
    BY <1>3, <1>5, InsertFacts
  <1>8. cache' = [j \in DOMAIN cache' |-> cache'[j]]
    BY <1>3, InsertFacts
  <1>9. cache' \in [DOMAIN cache' -> Servers]
    BY <1>7, <1>8
  <1> QED BY <1>1, <1>2, <1>4, <1>6, <1>9

(* A step of conversation c that only touches c, and not the status, keeps *)
(* the progress of the others.                                             *)
LEMMA ProgressFrame ==
  ASSUME NEW c \in Conv, ProgressInv, TypeOK,
         status' = status, batch' = batch,
         \A d \in Conv \ {c} : /\ pc'[d] = pc[d] /\ rid'[d] = rid[d]
                               /\ depth'[d] = depth[d] /\ (done'[d] <=> done[d]),
         Progress(c)'
  PROVE  ProgressInv'
  <1> SUFFICES ASSUME NEW d \in Conv PROVE Progress(d)'
    BY DEF ProgressInv
  <1>1. CASE d = c
    BY <1>1
  <1>2. CASE d # c
    <2>1. pc'[d] = pc[d] /\ rid'[d] = rid[d] /\ depth'[d] = depth[d] /\ (done'[d] <=> done[d])
      BY <1>2
    <2>2. Progress(d)
      BY DEF ProgressInv
    <2> QED BY <2>1, <2>2 DEF Progress
  <1> QED BY <1>1, <1>2

(* A conversation that is under way belongs to the running call.           *)
LEMMA UnderWay ==
  ASSUME NEW c \in Conv, Inv, pc[c] \notin {"idle", "ended"}
  PROVE  c[1] = batch /\ status # "idle" /\ ~done[c]
  <1>1. Progress(c) /\ batch \in Int /\ c[1] \in Int
    BY ConvFacts, SchedulerAssumption DEF Inv, TypeOK, ProgressInv
  <1>2. ~(c[1] > batch) /\ ~(c[1] < batch)
    BY <1>1 DEF Progress
  <1>3. c[1] = batch
    BY <1>1, <1>2
  <1>4. ~done[c]
    BY <1>1 DEF Progress
  <1> QED BY <1>1, <1>3, <1>4 DEF Progress

(* The done event after the last statement of the task, by the depth read. *)
LEMMA SetDoneFacts ==
  ASSUME NEW c \in Conv, NEW d, TypeOK, SetDone(c, d)
  PROVE  /\ done' \in [Conv -> BOOLEAN]
         /\ \A e \in Conv \ {c} : done'[e] <=> done[e]
         /\ d = 0 => done'[c]
         /\ d # 0 => (done'[c] <=> done[c])
  <1>1. done \in [Conv -> BOOLEAN]
    BY DEF TypeOK
  <1>2. done' = [done EXCEPT ![c] = done[c] \/ d = 0]
    BY DEF SetDone
  <1>3. done' \in [Conv -> BOOLEAN]
    BY <1>1, <1>2
  <1>4. done'[c] = (done[c] \/ d = 0)
    BY <1>1, <1>2
  <1>5. \A e \in Conv \ {c} : done'[e] <=> done[e]
    BY <1>1, <1>2
  <1> QED BY <1>1, <1>3, <1>4, <1>5

LEMMA GenerateInv ==
  ASSUME Inv, Generate PROVE Inv'
  <1>1. TypeOK'
    <2>1. batch' \in 0 .. Batches
      BY SchedulerAssumption DEF Inv, TypeOK, Generate
    <2> QED BY <2>1 DEF Inv, TypeOK, Generate
  <1>2. ProgressInv'
    <2> SUFFICES ASSUME NEW c \in Conv PROVE Progress(c)'
      BY DEF ProgressInv
    <2>1. Progress(c) /\ batch \in Nat /\ c[1] \in Int
      BY ConvFacts, SchedulerAssumption DEF Inv, ProgressInv, TypeOK
    <2>2. /\ pc'[c] = IF c[1] = batch + 1 THEN "submitted" ELSE pc[c]
          /\ depth'[c] = IF c[1] = batch + 1 THEN 1 ELSE depth[c]
          /\ rid' = rid /\ done' = done /\ status = "idle" /\ status' = "running"
          /\ batch' = batch + 1
      BY DEF Generate
    <2>3. CASE c[1] = batch + 1
      BY <2>1, <2>2, <2>3 DEF Progress
    <2>4. CASE c[1] # batch + 1
      BY <2>1, <2>2, <2>4 DEF Progress
    <2> QED BY <2>3, <2>4
  <1> QED BY <1>1, <1>2 DEF Inv

LEMMA StartInv ==
  ASSUME NEW c \in Conv, Inv, Start(c) PROVE Inv'
  <1> USE DEF Inv
  <1>0. pc[c] = "submitted" /\ Progress(c) /\ c[1] = batch /\ status # "idle" /\ depth[c] = 1
    BY UnderWay DEF Start, StartFirst, StartNext, StartFails, ProgressInv, Progress
  <1>1. ASSUME NEW s \in Servers, NEW f, Post(c, s, f),
               DOMAIN f \subseteq DOMAIN cache, \A j \in DOMAIN f : f[j] = cache[j],
               load' \in [Servers -> Nat],
               UNCHANGED <<status, batch, depth, done, messages, tool>>
        PROVE  Inv'
    <2>1. TypeOK'
      BY <1>1, PostType DEF TypeOK, Post
    <2>2. Progress(c)'
      BY <1>0, <1>1, ConvFacts DEF Progress, Post, TypeOK
    <2>3. ProgressInv'
      BY <1>1, <2>2, ProgressFrame DEF Post, TypeOK
    <2> QED BY <2>1, <2>3
  <1>2. CASE StartFirst(c)
    <2>1. PICK s \in Servers : /\ load' = [load EXCEPT ![s] = @ + 1]
                               /\ Post(c, s, cache)
      BY <1>2 DEF StartFirst
    <2>2. load' \in [Servers -> Nat]
      BY <2>1 DEF TypeOK
    <2> QED BY <1>1, <1>2, <2>1, <2>2 DEF StartFirst
  <1>3. CASE StartNext(c)
    <2> DEFINE f == Restrict(cache, DOMAIN cache \ {rid[c]})
    <2>1. DOMAIN f \subseteq DOMAIN cache /\ \A j \in DOMAIN f : f[j] = cache[j]
      BY DEF Restrict
    <2>2. cache[rid[c]] \in Servers /\ load' \in [Servers -> Nat]
      BY <1>3 DEF StartNext, TypeOK
    <2>3. Post(c, cache[rid[c]], f)
      BY <1>3 DEF StartNext
    <2> HIDE DEF f
    <2> QED BY <1>1, <1>3, <2>1, <2>2, <2>3 DEF StartNext
  <1>4. CASE StartFails(c)
    <2>1. TypeOK'
      BY <1>4 DEF StartFails, TypeOK
    <2>2. Progress(c)'
      BY <1>0, <1>4 DEF StartFails, Progress, TypeOK
    <2>3. ProgressInv'
      BY <1>4, <2>2, ProgressFrame DEF StartFails, TypeOK
    <2> QED BY <2>1, <2>3
  <1> QED BY <1>2, <1>3, <1>4 DEF Start

LEMMA AnswerInv ==
  ASSUME NEW c \in Conv, Inv, Answer(c) PROVE Inv'
  <1> USE DEF Inv
  <1>0. /\ pc[c] = "posted" /\ Progress(c) /\ c[1] = batch /\ status # "idle"
        /\ depth[c] = 1 /\ ~done[c]
    BY UnderWay DEF Answer, RequestFails, AnswerEnds, AnswerCallsTools, ProgressInv, Progress
  <1>1. CASE RequestFails(c) \/ AnswerEnds(c)
    <2>1. /\ depth' = [depth EXCEPT ![c] = @ - 1] /\ SetDone(c, depth'[c])
          /\ pc' = [pc EXCEPT ![c] = "ended"]
          /\ messages' \in {messages, [messages EXCEPT ![c] = @ + 1]}
          /\ UNCHANGED <<status, batch, rid, server, tool, load, cache, nextId>>
      BY <1>1 DEF RequestFails, AnswerEnds
    <2>2. depth'[c] = 0 /\ depth' \in [Conv -> Nat]
      BY <1>0, <2>1 DEF TypeOK
    <2>3. /\ done' \in [Conv -> BOOLEAN] /\ done'[c]
          /\ \A e \in Conv \ {c} : done'[e] <=> done[e]
      BY <2>1, <2>2, SetDoneFacts
    <2>4. TypeOK'
      BY <2>1, <2>2, <2>3 DEF TypeOK
    <2>5. Progress(c)'
      BY <1>0, <2>1, <2>2, <2>3 DEF Progress, TypeOK
    <2> QED BY <2>1, <2>3, <2>4, <2>5, ProgressFrame DEF TypeOK
  <1>2. ASSUME NEW S \in SUBSET Tools \ {{}}, AnswerCallsTools(c, S) PROVE Inv'
    <2>1. TypeOK'
      BY <1>0, <1>2 DEF AnswerCallsTools, TypeOK
    <2>2. Progress(c)'
      BY <1>0, <1>2 DEF AnswerCallsTools, Progress, TypeOK
    <2> QED BY <1>2, <2>1, <2>2, ProgressFrame DEF AnswerCallsTools, TypeOK
  <1> QED BY <1>1, <1>2 DEF Answer

LEMMA ToolInv ==
  ASSUME NEW c \in Conv, Inv, ToolStep(c) PROVE Inv'
  <1>1. PICK t \in Tools, r \in {"open", "ok", "error", "raised"} :
          /\ tool' = [tool EXCEPT ![c][t] = r]
          /\ UNCHANGED <<status, batch, pc, rid, server, depth, done, messages,
                         load, cache, nextId>>
    BY DEF ToolStep, ToolCreate, ToolEnds, ToolRaises
  <1>2. TypeOK'
    BY <1>1 DEF Inv, TypeOK
  <1> QED BY <1>1, <1>2 DEF Inv, ProgressInv, Progress

LEMMA ResumeInv ==
  ASSUME NEW c \in Conv, Inv, Resume(c) PROVE Inv'
  <1> USE DEF Inv
  <1>0. /\ pc[c] = "tools" /\ Progress(c) /\ c[1] = batch /\ status # "idle"
        /\ depth[c] = 0 /\ ~done[c]
    BY UnderWay DEF Resume, CallbackRaises, CallbackGivesUp, CallbackResubmits, ProgressInv, Progress
  <1>1. CASE CallbackRaises(c) \/ CallbackGivesUp(c)
    <2>1. /\ SetDone(c, depth[c])
          /\ pc' = [pc EXCEPT ![c] = "ended"]
          /\ UNCHANGED <<status, batch, rid, server, depth, messages, tool, load,
                         cache, nextId>>
      BY <1>1 DEF CallbackRaises, CallbackGivesUp
    <2>2. /\ done' \in [Conv -> BOOLEAN] /\ done'[c]
          /\ \A e \in Conv \ {c} : done'[e] <=> done[e]
      BY <1>0, <2>1, SetDoneFacts
    <2>3. TypeOK'
      BY <2>1, <2>2 DEF TypeOK
    <2>4. Progress(c)'
      BY <1>0, <2>1, <2>2 DEF Progress, TypeOK
    <2> QED BY <2>1, <2>2, <2>3, <2>4, ProgressFrame DEF TypeOK
  <1>2. CASE CallbackResubmits(c)
    <2>1. Cardinality(Called(c)) \in Nat
      BY SchedulerAssumption, FS_Subset, FS_CardinalityType DEF Called
    <2>2. depth'[c] = 1 /\ depth' \in [Conv -> Nat]
      BY <1>0, <1>2 DEF CallbackResubmits, TypeOK
    <2>3. /\ done' \in [Conv -> BOOLEAN] /\ ~done'[c]
          /\ \A e \in Conv \ {c} : done'[e] <=> done[e]
      BY <1>0, <1>2, <2>2, SetDoneFacts DEF CallbackResubmits
    <2>4. TypeOK'
      BY <1>2, <2>1, <2>2, <2>3 DEF CallbackResubmits, TypeOK
    <2>5. Progress(c)'
      BY <1>0, <1>2, <2>2, <2>3 DEF CallbackResubmits, Progress, TypeOK
    <2> QED BY <1>2, <2>3, <2>4, <2>5, ProgressFrame DEF CallbackResubmits, TypeOK
  <1> QED BY <1>1, <1>2 DEF Resume

LEMMA ReturnInv ==
  ASSUME Inv, Return PROVE Inv'
  <1>1. TypeOK'
    BY DEF Inv, TypeOK, Return
  <1>2. ASSUME NEW c \in Conv PROVE Progress(c)'
    <2>1. Progress(c)
      BY DEF Inv, ProgressInv
    <2>2. c[1] = batch => done[c]
      BY ConvFacts DEF Return, AllDone, Batch
    <2>3. UNCHANGED <<batch, pc, rid, depth, done>>
      BY DEF Return
    <2> QED BY <2>1, <2>2, <2>3 DEF Progress
  <1> QED BY <1>1, <1>2 DEF Inv, ProgressInv

LEMMA NextInv == Inv /\ [Next]_vars => Inv'
  <1> SUFFICES ASSUME Inv, [Next]_vars PROVE Inv'
    OBVIOUS
  <1>1. CASE Generate
    BY <1>1, GenerateInv
  <1>2. CASE Return
    BY <1>2, ReturnInv
  <1>3. CASE Finished \/ UNCHANGED vars
    BY <1>3 DEF Finished, vars, Inv, TypeOK, ProgressInv, Progress
  <1>4. ASSUME NEW c \in Conv, Step(c) PROVE Inv'
    BY <1>4, StartInv, AnswerInv, ToolInv, ResumeInv DEF Step
  <1> QED BY <1>1, <1>2, <1>3, <1>4 DEF Next

(* Every reachable state is well typed; in particular __depth__ is never   *)
(* negative and the cache only holds ids that were issued.                 *)
THEOREM TypeCorrect == Spec => []TypeOK
  <1>1. Inv => TypeOK
    BY DEF Inv
  <1> QED BY <1>1, InitInv, NextInv, PTL DEF Spec

(* Which tool calls of a conversation exist, by what it is at: none        *)
(* between two turns, and none unfinished after the last unless one        *)
(* raised.                                                                 *)
Tooled(c) ==
  /\ pc[c] \in {"idle", "submitted", "posted", "dead"} =>
       \A t \in Tools : tool[c][t] = "off"
  /\ pc[c] = "ended" => Running(c) = {} \/ Raised(c)

ToolsInv == \A c \in Conv : Tooled(c)

LEMMA ToolsStep == Inv /\ ToolsInv /\ [Next]_vars => ToolsInv'
  <1> SUFFICES ASSUME Inv, ToolsInv, [Next]_vars PROVE ToolsInv'
    OBVIOUS
  <1>1. /\ pc \in [Conv -> {"idle", "submitted", "posted", "tools", "ended", "dead"}]
        /\ tool \in [Conv -> [Tools -> {"off", "called", "open", "ok", "error", "raised"}]]
    BY DEF Inv, TypeOK
  <1>2. ASSUME NEW c \in Conv, Tooled(c)',
               \A d \in Conv \ {c} : pc'[d] = pc[d] /\ tool'[d] = tool[d]
        PROVE  ToolsInv'
    <2> SUFFICES ASSUME NEW d \in Conv PROVE Tooled(d)'
      BY DEF ToolsInv
    <2>1. CASE d = c
      BY <1>2, <2>1
    <2>2. CASE d # c
      BY <1>2, <2>2 DEF ToolsInv, Tooled, Running, Raised
    <2> QED BY <2>1, <2>2
  <1>3. ASSUME NEW c \in Conv, Start(c) PROVE ToolsInv'
    <2>1. pc[c] = "submitted" /\ tool' = tool
      BY <1>3 DEF Start, StartFirst, StartNext, StartFails
    <2>2. PICK to \in {"posted", "dead"} : pc' = [pc EXCEPT ![c] = to]
      BY <1>3 DEF Start, StartFirst, StartNext, StartFails, Post
    <2>3. pc'[c] # "ended" /\ \A d \in Conv \ {c} : pc'[d] = pc[d]
      BY <1>1, <2>2
    <2>4. Tooled(c)'
      BY <2>1, <2>3 DEF ToolsInv, Tooled
    <2> QED BY <1>2, <2>1, <2>3, <2>4
  <1>4. ASSUME NEW c \in Conv, Answer(c) PROVE ToolsInv'
    <2>1. pc[c] = "posted" /\ \A t \in Tools : tool[c][t] = "off"
      BY <1>4 DEF Answer, RequestFails, AnswerEnds, AnswerCallsTools, ToolsInv, Tooled
    <2>2. CASE RequestFails(c) \/ AnswerEnds(c)
      <3>1. tool' = tool /\ pc' = [pc EXCEPT ![c] = "ended"]
        BY <2>2 DEF RequestFails, AnswerEnds
      <3>2. pc'[c] = "ended" /\ \A d \in Conv \ {c} : pc'[d] = pc[d]
        BY <1>1, <3>1
      <3>3. Tooled(c)'
        BY <2>1, <3>1, <3>2 DEF Tooled, Running
      <3> QED BY <1>2, <3>1, <3>2, <3>3
    <2>3. ASSUME NEW S \in SUBSET Tools \ {{}}, AnswerCallsTools(c, S) PROVE ToolsInv'
      <3>1. pc'[c] = "tools" /\ \A d \in Conv \ {c} : pc'[d] = pc[d] /\ tool'[d] = tool[d]
        BY <1>1, <2>3 DEF AnswerCallsTools
      <3>2. Tooled(c)'
        BY <3>1 DEF Tooled
      <3> QED BY <1>2, <3>1, <3>2
    <2> QED BY <1>4, <2>2, <2>3 DEF Answer
  <1>5. ASSUME NEW c \in Conv, ToolStep(c) PROVE ToolsInv'
    <2>1. PICK t \in Tools, r \in {"open", "ok", "error", "raised"} :
            /\ tool[c][t] \in {"called", "open"}
            /\ tool' = [tool EXCEPT ![c][t] = r]
            /\ pc' = pc
      BY <1>5 DEF ToolStep, ToolCreate, ToolEnds, ToolRaises
    <2>2. /\ \A d \in Conv \ {c} : tool'[d] = tool[d]
          /\ \A u \in Tools \ {t} : tool'[c][u] = tool[c][u]
      BY <1>1, <2>1
    <2>3. t \in Running(c) /\ (Raised(c) => Raised(c)')
      BY <2>1, <2>2 DEF Running, Raised
    <2>4. Tooled(c)
      BY DEF ToolsInv
    <2>5. Tooled(c)'
      BY <2>1, <2>3, <2>4 DEF Tooled
    <2> QED BY <1>2, <2>1, <2>2, <2>5
  <1>6. ASSUME NEW c \in Conv, Resume(c) PROVE ToolsInv'
    <2>1. CASE CallbackRaises(c) \/ CallbackGivesUp(c)
      <3>1. /\ tool' = tool /\ pc' = [pc EXCEPT ![c] = "ended"]
            /\ Running(c) = {} \/ Raised(c)
        BY <2>1 DEF CallbackRaises, CallbackGivesUp, Called, Running
      <3>2. pc'[c] = "ended" /\ \A d \in Conv \ {c} : pc'[d] = pc[d]
        BY <1>1, <3>1
      <3>3. Tooled(c)'
        BY <3>1, <3>2 DEF Tooled, Running, Raised
      <3> QED BY <1>2, <3>1, <3>2, <3>3
    <2>2. CASE CallbackResubmits(c)
      <3>1. /\ pc'[c] = "submitted"
            /\ \A t \in Tools : tool'[c][t] = "off"
            /\ \A d \in Conv \ {c} : pc'[d] = pc[d] /\ tool'[d] = tool[d]
        BY <1>1, <2>2 DEF CallbackResubmits
      <3>2. Tooled(c)'
        BY <3>1 DEF Tooled
      <3> QED BY <1>2, <3>1, <3>2
    <2> QED BY <1>6, <2>1, <2>2 DEF Resume
  <1>7. CASE Generate
    <2>1. batch \in Int /\ tool' = tool
      BY <1>7, SchedulerAssumption DEF Generate, Inv, TypeOK
    <2>2. \A c \in Conv : pc'[c] = pc[c] \/ (pc[c] = "idle" /\ pc'[c] = "submitted")
      <3> SUFFICES ASSUME NEW c \in Conv, c[1] = batch + 1
                   PROVE  pc[c] = "idle" /\ pc'[c] = "submitted"
        BY <1>1, <1>7 DEF Generate
      <3> QED BY <1>7, <2>1 DEF Generate, Inv, ProgressInv, Progress
    <2> QED BY <2>1, <2>2 DEF ToolsInv, Tooled, Running, Raised
  <1>8. CASE Return \/ Finished \/ UNCHANGED vars
    BY <1>8 DEF Return, Finished, vars, ToolsInv, Tooled, Running, Raised
  <1> QED BY <1>3, <1>4, <1>5, <1>6, <1>7, <1>8 DEF Next, Step

(* When the done event of a conversation is set, no request, resubmission  *)
(* or callback of it is outstanding, and no tool call either unless        *)
(* another raised; and it is set when none is.  For every number of tools  *)
(* and every way and order in which they end.                              *)
THEOREM DoneIsEnded == Spec => []DoneMeansEnded
  <1>1. Init => ToolsInv
    BY DEF Init, ToolsInv, Tooled
  <1>2. Inv /\ ToolsInv => DoneMeansEnded
    <2> SUFFICES ASSUME Inv, ToolsInv, NEW c \in Conv
                 PROVE  /\ done[c] => /\ depth[c] = 0
                                      /\ pc[c] \notin {"submitted", "posted", "tools"}
                                      /\ Running(c) = {} \/ Raised(c)
                        /\ rid[c] # 0 /\ depth[c] = 0 /\ pc[c] # "tools" => done[c]
      BY DEF DoneMeansEnded
    <2>1. /\ Progress(c) /\ Tooled(c)
          /\ pc[c] \in {"idle", "submitted", "posted", "tools", "ended", "dead"}
      BY DEF Inv, TypeOK, ProgressInv, ToolsInv
    <2> QED BY <2>1 DEF Progress, Tooled
  <1> QED BY <1>1, <1>2, ToolsStep, InitInv, NextInv, PTL DEF Spec

-----------------------------------------------------------------------------
(* The routes: a request id belongs to one conversation, conversations of  *)
(* later calls have larger ids, and the cache maps latest ids to the       *)
(* servers of their conversations.                                         *)
UniqueIds ==
  \A c, d \in Conv : rid[c] # 0 /\ rid[c] = rid[d] => c = d

OrderedIds ==
  \A c, d \in Conv : c[1] < d[1] /\ rid[d] # 0 => rid[c] < rid[d]

CachedIds ==
  \A i \in DOMAIN cache : \E c \in Conv : rid[c] = i /\ cache[i] = server[c]

IdsInv == UniqueIds /\ OrderedIds /\ CachedIds

(* Every conversation of the running call has its route.  (That entries of *)
(* conversations that ended are kept as well makes no difference: there is *)
(* at most one for each row.)                                              *)
Routed == \A c \in Conv : c[1] = batch /\ rid[c] # 0 => rid[c] \in DOMAIN cache

(* What a posted request of c leaves in the cache: f is the cache without  *)
(* the previous id of c.                                                   *)
LEMMA PostIds ==
  ASSUME NEW c \in Conv, NEW s \in Servers, NEW f,
         TypeOK, IdsInv, ProgressInv, c[1] = batch,
         DOMAIN f = DOMAIN cache \ {rid[c]},
         \A j \in DOMAIN f : f[j] = cache[j],
         Post(c, s, f)
  PROVE  IdsInv'
  <1>1. /\ nextId \in Nat \ {0} /\ rid \in [Conv -> 0 .. nextId - 1]
        /\ server \in [Conv -> Servers \cup {NoServer}]
        /\ DOMAIN cache \subseteq 1 .. nextId - 1
    BY DEF TypeOK
  <1>2. \A d \in Conv : rid'[d] = IF d = c THEN nextId ELSE rid[d]
    BY <1>1 DEF Post
  <1>3. \A d \in Conv : server'[d] = IF d = c THEN s ELSE server[d]
    BY <1>1 DEF Post
  <1>4. cache' = Insert(f, nextId, s)
    BY DEF Post
  <1>5. UniqueIds'
    BY <1>1, <1>2 DEF UniqueIds, IdsInv
  <1>6. OrderedIds'
    <2> SUFFICES ASSUME NEW d \in Conv, NEW e \in Conv, d[1] < e[1], rid'[e] # 0
                 PROVE  rid'[d] < rid'[e]
      BY DEF OrderedIds
    <2>1. CASE d = c
      <3>1. e[1] > batch
        BY <2>1
      <3>2. rid[e] = 0 /\ e # c
        BY <2>1, <3>1 DEF ProgressInv, Progress
      <3> QED BY <1>2, <3>2
    <2>2. CASE d # c
      BY <1>1, <1>2, <2>2 DEF OrderedIds, IdsInv
    <2> QED BY <2>1, <2>2
  <1>7. CachedIds'
    <2> SUFFICES ASSUME NEW i \in DOMAIN cache'
                 PROVE  \E d \in Conv : rid'[d] = i /\ cache'[i] = server'[d]
      BY DEF CachedIds
    <2>1. CASE i = nextId
      BY <1>2, <1>3, <1>4, <2>1, InsertFacts
    <2>2. CASE i # nextId
      <3>1. i \in DOMAIN f /\ cache'[i] = f[i]
        BY <1>4, <2>2, InsertFacts
      <3>2. PICK d \in Conv : rid[d] = i /\ cache[i] = server[d]
        BY <3>1 DEF CachedIds, IdsInv
      <3>3. d # c
        BY <3>1, <3>2
      <3> QED BY <1>2, <1>3, <3>1, <3>2, <3>3
    <2> QED BY <2>1, <2>2
  <1> QED BY <1>5, <1>6, <1>7 DEF IdsInv

(* The heart of the matter: with no more rows than cache entries, posting  *)
(* a request of c evicts no route of the running call.                     *)
LEMMA PostRoutes ==
  ASSUME Cardinality(Rows) <= MaxCacheSize,
         NEW c \in Conv, NEW s \in Servers, NEW f,
         TypeOK, IdsInv, ProgressInv, Routed, c[1] = batch,
         DOMAIN f = DOMAIN cache \ {rid[c]},
         Post(c, s, f), batch' = batch
  PROVE  Routed'
  <1> SUFFICES ASSUME NEW d \in Conv, d[1] = batch, rid'[d] # 0
               PROVE  rid'[d] \in DOMAIN cache'
    BY DEF Routed
  <1>1. /\ nextId \in Nat \ {0} /\ rid \in [Conv -> 0 .. nextId - 1]
        /\ DOMAIN cache \subseteq 1 .. nextId - 1 /\ batch \in 0 .. Batches
    BY DEF TypeOK
  <1>2. rid'[d] = IF d = c THEN nextId ELSE rid[d]
    BY <1>1 DEF Post
  <1>3. cache' = Insert(f, nextId, s)
    BY DEF Post
  <1>4. CASE d = c
    BY <1>2, <1>3, <1>4, InsertFacts
  <1>5. CASE d # c
    <2>1. rid'[d] = rid[d] /\ rid[d] \in DOMAIN f
      BY <1>2, <1>5 DEF Routed, IdsInv, UniqueIds
    <2>2. CASE Cardinality(DOMAIN f) < MaxCacheSize
      BY <1>3, <2>1, <2>2 DEF Insert, Evict
    <2>3. CASE ~(Cardinality(DOMAIN f) < MaxCacheSize)
      <3>1. CASE \E j \in DOMAIN f : j < rid[d]
        BY <1>3, <2>1, <2>3, <3>1 DEF Insert, Evict, Restrict
      <3>2. CASE ~ \E j \in DOMAIN f : j < rid[d]
        <4> DEFINE Others == Rows \ {c[2]}
                   Late == {r \in Others : rid[<<batch, r>>] \in DOMAIN f}
                   idOf == [r \in Late |-> rid[<<batch, r>>]]
        <4>1. \A r \in Rows : <<batch, r>> \in Conv
          <5>1. batch \in 1 .. Batches
            BY ConvFacts
          <5> QED BY <5>1 DEF Conv
        <4>2. \A i \in DOMAIN f : \E r \in Late : idOf[r] = i
          <5> SUFFICES ASSUME NEW i \in DOMAIN f PROVE \E r \in Late : idOf[r] = i
            OBVIOUS
          <5>1. PICK e \in Conv : rid[e] = i
            BY DEF IdsInv, CachedIds
          <5>2. i # 0 /\ i # rid[c] /\ i \in Int /\ rid[d] \in Int /\ ~(i < rid[d])
            BY <1>1, <3>2
          <5>3. e[1] \in Int /\ d[1] \in Int /\ batch \in Int
            BY <1>1, ConvFacts, SchedulerAssumption
          <5>4. ~(e[1] < batch)
            BY <1>2, <1>5, <5>1, <5>2 DEF IdsInv, OrderedIds
          <5>5. ~(e[1] > batch)
            BY <5>1, <5>2 DEF ProgressInv, Progress
          <5>6. e = <<batch, e[2]>> /\ e[2] \in Rows
            BY <5>3, <5>4, <5>5, ConvFacts
          <5>7. e[2] # c[2]
            BY <5>1, <5>2, <5>6, ConvFacts
          <5>8. e[2] \in Late /\ idOf[e[2]] = i
            BY <5>1, <5>6, <5>7
          <5> QED BY <5>8
        <4>3. IsFiniteSet(Late) /\ Cardinality(Late) <= Cardinality(Others)
          <5>1. IsFiniteSet(Others)
            BY SchedulerAssumption, FS_RemoveElement
          <5> QED BY <5>1, FS_Subset
        <4>4. idOf \in Surjection(Late, DOMAIN f)
          BY <4>2, Zenon DEF Surjection
        <4>5. Cardinality(DOMAIN f) <= Cardinality(Late)
          BY <4>3, <4>4, FS_Surjection
        <4>6. Cardinality(Others) = Cardinality(Rows) - 1
          <5>1. c[2] \in Rows /\ IsFiniteSet(Rows)
            BY ConvFacts, SchedulerAssumption
          <5> QED BY <5>1, FS_RemoveElement
        <4>7. /\ Cardinality(Rows) \in Nat /\ Cardinality(Late) \in Nat
              /\ IsFiniteSet(DOMAIN f) /\ Cardinality(DOMAIN f) \in Nat
          <5>1. IsFiniteSet(DOMAIN f)
            BY <4>3, <4>4, FS_Surjection
          <5> QED BY <4>3, <5>1, SchedulerAssumption, FS_CardinalityType
        <4> HIDE DEF Others, Late
        <4> QED BY <2>3, <4>3, <4>5, <4>6, <4>7, SchedulerAssumption
      <3> QED BY <3>1, <3>2
    <2> QED BY <2>2, <2>3
  <1> QED BY <1>4, <1>5

RouteInv == Inv /\ IdsInv /\ Routed

(* Steps that leave the ids, the servers and the cache alone keep the      *)
(* routes, if they do not open a new call.                                 *)
LEMMA RoutesFrame ==
  ASSUME UNCHANGED <<rid, server, cache>>
  PROVE  /\ IdsInv => IdsInv'
         /\ Routed /\ batch' = batch => Routed'
  <1>1. IdsInv => IdsInv'
    BY DEF IdsInv, UniqueIds, OrderedIds, CachedIds
  <1>2. Routed /\ batch' = batch => Routed'
    BY DEF Routed
  <1> QED BY <1>1, <1>2

LEMMA RouteStep ==
  ASSUME Inv, IdsInv, [Next]_vars
  PROVE  /\ IdsInv'
         /\ Cardinality(Rows) <= MaxCacheSize /\ Routed => Routed'
  <1> USE DEF Inv
  <1>1. CASE UNCHANGED <<rid, server, cache>> /\ batch' = batch
    BY <1>1, RoutesFrame
  <1>2. CASE Generate
    <2>1. IdsInv'
      BY <1>2, RoutesFrame DEF Generate
    <2>2. ASSUME NEW c \in Conv, c[1] = batch + 1 PROVE rid'[c] = 0
      <3>1. c[1] > batch
        BY <2>2, SchedulerAssumption DEF TypeOK
      <3>2. rid[c] = 0
        BY <3>1 DEF ProgressInv, Progress
      <3> QED BY <1>2, <3>2 DEF Generate
    <2> QED BY <1>2, <2>1, <2>2 DEF Generate, Routed
  <1>3. ASSUME NEW c \in Conv, StartFirst(c) \/ StartNext(c)
        PROVE  /\ IdsInv'
               /\ Cardinality(Rows) <= MaxCacheSize /\ Routed => Routed'
    <2>1. c[1] = batch
      BY <1>3, UnderWay DEF StartFirst, StartNext
    <2>2. PICK s \in Servers, f \in {cache, Restrict(cache, DOMAIN cache \ {rid[c]})} :
            /\ DOMAIN f = DOMAIN cache \ {rid[c]}
            /\ \A j \in DOMAIN f : f[j] = cache[j]
            /\ Post(c, s, f)
      <3>1. CASE StartFirst(c)
        <4>1. DOMAIN cache = DOMAIN cache \ {rid[c]}
          <5>1. rid[c] = 0
            BY <3>1 DEF StartFirst
          <5>2. DOMAIN cache \subseteq 1 .. nextId - 1 /\ nextId \in Nat
            BY DEF TypeOK
          <5>3. 0 \notin DOMAIN cache
            BY <5>2
          <5> QED BY <5>1, <5>3
        <4> QED BY <3>1, <4>1 DEF StartFirst
      <3>2. CASE StartNext(c)
        <4>1. cache[rid[c]] \in Servers
          BY <3>2 DEF StartNext, TypeOK
        <4> QED BY <3>2, <4>1 DEF StartNext, Restrict
      <3> QED BY <1>3, <3>1, <3>2
    <2>3. batch' = batch
      BY <1>3 DEF StartFirst, StartNext
    <2> QED BY <2>1, <2>2, <2>3, PostIds, PostRoutes
  <1>4. ASSUME NEW c \in Conv, Step(c), ~(StartFirst(c) \/ StartNext(c))
        PROVE  UNCHANGED <<rid, server, cache, batch>>
    <2>1. CASE Answer(c)
      BY <2>1 DEF Answer, RequestFails, AnswerEnds, AnswerCallsTools
    <2>2. CASE ToolStep(c)
      BY <2>2 DEF ToolStep, ToolCreate, ToolEnds, ToolRaises
    <2>3. CASE Resume(c)
      BY <2>3 DEF Resume, CallbackRaises, CallbackGivesUp, CallbackResubmits
    <2>4. CASE StartFails(c)
      BY <2>4 DEF StartFails
    <2> QED BY <1>4, <2>1, <2>2, <2>3, <2>4 DEF Step, Start
  <1>5. CASE Return \/ Finished \/ UNCHANGED vars
    BY <1>1, <1>5 DEF Return, Finished, vars
  <1> QED BY <1>1, <1>2, <1>3, <1>4, <1>5 DEF Next

LEMMA InitRoutes == Init => RouteInv
  <1> SUFFICES ASSUME Init PROVE IdsInv /\ Routed
    BY InitInv DEF RouteInv
  <1> QED BY DEF Init, IdsInv, UniqueIds, OrderedIds, CachedIds, Routed

(* The assertion of every resubmission holds, provided that the cache has  *)
(* an entry for each row of a batch.                                       *)
THEOREM RouteAlwaysKnown ==
  Cardinality(Rows) <= MaxCacheSize => (Spec => []RouteKnown)
  <1> SUFFICES ASSUME Cardinality(Rows) <= MaxCacheSize PROVE Spec => []RouteKnown
    OBVIOUS
  <1>1. RouteInv /\ [Next]_vars => RouteInv'
    BY NextInv, RouteStep DEF RouteInv
  <1>2. RouteInv => RouteKnown
    BY UnderWay DEF RouteInv, Routed, RouteKnown
  <1> QED BY <1>1, <1>2, InitRoutes, PTL DEF Spec

(* Whatever the size of the cache, a conversation never changes its server.*)
THEOREM StaysWithServer == Spec => Sticky
  <1>1. Inv /\ IdsInv /\ [Next]_vars => Inv' /\ IdsInv'
    BY NextInv, RouteStep
  <1>2. ASSUME Inv, IdsInv, [Next]_vars, NEW c \in Conv, rid[c] # 0
        PROVE  server'[c] = server[c]
    <2>1. CASE UNCHANGED server
      BY <2>1
    <2>2. ASSUME NEW d \in Conv, StartFirst(d) PROVE server'[c] = server[c]
      BY <1>2, <2>2 DEF StartFirst, Post, Inv, TypeOK
    <2>3. ASSUME NEW d \in Conv, StartNext(d) PROVE server'[c] = server[c]
      <3>1. cache[rid[d]] = server[d]
        <4>1. rid[d] # 0 /\ rid[d] \in DOMAIN cache
          BY <2>3 DEF StartNext
        <4>2. PICK e \in Conv : rid[e] = rid[d] /\ cache[rid[d]] = server[e]
          BY <1>2, <4>1 DEF IdsInv, CachedIds
        <4>3. e = d
          BY <1>2, <4>1, <4>2 DEF IdsInv, UniqueIds
        <4> QED BY <4>2, <4>3
      <3> QED BY <2>3, <3>1 DEF StartNext, Post, Inv, TypeOK
    <2>4. ASSUME NEW d \in Conv, Answer(d) \/ ToolStep(d) \/ Resume(d) \/ StartFails(d)
          PROVE  UNCHANGED server
      <3>1. CASE Answer(d)
        BY <3>1 DEF Answer, RequestFails, AnswerEnds, AnswerCallsTools
      <3>2. CASE ToolStep(d)
        BY <3>2 DEF ToolStep, ToolCreate, ToolEnds, ToolRaises
      <3>3. CASE Resume(d)
        BY <3>3 DEF Resume, CallbackRaises, CallbackGivesUp, CallbackResubmits
      <3> QED BY <2>4, <3>1, <3>2, <3>3 DEF StartFails
    <2>5. CASE Generate \/ Return \/ Finished \/ UNCHANGED vars
      BY <2>1, <2>5 DEF Generate, Return, Finished, vars
    <2> QED BY <1>2, <2>1, <2>2, <2>3, <2>4, <2>5 DEF Next, Step, Start
  <1>3. Inv /\ IdsInv /\ [Next]_vars
          => [\A c \in Conv : rid[c] # 0 => server'[c] = server[c]]_vars
    BY <1>2
  <1>4. Init => Inv /\ IdsInv
    BY InitRoutes DEF RouteInv
  <1> QED BY <1>1, <1>3, <1>4, PTL DEF Spec, Sticky

(* No server is given two conversations more than another.                 *)
THEOREM LoadStaysEven == Spec => []ConversationsSpread
  <1> DEFINE Even == load \in [Servers -> Nat] /\ ConversationsSpread
  <1>1. Init => Even
    BY DEF Init, ConversationsSpread
  <1>2. ASSUME Even, [Next]_vars PROVE Even'
    <2>1. CASE UNCHANGED load
      BY <1>2, <2>1 DEF ConversationsSpread
    <2>2. ASSUME NEW c \in Conv, StartFirst(c) PROVE Even'
      <3>1. PICK s \in Servers : IsTop(s) /\ load' = [load EXCEPT ![s] = @ + 1]
        BY <2>2 DEF StartFirst
      <3>2. load' \in [Servers -> Nat]
        BY <1>2, <3>1
      <3>3. \A o \in Servers : load[s] <= load[o]
        BY <1>2, <3>1 DEF IsTop
      <3> QED BY <1>2, <3>1, <3>2, <3>3 DEF ConversationsSpread
    <2>3. ASSUME NEW c \in Conv, Step(c), ~StartFirst(c) PROVE UNCHANGED load
      <3>1. CASE Answer(c)
        BY <3>1 DEF Answer, RequestFails, AnswerEnds, AnswerCallsTools
      <3>2. CASE ToolStep(c)
        BY <3>2 DEF ToolStep, ToolCreate, ToolEnds, ToolRaises
      <3>3. CASE Resume(c)
        BY <3>3 DEF Resume, CallbackRaises, CallbackGivesUp, CallbackResubmits
      <3>4. CASE StartNext(c) \/ StartFails(c)
        BY <3>4 DEF StartNext, StartFails
      <3> QED BY <2>3, <3>1, <3>2, <3>3, <3>4 DEF Step, Start
    <2>4. CASE Generate \/ Return \/ Finished \/ UNCHANGED vars
      BY <2>1, <2>4 DEF Generate, Return, Finished, vars
    <2> QED BY <1>2, <2>1, <2>2, <2>3, <2>4 DEF Next
  <1>3. Even => ConversationsSpread
    OBVIOUS
  <1> QED BY <1>1, <1>2, <1>3, PTL DEF Spec

-----------------------------------------------------------------------------
(* The conversations that are open in the contract.                        *)
Open == {c \in Conv : c[1] <= batch /\ ~done[c]}

(* A step of one conversation is, for the caller, either nothing or a step *)
(* of that open conversation.                                              *)
LEMMA ConverseStep ==
  ASSUME NEW c \in Conv, Inv, c[1] = batch, ~done[c],
         UNCHANGED <<status, batch>>,
         messages' = [messages EXCEPT ![c] = messages'[c]],
         messages'[c] >= messages[c],
         \A d \in Conv \ {c} : done'[d] <=> done[d]
  PROVE  Contract!Converse(c)
  <1>1. c[1] <= batch
    BY SchedulerAssumption DEF Inv, TypeOK
  <1>2. c \in Open
    BY <1>1 DEF Open
  <1>3. Open' \in {Open, Open \ {c}}
    <2>1. CASE done'[c]
      <3>1. Open' = Open \ {c}
        BY <2>1 DEF Open
      <3> QED BY <3>1
    <2>2. CASE ~done'[c]
      <3>1. Open' = Open
        BY <2>2 DEF Open
      <3> QED BY <3>1
    <2> QED BY <2>1, <2>2
  <1> QED BY <1>2, <1>3 DEF Contract!Converse, Open

LEMMA StepRefines ==
  ASSUME Inv, [Next]_vars PROVE [Contract!Next]_(Contract!vars)
  <1> USE DEF Inv
  <1>0. batch \in Int /\ \A c \in Conv : c[1] \in Int
    BY ConvFacts, SchedulerAssumption DEF TypeOK
  <1>1. CASE Generate
    <2>1. Open' = Batch(batch + 1)
      <3>1. \A c \in Conv : c[1] \in Int /\ c[2] \in Rows /\ c = <<c[1], c[2]>>
        BY ConvFacts
      <3>2. \A c \in Conv : c[1] <= batch => done[c]
        <4> SUFFICES ASSUME NEW c \in Conv, c[1] <= batch PROVE done[c]
          OBVIOUS
        <4>1. c[1] < batch \/ c[1] = batch
          BY <1>0
        <4>2. Progress(c) /\ status = "idle"
          BY <1>1 DEF ProgressInv, Generate
        <4> QED BY <4>1, <4>2 DEF Progress
      <3>3. \A c \in Conv : c[1] = batch + 1 => ~done[c]
        BY <1>1, <3>1, SchedulerAssumption DEF ProgressInv, Progress, TypeOK
      <3>4. batch' = batch + 1 /\ done' = done /\ batch \in Nat /\ batch + 1 \in 1 .. Batches
        BY <1>1, SchedulerAssumption DEF Generate, TypeOK
      <3>5. Batch(batch + 1) \subseteq Conv
        BY <3>4 DEF Batch, Conv
      <3>6. ASSUME NEW c \in Conv
            PROVE  c \in Open' <=> c \in Batch(batch + 1)
        <4>1. c \in Batch(batch + 1) <=> c[1] = batch + 1
          BY <3>1 DEF Batch
        <4>2. c \in Open' <=> c[1] <= batch + 1 /\ ~done[c]
          BY <3>4 DEF Open
        <4>3. c[1] <= batch + 1 <=> c[1] <= batch \/ c[1] = batch + 1
          BY <3>1, <3>4
        <4> QED BY <3>2, <3>3, <4>1, <4>2, <4>3
      <3> QED BY <3>5, <3>6 DEF Open
    <2>2. Contract!Begin
      BY <1>1, <2>1 DEF Generate, Contract!Begin, Open, Batch, Contract!Batch
    <2> QED BY <2>2 DEF Contract!Next
  <1>2. CASE Return
    <2>1. Open = {} /\ Open' = Open
      <3>1. \A c \in Conv : c[1] <= batch => done[c]
        <4> SUFFICES ASSUME NEW c \in Conv, c[1] <= batch PROVE done[c]
          OBVIOUS
        <4>1. CASE c[1] = batch
          BY <1>2, <4>1, ConvFacts DEF Return, AllDone, Batch
        <4>2. CASE c[1] # batch
          <5>1. c[1] < batch
            BY <1>0, <4>2
          <5> QED BY <5>1 DEF ProgressInv, Progress
        <4> QED BY <4>1, <4>2
      <3> QED BY <1>2, <3>1 DEF Open, Return
    <2>2. Contract!End
      BY <1>2, <2>1 DEF Return, AllDone, Answered, Contract!End, Open, Batch, Contract!Batch
    <2> QED BY <2>2 DEF Contract!Next
  <1>3. CASE Finished \/ UNCHANGED vars
    BY <1>3 DEF Finished, vars, Contract!vars
  <1>4. ASSUME NEW c \in Conv, Step(c) PROVE [Contract!Next]_(Contract!vars)
    <2>1. CASE Start(c) \/ ToolStep(c)
      <3>1. UNCHANGED <<status, batch, done, messages>>
        <4>1. CASE Start(c)
          BY <4>1 DEF Start, StartFirst, StartNext, StartFails
        <4>2. CASE ToolStep(c)
          BY <4>2 DEF ToolStep, ToolCreate, ToolEnds, ToolRaises
        <4> QED BY <2>1, <4>1, <4>2
      <3> QED BY <3>1 DEF Contract!vars
    <2>2. ASSUME pc[c] \notin {"idle", "ended"}, UNCHANGED <<status, batch>>,
                 NEW n \in Nat, messages' = [messages EXCEPT ![c] = @ + n],
                 \A d \in Conv \ {c} : done'[d] <=> done[d]
          PROVE  Contract!Next
      <3>1. c[1] = batch /\ ~done[c]
        BY <2>2, UnderWay
      <3>2. messages'[c] >= messages[c] /\ messages' = [messages EXCEPT ![c] = messages'[c]]
        BY <2>2 DEF TypeOK
      <3>3. Contract!Converse(c)
        BY <2>2, <3>1, <3>2, ConverseStep
      <3>4. c \in Contract!Conv
        BY DEF Conv, Contract!Conv
      <3> QED BY <3>3, <3>4 DEF Contract!Next
    <2>3. messages = [messages EXCEPT ![c] = @ + 0]
      BY DEF TypeOK
    <2>4. CASE RequestFails(c) \/ CallbackRaises(c) \/ CallbackGivesUp(c)
      <3>1. PICK d : SetDone(c, d)
        BY <2>4 DEF RequestFails, CallbackRaises, CallbackGivesUp
      <3> QED BY <2>2, <2>3, <2>4, <3>1, SetDoneFacts
              DEF RequestFails, CallbackRaises, CallbackGivesUp
    <2>5. CASE AnswerEnds(c)
      <3>1. PICK d : SetDone(c, d)
        BY <2>5 DEF AnswerEnds
      <3> QED BY <2>2, <2>5, <3>1, SetDoneFacts DEF AnswerEnds
    <2>6. CASE \E S \in SUBSET Tools \ {{}} : AnswerCallsTools(c, S)
      BY <2>2, <2>6 DEF AnswerCallsTools
    <2>7. CASE CallbackResubmits(c)
      <3>1. PICK d : SetDone(c, d)
        BY <2>7 DEF CallbackResubmits
      <3>2. Cardinality(Called(c)) \in Nat
        BY SchedulerAssumption, FS_Subset, FS_CardinalityType DEF Called
      <3> QED BY <2>2, <2>7, <3>1, <3>2, SetDoneFacts DEF CallbackResubmits
    <2> QED BY <1>4, <2>1, <2>4, <2>5, <2>6, <2>7 DEF Step, Answer, Resume
  <1> QED BY <1>1, <1>2, <1>3, <1>4 DEF Next

(* The event loop with its cache, heap, depths and tools implements the    *)
(* contract of generate_sequences: it returns no conversation early, and   *)
(* never changes one that was returned.                                    *)
THEOREM SchedulerRefinesRollout == Spec => ImplementsRollout
  <1>1. Init => Contract!Init
    BY SchedulerAssumption, ConvFacts DEF Init, Contract!Init, Conv, Contract!Conv
  <1> QED BY <1>1, InitInv, NextInv, StepRefines, PTL
          DEF Spec, ImplementsRollout, Contract!Spec

-----------------------------------------------------------------------------
(* The cache stays within its size: what is inserted into a full cache     *)
(* takes the place of the oldest entry.                                    *)
LEMMA Oldest ==
  ASSUME NEW S, S \subseteq Nat, S # {}
  PROVE  \E i \in S : \A j \in S : ~(j < i)
  <1>1. \E i \in S : \A j \in S : ~(<<j, i>> \in OpToRel(<, Nat))
    BY WFMin, NatLessThanWellFounded, Zenon
  <1>2. PICK i \in S : \A j \in S : ~(<<j, i>> \in OpToRel(<, Nat))
    BY <1>1
  <1>3. \A j \in S : j < i => <<j, i>> \in OpToRel(<, Nat)
    BY DEF OpToRel
  <1> QED BY <1>2, <1>3

CacheFits(f) == IsFiniteSet(DOMAIN f) /\ Cardinality(DOMAIN f) <= MaxCacheSize

LEMMA InsertFits ==
  ASSUME NEW f, DOMAIN f \subseteq Nat, CacheFits(f), NEW i, NEW s
  PROVE  CacheFits(Insert(f, i, s))
  <1> DEFINE D == DOMAIN f
             E == DOMAIN Evict(f)
  <1>1. IsFiniteSet(D) /\ Cardinality(D) \in Nat /\ Cardinality(D) <= MaxCacheSize
        /\ MaxCacheSize \in Nat \ {0}
    BY FS_CardinalityType, SchedulerAssumption DEF CacheFits
  <1>2. IsFiniteSet(E) /\ Cardinality(E) \in Nat /\ Cardinality(E) < MaxCacheSize
    <2>1. CASE Cardinality(D) < MaxCacheSize
      <3>1. E = D
        BY <2>1 DEF Evict
      <3> QED BY <1>1, <2>1, <3>1
    <2>2. CASE ~(Cardinality(D) < MaxCacheSize)
      <3>1. E = {k \in D : \E j \in D : j < k}
        BY <2>2 DEF Evict, Restrict
      <3>2. D # {}
        BY <1>1, <2>2, FS_EmptySet
      <3>3. PICK o \in D : \A j \in D : ~(j < o)
        BY <3>2, Oldest
      <3>4. E \subseteq D \ {o}
        BY <3>1, <3>3
      <3> HIDE DEF D, E
      <3>5. IsFiniteSet(D \ {o}) /\ Cardinality(D \ {o}) = Cardinality(D) - 1
        BY <1>1, <3>3, FS_RemoveElement
      <3>6. IsFiniteSet(E) /\ Cardinality(E) <= Cardinality(D \ {o})
        BY <3>4, <3>5, FS_Subset
      <3>7. Cardinality(E) \in Nat
        BY <3>6, FS_CardinalityType
      <3> QED BY <1>1, <3>5, <3>6, <3>7
    <2> QED BY <2>1, <2>2
  <1>3. DOMAIN Insert(f, i, s) = E \cup {i}
    BY DEF Insert
  <1> HIDE DEF D, E
  <1>4. IsFiniteSet(E \cup {i}) /\ Cardinality(E \cup {i}) <= Cardinality(E) + 1
    <2>1. IsFiniteSet(E)
      BY <1>2
    <2>2. /\ IsFiniteSet(E \cup {i})
          /\ Cardinality(E \cup {i}) = IF i \in E THEN Cardinality(E) ELSE Cardinality(E) + 1
      BY <2>1, FS_AddElement, Zenon
    <2> QED BY <1>2, <2>2
  <1>5. Cardinality(E \cup {i}) \in Nat
    BY <1>4, FS_CardinalityType
  <1>6. Cardinality(E \cup {i}) <= MaxCacheSize
    BY <1>1, <1>2, <1>4, <1>5
  <1> QED BY <1>3, <1>4, <1>6 DEF CacheFits

LEMMA CacheStep == TypeOK /\ CacheFits(cache) /\ [Next]_vars => CacheFits(cache')
  <1> SUFFICES ASSUME TypeOK, CacheFits(cache), [Next]_vars PROVE CacheFits(cache')
    OBVIOUS
  <1>1. DOMAIN cache \subseteq Nat
    BY DEF TypeOK
  <1>2. ASSUME NEW c \in Conv, StartFirst(c) PROVE CacheFits(cache')
    BY <1>1, <1>2, InsertFits DEF StartFirst, Post
  <1>3. ASSUME NEW c \in Conv, StartNext(c) PROVE CacheFits(cache')
    <2> DEFINE f == Restrict(cache, DOMAIN cache \ {rid[c]})
    <2>1. DOMAIN f = DOMAIN cache \ {rid[c]} /\ rid[c] \in DOMAIN cache
      BY <1>3 DEF StartNext, Restrict
    <2>2. cache' = Insert(f, nextId, cache[rid[c]])
      BY <1>3 DEF StartNext, Post
    <2> HIDE DEF f
    <2>3. CacheFits(f)
      <3>1. IsFiniteSet(DOMAIN cache) /\ Cardinality(DOMAIN cache) \in Nat
            /\ Cardinality(DOMAIN cache) <= MaxCacheSize
        BY FS_CardinalityType DEF CacheFits
      <3>2. IsFiniteSet(DOMAIN f) /\ Cardinality(DOMAIN f) = Cardinality(DOMAIN cache) - 1
        BY <2>1, <3>1, FS_RemoveElement
      <3> QED BY <3>1, <3>2, SchedulerAssumption DEF CacheFits
    <2> QED BY <1>1, <2>1, <2>2, <2>3, InsertFits
  <1>4. ASSUME cache' = cache PROVE CacheFits(cache')
    BY <1>4
  <1>5. CASE Generate \/ Return \/ Finished \/ UNCHANGED vars
    BY <1>4, <1>5 DEF Generate, Return, Finished, vars
  <1>6. ASSUME NEW c \in Conv, StartFails(c) \/ Answer(c) \/ ToolStep(c) \/ Resume(c)
        PROVE  CacheFits(cache')
    BY <1>4, <1>6 DEF StartFails, Answer, RequestFails, AnswerEnds, AnswerCallsTools, ToolStep,
       ToolCreate, ToolEnds, ToolRaises, Resume, CallbackRaises, CallbackGivesUp, CallbackResubmits
  <1> QED BY <1>2, <1>3, <1>5, <1>6 DEF Next, Step, Start

(* For every number of rows and of entries, the cache never holds more     *)
(* than maxsize entries.                                                   *)
THEOREM CacheStaysBounded == Spec => []CacheBounded
  <1>1. Init => CacheFits(cache)
    BY FS_EmptySet, SchedulerAssumption DEF Init, CacheFits
  <1>2. CacheFits(cache) => CacheBounded
    BY DEF CacheFits, CacheBounded
  <1>3. TypeOK /\ CacheFits(cache) /\ [Next]_vars => CacheFits(cache)'
    BY CacheStep
  <1> QED BY <1>1, <1>2, <1>3, TypeCorrect, PTL DEF Spec

-----------------------------------------------------------------------------
(* How long a conversation is, by what it is at.                           *)
Turns(c) ==
  /\ pc[c] \in {"idle", "submitted", "posted", "dead"} =>
       messages[c] <= PromptLen \/ messages[c] < MaxTurns + Cardinality(Tools)
  /\ pc[c] = "tools" => messages[c] < MaxTurns
  /\ pc[c] = "ended" =>
       messages[c] <= PromptLen + 1 \/ messages[c] <= MaxTurns + Cardinality(Tools)

TurnsInv == MaxTurns # 0 => \A c \in Conv : Turns(c)

LEMMA TurnsFacts ==
  /\ PromptLen \in Nat \ {0} /\ MaxTurns \in Nat /\ Cardinality(Tools) \in Nat
  /\ \A c \in Conv : Cardinality(Called(c)) \in 0 .. Cardinality(Tools)
  <1>1. PromptLen \in Nat \ {0} /\ MaxTurns \in Nat /\ IsFiniteSet(Tools)
    BY SchedulerAssumption
  <1>2. Cardinality(Tools) \in Nat
    BY <1>1, FS_CardinalityType
  <1>3. ASSUME NEW c \in Conv PROVE Cardinality(Called(c)) \in 0 .. Cardinality(Tools)
    <2>1. Called(c) \subseteq Tools
      BY DEF Called
    <2>2. IsFiniteSet(Called(c)) /\ Cardinality(Called(c)) <= Cardinality(Tools)
      BY <1>1, <2>1, FS_Subset
    <2>3. Cardinality(Called(c)) \in Nat
      BY <2>2, FS_CardinalityType
    <2> QED BY <1>2, <2>2, <2>3
  <1> QED BY <1>1, <1>2, <1>3

LEMMA TurnsStep == Inv /\ TurnsInv /\ [Next]_vars => TurnsInv'
  <1> SUFFICES ASSUME Inv, TurnsInv, [Next]_vars, MaxTurns # 0 PROVE TurnsInv'
    BY DEF TurnsInv
  <1>1. messages \in [Conv -> Nat] /\ pc \in [Conv -> {"idle", "submitted", "posted", "tools", "ended", "dead"}]
    BY DEF Inv, TypeOK
  <1>2. ASSUME NEW c \in Conv, NEW to, NEW k, pc' = [pc EXCEPT ![c] = to],
               messages' = [messages EXCEPT ![c] = k],
               to \in {"submitted", "posted", "dead"} =>
                   k <= PromptLen \/ k < MaxTurns + Cardinality(Tools),
               to = "tools" => k < MaxTurns,
               to = "ended" => k <= PromptLen + 1 \/ k <= MaxTurns + Cardinality(Tools),
               to # "idle"
        PROVE  TurnsInv'
    <2>1. pc'[c] = to /\ messages'[c] = k
      BY <1>1, <1>2
    <2>2. \A d \in Conv : d # c => pc'[d] = pc[d] /\ messages'[d] = messages[d]
      BY <1>1, <1>2
    <2> QED BY <1>2, <2>1, <2>2 DEF TurnsInv, Turns
  <1>3. ASSUME NEW c \in Conv, Start(c) PROVE TurnsInv'
    <2>1. pc[c] = "submitted" /\ messages' = [messages EXCEPT ![c] = messages[c]]
      BY <1>1, <1>3 DEF Start, StartFirst, StartNext, StartFails
    <2>2. messages[c] <= PromptLen \/ messages[c] < MaxTurns + Cardinality(Tools)
      BY <2>1 DEF TurnsInv, Turns
    <2>3. PICK to \in {"posted", "dead"} : pc' = [pc EXCEPT ![c] = to]
      BY <1>3 DEF Start, StartFirst, StartNext, StartFails, Post
    <2> QED BY <1>2, <2>1, <2>2, <2>3
  <1>4. ASSUME NEW c \in Conv, Answer(c) PROVE TurnsInv'
    <2>1. /\ pc[c] = "posted" /\ messages[c] \in Nat
          /\ messages[c] <= PromptLen \/ messages[c] < MaxTurns + Cardinality(Tools)
      BY <1>1, <1>4 DEF Answer, RequestFails, AnswerEnds, AnswerCallsTools, TurnsInv, Turns
    <2>2. CASE RequestFails(c)
      <3>1. pc' = [pc EXCEPT ![c] = "ended"] /\ messages' = [messages EXCEPT ![c] = messages[c]]
        BY <1>1, <2>2 DEF RequestFails
      <3>2. messages[c] <= PromptLen + 1 \/ messages[c] <= MaxTurns + Cardinality(Tools)
        BY <2>1, TurnsFacts
      <3> QED BY <1>2, <3>1, <3>2
    <2>3. CASE AnswerEnds(c)
      <3>1. pc' = [pc EXCEPT ![c] = "ended"] /\ messages' = [messages EXCEPT ![c] = messages[c] + 1]
        BY <1>1, <2>3 DEF AnswerEnds
      <3>2. messages[c] + 1 <= PromptLen + 1 \/ messages[c] + 1 <= MaxTurns + Cardinality(Tools)
        BY <2>1, TurnsFacts
      <3> QED BY <1>2, <3>1, <3>2
    <2>4. CASE \E S \in SUBSET Tools \ {{}} : AnswerCallsTools(c, S)
      <3>1. /\ pc' = [pc EXCEPT ![c] = "tools"]
            /\ messages' = [messages EXCEPT ![c] = messages[c] + 1]
            /\ messages[c] + 1 < MaxTurns
        BY <1>1, <2>4 DEF AnswerCallsTools
      <3> QED BY <1>2, <3>1
    <2> QED BY <1>4, <2>2, <2>3, <2>4 DEF Answer
  <1>5. ASSUME NEW c \in Conv, Resume(c) PROVE TurnsInv'
    <2>1. pc[c] = "tools" /\ messages[c] \in Nat /\ messages[c] < MaxTurns
      BY <1>1, <1>5 DEF Resume, CallbackRaises, CallbackGivesUp, CallbackResubmits, TurnsInv, Turns
    <2>2. CASE CallbackRaises(c) \/ CallbackGivesUp(c)
      <3>1. pc' = [pc EXCEPT ![c] = "ended"] /\ messages' = [messages EXCEPT ![c] = messages[c]]
        BY <1>1, <2>2 DEF CallbackRaises, CallbackGivesUp
      <3>2. messages[c] <= MaxTurns + Cardinality(Tools)
        BY <2>1, TurnsFacts
      <3> QED BY <1>2, <3>1, <3>2
    <2>3. CASE CallbackResubmits(c)
      <3>1. PICK k \in 0 .. Cardinality(Tools) : k = Cardinality(Called(c))
        BY TurnsFacts
      <3>2. /\ pc' = [pc EXCEPT ![c] = "submitted"]
            /\ messages' = [messages EXCEPT ![c] = messages[c] + k]
        BY <1>1, <2>3, <3>1 DEF CallbackResubmits
      <3>3. messages[c] + k < MaxTurns + Cardinality(Tools)
        BY <2>1, <3>1, TurnsFacts
      <3> QED BY <1>2, <3>2, <3>3
    <2> QED BY <1>5, <2>2, <2>3 DEF Resume
  <1>6. ASSUME UNCHANGED <<pc, messages>> PROVE TurnsInv'
    BY <1>6 DEF TurnsInv, Turns
  <1>7. CASE Generate
    <2>1. batch \in Int /\ messages' = messages
      BY <1>7, SchedulerAssumption DEF Generate, Inv, TypeOK
    <2>2. \A c \in Conv : pc'[c] = pc[c] \/ (pc[c] = "idle" /\ pc'[c] = "submitted")
      <3> SUFFICES ASSUME NEW c \in Conv, c[1] = batch + 1 PROVE pc[c] = "idle" /\ pc'[c] = "submitted"
        BY <1>1, <1>7 DEF Generate
      <3> QED BY <1>7, <2>1 DEF Generate, Inv, ProgressInv, Progress
    <2> QED BY <2>1, <2>2 DEF TurnsInv, Turns
  <1>8. ASSUME NEW c \in Conv, ToolStep(c) PROVE TurnsInv'
    BY <1>6, <1>8 DEF ToolStep, ToolCreate, ToolEnds, ToolRaises
  <1>9. CASE Return \/ Finished \/ UNCHANGED vars
    BY <1>6, <1>9 DEF Return, Finished, vars
  <1> QED BY <1>3, <1>4, <1>5, <1>7, <1>8, <1>9 DEF Next, Step

(* For every number of tools and turns, max_turns bounds a conversation    *)
(* unless it is None.                                                      *)
THEOREM TurnsStayBounded == Spec => []TurnsBounded
  <1>1. Init => TurnsInv
    BY SchedulerAssumption DEF Init, TurnsInv, Turns
  <1>2. TypeOK /\ TurnsInv => TurnsBounded
    <2> SUFFICES ASSUME TypeOK, TurnsInv, MaxTurns # 0, NEW c \in Conv
                 PROVE  \/ messages[c] <= MaxTurns + Cardinality(Tools)
                        \/ messages[c] <= PromptLen + 1
      BY DEF TurnsBounded
    <2>1. messages[c] \in Nat /\ Turns(c)
      BY DEF TypeOK, TurnsInv
    <2>2. pc[c] \in {"idle", "submitted", "posted", "tools", "ended", "dead"}
      BY DEF TypeOK
    <2> QED BY <2>1, <2>2, TurnsFacts DEF Turns
  <1>3. Inv => TypeOK
    BY DEF Inv
  <1> QED BY <1>1, <1>2, <1>3, InitInv, NextInv, TurnsStep, PTL DEF Spec

(* So neither the routes nor the messages outgrow their limits.            *)
THEOREM LimitsHold == Spec => []WithinLimits
  <1>1. CacheBounded /\ TurnsBounded => WithinLimits
    BY DEF WithinLimits
  <1> QED BY <1>1, CacheStaysBounded, TurnsStayBounded, PTL

=============================================================================
