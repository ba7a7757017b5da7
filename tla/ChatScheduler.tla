---------------------------- MODULE ChatScheduler ----------------------------
(***************************************************************************)
(* The multi-turn rollout of verl/workers/rollout/chat_scheduler.py: one   *)
(* asyncio event loop runs the conversations of a batch, each a chain of   *)
(* chat completion requests, tool calls and resubmissions.  An action is   *)
(* what a coroutine does between two awaits.                               *)
(*                                                                         *)
(* A conversation is a pair <<b, r>>: row r of the b-th call of            *)
(* generate_sequences.  A request id is a fresh number (uuid4 in the       *)
(* code), so a smaller id was put into the LRU cache earlier; the cache    *)
(* never touches an entry again except to pop it, hence the least recently *)
(* used entry is the one with the smallest id.                             *)
(***************************************************************************)
EXTENDS Integers, FiniteSets, Functions

CONSTANTS
  Batches,       (* how many times the trainer calls generate_sequences      *)
  Rows,          (* the rows of a batch, len(batch) * n of them              *)
  Servers,       (* addresses, as numbers: the heap breaks ties by address   *)
  Tools,         (* the tool calls one assistant message may contain         *)
  MaxCacheSize,  (* maxsize of the request_id -> address cache               *)
  MaxTurns,      (* config multi_turn.max_turns, compared to len(messages);  *)
                 (* 0, or None in the code, is no limit                      *)
  PromptLen      (* messages of the raw prompt                               *)

ASSUME SchedulerAssumption ==
  /\ Batches \in Nat
  /\ IsFiniteSet(Rows)
  /\ Servers # {} /\ Servers \subseteq Nat /\ IsFiniteSet(Servers)
  /\ IsFiniteSet(Tools)
  /\ MaxCacheSize \in Nat \ {0}
  /\ MaxTurns \in Nat /\ PromptLen \in Nat \ {0}

Conv == (1 .. Batches) \X Rows

(* The conversations of the b-th call of generate_sequences.               *)
Batch(b) == {b} \X Rows

VARIABLES
  status,    (* the driver: "idle", "running" in generate_sequences, "failed" *)
  batch,     (* calls of generate_sequences so far                            *)
  pc,        (* the task that carries a conversation on                       *)
  rid,       (* last request id of a conversation, 0 before the first request *)
  server,    (* address of a conversation's last request                      *)
  depth,     (* info["__depth__"]                                             *)
  done,      (* info["__done__"].is_set()                                     *)
  messages,  (* len(messages)                                                 *)
  tool,      (* the tool call tasks of a conversation's last turn             *)
  load,      (* weighted_addresses: the count in front of each address        *)
  cache,     (* request_id_to_address                                         *)
  nextId     (* the next fresh request id                                     *)

vars == <<status, batch, pc, rid, server, depth, done, messages, tool, load,
          cache, nextId>>

NoServer == -1

-----------------------------------------------------------------------------
Init ==
  /\ status = "idle"
  /\ batch = 0
  /\ pc = [c \in Conv |-> "idle"]
  /\ rid = [c \in Conv |-> 0]
  /\ server = [c \in Conv |-> NoServer]
  /\ depth = [c \in Conv |-> 0]
  /\ done = [c \in Conv |-> FALSE]
  /\ messages = [c \in Conv |-> PromptLen]
  /\ tool = [c \in Conv |-> [t \in Tools |-> "off"]]
  /\ load = [s \in Servers |-> 0]
  /\ cache = [i \in {} |-> NoServer]
  /\ nextId = 1

(* generate_sequences: one task per row, which submits the raw prompt (and *)
(* so makes the depth 1) and then waits for the done event.                *)
Generate ==
  /\ status = "idle" /\ batch < Batches
  /\ status' = "running"
  /\ batch' = batch + 1
  /\ pc' = [c \in Conv |-> IF c[1] = batch + 1 THEN "submitted" ELSE pc[c]]
  /\ depth' = [c \in Conv |-> IF c[1] = batch + 1 THEN 1 ELSE depth[c]]
  /\ UNCHANGED <<rid, server, done, messages, tool, load, cache, nextId>>

(* Mutant of IsTop: a heap that is never sifted again.                     *)
StaleTop(s) == \A o \in Servers : s <= o

(* s is the top of the heap: the least count, then the least address.      *)
IsTop(s) ==
  \A o \in Servers : load[s] < load[o] \/ (load[s] = load[o] /\ s <= o)

(* Mutants of Evict: one entry too many is kept; the entry used last is    *)
(* dropped.                                                                *)
EvictLate(f) ==
  IF Cardinality(DOMAIN f) <= MaxCacheSize
    THEN f ELSE Restrict(f, {i \in DOMAIN f : \E j \in DOMAIN f : j < i})

EvictNewest(f) ==
  IF Cardinality(DOMAIN f) < MaxCacheSize
    THEN f ELSE Restrict(f, {i \in DOMAIN f : \E j \in DOMAIN f : i < j})

(* self.request_id_to_address[i] = s on an LRUCache holding f: when it is  *)
(* full the least recently used entry is dropped first, that is, those     *)
(* entries stay that some entry is older than.                             *)
Evict(f) ==
  IF Cardinality(DOMAIN f) < MaxCacheSize
    THEN f ELSE Restrict(f, {i \in DOMAIN f : \E j \in DOMAIN f : j < i})

Insert(f, i, s) ==
  [j \in DOMAIN Evict(f) \cup {i} |-> IF j = i THEN s ELSE f[j]]

(* The request of conversation c goes to server s under a fresh id; f is   *)
(* the cache the id is put into.                                           *)
Post(c, s, f) ==
  /\ cache' = Insert(f, nextId, s)
  /\ rid' = [rid EXCEPT ![c] = nextId]
  /\ nextId' = nextId + 1
  /\ server' = [server EXCEPT ![c] = s]
  /\ pc' = [pc EXCEPT ![c] = "posted"]

(* The first part of _submit_chat_completions_and_callback, up to the      *)
(* await of the HTTP request: a new conversation goes to the top of the    *)
(* heap ...                                                                *)
StartFirst(c) ==
  /\ pc[c] = "submitted" /\ rid[c] = 0
  /\ \E s \in Servers : /\ IsTop(s)
                        /\ load' = [load EXCEPT ![s] = @ + 1]
                        /\ Post(c, s, cache)
  /\ UNCHANGED <<status, batch, depth, done, messages, tool>>

(* Mutant of StartNext: every request is balanced anew.                    *)
RebalancedNext(c) ==
  /\ pc[c] = "submitted" /\ rid[c] # 0
  /\ rid[c] \in DOMAIN cache
  /\ \E s \in Servers :
       IsTop(s) /\ Post(c, s, Restrict(cache, DOMAIN cache \ {rid[c]}))
  /\ UNCHANGED <<status, batch, depth, done, messages, tool, load>>

(* ... a resubmission goes where its previous request went ...             *)
StartNext(c) ==
  /\ pc[c] = "submitted" /\ rid[c] # 0
  /\ rid[c] \in DOMAIN cache
  /\ Post(c, cache[rid[c]], Restrict(cache, DOMAIN cache \ {rid[c]}))
  /\ UNCHANGED <<status, batch, depth, done, messages, tool, load>>

(* ... and when its id is not cached the assertion fails outside the try   *)
(* block: the background task ends and nobody lowers the depth.            *)
StartFails(c) ==
  /\ pc[c] = "submitted" /\ rid[c] # 0
  /\ rid[c] \notin DOMAIN cache
  /\ pc' = [pc EXCEPT ![c] = "dead"]
  /\ UNCHANGED <<status, batch, rid, server, depth, done, messages, tool,
                 load, cache, nextId>>

(* "No more ongoing completion requests": the last statement of the task,  *)
(* with d the depth it reads.                                              *)
SetDone(c, d) == done' = [done EXCEPT ![c] = @ \/ d = 0]

(* Mutant of RequestFails: the exception path forgets the depth.           *)
ForgetfulFails(c) ==
  /\ pc[c] = "posted"
  /\ SetDone(c, depth[c])
  /\ pc' = [pc EXCEPT ![c] = "ended"]
  /\ UNCHANGED <<status, batch, rid, server, depth, messages, tool, load,
                 cache, nextId>>

(* The request raised: it is logged, the conversation ends.                *)
RequestFails(c) ==
  /\ pc[c] = "posted"
  /\ depth' = [depth EXCEPT ![c] = @ - 1]
  /\ SetDone(c, depth'[c])
  /\ pc' = [pc EXCEPT ![c] = "ended"]
  /\ UNCHANGED <<status, batch, rid, server, messages, tool, load, cache, nextId>>

(* The server answered with an assistant message that ends the             *)
(* conversation: no tool call, or the turn limit is reached.               *)
AnswerEnds(c) ==
  /\ pc[c] = "posted"
  /\ depth' = [depth EXCEPT ![c] = @ - 1]
  /\ messages' = [messages EXCEPT ![c] = @ + 1]
  /\ SetDone(c, depth'[c])
  /\ pc' = [pc EXCEPT ![c] = "ended"]
  /\ UNCHANGED <<status, batch, rid, server, tool, load, cache, nextId>>

(* Mutant of AnswerCallsTools: max_turns is not looked at.                 *)
UnlimitedTools(c, S) ==
  /\ pc[c] = "posted"
  /\ depth' = [depth EXCEPT ![c] = @ - 1]
  /\ messages' = [messages EXCEPT ![c] = @ + 1]
  /\ tool' = [tool EXCEPT ![c] = [t \in Tools |-> IF t \in S THEN "called" ELSE "off"]]
  /\ pc' = [pc EXCEPT ![c] = "tools"]
  /\ UNCHANGED <<status, batch, rid, server, done, load, cache, nextId>>

(* The server answered with the tool calls S: one task per call, gathered. *)
AnswerCallsTools(c, S) ==
  /\ pc[c] = "posted"
  /\ MaxTurns = 0 \/ messages[c] + 1 < MaxTurns
  /\ depth' = [depth EXCEPT ![c] = @ - 1]
  /\ messages' = [messages EXCEPT ![c] = @ + 1]
  /\ tool' = [tool EXCEPT ![c] = [t \in Tools |-> IF t \in S THEN "called" ELSE "off"]]
  /\ pc' = [pc EXCEPT ![c] = "tools"]
  /\ UNCHANGED <<status, batch, rid, server, done, load, cache, nextId>>

(* _call_tool: tool.create() gave an instance, which now executes.         *)
ToolCreate(c, t) ==
  /\ tool[c][t] = "called"
  /\ tool' = [tool EXCEPT ![c][t] = "open"]
  /\ UNCHANGED <<status, batch, pc, rid, server, depth, done, messages, load,
                 cache, nextId>>

(* execute() ended, with a response or an exception that is returned, and  *)
(* the finally clause released the instance.                               *)
ToolEnds(c, t, result) ==
  /\ tool[c][t] = "open"
  /\ tool' = [tool EXCEPT ![c][t] = result]
  /\ UNCHANGED <<status, batch, pc, rid, server, depth, done, messages, load,
                 cache, nextId>>

(* An exception outside the try block (the arguments are no JSON, the tool *)
(* is unknown, create() raised) or in release(): it leaves _call_tool.     *)
ToolRaises(c, t) ==
  /\ tool[c][t] \in {"called", "open"}
  /\ tool' = [tool EXCEPT ![c][t] = "raised"]
  /\ UNCHANGED <<status, batch, pc, rid, server, depth, done, messages, load,
                 cache, nextId>>

Called(c) == {t \in Tools : tool[c][t] # "off"}

(* The tool calls whose tasks have not ended, and whether one ended by an  *)
(* exception that gather() passes on at once.                              *)
Running(c) == {t \in Tools : tool[c][t] \in {"called", "open"}}

Raised(c) == \E t \in Tools : tool[c][t] = "raised"

(* Mutant of CallbackRaises: the handler lowers the depth once more.       *)
RaisesTwice(c) ==
  /\ pc[c] = "tools"
  /\ Raised(c)
  /\ depth' = [depth EXCEPT ![c] = @ - 1]
  /\ SetDone(c, depth'[c])
  /\ pc' = [pc EXCEPT ![c] = "ended"]
  /\ UNCHANGED <<status, batch, rid, server, messages, tool, load, cache, nextId>>

(* gather() raised the exception of a call into the callback, which ends   *)
(* the turn; the other calls keep running.                                 *)
CallbackRaises(c) ==
  /\ pc[c] = "tools"
  /\ Raised(c)
  /\ SetDone(c, depth[c])
  /\ pc' = [pc EXCEPT ![c] = "ended"]
  /\ UNCHANGED <<status, batch, rid, server, depth, messages, tool, load,
                 cache, nextId>>

(* Mutant of CallbackGivesUp: the first error is not waited with.          *)
GivesUpEarly(c) ==
  /\ pc[c] = "tools"
  /\ \E t \in Called(c) : tool[c][t] = "error"
  /\ SetDone(c, depth[c])
  /\ pc' = [pc EXCEPT ![c] = "ended"]
  /\ UNCHANGED <<status, batch, rid, server, depth, messages, tool, load,
                 cache, nextId>>

(* gather() returned an exception among the responses: the callback gives  *)
(* up the conversation.                                                    *)
CallbackGivesUp(c) ==
  /\ pc[c] = "tools"
  /\ \A t \in Called(c) : tool[c][t] \in {"ok", "error"}
  /\ \E t \in Called(c) : tool[c][t] = "error"
  /\ SetDone(c, depth[c])
  /\ pc' = [pc EXCEPT ![c] = "ended"]
  /\ UNCHANGED <<status, batch, rid, server, depth, messages, tool, load,
                 cache, nextId>>

(* All tools answered: their messages are added and the conversation is    *)
(* submitted again, before the depth is tested.                            *)
CallbackResubmits(c) ==
  /\ pc[c] = "tools"
  /\ \A t \in Called(c) : tool[c][t] = "ok"
  /\ messages' = [messages EXCEPT ![c] = @ + Cardinality(Called(c))]
  /\ depth' = [depth EXCEPT ![c] = @ + 1]
  /\ SetDone(c, depth'[c])
  /\ pc' = [pc EXCEPT ![c] = "submitted"]
  /\ tool' = [tool EXCEPT ![c] = [t \in Tools |-> "off"]]
  /\ UNCHANGED <<status, batch, rid, server, load, cache, nextId>>

(* Mutant of AllDone: the first finished conversation ends the wait.       *)
FirstDone == status = "running" /\ \E c \in Batch(batch) : done[c]

(* The gather of generate_sequences returns once every done event is set.  *)
AllDone == status = "running" /\ \A c \in Batch(batch) : done[c]

Answered(c) == messages[c] > PromptLen

(* postprocess asserts that each conversation has a response; the          *)
(* AssertionError reaches the driver through future.result().              *)
Return ==
  /\ AllDone
  /\ status' = IF \A c \in Batch(batch) : Answered(c) THEN "idle" ELSE "failed"
  /\ UNCHANGED <<batch, pc, rid, server, depth, done, messages, tool, load,
                 cache, nextId>>

(* The driver has nothing more to do.                                      *)
Finished ==
  /\ status = "failed" \/ (status = "idle" /\ batch = Batches)
  /\ UNCHANGED vars

-----------------------------------------------------------------------------
ToolStep(c) ==
  \E t \in Tools : \/ ToolCreate(c, t)
                   \/ \E result \in {"ok", "error"} : ToolEnds(c, t, result)
                   \/ ToolRaises(c, t)

Start(c) == StartFirst(c) \/ StartNext(c) \/ StartFails(c)

Answer(c) ==
  \/ RequestFails(c)
  \/ AnswerEnds(c)
  \/ \E S \in SUBSET Tools \ {{}} : AnswerCallsTools(c, S)

Resume(c) == CallbackRaises(c) \/ CallbackGivesUp(c) \/ CallbackResubmits(c)

Step(c) == Start(c) \/ Answer(c) \/ ToolStep(c) \/ Resume(c)

Next == Generate \/ Return \/ Finished \/ (\E c \in Conv : Step(c))

(* The event loop runs every task that is ready; the requests (they have   *)
(* no timeout) and the tool calls are assumed to end.                      *)
Fairness ==
  /\ WF_vars(Generate) /\ WF_vars(Return)
  /\ \A c \in Conv : WF_vars(Step(c))

Spec == Init /\ [][Next]_vars

FairSpec == Spec /\ Fairness

-----------------------------------------------------------------------------
(* Types: the number of ongoing requests is never negative, and every id   *)
(* in the cache was issued.                                                *)
TypeOK ==
  /\ status \in {"idle", "running", "failed"}
  /\ batch \in 0 .. Batches
  /\ pc \in [Conv -> {"idle", "submitted", "posted", "tools", "ended", "dead"}]
  /\ nextId \in Nat \ {0}
  /\ rid \in [Conv -> 0 .. nextId - 1]
  /\ server \in [Conv -> Servers \cup {NoServer}]
  /\ depth \in [Conv -> Nat]
  /\ done \in [Conv -> BOOLEAN]
  /\ messages \in [Conv -> Nat]
  /\ tool \in [Conv -> [Tools -> {"off", "called", "open", "ok", "error", "raised"}]]
  /\ load \in [Servers -> Nat]
  /\ DOMAIN cache \subseteq 1 .. nextId - 1
  /\ cache \in [DOMAIN cache -> Servers]

(* The cache never holds more than maxsize entries.                        *)
CacheBounded == Cardinality(DOMAIN cache) <= MaxCacheSize

(* The assertion in front of every resubmission: the request id the        *)
(* conversation continues from is still in the cache, whatever the other   *)
(* conversations did while it waited for its answer and its tools.         *)
RouteKnown ==
  \A c \in Conv : pc[c] = "submitted" /\ rid[c] # 0 => rid[c] \in DOMAIN cache

(* What a set done event promises: no request of the conversation is on    *)
(* its way and no callback waits; a tool call may still run, but only      *)
(* beside one that raised, which ends the gather and leaves the others     *)
(* alone (one that returns its error does not).  And a conversation that   *)
(* was started and has neither a request counted nor a callback waiting    *)
(* for tools is done: only a task that died before it lowered the depth    *)
(* stays undone with nothing under way.                                    *)
DoneMeansEnded ==
  \A c \in Conv :
    /\ done[c] => /\ depth[c] = 0
                  /\ pc[c] \notin {"submitted", "posted", "tools"}
                  /\ Running(c) = {} \/ Raised(c)
    /\ rid[c] # 0 /\ depth[c] = 0 /\ pc[c] # "tools" => done[c]

(* Every turn of a conversation goes to the server of its first turn,      *)
(* which holds its prefix cache.                                           *)
Sticky == [][\A c \in Conv : rid[c] # 0 => server'[c] = server[c]]_vars

(* No server was given two conversations more than another.                *)
ConversationsSpread == \A a, b \in Servers : load[a] <= load[b] + 1

(* max_turns, when there is one, bounds the conversation: tool responses   *)
(* may exceed it by one round of tool calls, never more.                   *)
TurnsBounded ==
  MaxTurns # 0 =>
    \A c \in Conv : \/ messages[c] <= MaxTurns + Cardinality(Tools)
                    \/ messages[c] <= PromptLen + 1

(* What grows while the conversations go on stays within its limit: the    *)
(* routes, none of which is removed when its conversation ends, and the    *)
(* messages, to which every round of tools adds several at once.           *)
WithinLimits == CacheBounded /\ TurnsBounded

(* generate_sequences returns, or raises.                                  *)
GenerateReturns == status = "running" ~> status # "running"

(* The rollout as its caller sees it.                                      *)
Contract ==
  INSTANCE Rollout WITH open <- {c \in Conv : c[1] <= batch /\ ~done[c]}

ImplementsRollout == Contract!Spec

=============================================================================
