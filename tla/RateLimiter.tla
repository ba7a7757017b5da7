----------------------------- MODULE RateLimiter -----------------------------
(***************************************************************************)
(* The rate limiting of the tools: verl/tools/sandbox_fusion_tools.py and  *)
(* verl/tools/search_tool.py.  Every tool of every rollout process has a   *)
(* pool, an actor that runs num_workers calls at a time.  A call asks the  *)
(* one actor named "rate-limiter" for a token, runs, and sends the token   *)
(* back without waiting for an answer.                                     *)
(*                                                                         *)
(* The limiter's acquire method has a thread of its own, which blocks on   *)
(* the semaphore: calls are granted in the order they asked.  release has  *)
(* other threads.  current_count, "only used for observability", is left   *)
(* out.  Actors do not die and the functions that are run end, as they use *)
(* requests with timeouts.                                                 *)
(***************************************************************************)
EXTENDS Integers, Sequences, FiniteSets

CONSTANTS
  Clients,   (* conversations, each of which has one call at a time          *)
  Pools,     (* the execution pools                                          *)
  NoPool,    (* the pool of a client without a call                          *)
  Kind,      (* the tool of a pool: "code" or "search"                       *)
  Workers,   (* num_workers of a pool                                        *)
  Limited,   (* enable_global_rate_limit of a pool                           *)
  Rate       (* rate_limit of a pool                                         *)

(* "TODO validation for rate_limit": with none, every call would wait.     *)
ASSUME RateAssumption ==
  /\ IsFiniteSet(Clients)
  /\ NoPool \notin Pools
  /\ Kind \in [Pools -> {"code", "search"}]
  /\ Workers \in [Pools -> Nat \ {0}]
  /\ Limited \in [Pools -> BOOLEAN]
  /\ Rate \in [Pools -> Nat \ {0}]

VARIABLES
  ready,     (* pools whose actor was initialised                            *)
  limit,     (* rate_limit of the limiter, 0 until it exists                 *)
  tokens,    (* the value of its semaphore                                   *)
  place,     (* where the call of a client is                                *)
  pool,      (* the pool a client calls                                      *)
  pending,   (* the calls a pool has not given a thread, in order            *)
  queue,     (* the calls of acquire not answered, in order                  *)
  returning  (* the number of calls of release on their way                  *)

vars == <<ready, limit, tokens, place, pool, pending, queue, returning>>

Places == {"idle", "pending", "taken", "asking", "running"}

Init ==
  /\ ready = {}
  /\ limit = 0 /\ tokens = 0
  /\ place = [c \in Clients |-> "idle"]
  /\ pool = [c \in Clients |-> NoPool]
  /\ pending = [p \in Pools |-> <<>>]
  /\ queue = <<>>
  /\ returning = 0

(* The calls of pool p that have a thread of it.                           *)
Busy(p) == {c \in Clients : pool[c] = p /\ place[c] \in {"taken", "asking", "running"}}

(* The calls that hold a token.                                            *)
Throttled ==
  {c \in Clients : place[c] = "running" /\ pool[c] \in Pools /\ Limited[pool[c]]}

(* Mutant of Create: the last pool makes a limiter, not the first.         *)
CreateAnew(p) ==
  /\ p \notin ready
  /\ ready' = ready \cup {p}
  /\ IF Limited[p] THEN limit' = Rate[p] /\ tokens' = Rate[p]
                   ELSE UNCHANGED <<limit, tokens>>
  /\ UNCHANGED <<place, pool, pending, queue, returning>>

(* A pool's actor starts and gets the limiter, which the first of them     *)
(* creates with its own rate.                                              *)
Create(p) ==
  /\ p \notin ready
  /\ ready' = ready \cup {p}
  /\ IF Limited[p] /\ limit = 0 THEN limit' = Rate[p] /\ tokens' = Rate[p]
                                ELSE UNCHANGED <<limit, tokens>>
  /\ UNCHANGED <<place, pool, pending, queue, returning>>

(* A conversation calls a tool, whether or not its pool is up.             *)
Call(c, p) ==
  /\ place[c] = "idle"
  /\ place' = [place EXCEPT ![c] = "pending"]
  /\ pool' = [pool EXCEPT ![c] = p]
  /\ pending' = [pending EXCEPT ![p] = Append(@, c)]
  /\ UNCHANGED <<ready, limit, tokens, queue, returning>>

(* Where a call goes when a thread of p takes it.  Without a limiter a     *)
(* search just runs; running code fails on the release method of None.     *)
Entered(p) ==
  IF Limited[p] THEN "taken" ELSE IF Kind[p] = "search" THEN "running" ELSE "idle"

(* A thread of the pool takes the oldest call.                             *)
Take(p) ==
  /\ p \in ready /\ pending[p] # <<>>
  /\ Cardinality(Busy(p)) < Workers[p]
  /\ LET c == Head(pending[p]) IN
       /\ place' = [place EXCEPT ![c] = Entered(p)]
       /\ pool' = [pool EXCEPT ![c] = IF Entered(p) = "idle" THEN NoPool ELSE @]
  /\ pending' = [pending EXCEPT ![p] = Tail(@)]
  /\ UNCHANGED <<ready, limit, tokens, queue, returning>>

(* Mutant of Ask: the last to ask is the first to be granted.              *)
AskFirst(c) ==
  /\ place[c] = "taken"
  /\ place' = [place EXCEPT ![c] = "asking"]
  /\ queue' = <<c>> \o queue
  /\ UNCHANGED <<ready, limit, tokens, pool, pending, returning>>

(* The thread calls acquire and waits for the answer.                      *)
Ask(c) ==
  /\ place[c] = "taken"
  /\ place' = [place EXCEPT ![c] = "asking"]
  /\ queue' = Append(queue, c)
  /\ UNCHANGED <<ready, limit, tokens, pool, pending, returning>>

(* Mutant of Acquire: the semaphore lets one more in.                      *)
AcquireEager ==
  /\ queue # <<>> /\ tokens >= 0
  /\ tokens' = tokens - 1
  /\ place' = [place EXCEPT ![Head(queue)] = "running"]
  /\ queue' = Tail(queue)
  /\ UNCHANGED <<ready, limit, pool, pending, returning>>

(* The acquire thread gets a token for the call that asked first.          *)
Acquire ==
  /\ queue # <<>> /\ tokens > 0
  /\ tokens' = tokens - 1
  /\ place' = [place EXCEPT ![Head(queue)] = "running"]
  /\ queue' = Tail(queue)
  /\ UNCHANGED <<ready, limit, pool, pending, returning>>

(* Mutants of End: the token is kept when the function raises; it is sent  *)
(* back by the call and again by the exit stack.                           *)
EndKeeps(c) ==
  /\ place[c] = "running"
  /\ place' = [place EXCEPT ![c] = "idle"]
  /\ pool' = [pool EXCEPT ![c] = NoPool]
  /\ \E raised \in BOOLEAN :
       returning' = IF Limited[pool[c]] /\ ~raised THEN returning + 1 ELSE returning
  /\ UNCHANGED <<ready, limit, tokens, pending, queue>>

EndTwice(c) ==
  /\ place[c] = "running"
  /\ place' = [place EXCEPT ![c] = "idle"]
  /\ pool' = [pool EXCEPT ![c] = NoPool]
  /\ returning' = IF Limited[pool[c]] THEN returning + 2 ELSE returning
  /\ UNCHANGED <<ready, limit, tokens, pending, queue>>

(* The function returns or raises, the call of release is sent, and the    *)
(* tool's execute goes on.                                                 *)
End(c) ==
  /\ place[c] = "running"
  /\ place' = [place EXCEPT ![c] = "idle"]
  /\ pool' = [pool EXCEPT ![c] = NoPool]
  /\ returning' = IF Limited[pool[c]] THEN returning + 1 ELSE returning
  /\ UNCHANGED <<ready, limit, tokens, pending, queue>>

(* Mutant of Release: the acquire thread serves release as well.           *)
ReleaseInTurn ==
  /\ returning > 0 /\ queue = <<>>
  /\ returning' = returning - 1
  /\ tokens' = tokens + 1
  /\ UNCHANGED <<ready, limit, place, pool, pending, queue>>

(* A release thread puts a token back.                                     *)
Release ==
  /\ returning > 0
  /\ returning' = returning - 1
  /\ tokens' = tokens + 1
  /\ UNCHANGED <<ready, limit, place, pool, pending, queue>>

Next ==
  \/ \E p \in Pools : Create(p) \/ Take(p) \/ \E c \in Clients : Call(c, p)
  \/ \E c \in Clients : Ask(c) \/ End(c)
  \/ Acquire
  \/ Release

Spec == Init /\ [][Next]_vars

(* Actors start, threads run and messages arrive; conversations need not   *)
(* call.                                                                   *)
Fairness ==
  /\ \A p \in Pools : WF_vars(Create(p)) /\ WF_vars(Take(p))
  /\ \A c \in Clients : WF_vars(Ask(c)) /\ WF_vars(End(c))
  /\ WF_vars(Acquire) /\ WF_vars(Release)

FairSpec == Spec /\ Fairness

-----------------------------------------------------------------------------
TypeOK ==
  /\ ready \subseteq Pools
  /\ limit \in Nat
  /\ tokens \in 0 .. limit
  /\ place \in [Clients -> Places]
  /\ pool \in [Clients -> Pools \cup {NoPool}]
  /\ pending \in [Pools -> Seq(Clients)]
  /\ queue \in Seq(Clients)
  /\ returning \in 0 .. limit

(* "Limit the number of inflight requests": the calls of all pools that    *)
(* run under the limiter are never more than it was created for, whoever   *)
(* created it and however late tokens come back.                           *)
RunningBounded == Cardinality(Throttled) <= limit

(* No token is lost, on an exception either, and none is made up: each is  *)
(* in the semaphore, held by a call that runs or on its way back.          *)
TokensConserved == tokens + Cardinality(Throttled) + returning = limit

(* "Ensure ordered submission [...] to avoid starvation": every call of a  *)
(* tool is answered, though others call again and again and the limiter    *)
(* blocks while it has no token.                                           *)
Served == \A c \in Clients : place[c] = "pending" ~> place[c] = "idle"

(* "rate_limit: Global limit of concurrent code executions": the code that *)
(* runs, in all pools of all processes together, is within the rate of     *)
(* every tool that runs code under the limiter.                            *)
RunningCode ==
  {c \in Clients : place[c] = "running" /\ pool[c] \in Pools /\ Kind[pool[c]] = "code"}

CodeWithinRate ==
  \A p \in Pools :
    Limited[p] /\ Kind[p] = "code" => Cardinality(RunningCode) <= Rate[p]

(* The pools and the limiter throttle the calls they are asked to.         *)
Phase(c) ==
  IF place[c] = "idle" \/ ~Limited[pool[c]] THEN "idle"
  ELSE IF place[c] = "running" THEN "executing" ELSE "waiting"

T == INSTANCE Throttle WITH phase <- [c \in Clients |-> Phase(c)]

(* The limiter, its queues and its messages implement the abstract         *)
(* throttle: no call begins but one that waits, and only below the limit.  *)
ImplementsThrottle == T!Spec

=============================================================================
