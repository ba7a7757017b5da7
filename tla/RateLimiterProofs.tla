-------------------------- MODULE RateLimiterProofs --------------------------
(***************************************************************************)
(* Proofs about RateLimiter, for any number of conversations and pools:    *)
(* no token is lost, the limit holds, and the pools with their limiter     *)
(* implement the abstract throttle.                                        *)
(*                                                                         *)
(* A token leaves the semaphore for the call at the head of the queue, so  *)
(* counting tokens needs that the call was not running already: a call is  *)
(* at one place of one queue, which is what the shape below says.          *)
(***************************************************************************)
EXTENDS RateLimiter, FiniteSetTheorems, TLAPS

(* No call is twice in a queue.                                            *)
Distinct(s) == \A i, j \in 1 .. Len(s) : s[i] = s[j] => i = j

Types ==
  /\ ready \subseteq Pools
  /\ limit \in Nat /\ tokens \in Nat /\ returning \in Nat
  /\ place \in [Clients -> Places]
  /\ pool \in [Clients -> Pools \cup {NoPool}]
  /\ pending \in [Pools -> Seq(Clients)]
  /\ queue \in Seq(Clients)

(* Only a call has a pool, and only limited calls ask for a token.         *)
CallsHavePools ==
  \A c \in Clients :
    /\ place[c] # "idle" => pool[c] \in Pools
    /\ place[c] \in {"taken", "asking"} => Limited[pool[c]]

(* What a pool has pending are calls of its own that no thread has taken.  *)
PendingShape ==
  \A p \in Pools :
    /\ Distinct(pending[p])
    /\ \A i \in 1 .. Len(pending[p]) :
         place[pending[p][i]] = "pending" /\ pool[pending[p][i]] = p

(* What the limiter has queued are calls that ask.                         *)
QueueShape ==
  /\ Distinct(queue)
  /\ \A i \in 1 .. Len(queue) : place[queue[i]] = "asking"

Shape == Types /\ CallsHavePools /\ PendingShape /\ QueueShape

Inv == Shape /\ TokensConserved

-----------------------------------------------------------------------------
LEMMA AppendDistinct ==
  ASSUME NEW S, NEW s \in Seq(S), NEW x \in S, Distinct(s),
         \A i \in 1 .. Len(s) : s[i] # x
  PROVE  /\ Append(s, x) \in Seq(S)
         /\ Len(Append(s, x)) = Len(s) + 1
         /\ \A i \in 1 .. Len(s) : Append(s, x)[i] = s[i]
         /\ Append(s, x)[Len(s) + 1] = x
         /\ Distinct(Append(s, x))
<1>1. /\ Append(s, x) \in Seq(S)
      /\ Len(Append(s, x)) = Len(s) + 1
      /\ \A i \in 1 .. Len(s) : Append(s, x)[i] = s[i]
      /\ Append(s, x)[Len(s) + 1] = x
  OBVIOUS
<1>2. Distinct(Append(s, x))
  <2> SUFFICES ASSUME NEW i \in 1 .. Len(s) + 1, NEW j \in 1 .. Len(s) + 1,
                      Append(s, x)[i] = Append(s, x)[j]
               PROVE  i = j
    BY <1>1 DEF Distinct
  <2>1. CASE i \in 1 .. Len(s) /\ j \in 1 .. Len(s)
    BY <2>1, <1>1 DEF Distinct
  <2>2. CASE i = Len(s) + 1 \/ j = Len(s) + 1
    BY <2>2, <1>1
  <2> QED  BY <2>1, <2>2
<1> QED  BY <1>1, <1>2

LEMMA TailDistinct ==
  ASSUME NEW S, NEW s \in Seq(S), s # <<>>, Distinct(s)
  PROVE  /\ Head(s) = s[1] /\ Head(s) \in S /\ 1 \in 1 .. Len(s)
         /\ Tail(s) \in Seq(S)
         /\ Len(Tail(s)) = Len(s) - 1
         /\ \A i \in 1 .. Len(Tail(s)) :
              i + 1 \in 1 .. Len(s) /\ Tail(s)[i] = s[i + 1] /\ Tail(s)[i] # Head(s)
         /\ Distinct(Tail(s))
<1>1. /\ Head(s) = s[1] /\ Head(s) \in S /\ 1 \in 1 .. Len(s)
      /\ Tail(s) \in Seq(S)
      /\ Len(Tail(s)) = Len(s) - 1
      /\ \A i \in 1 .. Len(Tail(s)) : i + 1 \in 1 .. Len(s) /\ Tail(s)[i] = s[i + 1]
  OBVIOUS
<1>2. ASSUME NEW i \in 1 .. Len(Tail(s)) PROVE Tail(s)[i] # Head(s)
  BY <1>1 DEF Distinct
<1>3. ASSUME NEW i \in 1 .. Len(Tail(s)), NEW j \in 1 .. Len(Tail(s)),
             Tail(s)[i] = Tail(s)[j]
      PROVE  i = j
  <2>1. s[i + 1] = s[j + 1] /\ i + 1 \in 1 .. Len(s) /\ j + 1 \in 1 .. Len(s)
    BY <1>1, <1>3
  <2> QED  BY <2>1 DEF Distinct
<1> QED  BY <1>1, <1>2, <1>3 DEF Distinct

(* The calls that hold a token are some of the clients.                    *)
LEMMA ThrottledFinite == IsFiniteSet(Throttled) /\ Cardinality(Throttled) \in Nat
<1>1. Throttled \in SUBSET Clients  BY DEF Throttled
<1> QED  BY <1>1, FS_Subset, FS_CardinalityType, RateAssumption

-----------------------------------------------------------------------------
LEMMA InitInv == Init => Inv
<1> SUFFICES ASSUME Init PROVE Inv  OBVIOUS
<1>1. Shape
  <2>1. Types  BY DEF Init, Types, Places
  <2>2. CallsHavePools  BY DEF Init, CallsHavePools
  <2>3. PendingShape /\ QueueShape
    BY DEF Init, PendingShape, QueueShape, Distinct
  <2> QED  BY <2>1, <2>2, <2>3 DEF Shape
<1>2. TokensConserved
  <2>1. Throttled = {}  BY DEF Init, Throttled
  <2>2. Cardinality(Throttled) = 0  BY <2>1, FS_EmptySet
  <2> QED  BY <2>2 DEF Init, TokensConserved
<1> QED  BY <1>1, <1>2 DEF Inv

LEMMA CreateInv == ASSUME Inv, NEW p \in Pools, Create(p) PROVE Inv'
<1> USE DEF Inv, Create
<1>1. Shape'
  <2>1. Types'  BY RateAssumption DEF Shape, Types
  <2>2. CallsHavePools' /\ PendingShape' /\ QueueShape'
    BY DEF Shape, CallsHavePools, PendingShape, QueueShape
  <2> QED  BY <2>1, <2>2 DEF Shape
<1>2. TokensConserved'
  <2>1. Throttled' = Throttled  BY DEF Throttled
  <2>2. CASE UNCHANGED <<limit, tokens>>
    BY <2>1, <2>2 DEF TokensConserved
  <2>3. CASE limit = 0 /\ limit' = Rate[p] /\ tokens' = Rate[p]
    <3>1. returning = 0 /\ Cardinality(Throttled) = 0 /\ Rate[p] \in Nat
      BY <2>3, ThrottledFinite, RateAssumption DEF Shape, Types, TokensConserved
    <3> QED  BY <3>1, <2>1, <2>3 DEF TokensConserved
  <2> QED  BY <2>2, <2>3
<1> QED  BY <1>1, <1>2

LEMMA CallInv == ASSUME Inv, NEW p \in Pools, NEW c \in Clients, Call(c, p) PROVE Inv'
<1> USE DEF Inv, Call
<1>a. Types  BY DEF Shape
<1>1. Types'
  BY <1>a DEF Types, Places
<1>2. CallsHavePools'
  BY <1>a DEF Shape, CallsHavePools, Types
<1>3. ASSUME NEW q \in Pools, NEW i \in 1 .. Len(pending[q]) PROVE pending[q][i] # c
  BY DEF Shape, PendingShape
<1>4. PendingShape'
  <2> SUFFICES ASSUME NEW q \in Pools
               PROVE  /\ Distinct(pending'[q])
                      /\ \A i \in 1 .. Len(pending'[q]) :
                           place'[pending'[q][i]] = "pending" /\ pool'[pending'[q][i]] = q
    BY DEF PendingShape, Distinct
  <2>1. pending[q] \in Seq(Clients) /\ Distinct(pending[q])
    BY <1>a DEF Types, Shape, PendingShape
  <2>2. \A i \in 1 .. Len(pending[q]) :
          /\ pending[q][i] \in Clients /\ pending[q][i] # c
          /\ place[pending[q][i]] = "pending" /\ pool[pending[q][i]] = q
    BY <2>1, <1>3 DEF Shape, PendingShape
  <2>3. CASE q # p
    <3>1. pending'[q] = pending[q]  BY <2>3, <1>a DEF Types
    <3> QED  BY <3>1, <2>1, <2>2, <1>a DEF Types
  <2>4. CASE q = p
    <3>1. pending'[q] = Append(pending[q], c)  BY <2>4, <1>a DEF Types
    <3>2. /\ Len(pending'[q]) = Len(pending[q]) + 1
          /\ \A i \in 1 .. Len(pending[q]) : pending'[q][i] = pending[q][i]
          /\ pending'[q][Len(pending[q]) + 1] = c
          /\ Distinct(pending'[q])
      BY <3>1, <2>1, <1>3, AppendDistinct
    <3>3. \A i \in 1 .. Len(pending'[q]) : i \in 1 .. Len(pending[q]) \/ i = Len(pending[q]) + 1
      BY <3>2, <2>1
    <3>4. place'[c] = "pending" /\ pool'[c] = q  BY <2>4, <1>a DEF Types
    <3>5. \A d \in Clients : d # c => place'[d] = place[d] /\ pool'[d] = pool[d]
      BY <1>a DEF Types
    <3> QED  BY <3>2, <3>3, <3>4, <3>5, <2>2
  <2> QED  BY <2>3, <2>4
<1>5. QueueShape'
  <2>1. \A i \in 1 .. Len(queue) : queue[i] \in Clients /\ queue[i] # c
    BY <1>a DEF Types, Shape, QueueShape
  <2> QED  BY <2>1, <1>a DEF Types, Shape, QueueShape, Distinct
<1>6. TokensConserved'
  <2>1. Throttled' = Throttled  BY <1>a DEF Types, Throttled
  <2> QED  BY <2>1 DEF TokensConserved
<1> QED  BY <1>1, <1>2, <1>4, <1>5, <1>6 DEF Shape

LEMMA TakeInv == ASSUME Inv, NEW p \in Pools, Take(p) PROVE Inv'
<1> DEFINE c == Head(pending[p])
<1> USE DEF Inv
<1>a. Types  BY DEF Shape
<1>b. pending[p] \in Seq(Clients) /\ pending[p] # <<>> /\ Distinct(pending[p])
  BY <1>a DEF Types, Shape, PendingShape, Take
<1>c. /\ c \in Clients /\ c = pending[p][1] /\ 1 \in 1 .. Len(pending[p])
      /\ Tail(pending[p]) \in Seq(Clients)
      /\ Len(Tail(pending[p])) = Len(pending[p]) - 1
      /\ \A i \in 1 .. Len(Tail(pending[p])) :
           /\ i + 1 \in 1 .. Len(pending[p])
           /\ Tail(pending[p])[i] = pending[p][i + 1] /\ Tail(pending[p])[i] # c
      /\ Distinct(Tail(pending[p]))
  BY <1>b, TailDistinct
<1>d. place[c] = "pending" /\ pool[c] = p
  BY <1>c DEF Shape, PendingShape
<1>e. /\ place' = [place EXCEPT ![c] = Entered(p)]
      /\ pool' = [pool EXCEPT ![c] = IF Entered(p) = "idle" THEN NoPool ELSE @]
      /\ pending' = [pending EXCEPT ![p] = Tail(@)]
      /\ UNCHANGED <<ready, limit, tokens, queue, returning>>
  BY DEF Take
<1>f. /\ Entered(p) \in {"taken", "running", "idle"}
      /\ Entered(p) = "taken" <=> Limited[p]
  BY DEF Entered
<1>g. /\ place'[c] = Entered(p)
      /\ pool'[c] = IF Entered(p) = "idle" THEN NoPool ELSE p
      /\ \A d \in Clients : d # c => place'[d] = place[d] /\ pool'[d] = pool[d]
  BY <1>a, <1>c, <1>d, <1>e DEF Types
<1> HIDE DEF c
<1>1. Types'
  BY <1>a, <1>c, <1>e, <1>f DEF Types, Places
<1>2. CallsHavePools'
  <2> SUFFICES ASSUME NEW d \in Clients
               PROVE  /\ place'[d] # "idle" => pool'[d] \in Pools
                      /\ place'[d] \in {"taken", "asking"} => Limited[pool'[d]]
    BY DEF CallsHavePools
  <2>1. CASE d = c  BY <2>1, <1>f, <1>g
  <2>2. CASE d # c  BY <2>2, <1>g DEF Shape, CallsHavePools
  <2> QED  BY <2>1, <2>2
<1>4. PendingShape'
  <2> SUFFICES ASSUME NEW q \in Pools
               PROVE  /\ Distinct(pending'[q])
                      /\ \A i \in 1 .. Len(pending'[q]) :
                           place'[pending'[q][i]] = "pending" /\ pool'[pending'[q][i]] = q
    BY DEF PendingShape, Distinct
  <2>1. pending[q] \in Seq(Clients) /\ Distinct(pending[q])
    BY <1>a DEF Types, Shape, PendingShape
  <2>2. \A i \in 1 .. Len(pending[q]) :
          /\ pending[q][i] \in Clients
          /\ place[pending[q][i]] = "pending" /\ pool[pending[q][i]] = q
    BY <2>1 DEF Shape, PendingShape
  <2>3. CASE q # p
    <3>1. pending'[q] = pending[q]  BY <2>3, <1>a, <1>e DEF Types
    <3>2. \A i \in 1 .. Len(pending[q]) : pending[q][i] # c
      BY <2>2, <2>3, <1>d
    <3> QED  BY <3>1, <3>2, <2>1, <2>2, <1>g
  <2>4. CASE q = p
    <3>1. pending'[q] = Tail(pending[p])  BY <2>4, <1>a, <1>e DEF Types
    <3>2. \A i \in 1 .. Len(pending'[q]) :
            /\ pending'[q][i] \in Clients /\ pending'[q][i] # c
            /\ place[pending'[q][i]] = "pending" /\ pool[pending'[q][i]] = q
      BY <3>1, <2>2, <2>4, <1>c
    <3> QED  BY <3>1, <3>2, <1>c, <1>g
  <2> QED  BY <2>3, <2>4
<1>5. QueueShape'
  <2>1. queue' = queue  BY <1>e
  <2>2. \A i \in 1 .. Len(queue) : queue[i] \in Clients /\ queue[i] # c
    BY <1>a, <1>d DEF Types, Shape, QueueShape
  <2> QED  BY <2>1, <2>2, <1>g DEF Shape, QueueShape, Distinct
<1>6. TokensConserved'
  <2>1. ASSUME NEW d \in Clients PROVE d \in Throttled' <=> d \in Throttled
    <3>1. CASE d = c
      <4>1. d \notin Throttled  BY <3>1, <1>d DEF Throttled
      <4>2. d \notin Throttled'  BY <3>1, <1>f, <1>g DEF Throttled
      <4> QED  BY <4>1, <4>2
    <3>2. CASE d # c  BY <3>2, <1>g DEF Throttled
    <3> QED  BY <3>1, <3>2
  <2>2. Throttled' = Throttled
    <3>1. Throttled \subseteq Clients /\ Throttled' \subseteq Clients  BY DEF Throttled
    <3> QED  BY <3>1, <2>1
  <2> QED  BY <2>2, <1>e DEF TokensConserved
<1> QED  BY <1>1, <1>2, <1>4, <1>5, <1>6 DEF Shape

(* A step that leaves the pools' queues alone and moves one call that was  *)
(* not pending keeps their shape.                                          *)
LEMMA PendingKept ==
  ASSUME Shape, NEW c \in Clients, place[c] # "pending", pending' = pending,
         \A d \in Clients : d # c => place'[d] = place[d] /\ pool'[d] = pool[d]
  PROVE  PendingShape'
<1> SUFFICES ASSUME NEW q \in Pools
             PROVE  /\ Distinct(pending[q])
                    /\ \A i \in 1 .. Len(pending[q]) :
                         place'[pending[q][i]] = "pending" /\ pool'[pending[q][i]] = q
  BY DEF PendingShape, Distinct
<1>1. pending[q] \in Seq(Clients)  BY DEF Shape, Types
<1>2. \A i \in 1 .. Len(pending[q]) : pending[q][i] \in Clients /\ pending[q][i] # c
  BY <1>1 DEF Shape, PendingShape
<1> QED  BY <1>2 DEF Shape, PendingShape

LEMMA AskInv == ASSUME Inv, NEW c \in Clients, Ask(c) PROVE Inv'
<1> USE DEF Inv, Ask
<1>a. Types  BY DEF Shape
<1>b. /\ place'[c] = "asking"
      /\ \A d \in Clients : d # c => place'[d] = place[d]
  BY <1>a DEF Types
<1>1. Types'
  BY <1>a DEF Types, Places
<1>2. CallsHavePools'
  BY <1>b DEF Shape, CallsHavePools
<1>3. PendingShape'
  BY <1>b, PendingKept
<1>4. QueueShape'
  <2>1. queue \in Seq(Clients) /\ Distinct(queue)
    BY <1>a DEF Types, Shape, QueueShape
  <2>2. \A i \in 1 .. Len(queue) :
          queue[i] \in Clients /\ queue[i] # c /\ place[queue[i]] = "asking"
    BY <2>1 DEF Shape, QueueShape
  <2>3. /\ Len(queue') = Len(queue) + 1
        /\ \A i \in 1 .. Len(queue) : queue'[i] = queue[i]
        /\ queue'[Len(queue) + 1] = c
        /\ Distinct(queue')
    BY <2>1, <2>2, AppendDistinct
  <2>4. \A i \in 1 .. Len(queue') : i \in 1 .. Len(queue) \/ i = Len(queue) + 1
    BY <2>1, <2>3
  <2> QED  BY <2>2, <2>3, <2>4, <1>b DEF QueueShape, Distinct
<1>5. TokensConserved'
  <2>1. Throttled' = Throttled  BY <1>a DEF Types, Throttled
  <2> QED  BY <2>1 DEF TokensConserved
<1> QED  BY <1>1, <1>2, <1>3, <1>4, <1>5 DEF Shape

(* The call at the head of the limiter's queue.                            *)
LEMMA HeadOfQueue ==
  ASSUME Shape, queue # <<>>
  PROVE  /\ Head(queue) \in Clients /\ place[Head(queue)] = "asking"
         /\ pool[Head(queue)] \in Pools /\ Limited[pool[Head(queue)]]
         /\ Tail(queue) \in Seq(Clients) /\ Distinct(Tail(queue))
         /\ \A i \in 1 .. Len(Tail(queue)) :
              /\ Tail(queue)[i] \in Clients /\ Tail(queue)[i] # Head(queue)
              /\ place[Tail(queue)[i]] = "asking"
<1>1. queue \in Seq(Clients) /\ Distinct(queue)
  BY DEF Shape, Types, QueueShape
<1>2. /\ Head(queue) = queue[1] /\ Head(queue) \in Clients /\ 1 \in 1 .. Len(queue)
      /\ Tail(queue) \in Seq(Clients) /\ Distinct(Tail(queue))
      /\ \A i \in 1 .. Len(Tail(queue)) :
           /\ i + 1 \in 1 .. Len(queue)
           /\ Tail(queue)[i] = queue[i + 1] /\ Tail(queue)[i] # Head(queue)
  BY <1>1, TailDistinct
<1>3. place[Head(queue)] = "asking"
  BY <1>2 DEF Shape, QueueShape
<1>4. \A i \in 1 .. Len(Tail(queue)) :
        Tail(queue)[i] \in Clients /\ place[Tail(queue)[i]] = "asking"
  BY <1>1, <1>2 DEF Shape, QueueShape
<1> QED  BY <1>2, <1>3, <1>4 DEF Shape, CallsHavePools

LEMMA AcquireInv == ASSUME Inv, Acquire PROVE Inv'
<1> DEFINE c == Head(queue)
<1> USE DEF Inv
<1>a. Types  BY DEF Shape
<1>b. /\ c \in Clients /\ place[c] = "asking" /\ pool[c] \in Pools /\ Limited[pool[c]]
      /\ Tail(queue) \in Seq(Clients) /\ Distinct(Tail(queue))
      /\ \A i \in 1 .. Len(Tail(queue)) :
           /\ Tail(queue)[i] \in Clients /\ Tail(queue)[i] # c
           /\ place[Tail(queue)[i]] = "asking"
  BY HeadOfQueue DEF Acquire
<1>c. /\ place' = [place EXCEPT ![c] = "running"]
      /\ queue' = Tail(queue)
      /\ tokens > 0 /\ tokens' = tokens - 1
      /\ UNCHANGED <<ready, limit, pool, pending, returning>>
  BY DEF Acquire
<1>d. /\ place'[c] = "running"
      /\ \A d \in Clients : d # c => place'[d] = place[d]
  BY <1>a, <1>b, <1>c DEF Types
<1> HIDE DEF c
<1>1. Types'
  BY <1>a, <1>b, <1>c DEF Types, Places
<1>2. CallsHavePools'
  BY <1>b, <1>c, <1>d DEF Shape, CallsHavePools
<1>3. PendingShape'
  BY <1>b, <1>c, <1>d, PendingKept
<1>4. QueueShape'
  BY <1>b, <1>c, <1>d DEF QueueShape, Distinct
<1>5. TokensConserved'
  <2>1. c \notin Throttled  BY <1>b DEF Throttled
  <2>2. Throttled' = Throttled \cup {c}
    <3>1. ASSUME NEW d \in Clients PROVE d \in Throttled' <=> d \in Throttled \cup {c}
      BY <1>b, <1>c, <1>d DEF Throttled
    <3>2. Throttled \cup {c} \subseteq Clients /\ Throttled' \subseteq Clients
      BY <1>b DEF Throttled
    <3> QED  BY <3>1, <3>2
  <2>3. Cardinality(Throttled') = Cardinality(Throttled) + 1
    BY <2>1, <2>2, ThrottledFinite, FS_AddElement
  <2> QED  BY <2>3, <1>a, <1>c, ThrottledFinite DEF TokensConserved, Types
<1> QED  BY <1>1, <1>2, <1>3, <1>4, <1>5 DEF Shape

LEMMA EndInv == ASSUME Inv, NEW c \in Clients, End(c) PROVE Inv'
<1> USE DEF Inv, End
<1>a. Types  BY DEF Shape
<1>b. place[c] = "running" /\ pool[c] \in Pools
  BY DEF Shape, CallsHavePools
<1>c. /\ place'[c] = "idle" /\ pool'[c] = NoPool
      /\ \A d \in Clients : d # c => place'[d] = place[d] /\ pool'[d] = pool[d]
  BY <1>a DEF Types
<1>1. Types'
  <2>1. returning' \in Nat  BY <1>a DEF Types
  <2> QED  BY <2>1, <1>a DEF Types, Places
<1>2. CallsHavePools'
  BY <1>c DEF Shape, CallsHavePools
<1>3. PendingShape'
  BY <1>b, <1>c, PendingKept
<1>4. QueueShape'
  <2>1. \A i \in 1 .. Len(queue) : queue[i] \in Clients /\ queue[i] # c
    BY <1>a, <1>b DEF Types, Shape, QueueShape
  <2> QED  BY <2>1, <1>c DEF Shape, QueueShape, Distinct
<1>5. TokensConserved'
  <2>1. Throttled' = Throttled \ {c}
    <3>1. ASSUME NEW d \in Clients PROVE d \in Throttled' <=> d \in Throttled \ {c}
      BY <1>c DEF Throttled
    <3>2. Throttled \subseteq Clients /\ Throttled' \subseteq Clients  BY DEF Throttled
    <3> QED  BY <3>1, <3>2
  <2>2. c \in Throttled <=> Limited[pool[c]]
    BY <1>b DEF Throttled
  <2>3. CASE Limited[pool[c]]
    <3>1. Cardinality(Throttled') = Cardinality(Throttled) - 1
      BY <2>1, <2>2, <2>3, ThrottledFinite, FS_RemoveElement
    <3>2. returning' = returning + 1 /\ limit' = limit /\ tokens' = tokens
      BY <2>3
    <3>3. returning \in Nat /\ tokens \in Nat /\ Cardinality(Throttled) \in Nat
      BY <1>a, ThrottledFinite DEF Types
    <3>4. tokens + Cardinality(Throttled) + returning = limit
      BY DEF TokensConserved
    <3>5. tokens' + Cardinality(Throttled') + returning' = limit'
      BY <3>1, <3>2, <3>3, <3>4
    <3> QED  BY <3>5 DEF TokensConserved
  <2>4. CASE ~Limited[pool[c]]
    <3>1. Throttled' = Throttled  BY <2>1, <2>2, <2>4
    <3> QED  BY <3>1, <2>4 DEF TokensConserved
  <2> QED  BY <2>3, <2>4
<1> QED  BY <1>1, <1>2, <1>3, <1>4, <1>5 DEF Shape

LEMMA ReleaseInv == ASSUME Inv, Release PROVE Inv'
<1> USE DEF Inv, Release
<1>1. Shape'
  BY DEF Shape, Types, CallsHavePools, PendingShape, QueueShape
<1>2. TokensConserved'
  <2>1. Throttled' = Throttled  BY DEF Throttled
  <2> QED  BY <2>1, ThrottledFinite DEF Shape, Types, TokensConserved
<1> QED  BY <1>1, <1>2

LEMMA NextInv == Inv /\ [Next]_vars => Inv'
<1> SUFFICES ASSUME Inv, [Next]_vars PROVE Inv'  OBVIOUS
<1>1. CASE \E p \in Pools : Create(p)  BY <1>1, CreateInv
<1>2. CASE \E p \in Pools : Take(p)  BY <1>2, TakeInv
<1>3. CASE \E p \in Pools, c \in Clients : Call(c, p)  BY <1>3, CallInv
<1>4. CASE \E c \in Clients : Ask(c)  BY <1>4, AskInv
<1>5. CASE \E c \in Clients : End(c)  BY <1>5, EndInv
<1>6. CASE Acquire  BY <1>6, AcquireInv
<1>7. CASE Release  BY <1>7, ReleaseInv
<1>8. CASE UNCHANGED vars
  <2>1. Shape'
    BY <1>8 DEF vars, Inv, Shape, Types, CallsHavePools, PendingShape, QueueShape
  <2>2. Throttled' = Throttled  BY <1>8 DEF vars, Throttled
  <2>3. TokensConserved'  BY <1>8, <2>2 DEF vars, Inv, TokensConserved
  <2> QED  BY <2>1, <2>3 DEF Inv
<1> QED  BY <1>1, <1>2, <1>3, <1>4, <1>5, <1>6, <1>7, <1>8 DEF Next

LEMMA Invariance == Spec => []Inv
BY InitInv, NextInv, PTL DEF Spec

-----------------------------------------------------------------------------
(* Every token of the limiter is in its semaphore, with a call that runs,  *)
(* or on its way back: none is lost when a function raises, none is made   *)
(* up by a pool that starts late.                                          *)
THEOREM NoTokenIsLost == Spec => []TokensConserved
<1>1. Inv => TokensConserved  BY DEF Inv
<1> QED  BY Invariance, <1>1, PTL

LEMMA BoundedFromInv == Inv => RunningBounded /\ TypeOK
<1> SUFFICES ASSUME Inv PROVE RunningBounded /\ TypeOK  OBVIOUS
<1>1. /\ limit \in Nat /\ tokens \in Nat /\ returning \in Nat
      /\ Cardinality(Throttled) \in Nat
      /\ tokens + Cardinality(Throttled) + returning = limit
  BY ThrottledFinite DEF Inv, Shape, Types, TokensConserved
<1>2. /\ Cardinality(Throttled) <= limit
      /\ tokens \in 0 .. limit /\ returning \in 0 .. limit
  BY <1>1
<1> QED  BY <1>1, <1>2 DEF Inv, Shape, Types, RunningBounded, TypeOK

(* Types, with tokens in the semaphore and on their way back within the    *)
(* limit.                                                                  *)
THEOREM TypeCorrect == Spec => []TypeOK
BY Invariance, BoundedFromInv, PTL

(* The calls that run under the limiter are never more than its limit, for *)
(* any number of tools, processes and conversations.                       *)
THEOREM LimitHolds == Spec => []RunningBounded
BY Invariance, BoundedFromInv, PTL

-----------------------------------------------------------------------------
(* The abstract throttle, step by step.                                    *)
Phases == [c \in Clients |-> Phase(c)]

LEMMA PhasesMove ==
  ASSUME NEW c \in Clients, NEW v, Phase(c)' = v,
         \A d \in Clients : d # c => Phase(d)' = Phase(d)
  PROVE  Phases' = [Phases EXCEPT ![c] = v]
BY DEF Phases

LEMMA PhasesStay ==
  ASSUME \A d \in Clients : Phase(d)' = Phase(d)
  PROVE  Phases' = Phases
BY DEF Phases

LEMMA ExecutingIsThrottled == Shape => T!Executing = Throttled
<1> SUFFICES ASSUME Shape PROVE T!Executing = Throttled  OBVIOUS
<1>1. ASSUME NEW c \in Clients PROVE Phase(c) = "executing" <=> c \in Throttled
  BY DEF Phase, Throttled, Shape, CallsHavePools
<1> QED  BY <1>1 DEF T!Executing, Throttled

LEMMA InitRefines == Init => T!Init
<1> SUFFICES ASSUME Init PROVE T!Init  OBVIOUS
<1>1. ASSUME NEW c \in Clients PROVE Phase(c) = "idle"  BY DEF Init, Phase
<1> QED  BY <1>1 DEF Init, T!Init

LEMMA CreateRefines ==
  ASSUME Inv, NEW p \in Pools, Create(p) PROVE [T!Next]_(T!vars)
<1>1. \A d \in Clients : Phase(d)' = Phase(d)  BY DEF Create, Phase
<1>2. Phases' = Phases  BY <1>1, PhasesStay
<1>3. CASE limit = 0 /\ limit' = Rate[p]
  <2>1. limit' \in Nat \ {0}  BY <1>3, RateAssumption
  <2>2. T!Open  BY <1>2, <1>3, <2>1 DEF T!Open, Phases
  <2> QED  BY <2>2 DEF T!Next
<1>4. CASE limit' = limit  BY <1>2, <1>4 DEF T!vars, Phases
<1> QED  BY <1>3, <1>4 DEF Create

LEMMA CallRefines ==
  ASSUME Inv, NEW p \in Pools, NEW c \in Clients, Call(c, p) PROVE [T!Next]_(T!vars)
<1>a. Types  BY DEF Inv, Shape
<1>b. /\ place[c] = "idle" /\ place'[c] = "pending" /\ pool'[c] = p /\ limit' = limit
      /\ \A d \in Clients : d # c => place'[d] = place[d] /\ pool'[d] = pool[d]
  BY <1>a DEF Call, Types
<1>1. \A d \in Clients : d # c => Phase(d)' = Phase(d)  BY <1>b DEF Phase
<1>2. Phase(c) = "idle"  BY <1>b DEF Phase
<1>3. CASE Limited[p]
  <2>1. Phase(c)' = "waiting"  BY <1>b, <1>3 DEF Phase
  <2>2. Phases' = [Phases EXCEPT ![c] = "waiting"]  BY <1>1, <2>1, PhasesMove
  <2>3. Phases[c] = "idle"  BY <1>2 DEF Phases
  <2>4. T!Request(c)  BY <2>2, <2>3, <1>b DEF T!Request, Phases
  <2> QED  BY <2>4 DEF T!Next
<1>4. CASE ~Limited[p]
  <2>1. Phase(c)' = Phase(c)  BY <1>b, <1>2, <1>4 DEF Phase
  <2>2. Phases' = Phases  BY <1>1, <2>1, PhasesStay
  <2> QED  BY <2>2, <1>b DEF T!vars, Phases
<1> QED  BY <1>3, <1>4

LEMMA TakeRefines ==
  ASSUME Inv, NEW p \in Pools, Take(p) PROVE [T!Next]_(T!vars)
<1>a. Types  BY DEF Inv, Shape
<1>b. pending[p] \in Seq(Clients) /\ pending[p] # <<>> /\ Distinct(pending[p])
  BY <1>a DEF Types, Inv, Shape, PendingShape, Take
<1>0. PICK c \in Clients : c = Head(pending[p])
  BY <1>b, TailDistinct
<1>c. c = pending[p][1] /\ 1 \in 1 .. Len(pending[p])
  BY <1>0, <1>b, TailDistinct
<1>d. place[c] = "pending" /\ pool[c] = p
  BY <1>c DEF Inv, Shape, PendingShape
<1>e. /\ place'[c] = Entered(p)
      /\ pool'[c] = IF Entered(p) = "idle" THEN NoPool ELSE p
      /\ limit' = limit
      /\ \A d \in Clients : d # c => place'[d] = place[d] /\ pool'[d] = pool[d]
  BY <1>0, <1>a, <1>c, <1>d DEF Types, Take
<1>1. ASSUME NEW d \in Clients, d # c PROVE Phase(d)' = Phase(d)
  BY <1>1, <1>e DEF Phase
<1>2. Phase(c)' = Phase(c)
  <2>1. CASE Limited[p]
    <3>1. Entered(p) = "taken"  BY <2>1 DEF Entered
    <3> QED  BY <3>1, <2>1, <1>d, <1>e DEF Phase
  <2>2. CASE ~Limited[p]
    <3>1. Phase(c) = "idle"  BY <2>2, <1>d DEF Phase
    <3>2. Entered(p) \in {"running", "idle"}  BY <2>2 DEF Entered
    <3>3. Phase(c)' = "idle"  BY <3>2, <2>2, <1>e DEF Phase
    <3> QED  BY <3>1, <3>3
  <2> QED  BY <2>1, <2>2
<1>3. Phases' = Phases  BY <1>1, <1>2, PhasesStay
<1> QED  BY <1>3, <1>e DEF T!vars, Phases

LEMMA AskRefines ==
  ASSUME Inv, NEW c \in Clients, Ask(c) PROVE [T!Next]_(T!vars)
<1>a. Types  BY DEF Inv, Shape
<1>b. /\ place[c] = "taken" /\ place'[c] = "asking"
      /\ pool' = pool /\ limit' = limit
      /\ \A d \in Clients : d # c => place'[d] = place[d]
  BY <1>a DEF Ask, Types
<1>1. \A d \in Clients : Phase(d)' = Phase(d)  BY <1>b DEF Phase
<1>2. Phases' = Phases  BY <1>1, PhasesStay
<1> QED  BY <1>2, <1>b DEF T!vars, Phases

LEMMA AcquireRefines == ASSUME Inv, Acquire PROVE [T!Next]_(T!vars)
<1>a. Shape /\ Types  BY DEF Inv, Shape
<1>0. PICK c \in Clients : c = Head(queue)
  BY <1>a, HeadOfQueue DEF Acquire
<1>b. place[c] = "asking" /\ pool[c] \in Pools /\ Limited[pool[c]]
  BY <1>0, <1>a, HeadOfQueue DEF Acquire
<1>c. /\ place'[c] = "running" /\ pool' = pool /\ limit' = limit /\ tokens > 0
      /\ \A d \in Clients : d # c => place'[d] = place[d]
  BY <1>0, <1>a, <1>b DEF Types, Acquire
<1>1. \A d \in Clients : d # c => Phase(d)' = Phase(d)  BY <1>c DEF Phase
<1>2. Phase(c) = "waiting" /\ Phase(c)' = "executing"  BY <1>b, <1>c DEF Phase
<1>3. Phases' = [Phases EXCEPT ![c] = "executing"]  BY <1>1, <1>2, <1>b, PhasesMove
<1>4. Cardinality(T!Executing) < limit
  <2>1. /\ tokens + Cardinality(Throttled) + returning = limit
        /\ Cardinality(Throttled) \in Nat /\ tokens \in Nat /\ returning \in Nat
    BY <1>a, ThrottledFinite DEF Inv, TokensConserved, Types
  <2>2. Cardinality(Throttled) < limit  BY <2>1, <1>c
  <2> QED  BY <2>2, <1>a, ExecutingIsThrottled
<1>5. Phases[c] = "waiting"  BY <1>2, <1>b DEF Phases
<1>6. limit' = limit  BY <1>c
<1>7. T!Cardinality(T!Executing) = Cardinality(T!Executing)
  BY DEF T!Cardinality, Cardinality
<1>8. T!Begin(c)  BY <1>3, <1>4, <1>5, <1>6, <1>7 DEF T!Begin, Phases
<1> QED  BY <1>8 DEF T!Next

LEMMA EndRefines ==
  ASSUME Inv, NEW c \in Clients, End(c) PROVE [T!Next]_(T!vars)
<1>a. Types  BY DEF Inv, Shape
<1>b. /\ place[c] = "running" /\ place'[c] = "idle" /\ limit' = limit
      /\ \A d \in Clients : d # c => place'[d] = place[d] /\ pool'[d] = pool[d]
  BY <1>a DEF Types, End
<1>1. \A d \in Clients : d # c => Phase(d)' = Phase(d)  BY <1>b DEF Phase
<1>2. Phase(c)' = "idle"  BY <1>b DEF Phase
<1>3. CASE Limited[pool[c]]
  <2>1. Phase(c) = "executing"  BY <1>b, <1>3 DEF Phase
  <2>2. Phases' = [Phases EXCEPT ![c] = "idle"]  BY <1>1, <1>2, PhasesMove
  <2>3. Phases[c] = "executing"  BY <2>1 DEF Phases
  <2>4. T!Finish(c)  BY <2>2, <2>3, <1>b DEF T!Finish, Phases
  <2> QED  BY <2>4 DEF T!Next
<1>4. CASE ~Limited[pool[c]]
  <2>1. Phase(c)' = Phase(c)  BY <1>2, <1>4 DEF Phase
  <2>2. Phases' = Phases  BY <1>1, <2>1, PhasesStay
  <2> QED  BY <2>2, <1>b DEF T!vars, Phases
<1> QED  BY <1>3, <1>4

LEMMA StepRefines == Inv /\ [Next]_vars => [T!Next]_(T!vars)
<1> SUFFICES ASSUME Inv, [Next]_vars PROVE [T!Next]_(T!vars)  OBVIOUS
<1>1. CASE \E p \in Pools : Create(p)  BY <1>1, CreateRefines
<1>2. CASE \E p \in Pools : Take(p)  BY <1>2, TakeRefines
<1>3. CASE \E p \in Pools, c \in Clients : Call(c, p)  BY <1>3, CallRefines
<1>4. CASE \E c \in Clients : Ask(c)  BY <1>4, AskRefines
<1>5. CASE \E c \in Clients : End(c)  BY <1>5, EndRefines
<1>6. CASE Acquire  BY <1>6, AcquireRefines
<1>7. CASE Release \/ UNCHANGED vars
  <2>1. \A d \in Clients : Phase(d)' = Phase(d)  BY <1>7 DEF Release, vars, Phase
  <2>2. Phases' = Phases  BY <2>1, PhasesStay
  <2>3. limit' = limit  BY <1>7 DEF Release, vars
  <2> QED  BY <2>2, <2>3 DEF T!vars, Phases
<1> QED  BY <1>1, <1>2, <1>3, <1>4, <1>5, <1>6, <1>7 DEF Next

(* Pools, queues, messages and semaphore together implement the abstract   *)
(* throttle: a call begins only after it has waited, and only while fewer  *)
(* than the limit execute, and the limit is set once.                      *)
THEOREM LimiterThrottles == Spec => ImplementsThrottle
BY Invariance, InitRefines, StepRefines, PTL DEF Spec, ImplementsThrottle, T!Spec

-----------------------------------------------------------------------------
(* When the rates of two tools do and do not fit one limiter.              *)

(* No pool that could create the limiter gives a higher rate than a tool   *)
(* that runs code.                                                         *)
RatesFit ==
  \A p, q \in Pools : Limited[p] /\ Kind[p] = "code" /\ Limited[q] => Rate[q] <= Rate[p]

(* The limit is that of a pool, and code runs under the limiter only: with *)
(* it turned off, no code runs at all.                                     *)
LimitIsOfAPool == limit = 0 \/ \E q \in Pools : Limited[q] /\ limit = Rate[q]
CodeIsThrottled == RunningCode \subseteq Throttled

LEMMA CodeStaysThrottled ==
  ASSUME Shape, CodeIsThrottled, [Next]_vars
  PROVE  CodeIsThrottled'
<1>a. place \in [Clients -> Places] /\ pool \in [Clients -> Pools \cup {NoPool}]
  BY DEF Shape, Types
<1>b. ASSUME NEW c \in Clients,
             \A d \in Clients : d # c => place'[d] = place[d] /\ pool'[d] = pool[d],
             c \in RunningCode' => c \in Throttled'
      PROVE  CodeIsThrottled'
  BY <1>b DEF CodeIsThrottled, RunningCode, Throttled
<1>1. ASSUME NEW p \in Pools, Take(p) PROVE CodeIsThrottled'
  <2>0. PICK c : c = Head(pending[p])  OBVIOUS
  <2>1. c \in Clients /\ pool[c] = p
    <3>1. pending[p] \in Seq(Clients) /\ pending[p] # <<>>
      BY <1>1 DEF Shape, Types, Take
    <3>2. c = pending[p][1] /\ c \in Clients /\ 1 \in 1 .. Len(pending[p])
      BY <2>0, <3>1
    <3> QED  BY <3>2 DEF Shape, PendingShape
  <2>2. /\ place' = [place EXCEPT ![c] = Entered(p)]
        /\ pool' = [pool EXCEPT ![c] = IF Entered(p) = "idle" THEN NoPool ELSE @]
    BY <2>0, <1>1 DEF Take
  <2>3. c \in RunningCode' => c \in Throttled'
    BY <1>a, <2>1, <2>2 DEF RunningCode, Entered
  <2>4. \A d \in Clients : d # c => place'[d] = place[d] /\ pool'[d] = pool[d]
    BY <1>a, <2>1, <2>2
  <2> QED  BY <1>b, <2>1, <2>3, <2>4
<1>2. ASSUME NEW p \in Pools, NEW c \in Clients, Call(c, p) PROVE CodeIsThrottled'
  <2>1. \A d \in Clients : d # c => place'[d] = place[d] /\ pool'[d] = pool[d]
    BY <1>a, <1>2 DEF Call
  <2>2. c \notin RunningCode'
    BY <1>a, <1>2 DEF Call, RunningCode
  <2> QED  BY <1>b, <2>1, <2>2
<1>3. ASSUME NEW c \in Clients, Ask(c) \/ End(c) PROVE CodeIsThrottled'
  <2>1. \A d \in Clients : d # c => place'[d] = place[d] /\ pool'[d] = pool[d]
    BY <1>a, <1>3 DEF Ask, End
  <2>2. c \notin RunningCode'
    BY <1>a, <1>3 DEF Ask, End, RunningCode
  <2> QED  BY <1>b, <2>1, <2>2
<1>4. ASSUME Acquire PROVE CodeIsThrottled'
  <2>1. PICK c : c = Head(queue)  OBVIOUS
  <2>2. c \in Clients /\ pool[c] \in Pools /\ Limited[pool[c]]
    BY <1>4, <2>1, HeadOfQueue DEF Acquire
  <2>3. place' = [place EXCEPT ![c] = "running"] /\ pool' = pool
    BY <1>4, <2>1 DEF Acquire
  <2>4. c \in Throttled'
    BY <1>a, <2>2, <2>3 DEF Throttled
  <2>5. \A d \in Clients : d # c => place'[d] = place[d] /\ pool'[d] = pool[d]
    BY <1>a, <2>2, <2>3
  <2> QED  BY <1>b, <2>2, <2>4, <2>5
<1>5. CASE (\E p \in Pools : Create(p)) \/ Release \/ UNCHANGED vars
  <2>1. UNCHANGED <<place, pool>>
    BY <1>5 DEF Create, Release, vars
  <2> QED  BY <2>1 DEF CodeIsThrottled, RunningCode, Throttled
<1> QED  BY <1>1, <1>2, <1>3, <1>4, <1>5 DEF Next

LEMMA LimitStaysOfAPool == LimitIsOfAPool /\ [Next]_vars => LimitIsOfAPool'
<1> SUFFICES ASSUME LimitIsOfAPool, [Next]_vars PROVE LimitIsOfAPool'  OBVIOUS
<1>1. ASSUME NEW p \in Pools, Create(p) PROVE LimitIsOfAPool'
  BY <1>1 DEF Create, LimitIsOfAPool
<1>2. CASE UNCHANGED limit
  BY <1>2 DEF LimitIsOfAPool
<1> QED  BY <1>1, <1>2 DEF Next, Take, Call, Ask, End, Acquire, Release, vars

(* The code that runs in all pools together is within the rate of every    *)
(* code tool wherever the rates fit, whichever pool makes the limiter; a   *)
(* search tool that starts first with a higher rate breaks it.             *)
THEOREM CodeStaysWithinRate == RatesFit => (Spec => []CodeWithinRate)
<1> SUFFICES ASSUME RatesFit PROVE Spec => []CodeWithinRate  OBVIOUS
<1>1. Init => LimitIsOfAPool /\ CodeIsThrottled
  BY DEF Init, LimitIsOfAPool, CodeIsThrottled, RunningCode
<1>2. Inv /\ LimitIsOfAPool /\ CodeIsThrottled => CodeWithinRate
  <2> SUFFICES ASSUME Inv, LimitIsOfAPool, CodeIsThrottled,
                      NEW p \in Pools, Limited[p], Kind[p] = "code"
               PROVE  Cardinality(RunningCode) <= Rate[p]
    BY DEF CodeWithinRate
  <2>1. Cardinality(RunningCode) <= Cardinality(Throttled) /\ Cardinality(RunningCode) \in Nat
        /\ Cardinality(Throttled) \in Nat
    BY ThrottledFinite, FS_Subset, FS_CardinalityType DEF CodeIsThrottled
  <2>2. Cardinality(Throttled) <= limit  BY BoundedFromInv DEF RunningBounded
  <2>3. limit \in Nat /\ Rate[p] \in Nat /\ limit <= Rate[p]
    BY RateAssumption DEF RatesFit, LimitIsOfAPool, Inv, Shape, Types
  <2> QED  BY <2>1, <2>2, <2>3
<1>3. Inv /\ LimitIsOfAPool /\ CodeIsThrottled /\ [Next]_vars
        => (Inv /\ LimitIsOfAPool /\ CodeIsThrottled)'
  BY NextInv, LimitStaysOfAPool, CodeStaysThrottled DEF Inv
<1> QED  BY <1>1, <1>2, <1>3, InitInv, PTL DEF Spec

=============================================================================
