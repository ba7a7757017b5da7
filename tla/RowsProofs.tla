----------------------------- MODULE RowsProofs -----------------------------
(* Proofs about TrainingStep's rows, for batches, engines and workers of any *)
(* number: what splitting, exchanging, multiplying and putting together make *)
(* of a batch, then the invariant Batches of the training step.              *)
(*                                                                           *)
(* Predicates like Parted and At stand for products and quotients, so that   *)
(* the lemmas on them are used without arithmetic.                           *)
EXTENDS TrainingStepProofs

LEMMA DivRest ==
    ASSUME NEW a \in Nat, NEW b \in Nat \ {0}
    PROVE  a \div b \in Nat /\ (a % b) \in 0 .. b - 1 /\ a = b * (a \div b) + (a % b)
OBVIOUS

LEMMA DivMod ==
    ASSUME NEW q \in Nat, NEW b \in Nat \ {0}, NEW r \in 0 .. b - 1
    PROVE  q * b + r \in Nat /\ (q * b + r) \div b = q /\ ((q * b + r) % b) = r
<1>1. q * b \in Nat
  BY Z3
<1>2. q * b + r \in Nat
  BY <1>1
<1> DEFINE a == q * b + r
<1>3. a \in Nat /\ a = q * b + r
  BY <1>2
<1> HIDE DEF a
<1>4. /\ a \div b \in Nat /\ (a % b) \in 0 .. b - 1
      /\ a = b * (a \div b) + (a % b)
  BY <1>3, DivRest
<1>5. PICK p \in Nat, s \in 0 .. b - 1 : p = a \div b /\ s = (a % b) /\ a = b * p + s
  BY <1>4
<1>6. b * p + s = q * b + r
  BY <1>3, <1>5
<1>7. ~(p < q)
  <2>1. ASSUME p < q PROVE FALSE
    <3>1. b * (p + 1) <= b * q /\ b * (p + 1) = b * p + b /\ b * q = q * b
          /\ b * p \in Nat /\ b * q \in Nat
      BY <2>1, Z3
    <3> QED BY <1>6, <3>1
  <2> QED BY <2>1
<1>8. ~(q < p)
  <2>1. ASSUME q < p PROVE FALSE
    <3>1. b * (q + 1) <= b * p /\ b * (q + 1) = b * q + b /\ b * q = q * b
          /\ b * p \in Nat /\ b * q \in Nat
      BY <2>1, Z3
    <3> QED BY <1>6, <3>1
  <2> QED BY <2>1
<1>9. p = q
  BY <1>7, <1>8
<1>10. b * p = q * b /\ q * b \in Nat
  BY <1>9, Z3
<1>11. s = r
  BY <1>6, <1>10
<1> QED BY <1>2, <1>5, <1>9, <1>11 DEF a

(* len rows make k parts of m rows.                                          *)
Parted(len, k, m) == len = k * m

(* A length that splits.                                                     *)
LEMMA Quotient ==
    ASSUME NEW k \in Nat \ {0}, NEW m \in Nat
    PROVE  k * m \in Nat /\ (k * m) \div k = m /\ ((k * m) % k) = 0
<1>1. k * m = m * k + 0 /\ k * m \in Nat
  BY Z3
<1>2. (m * k + 0) \div k = m /\ ((m * k + 0) % k) = 0
  BY DivMod
<1> QED BY <1>1, <1>2

LEMMA SplitLength ==
    ASSUME NEW len \in Nat, NEW k \in Nat \ {0}, (len % k) = 0
    PROVE  \E m \in Nat : Parted(len, k, m)
<1>1. len \div k \in Nat /\ len = k * (len \div k) + (len % k)
  BY DivRest
<1>2. \A m \in Nat : k * m + 0 = k * m
  BY Z3
<1> QED BY <1>1, <1>2 DEF Parted

(* Row i is row r of part q, for parts of m rows.                            *)
At(i, m, q, r) == q = (i - 1) \div m /\ r = ((i - 1) % m) + 1 /\ q * m + r = i

LEMMA Position ==
    ASSUME NEW k \in Nat \ {0}, NEW m \in Nat, NEW len, Parted(len, k, m),
           NEW i \in 1 .. len
    PROVE  \E q \in 0 .. k - 1, r \in 1 .. m : At(i, m, q, r)
<1>0. len = k * m
  BY DEF Parted
<1>1. k * m \in Nat /\ (m = 0 => k * m = 0)
  BY Z3
<1>2. m \in Nat \ {0} /\ i \in Nat \ {0} /\ i - 1 \in Nat /\ i - 1 < k * m
  BY <1>0, <1>1
<1>3. PICK q \in Nat, r \in 0 .. m - 1 :
          q = (i - 1) \div m /\ r = ((i - 1) % m) /\ i - 1 = m * q + r
  BY <1>2, DivRest
<1>4. ASSUME k <= q PROVE FALSE
  <2>1. k * m <= m * q /\ m * q \in Nat
    BY <1>4, Z3
  <2> QED BY <1>1, <1>2, <1>3, <2>1
<1>5. q * m = m * q /\ q * m \in Nat
  BY Z3
<1>6. q \in 0 .. k - 1
  BY <1>4
<1>7. r + 1 \in 1 .. m /\ r + 1 = ((i - 1) % m) + 1 /\ q * m + (r + 1) = i
  BY <1>2, <1>3, <1>5
<1> QED BY <1>3, <1>6, <1>7 DEF At

------------------------------------------------------------------------------

LEMMA SameRows ==
    ASSUME NEW S, NEW a \in Seq(S), NEW b \in Seq(S), Len(a) = Len(b),
           \A j \in 1 .. Len(a) : a[j] = b[j]
    PROVE  a = b
OBVIOUS

(* c is part i of m rows of a batch.                                         *)
PartOf(c, s, m, i) == \A j \in 1 .. m : c[j] = s[i * m + j] /\ i * m + j \in 1 .. Len(s)

LEMMA ChunkIs ==
    ASSUME NEW S, NEW s \in Seq(S), NEW k \in Nat \ {0}, NEW m \in Nat, Parted(Len(s), k, m),
           NEW i \in 0 .. k - 1
    PROVE  /\ Chunk(s, k, i) \in Seq(S)
           /\ Len(Chunk(s, k, i)) = m
           /\ PartOf(Chunk(s, k, i), s, m, i)
<1>1. Len(s) = k * m /\ Len(s) \div k = m
  BY Quotient DEF Parted
<1>2. Chunk(s, k, i) = [j \in 1 .. m |-> s[i * m + j]]
  BY <1>1 DEF Chunk
<1>3. ASSUME NEW j \in 1 .. m PROVE i * m + j \in 1 .. Len(s)
  <2>1. i * m \in Nat /\ (i + 1) * m = i * m + m /\ (i + 1) * m <= k * m /\ k * m \in Nat
    BY Z3
  <2> QED BY <1>1, <2>1
<1>4. ASSUME NEW j \in 1 .. m PROVE s[i * m + j] \in S
  <2> DEFINE p == i * m + j
  <2>1. p \in 1 .. Len(s)
    BY <1>3
  <2> HIDE DEF p
  <2>2. s[p] \in S
    BY <2>1
  <2> QED BY <2>2 DEF p
<1>5. [j \in 1 .. m |-> s[i * m + j]] \in Seq(S) /\ Len([j \in 1 .. m |-> s[i * m + j]]) = m
  BY <1>4
<1>6. PartOf([j \in 1 .. m |-> s[i * m + j]], s, m, i)
  BY <1>3 DEF PartOf
<1> QED BY <1>2, <1>5, <1>6

(* k parts of m rows each, and what they make when put together.             *)
Equal(parts, k, m, S) == \A i \in 0 .. k - 1 : parts[i] \in Seq(S) /\ Len(parts[i]) = m
Joined(c, parts, k, m, len) ==
    \A i \in 1 .. len : \E q \in 0 .. k - 1, r \in 1 .. m :
        At(i, m, q, r) /\ c[i] = parts[q][r]

LEMMA ConcatIs ==
    ASSUME NEW S, NEW k \in Nat \ {0}, NEW m \in Nat, NEW len, Parted(len, k, m), NEW parts,
           Equal(parts, k, m, S)
    PROVE  /\ Concat(parts, k) \in Seq(S)
           /\ Len(Concat(parts, k)) = len
           /\ Joined(Concat(parts, k), parts, k, m, len)
<1>0. ASSUME NEW i \in 1 .. len
      PROVE  \E q \in 0 .. k - 1, r \in 1 .. m : At(i, m, q, r)
  BY Position
<1> DEFINE c == [i \in 1 .. len |-> parts[(i - 1) \div m][((i - 1) % m) + 1]]
<1>1. Concat(parts, k) = c
  <2>1. 0 \in 0 .. k - 1
    OBVIOUS
  <2>2. Len(parts[0]) = m
    BY <2>1 DEF Equal
  <2> QED BY <2>2 DEF Concat, Parted
<1>2. len \in Nat
  BY Quotient DEF Parted
<1>3. ASSUME NEW i \in 1 .. len
      PROVE  \E q \in 0 .. k - 1, r \in 1 .. m : At(i, m, q, r) /\ c[i] = parts[q][r]
  <2>1. PICK q \in 0 .. k - 1, r \in 1 .. m : At(i, m, q, r)
    BY <1>0
  <2>2. c[i] = parts[q][r]
    BY <2>1 DEF At
  <2> QED BY <2>1, <2>2
<1>4. ASSUME NEW i \in 1 .. len PROVE c[i] \in S
  <2>1. PICK q \in 0 .. k - 1, r \in 1 .. m : c[i] = parts[q][r]
    BY <1>3
  <2>2. parts[q] \in Seq(S) /\ Len(parts[q]) = m
    BY DEF Equal
  <2> QED BY <2>1, <2>2
<1>5. c \in Seq(S) /\ Len(c) = len
  <2>1. DOMAIN c = 1 .. len
    OBVIOUS
  <2>2. c \in [1 .. len -> S]
    BY <1>4
  <2> HIDE DEF c
  <2> QED BY <1>2, <2>2
<1> HIDE DEF c
<1>6. Joined(c, parts, k, m, len)
  BY <1>3 DEF Joined
<1> QED BY <1>1, <1>5, <1>6

(* The parts of a batch, put together, are the batch.                        *)
LEMMA ConcatChunks ==
    ASSUME NEW S, NEW s \in Seq(S), NEW k \in Nat \ {0}, Splits(s, k), NEW parts,
           \A i \in 0 .. k - 1 : parts[i] = Chunk(s, k, i)
    PROVE  Concat(parts, k) = s
<1>1. PICK m \in Nat : Parted(Len(s), k, m)
  <2>1. Len(s) \in Nat /\ (Len(s) % k) = 0
    BY DEF Splits
  <2> QED BY <2>1, SplitLength
<1>2. ASSUME NEW i \in 0 .. k - 1
      PROVE  /\ parts[i] \in Seq(S) /\ Len(parts[i]) = m
             /\ PartOf(parts[i], s, m, i)
  <2>1. parts[i] = Chunk(s, k, i)
    OBVIOUS
  <2>2. /\ Chunk(s, k, i) \in Seq(S)
        /\ Len(Chunk(s, k, i)) = m
        /\ PartOf(Chunk(s, k, i), s, m, i)
    BY <1>1, ChunkIs
  <2> QED BY <2>1, <2>2
<1>3. /\ Concat(parts, k) \in Seq(S)
      /\ Len(Concat(parts, k)) = Len(s)
      /\ Joined(Concat(parts, k), parts, k, m, Len(s))
  <2>1. Equal(parts, k, m, S)
    BY <1>2 DEF Equal
  <2> QED BY <1>1, <2>1, ConcatIs
<1>4. ASSUME NEW i \in 1 .. Len(s) PROVE Concat(parts, k)[i] = s[i]
  <2>1. PICK q \in 0 .. k - 1, r \in 1 .. m : At(i, m, q, r) /\ Concat(parts, k)[i] = parts[q][r]
    BY <1>3 DEF Joined
  <2>2. parts[q][r] = s[q * m + r]
    BY <1>2 DEF PartOf
  <2> QED BY <2>1, <2>2 DEF At
<1> QED BY <1>3, <1>4, SameRows

------------------------------------------------------------------------------
(* Groups: T neighbours of D * T ranks.                                      *)

Rank(d, T, t) == d * T + t

LEMMA RankIn ==
    ASSUME NEW D \in Nat \ {0}, NEW T \in Nat \ {0}, NEW W, Parted(W, D, T)
    PROVE  /\ W \in Nat \ {0}
           /\ \A d \in 0 .. D - 1, t \in 0 .. T - 1 : Rank(d, T, t) \in 0 .. W - 1
<1>1. W = D * T
  BY DEF Parted
<1>2. W \in Nat \ {0}
  BY <1>1, Z3
<1>3. ASSUME NEW d \in 0 .. D - 1, NEW t \in 0 .. T - 1 PROVE d * T + t \in 0 .. W - 1
  <2>1. d * T \in Nat /\ (d + 1) * T = d * T + T /\ (d + 1) * T <= D * T
    BY Z3
  <2> QED BY <1>1, <1>2, <2>1
<1> QED BY <1>2, <1>3 DEF Rank

(* W * m rows are D parts of T * m rows.                                     *)
LEMMA Grouped ==
    ASSUME NEW D \in Nat \ {0}, NEW T \in Nat \ {0}, NEW W, Parted(W, D, T),
           NEW m \in Nat, NEW len, Parted(len, W, m)
    PROVE  \E g \in Nat : Parted(g, T, m) /\ Parted(len, D, g)
<1>1. \A a, b, c \in Nat : b * c \in Nat /\ (a * b) * c = a * (b * c)
  BY Z3
<1>2. len = D * (T * m) /\ T * m \in Nat
  BY <1>1 DEF Parted
<1> QED BY <1>2 DEF Parted

(* Neighbours that put their parts together have the part of their group.    *)
LEMMA GatherChunks ==
    ASSUME NEW S, NEW s \in Seq(S), NEW D \in Nat \ {0}, NEW T \in Nat \ {0},
           NEW W, Parted(W, D, T), Splits(s, W), NEW d \in 0 .. D - 1, NEW parts,
           \A t \in 0 .. T - 1 : parts[t] = Chunk(s, W, Rank(d, T, t))
    PROVE  Concat(parts, T) = Chunk(s, D, d)
<1>0. W \in Nat \ {0} /\ \A t \in 0 .. T - 1 : Rank(d, T, t) \in 0 .. W - 1
  BY RankIn
<1>1. PICK m \in Nat : Parted(Len(s), W, m)
  <2>1. Len(s) \in Nat /\ (Len(s) % W) = 0
    BY DEF Splits
  <2> QED BY <1>0, <2>1, SplitLength
<1>2. PICK g \in Nat : Parted(g, T, m) /\ Parted(Len(s), D, g)
  BY <1>1, Grouped
<1>3. ASSUME NEW i \in 0 .. W - 1
      PROVE  /\ Chunk(s, W, i) \in Seq(S)
             /\ Len(Chunk(s, W, i)) = m
             /\ PartOf(Chunk(s, W, i), s, m, i)
  BY <1>0, <1>1, ChunkIs
<1>4. Equal(parts, T, m, S)
  BY <1>0, <1>3 DEF Equal
<1>5. /\ Chunk(s, D, d) \in Seq(S)
      /\ Len(Chunk(s, D, d)) = g
      /\ PartOf(Chunk(s, D, d), s, g, d)
  BY <1>2, ChunkIs
<1>6. /\ Concat(parts, T) \in Seq(S)
      /\ Len(Concat(parts, T)) = g
      /\ Joined(Concat(parts, T), parts, T, m, g)
  BY <1>2, <1>4, ConcatIs
<1>7. ASSUME NEW i \in 1 .. g PROVE Concat(parts, T)[i] = Chunk(s, D, d)[i]
  <2>1. PICK q \in 0 .. T - 1, r \in 1 .. m : At(i, m, q, r) /\ Concat(parts, T)[i] = parts[q][r]
    BY <1>6 DEF Joined
  <2>2. PICK w \in 0 .. W - 1 : w = Rank(d, T, q) /\ w = d * T + q
    BY <1>0 DEF Rank
  <2>3. parts[q][r] = s[w * m + r]
    BY <1>3, <2>2 DEF PartOf
  <2>4. w * m + r = d * g + i
    <3>1. g = T * m
      BY <1>2 DEF Parted
    <3>2. (d * T + q) * m + r = d * (T * m) + (q * m + r)
      BY Z3
    <3> QED BY <2>1, <2>2, <3>1, <3>2 DEF At
  <2>5. Chunk(s, D, d)[i] = s[d * g + i]
    BY <1>5 DEF PartOf
  <2> QED BY <2>1, <2>3, <2>4, <2>5
<1> QED BY <1>5, <1>6, <1>7, SameRows

------------------------------------------------------------------------------
(* Answers.                                                                  *)

(* The n answers to a row follow each other.                                 *)
Answered(c, s, n, len) ==
    \A i \in 1 .. len : \E q \in 0 .. Len(s) - 1, r \in 1 .. n :
        At(i, n, q, r) /\ c[i] = <<s[q + 1], r>>

LEMMA AnswersIs ==
    ASSUME NEW S, NEW s \in Seq(S), NEW n \in Nat \ {0}, NEW len, Parted(len, Len(s), n)
    PROVE  /\ Answers(s, n) \in Seq(S \X Nat)
           /\ Len(Answers(s, n)) = len
           /\ len \in Nat
           /\ Answered(Answers(s, n), s, n, len)
<1>1. n * Len(s) = len /\ len \in Nat
  <2>1. PICK k \in Nat : k = Len(s)
    OBVIOUS
  <2>2. n * k = k * n /\ k * n \in Nat
    BY Z3
  <2> QED BY <2>1, <2>2 DEF Parted
<1> DEFINE c == [i \in 1 .. len |-> <<s[((i - 1) \div n) + 1], ((i - 1) % n) + 1>>]
<1>2. Answers(s, n) = c
  BY <1>1 DEF Answers
<1> HIDE DEF c
<1>3. ASSUME NEW i \in 1 .. len
      PROVE  \E q \in 0 .. Len(s) - 1, r \in 1 .. n : At(i, n, q, r)
  <2>1. PICK k \in Nat : k = Len(s) /\ Parted(len, k, n)
    OBVIOUS
  <2>2. k # 0
    <3>1. 0 * n = 0
      BY Z3
    <3> QED BY <2>1, <3>1 DEF Parted
  <2>3. \E q \in 0 .. k - 1, r \in 1 .. n : At(i, n, q, r)
    BY <2>1, <2>2, Position
  <2> QED BY <2>1, <2>3
<1>4. ASSUME NEW i \in 1 .. len
      PROVE  \E q \in 0 .. Len(s) - 1, r \in 1 .. n : At(i, n, q, r) /\ c[i] = <<s[q + 1], r>>
  <2>1. PICK q \in 0 .. Len(s) - 1, r \in 1 .. n : At(i, n, q, r)
    BY <1>3
  <2>2. c[i] = <<s[((i - 1) \div n) + 1], ((i - 1) % n) + 1>>
    BY DEF c
  <2>3. q = ((i - 1) \div n) /\ r = ((i - 1) % n) + 1
    BY <2>1 DEF At
  <2>4. c[i] = <<s[q + 1], r>>
    BY <2>2, <2>3, Zenon
  <2> QED BY <2>1, <2>4
<1>5. ASSUME NEW i \in 1 .. len PROVE c[i] \in S \X Nat
  <2>1. PICK q \in 0 .. Len(s) - 1, r \in 1 .. n : c[i] = <<s[q + 1], r>>
    BY <1>4
  <2> QED BY <2>1
<1>6. c \in Seq(S \X Nat) /\ Len(c) = len
  <2>1. c \in [1 .. len -> S \X Nat]
    <3>1. DOMAIN c = 1 .. len /\ c = [i \in 1 .. len |-> c[i]]
      BY DEF c
    <3> QED BY <1>5, <3>1
  <2> QED BY <1>1, <2>1
<1>7. Answered(c, s, n, len)
  BY <1>4 DEF Answered
<1> QED BY <1>1, <1>2, <1>6, <1>7

(* Row r of part q is in no other place.                                     *)
LEMMA Place ==
    ASSUME NEW m \in Nat \ {0}, NEW q \in Nat, NEW r \in 1 .. m, NEW i, i = q * m + r
    PROVE  At(i, m, q, r) /\ i \in Nat \ {0}
<1>1. q * m \in Nat
  BY Z3
<1>2. PICK t \in 0 .. m - 1 : t = r - 1
  OBVIOUS
<1>3. /\ q * m + t \in Nat
      /\ (q * m + t) \div m = q /\ ((q * m + t) % m) = t
  BY DivMod
<1>4. i - 1 = q * m + t /\ i \in Nat \ {0}
  BY <1>1, <1>2
<1>5. (i - 1) \div m = q /\ ((i - 1) % m) = t
  BY <1>3, <1>4
<1> QED BY <1>2, <1>4, <1>5 DEF At

LEMMA OnePlace ==
    ASSUME NEW i, NEW m, NEW q, NEW r, NEW p, NEW t, At(i, m, q, r), At(i, m, p, t)
    PROVE  q = p /\ r = t
BY DEF At

(* A neighbour's part of its group's answers is its part of all answers.     *)
LEMMA LeaveChunk ==
    ASSUME NEW S, NEW s \in Seq(S), NEW D \in Nat \ {0}, NEW T \in Nat \ {0},
           NEW W, Parted(W, D, T), Splits(s, W), NEW n \in Nat \ {0},
           NEW d \in 0 .. D - 1, NEW t \in 0 .. T - 1
    PROVE  Chunk(Answers(Chunk(s, D, d), n), T, t) = Chunk(Answers(s, n), W, Rank(d, T, t))
<1>0. W \in Nat \ {0} /\ Rank(d, T, t) \in 0 .. W - 1
  BY RankIn
<1>1. PICK m \in Nat : Parted(Len(s), W, m)
  <2>1. Len(s) \in Nat /\ (Len(s) % W) = 0
    BY DEF Splits
  <2> QED BY <1>0, <2>1, SplitLength
<1>2. PICK g \in Nat : Parted(g, T, m) /\ Parted(Len(s), D, g)
  BY <1>1, Grouped
<1>3. PICK l \in Nat : l = m * n
  BY Z3
<1>4. PICK len \in Nat : Parted(len, Len(s), n) /\ Parted(len, W, l)
  <2>1. Len(s) = W * m /\ Len(s) \in Nat
    BY <1>1 DEF Parted
  <2>2. (W * m) * n = W * (m * n)
    BY <1>0, Z3
  <2>3. PICK k \in Nat : k = Len(s)
    BY <2>1
  <2>4. k * n \in Nat
    BY Z3
  <2> QED BY <1>3, <2>1, <2>2, <2>3, <2>4 DEF Parted
<1>5. PICK glen \in Nat : Parted(glen, g, n) /\ Parted(glen, T, l)
  <2>1. g = T * m
    BY <1>2 DEF Parted
  <2>2. (T * m) * n = T * (m * n) /\ g * n \in Nat
    BY Z3
  <2> QED BY <1>3, <2>1, <2>2 DEF Parted
<1> DEFINE c == Chunk(s, D, d)
           b == Answers(c, n)
           a == Answers(s, n)
           left == Chunk(b, T, t)
           right == Chunk(a, W, Rank(d, T, t))
<1>6. c \in Seq(S) /\ Len(c) = g /\ PartOf(c, s, g, d)
  BY <1>2, ChunkIs
<1>7. b \in Seq(S \X Nat) /\ Len(b) = glen /\ Answered(b, c, n, glen)
  <2>1. Parted(glen, Len(c), n)
    BY <1>5, <1>6
  <2> HIDE DEF c
  <2> QED BY <1>6, <2>1, AnswersIs
<1>8. a \in Seq(S \X Nat) /\ Len(a) = len /\ Answered(a, s, n, len)
  BY <1>4, AnswersIs
<1> HIDE DEF c, b, a
<1>9. left \in Seq(S \X Nat) /\ Len(left) = l
      /\ PartOf(left, b, l, t)
  <2>1. Parted(Len(b), T, l)
    BY <1>5, <1>7
  <2> QED BY <1>7, <2>1, ChunkIs
<1>10. ASSUME NEW w \in 0 .. W - 1
       PROVE  /\ Chunk(a, W, w) \in Seq(S \X Nat)
              /\ Len(Chunk(a, W, w)) = l
              /\ PartOf(Chunk(a, W, w), a, l, w)
  <2>1. Parted(Len(a), W, l)
    BY <1>4, <1>8
  <2> QED BY <1>0, <1>8, <2>1, ChunkIs
<1>11. PICK w \in 0 .. W - 1 : w = Rank(d, T, t)
  BY <1>0
<1>12. right \in Seq(S \X Nat) /\ Len(right) = l
       /\ PartOf(right, a, l, w)
  BY <1>10, <1>11
<1> HIDE DEF left, right
<1>13. ASSUME NEW j \in 1 .. l PROVE left[j] = right[j]
  <2>1. PICK i \in 1 .. glen : i = t * l + j /\ left[j] = b[i]
    BY <1>7, <1>9 DEF PartOf
  <2>2. PICK q \in 0 .. g - 1, r \in 1 .. n : At(i, n, q, r) /\ b[i] = <<c[q + 1], r>>
    BY <1>6, <1>7 DEF Answered
  <2>3. PICK h \in 1 .. len : h = w * l + j /\ right[j] = a[h]
    BY <1>8, <1>12 DEF PartOf
  <2>4. PICK p \in 0 .. Len(s) - 1, k \in 1 .. n : At(h, n, p, k) /\ a[h] = <<s[p + 1], k>>
    BY <1>8 DEF Answered
  <2>5. h = (d * g + q) * n + r /\ d * g + q \in Nat
    <3>1. i = q * n + r
      BY <2>2 DEF At
    <3>2. w = d * T + t
      BY <1>11 DEF Rank
    <3>3. g = T * m
      BY <1>2 DEF Parted
    <3>4. \A x \in Nat : (d * T + t) * (m * n) = d * (T * m) * n + t * (m * n)
      BY Z3
    <3>5. \A x \in Nat : (d * (T * m) + q) * n = d * (T * m) * n + q * n
      BY Z3
    <3>6. d * (T * m) \in Nat /\ d * (T * m) * n \in Nat /\ q * n \in Nat /\ t * (m * n) \in Nat
      BY Z3
    <3> QED BY <1>3, <2>1, <2>3, <3>1, <3>2, <3>3, <3>4, <3>5, <3>6
  <2>6. PICK y \in Nat : y = d * g + q
    BY <2>5
  <2>7. At(h, n, y, r)
    BY <2>5, <2>6, Place
  <2>8. p = y /\ k = r
    BY <2>4, <2>7, OnePlace
  <2>9. c[q + 1] = s[y + 1]
    <3>1. q + 1 \in 1 .. g
      OBVIOUS
    <3>2. c[q + 1] = s[d * g + (q + 1)]
      BY <1>6, <3>1 DEF PartOf
    <3>3. d * g \in Nat
      BY Z3
    <3> QED BY <2>6, <3>2, <3>3
  <2> QED BY <1>9, <1>12, <2>1, <2>2, <2>3, <2>4, <2>8, <2>9
<1>14. left = right
  BY <1>9, <1>12, <1>13, SameRows
<1> QED BY <1>14 DEF left, right, a, b, c

------------------------------------------------------------------------------
(* Padded, cut and repeated rows.                                            *)

LEMMA Appended ==
    ASSUME NEW S, NEW a \in Seq(S), NEW p \in Nat, NEW f \in [1 .. p -> S]
    PROVE  /\ a \o f \in Seq(S)
           /\ Len(a \o f) = Len(a) + p
           /\ \A i \in 1 .. Len(a) : (a \o f)[i] = a[i]
<1>1. f \in Seq(S) /\ Len(f) = p
  OBVIOUS
<1> QED BY <1>1

LEMMA PadSizeFits ==
    ASSUME NEW len \in Nat, NEW k \in Nat \ {0}
    PROVE  /\ PadSize(len, k) \in 0 .. k - 1
           /\ ((len + PadSize(len, k)) % k) = 0
           /\ PadSize(len, k) = 0 <=> (len % k) = 0
<1>1. PICK q \in Nat, r \in 0 .. k - 1 : r = (len % k) /\ len = k * q + r
  BY DivRest
<1>2. CASE r = 0
  BY <1>1, <1>2 DEF PadSize
<1>3. CASE r # 0
  <2>1. PadSize(len, k) = k - r
    BY <1>1, <1>3 DEF PadSize
  <2>2. k * q \in Nat /\ k * (q + 1) = k * q + k
    BY Z3
  <2>3. len + (k - r) = k * (q + 1)
    BY <1>1, <2>2
  <2>4. ((k * (q + 1)) % k) = 0
    BY Quotient
  <2> QED BY <1>1, <1>3, <2>1, <2>3, <2>4
<1> QED BY <1>2, <1>3

(* The rows of a batch, and others after them.                               *)
Longer(t, s, p) == Len(t) = Len(s) + p /\ \A i \in 1 .. Len(s) : t[i] = s[i]

LEMMA PaddedRows ==
    ASSUME NEW S, NEW s \in Seq(S), Len(s) # 0, NEW k \in Nat \ {0}
    PROVE  /\ PadWithFirst(s, k) \in Seq(S) /\ Longer(PadWithFirst(s, k), s, PadSize(Len(s), k))
           /\ PadWithLast(s, k) \in Seq(S) /\ Longer(PadWithLast(s, k), s, PadSize(Len(s), k))
           /\ PadSize(Len(s), k) \in 0 .. k - 1
           /\ Splits(PadWithFirst(s, k), k) /\ Splits(PadWithLast(s, k), k)
<1>1. PICK p \in 0 .. k - 1 : p = PadSize(Len(s), k) /\ ((Len(s) + p) % k) = 0
  <2>1. PICK l \in Nat : l = Len(s)
    OBVIOUS
  <2>2. PadSize(l, k) \in 0 .. k - 1 /\ ((l + PadSize(l, k)) % k) = 0
    BY PadSizeFits
  <2> QED BY <2>1, <2>2
<1>2. [i \in 1 .. p |-> s[Len(s)]] \in [1 .. p -> S]
  OBVIOUS
<1>3. [i \in 1 .. p |-> s[((i - 1) % Len(s)) + 1]] \in [1 .. p -> S]
  <2>1. PICK l \in Nat \ {0} : l = Len(s)
    OBVIOUS
  <2>2. ASSUME NEW i \in 1 .. p PROVE s[((i - 1) % l) + 1] \in S
    <3>1. i - 1 \in Nat
      OBVIOUS
    <3>2. ((i - 1) % l) \in 0 .. l - 1
      BY <3>1, DivRest
    <3> QED BY <2>1, <3>2
  <2> QED BY <2>1, <2>2
<1>4. /\ PadWithFirst(s, k) = s \o [i \in 1 .. p |-> s[((i - 1) % Len(s)) + 1]]
      /\ PadWithLast(s, k) = s \o [i \in 1 .. p |-> s[Len(s)]]
  BY <1>1 DEF PadWithFirst, PadWithLast
<1>5. ASSUME NEW f \in [1 .. p -> S]
      PROVE  s \o f \in Seq(S) /\ Longer(s \o f, s, p) /\ Splits(s \o f, k)
  <2>1. /\ s \o f \in Seq(S) /\ Len(s \o f) = Len(s) + p
        /\ \A i \in 1 .. Len(s) : (s \o f)[i] = s[i]
    BY Appended
  <2>2. (Len(s \o f) % k) = 0
    BY <1>1, <2>1, Zenon
  <2> QED BY <2>1, <2>2 DEF Longer, Splits
<1>6. /\ PadWithFirst(s, k) \in Seq(S) /\ Longer(PadWithFirst(s, k), s, p)
      /\ Splits(PadWithFirst(s, k), k)
  BY <1>3, <1>4, <1>5
<1>7. /\ PadWithLast(s, k) \in Seq(S) /\ Longer(PadWithLast(s, k), s, p)
      /\ Splits(PadWithLast(s, k), k)
  BY <1>2, <1>4, <1>5
<1> QED BY <1>1, <1>6, <1>7

LEMMA UnpaddedRows ==
    ASSUME NEW S, NEW s \in Seq(S), NEW p \in 0 .. Len(s)
    PROVE  /\ Unpad(s, p) \in Seq(S)
           /\ Len(Unpad(s, p)) = Len(s) - p
           /\ \A i \in 1 .. Len(s) - p : Unpad(s, p)[i] = s[i]
BY DEF Unpad

LEMMA UnpadNothing ==
    ASSUME NEW S, NEW s \in Seq(S)
    PROVE  Unpad(s, 0) = s
<1>1. /\ Unpad(s, 0) \in Seq(S) /\ Len(Unpad(s, 0)) = Len(s)
      /\ \A i \in 1 .. Len(s) : Unpad(s, 0)[i] = s[i]
  BY DEF Unpad
<1> QED BY <1>1, SameRows

(* Each row n times.                                                         *)
Repeated(c, s, n, len) ==
    \A i \in 1 .. len : \E q \in 0 .. Len(s) - 1, r \in 1 .. n :
        At(i, n, q, r) /\ c[i] = s[q + 1]

LEMMA RepeatIs ==
    ASSUME NEW S, NEW s \in Seq(S), NEW n \in Nat \ {0}, NEW len, Parted(len, Len(s), n)
    PROVE  /\ Repeat(s, n) \in Seq(S)
           /\ Len(Repeat(s, n)) = len
           /\ Repeated(Repeat(s, n), s, n, len)
<1>1. n * Len(s) = len /\ len \in Nat
  <2>1. PICK k \in Nat : k = Len(s)
    OBVIOUS
  <2>2. n * k = k * n /\ k * n \in Nat
    BY Z3
  <2> QED BY <2>1, <2>2 DEF Parted
<1> DEFINE c == [i \in 1 .. len |-> s[((i - 1) \div n) + 1]]
<1>2. Repeat(s, n) = c
  BY <1>1 DEF Repeat
<1> HIDE DEF c
<1>3. ASSUME NEW i \in 1 .. len
      PROVE  \E q \in 0 .. Len(s) - 1, r \in 1 .. n : At(i, n, q, r)
  <2>1. PICK k \in Nat : k = Len(s) /\ Parted(len, k, n)
    OBVIOUS
  <2>2. k # 0
    <3>1. 0 * n = 0
      BY Z3
    <3> QED BY <2>1, <3>1 DEF Parted
  <2>3. \E q \in 0 .. k - 1, r \in 1 .. n : At(i, n, q, r)
    BY <2>1, <2>2, Position
  <2> QED BY <2>1, <2>3
<1>4. ASSUME NEW i \in 1 .. len
      PROVE  \E q \in 0 .. Len(s) - 1, r \in 1 .. n : At(i, n, q, r) /\ c[i] = s[q + 1]
  <2>1. PICK q \in 0 .. Len(s) - 1, r \in 1 .. n : At(i, n, q, r)
    BY <1>3
  <2>2. c[i] = s[((i - 1) \div n) + 1]
    BY DEF c
  <2>3. q = ((i - 1) \div n)
    BY <2>1 DEF At
  <2>4. c[i] = s[q + 1]
    BY <2>2, <2>3, Zenon
  <2> QED BY <2>1, <2>4
<1>5. ASSUME NEW i \in 1 .. len PROVE c[i] \in S
  <2>1. PICK q \in 0 .. Len(s) - 1, r \in 1 .. n : c[i] = s[q + 1]
    BY <1>4
  <2> QED BY <2>1
<1>6. c \in Seq(S) /\ Len(c) = len
  <2>1. c \in [1 .. len -> S]
    <3>1. DOMAIN c = 1 .. len /\ c = [i \in 1 .. len |-> c[i]]
      BY DEF c
    <3> QED BY <1>5, <3>1
  <2> QED BY <1>1, <2>1
<1>7. Repeated(c, s, n, len)
  BY <1>4 DEF Repeated
<1> QED BY <1>2, <1>6, <1>7

------------------------------------------------------------------------------
(* The invariant of the rows.                                                *)

RowsTypeOK ==
    /\ pad \in 0 .. WorldSize - 1
    /\ asked \in Seq(Nat) /\ rows \in Seq(Nat)
    /\ answers \in Seq(Nat \X Nat) /\ scored \in Seq(Nat \X Nat)

(* What was sent are the prompts of the batch, perhaps with padding.         *)
Asked ==
    driver \in {"rollout", "join"} =>
        /\ rows = Prompts(Size)
        /\ Longer(asked, rows, pad)
        /\ job.async \/ Splits(asked, WorldSize)
        /\ pad = 0 \/ testing \/ ~EvenJob

(* What a worker holds in each stage of a rollout.                           *)
Carries(w) ==
    /\ stage[w] \in {"entering", "loading", "inside"} => held[w] = Chunk(asked, WorldSize, w)
    /\ stage[w] = "ready" => held[w] = Chunk(asked, Dp, EngineOf(w))
    /\ stage[w] = "leaving" => held[w] = Answers(Chunk(asked, Dp, EngineOf(w)), Samples)
    /\ stage[w] = "done" => held[w] = Chunk(Answers(asked, Samples), WorldSize, w)

Carried == driver = "rollout" /\ ~job.async => \A w \in Workers : Carries(w)

Collected == driver = "join" => answers = Unpad(Answers(asked, Samples), pad)

Batches == RowsTypeOK /\ Asked /\ Carried /\ Collected /\ AnswersFitPrompts

LEMMA Ranks ==
    /\ Parted(WorldSize, Dp, Tp)
    /\ \A w \in Workers : /\ EngineOf(w) \in Engines /\ TpRank(w) \in 0 .. Tp - 1
                          /\ w = Rank(EngineOf(w), Tp, TpRank(w))
    /\ \A d \in Engines, t \in 0 .. Tp - 1 :
          Rank(d, Tp, t) \in Workers /\ EngineOf(Rank(d, Tp, t)) = d
<1>1. Dp \in Nat \ {0} /\ Tp \in Nat \ {0}
  BY MeshAssumption
<1>2. Parted(WorldSize, Dp, Tp)
  BY DEF Parted, WorldSize
<1>3. ASSUME NEW w \in Workers
      PROVE  /\ EngineOf(w) \in Engines /\ TpRank(w) \in 0 .. Tp - 1
             /\ w = Rank(EngineOf(w), Tp, TpRank(w))
  <2>1. w \in Nat /\ w < Dp * Tp
    BY MeshFacts DEF Workers, WorldSize
  <2>2. PICK q \in Nat, r \in 0 .. Tp - 1 : q = w \div Tp /\ r = (w % Tp) /\ w = Tp * q + r
    <3>1. PICK t \in Nat \ {0}, v \in Nat : t = Tp /\ v = w
      BY <1>1, <2>1
    <3>2. v \div t \in Nat /\ (v % t) \in 0 .. t - 1 /\ v = t * (v \div t) + (v % t)
      BY DivRest
    <3>3. PICK q \in Nat, r \in 0 .. t - 1 : q = v \div t /\ r = (v % t) /\ v = t * q + r
      BY <3>2
    <3> QED BY <3>1, <3>3
  <2>3. Tp * q = q * Tp /\ q * Tp \in Nat /\ (Dp <= q => Dp * Tp <= q * Tp) /\ Dp * Tp \in Nat
    BY <1>1, Z3
  <2>4. q \in 0 .. Dp - 1
    BY <1>1, <2>1, <2>2, <2>3
  <2> QED BY <2>2, <2>3, <2>4 DEF EngineOf, TpRank, Rank, Engines
<1>4. ASSUME NEW d \in Engines, NEW t \in 0 .. Tp - 1
      PROVE  Rank(d, Tp, t) \in Workers /\ EngineOf(Rank(d, Tp, t)) = d
  <2>1. d \in 0 .. Dp - 1
    BY DEF Engines
  <2>2. Rank(d, Tp, t) \in 0 .. WorldSize - 1
    BY <1>1, <1>2, <2>1, RankIn
  <2>3. (d * Tp + t) \div Tp = d
    BY <1>1, <2>1, DivMod
  <2> QED BY <2>2, <2>3 DEF Workers, EngineOf, Rank
<1> QED BY <1>2, <1>3, <1>4

LEMMA SamplesFacts ==
    ASSUME job \in Jobs
    PROVE  /\ Samples \in Nat \ {0} /\ Size \in Nat \ {0}
           /\ testing => Samples = 1
           /\ ~testing => Samples = job.n /\ Size = job.size
BY JobFacts DEF Samples, Size

(* A step of a worker, or of an engine's workers, keeps what they carry.     *)
LEMMA WorkersCarry == Control /\ Batches /\ WorkersRun => Batches'
<1> SUFFICES ASSUME Control, Batches, WorkersRun PROVE Batches'
  OBVIOUS
<1>0. /\ job \in Jobs /\ job.async \in BOOLEAN /\ HybridTypeOK
      /\ UNCHANGED <<job, driver, testing, asked, pad, rows, answers, scored>>
      /\ RolloutStep(Samples, job.async)
  BY JobFacts DEF Control, ControlTypeOK, WorkersRun, batchVars
<1>1. RowsTypeOK' /\ Asked' /\ Collected' /\ AnswersFitPrompts'
  BY <1>0 DEF Batches, RowsTypeOK, Asked, Collected, AnswersFitPrompts, Size, Samples,
              OwnAnswers, EachOnce, EvenJob, Prompts
<1>2. Carried'
  <2> SUFFICES ASSUME driver = "rollout", ~job.async PROVE \A w \in Workers : Carries(w)'
    BY <1>0 DEF Carried
  <2>1. \A w \in Workers : Carries(w)
    BY DEF Batches, Carried
  <2>2. Splits(asked, WorldSize) /\ asked \in Seq(Nat) /\ Samples' = Samples
        /\ Samples \in Nat \ {0} /\ UNCHANGED asked
    BY <1>0, SamplesFacts DEF Batches, Asked, RowsTypeOK, Samples
  <2>3. ASSUME NEW v \in Workers, NEW to, stage' = [stage EXCEPT ![v] = to],
               stage[v] \in {"entering", "loading"}, to \in {"loading", "inside"}, held' = held
        PROVE  \A w \in Workers : Carries(w)'
    BY <1>0, <2>1, <2>2, <2>3 DEF Carries, HybridTypeOK
  <2>4. ASSUME NEW v \in Workers, Load(v, job.async) \/ Sync(v)
        PROVE  \A w \in Workers : Carries(w)'
    BY <2>3, <2>4 DEF Load, Sync, Goes
  <2>5. ASSUME NEW v \in Workers, Leave(v, job.async) PROVE \A w \in Workers : Carries(w)'
    <3>1. /\ stage[v] = "leaving" /\ stage' = [stage EXCEPT ![v] = "done"]
          /\ held' = [held EXCEPT ![v] = Chunk(held[v], Tp, TpRank(v))]
      BY <2>5 DEF Leave, Goes
    <3>2. PICK d \in 0 .. Dp - 1, t \in 0 .. Tp - 1 :
              d = EngineOf(v) /\ t = TpRank(v) /\ v = Rank(d, Tp, t)
      BY Ranks DEF Engines
    <3>3. held[v] = Answers(Chunk(asked, Dp, d), Samples)
      BY <2>1, <3>1, <3>2 DEF Carries
    <3>4. Chunk(Answers(Chunk(asked, Dp, d), Samples), Tp, t)
              = Chunk(Answers(asked, Samples), WorldSize, Rank(d, Tp, t))
      BY <2>2, MeshAssumption, Ranks, LeaveChunk
    <3>5. held'[v] = Chunk(Answers(asked, Samples), WorldSize, v) /\ stage'[v] = "done"
      BY <1>0, <3>1, <3>2, <3>3, <3>4 DEF HybridTypeOK
    <3>6. \A w \in Workers : w # v => held'[w] = held[w] /\ stage'[w] = stage[w]
      BY <1>0, <3>1 DEF HybridTypeOK
    <3> QED BY <2>1, <2>2, <3>5, <3>6 DEF Carries
  <2>6. ASSUME NEW d \in Engines, Gather(d) PROVE \A w \in Workers : Carries(w)'
    <3>1. /\ \A w \in Group(d) : stage[w] = "inside"
          /\ held' = [w \in Workers |-> IF w \in Group(d) THEN Gathered(d) ELSE held[w]]
          /\ stage' = [w \in Workers |-> IF w \in Group(d) THEN "ready" ELSE stage[w]]
      BY <2>6 DEF Gather, GroupGoes
    <3> DEFINE parts == [t \in 0 .. Tp - 1 |-> held[d * Tp + t]]
    <3>2. \A t \in 0 .. Tp - 1 : parts[t] = Chunk(asked, WorldSize, Rank(d, Tp, t))
      <4>1. ASSUME NEW t \in 0 .. Tp - 1
            PROVE  held[Rank(d, Tp, t)] = Chunk(asked, WorldSize, Rank(d, Tp, t))
        BY <2>1, <3>1, Ranks DEF Carries, Group
      <4> QED BY <4>1 DEF Rank
    <3>3. Gathered(d) = Concat(parts, Tp)
      BY DEF Gathered
    <3> HIDE DEF parts
    <3>4. Concat(parts, Tp) = Chunk(asked, Dp, d)
      <4>1. d \in 0 .. Dp - 1
        BY DEF Engines
      <4> QED BY <2>2, <3>2, <4>1, MeshAssumption, Ranks, GatherChunks
    <3>5. \A w \in Group(d) : held'[w] = Chunk(asked, Dp, EngineOf(w)) /\ stage'[w] = "ready"
      BY <3>1, <3>3, <3>4 DEF Group
    <3>6. \A w \in Workers : w \notin Group(d) => held'[w] = held[w] /\ stage'[w] = stage[w]
      BY <3>1
    <3> QED BY <2>1, <2>2, <3>5, <3>6 DEF Carries
  <2>7. ASSUME NEW d \in Engines, Generate(d, Samples, job.async)
        PROVE  \A w \in Workers : Carries(w)'
    <3>1. /\ \A w \in Group(d) : stage[w] = "ready"
          /\ held' = [w \in Workers |-> IF w \in Group(d) THEN Answers(held[w], Samples)
                                                         ELSE held[w]]
          /\ stage' = [w \in Workers |-> IF w \in Group(d) THEN "leaving" ELSE stage[w]]
      BY <2>7 DEF Generate, GroupGoes
    <3>2. \A w \in Group(d) : held[w] = Chunk(asked, Dp, EngineOf(w))
      BY <2>1, <3>1 DEF Carries, Group
    <3>3. \A w \in Group(d) : /\ held'[w] = Answers(Chunk(asked, Dp, EngineOf(w)), Samples)
                              /\ stage'[w] = "leaving"
      BY <3>1, <3>2 DEF Group
    <3>4. \A w \in Workers : w \notin Group(d) => held'[w] = held[w] /\ stage'[w] = stage[w]
      BY <3>1
    <3> QED BY <2>1, <2>2, <3>3, <3>4 DEF Carries
  <2> QED BY <1>0, <2>4, <2>5, <2>6, <2>7 DEF RolloutStep, SkipWake
<1> QED BY <1>1, <1>2 DEF Batches

------------------------------------------------------------------------------
(* What uniting makes: a is the prompts with their answers.                  *)

Own(r, a) == \A i \in DOMAIN r : a[i][1] = r[i]
Once(a, size, n) ==
    \A p \in 1 .. size, k \in 1 .. n :
        \E i \in DOMAIN a : /\ a[i] = <<p, k>>
                            /\ \A j \in DOMAIN a : a[j] = <<p, k>> => j = i

Prompted(a, size, n, len) ==
    \A i \in 1 .. len : \E q \in 0 .. size - 1, r \in 1 .. n :
        At(i, n, q, r) /\ a[i] = <<q + 1, r>>

LEMMA SamePrompts ==
    ASSUME NEW size \in Nat, NEW n \in Nat \ {0}, NEW len, Parted(len, size, n),
           NEW sent \in Seq(Nat), NEW p \in Nat, Longer(sent, Prompts(size), p),
           NEW a, NEW total, Parted(total, Len(sent), n), Answered(a, sent, n, total),
           len <= total
    PROVE  Prompted(a, size, n, len)
<1>1. size # 0 \/ len = 0
  <2>1. 0 * n = 0
    BY Z3
  <2> QED BY <2>1 DEF Parted
<1>2. len \in Nat
  <2>1. size * n \in Nat
    BY Z3
  <2> QED BY <2>1 DEF Parted
<1>3. Len(Prompts(size)) = size /\ \A i \in 1 .. size : Prompts(size)[i] = i
  BY DEF Prompts
<1>4. PICK l \in Nat : l = total
  <2>1. PICK k \in Nat : k = Len(sent)
    OBVIOUS
  <2>2. k * n \in Nat
    BY Z3
  <2> QED BY <2>1, <2>2 DEF Parted
<1>5. ASSUME NEW i \in 1 .. len
      PROVE  \E q \in 0 .. size - 1, r \in 1 .. n : At(i, n, q, r) /\ a[i] = <<q + 1, r>>
  <2>1. PICK k \in Nat \ {0} : k = size /\ Parted(len, k, n)
    BY <1>1
  <2>2. PICK q \in 0 .. k - 1, r \in 1 .. n : At(i, n, q, r)
    BY <2>1, Position
  <2>3. i \in 1 .. total
    BY <1>2, <1>4
  <2>4. PICK y \in 0 .. Len(sent) - 1, t \in 1 .. n : At(i, n, y, t) /\ a[i] = <<sent[y + 1], t>>
    BY <2>3 DEF Answered
  <2>5. y = q /\ t = r
    BY <2>2, <2>4, OnePlace
  <2>6. sent[q + 1] = q + 1
    <3>1. q + 1 \in 1 .. size
      BY <2>1
    <3> QED BY <1>3, <3>1 DEF Longer
  <2> QED BY <2>1, <2>2, <2>4, <2>5, <2>6
<1> QED BY <1>5 DEF Prompted

LEMMA RowIn ==
    ASSUME NEW size \in Nat \ {0}, NEW n \in Nat \ {0}, NEW len, Parted(len, size, n),
           NEW q \in 0 .. size - 1, NEW k \in 1 .. n, NEW i \in Nat, i = q * n + k
    PROVE  i \in 1 .. len
<1>1. q * n \in Nat /\ (q + 1) * n = q * n + n /\ size * n \in Nat /\ (q + 1) * n <= size * n
  BY Z3
<1> QED BY <1>1 DEF Parted

LEMMA FittingRows ==
    ASSUME NEW size \in Nat \ {0}, NEW n \in Nat \ {0}, NEW len, Parted(len, size, n),
           NEW a, DOMAIN a = 1 .. len, NEW b, DOMAIN b = 1 .. len,
           Repeated(b, Prompts(size), n, len), Prompted(a, size, n, len)
    PROVE  Own(b, a) /\ Once(a, size, n)
<1>1. Len(Prompts(size)) = size /\ \A i \in 1 .. size : Prompts(size)[i] = i
  BY DEF Prompts
<1>2. ASSUME NEW i \in 1 .. len PROVE a[i][1] = b[i]
  <2>1. PICK q \in 0 .. size - 1, r \in 1 .. n : At(i, n, q, r) /\ a[i] = <<q + 1, r>>
    BY DEF Prompted
  <2>2. PICK y \in 0 .. size - 1, t \in 1 .. n : At(i, n, y, t) /\ b[i] = Prompts(size)[y + 1]
    BY <1>1 DEF Repeated
  <2>3. y = q
    BY <2>1, <2>2, OnePlace
  <2>4. Prompts(size)[q + 1] = q + 1
    <3>1. q + 1 \in 1 .. size
      OBVIOUS
    <3> QED BY <1>1, <3>1
  <2> QED BY <2>1, <2>2, <2>3, <2>4
<1>3. ASSUME NEW p \in 1 .. size, NEW k \in 1 .. n
      PROVE  \E i \in 1 .. len : /\ a[i] = <<p, k>>
                                 /\ \A j \in 1 .. len : a[j] = <<p, k>> => j = i
  <2>1. PICK q \in Nat : p = q + 1 /\ q + 1 <= size /\ q \in 0 .. size - 1
    <3>1. p - 1 \in 0 .. size - 1 /\ p = (p - 1) + 1 /\ p - 1 \in Nat
      OBVIOUS
    <3> QED BY <3>1
  <2>2. PICK i \in Nat : i = q * n + k
    <3>1. q * n \in Nat
      BY Z3
    <3> QED BY <3>1
  <2>3. At(i, n, q, k) /\ i \in Nat \ {0}
    BY <2>2, Place
  <2>4. i \in 1 .. len
    BY <2>1, <2>2, RowIn
  <2>5. a[i] = <<p, k>>
    <3>1. PICK y \in 0 .. size - 1, t \in 1 .. n : At(i, n, y, t) /\ a[i] = <<y + 1, t>>
      BY <2>4 DEF Prompted
    <3>2. y = q /\ t = k
      BY <2>3, <3>1, OnePlace
    <3> QED BY <2>1, <3>1, <3>2
  <2>6. ASSUME NEW j \in 1 .. len, a[j] = <<p, k>> PROVE j = i
    <3>1. PICK y \in 0 .. size - 1, t \in 1 .. n : At(j, n, y, t) /\ a[j] = <<y + 1, t>>
      BY DEF Prompted
    <3>2. y = q /\ t = k
      BY <2>1, <2>6, <3>1
    <3> QED BY <2>2, <3>1, <3>2 DEF At
  <2> QED BY <2>4, <2>5, <2>6
<1>4. Own(b, a)
  BY <1>2 DEF Own
<1>5. Once(a, size, n)
  <2> SUFFICES ASSUME NEW p \in 1 .. size, NEW k \in 1 .. n
               PROVE  \E i \in DOMAIN a : /\ a[i] = <<p, k>>
                                           /\ \A j \in DOMAIN a : a[j] = <<p, k>> => j = i
    BY DEF Once
  <2>1. \E i \in 1 .. len : a[i] = <<p, k>> /\ \A j \in 1 .. len : a[j] = <<p, k>> => j = i
    BY <1>3
  <2> QED BY <2>1, Zenon
<1> QED BY <1>4, <1>5

------------------------------------------------------------------------------

LEMMA InitRows == Init => Batches
<1> SUFFICES ASSUME Init PROVE Batches
  OBVIOUS
<1>1. driver = "load" /\ pad = 0 /\ asked = <<>> /\ rows = <<>> /\ answers = <<>> /\ scored = <<>>
  BY DEF Init
<1>2. RowsTypeOK
  BY <1>1, MeshFacts DEF RowsTypeOK
<1> QED BY <1>1, <1>2 DEF Batches, Asked, Carried, Collected, AnswersFitPrompts

(* A step that keeps the batch, and after which nothing is known of it.      *)
LEMMA FrameRows ==
    ASSUME Batches, UNCHANGED <<job, batchVars>>, driver' \in {"next", "done", "failed"},
           driver' = "failed" => ~EvenJob
    PROVE  Batches'
<1>1. RowsTypeOK'
  BY DEF batchVars, Batches, RowsTypeOK
<1>2. (~EvenJob)' = ~EvenJob
  BY DEF EvenJob
<1>3. AnswersFitPrompts'
  BY <1>2 DEF AnswersFitPrompts
<1> QED BY <1>1, <1>3 DEF Batches, Asked, Carried, Collected

(* An even job's batch needs no padding.                                     *)
LEMMA EvenPad ==
    ASSUME job \in Jobs, EvenJob, ~job.async
    PROVE  PadSize(job.size, WorldSize) = 0 /\ Splits(Prompts(job.size), WorldSize)
<1>1. PICK l \in Nat, k \in Nat \ {0} : l = job.size /\ k = WorldSize
  BY JobFacts, MeshFacts
<1>2. (l % k) = 0
  BY <1>1 DEF EvenJob
<1>3. PadSize(l, k) = 0
  BY <1>2, PadSizeFits
<1>4. Len(Prompts(l)) = l
  BY DEF Prompts
<1>5. Splits(Prompts(l), k)
  BY <1>2, <1>4 DEF Splits
<1> QED BY <1>1, <1>3, <1>5

LEMMA PaddedPrompts ==
    ASSUME NEW size \in Nat \ {0}
    PROVE  /\ Prompts(size) \in Seq(Nat) /\ Len(Prompts(size)) = size
           /\ PadWithFirst(Prompts(size), WorldSize) \in Seq(Nat)
           /\ Longer(PadWithFirst(Prompts(size), WorldSize), Prompts(size), PadSize(size, WorldSize))
           /\ PadWithLast(Prompts(size), WorldSize) \in Seq(Nat)
           /\ Longer(PadWithLast(Prompts(size), WorldSize), Prompts(size), PadSize(size, WorldSize))
           /\ PadSize(size, WorldSize) \in 0 .. WorldSize - 1
           /\ Splits(PadWithFirst(Prompts(size), WorldSize), WorldSize)
           /\ Splits(PadWithLast(Prompts(size), WorldSize), WorldSize)
<1>1. PICK s \in Seq(Nat) : s = Prompts(size) /\ Len(s) = size
  <2>1. Prompts(size) \in Seq(Nat)
    BY DEF Prompts
  <2>2. Len(Prompts(size)) = size
    BY DEF Prompts
  <2> QED BY <2>1, <2>2
<1>2. PICK k \in Nat \ {0} : k = WorldSize
  BY MeshFacts
<1>3. /\ PadWithFirst(s, k) \in Seq(Nat) /\ Longer(PadWithFirst(s, k), s, PadSize(Len(s), k))
      /\ PadWithLast(s, k) \in Seq(Nat) /\ Longer(PadWithLast(s, k), s, PadSize(Len(s), k))
      /\ PadSize(Len(s), k) \in 0 .. k - 1
      /\ Splits(PadWithFirst(s, k), k) /\ Splits(PadWithLast(s, k), k)
  BY <1>1, PaddedRows
<1> QED BY <1>1, <1>2, <1>3

LEMMA RefuseRows == Control /\ Batches /\ RefuseTrain => Batches'
<1> SUFFICES ASSUME Control, Batches, RefuseTrain PROVE Batches'
  OBVIOUS
<1>1. job \in Jobs /\ ~job.async /\ ~Splits(Padded(Prompts(job.size)), WorldSize)
      /\ driver' = "failed" /\ UNCHANGED <<job, batchVars>>
  BY DEF Control, ControlTypeOK, RefuseTrain
<1>2. ~EvenJob
  <2> SUFFICES ASSUME EvenJob PROVE FALSE
    OBVIOUS
  <2>1. Splits(Prompts(job.size), WorldSize)
    BY <1>1, EvenPad
  <2>2. Splits(PadWithLast(Prompts(job.size), WorldSize), WorldSize)
    BY <1>1, JobFacts, PaddedPrompts
  <2> QED BY <1>1, <2>1, <2>2 DEF Padded
<1> QED BY <1>1, <1>2, FrameRows

(* A rollout of a batch of l prompts that begins.                            *)
LEMMA StartRows ==
    ASSUME Control, Batches, NEW batch \in Seq(Nat), NEW l \in Nat, StartRollout(batch),
           job' = job, rows' = Prompts(l), Size' = l, rows' \in Seq(Nat),
           pad' \in 0 .. WorldSize - 1, Longer(batch, rows', pad'),
           job.async \/ Splits(batch, WorldSize), pad' = 0 \/ testing' \/ ~EvenJob
    PROVE  Batches'
<1>1. /\ driver' = "rollout" /\ asked' = batch /\ answers' = <<>> /\ scored' = <<>>
      /\ stage' = [w \in Workers |-> "entering"]
      /\ held' = IF job.async THEN [w \in Workers |-> <<>>] ELSE Parts(batch)
  BY DEF StartRollout, Begin
<1>2. RowsTypeOK'
  BY <1>1 DEF RowsTypeOK
<1>3. Asked'
  BY <1>1 DEF Asked, EvenJob
<1>4. Carried'
  BY <1>1 DEF Carried, Carries, Parts
<1> QED BY <1>1, <1>2, <1>3, <1>4 DEF Batches, Collected, AnswersFitPrompts

LEMMA StartTestRows == Control /\ Batches /\ StartTest => Batches'
<1> SUFFICES ASSUME Control, Batches, StartTest PROVE Batches'
  OBVIOUS
<1>1. PICK l \in Nat \ {0} : l = job.testsize
  BY JobFacts DEF Control, ControlTypeOK
<1>2. PICK batch \in Seq(Nat) :
          /\ batch = PadWithFirst(Prompts(l), WorldSize)
          /\ Longer(batch, Prompts(l), PadSize(l, WorldSize))
          /\ Splits(batch, WorldSize)
          /\ PadSize(l, WorldSize) \in 0 .. WorldSize - 1
          /\ Prompts(l) \in Seq(Nat) /\ Len(Prompts(l)) = l
  BY PaddedPrompts
<1>3. /\ StartRollout(batch) /\ rows' = Prompts(l) /\ pad' = PadSize(l, WorldSize)
      /\ testing' = TRUE /\ job' = job
  BY <1>1, <1>2 DEF StartTest
<1>4. Size' = l
  BY <1>1, <1>3 DEF Size
<1> QED BY <1>1, <1>2, <1>3, <1>4, StartRows

LEMMA StartTrainRows == Control /\ Batches /\ StartTrain => Batches'
<1> SUFFICES ASSUME Control, Batches, StartTrain PROVE Batches'
  OBVIOUS
<1>0. job \in Jobs
  BY DEF Control, ControlTypeOK
<1>1. PICK l \in Nat \ {0} : l = job.size
  BY <1>0, JobFacts
<1>2. PICK batch : batch = IF job.async THEN Prompts(l) ELSE Padded(Prompts(l))
  OBVIOUS
<1>3. /\ StartRollout(batch) /\ rows' = Prompts(l) /\ pad' = Len(batch) - Len(Prompts(l))
      /\ ~testing' /\ job' = job
      /\ job.async \/ Splits(batch, WorldSize)
  BY <1>1, <1>2 DEF StartTrain
<1>4. Size' = l
  BY <1>1, <1>3 DEF Size
<1>5. Prompts(l) \in Seq(Nat) /\ Len(Prompts(l)) = l
  BY PaddedPrompts
<1>6. CASE batch = Prompts(l)
  <2>1. pad' = 0
    BY <1>3, <1>5, <1>6
  <2>2. Longer(batch, rows', pad') /\ pad' \in 0 .. WorldSize - 1
    BY <1>3, <1>5, <1>6, <2>1, MeshFacts DEF Longer
  <2>3. batch \in Seq(Nat) /\ rows' \in Seq(Nat)
    BY <1>3, <1>5, <1>6
  <2>4. rows' = Prompts(l) /\ job' = job /\ StartRollout(batch)
        /\ (job.async \/ Splits(batch, WorldSize)) /\ (pad' = 0 \/ testing' \/ ~EvenJob)
    BY <1>3, <2>1
  <2> QED BY <1>4, <2>2, <2>3, <2>4, StartRows
<1>7. CASE ~job.async /\ job.autopad
  <2>1. /\ batch \in Seq(Nat) /\ Longer(batch, Prompts(l), PadSize(l, WorldSize))
        /\ PadSize(l, WorldSize) \in 0 .. WorldSize - 1
    BY <1>2, <1>7, PaddedPrompts DEF Padded
  <2>2. PICK p \in 0 .. WorldSize - 1 : p = PadSize(l, WorldSize)
    BY <2>1
  <2>3. Len(batch) = l + p
    BY <1>5, <2>1, <2>2 DEF Longer
  <2>4. pad' = p
    BY <1>3, <1>5, <2>2, <2>3, MeshFacts
  <2>5. p = 0 \/ ~EvenJob
    BY <1>0, <1>1, <1>7, <2>2, EvenPad
  <2>6. Longer(batch, rows', pad') /\ pad' \in 0 .. WorldSize - 1 /\ rows' \in Seq(Nat)
    BY <1>3, <1>5, <2>1, <2>2, <2>4
  <2>7. rows' = Prompts(l) /\ job' = job /\ StartRollout(batch)
        /\ (job.async \/ Splits(batch, WorldSize)) /\ (pad' = 0 \/ testing' \/ ~EvenJob)
    BY <1>3, <2>4, <2>5
  <2>8. batch \in Seq(Nat)
    BY <2>1
  <2> QED BY <1>4, <2>6, <2>7, <2>8, StartRows
<1> QED BY <1>2, <1>6, <1>7 DEF Padded

LEMMA SplitAnswers ==
    ASSUME NEW l \in Nat, NEW k \in Nat \ {0}, (l % k) = 0, NEW n \in Nat \ {0},
           NEW len, Parted(len, l, n)
    PROVE  (len % k) = 0 /\ len \in Nat /\ l <= len
<1>1. PICK m \in Nat : Parted(l, k, m)
  BY SplitLength
<1>2. l = k * m /\ len = l * n
  BY <1>1 DEF Parted
<1>3. m * n \in Nat /\ (k * m) * n = k * (m * n) /\ l * n \in Nat /\ l <= l * n
  BY Z3
<1>4. ((k * (m * n)) % k) = 0
  BY <1>3, Quotient
<1> QED BY <1>2, <1>3, <1>4

LEMMA MoreAnswers ==
    ASSUME NEW l \in Nat, NEW n \in Nat \ {0}, NEW len, Parted(len, l, n)
    PROVE  len \in Nat /\ l <= len
<1>1. l * n \in Nat /\ l <= l * n
  BY Z3
<1> QED BY <1>1 DEF Parted

LEMMA CollectRows == Control /\ Batches /\ Collect => Batches'
<1> SUFFICES ASSUME Control, Batches, Collect PROVE Batches'
  OBVIOUS
<1>0. /\ job \in Jobs /\ driver = "rollout" /\ driver' = "join"
      /\ \A w \in Workers : stage[w] = "done"
      /\ UNCHANGED <<job, testing, asked, pad, rows, scored>>
      /\ answers' = Unpad(IF job.async THEN Answers(asked, Samples)
                                       ELSE Concat(held, WorldSize), pad)
  BY DEF Collect, Control, ControlTypeOK, All
<1>1. PICK n \in Nat \ {0} : n = Samples
  BY <1>0, SamplesFacts
<1>2. PICK s \in Seq(Nat) : s = asked /\ Longer(s, rows, pad) /\ (job.async \/ Splits(s, WorldSize))
  BY <1>0 DEF Batches, RowsTypeOK, Asked
<1>3. PICK l \in Nat : l = Len(s)
  OBVIOUS
<1>4. PICK len \in Nat : Parted(len, l, n) /\ l <= len
  <2>1. l * n \in Nat
    BY Z3
  <2> QED BY <2>1, MoreAnswers DEF Parted
<1>5. PICK a \in Seq(Nat \X Nat) : a = Answers(s, n) /\ Len(a) = len
  BY <1>3, <1>4, AnswersIs
<1>6. pad \in 0 .. Len(a)
  <2>1. pad \in Nat /\ Len(s) = Len(rows) + pad /\ Len(rows) \in Nat
    BY <1>2, MeshFacts DEF Batches, RowsTypeOK, Longer
  <2> QED BY <1>3, <1>4, <1>5, <2>1
<1>7. ASSUME ~job.async PROVE Concat(held, WorldSize) = a
  <2>1. PICK k \in Nat \ {0} : k = WorldSize
    BY MeshFacts
  <2>2. Splits(a, k)
    <3>1. (l % k) = 0
      BY <1>2, <1>3, <1>7, <2>1 DEF Splits
    <3>2. (len % k) = 0
      BY <1>4, <3>1, SplitAnswers
    <3> QED BY <1>5, <3>2 DEF Splits
  <2>3. ASSUME NEW i \in 0 .. k - 1 PROVE held[i] = Chunk(a, k, i)
    <3>1. i \in Workers
      BY <2>1 DEF Workers
    <3>2. Carries(i)
      BY <1>0, <1>7, <3>1 DEF Batches, Carried
    <3> QED BY <1>0, <1>1, <1>2, <1>5, <2>1, <3>1, <3>2 DEF Carries
  <2>4. Concat(held, k) = a
    BY <2>2, <2>3, ConcatChunks
  <2> QED BY <2>1, <2>4
<1>8. answers' = Unpad(a, pad)
  BY <1>0, <1>1, <1>2, <1>5, <1>7
<1>9. Unpad(a, pad) \in Seq(Nat \X Nat)
  BY <1>6, UnpaddedRows
<1>10. RowsTypeOK'
  BY <1>0, <1>8, <1>9 DEF Batches, RowsTypeOK
<1>11. Samples' = Samples /\ Size' = Size
  BY <1>0 DEF Samples, Size
<1>12. Asked'
  BY <1>0, <1>11 DEF Batches, Asked, EvenJob
<1>13. Collected'
  BY <1>0, <1>1, <1>2, <1>5, <1>8, <1>11 DEF Collected
<1> QED BY <1>0, <1>10, <1>12, <1>13 DEF Batches, Carried, AnswersFitPrompts

(* With nothing padded, or one answer for each prompt, the sizes agree.      *)
LEMMA JoinSizes ==
    ASSUME NEW size \in Nat, NEW n \in Nat \ {0}, NEW p \in Nat,
           NEW len, Parted(len, size, n), NEW total, Parted(total, size + p, n),
           p = 0 \/ n = 1
    PROVE  total - p = len
<1>1. len = size * n /\ total = (size + p) * n
  BY DEF Parted
<1>2. (size + p) * n = size * n + p * n /\ size * n \in Nat /\ p * n \in Nat
      /\ (p = 0 => p * n = 0) /\ (n = 1 => p * n = p)
  BY Z3
<1> QED BY <1>1, <1>2

LEMMA FitsFold ==
    /\ OwnAnswers <=> Own(rows, answers)
    /\ EachOnce <=> Once(answers, Size, Samples)
BY DEF OwnAnswers, EachOnce, Own, Once

LEMMA JoinRows == Control /\ Batches /\ Join => Batches'
<1> SUFFICES ASSUME Control, Batches, Join PROVE Batches'
  OBVIOUS
<1>0. /\ job \in Jobs /\ driver = "join"
      /\ UNCHANGED <<job, testing, asked, pad, answers, scored>>
      /\ IF Len(Repeat(rows, Samples)) = Len(answers)
         THEN rows' = Repeat(rows, Samples) /\ driver' = "joined"
         ELSE rows' = rows /\ driver' = "failed"
  BY DEF Join, Control, ControlTypeOK
<1>1. PICK n \in Nat \ {0}, size \in Nat \ {0} :
          /\ n = Samples /\ size = Size
          /\ testing => n = 1
  BY <1>0, SamplesFacts
<1>2. PICK s \in Seq(Nat), p \in Nat :
          /\ s = asked /\ p = pad /\ Longer(s, Prompts(size), p)
          /\ p = 0 \/ testing \/ ~EvenJob
  BY <1>0, <1>1, MeshFacts DEF Batches, RowsTypeOK, Asked
<1>3. PICK b \in Seq(Nat) : b = rows /\ b = Prompts(size) /\ Len(b) = size
  <2>1. Prompts(size) \in Seq(Nat) /\ Len(Prompts(size)) = size
    BY PaddedPrompts
  <2> QED BY <1>0, <1>1, <2>1 DEF Batches, Asked
<1>4. PICK len \in Nat, total \in Nat : Parted(len, size, n) /\ Parted(total, size + p, n)
  <2>1. size * n \in Nat /\ (size + p) * n \in Nat
    BY Z3
  <2> QED BY <2>1 DEF Parted
<1>5. Len(s) = size + p
  BY <1>2, <1>3 DEF Longer
<1>6. PICK a \in Seq(Nat \X Nat) :
          /\ a = Answers(s, n) /\ Len(a) = total /\ Answered(a, s, n, total)
  <2>1. Parted(total, Len(s), n)
    BY <1>4, <1>5
  <2> QED BY <2>1, AnswersIs
<1>7. PICK c \in Seq(Nat) : /\ c = Repeat(b, n) /\ Len(c) = len
                            /\ Repeated(c, b, n, len)
  <2>1. Parted(len, Len(b), n)
    BY <1>3, <1>4
  <2> QED BY <2>1, RepeatIs
<1>8. p <= total
  <2>1. size + p \in Nat /\ size + p <= total
    BY <1>4, MoreAnswers
  <2> QED BY <2>1
<1>9. PICK u \in Seq(Nat \X Nat) :
          /\ u = answers /\ Len(u) = total - p
          /\ \A i \in 1 .. total - p : u[i] = a[i]
  <2>1. p \in 0 .. Len(a)
    BY <1>6, <1>8
  <2>2. Unpad(a, p) \in Seq(Nat \X Nat) /\ Len(Unpad(a, p)) = Len(a) - p
        /\ \A i \in 1 .. Len(a) - p : Unpad(a, p)[i] = a[i]
    BY <2>1, UnpaddedRows
  <2>3. answers = Unpad(a, p)
    BY <1>0, <1>1, <1>2, <1>6 DEF Batches, Collected
  <2> QED BY <1>6, <2>2, <2>3
<1>10. /\ (len = total - p) => rows' = c /\ driver' = "joined"
       /\ (len # total - p) => rows' = b /\ driver' = "failed"
  BY <1>0, <1>1, <1>3, <1>7, <1>9
<1>11. CASE len = total - p
  <2>1. /\ rows' = c /\ driver' = "joined" /\ answers' = u /\ Samples' = n /\ Size' = size
    BY <1>0, <1>1, <1>9, <1>10, <1>11 DEF Samples, Size
  <2>2. Own(c, u) /\ Once(u, size, n)
    <3>1. Prompted(a, size, n, len)
      <4>1. Parted(total, Len(s), n) /\ len <= total
        BY <1>4, <1>5, <1>11
      <4>2. Longer(s, Prompts(size), p) /\ Answered(a, s, n, total) /\ Parted(len, size, n)
        BY <1>2, <1>4, <1>6
      <4> QED BY <4>1, <4>2, SamePrompts
    <3>2. Prompted(u, size, n, len)
      BY <1>9, <1>11, <3>1 DEF Prompted
    <3>3. DOMAIN u = 1 .. len /\ DOMAIN c = 1 .. len
      BY <1>7, <1>9, <1>11
    <3>4. Repeated(c, Prompts(size), n, len)
      BY <1>3, <1>7
    <3> QED BY <1>4, <3>2, <3>3, <3>4, FittingRows
  <2>3. OwnAnswers' /\ EachOnce'
    <3>1. OwnAnswers' = Own(c, u)
      BY <2>1 DEF OwnAnswers, Own
    <3>2. EachOnce' = Once(u, size, n)
      BY <2>1 DEF EachOnce, Once
    <3> QED BY <2>2, <3>1, <3>2
  <2>4. Len(rows') = Size' * Samples' /\ Len(answers') = Len(rows')
    BY <1>4, <1>7, <1>9, <1>11, <2>1 DEF Parted
  <2>5. RowsTypeOK'
    BY <1>0, <2>1, <1>7 DEF Batches, RowsTypeOK
  <2>6. AnswersFitPrompts'
    BY <2>1, <2>3, <2>4 DEF AnswersFitPrompts
  <2> QED BY <2>1, <2>5, <2>6 DEF Batches, Asked, Carried, Collected
<1>12. CASE len # total - p
  <2>1. rows' = b /\ driver' = "failed"
    BY <1>10, <1>12
  <2>2. ~(p = 0 \/ n = 1)
    BY <1>4, <1>12, JoinSizes
  <2>3. ~EvenJob /\ EvenJob' = EvenJob
    BY <1>0, <1>1, <1>2, <2>2 DEF EvenJob
  <2>4. RowsTypeOK'
    BY <1>0, <2>1, <1>3 DEF Batches, RowsTypeOK
  <2>5. AnswersFitPrompts'
    BY <2>1, <2>3 DEF AnswersFitPrompts
  <2> QED BY <2>1, <2>4, <2>5 DEF Batches, Asked, Carried, Collected
<1> QED BY <1>11, <1>12

(* Reordered rows fit as before.                                             *)
LEMMA Reordered ==
    ASSUME NEW S, NEW T, NEW r \in Seq(S), NEW a \in Seq(T), Len(a) = Len(r),
           NEW size, NEW n, Own(r, a), Once(a, size, n),
           NEW o \in Orders, DOMAIN o = DOMAIN r
    PROVE  /\ Reorder(r, o) \in Seq(S) /\ Len(Reorder(r, o)) = Len(r)
           /\ Reorder(a, o) \in Seq(T) /\ Len(Reorder(a, o)) = Len(r)
           /\ Own(Reorder(r, o), Reorder(a, o)) /\ Once(Reorder(a, o), size, n)
<1>1. PICK len \in Nat : len = Len(r) /\ DOMAIN r = 1 .. len /\ DOMAIN a = 1 .. len
  OBVIOUS
<1>2. /\ o \in [1 .. len -> 1 .. len]
      /\ \A i \in 1 .. len : \E j \in 1 .. len :
            o[j] = i /\ \A k \in 1 .. len : o[k] = i => k = j
  <2>1. /\ o \in [DOMAIN o -> DOMAIN o]
        /\ \A i \in DOMAIN o : \E j \in DOMAIN o :
              o[j] = i /\ \A k \in DOMAIN o : o[k] = i => k = j
    BY OrdersAssumption, Zenon
  <2>2. DOMAIN o = 1 .. len
    BY <1>1
  <2>3. o \in [1 .. len -> 1 .. len]
    BY <2>1, <2>2
  <2>4. ASSUME NEW i \in 1 .. len
        PROVE  \E j \in 1 .. len : o[j] = i /\ \A k \in 1 .. len : o[k] = i => k = j
    BY <2>1, <2>2
  <2> QED BY <2>3, <2>4
<1> DEFINE c == [i \in 1 .. len |-> r[o[i]]]
           b == [i \in 1 .. len |-> a[o[i]]]
<1>3. Reorder(r, o) = c /\ Reorder(a, o) = b
  BY <1>1 DEF Reorder
<1>4. ASSUME NEW i \in 1 .. len PROVE r[o[i]] \in S /\ a[o[i]] \in T /\ o[i] \in 1 .. len
  <2>1. PICK j \in 1 .. len : j = o[i]
    BY <1>2
  <2>2. r[j] \in S /\ a[j] \in T
    BY <1>1
  <2> QED BY <2>1, <2>2
<1>5. c \in Seq(S) /\ Len(c) = len /\ b \in Seq(T) /\ Len(b) = len
  BY <1>4
<1>6. Own(c, b)
  <2>1. \A i \in 1 .. len : b[i][1] = c[i]
    BY <1>1, <1>4 DEF Own
  <2>2. DOMAIN c = 1 .. len
    OBVIOUS
  <2> HIDE DEF c, b
  <2> QED BY <2>1, <2>2 DEF Own
<1>7. Once(b, size, n)
  <2> SUFFICES ASSUME NEW p \in 1 .. size, NEW k \in 1 .. n
               PROVE  \E i \in 1 .. len : /\ b[i] = <<p, k>>
                                          /\ \A j \in 1 .. len : b[j] = <<p, k>> => j = i
    BY Zenon DEF Once
  <2>1. PICK i \in 1 .. len : a[i] = <<p, k>> /\ \A j \in 1 .. len : a[j] = <<p, k>> => j = i
    BY <1>1, Zenon DEF Once
  <2>2. PICK h \in 1 .. len : o[h] = i /\ \A j \in 1 .. len : o[j] = i => j = h
    BY <1>2
  <2>3. b[h] = <<p, k>>
    BY <2>1, <2>2
  <2>4. ASSUME NEW j \in 1 .. len, b[j] = <<p, k>> PROVE j = h
    BY <1>4, <2>1, <2>2, <2>4
  <2> QED BY <2>3, <2>4
<1> QED BY <1>1, <1>3, <1>5, <1>6, <1>7

LEMMA BalanceRows == Control /\ Batches /\ Balance => Batches'
<1> SUFFICES ASSUME Control, Batches, Balance PROVE Batches'
  OBVIOUS
<1>0. /\ driver = "joined" /\ driver' = "balanced"
      /\ UNCHANGED <<job, testing, asked, pad, scored>>
  BY DEF Balance
<1>1. PICK o \in Orders : /\ DOMAIN o = DOMAIN rows
                          /\ rows' = Reorder(rows, o) /\ answers' = Reorder(answers, o)
  BY DEF Balance
<1>2. PICK r \in Seq(Nat), a \in Seq(Nat \X Nat) : r = rows /\ a = answers
  BY DEF Batches, RowsTypeOK
<1>3. PICK size, n : size = Size /\ n = Samples /\ Size' = size /\ Samples' = n
  BY <1>0 DEF Size, Samples
<1>4. /\ Len(r) = size * n /\ Len(a) = Len(r)
      /\ Own(r, a) /\ Once(a, size, n)
  BY <1>0, <1>2, <1>3, FitsFold DEF Batches, AnswersFitPrompts
<1>5. PICK c \in Seq(Nat), b \in Seq(Nat \X Nat) :
          /\ c = rows' /\ b = answers' /\ Len(c) = Len(r) /\ Len(b) = Len(r)
          /\ Own(c, b) /\ Once(b, size, n)
  <2>1. /\ Reorder(r, o) \in Seq(Nat) /\ Len(Reorder(r, o)) = Len(r)
        /\ Reorder(a, o) \in Seq(Nat \X Nat) /\ Len(Reorder(a, o)) = Len(r)
        /\ Own(Reorder(r, o), Reorder(a, o)) /\ Once(Reorder(a, o), size, n)
    BY <1>1, <1>2, <1>4, Reordered
  <2> QED BY <1>1, <1>2, <2>1
<1>6. OwnAnswers' /\ EachOnce'
  <2>1. OwnAnswers' = Own(c, b)
    BY <1>5 DEF OwnAnswers, Own
  <2>2. EachOnce' = Once(b, size, n)
    BY <1>3, <1>5 DEF EachOnce, Once
  <2> QED BY <1>5, <2>1, <2>2
<1>7. RowsTypeOK'
  BY <1>0, <1>5 DEF Batches, RowsTypeOK
<1>8. AnswersFitPrompts'
  BY <1>0, <1>3, <1>4, <1>5, <1>6 DEF AnswersFitPrompts
<1> QED BY <1>0, <1>7, <1>8 DEF Batches, Asked, Carried, Collected

LEMMA KeepRows == Control /\ Batches /\ KeepOrder => Batches'
<1> SUFFICES ASSUME Control, Batches, KeepOrder PROVE Batches'
  OBVIOUS
<1>1. driver = "joined" /\ driver' = "balanced" /\ UNCHANGED <<job, batchVars>>
  BY DEF KeepOrder
<1>2. RowsTypeOK'
  BY <1>1 DEF Batches, RowsTypeOK, batchVars
<1>3. AnswersFitPrompts'
  BY <1>1 DEF Batches, AnswersFitPrompts, batchVars, Size, Samples, OwnAnswers, EachOnce
<1> QED BY <1>1, <1>2, <1>3 DEF Batches, Asked, Carried, Collected

(* The size of a batch that is trained with.                                 *)
LEMMA TrainSize ==
    ASSUME Control, Batches, driver \in {"joined", "balanced"}, ~testing
    PROVE  /\ job \in Jobs /\ Len(rows) = Len(answers) /\ Len(answers) \in Nat \ {0}
           /\ (Len(answers) % WorldSize) # 0 => ~EvenJob
<1>0. job \in Jobs /\ job.size \in Nat \ {0} /\ job.n \in Nat \ {0}
  BY JobFacts DEF Control, ControlTypeOK
<1>1. Len(rows) = Len(answers) /\ Len(answers) = job.size * job.n
  BY DEF Batches, AnswersFitPrompts, Size, Samples
<1>2. PICK s \in Nat \ {0}, n \in Nat \ {0} : s = job.size /\ n = job.n
  BY <1>0
<1>3. s * n \in Nat \ {0}
  BY Z3
<1> QED BY <1>0, <1>1, <1>2, <1>3 DEF EvenJob

LEMMA RefuseBalanceRows == Control /\ Batches /\ RefuseBalance => Batches'
<1> SUFFICES ASSUME Control, Batches, RefuseBalance PROVE Batches'
  OBVIOUS
<1>1. /\ driver = "joined" /\ ~testing /\ ~Splits(rows, WorldSize) /\ driver' = "failed"
      /\ UNCHANGED <<job, batchVars>>
  BY DEF RefuseBalance
<1>2. ~EvenJob
  BY <1>1, TrainSize DEF Splits
<1> QED BY <1>1, <1>2, FrameRows

LEMMA LogProbsRows == Control /\ Batches /\ LogProbs => Batches'
<1> SUFFICES ASSUME Control, Batches, LogProbs PROVE Batches'
  OBVIOUS
<1>1. PICK a \in Seq(Nat \X Nat), k \in Nat \ {0} : a = answers /\ k = WorldSize
  BY MeshFacts DEF Batches, RowsTypeOK
<1>2. PICK sent : sent = Padded(answers)
  OBVIOUS
<1>3. PICK output : output = Unpad(Concat(Parts(sent), WorldSize), Len(sent) - Len(a))
  OBVIOUS
<1>4. /\ driver = "balanced" /\ UNCHANGED <<job, testing, asked, pad, rows, answers>>
      /\ IF Splits(sent, WorldSize) /\ Len(output) = Len(sent)
         THEN scored' = output /\ driver' = "scored"
         ELSE scored' = scored /\ driver' = "failed"
  BY <1>1, <1>2, <1>3 DEF LogProbs
<1>5. /\ ~testing /\ job \in Jobs /\ Len(a) \in Nat \ {0}
      /\ (Len(a) % k) # 0 => ~EvenJob
  BY <1>1, <1>4, TrainSize DEF Control, Life
<1>6. ASSUME NEW s \in Seq(Nat \X Nat), Splits(s, k) PROVE Concat(Parts(s), k) = s
  <2>1. PICK parts : parts = Parts(s) /\ \A i \in 0 .. k - 1 : parts[i] = Chunk(s, k, i)
    <3>1. \A i \in 0 .. k - 1 : Parts(s)[i] = Chunk(s, k, i)
      BY <1>1 DEF Parts, Workers
    <3> QED BY <3>1, Zenon
  <2>2. Concat(parts, k) = s
    BY <1>6, <2>1, ConcatChunks
  <2> QED BY <2>1, <2>2
<1>7. PICK l \in Nat \ {0} : l = Len(a)
  BY <1>5
<1>8. CASE (l % k) = 0
  <2>1. sent = a
    <3>1. PadSize(l, k) = 0
      BY <1>8, PadSizeFits
    <3>2. PadWithLast(a, k) \in Seq(Nat \X Nat) /\ Longer(PadWithLast(a, k), a, PadSize(Len(a), k))
      BY <1>5, PaddedRows
    <3>3. Len(PadWithLast(a, k)) = Len(a) /\ \A i \in 1 .. Len(a) : PadWithLast(a, k)[i] = a[i]
      BY <1>7, <3>1, <3>2 DEF Longer
    <3>4. PadWithLast(a, k) = a
      BY <3>2, <3>3, SameRows
    <3> QED BY <1>1, <1>2, <3>4 DEF Padded
  <2>2. Splits(a, k) /\ Len(sent) - Len(a) = 0
    BY <1>7, <1>8, <2>1 DEF Splits
  <2>3. output = a
    <3>1. Concat(Parts(a), k) = a
      BY <1>6, <2>2
    <3>2. Unpad(a, 0) = a
      BY UnpadNothing
    <3> QED BY <1>1, <1>3, <2>1, <2>2, <3>1, <3>2
  <2>4. scored' = answers /\ driver' = "scored"
    BY <1>1, <1>4, <2>1, <2>2, <2>3
  <2>5. RowsTypeOK'
    BY <1>4, <2>4 DEF Batches, RowsTypeOK
  <2>6. AnswersFitPrompts'
    BY <1>4, <2>4 DEF Batches, AnswersFitPrompts, Size, Samples, OwnAnswers, EachOnce
  <2> QED BY <2>4, <2>5, <2>6 DEF Batches, Asked, Carried, Collected
<1>9. CASE (l % k) # 0
  <2>1. ASSUME Splits(sent, k), Len(output) = Len(sent) PROVE FALSE
    <3>1. job.autopad
      BY <1>1, <1>2, <1>7, <1>9, <2>1 DEF Padded, Splits
    <3>2. PICK p \in Nat \ {0} : p = PadSize(l, k)
      <4>1. PadSize(l, k) \in Nat \ {0}
        <5>1. PadSize(l, k) \in 0 .. k - 1 /\ (PadSize(l, k) = 0 <=> (l % k) = 0)
          BY PadSizeFits
        <5> QED BY <1>9, <5>1
      <4> QED BY <4>1
    <3>3. PICK s \in Seq(Nat \X Nat) : s = sent /\ Longer(s, a, p)
      <4>1. PadWithLast(a, k) \in Seq(Nat \X Nat) /\ Longer(PadWithLast(a, k), a, PadSize(Len(a), k))
        BY <1>5, PaddedRows
      <4> QED BY <1>1, <1>2, <1>7, <3>1, <3>2, <4>1 DEF Padded
    <3>4. Len(s) = l + p /\ p \in 0 .. Len(s)
      BY <1>7, <3>3 DEF Longer
    <3>5. output = Unpad(s, p)
      <4>1. Concat(Parts(s), k) = s
        BY <1>6, <2>1, <3>3
      <4>2. Len(s) - Len(a) = p
        BY <1>7, <3>4
      <4> QED BY <1>1, <1>3, <3>3, <4>1, <4>2
    <3>6. Len(Unpad(s, p)) = Len(s) - p
      BY <3>4, UnpaddedRows
    <3> QED BY <2>1, <3>3, <3>4, <3>5, <3>6
  <2>2. scored' = scored /\ driver' = "failed"
    BY <1>1, <1>4, <2>1
  <2>3. ~EvenJob /\ EvenJob' = EvenJob
    BY <1>4, <1>5, <1>7, <1>9 DEF EvenJob
  <2>4. RowsTypeOK'
    BY <1>4, <2>2 DEF Batches, RowsTypeOK
  <2>5. AnswersFitPrompts'
    BY <2>2, <2>3 DEF AnswersFitPrompts
  <2> QED BY <2>2, <2>4, <2>5 DEF Batches, Asked, Carried, Collected
<1> QED BY <1>8, <1>9

LEMMA NextRows == Control /\ Batches /\ [Next]_vars => Batches'
<1> SUFFICES ASSUME Control, Batches, [Next]_vars PROVE Batches'
  OBVIOUS
<1>1. CASE LoadCheckpoint \/ FinishTest \/ Finish
  BY <1>1, FrameRows DEF LoadCheckpoint, FinishTest, Finish
<1>2. CASE UpdateActor
  BY <1>2, FrameRows DEF UpdateActor
<1>3. CASE Stopped \/ UNCHANGED vars
  <2>1. UNCHANGED <<job, driver, testing, asked, pad, rows, answers, scored, stage, held>>
    BY <1>3 DEF Stopped, vars, batchVars, hybridVars
  <2>2. RowsTypeOK' /\ Asked' /\ Collected'
    BY <2>1 DEF Batches, RowsTypeOK, Asked, Collected, Size, Samples, EvenJob
  <2>3. Carried'
    BY <2>1 DEF Batches, Carried, Carries, Samples
  <2>4. AnswersFitPrompts'
    BY <2>1 DEF Batches, AnswersFitPrompts, Size, Samples, OwnAnswers, EachOnce, EvenJob
  <2> QED BY <2>2, <2>3, <2>4 DEF Batches
<1> QED BY <1>1, <1>2, <1>3, StartTestRows, StartTrainRows, RefuseRows, WorkersCarry, CollectRows,
           JoinRows, BalanceRows, RefuseBalanceRows, KeepRows, LogProbsRows DEF Next

LEMMA RowsHold == Spec => [](Control /\ Batches)
<1>1. Init => Control /\ Batches
  BY InitControl, InitRows
<1>2. Control /\ Batches /\ [Next]_vars => (Control /\ Batches)'
  BY NextControl, NextRows
<1> QED BY <1>1, <1>2, PTL DEF Spec

(* For batches, engines and workers of any number, and any permutation in    *)
(* balancing: united rows have their own answers, each of them once, and a   *)
(* job fails only when its batch does not split.                             *)
THEOREM AnswersFit == Spec => []AnswersFitPrompts
<1>1. Control /\ Batches => AnswersFitPrompts
  BY DEF Batches
<1> QED BY <1>1, RowsHold, PTL

(* Every variable of the training step keeps its type.                       *)
THEOREM TypeCorrect == Spec => []TypeOK
<1>1. Control /\ Batches => TypeOK
  BY DEF Control, ControlTypeOK, Batches, RowsTypeOK, TypeOK
<1> QED BY <1>1, RowsHold, PTL
=============================================================================
