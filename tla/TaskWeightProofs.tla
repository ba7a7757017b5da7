-------------------------- MODULE TaskWeightProofs --------------------------
(***************************************************************************)
(* Proofs about TaskWeight, for any range of weights around one, any beta  *)
(* below one and any sizes: every weight is on its side of one, a batch is *)
(* only scaled when both tasks were measured, an average stays between     *)
(* what was averaged, and of two tasks that were measured equally often    *)
(* the larger is not taken for the smaller.                                *)
(*                                                                         *)
(* A weight is a fraction that is clipped, so most of the argument is that *)
(* no denominator becomes zero (the correction 1 - beta ** seen is above   *)
(* zero once there is a measurement) and that clipping respects the order  *)
(* of fractions.                                                           *)
(***************************************************************************)
EXTENDS TaskWeight, TLAPS

Fractions == Nat \X (Nat \ {0})

(* On its side of one, and in the range.                                   *)
Directed(w) ==
  /\ Leq(WMin, w["numerical"]) /\ Leq(w["numerical"], One)
  /\ Leq(One, w["categorical"]) /\ Leq(w["categorical"], WMax)

(* Once measured, what is left of the weight of the start is below one.    *)
Correctable(a) == a.seen > 0 => a.rest < a.den * BetaDen

Types ==
  /\ TypeOK
  /\ stage = "actor" => step <= MaxSteps
  /\ \A t \in Tasks : Correctable(average[t])

WeightsFollow ==
  /\ Directed(weights) /\ Directed(applied)
  /\ (weights # Neutral \/ applied # Neutral) => \A t \in Tasks : average[t].seen > 0

Inv == Types /\ WeightsFollow /\ AverageWithin

-----------------------------------------------------------------------------
(* The order of products of naturals.                                      *)
LEMMA TimesMonotone ==
  ASSUME NEW i \in Nat, NEW j \in Nat, NEW k \in Nat, i <= j
  PROVE  i * k <= j * k /\ k * i <= k * j
BY Z3

LEMMA TimesStrict ==
  ASSUME NEW i \in Nat, NEW j \in Nat, NEW k \in Nat \ {0}, i < j
  PROVE  i * k < j * k
BY Z3

LEMMA TimesPositive ==
  ASSUME NEW i \in Nat \ {0}, NEW j \in Nat \ {0}
  PROVE  i * j \in Nat \ {0}
BY Z3

LEMMA TimesNatural ==
  ASSUME NEW i \in Nat, NEW j \in Nat
  PROVE  i * j \in Nat
BY Z3

(* Fractions are totally ordered.                                          *)
LEMMA LeqTotal ==
  ASSUME NEW a \in Fractions, NEW b \in Fractions
  PROVE  Leq(a, a) /\ (Leq(a, b) \/ Leq(b, a))
<1>1. /\ a[1] * a[2] \in Nat /\ a[1] * b[2] \in Nat /\ b[1] * a[2] \in Nat
  BY TimesNatural DEF Fractions
<1> QED  BY <1>1 DEF Leq

LEMMA LeqTransitive ==
  ASSUME NEW a \in Fractions, NEW b \in Fractions, NEW c \in Fractions,
         Leq(a, b), Leq(b, c)
  PROVE  Leq(a, c)
<1>0. /\ a[1] \in Nat /\ b[1] \in Nat /\ c[1] \in Nat
      /\ a[2] \in Nat \ {0} /\ b[2] \in Nat \ {0} /\ c[2] \in Nat \ {0}
  BY DEF Fractions
<1>1. /\ a[1] * b[2] \in Nat /\ b[1] * a[2] \in Nat /\ b[1] * c[2] \in Nat
      /\ c[1] * b[2] \in Nat /\ a[1] * c[2] \in Nat /\ c[1] * a[2] \in Nat
  BY <1>0, TimesNatural
<1>2. (a[1] * b[2]) * c[2] <= (b[1] * a[2]) * c[2]
  BY <1>0, <1>1, TimesMonotone DEF Leq
<1>3. (b[1] * c[2]) * a[2] <= (c[1] * b[2]) * a[2]
  BY <1>0, <1>1, TimesMonotone DEF Leq
<1>4. /\ (b[1] * a[2]) * c[2] = (b[1] * c[2]) * a[2]
      /\ (a[1] * b[2]) * c[2] = (a[1] * c[2]) * b[2]
      /\ (c[1] * b[2]) * a[2] = (c[1] * a[2]) * b[2]
  BY <1>0, Z3
<1>5. (a[1] * c[2]) * b[2] <= (c[1] * a[2]) * b[2]
  <2>1. /\ (a[1] * c[2]) * b[2] \in Nat /\ (c[1] * a[2]) * b[2] \in Nat
        /\ (b[1] * c[2]) * a[2] \in Nat
    BY <1>0, <1>1, TimesNatural
  <2> QED  BY <2>1, <1>2, <1>3, <1>4
<1>6. CASE c[1] * a[2] < a[1] * c[2]
  <2>1. (c[1] * a[2]) * b[2] < (a[1] * c[2]) * b[2]
    BY <1>0, <1>1, <1>6, TimesStrict
  <2>2. (a[1] * c[2]) * b[2] \in Nat /\ (c[1] * a[2]) * b[2] \in Nat
    BY <1>0, <1>1, TimesNatural
  <2> QED  BY <2>1, <2>2, <1>5
<1> QED  BY <1>1, <1>6 DEF Leq

(* What is at least a positive fraction is positive.                       *)
LEMMA AbovePositive ==
  ASSUME NEW a \in Positive, NEW b \in Fractions, Leq(a, b)
  PROVE  b \in Positive
<1>1. a[1] * b[2] \in Nat \ {0}
  BY TimesPositive DEF Positive, Fractions
<1>2. b[1] # 0
  <2> SUFFICES ASSUME b[1] = 0 PROVE FALSE  OBVIOUS
  <2>1. b[1] * a[2] = 0  BY DEF Positive
  <2> QED  BY <2>1, <1>1 DEF Leq
<1>3. b[1] \in Nat \ {0} /\ b[2] \in Nat \ {0} /\ b = <<b[1], b[2]>>
  BY <1>2 DEF Fractions
<1> QED  BY <1>3 DEF Positive

LEMMA PositiveIsFraction == Positive \subseteq Fractions
BY DEF Positive, Fractions

LEMMA OneIsPositive == One \in Positive /\ One \in Fractions
BY DEF One, Positive, Fractions

(* Clipping ends in the range, and on the side of u where x and the bound  *)
(* of that side are.                                                       *)
LEMMA ClipBetween ==
  ASSUME NEW x \in Fractions, NEW lo \in Positive, NEW hi \in Positive, Leq(lo, hi)
  PROVE  /\ Clip(x, lo, hi) \in Positive
         /\ Leq(lo, Clip(x, lo, hi)) /\ Leq(Clip(x, lo, hi), hi)
<1>0. lo \in Fractions /\ hi \in Fractions  BY PositiveIsFraction
<1> DEFINE y == Greatest(x, lo)
<1>1. y \in Positive /\ y \in Fractions /\ Leq(lo, y)
  <2>1. CASE Leq(x, lo)
    BY <2>1, <1>0, LeqTotal DEF Greatest
  <2>2. CASE ~ Leq(x, lo)
    <3>1. Leq(lo, x)  BY <2>2, <1>0, LeqTotal
    <3> QED  BY <2>2, <3>1, AbovePositive DEF Greatest
  <2> QED  BY <2>1, <2>2
<1>2. Clip(x, lo, hi) = Least(y, hi)  BY DEF Clip
<1> HIDE DEF y
<1>3. CASE Leq(y, hi)
  BY <1>1, <1>2, <1>3 DEF Least
<1>4. CASE ~ Leq(y, hi)
  BY <1>0, <1>2, <1>4, LeqTotal DEF Least
<1> QED  BY <1>3, <1>4

LEMMA ClipUnder ==
  ASSUME NEW x \in Fractions, NEW lo \in Fractions, NEW hi \in Fractions,
         NEW u \in Fractions, Leq(x, u), Leq(lo, u)
  PROVE  Leq(Clip(x, lo, hi), u)
<1> DEFINE y == Greatest(x, lo)
<1>1. y \in Fractions /\ Leq(y, u)  BY DEF Greatest
<1>2. Clip(x, lo, hi) = Least(y, hi)  BY DEF Clip
<1> HIDE DEF y
<1>3. CASE Leq(y, hi)
  BY <1>1, <1>2, <1>3 DEF Least
<1>4. CASE ~ Leq(y, hi)
  <2>1. Leq(hi, y)  BY <1>1, <1>4, LeqTotal
  <2>2. Leq(hi, u)  BY <2>1, <1>1, LeqTransitive
  <2> QED  BY <2>2, <1>2, <1>4 DEF Least
<1> QED  BY <1>3, <1>4

LEMMA ClipOver ==
  ASSUME NEW x \in Fractions, NEW lo \in Fractions, NEW hi \in Fractions,
         NEW u \in Fractions, Leq(u, x), Leq(u, hi)
  PROVE  Leq(u, Clip(x, lo, hi))
<1> DEFINE y == Greatest(x, lo)
<1>1. y \in Fractions /\ Leq(u, y)
  <2>1. CASE Leq(x, lo)
    <3>1. Leq(u, lo)  BY <2>1, LeqTransitive
    <3> QED  BY <2>1, <3>1 DEF Greatest
  <2>2. CASE ~ Leq(x, lo)
    BY <2>2 DEF Greatest
  <2> QED  BY <2>1, <2>2
<1>2. Clip(x, lo, hi) = Least(y, hi)  BY DEF Clip
<1> HIDE DEF y
<1> QED  BY <1>1, <1>2 DEF Least

-----------------------------------------------------------------------------
(* Both averages are there, and can be corrected.                          *)
Measured(avg) ==
  /\ avg \in [Tasks -> AverageType]
  /\ \A t \in Tasks : avg[t].seen > 0 /\ Correctable(avg[t])

LEMMA CorrectedIsFraction ==
  ASSUME NEW avg, Measured(avg), NEW t \in Tasks
  PROVE  Corrected(avg[t]) \in Fractions
<1>1. /\ avg[t].num \in Nat /\ avg[t].den \in Nat \ {0} /\ avg[t].rest \in Nat
      /\ avg[t].rest < avg[t].den * BetaDen
  BY DEF Measured, AverageType, Correctable
<1>2. BetaDen \in Nat  BY WeightAssumption
<1>3. avg[t].num * BetaDen \in Nat /\ avg[t].den * BetaDen \in Nat
  BY <1>1, <1>2, TimesNatural
<1>4. avg[t].den * BetaDen - avg[t].rest \in Nat \ {0}
  BY <1>1, <1>3
<1> QED  BY <1>3, <1>4 DEF Corrected, Fractions

LEMMA RatioIsFraction ==
  ASSUME NEW avg, Measured(avg), NEW t \in Tasks, NEW u \in Tasks
  PROVE  Ratio(avg, t, u) \in Fractions
<1> DEFINE c == Corrected(avg[t])  d == Corrected(avg[u])  e == Plus(d, Eps)
<1>1. c \in Fractions /\ d \in Fractions  BY CorrectedIsFraction
<1>2. Ratio(avg, t, u) = <<c[1] * e[2], c[2] * e[1]>>  BY DEF Ratio, Over
<1>e. e = <<d[1] * Eps[2] + Eps[1] * d[2], d[2] * Eps[2]>>  BY DEF Plus
<1> HIDE DEF c, d, e
<1>3. /\ d[1] * Eps[2] \in Nat /\ Eps[1] * d[2] \in Nat \ {0}
      /\ d[2] * Eps[2] \in Nat \ {0}
  BY <1>1, WeightAssumption, TimesPositive, TimesNatural DEF Fractions, Positive
<1>4. e[1] \in Nat \ {0} /\ e[2] \in Nat \ {0}
  BY <1>e, <1>3
<1>5. c[1] * e[2] \in Nat /\ c[2] * e[1] \in Nat \ {0}
  BY <1>1, <1>4, TimesPositive, TimesNatural DEF Fractions
<1> QED  BY <1>2, <1>5 DEF Fractions

LEMMA EtaIsPositive ==
  ASSUME NEW avg, Measured(avg)
  PROVE  Eta(avg) \in Positive /\ Over(One, Eta(avg)) \in Positive
<1> DEFINE q == Ratio(avg, "numerical", "categorical")  r == Greatest(q, Eps)
           h == <<r[1], 2 * r[2]>>
<1>0. Eps \in Positive /\ Eps \in Fractions  BY WeightAssumption, PositiveIsFraction
<1>1. q \in Fractions  BY RatioIsFraction DEF Tasks
<1>2. r \in Positive
  <2>1. CASE Leq(q, Eps)  BY <2>1, <1>0 DEF Greatest
  <2>2. CASE ~ Leq(q, Eps)
    <3> HIDE DEF q
    <3>1. Leq(Eps, q)  BY <2>2, <1>0, <1>1, LeqTotal
    <3> QED  BY <2>2, <3>1, <1>0, <1>1, AbovePositive DEF Greatest
  <2> QED  BY <2>1, <2>2
<1>3. h \in Positive
  <2> HIDE DEF r
  <2> QED  BY <1>2 DEF Positive
<1>4. Eta(avg) = Greatest(h, Eps)  BY DEF Eta
<1> HIDE DEF h
<1>5. Eta(avg) \in Positive
  BY <1>0, <1>3, <1>4 DEF Greatest
<1>6. Over(One, Eta(avg)) \in Positive
  <2> DEFINE g == Eta(avg)
  <2>1. g \in Positive  BY <1>5
  <2>2. Over(One, g) = <<1 * g[2], 1 * g[1]>>  BY DEF Over, One
  <2> HIDE DEF g
  <2>3. 1 * g[2] \in Nat \ {0} /\ 1 * g[1] \in Nat \ {0}
    BY <2>1 DEF Positive
  <2>4. Over(One, g) \in Positive  BY <2>2, <2>3 DEF Positive
  <2> QED  BY <2>4 DEF g
<1> QED  BY <1>5, <1>6

LEMMA Range ==
  /\ WMin \in Positive /\ WMax \in Positive /\ WMin \in Fractions /\ WMax \in Fractions
  /\ Leq(WMin, One) /\ Leq(One, WMax) /\ Leq(WMin, WMax) /\ Leq(One, One)
<1>1. WMin \in Positive /\ WMax \in Positive /\ Leq(WMin, One) /\ Leq(One, WMax)
  BY WeightAssumption
<1>2. WMin \in Fractions /\ WMax \in Fractions  BY <1>1, PositiveIsFraction
<1>3. Leq(WMin, WMax) /\ Leq(One, One)
  BY <1>1, <1>2, OneIsPositive, LeqTransitive, LeqTotal
<1> QED  BY <1>1, <1>2, <1>3

Good(w) == w \in [Tasks -> Positive] /\ Directed(w)

LEMMA WeighGood ==
  ASSUME NEW c \in Positive, NEW n \in Positive,
         Leq(One, c), Leq(c, WMax), Leq(WMin, n), Leq(n, One)
  PROVE  Good(Weigh(c, n))
<1>1. Weigh(c, n) \in [Tasks -> Positive]  BY DEF Weigh
<1>2. Weigh(c, n)["categorical"] = c /\ Weigh(c, n)["numerical"] = n
  BY DEF Weigh, Tasks
<1> QED  BY <1>1, <1>2 DEF Good, Directed

(* Whatever the mode, the weights that follow are on their sides of one.   *)
LEMMA SuppressGood == ASSUME NEW avg, Measured(avg) PROVE Good(Suppress(avg))
<1> DEFINE q == Ratio(avg, "categorical", "numerical")  x == Least(One, q)
           n == Clip(x, WMin, WMax)
<1>1. q \in Fractions  BY RatioIsFraction DEF Tasks
<1> HIDE DEF q
<1>2. x \in Fractions /\ Leq(x, One)
  BY <1>1, OneIsPositive, LeqTotal DEF Least
<1> HIDE DEF x
<1>3. n \in Positive /\ Leq(WMin, n)  BY <1>2, Range, ClipBetween
<1>4. Leq(n, One)  BY <1>2, Range, OneIsPositive, ClipUnder
<1>5. Suppress(avg) = Weigh(One, n)  BY DEF Suppress, q, x
<1> HIDE DEF n
<1> QED  BY <1>3, <1>4, <1>5, Range, OneIsPositive, WeighGood

LEMMA BoostGood == ASSUME NEW avg, Measured(avg) PROVE Good(Boost(avg))
<1> DEFINE q == Ratio(avg, "numerical", "categorical")  x == Greatest(One, q)
           c == Clip(x, WMin, WMax)
<1>1. q \in Fractions  BY RatioIsFraction DEF Tasks
<1> HIDE DEF q
<1>2. x \in Fractions /\ Leq(One, x)
  BY <1>1, OneIsPositive, LeqTotal DEF Greatest
<1> HIDE DEF x
<1>3. c \in Positive /\ Leq(c, WMax)  BY <1>2, Range, ClipBetween
<1>4. Leq(One, c)  BY <1>2, Range, OneIsPositive, ClipOver
<1>5. Boost(avg) = Weigh(c, One)  BY DEF Boost, q, x
<1> HIDE DEF c
<1> QED  BY <1>3, <1>4, <1>5, Range, OneIsPositive, WeighGood

LEMMA BothGood == ASSUME NEW avg, Measured(avg) PROVE Good(SuppressAndBoost(avg))
<1> DEFINE g == Eta(avg)  o == Over(One, g)
           c == Clip(g, One, Greatest(One, WMax))
           n == Clip(o, Least(WMin, One), One)
<1>1. g \in Fractions /\ o \in Fractions  BY EtaIsPositive, PositiveIsFraction
<1>2. Greatest(One, WMax) = WMax /\ Least(WMin, One) = WMin
  BY Range DEF Greatest, Least
<1> HIDE DEF g, o
<1>3. c \in Positive /\ Leq(One, c) /\ Leq(c, WMax)
  BY <1>1, <1>2, Range, OneIsPositive, ClipBetween
<1>4. n \in Positive /\ Leq(WMin, n) /\ Leq(n, One)
  BY <1>1, <1>2, Range, OneIsPositive, ClipBetween
<1>5. SuppressAndBoost(avg) = Weigh(c, n)  BY DEF SuppressAndBoost, g, o
<1> HIDE DEF c, n
<1> QED  BY <1>3, <1>4, <1>5, WeighGood

LEMMA NeutralGood == Good(Neutral)
<1>1. Neutral \in [Tasks -> Positive]  BY OneIsPositive DEF Neutral
<1>2. Neutral["categorical"] = One /\ Neutral["numerical"] = One
  BY DEF Neutral, Tasks
<1> QED  BY <1>1, <1>2, Range DEF Good, Directed

-----------------------------------------------------------------------------
(* An average lies between l and h.                                        *)
Between(a, l, h) == l * a.den <= a.num /\ a.num <= h * a.den

(* The next average is one that can be corrected, and lies between what    *)
(* was averaged before and the new measurement.                            *)
LEMMA AveragedType ==
  ASSUME NEW a \in AverageType, NEW m \in Nat, Correctable(a)
  PROVE  /\ Averaged(a, m) \in AverageType
         /\ Averaged(a, m).seen > 0 /\ Correctable(Averaged(a, m))
<1>0. /\ BetaNum \in Nat /\ BetaDen \in Nat \ {0} /\ BetaNum < BetaDen
      /\ BetaDen - BetaNum \in Nat
  BY WeightAssumption
<1>1. /\ a.seen \in Nat /\ a.num \in Nat /\ a.den \in Nat \ {0} /\ a.rest \in Nat
  BY DEF AverageType
<1>2. CASE a.seen = 0
  BY <1>0, <1>2 DEF Averaged, AverageType, Correctable
<1>3. CASE a.seen # 0
  <2>1. /\ BetaNum * a.num \in Nat /\ (BetaDen - BetaNum) * m * a.den \in Nat
        /\ a.den * BetaDen \in Nat \ {0} /\ a.rest * BetaNum \in Nat
        /\ a.rest * BetaDen \in Nat /\ a.den * BetaDen * BetaDen \in Nat
    BY <1>0, <1>1, TimesNatural, TimesPositive
  <2>2. a.rest < a.den * BetaDen  BY <1>1, <1>3 DEF Correctable
  <2>3. a.rest * BetaDen < (a.den * BetaDen) * BetaDen
    BY <2>1, <2>2, <1>0, <1>1, TimesStrict
  <2>4. a.rest * BetaNum <= a.rest * BetaDen
    BY <1>0, <1>1, TimesMonotone
  <2>5. a.rest * BetaNum < a.den * BetaDen * BetaDen
    BY <2>1, <2>3, <2>4
  <2> DEFINE b == Averaged(a, m)
  <2>6. /\ b = [seen |-> a.seen + 1,
                num |-> BetaNum * a.num + (BetaDen - BetaNum) * m * a.den,
                den |-> a.den * BetaDen,
                rest |-> a.rest * BetaNum]
    BY <1>3 DEF Averaged
  <2>7. BetaNum * a.num + (BetaDen - BetaNum) * m * a.den \in Nat
    BY <2>1
  <2> HIDE DEF b
  <2>8. b \in AverageType /\ b.seen > 0  BY <2>1, <2>6, <2>7, <1>1 DEF AverageType
  <2>9. Correctable(b)  BY <2>5, <2>6 DEF Correctable
  <2> QED  BY <2>8, <2>9 DEF b
<1> QED  BY <1>2, <1>3

LEMMA AveragedBetween ==
  ASSUME NEW a \in AverageType, NEW m \in Nat, NEW l \in Nat, NEW h \in Nat,
         a.seen # 0 => Between(a, l, h), l <= m, m <= h
  PROVE  Between(Averaged(a, m), l, h)
<1>0. BetaNum \in Nat /\ BetaDen \in Nat \ {0} /\ BetaDen - BetaNum \in Nat
  BY WeightAssumption
<1>1. a.num \in Nat /\ a.den \in Nat \ {0}
  BY DEF AverageType
<1>2. CASE a.seen = 0
  BY <1>2 DEF Averaged, Between
<1>3. CASE a.seen # 0
  <2> DEFINE k == BetaDen - BetaNum
  <2>1. k \in Nat /\ BetaDen = BetaNum + k  BY <1>0
  <2>2. l * a.den <= a.num /\ a.num <= h * a.den
    BY <1>3 DEF Between
  <2>3. /\ Averaged(a, m).num = BetaNum * a.num + k * m * a.den
        /\ Averaged(a, m).den = a.den * BetaDen
    BY <1>3 DEF Averaged
  <2> HIDE DEF k
  <2>4. /\ l * a.den \in Nat /\ h * a.den \in Nat /\ k * a.den \in Nat
        /\ m * (k * a.den) \in Nat
    BY <2>1, <1>1, TimesNatural
  <2>5. /\ BetaNum * (l * a.den) <= BetaNum * a.num
        /\ BetaNum * a.num <= BetaNum * (h * a.den)
    BY <2>2, <2>4, <1>0, <1>1, TimesMonotone
  <2>6. l * (k * a.den) <= m * (k * a.den) /\ m * (k * a.den) <= h * (k * a.den)
    BY <2>4, TimesMonotone
  <2>7. /\ l * (a.den * BetaDen) = BetaNum * (l * a.den) + l * (k * a.den)
        /\ h * (a.den * BetaDen) = BetaNum * (h * a.den) + h * (k * a.den)
        /\ k * m * a.den = m * (k * a.den)
    BY <2>1, <1>0, <1>1, Z3
  <2>8. /\ BetaNum * (l * a.den) \in Nat /\ BetaNum * (h * a.den) \in Nat
        /\ BetaNum * a.num \in Nat /\ l * (k * a.den) \in Nat /\ h * (k * a.den) \in Nat
    BY <2>4, <1>0, <1>1, TimesNatural
  <2>9. /\ l * (a.den * BetaDen) <= BetaNum * a.num + k * m * a.den
        /\ BetaNum * a.num + k * m * a.den <= h * (a.den * BetaDen)
    BY <2>4, <2>5, <2>6, <2>7, <2>8
  <2> QED  BY <2>3, <2>9 DEF Between
<1> QED  BY <1>2, <1>3

(* A wider range holds what the narrower one did.                          *)
LEMMA BetweenWiden ==
  ASSUME NEW a \in AverageType, NEW l \in Nat, NEW h \in Nat,
         NEW i \in Nat, NEW j \in Nat, Between(a, l, h), i <= l, h <= j
  PROVE  Between(a, i, j)
<1>1. a.num \in Nat /\ a.den \in Nat  BY DEF AverageType
<1>2. i * a.den <= l * a.den /\ h * a.den <= j * a.den
  BY <1>1, TimesMonotone
<1>3. /\ i * a.den \in Nat /\ l * a.den \in Nat /\ h * a.den \in Nat /\ j * a.den \in Nat
  BY <1>1, TimesNatural
<1> QED  BY <1>1, <1>2, <1>3 DEF Between

-----------------------------------------------------------------------------
LEMMA InitInv == Init => Inv
<1> SUFFICES ASSUME Init PROVE Inv  OBVIOUS
<1>1. TypeOK
  BY NeutralGood, WeightAssumption DEF Init, TypeOK, Good, NoAverage, AverageType
<1>2. \A t \in Tasks : average[t].seen = 0  BY DEF Init, NoAverage
<1>3. Types  BY <1>1, <1>2 DEF Types, Correctable, Init
<1>4. WeightsFollow
  BY NeutralGood DEF Init, WeightsFollow, Good
<1>5. AverageWithin
  BY <1>2 DEF Init, AverageWithin
<1> QED  BY <1>3, <1>4, <1>5 DEF Inv

LEMMA ScaleInv == Inv /\ ScaleAdvantage => Inv'
<1> SUFFICES ASSUME Inv, ScaleAdvantage PROVE Inv'  OBVIOUS
<1> USE DEF ScaleAdvantage
<1>1. Types'  BY DEF Inv, Types, TypeOK, Correctable
<1>2. WeightsFollow'  BY DEF Inv, WeightsFollow, Directed
<1>3. AverageWithin'  BY DEF Inv, AverageWithin
<1> QED  BY <1>1, <1>2, <1>3 DEF Inv

(* The heart: whatever is collected, the new weights are directed and the  *)
(* new averages within what was averaged.                                  *)
LEMMA TrackInv ==
  ASSUME Inv, NEW m \in [Tasks -> Sizes \cup {None}], Track(m), UNCHANGED <<mode, applied>>
  PROVE  /\ average' \in [Tasks -> AverageType]
         /\ \A t \in Tasks : Correctable(average'[t])
         /\ low' \in [Tasks -> Nat \cup {None}] /\ high' \in [Tasks -> Nat \cup {None}]
         /\ Good(weights') /\ Good(applied')
         /\ WeightsFollow' /\ AverageWithin'
<1>0. /\ mode \in Modes /\ average \in [Tasks -> AverageType]
      /\ weights \in [Tasks -> Positive] /\ applied \in [Tasks -> Positive]
      /\ low \in [Tasks -> Nat \cup {None}] /\ high \in [Tasks -> Nat \cup {None}]
      /\ \A t \in Tasks : Correctable(average[t])
  BY DEF Inv, Types, TypeOK
<1>a. Sizes \subseteq Nat /\ None \notin Nat  BY WeightAssumption
<1>b. /\ average' = [t \in Tasks |-> IF m[t] = None THEN average[t]
                                     ELSE Averaged(average[t], m[t])]
      /\ weights' = Reweighed(average')
      /\ low' = [t \in Tasks |-> IF m[t] = None THEN low[t] ELSE Lesser(low[t], m[t])]
      /\ high' = [t \in Tasks |-> IF m[t] = None THEN high[t] ELSE Larger(high[t], m[t])]
  BY DEF Track
<1>1. ASSUME NEW t \in Tasks
      PROVE  /\ average'[t] \in AverageType /\ Correctable(average'[t])
             /\ average[t].seen > 0 => average'[t].seen > 0
  <2>1. average[t] \in AverageType /\ Correctable(average[t])  BY <1>0
  <2>2. CASE m[t] = None
    BY <2>1, <2>2, <1>b
  <2>3. CASE m[t] # None
    <3>1. m[t] \in Nat  BY <2>3, <1>a
    <3>2. average'[t] = Averaged(average[t], m[t])  BY <2>3, <1>b
    <3> QED  BY <2>1, <3>1, <3>2, AveragedType
  <2> QED  BY <2>2, <2>3
<1>2. average' \in [Tasks -> AverageType]
  <2>1. average' = [t \in Tasks |-> average'[t]]  BY <1>b
  <2> QED  BY <2>1, <1>1
<1>3. ASSUME NEW t \in Tasks
      PROVE  /\ low'[t] \in Nat \cup {None} /\ high'[t] \in Nat \cup {None}
             /\ IF average'[t].seen = 0 THEN low'[t] = None /\ high'[t] = None
                ELSE /\ low'[t] \in Nat /\ high'[t] \in Nat
                     /\ Between(average'[t], low'[t], high'[t])
  <2>1. /\ average[t] \in AverageType /\ low[t] \in Nat \cup {None}
        /\ high[t] \in Nat \cup {None} /\ Correctable(average[t])
    BY <1>0
  <2>2. IF average[t].seen = 0 THEN low[t] = None /\ high[t] = None
        ELSE low[t] \in Nat /\ high[t] \in Nat /\ Between(average[t], low[t], high[t])
    BY DEF Inv, AverageWithin, Between
  <2>3. CASE m[t] = None
    BY <2>1, <2>2, <2>3, <1>b
  <2>4. CASE m[t] # None
    <3>1. m[t] \in Nat  BY <2>4, <1>a
    <3>2. /\ average'[t] = Averaged(average[t], m[t])
          /\ low'[t] = Lesser(low[t], m[t]) /\ high'[t] = Larger(high[t], m[t])
      BY <2>4, <1>b
    <3>3. average'[t].seen # 0
      <4>1. Averaged(average[t], m[t]).seen > 0  BY <2>1, <3>1, AveragedType
      <4> QED  BY <4>1, <3>2
    <3>4. CASE average[t].seen = 0
      <4>1. low'[t] = m[t] /\ high'[t] = m[t]
        BY <3>4, <2>2, <3>2 DEF Lesser, Larger
      <4>2. Between(average'[t], low'[t], high'[t])
        BY <4>1, <3>1, <3>2, <3>4, <2>1, AveragedBetween
      <4> QED  BY <4>1, <4>2, <3>1, <3>3
    <3>5. CASE average[t].seen # 0
      <4>1. low[t] \in Nat /\ high[t] \in Nat /\ Between(average[t], low[t], high[t])
        BY <3>5, <2>2
      <4>2. /\ low'[t] \in Nat /\ low'[t] <= low[t] /\ low'[t] <= m[t]
            /\ high'[t] \in Nat /\ high[t] <= high'[t] /\ m[t] <= high'[t]
        BY <4>1, <3>1, <3>2, <1>a DEF Lesser, Larger
      <4>3. Between(average[t], low'[t], high'[t])
        BY <4>1, <4>2, <2>1, BetweenWiden
      <4>4. Between(average'[t], low'[t], high'[t])
        BY <4>2, <4>3, <3>1, <3>2, <2>1, AveragedBetween
      <4> QED  BY <4>2, <4>4, <3>3
    <3> QED  BY <3>4, <3>5
  <2> QED  BY <2>3, <2>4
<1>4. low' \in [Tasks -> Nat \cup {None}] /\ high' \in [Tasks -> Nat \cup {None}]
  <2>1. low' = [t \in Tasks |-> low'[t]] /\ high' = [t \in Tasks |-> high'[t]]
    BY <1>b
  <2> QED  BY <2>1, <1>3
<1>5. Good(weights') /\ (weights' # Neutral => \A t \in Tasks : average'[t].seen > 0)
  <2>1. CASE \E t \in Tasks : average'[t].seen = 0
    <3>1. weights' = weights  BY <2>1, <1>b DEF Reweighed
    <3>2. Good(weights)  BY <1>0 DEF Inv, WeightsFollow, Good
    <3>3. weights # Neutral => \A t \in Tasks : average[t].seen > 0
      BY DEF Inv, WeightsFollow
    <3>4. weights' # Neutral => \A t \in Tasks : average'[t].seen > 0
      BY <3>1, <3>3, <1>1
    <3> QED  BY <3>1, <3>2, <3>4
  <2>2. CASE ~ \E t \in Tasks : average'[t].seen = 0
    <3>1. ASSUME NEW t \in Tasks PROVE average'[t].seen > 0
      BY <2>2, <1>1 DEF AverageType
    <3> PICK avg : avg = average'  OBVIOUS
    <3>2. Measured(avg)  BY <1>1, <1>2, <3>1 DEF Measured
    <3>3. weights' \in {Suppress(avg), Boost(avg), SuppressAndBoost(avg)}
      BY <2>2, <1>0, <1>b DEF Reweighed, Modes
    <3>4. Good(weights')
      BY <3>2, <3>3, SuppressGood, BoostGood, BothGood
    <3> QED  BY <3>1, <3>4
  <2> QED  BY <2>1, <2>2
<1>6. Good(applied') /\ (applied' # Neutral => \A t \in Tasks : average'[t].seen > 0)
  <2>1. applied' = applied  OBVIOUS
  <2>2. Good(applied)  BY <1>0 DEF Inv, WeightsFollow, Good
  <2>3. applied # Neutral => \A t \in Tasks : average[t].seen > 0
    BY DEF Inv, WeightsFollow
  <2> QED  BY <2>1, <2>2, <2>3, <1>1
<1>7. WeightsFollow'
  <2>1. Directed(weights)' /\ Directed(applied)'
    BY <1>5, <1>6 DEF Good, Directed
  <2> QED  BY <2>1, <1>5, <1>6 DEF WeightsFollow, Neutral
<1>8. AverageWithin'
  BY <1>3 DEF AverageWithin, Between
<1> QED  BY <1>1, <1>2, <1>4, <1>5, <1>6, <1>7, <1>8

LEMMA UpdateInv == Inv /\ UpdateActor => Inv'
<1> SUFFICES ASSUME Inv, UpdateActor PROVE Inv'  OBVIOUS
<1>1. PICK measured \in [Ranks -> [Tasks -> Sizes \cup {None}]] : Track(Collected(measured))
  BY DEF UpdateActor
<1>2. Collected(measured) \in [Tasks -> Sizes \cup {None}]
  BY WeightAssumption DEF Collected
<1>3. /\ average' \in [Tasks -> AverageType]
      /\ \A t \in Tasks : Correctable(average'[t])
      /\ low' \in [Tasks -> Nat \cup {None}] /\ high' \in [Tasks -> Nat \cup {None}]
      /\ Good(weights') /\ Good(applied')
      /\ WeightsFollow' /\ AverageWithin'
  BY <1>1, <1>2, TrackInv DEF UpdateActor
<1>4. /\ mode' \in Modes /\ step' \in 1 .. MaxSteps + 1 /\ stage' = "advantage"
  BY WeightAssumption DEF UpdateActor, Inv, Types, TypeOK
<1>5. TypeOK'  BY <1>3, <1>4 DEF TypeOK, Good
<1>6. Types'  BY <1>3, <1>4, <1>5 DEF Types, Correctable
<1> QED  BY <1>3, <1>6 DEF Inv

LEMMA SkipInv == Inv /\ SkipActor => Inv'
<1> SUFFICES ASSUME Inv, SkipActor PROVE Inv'  OBVIOUS
<1> USE DEF SkipActor
<1>1. Types'  BY WeightAssumption DEF Inv, Types, TypeOK, Correctable
<1>2. WeightsFollow'  BY DEF Inv, WeightsFollow, Directed
<1>3. AverageWithin'  BY DEF Inv, AverageWithin
<1> QED  BY <1>1, <1>2, <1>3 DEF Inv

LEMMA ResumeInv == Inv /\ Resume => Inv'
<1> SUFFICES ASSUME Inv, Resume PROVE Inv'  OBVIOUS
<1> USE DEF Resume
<1>1. TypeOK'
  BY NeutralGood, WeightAssumption DEF Inv, Types, TypeOK, Good, NoAverage, AverageType
<1>2. \A t \in Tasks : average'[t].seen = 0  BY DEF NoAverage
<1>3. Types'  BY <1>1, <1>2 DEF Types, Correctable
<1>4. WeightsFollow'
  <2>1. Directed(weights)' /\ Directed(applied)'
    BY NeutralGood DEF Good, Directed
  <2> QED  BY <2>1 DEF WeightsFollow, Neutral
<1>5. AverageWithin'  BY <1>2 DEF AverageWithin
<1> QED  BY <1>3, <1>4, <1>5 DEF Inv

LEMMA StutterInv == Inv /\ UNCHANGED vars => Inv'
<1> SUFFICES ASSUME Inv, UNCHANGED vars PROVE Inv'  OBVIOUS
<1> USE DEF vars
<1>1. Types'  BY DEF Inv, Types, TypeOK, Correctable
<1>2. WeightsFollow'  BY DEF Inv, WeightsFollow, Directed
<1>3. AverageWithin'  BY DEF Inv, AverageWithin
<1> QED  BY <1>1, <1>2, <1>3 DEF Inv

LEMMA InvHolds == Spec => []Inv
<1>1. Inv /\ [Next]_vars => Inv'
  BY ScaleInv, UpdateInv, SkipInv, ResumeInv, StutterInv DEF Next
<1> QED  BY InitInv, <1>1, PTL DEF Spec

-----------------------------------------------------------------------------
(* Averages of equally many measurements were divided by the same powers   *)
(* of beta: the denominators and what is left of the start are read off a  *)
(* ladder, which grows by a rung whenever something may be averaged.       *)
Ladder(n, f, g) ==
  /\ n \in Nat \ {0} /\ f \in [1 .. n -> Nat] /\ g \in [1 .. n -> Nat]
  /\ f[1] = 1 /\ g[1] = BetaNum
  /\ \A k \in 1 .. n - 1 : f[k + 1] = f[k] * BetaDen /\ g[k + 1] = g[k] * BetaNum

OnLadder(n, f, g, a) ==
  a.seen > 0 => a.seen <= n /\ a.den = f[a.seen] /\ a.rest = g[a.seen]

Powers == \E n, f, g : Ladder(n, f, g) /\ \A t \in Tasks : OnLadder(n, f, g, average[t])

(* Once both tasks were measured, the weights are those of the averages.   *)
Follows == (\A t \in Tasks : average[t].seen > 0) => weights = Reweighed(average)

LEMMA LadderGrows ==
  ASSUME NEW n, NEW f, NEW g, Ladder(n, f, g)
  PROVE  \E u, v : /\ Ladder(n + 1, u, v)
                   /\ \A k \in 1 .. n : u[k] = f[k] /\ v[k] = g[k]
<1> DEFINE u == [k \in 1 .. n + 1 |-> IF k = n + 1 THEN f[n] * BetaDen ELSE f[k]]
           v == [k \in 1 .. n + 1 |-> IF k = n + 1 THEN g[n] * BetaNum ELSE g[k]]
<1>0. /\ n \in Nat \ {0} /\ f \in [1 .. n -> Nat] /\ g \in [1 .. n -> Nat]
      /\ BetaNum \in Nat /\ BetaDen \in Nat
  BY WeightAssumption DEF Ladder
<1>1. f[n] * BetaDen \in Nat /\ g[n] * BetaNum \in Nat
  BY <1>0, TimesNatural
<1>2. u \in [1 .. n + 1 -> Nat] /\ v \in [1 .. n + 1 -> Nat]
  BY <1>0, <1>1
<1>3. \A k \in 1 .. n : u[k] = f[k] /\ v[k] = g[k]
  BY <1>0
<1>4. u[n + 1] = f[n] * BetaDen /\ v[n + 1] = g[n] * BetaNum
  BY <1>0
<1> HIDE DEF u, v
<1>5. u[1] = 1 /\ v[1] = BetaNum
  BY <1>0, <1>3 DEF Ladder
<1>6. ASSUME NEW k \in 1 .. (n + 1) - 1
      PROVE  u[k + 1] = u[k] * BetaDen /\ v[k + 1] = v[k] * BetaNum
  <2>1. CASE k = n
    BY <2>1, <1>0, <1>3, <1>4
  <2>2. CASE k # n
    <3>1. k \in 1 .. n - 1 /\ k \in 1 .. n /\ k + 1 \in 1 .. n
      BY <2>2, <1>0
    <3>2. f[k + 1] = f[k] * BetaDen /\ g[k + 1] = g[k] * BetaNum
      BY <3>1 DEF Ladder
    <3> QED  BY <3>1, <3>2, <1>3
  <2> QED  BY <2>1, <2>2
<1>7. Ladder(n + 1, u, v)
  <2>1. n + 1 \in Nat \ {0}  BY <1>0
  <2>2. PICK r : r = n + 1  OBVIOUS
  <2>3. /\ r \in Nat \ {0} /\ u \in [1 .. r -> Nat] /\ v \in [1 .. r -> Nat]
        /\ \A k \in 1 .. r - 1 : /\ u[k + 1] = u[k] * BetaDen
                                 /\ v[k + 1] = v[k] * BetaNum
    BY <1>2, <1>6, <2>1, <2>2
  <2>4. Ladder(r, u, v)  BY <1>5, <2>3, Zenon DEF Ladder
  <2> QED  BY <2>2, <2>4
<1> QED  BY <1>3, <1>7

LEMMA AveragedClimbs ==
  ASSUME NEW a \in AverageType, NEW m \in Nat, NEW n, NEW f, NEW g,
         Ladder(n, f, g), a.seen < n, OnLadder(n, f, g, a)
  PROVE  OnLadder(n, f, g, Averaged(a, m))
<1>0. a.seen \in Nat /\ n \in Nat \ {0}
  BY DEF AverageType, Ladder
<1>1. CASE a.seen = 0
  <2>1. /\ Averaged(a, m).seen = 1 /\ Averaged(a, m).den = 1
        /\ Averaged(a, m).rest = BetaNum
    BY <1>1 DEF Averaged
  <2> QED  BY <2>1, <1>0 DEF OnLadder, Ladder
<1>2. CASE a.seen # 0
  <2>1. /\ Averaged(a, m).seen = a.seen + 1 /\ Averaged(a, m).den = a.den * BetaDen
        /\ Averaged(a, m).rest = a.rest * BetaNum
    BY <1>2 DEF Averaged
  <2>2. a.den = f[a.seen] /\ a.rest = g[a.seen]
    BY <1>0, <1>2 DEF OnLadder
  <2>3. a.seen \in 1 .. n - 1 /\ a.seen + 1 <= n
    BY <1>0, <1>2
  <2>4. /\ f[a.seen + 1] = f[a.seen] * BetaDen
        /\ g[a.seen + 1] = g[a.seen] * BetaNum
    BY <2>3 DEF Ladder
  <2> QED  BY <2>1, <2>2, <2>3, <2>4 DEF OnLadder
<1> QED  BY <1>1, <1>2

(* The larger average is larger by at least the eps, so that the ratio is  *)
(* on the neutral side of one.                                             *)
LEMMA LargerNumerator ==
  ASSUME NEW c \in Nat, NEW n \in Nat, NEW d \in Nat, NEW l \in Nat, NEW h \in Nat,
         l * d <= c, n <= h * d, h < l
  PROVE  n + d <= c
<1>1. (h + 1) * d <= l * d  BY TimesMonotone
<1>2. (h + 1) * d = h * d + d  BY Z3
<1>3. h * d \in Nat /\ l * d \in Nat  BY TimesNatural
<1> QED  BY <1>1, <1>2, <1>3

LEMMA ScaledNumerator ==
  ASSUME NEW c \in Nat, NEW n \in Nat, NEW d \in Nat, NEW b \in Nat, NEW k \in Nat,
         NEW i \in Nat, NEW j \in Nat, n + d <= c, k <= d * b, i <= j
  PROVE  (n * b) * j + i * k <= (c * b) * j
<1>1. /\ (n + d) * b <= c * b /\ n * b \in Nat /\ d * b \in Nat /\ c * b \in Nat
      /\ (n + d) * b \in Nat
  BY TimesMonotone, TimesNatural
<1>2. ((n + d) * b) * j <= (c * b) * j  BY <1>1, TimesMonotone
<1>3. ((n + d) * b) * j = (n * b) * j + (d * b) * j  BY Z3
<1>4. i * k <= j * k /\ j * k <= j * (d * b)  BY <1>1, TimesMonotone
<1>5. j * (d * b) = (d * b) * j  BY Z3
<1>6. /\ (n * b) * j \in Nat /\ (d * b) * j \in Nat /\ (c * b) * j \in Nat
      /\ i * k \in Nat /\ j * k \in Nat
  BY <1>1, TimesNatural
<1> QED  BY <1>2, <1>3, <1>4, <1>5, <1>6

LEMMA RatioSides ==
  ASSUME NEW avg, Measured(avg), Leq(Eps, One), NEW l \in Nat, NEW h \in Nat, h < l,
         avg["categorical"].den = avg["numerical"].den,
         avg["categorical"].rest = avg["numerical"].rest,
         l * avg["categorical"].den <= avg["categorical"].num,
         avg["numerical"].num <= h * avg["numerical"].den
  PROVE  /\ Leq(One, Ratio(avg, "categorical", "numerical"))
         /\ Leq(Ratio(avg, "numerical", "categorical"), One)
<1> DEFINE c == avg["categorical"].num  n == avg["numerical"].num
           d == avg["numerical"].den  k == d * BetaDen - avg["numerical"].rest
           i == Eps[1]  j == Eps[2]  cb == c * BetaDen  nb == n * BetaDen
<1>1. /\ avg["categorical"] \in AverageType /\ avg["numerical"] \in AverageType
      /\ avg["numerical"].rest < d * BetaDen
  BY DEF Measured, Tasks, Correctable
<1>2. /\ c \in Nat /\ n \in Nat /\ d \in Nat /\ avg["numerical"].rest \in Nat
      /\ BetaDen \in Nat /\ d * BetaDen \in Nat /\ i \in Nat \ {0} /\ j \in Nat \ {0}
  BY <1>1, WeightAssumption, TimesNatural DEF AverageType, Positive
<1>3. k \in Nat \ {0} /\ k <= d * BetaDen  BY <1>1, <1>2
<1>4. i <= j
  <2>1. i * 1 <= 1 * j  BY DEF Leq, One
  <2> QED  BY <2>1, <1>2
<1>5. l * d <= c /\ n <= h * d  OBVIOUS
<1>6. Ratio(avg, "categorical", "numerical")
        = <<cb * (k * j), k * (nb * j + i * k)>>
  BY DEF Ratio, Over, Plus, Corrected
<1>7. Ratio(avg, "numerical", "categorical")
        = <<nb * (k * j), k * (cb * j + i * k)>>
  BY DEF Ratio, Over, Plus, Corrected
<1>a. cb = c * BetaDen /\ nb = n * BetaDen /\ cb \in Nat /\ nb \in Nat
  BY <1>2, TimesNatural
<1> HIDE DEF c, n, d, k, i, j, cb, nb
<1>8. n + d <= c  BY <1>2, <1>5, LargerNumerator
<1>9. nb * j + i * k <= cb * j
  BY <1>2, <1>3, <1>4, <1>8, <1>a, ScaledNumerator
<1>10. /\ nb * j \in Nat /\ cb * j \in Nat /\ i * k \in Nat /\ k * j \in Nat
  BY <1>2, <1>3, <1>a, TimesNatural
<1>11. k * (nb * j + i * k) <= k * (cb * j)
  BY <1>3, <1>9, <1>10, TimesMonotone
<1>12. k * (nb * j) <= k * (cb * j + i * k)
  <2>1. nb * j <= cb * j + i * k  BY <1>9, <1>10
  <2> QED  BY <2>1, <1>3, <1>10, TimesMonotone
<1>13. k * (cb * j) = cb * (k * j) /\ k * (nb * j) = nb * (k * j)
  BY <1>2, <1>3, <1>a, Z3
<1>14. /\ k * (cb * j) \in Nat /\ k * (nb * j) \in Nat
       /\ k * (nb * j + i * k) \in Nat /\ k * (cb * j + i * k) \in Nat
  BY <1>3, <1>10, TimesNatural
<1>15. Leq(One, Ratio(avg, "categorical", "numerical"))
  BY <1>6, <1>11, <1>13, <1>14 DEF Leq, One
<1>16. Leq(Ratio(avg, "numerical", "categorical"), One)
  BY <1>7, <1>12, <1>13, <1>14 DEF Leq, One
<1> QED  BY <1>15, <1>16

LEMMA IsOne ==
  ASSUME NEW w \in Positive, Leq(One, w), Leq(w, One)
  PROVE  w[1] = w[2]
<1>1. w[1] \in Nat /\ w[2] \in Nat  BY DEF Positive
<1> QED  BY <1>1 DEF Leq, One

(* With the ratio on that side, every mode leaves both weights at one.     *)
LEMMA WeighOne ==
  ASSUME NEW c \in Positive, NEW n \in Positive, c[1] = c[2], n[1] = n[2]
  PROVE  \A t \in Tasks : Weigh(c, n)[t][1] = Weigh(c, n)[t][2]
BY DEF Weigh

Leaves(w) == \A t \in Tasks : w[t][1] = w[t][2]

LEMMA SuppressLeaves ==
  ASSUME NEW avg, Measured(avg), Leq(One, Ratio(avg, "categorical", "numerical"))
  PROVE  Leaves(Suppress(avg))
<1> DEFINE q == Ratio(avg, "categorical", "numerical")  x == Least(One, q)
           n == Clip(x, WMin, WMax)
<1>1. q \in Fractions  BY RatioIsFraction DEF Tasks
<1>2. x = One  BY DEF Least
<1> HIDE DEF x
<1>3. n \in Positive  BY <1>2, Range, OneIsPositive, ClipBetween
<1>4. Leq(n, One)  BY <1>2, Range, OneIsPositive, ClipUnder
<1>5. Leq(One, n)  BY <1>2, Range, OneIsPositive, ClipOver
<1>6. Suppress(avg) = Weigh(One, n)  BY DEF Suppress, x
<1> HIDE DEF n
<1>7. n[1] = n[2]  BY <1>3, <1>4, <1>5, IsOne
<1>8. One[1] = One[2]  BY DEF One
<1> QED  BY <1>3, <1>6, <1>7, <1>8, OneIsPositive, WeighOne DEF Leaves

LEMMA BoostLeaves ==
  ASSUME NEW avg, Measured(avg), Leq(Ratio(avg, "numerical", "categorical"), One)
  PROVE  Leaves(Boost(avg))
<1> DEFINE q == Ratio(avg, "numerical", "categorical")  x == Greatest(One, q)
           c == Clip(x, WMin, WMax)
<1>1. q \in Fractions  BY RatioIsFraction DEF Tasks
<1>2. x \in Fractions /\ Leq(One, x) /\ Leq(x, One)
  <2>1. Leq(q, One) /\ Leq(One, One)  BY Range
  <2> HIDE DEF q
  <2> QED  BY <1>1, <2>1, OneIsPositive DEF Greatest
<1> HIDE DEF x
<1>3. c \in Positive  BY <1>2, Range, ClipBetween
<1>4. Leq(c, One)  BY <1>2, Range, OneIsPositive, ClipUnder
<1>5. Leq(One, c)  BY <1>2, Range, OneIsPositive, ClipOver
<1>6. Boost(avg) = Weigh(c, One)  BY DEF Boost, x
<1> HIDE DEF c
<1>7. c[1] = c[2]  BY <1>3, <1>4, <1>5, IsOne
<1>8. One[1] = One[2]  BY DEF One
<1> QED  BY <1>3, <1>6, <1>7, <1>8, OneIsPositive, WeighOne DEF Leaves

LEMMA EtaUnder ==
  ASSUME NEW avg, Measured(avg), Leq(Eps, One),
         Leq(Ratio(avg, "numerical", "categorical"), One)
  PROVE  Leq(Eta(avg), One) /\ Leq(One, Over(One, Eta(avg)))
<1> DEFINE q == Ratio(avg, "numerical", "categorical")  r == Greatest(q, Eps)
           h == <<r[1], 2 * r[2]>>
<1>0. Eps \in Fractions  BY WeightAssumption, PositiveIsFraction
<1>1. q \in Fractions /\ Leq(q, One)  BY RatioIsFraction DEF Tasks
<1> HIDE DEF q
<1>2. r \in Fractions /\ Leq(r, One)  BY <1>0, <1>1 DEF Greatest
<1>3. Eta(avg) = Greatest(h, Eps)  BY DEF Eta, q
<1> HIDE DEF r
<1>4. Leq(h, One)
  <2>1. r[1] \in Nat /\ r[2] \in Nat  BY <1>2 DEF Fractions
  <2>2. r[1] * 1 <= 1 * r[2]  BY <1>2 DEF Leq, One
  <2>3. h[1] = r[1] /\ h[2] = 2 * r[2]  OBVIOUS
  <2> HIDE DEF h
  <2> QED  BY <2>1, <2>2, <2>3 DEF Leq, One
<1> HIDE DEF h
<1>5. Leq(Eta(avg), One)  BY <1>3, <1>4 DEF Greatest
<1>6. Leq(One, Over(One, Eta(avg)))
  <2> DEFINE g == Eta(avg)
  <2>1. g \in Positive /\ Leq(g, One)  BY <1>5, EtaIsPositive
  <2>2. Over(One, g) = <<1 * g[2], 1 * g[1]>>  BY DEF Over, One
  <2> HIDE DEF g
  <2>3. g[1] \in Nat /\ g[2] \in Nat  BY <2>1 DEF Positive
  <2>4. Leq(One, Over(One, g))  BY <2>1, <2>2, <2>3 DEF Leq, One
  <2> QED  BY <2>4 DEF g
<1> QED  BY <1>5, <1>6

LEMMA BothLeave ==
  ASSUME NEW avg, Measured(avg), Leq(Eps, One),
         Leq(Ratio(avg, "numerical", "categorical"), One)
  PROVE  Leaves(SuppressAndBoost(avg))
<1> DEFINE g == Eta(avg)  o == Over(One, g)
           c == Clip(g, One, Greatest(One, WMax))
           n == Clip(o, Least(WMin, One), One)
<1>1. /\ g \in Fractions /\ o \in Fractions
      /\ Leq(g, One) /\ Leq(One, o)
  BY EtaIsPositive, EtaUnder, PositiveIsFraction
<1>2. Greatest(One, WMax) = WMax /\ Least(WMin, One) = WMin
  BY Range DEF Greatest, Least
<1> HIDE DEF g, o
<1>3. c \in Positive /\ Leq(One, c)
  BY <1>1, <1>2, Range, OneIsPositive, ClipBetween
<1>4. Leq(c, One)  BY <1>1, <1>2, Range, OneIsPositive, ClipUnder
<1>5. n \in Positive /\ Leq(n, One)
  BY <1>1, <1>2, Range, OneIsPositive, ClipBetween
<1>6. Leq(One, n)  BY <1>1, <1>2, Range, OneIsPositive, ClipOver
<1>7. SuppressAndBoost(avg) = Weigh(c, n)  BY DEF SuppressAndBoost, g, o
<1> HIDE DEF c, n
<1>8. c[1] = c[2] /\ n[1] = n[2]  BY <1>3, <1>4, <1>5, <1>6, IsOne
<1> QED  BY <1>3, <1>5, <1>7, <1>8, WeighOne DEF Leaves

-----------------------------------------------------------------------------
LEMMA InitPowers == Init => Powers /\ Follows
<1> SUFFICES ASSUME Init PROVE Powers /\ Follows  OBVIOUS
<1>1. \A t \in Tasks : average[t].seen = 0  BY DEF Init, NoAverage
<1>2. \E n, f, g : Ladder(n, f, g)
  <2> DEFINE f == [k \in 1 .. 1 |-> 1]  g == [k \in 1 .. 1 |-> BetaNum]
  <2>1. BetaNum \in Nat  BY WeightAssumption
  <2>2. Ladder(1, f, g)  BY <2>1 DEF Ladder
  <2> QED  BY <2>2
<1>3. Powers  BY <1>1, <1>2 DEF Powers, OnLadder
<1>4. Follows  BY <1>1 DEF Follows, Tasks
<1> QED  BY <1>3, <1>4

LEMMA TrackPowers ==
  ASSUME Inv, Powers, NEW m \in [Tasks -> Sizes \cup {None}], Track(m)
  PROVE  Powers'
<1>1. PICK n, f, g : Ladder(n, f, g) /\ \A t \in Tasks : OnLadder(n, f, g, average[t])
  BY DEF Powers
<1>2. PICK u, v : /\ Ladder(n + 1, u, v)
                  /\ \A k \in 1 .. n : u[k] = f[k] /\ v[k] = g[k]
  BY <1>1, LadderGrows
<1>3. n \in Nat  BY <1>1 DEF Ladder
<1>4. ASSUME NEW t \in Tasks PROVE OnLadder(n + 1, u, v, average'[t])
  <2>1. average[t] \in AverageType /\ average[t].seen \in Nat
    BY DEF Inv, Types, TypeOK, AverageType
  <2>2. OnLadder(n + 1, u, v, average[t]) /\ average[t].seen < n + 1
    <3>1. CASE average[t].seen = 0
      BY <3>1, <1>3 DEF OnLadder
    <3>2. CASE average[t].seen # 0
      <4>1. /\ average[t].seen <= n /\ average[t].den = f[average[t].seen]
            /\ average[t].rest = g[average[t].seen]
        BY <1>1, <2>1, <3>2 DEF OnLadder
      <4>2. average[t].seen \in 1 .. n  BY <4>1, <2>1, <3>2, <1>3
      <4>3. u[average[t].seen] = f[average[t].seen] /\ v[average[t].seen] = g[average[t].seen]
        BY <4>2, <1>2
      <4> QED  BY <4>1, <4>2, <4>3, <1>3 DEF OnLadder
    <3> QED  BY <3>1, <3>2
  <2>3. CASE m[t] = None
    BY <2>2, <2>3 DEF Track
  <2>4. CASE m[t] # None
    <3>1. m[t] \in Nat  BY <2>4, WeightAssumption
    <3>2. average'[t] = Averaged(average[t], m[t])  BY <2>4 DEF Track
    <3> QED  BY <3>1, <3>2, <2>1, <2>2, <1>2, AveragedClimbs
  <2> QED  BY <2>3, <2>4
<1> QED  BY <1>2, <1>4 DEF Powers

LEMMA NextPowers ==
  ASSUME Inv, Powers, Follows, [Next]_vars
  PROVE  Powers' /\ Follows'
<1>1. CASE UpdateActor
  <2>1. PICK measured \in [Ranks -> [Tasks -> Sizes \cup {None}]] :
          Track(Collected(measured))
    BY <1>1 DEF UpdateActor
  <2>2. Collected(measured) \in [Tasks -> Sizes \cup {None}]
    BY WeightAssumption DEF Collected
  <2>3. Powers'  BY <2>1, <2>2, TrackPowers
  <2>4. weights' = Reweighed(average')  BY <2>1 DEF Track
  <2>5. mode' = mode  BY <1>1 DEF UpdateActor
  <2>6. Follows'
    <3> SUFFICES ASSUME \A t \in Tasks : average'[t].seen > 0
                 PROVE  weights' = Reweighed(average)'
      BY DEF Follows
    <3>1. ~ \E t \in Tasks : average'[t].seen = 0  OBVIOUS
    <3>2. mode = "suppress" \/ mode = "boost" \/ mode = "both"
      BY DEF Inv, Types, TypeOK, Modes
    <3>3. CASE mode = "suppress"
      BY <2>4, <2>5, <3>1, <3>3 DEF Reweighed
    <3>4. CASE mode = "boost"
      BY <2>4, <2>5, <3>1, <3>4 DEF Reweighed
    <3>5. CASE mode = "both"
      BY <2>4, <2>5, <3>1, <3>5 DEF Reweighed
    <3> QED  BY <3>2, <3>3, <3>4, <3>5
  <2> QED  BY <2>3, <2>6
<1>2. CASE Resume
  <2>1. \A t \in Tasks : average'[t].seen = 0  BY <1>2 DEF Resume, NoAverage
  <2>2. Powers'  BY <2>1 DEF Powers, OnLadder
  <2>3. Follows'  BY <2>1 DEF Follows, Tasks
  <2> QED  BY <2>2, <2>3
<1>3. CASE ScaleAdvantage \/ SkipActor \/ UNCHANGED vars
  <2>1. UNCHANGED <<average, weights, mode>>
    BY <1>3 DEF ScaleAdvantage, SkipActor, vars
  <2>2. Powers'  BY <2>1 DEF Powers
  <2>3. Follows'  BY <2>1 DEF Follows, Reweighed
  <2> QED  BY <2>2, <2>3
<1> QED  BY <1>1, <1>2, <1>3 DEF Next

(* Measured equally often, the larger task is seen as the larger.          *)
LEMMA EqualCountsFair ==
  ASSUME Inv, Powers, Follows, Leq(Eps, One)
  PROVE  FairWhenCountsAgree
<1> SUFFICES ASSUME average["categorical"].seen = average["numerical"].seen,
                    \A t \in Tasks : average[t].seen > 0,
                    low["categorical"] > high["numerical"]
             PROVE  Leaves(weights)
  BY DEF FairWhenCountsAgree, LargerStaysNeutral, Leaves
<1> DEFINE l == low["categorical"]  h == high["numerical"]
<1>1. PICK n, f, g : Ladder(n, f, g) /\ \A t \in Tasks : OnLadder(n, f, g, average[t])
  BY DEF Powers
<1>2. /\ average["categorical"].den = average["numerical"].den
      /\ average["categorical"].rest = average["numerical"].rest
  BY <1>1 DEF OnLadder, Tasks
<1>3. Measured(average)  BY DEF Inv, Types, TypeOK, Measured
<1>4. /\ l \in Nat /\ h \in Nat
      /\ l * average["categorical"].den <= average["categorical"].num
      /\ average["numerical"].num <= h * average["numerical"].den
  <2>1. average["categorical"].seen # 0 /\ average["numerical"].seen # 0
    BY <1>3 DEF Tasks
  <2> QED  BY <2>1 DEF Inv, AverageWithin, Tasks
<1>5. h < l  BY <1>4
<1> HIDE DEF l, h
<1>6. /\ Leq(One, Ratio(average, "categorical", "numerical"))
      /\ Leq(Ratio(average, "numerical", "categorical"), One)
  BY <1>2, <1>3, <1>4, <1>5, RatioSides
<1>7. weights \in {Suppress(average), Boost(average), SuppressAndBoost(average)}
  <2>1. weights = Reweighed(average)  BY DEF Follows
  <2>2. ~ \E t \in Tasks : average[t].seen = 0  OBVIOUS
  <2>3. mode \in Modes  BY DEF Inv, Types, TypeOK
  <2> QED  BY <2>1, <2>2, <2>3 DEF Reweighed, Modes
<1> QED  BY <1>3, <1>6, <1>7, SuppressLeaves, BoostLeaves, BothLeave

(* The state is well typed: no denominator is ever zero and every weight   *)
(* is positive.                                                            *)
THEOREM TypeCorrect == Spec => []TypeOK
<1>1. Inv => TypeOK  BY DEF Inv, Types
<1> QED  BY InvHolds, <1>1, PTL

(* Categorical is never suppressed, numerical never boosted, and both stay *)
(* in the configured range, in every mode.                                 *)
THEOREM WeightsStayDirected == Spec => []WeightsDirected
<1>1. Inv => WeightsDirected  BY DEF Inv, WeightsFollow, Directed, WeightsDirected
<1> QED  BY InvHolds, <1>1, PTL

(* No batch is scaled before both tasks were measured.                     *)
THEOREM BothAreNeeded == Spec => []NeutralUntilBoth
<1>1. Inv => NeutralUntilBoth  BY DEF Inv, WeightsFollow, NeutralUntilBoth
<1> QED  BY InvHolds, <1>1, PTL

(* An average stays between the least and the largest of what it averages. *)
THEOREM AverageStaysWithin == Spec => []AverageWithin
<1>1. Inv => AverageWithin  BY DEF Inv
<1> QED  BY InvHolds, <1>1, PTL

(* Where both tasks were measured equally often, weights leave one only if *)
(* some numerical advantage was as large as some categorical one; the eps  *)
(* is at most one, which is the least difference of two sizes.             *)
THEOREM EqualCountsAreFair == Leq(Eps, One) => (Spec => []FairWhenCountsAgree)
<1> SUFFICES ASSUME Leq(Eps, One) PROVE Spec => []FairWhenCountsAgree  OBVIOUS
<1>1. Inv /\ Powers /\ Follows /\ [Next]_vars => Powers' /\ Follows'
  BY NextPowers
<1>2. Inv /\ Powers /\ Follows => FairWhenCountsAgree
  BY EqualCountsFair
<1> QED  BY InitPowers, InvHolds, <1>1, <1>2, PTL DEF Spec

=============================================================================
