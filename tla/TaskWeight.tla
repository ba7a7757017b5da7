----------------------------- MODULE TaskWeight -----------------------------
(***************************************************************************)
(* The dynamic weighting of the correctness advantage in                   *)
(* verl/trainer/ppo/ray_trainer.py: classification and regression rows are *)
(* trained together, and the trainer scales the correctness advantage of a *)
(* task by a weight derived from moving averages of how large it was.      *)
(*                                                                         *)
(* The actor's ranks measure the mean size of the advantage over their own *)
(* rows; the trainer gets what rank 0 measured, moves its averages and     *)
(* uses the new weights from the next batch on.  Numbers are exact         *)
(* fractions <<numerator, denominator>>, not floats.                       *)
(***************************************************************************)
EXTENDS Integers

CONSTANTS
  Ranks,        (* the workers of the actor, 0 among them                    *)
  Sizes,        (* mean sizes of an advantage that a rank may measure        *)
  None,         (* what it measures without a row of the task                *)
  BetaNum,      (* ema_beta is BetaNum / BetaDen                             *)
  BetaDen,
  Eps,          (* the eps that keeps denominators from zero                 *)
  WMin, WMax,   (* the range of the weights                                  *)
  Warmup,       (* critic_warmup: the first step that updates the actor      *)
  MaxSteps      (* bound: steps of a training                                *)

Tasks == {"categorical", "numerical"}
Modes == {"suppress", "boost", "both"}

One == <<1, 1>>
Leq(a, b) == a[1] * b[2] <= b[1] * a[2]
Plus(a, b) == <<a[1] * b[2] + b[1] * a[2], a[2] * b[2]>>
Over(a, b) == <<a[1] * b[2], a[2] * b[1]>>
Least(a, b) == IF Leq(a, b) THEN a ELSE b
Greatest(a, b) == IF Leq(a, b) THEN b ELSE a

(* Mutant of Clip: the lower bound is forgotten.                           *)
ClipAbove(x, lo, hi) == Least(x, hi)

Clip(x, lo, hi) == Least(Greatest(x, lo), hi)

Positive == (Nat \ {0}) \X (Nat \ {0})

ASSUME WeightAssumption ==
  /\ 0 \in Ranks
  /\ Sizes \subseteq Nat /\ None \notin Nat
  /\ BetaNum \in Nat /\ BetaDen \in Nat /\ BetaNum < BetaDen
  /\ Eps \in Positive /\ WMin \in Positive /\ WMax \in Positive
  /\ Leq(WMin, One) /\ Leq(One, WMax)
  /\ Warmup \in Nat /\ MaxSteps \in Nat \ {0}

VARIABLES
  mode,      (* correctness_adv_task_weight_mode                             *)
  step,      (* global_steps                                                 *)
  stage,     (* "advantage", or "actor" while the actor is updated           *)
  average,   (* _correctness_adv_abs_ema and _steps of a task                *)
  weights,   (* _correctness_adv_task_weights                                *)
  applied,   (* the weights the current batch was scaled with                *)
  low, high  (* history: the least and the largest size that was averaged    *)

vars == <<mode, step, stage, average, weights, applied, low, high>>

(* The moving average num / den after seen measurements; den is BetaDen to *)
(* the power seen - 1, rest is BetaNum to the power seen.                  *)
NoAverage == [seen |-> 0, num |-> 0, den |-> 1, rest |-> 1]
Neutral == [t \in Tasks |-> One]

Init ==
  /\ mode \in Modes /\ step = 1 /\ stage = "advantage"
  /\ average = [t \in Tasks |-> NoAverage]
  /\ weights = Neutral /\ applied = Neutral
  /\ low = [t \in Tasks |-> None] /\ high = [t \in Tasks |-> None]

(* Mutant of Averaged: the average starts from zero.                       *)
AveragedFromZero(a, m) ==
  [seen |-> a.seen + 1,
   num |-> IF a.seen = 0 THEN (BetaDen - BetaNum) * m
           ELSE BetaNum * a.num + (BetaDen - BetaNum) * m * a.den,
   den |-> a.den * BetaDen,
   rest |-> a.rest * BetaNum]

(* The average with one more measurement: the first is taken as it is.     *)
Averaged(a, m) ==
  IF a.seen = 0 THEN [seen |-> 1, num |-> m, den |-> 1, rest |-> BetaNum]
  ELSE [seen |-> a.seen + 1,
        num |-> BetaNum * a.num + (BetaDen - BetaNum) * m * a.den,
        den |-> a.den * BetaDen,
        rest |-> a.rest * BetaNum]

(* The bias-corrected average: divided by 1 - beta ** seen.                *)
Corrected(a) == <<a.num * BetaDen, a.den * BetaDen - a.rest>>

(* Mutant of Ratio: upside down.                                           *)
RatioInverted(avg, t, u) == Over(Corrected(avg[u]), Plus(Corrected(avg[t]), Eps))

(* How large task t is compared to task u.                                 *)
Ratio(avg, t, u) == Over(Corrected(avg[t]), Plus(Corrected(avg[u]), Eps))

Weigh(categorical, numerical) ==
  [t \in Tasks |-> IF t = "categorical" THEN categorical ELSE numerical]

(* Mutant of Suppress: only_downweight is forgotten.                       *)
SuppressFreely(avg) ==
  Weigh(One, Clip(Ratio(avg, "categorical", "numerical"), WMin, WMax))

Suppress(avg) ==
  Weigh(One, Clip(Least(One, Ratio(avg, "categorical", "numerical")), WMin, WMax))

Boost(avg) ==
  Weigh(Clip(Greatest(One, Ratio(avg, "numerical", "categorical")), WMin, WMax), One)

(* Both, with half of the ratio.                                           *)
Eta(avg) ==
  LET r == Greatest(Ratio(avg, "numerical", "categorical"), Eps)
  IN  Greatest(<<r[1], 2 * r[2]>>, Eps)

SuppressAndBoost(avg) ==
  Weigh(Clip(Eta(avg), One, Greatest(One, WMax)),
        Clip(Over(One, Eta(avg)), Least(WMin, One), One))

(* Mutant of Reweighed: a weight is computed from one task alone.          *)
ReweighedEarly(avg) ==
  IF \A t \in Tasks : avg[t].seen = 0 THEN weights
  ELSE CASE mode = "suppress" -> Suppress(avg)
         [] mode = "boost" -> Boost(avg)
         [] mode = "both" -> SuppressAndBoost(avg)

(* The weights that follow from the averages, once there are both.         *)
Reweighed(avg) ==
  IF \E t \in Tasks : avg[t].seen = 0 THEN weights
  ELSE CASE mode = "suppress" -> Suppress(avg)
         [] mode = "boost" -> Boost(avg)
         [] mode = "both" -> SuppressAndBoost(avg)

(* DataProto.concat keeps the meta_info, and with it the metrics, of the   *)
(* first worker only.                                                      *)
Collected(measured) == measured[0]

(* The advantages of a batch are scaled with the weights of the steps      *)
(* before.                                                                 *)
ScaleAdvantage ==
  /\ stage = "advantage" /\ step <= MaxSteps
  /\ stage' = "actor"
  /\ applied' = weights
  /\ UNCHANGED <<mode, step, average, weights, low, high>>

Lesser(a, b) == IF a = None \/ b < a THEN b ELSE a
Larger(a, b) == IF a = None \/ b > a THEN b ELSE a

(* _update_correctness_adv_reg_weight with what was collected.             *)
Track(m) ==
  /\ average' = [t \in Tasks |-> IF m[t] = None THEN average[t]
                                 ELSE Averaged(average[t], m[t])]
  /\ weights' = Reweighed(average')
  /\ low' = [t \in Tasks |-> IF m[t] = None THEN low[t] ELSE Lesser(low[t], m[t])]
  /\ high' = [t \in Tasks |-> IF m[t] = None THEN high[t] ELSE Larger(high[t], m[t])]

(* The actor is updated, its ranks measure, and the step ends.             *)
UpdateActor ==
  /\ stage = "actor" /\ Warmup <= step
  /\ stage' = "advantage" /\ step' = step + 1
  /\ \E measured \in [Ranks -> [Tasks -> Sizes \cup {None}]] :
       Track(Collected(measured))
  /\ UNCHANGED <<mode, applied>>

(* While the critic warms up, the actor is left alone.                     *)
SkipActor ==
  /\ stage = "actor" /\ step < Warmup
  /\ stage' = "advantage" /\ step' = step + 1
  /\ UNCHANGED <<mode, average, weights, applied, low, high>>

(* The training stops and goes on from a checkpoint, which does not hold   *)
(* averages or weights.                                                    *)
Resume ==
  /\ step' \in 1 .. step
  /\ stage' = "advantage"
  /\ average' = [t \in Tasks |-> NoAverage]
  /\ weights' = Neutral /\ applied' = Neutral
  /\ low' = [t \in Tasks |-> None] /\ high' = [t \in Tasks |-> None]
  /\ UNCHANGED mode

Next == ScaleAdvantage \/ UpdateActor \/ SkipActor \/ Resume

Spec == Init /\ [][Next]_vars

-----------------------------------------------------------------------------
AverageType ==
  [seen : Nat, num : Nat, den : Nat \ {0}, rest : Nat]

TypeOK ==
  /\ mode \in Modes /\ step \in 1 .. MaxSteps + 1
  /\ stage \in {"advantage", "actor"}
  /\ average \in [Tasks -> AverageType]
  /\ weights \in [Tasks -> Positive] /\ applied \in [Tasks -> Positive]
  /\ low \in [Tasks -> Nat \cup {None}] /\ high \in [Tasks -> Nat \cup {None}]

(* "never suppress categorical", "never boost numerical": whatever is      *)
(* measured, every weight a batch is scaled with is on its side of one and *)
(* within the range of the configuration.                                  *)
WeightsDirected ==
  /\ Leq(WMin, applied["numerical"]) /\ Leq(applied["numerical"], One)
  /\ Leq(One, applied["categorical"]) /\ Leq(applied["categorical"], WMax)

(* "Need both sides to compute a ratio": a batch is scaled only when both  *)
(* tasks were measured since the process started, and a resumed training   *)
(* starts without weights again.                                           *)
NeutralUntilBoth ==
  applied # Neutral => \A t \in Tasks : average[t].seen > 0

(* A moving average stays between the least and the largest of what was    *)
(* averaged since the process started, and there is none of nothing.       *)
AverageWithin ==
  \A t \in Tasks :
    IF average[t].seen = 0 THEN low[t] = None /\ high[t] = None
    ELSE /\ low[t] \in Nat /\ high[t] \in Nat
         /\ low[t] * average[t].den <= average[t].num
         /\ average[t].num <= high[t] * average[t].den

(* "raw_ratio > 1 means categorical has larger abs-adv than numerical": a  *)
(* weight leaves one only if some numerical advantage was as large as some *)
(* categorical one.                                                        *)
LargerStaysNeutral ==
  (\A t \in Tasks : average[t].seen > 0) /\ low["categorical"] > high["numerical"]
    => \A t \in Tasks : weights[t][1] = weights[t][2]

(* The same where both tasks were measured equally often, so that the      *)
(* corrections of their averages cancel.                                   *)
FairWhenCountsAgree ==
  average["categorical"].seen = average["numerical"].seen => LargerStaysNeutral

=============================================================================
