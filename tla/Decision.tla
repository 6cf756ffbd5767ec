------------------------------ MODULE Decision ------------------------------
(***************************************************************************)
(* The decision policy (sfe/decision): recommend sizes one deviation for   *)
(* each row of a forecast (sizing.py, abstain.py, limits.py) and           *)
(* recommend_frame then caps the volume of each delivery day (policy.py).  *)
(*                                                                         *)
(* All amounts are integers.  The unit of energy is a hundredth of the     *)
(* unit of a load, so that a percentage of a load is a whole number.  A    *)
(* forecast is a fan of five spreads in ascending order; what derives from *)
(* their mean is kept times five (names ending in 5).  A volume after the  *)
(* daily cap is an integer times a fraction.                               *)
(***************************************************************************)
EXTENDS Integers, Sequences

CONSTANTS
  Fans,        \* the spread forecasts
  Charges,     \* charges per unit of energy
  Loads,       \* load forecasts
  Probs,       \* sign probabilities in percent
  Days,        \* delivery days, in Rome's calendar
  Eta,         \* eta_eur_per_mwh2
  Aggr,        \* aggressiveness in percent
  Step,        \* rounding_mwh
  MinEdge,     \* min_edge_eur_per_mwh
  Doubt,       \* uncertainty_mult over _FAN_TO_SIGMA, in percent
  Deadband,    \* sign_prob_deadband in percent
  PctLoad,     \* pct_load_cap in percent
  MtuCap,      \* per_mtu_mwh_cap
  DailyCap,    \* daily_mwh_cap
  CvarLimit,   \* cvar_limit_eur_per_mwh
  MaxRows      \* bound: rows of a frame

\* predict sorts the five quantiles (spread.py:70).
ASSUME FansAssumption ==
  /\ Fans \subseteq [1..5 -> Int]
  /\ \A f \in Fans : \A i \in 1..4 : f[i] <= f[i + 1]
ASSUME InputsAssumption ==
  Charges \subseteq Nat /\ Loads \subseteq Nat /\ Probs \subseteq 0..100 /\ MaxRows \in Nat
\* decision.yaml: aggressiveness scales the closed-form size by a factor of 0 to 1.
ASSUME SizingAssumption == Eta \in Nat \ {0} /\ Aggr \in 0..100 /\ Step \in Nat \ {0}
ASSUME LimitsAssumption ==
  /\ MinEdge \in Nat /\ Doubt \in Nat /\ Deadband \in Nat
  /\ PctLoad \in Nat /\ MtuCap \in Nat /\ DailyCap \in Nat /\ CvarLimit \in Nat

VARIABLES
  recs,    \* the recommendations made so far
  total,   \* total[d]: aggregate volume recommended for day d
  scale,   \* scale[d]: the factor that the daily cap puts on the volumes of day d
  done     \* TRUE iff the frame is finished

vars == <<recs, total, scale, done>>

\* The sign probability of a row whose frame has none (NaN).
NoProb == -1

Row == [day : Days, fan : Fans, charge : Charges, load : Loads, prob : Probs \cup {NoProb}]

Reasons == {"sized", "edge_below_min", "wide_distribution", "sign_indeterminate", "cvar_limit"}
Bindings == {"none", "per_mtu_cap", "daily_cap"}

Abs(n) == IF n < 0 THEN -n ELSE n
Sign(n) == IF n < 0 THEN -1 ELSE IF n > 0 THEN 1 ELSE 0

---------------------------------------------------------------------------
(* Sizing: five times E[S], its direction and the edge net of the charge *)

ExpectedSpread5(r) == r.fan[1] + r.fan[2] + r.fan[3] + r.fan[4] + r.fan[5]

\* int(np.sign(e_spread)) or 1
Direction(r) == IF ExpectedSpread5(r) < 0 THEN -1 ELSE 1

Net5(r) == ExpectedSpread5(r) - 5 * Direction(r) * r.charge

\* Faulty variant of NetEdge5: the gross spread is taken for the margin.
GrossEdge5(r) == ExpectedSpread5(r)

\* The charge must not turn the sign of the edge.
NetEdge5(r) == IF Sign(Net5(r)) = Direction(r) THEN Net5(r) ELSE 0

\* np.round(n / d) for n >= 0 and d > 0: to the nearest integer, halves to even.
RoundUpwards(n, d) ==
  LET q == n \div d
      twice == 2 * (n % d)
  IN IF twice < d \/ (twice = d /\ q % 2 = 0) THEN q ELSE q + 1

Round(n, d) == IF n < 0 THEN -RoundUpwards(-n, d) ELSE RoundUpwards(n, d)

\* aggressiveness * edge / (2 * eta), on the grid of Step.
TargetDelta(r) == Step * Round(NetEdge5(r) * Aggr, 1000 * Eta * Step)

---------------------------------------------------------------------------
(* Abstention and limits *)

\* AbstainRule.check: the first reason that applies.
Abstention(r) ==
  IF Abs(NetEdge5(r)) < 5 * MinEdge THEN "edge_below_min"
  ELSE IF 100 * Abs(NetEdge5(r)) < 5 * Doubt * Abs(r.fan[5] - r.fan[1])
       THEN "wide_distribution"
  ELSE IF r.prob # NoProb /\ Abs(r.prob - 50) < Deadband THEN "sign_indeterminate"
  ELSE "sized"

PerMtuCap(load) == IF load * PctLoad < MtuCap THEN load * PctLoad ELSE MtuCap

Clip(delta, load) ==
  IF Abs(delta) <= PerMtuCap(load) THEN delta ELSE Sign(delta) * PerMtuCap(load)

\* Faulty variant of WorstCase: the results are not sorted, the first is taken.
FirstCase(r) == Direction(r) * r.fan[1] - r.charge

\* The worst of five equiprobable scenarios: CVaR at 95 % per unit of volume.
WorstCase(r) ==
  IF Direction(r) = 1 THEN r.fan[1] - r.charge ELSE -r.fan[5] - r.charge

CvarOk(r) == WorstCase(r) >= -CvarLimit

---------------------------------------------------------------------------
(* One row: recommend *)

\* delta * (E[S] - eta * delta - direction * charge), times five.
Margin5(r, delta) == delta * (Net5(r) - 5 * Eta * delta)

Recommendation(r) ==
  LET target == IF Abstention(r) = "sized" THEN TargetDelta(r) ELSE 0
      clipped == Clip(target, r.load)
      stopped == target # 0 /\ ~CvarOk(r)
      delta == IF stopped THEN 0 ELSE clipped
  IN [row |-> r,
      delta |-> delta,
      reason |-> IF stopped THEN "cvar_limit" ELSE Abstention(r),
      binding |-> IF clipped # target THEN "per_mtu_cap" ELSE "none",
      margin5 |-> Margin5(r, delta)]

\* Faulty variant of Volume: opposite deviations of a day cancel out.
NetVolume(delta) == delta

\* What a deviation adds to the aggregate volume of its day.
Volume(delta) == Abs(delta)

Init ==
  /\ recs = <<>>
  /\ total = [d \in Days |-> 0]
  /\ scale = [d \in Days |-> [num |-> 1, den |-> 1]]
  /\ done = FALSE

\* recommend_frame sizes the rows of its frame one after the other.
Recommend(r) ==
  /\ ~done
  /\ Len(recs) < MaxRows
  /\ recs' = Append(recs, Recommendation(r))
  /\ total' = [total EXCEPT ![r.day] = @ + Volume(Recommendation(r).delta)]
  /\ UNCHANGED <<scale, done>>

---------------------------------------------------------------------------
(* The frame: apply_daily_cap and the margins *)

Overfull(d) == total[d] > DailyCap

\* delta_mwh is overwritten with the capped volume before the ratio of the two is
\* formed: the margin keeps its value, or becomes zero with the volume.
Capped(rec) ==
  IF rec.delta # 0 /\ Overfull(rec.row.day)
  THEN [rec EXCEPT !.binding = "daily_cap", !.margin5 = IF DailyCap > 0 THEN @ ELSE 0]
  ELSE rec

ApplyDailyCap ==
  /\ ~done
  /\ recs # <<>>
  /\ done' = TRUE
  /\ scale' = [d \in Days |->
       IF Overfull(d) THEN [num |-> DailyCap, den |-> total[d]] ELSE scale[d]]
  /\ recs' = [i \in DOMAIN recs |-> Capped(recs[i])]
  /\ UNCHANGED total

Next == ApplyDailyCap \/ \E r \in Row : Recommend(r)

Spec == Init /\ [][Next]_vars

---------------------------------------------------------------------------
(* Properties *)

\* The volume that is recommended is rec.delta * F(rec).num / F(rec).den.
F(rec) == scale[rec.row.day]

Rec == [row : Row, delta : -MtuCap..MtuCap, reason : Reasons, binding : Bindings, margin5 : Int]

TypeOK ==
  /\ recs \in Seq(Rec) /\ Len(recs) <= MaxRows
  /\ total \in [Days -> Nat]
  /\ scale \in [Days -> [num : Nat, den : Nat \ {0}]]
  /\ done \in BOOLEAN

\* decision.yaml:2-3, R-1: nothing is recommended at an expected loss.  Net of its
\* charge and of its own impact on the spread, no recommended volume has a negative
\* expected margin, whatever rounding, clipping and the daily cap made of it.
NoLosingTrade ==
  \A i \in DOMAIN recs :
    LET rec == recs[i]
    IN rec.delta * (Net5(rec.row) * F(rec).den - 5 * Eta * rec.delta * F(rec).num) >= 0

\* What recommendation rec adds to the volumes of day d, long or short.
Share(rec, d) == IF rec.row.day = d THEN Abs(rec.delta) ELSE 0

\* The volumes of day d in the frame rs, added up row by row.
DayVolume(rs, d) ==
  LET upto[n \in 0..Len(rs)] == IF n = 0 THEN 0 ELSE upto[n - 1] + Share(rs[n], d)
  IN  upto[Len(rs)]

\* F-11, limits.py:3-4: no deviation exceeds its share of the load, and together
\* those of one delivery day stay within the daily cap once the frame is finished,
\* also when some are long and some are short.
CapsHold ==
  /\ \A i \in DOMAIN recs :
       Abs(recs[i].delta) <= MtuCap /\ Abs(recs[i].delta) <= recs[i].row.load * PctLoad
  /\ done => \A d \in Days : DayVolume(recs, d) * scale[d].num <= DailyCap * scale[d].den

\* limits.py:3-4: in each scenario of its forecast, long or short as it is, a
\* recommended deviation loses no more per unit than the CVaR limit allows.
WorstCaseIsBounded ==
  \A i \in DOMAIN recs : recs[i].delta # 0 =>
    \A p \in 1..5 :
      Sign(recs[i].delta) * recs[i].row.fan[p] - recs[i].row.charge >= -CvarLimit

\* sizing.py:3, decision.yaml:8: the margin that is reported with a recommendation
\* is no more than what the objective gives for the volume that is recommended.
MarginsAreNotOverstated ==
  \A i \in DOMAIN recs :
    LET rec == recs[i]
        objective == rec.delta * F(rec).num
                     * (Net5(rec.row) * F(rec).den - 5 * Eta * rec.delta * F(rec).num)
    IN rec.margin5 * F(rec).den * F(rec).den <= objective

=============================================================================
