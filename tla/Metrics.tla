------------------------------- MODULE Metrics -------------------------------
(***************************************************************************)
(* Scores of the sign and spread models (sfe/models/metrics.py), and the   *)
(* fan of quantiles a spread model predicts (sfe/models/spread.py).        *)
(*                                                                         *)
(* A sample is a sequence of pairs of an outcome y and a score p, whole    *)
(* multiples of 1/Scale: for the sign y is 0 or Scale and p a probability, *)
(* for the spread both are prices.  NaN stands for a missing value.  Rates *)
(* and means are given without their denominators, so that they stay whole.*)
(***************************************************************************)
EXTENDS Amounts, Sequences

CONSTANTS
  Scale,    \* one, in the unit of scores and outcomes
  Bins,     \* bins of the reliability table
  Levels    \* QUANTILES, in tenths

ASSUME ScaleAssumption ==
  Scale \in Nat \ {0} /\ Bins \in Nat \ {0} /\ Levels \subseteq 1..9 /\ Levels # {}

\* The rows whose outcome and score are both there.
clean(sample) == {i \in DOMAIN sample : sample[i].y # NaN /\ sample[i].p # NaN}

Positives(sample) == {i \in clean(sample) : sample[i].y = Scale}
Negatives(sample) == {i \in clean(sample) : sample[i].y = 0}

---------------------------------------------------------------------------
(* Sign *)

\* The mean squared difference, times n.
brier_score(sample) ==
  LET Square(i) == (sample[i].p - sample[i].y) * (sample[i].p - sample[i].y)
  IN  SumOver(clean(sample), Square)

\* Faulty variant of Rank2: tied scores all get the first of their ranks.
FirstRank2(sample, i) ==
  2 * (1 + Cardinality({j \in clean(sample) : sample[j].p < sample[i].p}))

\* Twice the average rank of a row among the tied ones: start + csum + 1.
Rank2(sample, i) ==
  1 + Cardinality({j \in clean(sample) : sample[j].p < sample[i].p})
    + Cardinality({j \in clean(sample) : sample[j].p <= sample[i].p})

\* The area under the ROC curve, times 2 * n_pos * n_neg.
auc_roc(sample) ==
  LET n_pos == Cardinality(Positives(sample))
      RankOf(i) == Rank2(sample, i)
  IN  SumOver(Positives(sample), RankOf) - n_pos * (n_pos + 1)

\* Faulty variant of BinOf: the index of digitize over all edges, not clipped.
BinUnclipped(p) == (p * Bins) \div Scale

\* digitize over the inner edges, clipped to the last bin.
BinOf(p) ==
  LET b == (p * Bins) \div Scale
  IN  IF b > Bins - 1 THEN Bins - 1 ELSE b

InBin(sample, b) == {i \in clean(sample) : BinOf(sample[i].p) = b}

\* By how much the outcomes of some rows fall short of their scores.
Excess(sample, rows) ==
  LET Gap(i) == sample[i].p - sample[i].y IN SumOver(rows, Gap)

\* The calibration error times n: the weight of a bin, the share of its rows,
\* cancels against the means it weighs.
expected_calibration_error(sample) ==
  LET Term(b) == Absolute(Excess(sample, InBin(sample, b)))
  IN  SumOver(0..(Bins - 1), Term)

\* Rows, sum of scores and sum of outcomes of every bin.
reliability_table(sample) ==
  LET Score(i) == sample[i].p
      Outcome(i) == sample[i].y
  IN  [b \in 0..(Bins - 1) |->
         [n |-> Cardinality(InBin(sample, b)),
          mean_pred |-> SumOver(InBin(sample, b), Score),
          frac_pos |-> SumOver(InBin(sample, b), Outcome)]]

---------------------------------------------------------------------------
(* Spread *)

\* The boosters of the levels predict independently; sorting the row makes the k-th
\* smallest value the one of the k-th level.
predict(raw) ==
  LET k(q) == Cardinality({l \in Levels : l <= q})
      Below(v) == Cardinality({l \in Levels : raw[l] < v})
      UpTo(v) == Cardinality({l \in Levels : raw[l] <= v})
  IN  [q \in Levels |-> CHOOSE v \in {raw[l] : l \in Levels} : Below(v) < k(q) /\ k(q) <= UpTo(v)]

\* Faulty variant of PinballTerm: the two sides change places.
PinballSwapped(y, p, q) ==
  LET d == y - p IN IF q * d <= (q - 10) * d THEN q * d ELSE (q - 10) * d

PinballTerm(y, p, q) ==
  LET d == y - p IN IF q * d >= (q - 10) * d THEN q * d ELSE (q - 10) * d

\* The pinball loss times 10 n.
pinball_loss(sample, q) ==
  LET Term(i) == PinballTerm(sample[i].y, sample[i].p, q) IN SumOver(clean(sample), Term)

\* One prediction for every row.
Constantly(sample, c) == [i \in DOMAIN sample |-> [sample[i] EXCEPT !.p = c]]

\* The mean over the levels of a fan, times their number, when every row gets that fan.
mean_pinball(sample, fan) ==
  LET Loss(q) == pinball_loss(Constantly(sample, fan[q]), q) IN SumOver(Levels, Loss)

\* The outcomes between a lower and an upper bound.
picp(sample, lower, upper) ==
  Cardinality({i \in clean(sample) : lower <= sample[i].y /\ sample[i].y <= upper})

==============================================================================
