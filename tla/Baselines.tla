------------------------------ MODULE Baselines ------------------------------
(***************************************************************************)
(* The baselines the models must beat (sfe/models/baselines.py), on the    *)
(* three parts of a training frame (sfe/models/dataset.py) as the training *)
(* report takes them (sfe/scripts/train_baseline.py).                      *)
(*                                                                         *)
(* A frame is a set of rows, one for each area and period: the number of   *)
(* the area, the start t of the period in UTC, and a label y, NaN when it  *)
(* is unknown.  The sign and the spread are treated alike, and y stands    *)
(* for either.  A mean is kept as its sum and its count.                   *)
(***************************************************************************)
EXTENDS Amounts

CONSTANTS
  HoursOfADay,  \* pd.Timedelta(days=1), in the unit of t
  LocalParts,   \* month and hour of the wall clock in Rome, for each start of a period
  ValidPercent, \* valid_frac, in percent
  TestPercent   \* test_frac, in percent

ASSUME SplitAssumption ==
  /\ HoursOfADay \in Nat \ {0}
  /\ {ValidPercent, TestPercent} \subseteq Nat /\ ValidPercent + TestPercent <= 100

---------------------------------------------------------------------------
(* The three parts of a frame *)

\* The position of a row in the frame sorted by time, counted from zero; areas keep
\* their order.
Position(frame, x) ==
  Cardinality({r \in frame : r.t < x.t \/ (r.t = x.t /\ r.area < x.area)})

\* The last rows are the test, those before them validate, the others train.
time_split(frame) ==
  LET n == Cardinality(frame)
      n_test == (n * TestPercent) \div 100
      n_valid == (n * ValidPercent) \div 100
      Cut(from, to) == {x \in frame : from <= Position(frame, x) /\ Position(frame, x) < to}
  IN  [train |-> Cut(0, n - n_valid - n_test),
       valid |-> Cut(n - n_valid - n_test, n - n_test),
       test  |-> Cut(n - n_test, n)]

---------------------------------------------------------------------------
(* The baselines *)

Known(rows) == {r \in rows : r.y # NaN}

\* nanmean, and the mean of a group: there is none of rows without a label.
nanmean(rows) ==
  LET Label(r) == r.y
  IN  IF Known(rows) = {} THEN NaN
      ELSE [sum |-> SumOver(Known(rows), Label), n |-> Cardinality(Known(rows))]

\* A label of some rows, or the mean of all when these have none.
Filled(rows, all) == IF Known(rows) = {} THEN nanmean(all) ELSE nanmean(rows)

KeysOf(rows) == {[area |-> r.area, t |-> r.t] : r \in rows}

\* What the same area had 24 hours before, among the reference rows.
persistence(reference, rows) ==
  [k \in KeysOf(rows) |->
     Filled({r \in reference : r.area = k.area /\ r.t = k.t - HoursOfADay}, reference)]

\* The mean of the area in that month at that local hour, over the training rows.
seasonal_climatology(train, rows) ==
  [k \in KeysOf(rows) |->
     Filled({r \in train : r.area = k.area /\ LocalParts[r.t] = LocalParts[k.t]}, train)]

\* The reference rows of the persistence: _train_valid_mask.
train_valid(frame, test) ==
  {r \in frame : [area |-> r.area, t |-> r.t] \notin KeysOf(test)}

\* Faulty variant of baseline_report: the climatology is that of the whole frame.
report_of_all_seasons(frame) ==
  LET split == time_split(frame)
  IN  [persistence |-> persistence(train_valid(frame, split.test), split.test),
       climatology |-> seasonal_climatology(frame, split.test)]

\* What the training report compares the models with on the test rows.
baseline_report(frame) ==
  LET split == time_split(frame)
  IN  [persistence |-> persistence(train_valid(frame, split.test), split.test),
       climatology |-> seasonal_climatology(split.train, split.test)]

==============================================================================
