---------------------------- MODULE WalkForward ----------------------------
(***************************************************************************)
(* Features, targets and the walk-forward backtest: the feature store's    *)
(* lagged targets (sfe/features/store.py, lags.py, targets.py), the        *)
(* training frame and its split (sfe/models/dataset.py), run_walkforward   *)
(* and its naive counterpart (sfe/backtest/walkforward.py, ablation.py) in *)
(* the order of sfe/scripts/run_backtest.py, and the live forecasts of     *)
(* generate_bundle (sfe/serve/inference.py), which see the same store      *)
(* earlier.  All read the landing zone while ingesters go on writing it.   *)
(*                                                                         *)
(* A landed row stands for the outcome of one delivery day in all areas    *)
(* and fields; key is the day, pub its publication, which also tells the   *)
(* vintages of a day apart.  Areas only multiply the rows of a split.      *)
(***************************************************************************)
EXTENDS Timebase, Vintage, FiniteSets

CONSTANTS
  Areas,            \* macrozones, as numbers in their order in a frame
  LagDays,          \* lags_days of LagTargetFeatures
  min_train_days,   \* days before the first test day
  test_days,        \* days of a test window
  min_train_rows,   \* a fold with fewer labelled rows is skipped
  ValidPercent,     \* valid_frac of time_split, in percent
  PublicationTimes, \* bound: the instants at which the source may publish
  MaxPublications,  \* bound: publications of outcomes by the source
  MaxForecasts      \* bound: live forecasts

ASSUME BacktestAssumption ==
  /\ Areas \subseteq Nat /\ Areas # {} /\ IsFiniteSet(Areas)
  /\ LagDays \subseteq Nat
  /\ min_train_days \in Nat \ {0} /\ test_days \in Nat \ {0}
  /\ min_train_rows \in Nat \ {0}
  /\ ValidPercent \in 0..100
  /\ PublicationTimes \subseteq Nat
  /\ MaxPublications \in Nat /\ MaxForecasts \in Nat

VARIABLES
  now,        \* UTC
  published,  \* observer: every outcome the source has published
  landed,     \* the rows of the landing zone
  horizon,    \* the horizon of forecasts and backtest
  live,       \* the forecasts made so far, for each what it saw
  end,        \* last day of the backtest
  run,        \* "model": run_walkforward, "naive": run_naive_walkforward
  phase,      \* where the backtest is
  test_start, \* first test day of the fold it is in, or comes to next
  day,        \* the test day it decides next
  model,      \* what the models of the fold were fitted on
  recs,       \* recommendations of all folds and of both runs, with what each saw
  skipped,    \* folds that were skipped
  scored      \* days of the recommendations that could be scored, for each run

world == <<now, published, landed>>
backtest == <<end, run, phase, test_start, day, model, recs, skipped, scored>>
vars == <<world, horizon, live, backtest>>

Row == [key : Calendar, pub : Nat]
NoModel == [labels |-> {}, train |-> {}, valid |-> {}]
Runs == {"model", "naive"}

---------------------------------------------------------------------------
(* The source and the landing zone *)

\* The clock stands still once the backtest begins: it takes less than a tick.
Tick ==
  /\ phase = "idle"
  /\ now < local_midnight_utc(LastDay + 1)
  /\ now' = now + 1
  /\ UNCHANGED <<published, landed, horizon, live, backtest>>

\* The source publishes or revises the outcome of a day that is over.
Publish(d) ==
  /\ now \in PublicationTimes
  /\ Cardinality(published) < MaxPublications
  /\ local_midnight_utc(d + 1) <= now
  /\ \A r \in published : r.key = d => r.pub < now
  /\ published' = published \cup {[key |-> d, pub |-> now]}
  /\ UNCHANGED <<now, landed, horizon, live, backtest>>

\* A pull lands what the source serves for a day: its newest vintage.
Land(r) ==
  /\ r \in latest_view(published) \ landed
  /\ landed' = landed \cup {r}
  /\ UNCHANGED <<now, published, horizon, live, backtest>>

---------------------------------------------------------------------------
(* Features *)

\* Faulty variant of assemble_targets: lags are taken from the latest view.
assemble_latest(rows, asOf) == latest_view(rows)

\* Faulty variant of assemble_targets: what is published at the decision counts.
assemble_up_to(rows, asOf) == as_of_view(rows, asOf + 1)

\* Targets as they were known at asOf.
assemble_targets(rows, asOf) == as_of_view(rows, asOf)

Nothing == 0

\* The publication of the outcome a view has for the period at t.
Observed(view, t) ==
  IF \E r \in view : t \in day_grid(r.key)
  THEN (CHOOSE r \in view : t \in day_grid(r.key)).pub
  ELSE Nothing

\* Start of the last period a view has an outcome for.
LastObserved(view) ==
  CHOOSE t \in UNION {day_grid(r.key) : r \in view} :
    \A r \in view : t >= local_midnight_utc(r.key + 1) - 1

\* LagTargetFeatures.build: for each period the outcome that many times 24 hours before
\* it, and the last outcome that was known, with its age.
lag_features(rows, d, asOf) ==
  LET pit == assemble_targets(rows, asOf)
  IN [lags |-> [t \in day_grid(d) |->
                 [l \in LagDays |-> Observed(pit, t - l * NormalLength)]],
      last |-> IF pit = {} THEN Nothing ELSE Observed(pit, LastObserved(pit)),
      staleness |-> IF pit = {} THEN Nothing ELSE asOf - LastObserved(pit)]

\* What FeatureStore.assemble gives for a delivery day, and what the row came from:
\* complete and size are observers, whether all that was published before the decision
\* had landed, and how much had landed at all.
assemble(d) ==
  LET asOf == as_of_for_horizon(d, horizon)
  IN [day |-> d, asOf |-> asOf,
      seen |-> lag_features(landed, d, asOf),
      complete |-> asOf <= now /\ as_of_view(published, asOf) \subseteq landed,
      size |-> Cardinality(landed)]

\* generate_bundle for a day, at whatever time it is asked for.
Forecast(d) ==
  /\ Cardinality(live) < MaxForecasts
  /\ \A f \in live : f.day # d
  /\ live' = live \cup {assemble(d)}
  /\ UNCHANGED <<world, horizon, backtest>>

---------------------------------------------------------------------------
(* Training *)

\* Faulty variant of train_end: the training window includes the first test day.
train_end_inclusive(first) == first

train_end(first) == first - 1

\* Faulty variant of next_start: the last test day is tested again.
next_start_again(last) == last

next_start(last) == last + 1

Smaller(a, b) == IF a < b THEN a ELSE b

\* The first test day of the first fold.
FirstTestDay == 1 + min_train_days

\* make_folds, expanding training and consecutive test windows: the fold that starts at
\* test_start.  The list of folds is only walked through, so it is made on the way.
Fold ==
  [train_end  |-> train_end(test_start),
   test_start |-> test_start,
   test_end   |-> Smaller(test_start + test_days - 1, end)]

\* attach_labels and dropna: the periods of the days 1..last with a known outcome, in
\* every area.  Labels come from the latest view.
LabelledRows(labels) ==
  UNION {{<<t, a>> : t \in day_grid(r.key), a \in Areas} : r \in labels}

Labels(last) == {r \in latest_view(landed) : r.key <= last}

\* The position of a row in the frame sorted by time; areas keep their order.
Rank(rows, x) ==
  Cardinality({y \in rows : y[1] < x[1] \/ (y[1] = x[1] /\ y[2] < x[2])})

\* Faulty variant of time_split: the oldest rows validate.
time_split_reversed(rows) ==
  LET n_valid == (Cardinality(rows) * ValidPercent) \div 100
      valid == {x \in rows : Rank(rows, x) < n_valid}
  IN [train |-> rows \ valid, valid |-> valid]

\* The last rows of the sorted frame validate; test_frac is zero in all callers here.
time_split(rows) ==
  LET n_valid == (Cardinality(rows) * ValidPercent) \div 100
      train == {x \in rows : Rank(rows, x) < Cardinality(rows) - n_valid}
  IN [train |-> train, valid |-> rows \ train]

---------------------------------------------------------------------------
(* The backtest *)

StartBacktest(last) ==
  /\ phase = "idle"
  /\ end' = last
  /\ phase' = "fold"
  /\ UNCHANGED <<world, horizon, live, run, test_start, day, model, recs, skipped, scored>>

InFold == phase = "fold" /\ test_start <= end

NoFoldLeft == phase = "fold" /\ test_start > end

GoTest == phase' = "test" /\ day' = test_start

\* build_training_frame and both fits.
Train ==
  LET labels == Labels(Fold.train_end)
      split == time_split(LabelledRows(labels))
  IN /\ InFold /\ run = "model"
     /\ Cardinality(LabelledRows(labels)) >= min_train_rows
     /\ model' = [labels |-> labels, train |-> split.train, valid |-> split.valid]
     /\ GoTest
     /\ UNCHANGED <<world, horizon, live, end, run, test_start, recs, skipped, scored>>

SkipFold ==
  /\ InFold /\ run = "model"
  /\ Cardinality(LabelledRows(Labels(Fold.train_end))) < min_train_rows
  /\ skipped' = skipped \cup {Fold}
  /\ test_start' = next_start(Fold.test_end)
  /\ UNCHANGED <<world, horizon, live, end, run, phase, day, model, recs, scored>>

\* The naive policy has nothing to train, and no fold is too short for it.
EnterFold ==
  /\ InFold /\ run = "naive"
  /\ GoTest
  /\ UNCHANGED <<world, horizon, live, end, run, test_start, model, recs, skipped, scored>>

\* The as-of features of a test day and its recommendations.  The naive policy looks at
\* the climatology of the targets known at the decision, the same view.
DecideDay ==
  /\ phase = "test"
  /\ recs' = recs \cup {[run |-> run, fold |-> test_start, row |-> assemble(day)]}
  /\ IF day < Fold.test_end
     THEN day' = day + 1 /\ UNCHANGED <<phase, test_start, model>>
     ELSE /\ phase' = "fold" /\ test_start' = next_start(Fold.test_end)
          /\ model' = NoModel /\ UNCHANGED day
  /\ UNCHANGED <<world, horizon, live, end, run, skipped, scored>>

DecidedIn(r) == {x.row.day : x \in {y \in recs : y.run = r}}

\* build_actuals and realize_pnl: days without an outcome so far cannot be scored.
Score ==
  scored' = [scored EXCEPT ![run] = {d \in DecidedIn(run) : \E r \in landed : r.key = d}]

\* The first run ends; without a recommendation run_backtest stops here, else the naive
\* policy follows.
FinishModelRun ==
  /\ NoFoldLeft /\ run = "model"
  /\ IF DecidedIn("model") = {}
     THEN phase' = "failed" /\ UNCHANGED <<run, test_start, scored>>
     ELSE run' = "naive" /\ test_start' = FirstTestDay /\ Score /\ UNCHANGED phase
  /\ UNCHANGED <<world, horizon, live, end, day, model, recs, skipped>>

FinishNaiveRun ==
  /\ NoFoldLeft /\ run = "naive"
  /\ phase' = "done"
  /\ Score
  /\ UNCHANGED <<world, horizon, live, end, run, test_start, day, model, recs, skipped>>

---------------------------------------------------------------------------
(* Specification *)

Init ==
  /\ now = 0 /\ published = {} /\ landed = {}
  /\ horizon \in Horizons
  /\ live = {}
  /\ end = 1 /\ run = "model" /\ phase = "idle" /\ test_start = FirstTestDay /\ day = 1
  /\ model = NoModel
  /\ recs = {} /\ skipped = {}
  /\ scored = [r \in Runs |-> {}]

World == Tick \/ (\E d \in Calendar : Publish(d)) \/ (\E r \in published : Land(r))

\* Days that are over: what a backtest is asked for.
Past == {d \in Calendar : local_midnight_utc(d + 1) <= now}

Backtest ==
  \/ \E last \in Past : StartBacktest(last)
  \/ Train \/ SkipFold \/ EnterFold \/ DecideDay \/ FinishModelRun \/ FinishNaiveRun

Next == World \/ Backtest \/ \E d \in Calendar \ {1} : Forecast(d)

Spec == Init /\ [][Next]_vars

---------------------------------------------------------------------------
(* Properties *)

Seen(x) == {x.seen.lags[t][l] : t \in day_grid(x.day), l \in LagDays} \cup {x.seen.last}
Decisions == live \cup {x.row : x \in recs}
Finished(r) == phase = "done" \/ (r = "model" /\ (run = "naive" \/ phase = "failed"))
TestDaysOf(f) == f.test_start..f.test_end

\* The days a run has been through.
Passed(r) ==
  IF r = run THEN FirstTestDay..(test_start - 1)
  ELSE IF r = "model" THEN FirstTestDay..end ELSE {}

TypeOK ==
  /\ now \in 0..local_midnight_utc(LastDay + 1)
  /\ published \subseteq Row /\ landed \subseteq published
  /\ horizon \in Horizons
  /\ \A x \in Decisions : x.day \in Calendar /\ x.asOf \in Int /\ x.size \in Nat
  /\ end \in Calendar /\ day \in Calendar
  /\ run \in Runs
  /\ phase \in {"idle", "fold", "test", "done", "failed"}
  /\ test_start \in Nat
  /\ model.labels \subseteq landed
  /\ \A f \in skipped : f.test_start \in Calendar /\ f.test_end \in Calendar
  /\ scored \in [Runs -> SUBSET Calendar]

\* timebase.py:3-10: at every instant, on days of every length, the period index and the
\* wall clock with its fold tell the instant again.
PeriodsAndInstantsCorrespond ==
  now < local_midnight_utc(LastDay + 1) =>
    LET local == utc_to_rome(now)
        period_index == now - local_midnight_utc(local.day) + 1
    IN  /\ now \in day_grid(local.day)
        /\ period_index \in 1..periods_in_day(local.day)
        /\ period_start_utc(local.day, period_index) = now
        /\ rome_wall_to_utc(local.day, local.wall, local.fold) = now

\* backtest_protocol.md:11-13, lags.py:5-8: a forecast and a replayed decision see only
\* outcomes that were published before the decision time, of periods that were over.
DecisionsSeeOnlyThePast ==
  \A x \in Decisions :
    /\ \A pub \in Seen(x) \ {Nothing} : pub < x.asOf
    /\ x.seen.last # Nothing => x.seen.staleness > 0
    /\ \A t \in day_grid(x.day), l \in LagDays :
         x.seen.lags[t][l] # Nothing => t - l * NormalLength < x.asOf

\* Replaying a decision gives the features the live forecast had, provided that both
\* found landed what had been published before the decision; and whoever reads the
\* landing zone later knows at least as much (PRD B-3, inference.py:154-157,
\* walkforward.py:140-143).
ReplayMatchesLive ==
  \A f \in live : \A x \in {r.row : r \in recs} :
    x.day = f.day =>
      /\ f.complete /\ x.complete => x.seen = f.seen
      /\ f.size <= x.size =>
           /\ f.seen.last # Nothing => x.seen.staleness <= f.seen.staleness
           /\ \A t \in day_grid(f.day), l \in LagDays :
                f.seen.lags[t][l] <= x.seen.lags[t][l]

\* test_backtest_walkforward.py:25-30: the windows neither overlap nor leave a gap: each
\* day a run has been through was decided once, or belongs to one fold that was skipped,
\* and in the end these are all days after the first training days.
EveryDayIsDecidedOnce ==
  \A r \in Runs :
    /\ \A d \in Passed(r) :
         LET decided == {x \in recs : x.run = r /\ x.row.day = d}
             missed == {f \in skipped : r = "model" /\ d \in TestDaysOf(f)}
         IN Cardinality(decided) + Cardinality(missed) = 1
    /\ Finished(r) => FirstTestDay..end \subseteq Passed(r)

\* walkforward.py:3-6: no model was fitted on a period of the window it is tested on.
ModelsTrainOnThePast ==
  phase = "test" => \A x \in model.train \cup model.valid : x[1] < local_midnight_utc(day)

\* dataset.py:5, 114: the validation rows are not older than the training rows.
SplitIsChronological ==
  \A x \in model.train, y \in model.valid : x[1] <= y[1]

\* backtest_protocol.md:11-12: what a decision rests on was published before it; here,
\* the labels its models were fitted on.
LabelsWereKnown ==
  phase = "test" =>
    \A r \in model.labels : r.pub < as_of_for_horizon(day, horizon)

=============================================================================
