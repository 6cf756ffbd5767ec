-------------------------- MODULE WalkForwardProofs --------------------------
(***************************************************************************)
(* Theorems about the settlement time base and the walk-forward backtest,  *)
(* for any calendar, horizons, lags, windows and publications.             *)
(***************************************************************************)
EXTENDS WalkForward, FiniteSetTheorems, WellFoundedInduction, TLAPS

---------------------------------------------------------------------------
(* The calendar *)

LEMMA MidnightsFollow ==
  /\ \A d \in 1..(LastDay + 1) : local_midnight_utc(d) \in Nat
  /\ \A d, e \in 1..(LastDay + 1) : d < e => local_midnight_utc(d) < local_midnight_utc(e)
  BY CalendarAssumption DEF local_midnight_utc

LEMMA DaysAreInOrder ==
  ASSUME NEW d \in Calendar, NEW e \in 1..(LastDay + 1), d < e
  PROVE  /\ d + 1 \in 1..(LastDay + 1)
         /\ local_midnight_utc(d + 1) <= local_midnight_utc(e)
<1>1. d + 1 \in 1..(LastDay + 1) /\ (d + 1 = e \/ d + 1 < e)
  BY CalendarAssumption DEF Calendar
<1>. QED
  BY <1>1, MidnightsFollow

\* A set of naturals has a least element.
LEMMA LeastExists ==
  ASSUME NEW T, T \subseteq Nat, T # {}
  PROVE  \E n \in T : \A m \in T : n <= m
<1>1. IsWellFoundedOn(OpToRel(<, Nat), Nat)
  BY NatLessThanWellFounded
<1>2. PICK n \in T : \A m \in T : ~ (<<m, n>> \in OpToRel(<, Nat))
  BY <1>1, WFMin
<1>3. \A m \in T : ~ (m < n)
  BY <1>2 DEF OpToRel
<1>. QED
  BY <1>3

\* Every instant of the calendar is in a day.
LEMMA DaysCover ==
  ASSUME NEW t \in Nat, t < local_midnight_utc(LastDay + 1)
  PROVE  \E d \in Calendar : t \in day_grid(d)
<1> DEFINE T == {d \in Calendar : t < local_midnight_utc(d + 1)}
<1>1. LastDay \in T /\ T \subseteq Nat
  BY CalendarAssumption DEF Calendar
<1>2. PICK d \in T : \A e \in T : d <= e
  <2>1. \E d \in T : \A e \in T : d <= e
    BY <1>1, LeastExists
  <2>. QED
    BY <2>1
<1>3. d \in Calendar /\ t < local_midnight_utc(d + 1)
  BY <1>2
<1>4. d \in 1..(LastDay + 1) /\ d + 1 \in 1..(LastDay + 1)
  BY <1>3, CalendarAssumption DEF Calendar
<1>5. CASE d = 1
  BY <1>3, <1>4, <1>5, MidnightsFollow, CalendarAssumption DEF day_grid, local_midnight_utc
<1>6. CASE d # 1
  <2>1. d - 1 \in Calendar /\ (d - 1) + 1 = d
    BY <1>3, <1>6, CalendarAssumption DEF Calendar
  <2>2. d - 1 \notin T
    <3>1. d - 1 \in T => d <= d - 1
      BY <1>2
    <3>. QED
      BY <1>4, <3>1
  <2>3. ~(t < local_midnight_utc(d))
    BY <2>1, <2>2
  <2>. QED
    BY <1>3, <1>4, <2>3, MidnightsFollow DEF day_grid
<1>. QED
  BY <1>5, <1>6

LEMMA DaysDoNotOverlap ==
  ASSUME NEW d \in Calendar, NEW e \in Calendar, NEW t \in day_grid(d), t \in day_grid(e)
  PROVE  d = e
<1>1. \A a, b \in Calendar : a < b => ~ (t \in day_grid(a) /\ t \in day_grid(b))
  <2>1. SUFFICES ASSUME NEW a \in Calendar, NEW b \in Calendar, a < b,
                        t \in day_grid(a), t \in day_grid(b)
                 PROVE  FALSE
    OBVIOUS
  <2>2. /\ b \in 1..(LastDay + 1) /\ a + 1 \in 1..(LastDay + 1)
        /\ a \in 1..(LastDay + 1) /\ b + 1 \in 1..(LastDay + 1)
    BY CalendarAssumption DEF Calendar
  <2>3. local_midnight_utc(a + 1) <= local_midnight_utc(b)
    BY <2>1, <2>2, DaysAreInOrder
  <2>. QED
    BY <2>1, <2>2, <2>3, MidnightsFollow DEF day_grid
<1>. QED
  BY <1>1, CalendarAssumption DEF Calendar

\* What a remainder is.
LEMMA Remainders ==
  ASSUME NEW a \in Int, NEW n \in Nat \ {0}
  PROVE  a % n \in 0..(n - 1)
  OBVIOUS

LEMMA DecisionTimesTyped ==
  ASSUME NEW d \in Calendar \ {1}, NEW h \in Horizons
  PROVE  as_of_for_horizon(d, h) \in Int
<1> DEFINE e == IF Offset[h] > 0 THEN d - 1 ELSE d
           wall == (-Offset[h]) % NormalLength
<1>1. Offset[h] \in Int /\ NormalLength \in Nat \ {0}
  BY OffsetAssumption, CalendarAssumption
<1>2. wall \in Int
  <2>1. -Offset[h] \in Int
    BY <1>1
  <2>. QED
    BY <1>1, <2>1, Remainders
<1>3. e \in Calendar /\ e \in 1..(LastDay + 1) /\ e + 1 \in 1..(LastDay + 1)
  BY <1>1, CalendarAssumption DEF Calendar
<1> HIDE DEF e, wall
<1>4. Change(e) \in Int
  BY <1>1, <1>3, MidnightsFollow DEF Change, periods_in_day
<1>5. rome_wall_to_utc(e, wall, 0) \in Int
  BY <1>2, <1>3, <1>4, MidnightsFollow DEF rome_wall_to_utc
<1>. QED
  BY <1>5 DEF as_of_for_horizon, e, wall

\* On a day of any length the wall clock with its fold tells the instant.
LEMMA WallClocksAreReadBack ==
  ASSUME NEW d \in Calendar, NEW t \in day_grid(d)
  PROVE  /\ utc_to_rome(t).day = d
         /\ rome_wall_to_utc(d, utc_to_rome(t).wall, utc_to_rome(t).fold) = t
<1>1. /\ local_midnight_utc(d) \in Nat /\ local_midnight_utc(d + 1) \in Nat
      /\ periods_in_day(d) \in (NormalLength - 1)..(NormalLength + 1)
  <2>1. d \in 1..(LastDay + 1) /\ d + 1 \in 1..(LastDay + 1)
    BY CalendarAssumption DEF Calendar
  <2>2. Midnights[d + 1] - Midnights[d] \in (NormalLength - 1)..(NormalLength + 1)
    BY CalendarAssumption
  <2>. QED
    BY <2>1, <2>2, MidnightsFollow DEF periods_in_day, local_midnight_utc
<1> DEFINE elapsed == t - local_midnight_utc(d)
           after == IF Change(d) = 1 THEN elapsed > ShiftTick ELSE elapsed >= ShiftTick
<1>2. DayOf(t) = d
  BY DaysDoNotOverlap DEF DayOf
<1>3. utc_to_rome(t) =
        [day |-> d, wall |-> IF after THEN elapsed - Change(d) ELSE elapsed,
         fold |-> IF Change(d) = 1 /\ elapsed = ShiftTick + 1 THEN 1 ELSE 0]
  BY <1>2, Zenon DEF utc_to_rome
<1>4. /\ Change(d) \in {-1, 0, 1} /\ elapsed \in Nat /\ t \in Int
      /\ local_midnight_utc(d) + elapsed = t /\ ShiftTick \in Nat
  BY <1>1, CalendarAssumption DEF Change, day_grid
<1> HIDE DEF elapsed
<1>. QED
  BY <1>1, <1>3, <1>4 DEF rome_wall_to_utc

---------------------------------------------------------------------------
(* Types *)

\* What the source published is finite, about days, and about days that were over.
Sourced ==
  /\ IsFiniteSet(published)
  /\ \A r \in published : local_midnight_utc(r.key + 1) <= r.pub

\* Where the backtest can be.
Placed ==
  /\ test_start >= FirstTestDay
  /\ phase = "idle" => recs = {} /\ skipped = {} /\ run = "model" /\ test_start = FirstTestDay
  /\ phase = "test" => test_start <= end /\ day \in test_start..Fold.test_end
  /\ phase # "test" \/ run = "naive" => model = NoModel
  /\ test_start = FirstTestDay \/ test_start <= end + 1

TypedInv == TypeOK /\ Sourced /\ Placed

LEMMA LandedIsFinite == TypedInv => IsFiniteSet(landed) /\ Cardinality(landed) \in Nat
  BY FS_Subset, FS_CardinalityType DEF TypedInv, TypeOK, Sourced

LEMMA AssembleTyped ==
  ASSUME TypedInv, NEW d \in Calendar \ {1}
  PROVE  /\ assemble(d).day = d /\ assemble(d).asOf = as_of_for_horizon(d, horizon)
         /\ assemble(d).asOf \in Int /\ assemble(d).size \in Nat
<1>1. as_of_for_horizon(d, horizon) \in Int
  BY DecisionTimesTyped DEF TypedInv, TypeOK
<1>. QED
  BY <1>1, LandedIsFinite DEF assemble

\* The windows of a fold lie in the calendar.
LEMMA FoldTyped ==
  ASSUME TypedInv, test_start <= end
  PROVE  /\ Fold.test_start = test_start /\ Fold.train_end = test_start - 1
         /\ Fold.test_end \in test_start..end
         /\ test_start \in Calendar \ {1} /\ Fold.test_end \in Calendar \ {1}
         /\ next_start(Fold.test_end) = Fold.test_end + 1
<1>1. test_start \in Nat /\ end \in 1..LastDay /\ test_start >= 2
  BY BacktestAssumption DEF TypedInv, TypeOK, Placed, FirstTestDay, Calendar
<1>2. Fold.test_end \in test_start..end
  BY <1>1, BacktestAssumption DEF Fold, Smaller
<1>3. Fold.test_start = test_start /\ Fold.train_end = test_start - 1
  BY DEF Fold, train_end
<1>4. \A d \in test_start..end : d \in Calendar \ {1}
  BY <1>1, CalendarAssumption DEF Calendar
<1>5. test_start \in test_start..end
  BY <1>1
<1>. QED
  BY <1>2, <1>3, <1>4, <1>5 DEF next_start

LEMMA InitTyped == Init => TypedInv
<1> SUFFICES ASSUME Init PROVE TypedInv
  OBVIOUS
<1>1. local_midnight_utc(LastDay + 1) \in Nat /\ 1 \in Calendar /\ FirstTestDay \in Nat
  BY MidnightsFollow, CalendarAssumption, BacktestAssumption DEF Calendar, FirstTestDay
<1>2. TypeOK
  BY <1>1 DEF Init, TypeOK, Decisions, Runs, NoModel
<1>3. Sourced
  BY FS_EmptySet DEF Init, Sourced
<1>4. Placed
  BY <1>1 DEF Init, Placed
<1>. QED
  BY <1>2, <1>3, <1>4 DEF TypedInv

LEMMA WorldTyped == TypedInv /\ World => TypedInv'
<1> SUFFICES ASSUME TypedInv, World PROVE TypedInv'
  OBVIOUS
<1> USE DEF TypedInv
<1>1. UNCHANGED <<horizon, live, backtest>> /\ landed \subseteq landed'
  BY DEF World, Tick, Publish, Land
<1>2. Placed'
  BY <1>1 DEF Placed, backtest, Fold
<1>3. CASE Tick
  <2>1. now' \in 0..local_midnight_utc(LastDay + 1)
    <3>1. LastDay + 1 \in 1..(LastDay + 1)
      BY CalendarAssumption
    <3>. QED
      BY <1>3, <3>1, MidnightsFollow DEF Tick, TypeOK
  <2>2. UNCHANGED <<published, landed>>
    BY <1>3 DEF Tick
  <2>. QED
    BY <1>1, <1>2, <2>1, <2>2 DEF TypeOK, Sourced, backtest, Decisions
<1>4. ASSUME NEW d \in Calendar, Publish(d) PROVE TypedInv'
  <2>1. now \in Nat /\ UNCHANGED <<now, landed>>
        /\ published' = published \cup {[key |-> d, pub |-> now]}
    <3>1. LastDay + 1 \in 1..(LastDay + 1)
      BY CalendarAssumption
    <3>. QED
      BY <1>4, <3>1, MidnightsFollow DEF TypeOK, Publish
  <2>2. published' \subseteq Row
    BY <2>1 DEF TypeOK, Row
  <2>3. IsFiniteSet(published')
    BY <2>1, FS_AddElement DEF Sourced
  <2>4. Sourced'
    BY <1>4, <2>1, <2>3 DEF Sourced, Publish
  <2>. QED
    BY <1>1, <1>2, <2>1, <2>2, <2>4 DEF TypeOK, backtest, Decisions
<1>5. ASSUME NEW r \in published, Land(r) PROVE TypedInv'
  <2>1. UNCHANGED <<now, published>> /\ landed' = landed \cup {r}
    BY <1>5 DEF Land
  <2>. QED
    BY <1>1, <1>2, <2>1 DEF TypeOK, Sourced, backtest, Decisions
<1>. QED
  BY <1>3, <1>4, <1>5 DEF World

LEMMA ForecastTyped ==
  ASSUME TypedInv, NEW d \in Calendar \ {1}, Forecast(d)
  PROVE  TypedInv'
<1> USE DEF TypedInv
<1>1. live' = live \cup {assemble(d)} /\ UNCHANGED <<world, horizon, backtest>>
  BY DEF Forecast
<1>2. \A x \in live' : x.day \in Calendar /\ x.asOf \in Int /\ x.size \in Nat
  BY <1>1, AssembleTyped DEF TypeOK, Decisions
<1>3. Placed' /\ Sourced'
  BY <1>1 DEF Placed, Sourced, backtest, world, Fold
<1>. QED
  BY <1>1, <1>2, <1>3 DEF TypeOK, backtest, world, Decisions

\* The labels of a fold are rows of the landing zone.
LEMMA LabelsLanded == \A last : Labels(last) \subseteq landed
  BY DEF Labels, latest_view, Latest

LEMMA BacktestTyped == TypedInv /\ Backtest => TypedInv'
<1> SUFFICES ASSUME TypedInv, Backtest PROVE TypedInv'
  OBVIOUS
<1> USE DEF TypedInv
<1>0. UNCHANGED <<world, horizon, live>>
  BY DEF Backtest, StartBacktest, Train, SkipFold, EnterFold, DecideDay, FinishModelRun,
         FinishNaiveRun
<1>a. Sourced' /\ FirstTestDay \in Nat /\ test_start \in Nat /\ end \in Nat
  <2>1. Sourced'
    BY <1>0 DEF Sourced, world
  <2>2. FirstTestDay \in Nat
    BY BacktestAssumption DEF FirstTestDay
  <2>3. test_start \in Nat /\ end \in Nat
    BY CalendarAssumption DEF TypeOK, Calendar
  <2>. QED
    BY <2>1, <2>2, <2>3
<1> USE DEF world
<1>1. ASSUME NEW last \in Past, StartBacktest(last) PROVE TypedInv'
  <2>1. TypeOK'
    BY <1>0, <1>1 DEF StartBacktest, TypeOK, Decisions, Past
  <2>2. Placed'
    BY <1>1 DEF StartBacktest, Placed
  <2>. QED
    BY <1>a, <2>1, <2>2
<1>2. CASE Train \/ EnterFold
  <2>1. test_start <= end /\ UNCHANGED <<end, run, test_start, recs, skipped, scored>>
    BY <1>2 DEF Train, EnterFold, InFold
  <2>2. phase' = "test" /\ day' = test_start
    BY <1>2 DEF Train, EnterFold, GoTest
  <2>3. \/ run = "model" /\ \E last : model'.labels = Labels(last)
        \/ run = "naive" /\ model' = model
    BY <1>2 DEF Train, EnterFold
  <2>4. model'.labels \subseteq landed'
    BY <1>0, <2>3, LabelsLanded DEF TypeOK
  <2>5. TypeOK'
    BY <1>0, <2>1, <2>2, <2>4, FoldTyped DEF TypeOK, Decisions
  <2>6. Placed'
    BY <1>a, <2>1, <2>2, <2>3, FoldTyped DEF Placed, Fold
  <2>. QED
    BY <1>a, <2>5, <2>6
<1>3. CASE SkipFold
  <2>1. /\ test_start <= end /\ run = "model" /\ phase = "fold"
        /\ test_start' = next_start(Fold.test_end) /\ skipped' = skipped \cup {Fold}
        /\ UNCHANGED <<end, run, phase, day, model, recs, scored>>
    BY <1>3 DEF SkipFold, InFold
  <2>2. TypeOK'
    BY <1>0, <1>a, <2>1, FoldTyped DEF TypeOK, Decisions
  <2>3. Placed'
    BY <1>a, <2>1, FoldTyped DEF Placed
  <2>. QED
    BY <1>a, <2>2, <2>3
<1>4. CASE DecideDay
  <2>1. /\ test_start <= end /\ day \in test_start..Fold.test_end /\ phase = "test"
        /\ UNCHANGED <<end, run, skipped, scored>>
    BY <1>4 DEF DecideDay, Placed
  <2>2. day \in Calendar \ {1} /\ day \in Nat /\ Fold.test_end \in Nat
    <3>1. Fold.test_end \in Calendar /\ day \in Calendar /\ day >= test_start
      BY <1>a, <2>1, FoldTyped DEF TypeOK, Calendar
    <3>2. test_start >= 2
      BY <2>1, FoldTyped DEF Calendar
    <3>. QED
      BY <1>a, <3>1, <3>2 DEF Calendar
  <2>3. \A x \in recs' : x.row.day \in Calendar /\ x.row.asOf \in Int /\ x.row.size \in Nat
    BY <1>4, <2>2, AssembleTyped DEF DecideDay, TypeOK, Decisions
  <2>4. CASE day < Fold.test_end
    <3>1. day' = day + 1 /\ UNCHANGED <<phase, test_start, model>>
      BY <1>4, <2>4 DEF DecideDay
    <3>2. day' \in Calendar
      <4>1. Fold.test_end \in Calendar
        BY <2>1, FoldTyped
      <4>2. \A e \in Calendar : day < e => day + 1 \in Calendar
        BY <2>2, CalendarAssumption DEF Calendar
      <4>. QED
        BY <2>4, <3>1, <4>1, <4>2
    <3>3. TypeOK'
      BY <1>0, <2>1, <2>3, <3>1, <3>2 DEF TypeOK, Decisions
    <3>4. Placed'
      BY <1>a, <2>1, <2>2, <2>4, <3>1, FoldTyped DEF Placed, Fold, Calendar
    <3>. QED
      BY <1>a, <3>3, <3>4
  <2>5. CASE ~ (day < Fold.test_end)
    <3>1. /\ phase' = "fold" /\ test_start' = next_start(Fold.test_end)
          /\ model' = NoModel /\ UNCHANGED day
      BY <1>4, <2>5 DEF DecideDay
    <3>2. TypeOK'
      BY <1>0, <1>a, <2>1, <2>3, <3>1, FoldTyped DEF TypeOK, Decisions, NoModel
    <3>3. Placed'
      BY <1>a, <2>1, <3>1, FoldTyped DEF Placed
    <3>. QED
      BY <1>a, <3>2, <3>3
  <2>. QED
    BY <2>4, <2>5
<1>5. CASE FinishModelRun \/ FinishNaiveRun
  <2>1. /\ phase = "fold" /\ phase' \in {"fold", "failed", "done"}
        /\ UNCHANGED <<end, day, model, recs, skipped>>
        /\ test_start' \in {test_start, FirstTestDay} /\ run' \in Runs
    BY <1>5 DEF FinishModelRun, FinishNaiveRun, NoFoldLeft, TypeOK, Runs
  <2>2. scored' \in [Runs -> SUBSET Calendar]
    <3>1. DecidedIn(run) \subseteq Calendar
      BY DEF DecidedIn, TypeOK, Decisions
    <3>2. Score \/ scored' = scored
      BY <1>5 DEF FinishModelRun, FinishNaiveRun
    <3>. QED
      BY <3>1, <3>2 DEF Score, TypeOK
  <2>3. TypeOK'
    BY <1>0, <1>a, <2>1, <2>2 DEF TypeOK, Decisions
  <2>4. Placed'
    BY <1>a, <2>1 DEF Placed
  <2>. QED
    BY <1>a, <2>3, <2>4
<1>. QED
  BY <1>1, <1>2, <1>3, <1>4, <1>5 DEF Backtest

LEMMA NextTyped == TypedInv /\ [Next]_vars => TypedInv'
<1> SUFFICES ASSUME TypedInv, [Next]_vars PROVE TypedInv'
  OBVIOUS
<1>1. CASE UNCHANGED vars
  BY <1>1 DEF vars, world, backtest, TypedInv, TypeOK, Sourced, Placed, Decisions, Fold
<1>. QED
  BY <1>1, WorldTyped, ForecastTyped, BacktestTyped DEF Next

\* Every variable keeps its type in every behaviour.
THEOREM WalkForwardTyped == Spec => []TypeOK
<1>1. Init => TypedInv
  BY InitTyped
<1>2. TypedInv /\ [Next]_vars => TypedInv'
  BY NextTyped
<1>3. TypedInv => TypeOK
  BY DEF TypedInv
<1>. QED
  BY <1>1, <1>2, <1>3, PTL DEF Spec

\* At every instant the period index and the wall clock with its fold tell the instant
\* again, whatever the lengths of the days.
THEOREM TimeBaseIsConsistent == Spec => []PeriodsAndInstantsCorrespond
<1>1. TypeOK => PeriodsAndInstantsCorrespond
  <2> SUFFICES ASSUME TypeOK, now < local_midnight_utc(LastDay + 1)
               PROVE  PeriodsAndInstantsCorrespond
    BY DEF PeriodsAndInstantsCorrespond
  <2>1. now \in Nat
    <3>1. local_midnight_utc(LastDay + 1) \in Nat
      BY MidnightsFollow, CalendarAssumption
    <3>. QED
      BY <3>1 DEF TypeOK
  <2>2. PICK d \in Calendar : now \in day_grid(d)
    BY <2>1, DaysCover
  <2>3. /\ utc_to_rome(now).day = d
        /\ rome_wall_to_utc(d, utc_to_rome(now).wall, utc_to_rome(now).fold) = now
    BY <2>2, WallClocksAreReadBack
  <2>4. local_midnight_utc(d) \in Nat /\ local_midnight_utc(d + 1) \in Nat
    BY MidnightsFollow, CalendarAssumption DEF Calendar
  <2> DEFINE index == now - local_midnight_utc(d) + 1
  <2>5. index \in 1..periods_in_day(d) /\ period_start_utc(d, index) = now
    BY <2>1, <2>2, <2>4 DEF day_grid, periods_in_day, period_start_utc
  <2>. QED
    BY <2>2, <2>3, <2>5 DEF PeriodsAndInstantsCorrespond
<1>. QED
  BY <1>1, WalkForwardTyped, PTL

---------------------------------------------------------------------------
(* What decisions see *)

\* Of the rows of a view, some are about its last day.
LEMMA LastDayOfView ==
  ASSUME NEW view, view # {}, \A r \in view : r.key \in Calendar
  PROVE  \E r \in view : \A s \in view : s.key <= r.key
<1> DEFINE T == {LastDay - r.key : r \in view}
<1>0. LastDay \in Nat /\ \A r \in view : r.key \in 1..LastDay
  BY CalendarAssumption DEF Calendar
<1>1. T \subseteq Nat /\ T # {}
  <2>1. \A r \in view : LastDay - r.key \in Nat
    BY <1>0
  <2>. QED
    BY <2>1
<1>2. PICK n \in T : \A m \in T : n <= m
  BY <1>1, LeastExists
<1>3. PICK r \in view : n = LastDay - r.key
  BY <1>2
<1>4. \A s \in view : LastDay - r.key <= LastDay - s.key
  BY <1>2, <1>3
<1>5. \A s \in view : s.key <= r.key
  BY <1>0, <1>3, <1>4
<1>. QED
  BY <1>5

\* Rows about days that were over when they were published.
Honest(view) ==
  \A r \in view : r.key \in Calendar /\ r.pub \in Nat /\ local_midnight_utc(r.key + 1) <= r.pub

LEMMA EndOfDay ==
  ASSUME NEW d \in Calendar
  PROVE  /\ d \in 1..(LastDay + 1) /\ d + 1 \in 1..(LastDay + 1)
         /\ local_midnight_utc(d) \in Nat /\ local_midnight_utc(d + 1) \in Nat
         /\ local_midnight_utc(d) < local_midnight_utc(d + 1)
<1>1. d \in 1..(LastDay + 1) /\ d + 1 \in 1..(LastDay + 1) /\ d < d + 1
  BY CalendarAssumption DEF Calendar
<1>. QED
  BY <1>1, MidnightsFollow

\* The last period of the last day of a view is the last period of the view.
LEMMA LastEndsTheView ==
  ASSUME NEW view, view # {}, Honest(view)
  PROVE  \E t \in UNION {day_grid(r.key) : r \in view} :
           \A r \in view : t >= local_midnight_utc(r.key + 1) - 1
<1>1. PICK r \in view : \A s \in view : s.key <= r.key
  BY LastDayOfView DEF Honest
<1>2. local_midnight_utc(r.key + 1) - 1 \in UNION {day_grid(s.key) : s \in view}
  BY <1>1, EndOfDay DEF Honest, day_grid
<1>3. ASSUME NEW s \in view
      PROVE  local_midnight_utc(r.key + 1) - 1 >= local_midnight_utc(s.key + 1) - 1
  <2>1. s.key \in Calendar /\ r.key \in Calendar /\ s.key <= r.key
    BY <1>1 DEF Honest
  <2>2. s.key + 1 = r.key + 1 \/ s.key + 1 < r.key + 1
    BY <2>1 DEF Calendar
  <2>3. local_midnight_utc(r.key + 1) >= local_midnight_utc(s.key + 1)
    BY <2>1, <2>2, EndOfDay, MidnightsFollow
  <2>. QED
    BY <2>1, <2>3, EndOfDay
<1>. QED
  BY <1>2, <1>3

LEMMA LastObservedIsLast ==
  ASSUME NEW view, view # {}, Honest(view)
  PROVE  /\ LastObserved(view) \in Int
         /\ \E r \in view : LastObserved(view) \in day_grid(r.key)
         /\ \A r \in view : LastObserved(view) >= local_midnight_utc(r.key + 1) - 1
<1> DEFINE Good(t) == \A r \in view : t >= local_midnight_utc(r.key + 1) - 1
           seen == UNION {day_grid(r.key) : r \in view}
<1>1. \E t \in seen : Good(t)
  BY LastEndsTheView
<1>2. LastObserved(view) = CHOOSE t \in seen : Good(t)
  BY DEF LastObserved
<1> HIDE DEF seen, Good
<1>3. LastObserved(view) \in seen /\ Good(LastObserved(view))
  BY <1>1, <1>2
<1>4. PICK r \in view : LastObserved(view) \in day_grid(r.key)
  BY <1>3 DEF seen
<1>. QED
  BY <1>3, <1>4, EndOfDay DEF Good, Honest, day_grid

LEMMA ObservedIsFromView ==
  ASSUME NEW view, NEW t, Observed(view, t) # Nothing
  PROVE  \E r \in view : t \in day_grid(r.key) /\ Observed(view, t) = r.pub
<1>1. \E r \in view : t \in day_grid(r.key)
  BY DEF Observed
<1>2. (CHOOSE r \in view : t \in day_grid(r.key)) \in {r \in view : t \in day_grid(r.key)}
  BY <1>1
<1>. QED
  BY <1>1, <1>2 DEF Observed

\* What a decision sees was published before it, of periods that were over.
SeesPast(x) ==
  /\ \A pub \in Seen(x) \ {Nothing} : pub < x.asOf
  /\ x.seen.last # Nothing => x.seen.staleness > 0
  /\ \A t \in day_grid(x.day), l \in LagDays :
       x.seen.lags[t][l] # Nothing => t - l * NormalLength < x.asOf

LEMMA AssembleSeesPast ==
  ASSUME TypedInv, NEW d \in Calendar \ {1}
  PROVE  SeesPast(assemble(d))
<1> DEFINE x == assemble(d)
           asOf == as_of_for_horizon(d, horizon)
           view == as_of_view(landed, asOf)
           lag(t, l) == Observed(view, t - l * NormalLength)
<1>1. asOf \in Int
  BY DecisionTimesTyped DEF TypedInv, TypeOK
<1>2. view \subseteq published /\ \A r \in view : r.pub < asOf
  BY DEF as_of_view, Visible, Latest, TypedInv, TypeOK
<1>3. Honest(view)
  BY <1>2 DEF TypedInv, TypeOK, Sourced, Row, Honest
<1>4. /\ x.day = d /\ x.asOf = asOf
      /\ \A t \in day_grid(d), l \in LagDays : x.seen.lags[t][l] = lag(t, l)
      /\ x.seen.last = IF view = {} THEN Nothing ELSE Observed(view, LastObserved(view))
      /\ x.seen.staleness = IF view = {} THEN Nothing ELSE asOf - LastObserved(view)
  BY DEF assemble, lag_features, assemble_targets
<1> HIDE DEF x, view, asOf
<1>5. \A t : Observed(view, t) # Nothing => Observed(view, t) < asOf /\ t < asOf
  <2>1. SUFFICES ASSUME NEW t, Observed(view, t) # Nothing
                 PROVE  Observed(view, t) < asOf /\ t < asOf
    OBVIOUS
  <2>2. PICK r \in view : t \in day_grid(r.key) /\ Observed(view, t) = r.pub
    BY <2>1, ObservedIsFromView
  <2>3. t < local_midnight_utc(r.key + 1) /\ t \in Int
    BY <1>3, <2>2, EndOfDay DEF Honest, day_grid
  <2>. QED
    BY <1>1, <1>2, <1>3, <2>2, <2>3, EndOfDay DEF Honest
<1>6. x.seen.last # Nothing => x.seen.staleness > 0
  <2>1. SUFFICES ASSUME x.seen.last # Nothing PROVE x.seen.staleness > 0
    OBVIOUS
  <2>2. view # {}
    BY <1>4, <2>1
  <2>3. PICK r \in view : LastObserved(view) \in day_grid(r.key)
    BY <1>3, <2>2, LastObservedIsLast
  <2>4. LastObserved(view) < asOf /\ LastObserved(view) \in Int
    BY <1>1, <1>2, <1>3, <2>3, EndOfDay DEF Honest, day_grid
  <2>. QED
    BY <1>1, <1>4, <2>2, <2>4
<1>7. ASSUME NEW pub \in Seen(x) \ {Nothing} PROVE pub < x.asOf
  <2>1. pub = x.seen.last \/ \E t \in day_grid(d), l \in LagDays : pub = x.seen.lags[t][l]
    BY <1>4, <1>7 DEF Seen
  <2>2. CASE pub = x.seen.last
    BY <1>4, <1>5, <1>7, <2>2
  <2>3. CASE \E t \in day_grid(d), l \in LagDays : pub = lag(t, l)
    BY <1>4, <1>5, <1>7, <2>3
  <2>. QED
    BY <1>4, <2>1, <2>2, <2>3
<1>8. ASSUME NEW t \in day_grid(x.day), NEW l \in LagDays, x.seen.lags[t][l] # Nothing
      PROVE  t - l * NormalLength < x.asOf
  BY <1>4, <1>5, <1>8
<1>9. SeesPast(x)
  BY <1>6, <1>7, <1>8 DEF SeesPast
<1>. QED
  BY <1>9 DEF x

\* A step makes at most one decision, of the present.
LEMMA NewDecisions ==
  ASSUME TypedInv, [Next]_vars
  PROVE  \/ Decisions' = Decisions
         \/ /\ \E d \in Calendar \ {1} : Decisions' = Decisions \cup {assemble(d)}
            /\ UNCHANGED world
<1>1. CASE World
  BY <1>1 DEF World, Tick, Publish, Land, backtest, Decisions
<1>2. ASSUME NEW d \in Calendar \ {1}, Forecast(d)
      PROVE  Decisions' = Decisions \cup {assemble(d)} /\ UNCHANGED world
  BY <1>2 DEF Forecast, backtest, Decisions
<1>3. CASE DecideDay
  <2>1. day \in Calendar \ {1}
    <3>1. day \in Calendar /\ day >= test_start /\ test_start >= 2 /\ test_start \in Nat
      BY <1>3, BacktestAssumption
         DEF DecideDay, TypedInv, TypeOK, Placed, FirstTestDay
    <3>. QED
      BY <3>1 DEF Calendar
  <2>2. Decisions' = Decisions \cup {assemble(day)} /\ UNCHANGED world
    <3> DEFINE new == [run |-> run, fold |-> test_start, row |-> assemble(day)]
    <3>1. recs' = recs \cup {new} /\ live' = live /\ UNCHANGED world
      BY <1>3 DEF DecideDay
    <3>2. new.row = assemble(day)
      OBVIOUS
    <3> HIDE DEF new
    <3>. QED
      BY <3>1, <3>2 DEF Decisions
  <2>. QED
    BY <2>1, <2>2
<1>4. CASE Backtest /\ ~DecideDay
  BY <1>4 DEF Backtest, StartBacktest, Train, SkipFold, EnterFold, FinishModelRun,
              FinishNaiveRun, Decisions
<1>5. CASE UNCHANGED vars
  BY <1>5 DEF vars, backtest, Decisions
<1>. QED
  BY <1>1, <1>2, <1>3, <1>4, <1>5 DEF Next

LEMMA NextSeesPast ==
  TypedInv /\ DecisionsSeeOnlyThePast /\ [Next]_vars => DecisionsSeeOnlyThePast'
<1> SUFFICES ASSUME TypedInv, DecisionsSeeOnlyThePast, [Next]_vars
             PROVE  DecisionsSeeOnlyThePast'
  OBVIOUS
<1>1. \A x \in Decisions' : x \in Decisions \/ \E d \in Calendar \ {1} : x = assemble(d)
  BY NewDecisions
<1>2. \A x \in Decisions : SeesPast(x)
  BY DEF DecisionsSeeOnlyThePast, SeesPast
<1>3. \A x \in Decisions' : SeesPast(x)
  BY <1>1, <1>2, AssembleSeesPast
<1>. QED
  BY <1>3 DEF DecisionsSeeOnlyThePast, SeesPast, Seen

\* A forecast and a replayed decision see only outcomes that were published before the
\* decision time, of periods that were over.
THEOREM DecisionsAreBlindToTheFuture == Spec => []DecisionsSeeOnlyThePast
<1>1. Init => TypedInv /\ DecisionsSeeOnlyThePast
  BY InitTyped DEF Init, DecisionsSeeOnlyThePast, Decisions
<1>2. TypedInv /\ DecisionsSeeOnlyThePast /\ [Next]_vars =>
        TypedInv' /\ DecisionsSeeOnlyThePast'
  BY NextTyped, NextSeesPast
<1>. QED
  BY <1>1, <1>2, PTL DEF Spec

---------------------------------------------------------------------------
(* What models are trained on *)

\* Rows after the cut of a sorted frame are not older than those before it.
LEMMA SplitsAreOrdered ==
  ASSUME NEW rows, IsFiniteSet(rows), \A x \in rows : x[1] \in Int
  PROVE  /\ \A x \in time_split(rows).train, y \in time_split(rows).valid : x[1] <= y[1]
         /\ time_split(rows).train \subseteq rows /\ time_split(rows).valid \subseteq rows
<1> DEFINE n == Cardinality(rows) - (Cardinality(rows) * ValidPercent) \div 100
           Before(x) == {y \in rows : y[1] < x[1] \/ (y[1] = x[1] /\ y[2] < x[2])}
<1>1. n \in Int
  <2>1. Cardinality(rows) \in Nat /\ ValidPercent \in Nat
    BY FS_CardinalityType, BacktestAssumption
  <2>2. Cardinality(rows) * ValidPercent \in Int
    BY <2>1
  <2>3. (Cardinality(rows) * ValidPercent) \div 100 \in Int
    BY <2>2
  <2>. QED
    BY <2>1, <2>3
<1> HIDE DEF n
<1>2. /\ time_split(rows).train = {x \in rows : Rank(rows, x) < n}
      /\ time_split(rows).valid = rows \ time_split(rows).train
  BY DEF time_split, n
<1>3. ASSUME NEW x \in time_split(rows).train, NEW y \in time_split(rows).valid
      PROVE  x[1] <= y[1]
  <2>1. SUFFICES ASSUME y[1] < x[1] PROVE FALSE
    BY <1>2
  <2>2. x \in rows /\ y \in rows /\ Rank(rows, x) < n /\ ~ (Rank(rows, y) < n)
    BY <1>2
  <2>3. Before(y) \subseteq Before(x)
    BY <2>1, <2>2
  <2>4. IsFiniteSet(Before(x)) /\ IsFiniteSet(Before(y))
    BY FS_Subset
  <2>5. Cardinality(Before(y)) <= Cardinality(Before(x))
    BY <2>3, <2>4, FS_Subset
  <2>6. Cardinality(Before(x)) \in Nat /\ Cardinality(Before(y)) \in Nat
    BY <2>4, FS_CardinalityType
  <2>7. Rank(rows, x) = Cardinality(Before(x)) /\ Rank(rows, y) = Cardinality(Before(y))
    BY DEF Rank
  <2> HIDE DEF Before
  <2>. QED
    BY <1>1, <2>2, <2>5, <2>6, <2>7
<1>. QED
  BY <1>2, <1>3

\* The models of a fold know nothing of its test days, and were validated on rows not
\* older than those they were fitted on.
Trained ==
  /\ \A x \in model.train \cup model.valid :
       \E d \in Calendar : d < test_start /\ x[1] \in day_grid(d)
  /\ SplitIsChronological

LEMMA TrainTrains ==
  ASSUME TypedInv, Train
  PROVE  Trained'
<1> DEFINE labels == Labels(Fold.train_end)
           rows == LabelledRows(labels)
<1>1. test_start <= end /\ test_start' = test_start
  BY DEF Train, InFold
<1>2. Fold.train_end = test_start - 1 /\ test_start \in Nat
  BY <1>1, FoldTyped DEF TypedInv, TypeOK
<1>3. \A r \in labels : r.key \in Calendar /\ r.key < test_start
  BY <1>2 DEF Labels, latest_view, Latest, TypedInv, TypeOK, Row, Calendar
<1>4. model' = [labels |-> labels, train |-> time_split(rows).train,
                valid |-> time_split(rows).valid]
  BY DEF Train
<1> HIDE DEF labels
<1>5. \A x \in rows : \E r \in labels : x[1] \in day_grid(r.key) /\ x[2] \in Areas
                                        /\ x = <<x[1], x[2]>>
  BY DEF LabelledRows
<1> HIDE DEF rows
<1>6. IsFiniteSet(rows) /\ \A x \in rows : x[1] \in Int
  <2> DEFINE top == local_midnight_utc(LastDay + 1)
  <2>1. top \in Nat
    BY MidnightsFollow, CalendarAssumption
  <2>2. \A d \in Calendar : day_grid(d) \subseteq 0..top
    <3>1. SUFFICES ASSUME NEW d \in Calendar PROVE day_grid(d) \subseteq 0..top
      OBVIOUS
    <3>2. LastDay + 1 \in 1..(LastDay + 1) /\ (d + 1 = LastDay + 1 \/ d + 1 < LastDay + 1)
      BY CalendarAssumption DEF Calendar
    <3>3. local_midnight_utc(d + 1) <= top
      BY <2>1, <3>2, EndOfDay, MidnightsFollow
    <3> HIDE DEF top
    <3>. QED
      BY <2>1, <3>3, EndOfDay DEF day_grid
  <2> HIDE DEF top
  <2>3. rows \subseteq (0..top) \X Areas
    BY <1>3, <1>5, <2>2
  <2>4. IsFiniteSet(0..top)
    BY <2>1, FS_Interval
  <2>5. IsFiniteSet((0..top) \X Areas)
    BY <2>4, FS_Product, BacktestAssumption
  <2>6. IsFiniteSet(rows)
    BY <2>3, <2>5, FS_Subset
  <2>. QED
    BY <2>1, <2>3, <2>6
<1>7. /\ \A x \in model'.train, y \in model'.valid : x[1] <= y[1]
      /\ model'.train \subseteq rows /\ model'.valid \subseteq rows
  BY <1>4, <1>6, SplitsAreOrdered
<1>8. \A x \in model'.train \cup model'.valid :
        \E d \in Calendar : d < test_start /\ x[1] \in day_grid(d)
  BY <1>3, <1>5, <1>7
<1>. QED
  BY <1>1, <1>7, <1>8 DEF Trained, SplitIsChronological

LEMMA NothingTrained ==
  ASSUME model = NoModel
  PROVE  Trained
  BY DEF Trained, NoModel, SplitIsChronological

LEMMA NextTrained == TypedInv /\ Trained /\ [Next]_vars => Trained'
<1> SUFFICES ASSUME TypedInv, Trained, [Next]_vars PROVE Trained'
  OBVIOUS
<1>1. CASE Train
  BY <1>1, TrainTrains
<1>2. CASE model' = NoModel
  BY <1>2, NothingTrained DEF Trained, SplitIsChronological, NoModel
<1>3. CASE UNCHANGED <<model, test_start>>
  BY <1>3 DEF Trained, SplitIsChronological
<1>4. Train \/ model' = NoModel \/ UNCHANGED <<model, test_start>>
  <2>1. CASE World
    BY <2>1 DEF World, Tick, Publish, Land, backtest
  <2>2. ASSUME NEW d \in Calendar \ {1}, Forecast(d) PROVE UNCHANGED <<model, test_start>>
    BY <2>2 DEF Forecast, backtest
  <2>3. CASE Backtest
    BY <2>3 DEF Backtest, StartBacktest, SkipFold, EnterFold, DecideDay, FinishModelRun,
                FinishNaiveRun, NoFoldLeft, InFold, TypedInv, Placed
  <2>4. CASE UNCHANGED vars
    BY <2>4 DEF vars, backtest
  <2>. QED
    BY <2>1, <2>2, <2>3, <2>4 DEF Next
<1>. QED
  BY <1>1, <1>2, <1>3, <1>4

LEMMA TrainedInvariant == Spec => [](TypedInv /\ Trained)
<1>1. Init => TypedInv /\ Trained
  BY InitTyped, NothingTrained DEF Init
<1>2. TypedInv /\ Trained /\ [Next]_vars => TypedInv' /\ Trained'
  BY NextTyped, NextTrained
<1>. QED
  BY <1>1, <1>2, PTL DEF Spec

\* No model was fitted on a period of the window it is tested on.
THEOREM ModelsAreTrainedOnThePast == Spec => []ModelsTrainOnThePast
<1>1. TypedInv /\ Trained => ModelsTrainOnThePast
  <2> SUFFICES ASSUME TypedInv, Trained, phase = "test", NEW x \in model.train \cup model.valid
               PROVE  x[1] < local_midnight_utc(day)
    BY DEF ModelsTrainOnThePast
  <2>1. PICK d \in Calendar : d < test_start /\ x[1] \in day_grid(d)
    BY DEF Trained
  <2>2. day \in Calendar /\ d < day
    <3>1. day \in Calendar /\ day >= test_start /\ test_start \in Nat
      BY DEF TypedInv, TypeOK, Placed
    <3>. QED
      BY <2>1, <3>1 DEF Calendar
  <2>3. day \in 1..(LastDay + 1)
    BY <2>2, EndOfDay
  <2>4. local_midnight_utc(d + 1) <= local_midnight_utc(day)
    BY <2>2, <2>3, DaysAreInOrder
  <2>. QED
    BY <2>1, <2>2, <2>4, EndOfDay DEF day_grid
<1>. QED
  BY <1>1, TrainedInvariant, PTL

\* The rows a model is validated on are not older than those it was fitted on.
THEOREM ValidationFollowsTraining == Spec => []SplitIsChronological
<1>1. TypedInv /\ Trained => SplitIsChronological
  BY DEF Trained
<1>. QED
  BY <1>1, TrainedInvariant, PTL

---------------------------------------------------------------------------
(* Windows *)

\* The days a run has left behind, in the middle of a fold too.
Gone(r) ==
  IF r = run THEN FirstTestDay..((IF phase = "test" THEN day ELSE test_start) - 1)
  ELSE IF r = "model" THEN FirstTestDay..end ELSE {}

Decided(r, d) == {x \in recs : x.run = r /\ x.row.day = d}
Missed(r, d) == {f \in skipped : r = "model" /\ d \in TestDaysOf(f)}

\* A day is decided in one way, or not yet.
Once(r, d) ==
  /\ d \in Gone(r) => \/ (\E x : Decided(r, d) = {x}) /\ Missed(r, d) = {}
                      \/ Decided(r, d) = {} /\ \E f : Missed(r, d) = {f}
  /\ d \notin Gone(r) => Decided(r, d) = {} /\ Missed(r, d) = {}

Windows ==
  /\ \A r \in Runs : \A d \in Int : Once(r, d)
  /\ phase \in {"done", "failed"} => test_start > end
  /\ phase = "done" => run = "naive"

WindowInv == TypedInv /\ Windows

LEMMA InitWindows == Init => WindowInv
<1> SUFFICES ASSUME Init PROVE WindowInv
  OBVIOUS
<1>1. \A r \in Runs : \A d \in Int : Decided(r, d) = {} /\ Missed(r, d) = {}
  BY DEF Init, Decided, Missed
<1>2. \A r \in Runs : Gone(r) = {}
  BY BacktestAssumption DEF Init, Gone, FirstTestDay
<1>. QED
  BY <1>1, <1>2, InitTyped DEF WindowInv, Windows, Once, Init

\* Steps that decide nothing and leave nothing behind.
LEMMA WindowsStay ==
  ASSUME Windows, UNCHANGED <<recs, skipped>>, \A r \in Runs : Gone(r)' = Gone(r),
         phase' \in {"done", "failed"} => test_start' > end',
         phase' = "done" => run' = "naive"
  PROVE  Windows'
<1>1. ASSUME NEW r \in Runs, NEW d \in Int PROVE Once(r, d)'
  <2>1. Once(r, d)
    BY DEF Windows
  <2>2. Decided(r, d)' = Decided(r, d) /\ Missed(r, d)' = Missed(r, d)
    BY DEF Decided, Missed, TestDaysOf
  <2>. QED
    BY <2>1, <2>2 DEF Once
<1>. QED
  BY <1>1 DEF Windows

LEMMA Bounds ==
  ASSUME TypedInv
  PROVE  /\ FirstTestDay \in Nat /\ test_start \in Nat /\ end \in Nat /\ day \in Nat
         /\ test_start >= FirstTestDay
         /\ test_start > end => FirstTestDay..(test_start - 1) = FirstTestDay..end
<1>1. FirstTestDay \in Nat /\ test_start \in Nat /\ end \in Nat /\ day \in Nat
  BY BacktestAssumption, CalendarAssumption DEF TypedInv, TypeOK, FirstTestDay, Calendar
<1>. QED
  BY <1>1 DEF TypedInv, Placed

LEMMA NextWindows == WindowInv /\ [Next]_vars => WindowInv'
<1> SUFFICES ASSUME WindowInv, [Next]_vars PROVE Windows'
  BY NextTyped DEF WindowInv
<1>. TypedInv /\ Windows
  BY DEF WindowInv
<1>1. CASE World \/ (\E d \in Calendar \ {1} : Forecast(d)) \/ UNCHANGED vars
  <2>1. UNCHANGED backtest
    BY <1>1 DEF World, Tick, Publish, Land, Forecast, vars
  <2>2. \A r \in Runs : Gone(r)' = Gone(r)
    BY <2>1 DEF backtest, Gone
  <2>. QED
    BY <2>1, <2>2, WindowsStay DEF backtest, Windows
<1>2. ASSUME NEW last \in Past, StartBacktest(last) PROVE Windows'
  <2>1. /\ run = "model" /\ phase = "idle" /\ phase' = "fold"
        /\ UNCHANGED <<recs, skipped, run, test_start, day>>
    BY <1>2 DEF StartBacktest, TypedInv, Placed
  <2>2. \A r \in Runs : Gone(r)' = Gone(r)
    BY <2>1 DEF Gone, Runs
  <2>. QED
    BY <2>1, <2>2, WindowsStay
<1>3. CASE Train \/ EnterFold
  <2>1. /\ phase = "fold" /\ phase' = "test" /\ day' = test_start
        /\ UNCHANGED <<recs, skipped, run, test_start, end>>
    BY <1>3 DEF Train, EnterFold, InFold, GoTest
  <2>2. \A r \in Runs : Gone(r)' = Gone(r)
    BY <2>1 DEF Gone
  <2>. QED
    BY <2>1, <2>2, WindowsStay
<1>4. CASE SkipFold
  <2>1. /\ run = "model" /\ phase = "fold" /\ test_start <= end
        /\ test_start' = Fold.test_end + 1 /\ skipped' = skipped \cup {Fold}
        /\ UNCHANGED <<recs, run, phase, end, day>>
    BY <1>4, FoldTyped DEF SkipFold, InFold
  <2>2. /\ TestDaysOf(Fold) = test_start..Fold.test_end
        /\ Fold.test_end \in Nat /\ test_start <= Fold.test_end
    <3>1. Fold.test_end \in test_start..end /\ Fold.test_start = test_start
      BY <2>1, FoldTyped
    <3>. QED
      BY <3>1, Bounds DEF TestDaysOf
  <2>3. ASSUME NEW d \in Int PROVE Once("model", d)'
    <3>1. Once("model", d) /\ Decided("model", d)' = Decided("model", d)
      BY <2>1 DEF Windows, Runs, Decided
    <3>2. CASE d \in TestDaysOf(Fold)
      <4>1. d \notin Gone("model") /\ d \in Gone("model")'
        BY <2>1, <2>2, <3>2, Bounds DEF Gone
      <4>2. Missed("model", d)' = {Fold}
        BY <2>1, <3>1, <3>2, <4>1 DEF Once, Missed, TestDaysOf
      <4>. QED
        BY <3>1, <4>1, <4>2 DEF Once
    <3>3. CASE d \notin TestDaysOf(Fold)
      <4>1. d \in Gone("model")' <=> d \in Gone("model")
        BY <2>1, <2>2, <3>3, Bounds DEF Gone
      <4>2. Missed("model", d)' = Missed("model", d)
        BY <2>1, <3>3 DEF Missed, TestDaysOf
      <4>. QED
        BY <3>1, <4>1, <4>2 DEF Once
    <3>. QED
      BY <3>2, <3>3
  <2>4. ASSUME NEW d \in Int PROVE Once("naive", d)'
    <3>1. Once("naive", d)
      BY DEF Windows, Runs
    <3>2. Gone("naive")' = Gone("naive") /\ Decided("naive", d)' = Decided("naive", d)
          /\ Missed("naive", d)' = {} /\ Missed("naive", d) = {}
      BY <2>1 DEF Gone, Decided, Missed
    <3>. QED
      BY <3>1, <3>2 DEF Once
  <2>. QED
    BY <2>1, <2>3, <2>4 DEF Windows, Runs
<1>5. CASE DecideDay
  <2> DEFINE new == [run |-> run, fold |-> test_start, row |-> assemble(day)]
  <2>1. /\ phase = "test" /\ test_start <= day /\ day <= Fold.test_end
        /\ test_start <= end /\ Fold.test_end \in Nat
        /\ recs' = recs \cup {new} /\ UNCHANGED <<skipped, run, end>>
        /\ phase' \in {"test", "fold"}
    <3>1. phase = "test" /\ test_start <= end /\ day \in test_start..Fold.test_end
      BY <1>5 DEF DecideDay, TypedInv, Placed
    <3>2. Fold.test_end \in Nat
      BY <3>1, FoldTyped, Bounds
    <3>3. phase' \in {"test", "fold"}
      BY <1>5, <3>1 DEF DecideDay
    <3>. QED
      BY <1>5, <3>1, <3>2, <3>3, Bounds DEF DecideDay
  <2>2. new.run = run /\ new.row.day = day
    BY DEF assemble
  <2> HIDE DEF new
  <2>3. (IF phase' = "test" THEN day' ELSE test_start') = day + 1
    BY <1>5, <2>1, FoldTyped, Bounds DEF DecideDay
  <2>4. Gone(run)' = FirstTestDay..day /\ Gone(run) = FirstTestDay..(day - 1)
    <3>1. CASE phase' = "test"
      BY <2>1, <2>3, <3>1, Bounds DEF Gone
    <3>2. CASE phase' # "test"
      BY <2>1, <2>3, <3>2, Bounds DEF Gone
    <3>. QED
      BY <3>1, <3>2
  <2>5. ASSUME NEW d \in Int PROVE Once(run, d)'
    <3>1. Once(run, d) /\ Missed(run, d)' = Missed(run, d)
      BY <2>1 DEF Windows, Missed, TypedInv, TypeOK
    <3>2. CASE d = day
      <4>1. d \notin Gone(run) /\ d \in Gone(run)'
        BY <2>1, <2>4, <3>2, Bounds
      <4>2. Decided(run, d)' = {new}
        BY <2>1, <2>2, <3>1, <3>2, <4>1 DEF Once, Decided
      <4>. QED
        BY <2>1, <3>1, <4>1, <4>2 DEF Once
    <3>3. CASE d # day
      <4>1. d \in Gone(run)' <=> d \in Gone(run)
        BY <2>4, <3>3, Bounds
      <4>2. Decided(run, d)' = Decided(run, d)
        BY <2>1, <2>2, <3>3 DEF Decided
      <4>. QED
        BY <2>1, <3>1, <4>1, <4>2 DEF Once
    <3>. QED
      BY <3>2, <3>3
  <2>6. ASSUME NEW r \in Runs, r # run, NEW d \in Int PROVE Once(r, d)'
    <3>1. Once(r, d)
      BY DEF Windows
    <3>2. /\ Gone(r)' = Gone(r) /\ Decided(r, d)' = Decided(r, d)
          /\ Missed(r, d)' = Missed(r, d)
      BY <2>1, <2>2, <2>6 DEF Gone, Decided, Missed
    <3>. QED
      BY <3>1, <3>2 DEF Once
  <2>7. \A r \in Runs : \A d \in Int : Once(r, d)'
    <3>1. SUFFICES ASSUME NEW r \in Runs, NEW d \in Int PROVE Once(r, d)'
      OBVIOUS
    <3>2. CASE r = run
      BY <2>1, <2>5, <3>2
    <3>. QED
      BY <2>6, <3>2
  <2>. QED
    BY <2>1, <2>7 DEF Windows
<1>6. CASE FinishModelRun
  <2>1. phase = "fold" /\ test_start > end /\ run = "model"
        /\ UNCHANGED <<recs, skipped, end>>
    BY <1>6 DEF FinishModelRun, NoFoldLeft
  <2>2. CASE phase' = "failed" /\ UNCHANGED <<run, test_start>>
    <3>1. \A r \in Runs : Gone(r)' = Gone(r)
      BY <2>1, <2>2 DEF Gone, Runs
    <3>. QED
      BY <2>1, <2>2, <3>1, WindowsStay
  <2>3. CASE phase' = "fold" /\ run' = "naive" /\ test_start' = FirstTestDay
    <3>1. FirstTestDay..(FirstTestDay - 1) = {}
      BY Bounds
    <3>2. Gone("model")' = Gone("model")
      BY <2>1, <2>3, Bounds DEF Gone
    <3>3. Gone("naive")' = Gone("naive")
      BY <2>1, <2>3, <3>1 DEF Gone
    <3>4. \A r \in Runs : Gone(r)' = Gone(r)
      BY <3>2, <3>3 DEF Runs
    <3>. QED
      BY <2>1, <2>3, <3>4, WindowsStay
  <2>. QED
    BY <1>6, <2>1, <2>2, <2>3 DEF FinishModelRun
<1>7. CASE FinishNaiveRun
  <2>1. /\ phase = "fold" /\ phase' = "done" /\ test_start > end /\ run = "naive"
        /\ UNCHANGED <<recs, skipped, end, run, test_start>>
    BY <1>7 DEF FinishNaiveRun, NoFoldLeft
  <2>2. \A r \in Runs : Gone(r)' = Gone(r)
    BY <2>1 DEF Gone
  <2>. QED
    BY <2>1, <2>2, WindowsStay
<1>. QED
  BY <1>1, <1>2, <1>3, <1>4, <1>5, <1>6, <1>7 DEF Next, Backtest

LEMMA WindowInvariant == Spec => []WindowInv
  BY InitWindows, NextWindows, PTL DEF Spec

\* The windows neither overlap nor leave a gap: each day a run has been through was
\* decided once, or belongs to one fold that was skipped.
THEOREM DaysAreDecidedOnce == Spec => []EveryDayIsDecidedOnce
<1>1. WindowInv => EveryDayIsDecidedOnce
  <2> SUFFICES ASSUME WindowInv, NEW r \in Runs
               PROVE  /\ \A d \in Passed(r) :
                           Cardinality(Decided(r, d)) + Cardinality(Missed(r, d)) = 1
                      /\ Finished(r) => FirstTestDay..end \subseteq Passed(r)
    BY DEF EveryDayIsDecidedOnce, Decided, Missed
  <2>. TypedInv /\ Windows
    BY DEF WindowInv
  <2>1. ASSUME NEW d \in Passed(r)
        PROVE  Cardinality(Decided(r, d)) + Cardinality(Missed(r, d)) = 1
    <3>1. d \in Int /\ d \in Gone(r)
      <4>1. phase = "test" => day >= test_start
        BY Bounds DEF TypedInv, Placed
      <4>. QED
        BY <2>1, <4>1, Bounds DEF Passed, Gone
    <3>2. Once(r, d)
      BY <3>1 DEF Windows
    <3>3. \A x : Cardinality({x}) = 1
      BY FS_Singleton
    <3>4. Cardinality({}) = 0
      BY FS_EmptySet
    <3>5. CASE (\E x : Decided(r, d) = {x}) /\ Missed(r, d) = {}
      <4>1. Cardinality(Decided(r, d)) = 1 /\ Cardinality(Missed(r, d)) = 0
        BY <3>3, <3>4, <3>5
      <4>. QED
        BY <4>1
    <3>6. CASE Decided(r, d) = {} /\ \E f : Missed(r, d) = {f}
      <4>1. Cardinality(Decided(r, d)) = 0 /\ Cardinality(Missed(r, d)) = 1
        BY <3>3, <3>4, <3>6
      <4>. QED
        BY <4>1
    <3>. QED
      BY <3>1, <3>2, <3>5, <3>6 DEF Once
  <2>2. ASSUME Finished(r) PROVE FirstTestDay..end \subseteq Passed(r)
    <3>1. CASE r = run
      <4>1. test_start > end
        BY <2>2, <3>1 DEF Finished, Windows
      <4>. QED
        BY <3>1, <4>1, Bounds DEF Passed
    <3>2. CASE r # run
      <4>1. r = "model"
        BY <2>2, <3>2 DEF Finished, Windows, Runs
      <4>. QED
        BY <3>2, <4>1 DEF Passed
    <3>. QED
      BY <3>1, <3>2
  <2>. QED
    BY <2>1, <2>2
<1>. QED
  BY <1>1, WindowInvariant, PTL

---------------------------------------------------------------------------
(* Replayed decisions *)

\* Of the vintages of a day that a decision time shows, one is the latest.
LEMMA LatestExists ==
  ASSUME NEW rows, Honest(rows), NEW asOf \in Int, NEW r \in Visible(rows, asOf)
  PROVE  \E s \in as_of_view(rows, asOf) : s.key = r.key /\ r.pub <= s.pub
<1> DEFINE same == {s \in Visible(rows, asOf) : s.key = r.key}
           T == {asOf - s.pub : s \in same}
<1>1. \A s \in same : s.pub \in Nat /\ s.pub < asOf
  BY DEF Honest, Visible
<1>2. T \subseteq Nat /\ T # {}
  <2>1. \A s \in same : asOf - s.pub \in Nat
    BY <1>1
  <2>2. r \in same
    OBVIOUS
  <2> HIDE DEF same
  <2>. QED
    BY <2>1, <2>2
<1>3. PICK n \in T : \A m \in T : n <= m
  BY <1>2, LeastExists
<1>4. PICK s \in same : n = asOf - s.pub
  BY <1>3
<1>5. \A q \in same : asOf - s.pub <= asOf - q.pub
  BY <1>3, <1>4
<1>6. \A q \in same : q.pub <= s.pub
  BY <1>1, <1>4, <1>5
<1>7. s \in as_of_view(rows, asOf)
  BY <1>4, <1>6 DEF as_of_view, Latest
<1>. QED
  BY <1>4, <1>6, <1>7

LEMMA ViewsAreHonest ==
  ASSUME NEW rows, Honest(rows), NEW asOf
  PROVE  Honest(as_of_view(rows, asOf))
  BY DEF Honest, as_of_view, Latest, Visible

\* A store that holds more shows a later outcome of each day.
LEMMA MoreShowsLater ==
  ASSUME NEW A, NEW B, A \subseteq B, Honest(B), NEW asOf \in Int,
         NEW r \in as_of_view(A, asOf)
  PROVE  \E s \in as_of_view(B, asOf) : s.key = r.key /\ r.pub <= s.pub
<1>1. r \in Visible(B, asOf)
  BY DEF as_of_view, Latest, Visible
<1>. QED
  BY <1>1, LatestExists

\* ... of each period ...
LEMMA MoreIsObserved ==
  ASSUME NEW A, NEW B, A \subseteq B, Honest(B), NEW asOf \in Int, NEW t
  PROVE  Observed(as_of_view(A, asOf), t) <= Observed(as_of_view(B, asOf), t)
<1> DEFINE va == as_of_view(A, asOf)
           vb == as_of_view(B, asOf)
<1>1. Honest(va) /\ Honest(vb)
  BY ViewsAreHonest DEF Honest
<1>2. \A r \in vb, s \in vb : r.key = s.key => s.pub <= r.pub
  BY DEF as_of_view, Latest
<1>3. \A r \in va : \E s \in vb : s.key = r.key /\ r.pub <= s.pub
  BY MoreShowsLater
<1> HIDE DEF va, vb
<1>4. CASE \E r \in va : t \in day_grid(r.key)
  <2>1. PICK r \in va : t \in day_grid(r.key) /\ Observed(va, t) = r.pub
    <3>1. (CHOOSE r \in va : t \in day_grid(r.key)) \in {r \in va : t \in day_grid(r.key)}
      BY <1>4
    <3>. QED
      BY <1>4, <3>1 DEF Observed
  <2>2. PICK s \in vb : s.key = r.key /\ r.pub <= s.pub
    BY <1>3
  <2>3. PICK q \in vb : t \in day_grid(q.key) /\ Observed(vb, t) = q.pub
    <3>1. \E q \in vb : t \in day_grid(q.key)
      BY <2>1, <2>2
    <3>2. (CHOOSE q \in vb : t \in day_grid(q.key)) \in {q \in vb : t \in day_grid(q.key)}
      BY <3>1
    <3>. QED
      BY <3>1, <3>2 DEF Observed
  <2>4. q.key = r.key
    BY <1>1, <2>1, <2>3, DaysDoNotOverlap DEF Honest
  <2>5. s.pub <= q.pub
    BY <1>2, <2>2, <2>3, <2>4
  <2>6. r.pub \in Nat /\ s.pub \in Nat /\ q.pub \in Nat
    BY <1>1, <2>1, <2>2, <2>3 DEF Honest
  <2>7. r.pub <= q.pub
    BY <2>2, <2>5, <2>6
  <2>8. Observed(va, t) <= Observed(vb, t)
    BY <2>1, <2>3, <2>7
  <2>. QED
    BY <2>8 DEF va, vb
<1>5. CASE ~ \E r \in va : t \in day_grid(r.key)
  <2>1. Observed(va, t) = 0
    BY <1>5 DEF Observed, Nothing
  <2>2. Observed(vb, t) = Nothing \/ \E q \in vb : Observed(vb, t) = q.pub
    BY ObservedIsFromView
  <2>3. Observed(vb, t) \in Nat
    BY <1>1, <2>2 DEF Honest, Nothing
  <2>4. Observed(va, t) <= Observed(vb, t)
    BY <2>1, <2>3
  <2>. QED
    BY <2>4 DEF va, vb
<1>. QED
  BY <1>4, <1>5

\* ... and a later last one.
LEMMA MoreEndsLater ==
  ASSUME NEW A, NEW B, A \subseteq B, Honest(B), NEW asOf \in Int,
         as_of_view(A, asOf) # {}
  PROVE  /\ as_of_view(B, asOf) # {}
         /\ LastObserved(as_of_view(A, asOf)) \in Int /\ LastObserved(as_of_view(B, asOf)) \in Int
         /\ LastObserved(as_of_view(A, asOf)) <= LastObserved(as_of_view(B, asOf))
<1> DEFINE va == as_of_view(A, asOf)
           vb == as_of_view(B, asOf)
<1>1. Honest(va) /\ Honest(vb)
  BY ViewsAreHonest DEF Honest
<1>2. \A r \in va : \E s \in vb : s.key = r.key
  BY MoreShowsLater
<1> HIDE DEF va, vb
<1>3. va # {} /\ vb # {}
  BY <1>2 DEF va
<1>4. PICK r \in va : LastObserved(va) \in day_grid(r.key)
  BY <1>1, <1>3, LastObservedIsLast
<1>5. PICK s \in vb : s.key = r.key
  BY <1>2
<1>6. LastObserved(vb) >= local_midnight_utc(s.key + 1) - 1
  BY <1>1, <1>3, <1>5, LastObservedIsLast
<1>7. LastObserved(va) \in Int /\ LastObserved(vb) \in Int
  BY <1>1, <1>3, LastObservedIsLast
<1>8. LastObserved(va) <= LastObserved(vb)
  BY <1>1, <1>4, <1>5, <1>6, <1>7, EndOfDay DEF Honest, day_grid
<1>. QED
  BY <1>3, <1>7, <1>8 DEF va, vb

\* What a decision row shows of a store.
SeenOf(x, rows) == lag_features(rows, x.day, x.asOf)

\* Decisions read stores of which one always held the other, and a complete one read
\* what was published before it.
Replays ==
  /\ \A x \in Decisions :
       /\ x.asOf = as_of_for_horizon(x.day, horizon)
       /\ x.complete => x.asOf <= now /\ x.seen = SeenOf(x, published)
  /\ \E L \in [Decisions -> SUBSET landed] :
       /\ \A x \in Decisions : x.seen = SeenOf(x, L[x]) /\ x.size = Cardinality(L[x])
       /\ \A x, y \in Decisions : L[x] \subseteq L[y] \/ L[y] \subseteq L[x]

LEMMA StoresAreHonest == TypedInv => Honest(published) /\ Honest(landed)
  BY DEF TypedInv, TypeOK, Sourced, Honest, Row

\* What is shown depends on the view.
LEMMA SameViewSameFeatures ==
  ASSUME NEW A, NEW B, NEW d, NEW asOf, as_of_view(A, asOf) = as_of_view(B, asOf)
  PROVE  lag_features(A, d, asOf) = lag_features(B, d, asOf)
  BY DEF lag_features, assemble_targets

\* When all that was published before a decision has landed, the landed outcomes show
\* just that.
LEMMA LandedShowsPublished ==
  ASSUME TypedInv, NEW asOf \in Int, as_of_view(published, asOf) \subseteq landed
  PROVE  as_of_view(landed, asOf) = as_of_view(published, asOf)
<1>1. landed \subseteq published /\ Honest(published)
  BY StoresAreHonest DEF TypedInv, TypeOK
<1>2. ASSUME NEW r \in as_of_view(published, asOf) PROVE r \in as_of_view(landed, asOf)
  BY <1>1 DEF as_of_view, Latest, Visible
<1>3. ASSUME NEW r \in as_of_view(landed, asOf) PROVE r \in as_of_view(published, asOf)
  <2>1. PICK s \in as_of_view(published, asOf) : s.key = r.key /\ r.pub <= s.pub
    BY <1>1, MoreShowsLater
  <2>2. s \in Visible(landed, asOf) /\ s.pub <= r.pub
    BY <2>1 DEF as_of_view, Latest, Visible
  <2>3. r.pub \in Nat /\ s.pub \in Nat /\ r \in Visible(published, asOf)
    BY <1>1, <2>1 DEF as_of_view, Latest, Visible, Honest
  <2>4. \A q \in Visible(published, asOf) : q.key = r.key => q.pub <= r.pub
    BY <2>1, <2>2, <2>3 DEF as_of_view, Latest
  <2>. QED
    BY <2>3, <2>4 DEF as_of_view, Latest
<1>. QED
  BY <1>2, <1>3

\* A decision just made.
LEMMA AssembleReplays ==
  ASSUME TypedInv, NEW d \in Calendar \ {1}
  PROVE  LET x == assemble(d)
         IN  /\ x.asOf = as_of_for_horizon(x.day, horizon)
             /\ x.complete => x.asOf <= now /\ x.seen = SeenOf(x, published)
             /\ x.seen = SeenOf(x, landed) /\ x.size = Cardinality(landed)
<1> DEFINE x == assemble(d)
           asOf == as_of_for_horizon(d, horizon)
           known == asOf <= now /\ as_of_view(published, asOf) \subseteq landed
<1>1. /\ x.day = d /\ x.asOf = asOf /\ x.seen = lag_features(landed, d, asOf)
      /\ x.size = Cardinality(landed)
  BY DEF assemble
<1>2. x.complete = known
  BY Zenon DEF assemble
<1>3. asOf \in Int
  BY DecisionTimesTyped DEF TypedInv, TypeOK
<1> HIDE DEF x, asOf
<1>4. ASSUME x.complete PROVE x.asOf <= now /\ x.seen = lag_features(published, d, asOf)
  <2>1. asOf <= now /\ as_of_view(published, asOf) \subseteq landed
    BY <1>2, <1>4
  <2>2. as_of_view(landed, asOf) = as_of_view(published, asOf)
    BY <1>3, <2>1, LandedShowsPublished
  <2>3. lag_features(landed, d, asOf) = lag_features(published, d, asOf)
    BY <2>2, SameViewSameFeatures
  <2>. QED
    BY <1>1, <2>1, <2>3
<1>5. /\ x.asOf = as_of_for_horizon(x.day, horizon)
      /\ x.complete => x.asOf <= now /\ x.seen = SeenOf(x, published)
      /\ x.seen = SeenOf(x, landed) /\ x.size = Cardinality(landed)
  BY <1>1, <1>4 DEF SeenOf, asOf
<1>. QED
  BY <1>5 DEF x

\* What is published after a decision does not change what it could see.
LEMMA PublishedLater ==
  ASSUME TypedInv, [Next]_vars
  PROVE  /\ now \in Nat /\ now' \in Nat /\ now <= now'
         /\ landed \subseteq landed' /\ horizon' = horizon
         /\ \A asOf \in Int : asOf <= now =>
              as_of_view(published', asOf) = as_of_view(published, asOf)
<1>1. now \in Nat
  <2>1. LastDay + 1 \in 1..(LastDay + 1)
    BY CalendarAssumption
  <2>. QED
    BY <2>1, MidnightsFollow DEF TypedInv, TypeOK
<1>2. horizon' = horizon /\ landed \subseteq landed' /\ (Tick \/ now' = now)
  BY DEF Next, World, Tick, Publish, Land, Forecast, Backtest, StartBacktest, Train, SkipFold,
         EnterFold, DecideDay, FinishModelRun, FinishNaiveRun, world, vars
<1>3. published' = published \/ \E d \in Calendar : Publish(d)
  BY DEF Next, World, Tick, Publish, Land, Forecast, Backtest, StartBacktest, Train, SkipFold,
         EnterFold, DecideDay, FinishModelRun, FinishNaiveRun, world, vars
<1>4. ASSUME NEW asOf \in Int, asOf <= now
      PROVE  as_of_view(published', asOf) = as_of_view(published, asOf)
  <2>1. ASSUME NEW d \in Calendar, Publish(d)
        PROVE  Visible(published', asOf) = Visible(published, asOf)
    BY <1>1, <1>4, <2>1 DEF Publish, Visible
  <2>. QED
    BY <1>3, <2>1 DEF as_of_view
<1>5. now' \in Nat /\ now <= now'
  BY <1>1, <1>2 DEF Tick
<1>. QED
  BY <1>1, <1>2, <1>4, <1>5

LEMMA NextReplays == TypedInv /\ Replays /\ [Next]_vars => Replays'
<1> SUFFICES ASSUME TypedInv, Replays, [Next]_vars PROVE Replays'
  OBVIOUS
<1>1. PICK L \in [Decisions -> SUBSET landed] :
         /\ \A x \in Decisions : x.seen = SeenOf(x, L[x]) /\ x.size = Cardinality(L[x])
         /\ \A x, y \in Decisions : L[x] \subseteq L[y] \/ L[y] \subseteq L[x]
  BY DEF Replays
<1>2. /\ now \in Nat /\ now' \in Nat /\ now <= now'
      /\ landed \subseteq landed' /\ horizon' = horizon
      /\ \A asOf \in Int : asOf <= now =>
           as_of_view(published', asOf) = as_of_view(published, asOf)
  BY PublishedLater
<1>4. ASSUME NEW x \in Decisions
      PROVE  /\ x.asOf = as_of_for_horizon(x.day, horizon')
             /\ x.complete => x.asOf <= now' /\ x.seen = SeenOf(x, published')
  <2>1. x.asOf \in Int /\ x.asOf = as_of_for_horizon(x.day, horizon)
    BY DEF TypedInv, TypeOK, Replays
  <2>2. ASSUME x.complete PROVE x.asOf <= now' /\ x.seen = SeenOf(x, published')
    <3>1. x.asOf <= now /\ x.seen = SeenOf(x, published)
      BY <2>2 DEF Replays
    <3>2. as_of_view(published', x.asOf) = as_of_view(published, x.asOf)
      BY <1>2, <2>1, <3>1
    <3>3. SeenOf(x, published') = SeenOf(x, published)
      BY <3>2, SameViewSameFeatures DEF SeenOf
    <3>. QED
      BY <1>2, <2>1, <3>1, <3>3
  <2>. QED
    BY <1>2, <2>1, <2>2
<1>5. CASE Decisions' = Decisions
  <2>1. L \in [Decisions' -> SUBSET landed']
    BY <1>2, <1>5
  <2>. QED
    BY <1>1, <1>4, <1>5, <2>1 DEF Replays, SeenOf
<1>6. ASSUME NEW d \in Calendar \ {1}, Decisions' = Decisions \cup {assemble(d)}, UNCHANGED world
      PROVE  Replays'
  <2> DEFINE new == assemble(d)
             M == [x \in Decisions' |-> IF x = new THEN landed ELSE L[x]]
  <2>1. /\ new.asOf = as_of_for_horizon(new.day, horizon)
        /\ new.complete => new.asOf <= now /\ new.seen = SeenOf(new, published)
        /\ new.seen = SeenOf(new, landed) /\ new.size = Cardinality(landed)
    BY AssembleReplays
  <2>2. now' = now /\ published' = published /\ landed' = landed
    BY <1>6 DEF world
  <2> HIDE DEF new
  <2>3. \A x \in Decisions' : x \in Decisions \/ x = new
    BY <1>6 DEF new
  <2>4. M \in [Decisions' -> SUBSET landed']
    BY <1>1, <2>2, <2>3
  <2>5. \A x \in Decisions' : M[x] = IF x = new THEN landed ELSE L[x]
    OBVIOUS
  <2> HIDE DEF M
  <2>6. \A x \in Decisions' : x.seen = SeenOf(x, M[x]) /\ x.size = Cardinality(M[x])
    BY <1>1, <2>1, <2>3, <2>5
  <2>7. \A x, y \in Decisions' : M[x] \subseteq M[y] \/ M[y] \subseteq M[x]
    BY <1>1, <2>3, <2>5
  <2>8. \A x \in Decisions' :
          /\ x.asOf = as_of_for_horizon(x.day, horizon')
          /\ x.complete => x.asOf <= now' /\ x.seen = SeenOf(x, published')
    BY <1>2, <1>4, <2>1, <2>2, <2>3
  <2>. QED
    BY <2>4, <2>6, <2>7, <2>8 DEF Replays, SeenOf
<1>. QED
  BY <1>5, <1>6, NewDecisions

LEMMA ReplaysFollow == TypedInv /\ Replays => ReplayMatchesLive
<1> SUFFICES ASSUME TypedInv, Replays, NEW f \in Decisions, NEW x \in Decisions, x.day = f.day
             PROVE  /\ f.complete /\ x.complete => x.seen = f.seen
                    /\ f.size <= x.size =>
                         /\ f.seen.last # Nothing => x.seen.staleness <= f.seen.staleness
                         /\ \A t \in day_grid(f.day), l \in LagDays :
                              f.seen.lags[t][l] <= x.seen.lags[t][l]
  BY DEF ReplayMatchesLive, Decisions
<1> DEFINE asOf == f.asOf
<1>1. x.asOf = asOf /\ asOf \in Int
  BY DEF Replays, TypedInv, TypeOK
<1>2. f.complete /\ x.complete => x.seen = f.seen
  BY <1>1 DEF Replays, SeenOf
<1>3. ASSUME f.size <= x.size
      PROVE  /\ f.seen.last # Nothing => x.seen.staleness <= f.seen.staleness
             /\ \A t \in day_grid(f.day), l \in LagDays :
                  f.seen.lags[t][l] <= x.seen.lags[t][l]
  <2>1. PICK L \in [Decisions -> SUBSET landed] :
           /\ \A y \in Decisions : y.seen = SeenOf(y, L[y]) /\ y.size = Cardinality(L[y])
           /\ \A y, z \in Decisions : L[y] \subseteq L[z] \/ L[z] \subseteq L[y]
    BY DEF Replays
  <2> DEFINE A == L[f]
             B == L[x]
  <2>2. A \subseteq landed /\ B \subseteq landed
    BY <2>1
  <2>3. A \subseteq B
    <3>1. CASE A \subseteq B
      BY <3>1
    <3>2. CASE B \subseteq A
      <4>1. IsFiniteSet(A) /\ IsFiniteSet(B)
        BY <2>2, LandedIsFinite, FS_Subset
      <4>2. Cardinality(B) <= Cardinality(A) /\ Cardinality(A) <= Cardinality(B)
        BY <1>3, <2>1, <3>2, <4>1, FS_Subset
      <4>3. Cardinality(A) = Cardinality(B)
        BY <4>1, <4>2, FS_CardinalityType
      <4>4. A = B
        BY <3>2, <4>1, <4>3, FS_Subset
      <4>. QED
        BY <4>4
    <3>. QED
      BY <2>1, <3>1, <3>2
  <2>4. Honest(B)
    BY <2>2, StoresAreHonest DEF Honest
  <2>5. f.seen = lag_features(A, f.day, asOf) /\ x.seen = lag_features(B, f.day, asOf)
    BY <1>1, <2>1 DEF SeenOf
  <2> HIDE DEF A, B, asOf
  <2> DEFINE va == as_of_view(A, asOf)
             vb == as_of_view(B, asOf)
  <2>6. /\ \A t \in day_grid(f.day), l \in LagDays :
             /\ f.seen.lags[t][l] = Observed(va, t - l * NormalLength)
             /\ x.seen.lags[t][l] = Observed(vb, t - l * NormalLength)
        /\ f.seen.last = IF va = {} THEN Nothing ELSE Observed(va, LastObserved(va))
        /\ f.seen.staleness = IF va = {} THEN Nothing ELSE asOf - LastObserved(va)
        /\ x.seen.staleness = IF vb = {} THEN Nothing ELSE asOf - LastObserved(vb)
    BY <2>5 DEF lag_features, assemble_targets
  <2>7. \A t : Observed(va, t) <= Observed(vb, t)
    BY <1>1, <2>3, <2>4, MoreIsObserved
  <2>8. va # {} => /\ vb # {} /\ LastObserved(va) \in Int /\ LastObserved(vb) \in Int
                   /\ LastObserved(va) <= LastObserved(vb)
    BY <1>1, <2>3, <2>4, MoreEndsLater
  <2> HIDE DEF va, vb
  <2>9. f.seen.last # Nothing => x.seen.staleness <= f.seen.staleness
    BY <1>1, <2>6, <2>8
  <2>. QED
    BY <2>6, <2>7, <2>9
<1>. QED
  BY <1>2, <1>3

\* Replaying a decision gives the features the live forecast had, provided that both
\* found landed what had been published before it; whoever reads the landing zone later
\* knows at least as much.
THEOREM ReplaysMatchForecasts == Spec => []ReplayMatchesLive
<1>1. Init => TypedInv /\ Replays
  <2> SUFFICES ASSUME Init PROVE Replays
    BY InitTyped
  <2>1. Decisions = {}
    BY DEF Init, Decisions
  <2>2. [x \in Decisions |-> {}] \in [Decisions -> SUBSET landed]
    BY <2>1
  <2>. QED
    BY <2>1, <2>2 DEF Replays
<1>2. TypedInv /\ Replays /\ [Next]_vars => TypedInv' /\ Replays'
  BY NextTyped, NextReplays
<1>3. TypedInv /\ Replays => ReplayMatchesLive
  BY ReplaysFollow
<1>. QED
  BY <1>1, <1>2, <1>3, PTL DEF Spec

=============================================================================
