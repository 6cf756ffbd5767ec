----------------------------- MODULE Algorithms -----------------------------
(***************************************************************************)
(* The pure parts of the system on bounded inputs: the calendar day by     *)
(* day, numbers in every printed form, samples and books that grow row by  *)
(* row.  A behaviour feeds one kind of input to the functions of           *)
(* ItalianCalendar, Normalize, Metrics, Economics and Baselines.           *)
(***************************************************************************)
EXTENDS ItalianCalendar, Normalize, Metrics, Economics, Baselines

CONSTANTS
  Years,        \* years whose Easter is computed
  WalkedYears,  \* years walked day by day
  MaxWindow,    \* bound: days a pull asks for
  MaxGroups,    \* bound: thousands marks in a number
  MaxSample,    \* bound: rows of a sample
  BookRows,     \* settled rows of a book, their days left out
  Loads,        \* what the load lookup gives for a period
  MaxBook,      \* bound: rows of a book
  FrameRows,    \* rows of a training frame
  MaxFrame      \* bound: rows of a frame

ASSUME SizesAssumption ==
  {MaxWindow, MaxGroups, MaxSample, MaxBook, MaxFrame} \subseteq Nat /\ Years \subseteq Nat \ {0}
\* The columns of a settled book and of a training frame are numbers or missing.
ASSUME RowsAssumption ==
  /\ BookRows \subseteq [day : Int, load : {NaN} \cup Int, delta : Int, e_spread : Int,
                         charge : Int, spread : {NaN} \cup Int, published : {NaN} \cup Int]
  /\ Loads \subseteq {NaN} \cup Int
  /\ FrameRows \subseteq [area : Int, t : Int, y : {NaN} \cup Int]

VARIABLE input  \* a day, a printed number, a sample, a book or a frame

---------------------------------------------------------------------------
DayInput == [kind : {"day"}, day : Nat]

TextInput ==
  [kind : {"text"}, format : Formats, groups : 0..MaxGroups, fraction : BOOLEAN, sign : {-1, 0, 1}]

Init ==
  \/ \E y \in Years : input = [kind |-> "day", day |-> NewYear(y)]
  \/ input \in {t \in TextInput : t.groups = 0}
  \/ input \in [kind : {"sign", "spread"}, sample : {<<>>}]
  \/ input = [kind |-> "frame", frame |-> {}]
  \/ input \in [kind : {"book"}, load : Loads, day : {1}, book : {<<>>}]

Tomorrow ==
  /\ input.kind = "day"
  /\ YearOf(input.day) \in WalkedYears
  /\ input' = [input EXCEPT !.day = @ + 1]

\* A number a thousand times as large.
Grow ==
  /\ input.kind = "text"
  /\ input.groups < MaxGroups
  /\ input' = [input EXCEPT !.groups = @ + 1]

\* One more row; a missing outcome or score is dropped by every metric.
Observe(y, p) ==
  /\ Len(input.sample) < MaxSample
  /\ input' = [input EXCEPT !.sample = Append(@, [y |-> y, p |-> p])]

\* One more row of the day, or the first of the next.
Settle(r, d) ==
  /\ Len(input.book) < MaxBook
  /\ input' = [input EXCEPT
       !.day = d,
       !.book = Append(@, [r EXCEPT !.day = d, !.load = input.load])]

\* One more row of a frame, which has one for each area and period at most.
Label(r) ==
  /\ Cardinality(input.frame) < MaxFrame
  /\ KeysOf({r}) \cap KeysOf(input.frame) = {}
  /\ input' = [input EXCEPT !.frame = @ \cup {r}]

Next ==
  \/ Tomorrow
  \/ Grow
  \/ input.kind = "sign" /\ \E y \in {0, Scale, NaN}, p \in 0..Scale \cup {NaN} : Observe(y, p)
  \/ input.kind = "spread" /\ \E y \in 0..Scale \cup {NaN} : Observe(y, 0)
  \/ input.kind = "frame" /\ \E r \in FrameRows : Label(r)
  \/ input.kind = "book" /\ \E r \in BookRows, d \in input.day..(input.day + 1) : Settle(r, d)

Spec == Init /\ [][Next]_input

---------------------------------------------------------------------------
(* Properties *)

Least(j, k) == IF j < k THEN j ELSE k

\* Rows of a frame, those of t and later with another outcome.
Relabelled(rows, t, y) == {IF r.t < t THEN r ELSE [r EXCEPT !.y = y] : r \in rows}

\* The ecclesiastical rule for Easter: the Sunday after the first full moon on or
\* after 21 March, the moon's age taken from the epact of the year.
PaschalMoon(year) ==
  LET golden == (year % 19) + 1
      century == year \div 100 + 1
      solar == (3 * century) \div 4 - 12
      lunar == (8 * century + 5) \div 25 - 5
      e == (11 * golden + 20 + lunar - solar) % 30
      epact == IF (e = 25 /\ golden > 11) \/ e = 24 THEN e + 1 ELSE e
      march == IF epact > 23 THEN 74 - epact ELSE 44 - epact
  IN  Date(year, 3, 1) + march - 1

\* The arithmetic of easter_sunday (calendar_it.py:35-48), in which most terms
\* matter in a few years of a century only, is the ecclesiastical rule.
EasterIsComputus ==
  input.kind = "day" =>
    LET easter == easter_sunday(YearOf(input.day))
        moon == PaschalMoon(YearOf(input.day))
    IN  weekday(easter) = 6 /\ easter \in moon + 1 .. moon + 7

\* The distances to and from holidays (calendar_it.py:77-80) count down to the next
\* holiday and up from the last one by one a day, over the end of a year as well,
\* although holidays come in tables of one year; a bridge day is next to one.
HolidaysAreCountedDown ==
  [][Tomorrow =>
       LET day == input.day
           next == input'.day
       IN  /\ days_to_holiday(day) = IF is_holiday(day) THEN 0
                                     ELSE Least(days_to_holiday(next) + 1, Horizon + 1)
           /\ days_from_holiday(next) = IF is_holiday(next) THEN 0
                                        ELSE Least(days_from_holiday(day) + 1, Horizon + 1)
           /\ is_bridge_day(day) => 1 \in {days_to_holiday(day), days_from_holiday(day)}]_input

\* A pull asks for all its days in the data type of the first (flows.py:36,
\* backfill.py:53): that is the data type of each of them, except when the regime
\* changes inside the window, and then of those before the change only.  The first
\* regime starts without a change: it holds for the days before it too.
WindowsWithinARegimeAreUniform ==
  input.kind = "day" =>
    \A d \in input.day .. input.day + MaxWindow :
      requested_data_type(input.day, d) = terna_data_type(d)
      <=> ~\E e, f \in mtu : f.from < e.from /\ input.day < e.from /\ e.from <= d

\* A number is read back as it was printed, in the Italian as in the English form
\* (normalize.py:21-43), unless it has thousands marks of a dot or a comma and no
\* decimals: with one mark it is read a thousand times too small, with more not at
\* all.  Its sign is never misread (normalize.py:46-68).
PrintedNumbersAreReadBack ==
  input.kind = "text" =>
    LET marks == Printed(input.format, input.groups, input.fraction)
        bare == ~input.fraction /\ input.format.thousands # "gap"
    IN  /\ parse_number(marks) =
             IF bare /\ input.groups = 1 THEN 1
             ELSE IF bare /\ input.groups > 1 THEN None
             ELSE PointOf(input.groups, input.fraction)
        /\ parse_sign(input.sign, marks) \in {input.sign, None}

\* The rank formula (metrics.py:36-51) is the share of pairs of a positive and a
\* negative row in which the positive one has the higher score, ties for one half.
AucIsPairwise ==
  input.kind = "sign" =>
    LET pairs == Positives(input.sample) \X Negatives(input.sample)
        Won(r) == IF input.sample[r[1]].p > input.sample[r[2]].p THEN 2
                  ELSE IF input.sample[r[1]].p = input.sample[r[2]].p THEN 1 ELSE 0
    IN  auc_roc(input.sample) = SumOver(pairs, Won)

\* Every row is in the bin its score belongs to, a score of one included, so that
\* the calibration error (metrics.py:54-66) is never below the overall bias, nor
\* above the mean absolute error, and is the one the reliability table shows.
CalibrationAccountsForAllRows ==
  input.kind = "sign" =>
    LET sample == input.sample
        table == reliability_table(sample)
        ece == expected_calibration_error(sample)
        Rows(b) == table[b].n
        Shown(b) == Absolute(table[b].mean_pred - table[b].frac_pos)
        Miss(i) == Absolute(sample[i].p - sample[i].y)
    IN  /\ SumOver(DOMAIN table, Rows) = Cardinality(clean(sample))
        /\ \A b \in DOMAIN table :
             /\ b * Scale * table[b].n <= Bins * table[b].mean_pred
             /\ Bins * table[b].mean_pred <= (b + 1) * Scale * table[b].n
        /\ ece = SumOver(DOMAIN table, Shown)
        /\ Absolute(Excess(sample, clean(sample))) <= ece
        /\ ece <= SumOver(clean(sample), Miss)
        /\ ece * ece <= Cardinality(clean(sample)) * brier_score(sample)

\* A constant that is a q quantile of the outcomes.
IsQuantile(sample, c, q) ==
  LET n == Cardinality(clean(sample))
  IN  /\ 10 * Cardinality({i \in clean(sample) : sample[i].y < c}) <= q * n
      /\ q * n <= 10 * Cardinality({i \in clean(sample) : sample[i].y <= c})

\* The pinball loss of a level (metrics.py:101-106) is least for the quantiles of
\* that level, an interval between two quantiles is covered (metrics.py:119-127) at
\* least as often as their levels say, and a fan is never worse for having been sorted
\* (spread.py:70), although the values change levels.
QuantilesScoreBest ==
  input.kind = "spread" =>
    LET sample == input.sample
        Q(c, q) == IsQuantile(sample, c, q)
    IN  /\ \A q \in Levels : \A c, d \in 0..Scale :
             Q(c, q) => pinball_loss(Constantly(sample, c), q) <= pinball_loss(Constantly(sample, d), q)
        /\ \A lower, upper \in 0..Scale :
             Q(lower, Min(Levels)) /\ Q(upper, Max(Levels)) =>
               10 * picp(sample, lower, upper)
                 >= (Max(Levels) - Min(Levels)) * Cardinality(clean(sample))
        /\ \A raw \in [Levels -> 0..Scale] :
             mean_pinball(sample, predict(raw)) <= mean_pinball(sample, raw)

\* The drawdown of a report (economic.py:51-55, 90) is the worst result of a stretch
\* of consecutive days, or zero; a stretch that starts on the first scored day is left
\* out, because nothing was earned before it.
DrawdownIsWorstStretch ==
  input.kind = "book" /\ Scored(input.book) # {} =>
    LET book == input.book
        days == ScoredDays(book)
        Pnl(d) == daily_pnl(book, d)
        Stretch(i, j) == {d \in days : i < d /\ d <= j}
    IN  max_drawdown(book) = Min({SumOver(Stretch(i, j), Pnl) : i, j \in days})

\* A book that is a go under a charge multiplier is one under every lower multiplier
\* (sensitivity.py:20-34, charges.py:77): charges are costs, whatever the sign of the
\* published price, and the same rows are scored under each.
GoSurvivesLowerCharges ==
  input.kind = "book" =>
    \A k \in charge_sensitivity(input.book) : \A j \in Multipliers :
      j < k => j \in charge_sensitivity(input.book)

\* The errors of a day account for all of the difference between what was expected
\* and what was made (pnl_attribution.py:3-11); the days add up to the margin of the
\* report, and its misses are what the hits of the report leave (economic.py:75-80).
AttributionAgreesWithReport ==
  input.kind = "book" =>
    LET book == input.book
        Day(d) == daily_attribution(book, d)
        Realized(d) == Day(d).realized
        Missed(d) == Day(d).missed
        Weight(i) == IF book[i].delta # 0 THEN Absolute(book[i].spread) ELSE 0
    IN  /\ \A d \in ScoredDays(book) : unexplained(Day(d)) = 0
        /\ SumOver(ScoredDays(book), Realized) = net_margin(book, Central)
        /\ SumOver(ScoredDays(book), Missed) + weighted_hits(book)
             = SumOver(Scored(book), Weight)

\* The parts of a frame follow each other in time (dataset.py:111-130), and a baseline
\* looks back: what it predicts for a row of the test, previous day's outcome, mean of the
\* training split or mean instead of a missing label (baselines.py:1-8), does not depend
\* on any outcome of that time or of later.
BaselinesLookBack ==
  input.kind = "frame" =>
    LET frame == input.frame
        split == time_split(frame)
        Revised(t, y) == split.train \cup split.valid \cup Relabelled(split.test, t, y)
    IN  /\ \A x \in split.train, y \in split.valid, z \in split.test : x.t <= y.t /\ y.t <= z.t
        /\ \A k \in KeysOf(split.test), y \in {r.y : r \in FrameRows} :
             LET told == baseline_report(frame)
                 revised == baseline_report(Revised(k.t, y))
             IN  /\ revised.persistence[k] = told.persistence[k]
                 /\ revised.climatology[k] = told.climatology[k]

=============================================================================
