--------------------------- MODULE ItalianCalendar ---------------------------
(***************************************************************************)
(* The Italian market calendar (sfe/curate/calendar_it.py) and the dated   *)
(* market regimes (sfe/curate/regimes.py): what the calendar features say  *)
(* of a delivery day, and which regime holds on it.                        *)
(*                                                                         *)
(* A day is its ordinal, as in Python's date.toordinal: day 1 is 1 January *)
(* of the year 1, a Monday.                                                *)
(***************************************************************************)
EXTENDS Integers, FiniteSets

---------------------------------------------------------------------------
(* Dates *)

IsLeap(y) == (y % 4 = 0 /\ y % 100 # 0) \/ y % 400 = 0

NewYear(y) == 365 * (y - 1) + (y - 1) \div 4 - (y - 1) \div 100 + (y - 1) \div 400 + 1

DaysBefore == <<0, 31, 59, 90, 120, 151, 181, 212, 243, 273, 304, 334>>

Date(y, m, d) ==
  NewYear(y) + DaysBefore[m] + (IF m > 2 /\ IsLeap(y) THEN 1 ELSE 0) + d - 1

YearOf(day) ==
  CHOOSE y \in (day \div 366) .. (day \div 365 + 1) : NewYear(y) <= day /\ day < NewYear(y + 1)

weekday(day) == (day + 6) % 7

---------------------------------------------------------------------------
(* Holidays *)

\* Faulty variant of easter_sunday: without the correction m, which moves Easter
\* only in a few years of a century.
EasterUncorrected(year) ==
  LET a == year % 19
      b == year \div 100
      c == year % 100
      g == (b - (b + 8) \div 25 + 1) \div 3
      h == (19 * a + b - b \div 4 - g + 15) % 30
      l == (32 + 2 * (b % 4) + 2 * (c \div 4) - h - (c % 4)) % 7
      n == h + l + 114
  IN  Date(year, n \div 31, (n % 31) + 1)

\* The Meeus/Jones/Butcher algorithm.
easter_sunday(year) ==
  LET a == year % 19
      b == year \div 100
      c == year % 100
      g == (b - (b + 8) \div 25 + 1) \div 3
      h == (19 * a + b - b \div 4 - g + 15) % 30
      l == (32 + 2 * (b % 4) + 2 * (c \div 4) - h - (c % 4)) % 7
      m == (a + 11 * h + 22 * l) \div 451
      n == h + l - 7 * m + 114
  IN  Date(year, n \div 31, (n % 31) + 1)

\* Month and day of the national holidays with a fixed date.
Fixed == {<<1, 1>>, <<1, 6>>, <<4, 25>>, <<5, 1>>, <<6, 2>>, <<8, 15>>, <<11, 1>>,
          <<12, 8>>, <<12, 25>>, <<12, 26>>}

holidays(year) ==
  {Date(year, f[1], f[2]) : f \in Fixed} \cup {easter_sunday(year) + 1}

is_holiday(day) == day \in holidays(YearOf(day))

is_nonworking(day) == weekday(day) >= 5 \/ is_holiday(day)

\* A working day between two non-working ones.
is_bridge_day(day) ==
  ~is_nonworking(day) /\ is_nonworking(day - 1) /\ is_nonworking(day + 1)

Horizon == 7

\* The least k for which the day at distance k is a holiday, Horizon + 1 for none.
FirstOf(near) ==
  IF near = {} THEN Horizon + 1 ELSE CHOOSE k \in near : \A j \in near : k <= j

\* Faulty variant of days_to_holiday: the year of the day is looked up for the days
\* after it too, beyond New Year's Eve.
ToHolidayOfTheYear(day) == FirstOf({k \in 0..Horizon : day + k \in holidays(YearOf(day))})

days_to_holiday(day) == FirstOf({k \in 0..Horizon : is_holiday(day + k)})

days_from_holiday(day) == FirstOf({k \in 0..Horizon : is_holiday(day - k)})

---------------------------------------------------------------------------
(* Regimes *)

\* Faulty variant of Started: an entry holds from the day after it starts.
StartedBefore(timeline, day) == {e \in timeline : e.from < day}

Started(timeline, day) == {e \in timeline : e.from <= day}

\* bisect_right over the start days: the last entry that has started, and the first
\* entry for the days before all of them.
pick(timeline, day) ==
  IF Started(timeline, day) # {}
  THEN CHOOSE e \in Started(timeline, day) : \A f \in Started(timeline, day) : f.from <= e.from
  ELSE CHOOSE e \in timeline : \A f \in timeline : e.from <= f.from

\* Settlement resolution and data type, by the day they start (conf/regimes.yaml).
mtu == {[from |-> Date(2019, 1, 1), resolution |-> "PT1H", dataType |-> "Orario"],
        [from |-> Date(2026, 2, 1), resolution |-> "PT15M", dataType |-> "QuartoOrario"]}

mtu_resolution(day) == pick(mtu, day).resolution
terna_data_type(day) == pick(mtu, day).dataType

\* What a pull of dateFrom..dateTo asks for when no data type is given: all of its
\* days in the data type of the first.
requested_data_type(dateFrom, dateTo) == terna_data_type(dateFrom)

==============================================================================
