------------------------------ MODULE Timebase ------------------------------
(***************************************************************************)
(* Settlement periods between UTC and Europe/Rome (sfe/curate/timebase.py) *)
(* and the decision time of a horizon (sfe/features/spec.py).              *)
(*                                                                         *)
(* Time in UTC is counted in settlement periods from local midnight of day *)
(* 1.  The time zone database gives the local midnights.  A local day has  *)
(* NormalLength periods, or one less or one more when the clocks change:   *)
(* the wall clock then skips, or shows twice, the reading ShiftTick.  Wall *)
(* clocks are read in periods too, 0 at midnight.                          *)
(***************************************************************************)
EXTENDS Integers

CONSTANTS
  LastDay,       \* the calendar days are 1..LastDay
  Midnights,     \* the UTC instants of local midnights, of the day after the last too
  NormalLength,  \* periods of a day without a clock change
  ShiftTick,     \* the wall clock reading that a change skips or repeats
  Horizons,      \* horizon labels
  Offset         \* HORIZON_OFFSET_H: wall clock time of a decision before local midnight

Calendar == 1..LastDay

ASSUME CalendarAssumption ==
  /\ LastDay \in Nat \ {0}
  /\ NormalLength \in Nat \ {0}
  /\ ShiftTick \in 0..(NormalLength - 1)
  /\ Midnights \in [1..(LastDay + 1) -> Nat] /\ Midnights[1] = 0
  /\ \A d, e \in 1..(LastDay + 1) : d < e => Midnights[d] < Midnights[e]
  /\ \A d \in Calendar :
       Midnights[d + 1] - Midnights[d] \in (NormalLength - 1)..(NormalLength + 1)
\* No decision is taken at the reading that a clock change skips or repeats.
ASSUME OffsetAssumption ==
  /\ Offset \in [Horizons -> (1 - NormalLength)..NormalLength]
  /\ \A h \in Horizons : (-Offset[h]) % NormalLength > ShiftTick

\* The UTC instant of 00:00 Europe/Rome of a day.
local_midnight_utc(d) == Midnights[d]

\* Faulty variant of day_grid: every day is as long as a normal one.
day_grid_without_dst(d) ==
  local_midnight_utc(d)..(local_midnight_utc(d) + NormalLength - 1)

\* The starts of the settlement periods of a day: midnight to midnight.
day_grid(d) == local_midnight_utc(d)..(local_midnight_utc(d + 1) - 1)

periods_in_day(d) == local_midnight_utc(d + 1) - local_midnight_utc(d)

\* The period_index-th period of a day, for the indices the code accepts.
period_start_utc(d, i) == local_midnight_utc(d) + i - 1

\* The local day of an instant.
DayOf(t) == CHOOSE d \in Calendar : t \in day_grid(d)

\* How far the clocks are moved on a day: forward -1, back +1 periods of the day.
Change(d) == periods_in_day(d) - NormalLength

\* The UTC instant of a wall clock reading; a repeated one is told by fold, and a
\* skipped one is read with the offset from before the change (fold 0) or after it.
rome_wall_to_utc(d, wall, fold) ==
  local_midnight_utc(d) +
    (IF wall < ShiftTick \/ (wall = ShiftTick /\ fold = 0) THEN wall ELSE wall + Change(d))

\* The local day, wall clock reading and fold of an instant.
utc_to_rome(t) ==
  LET d == DayOf(t)
      elapsed == t - local_midnight_utc(d)
      after == IF Change(d) = 1 THEN elapsed > ShiftTick ELSE elapsed >= ShiftTick
  IN [day  |-> d,
      wall |-> IF after THEN elapsed - Change(d) ELSE elapsed,
      fold |-> IF Change(d) = 1 /\ elapsed = ShiftTick + 1 THEN 1 ELSE 0]

\* Aware datetimes of one zone are subtracted on the wall clock: the decision falls at
\* the same reading of every day, on the eve or, for a negative offset, on the day.
as_of_for_horizon(d, h) ==
  rome_wall_to_utc(IF Offset[h] > 0 THEN d - 1 ELSE d, (-Offset[h]) % NormalLength, 0)

=============================================================================
