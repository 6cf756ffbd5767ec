------------------------------ MODULE Economics ------------------------------
(***************************************************************************)
(* What recommendations were worth: charges (decision/charges.py), the     *)
(* economic report of a backtest (backtest/economic.py, sensitivity.py)    *)
(* and the attribution of its errors (monitoring/pnl_attribution.py).      *)
(*                                                                         *)
(* A book is a function from row identities to settled rows: the decision  *)
(* with the spread and the charge it counted on, and the outcome, whose    *)
(* spread is NaN as long as it is unknown.  Amounts of money are whole     *)
(* tenths of the unit of spreads, so that a multiplier of charges is a     *)
(* whole number of tenths.                                                 *)
(***************************************************************************)
EXTENDS Amounts

CONSTANTS
  Fallback,     \* fallback_eur_per_mwh
  Penalty,      \* expected_eur_per_mwh of the dispatch order penalty
  Multipliers   \* sensitivity_multipliers, in tenths

ASSUME ChargesAssumption == Fallback \in Int /\ Penalty \in Nat /\ Multipliers \subseteq Nat

---------------------------------------------------------------------------
(* Charges *)

\* Faulty variant of charge_per_mwh: a published charge keeps its sign.
signed_charge_per_mwh(published, multiplier) ==
  (IF published = NaN THEN Fallback ELSE published) * multiplier + 10 * Penalty

\* The charge of a period per unit of deviation, in tenths.
charge_per_mwh(published, multiplier) ==
  Absolute(IF published = NaN THEN Fallback ELSE published) * multiplier + 10 * Penalty

Central == 10

---------------------------------------------------------------------------
(* Settlement *)

charge_realized(r, multiplier) == charge_per_mwh(r.published, multiplier)

pnl(r, multiplier) ==
  10 * r.delta * r.spread - Absolute(r.delta) * charge_realized(r, multiplier)

\* An unknown outcome cannot be scored.
Scored(book) == {i \in DOMAIN book : book[i].spread # NaN}

ScoredDays(book) == {book[i].day : i \in Scored(book)}

RowsOfDay(book, d) == {i \in Scored(book) : book[i].day = d}

daily_pnl(book, d) ==
  LET Pnl(i) == pnl(book[i], Central) IN SumOver(RowsOfDay(book, d), Pnl)

net_margin(book, multiplier) ==
  LET Pnl(i) == pnl(book[i], multiplier) IN SumOver(Scored(book), Pnl)

\* A load that has not landed counts as no volume.
total_volume(book) ==
  LET Volume(i) == IF book[i].load = NaN THEN 0 ELSE Absolute(book[i].load)
  IN  SumOver(Scored(book), Volume)

\* A margin per unit of volume that exists and is above the threshold of zero.
go_no_go(book, multiplier) == total_volume(book) > 0 /\ net_margin(book, multiplier) > 0

\* The multipliers of charge_sensitivity under which the book is a go.
charge_sensitivity(book) == {k \in Multipliers : go_no_go(book, k)}

\* The running total of the daily results up to a day.
cumulative(book, d) ==
  LET Pnl(e) == daily_pnl(book, e) IN SumOver({e \in ScoredDays(book) : e <= d}, Pnl)

\* Faulty variant of PeakAt: the last total before the day.
PreviousTotal(book, d) ==
  LET before == {e \in ScoredDays(book) : e < d}
  IN  IF before = {} THEN cumulative(book, d) ELSE cumulative(book, Max(before))

\* The highest running total up to a day; there is none before the first day.
PeakAt(book, d) == Max({cumulative(book, e) : e \in {f \in ScoredDays(book) : f <= d}})

max_drawdown(book) ==
  Min({cumulative(book, d) - PeakAt(book, d) : d \in ScoredDays(book)})

\* Weights of the positions whose sign was right.
weighted_hits(book) ==
  LET active == {i \in Scored(book) : book[i].delta # 0}
      Weight(i) == IF SignOf(book[i].delta) = SignOf(book[i].spread)
                   THEN Absolute(book[i].spread) ELSE 0
  IN  SumOver(active, Weight)

---------------------------------------------------------------------------
(* Attribution *)

pnl_expected(r) == 10 * r.delta * r.e_spread - Absolute(r.delta) * r.charge

err_spread(r) == 10 * r.delta * (r.spread - r.e_spread)

\* Faulty variant of err_charge: a higher charge counts as a gain.
err_charge_gained(r) == Absolute(r.delta) * (charge_realized(r, Central) - r.charge)

err_charge(r) == -Absolute(r.delta) * (charge_realized(r, Central) - r.charge)

sign_miss(r) == SignOf(r.delta) # SignOf(r.spread) /\ r.delta # 0

\* One day of daily_attribution; the weights of its misses are not yet divided by the
\* weight of its rows.
daily_attribution(book, d) ==
  LET rows == RowsOfDay(book, d)
      Realized(i) == pnl(book[i], Central)
      Expected(i) == pnl_expected(book[i])
      Spread(i) == err_spread(book[i])
      Charge(i) == err_charge(book[i])
      Missed(i) == IF sign_miss(book[i]) THEN Absolute(book[i].spread) ELSE 0
  IN  [realized |-> SumOver(rows, Realized), expected |-> SumOver(rows, Expected),
       spread |-> SumOver(rows, Spread), charge |-> SumOver(rows, Charge),
       missed |-> SumOver(rows, Missed)]

unexplained(a) == a.realized - a.expected - (a.spread + a.charge)

==============================================================================
