# Verification of sfe-terna-forecast

This directory holds TLA+ models of the Terna imbalance forecaster (`src/sfe`), TLC
configurations that check them on small instances, and proofs, checked by TLAPS, of the
properties that matter most for every value of the constants.

1. [The system](#1-the-system): components, state, interactions, what is hard about them
2. [The plan](#2-the-plan)
3. [The modules](#3-the-modules) and how they correspond to the code
4. [The runs](#4-the-runs): what each checks, its bounds, the fairness assumed
5. [What the models show about the code](#5-what-the-models-show-about-the-code)
6. [The proofs](#6-the-proofs)
7. [What is left out](#7-what-is-left-out)

## 1. The system

Every day the program pulls imbalance, load and fee data from Terna's portal into an
append-only landing zone, computes features as they were known at a decision time, forecasts
sign and spread of the imbalance of each settlement period (MTU), and recommends a deliberate
deviation for each, within risk limits.

| Component (under `src/sfe`) | State it keeps | Operations | What makes it correct |
|---|---|---|---|
| `ingest/terna_client.py` | cached token with its expiry, a lock | `bearer`, `_get_raw` with retries, `fetch` in windows | no request with an expired token; one refresh at a time; every request comes back |
| `ingest/flows.py`, `scripts/backfill.py` | none of its own | `ingest_endpoint`, `backfill_endpoint`, resume | a finished pull has delivered what the source was serving |
| `ingest/landing.py`, `io/storage.py` | part files of each dataset | `build_cells`, `land`, `write_fragment`, `read_dataset` | idempotent, append-only, exact, no vintage lost |
| `ingest/watermark.py` | one JSON file for all endpoints | `set_watermark` under a lock, `get_watermark` without | no update lost, no watermark goes back |
| `curate/vintage.py` | none (views of the landing zone) | `as_of_view`, `latest_view` | no value is visible before its publication; the newest wins |
| `features/*` | feature parquet files | `assemble`, `materialize`, `attach_labels`, `assemble_targets` | features come from as-of views, labels from the latest view |
| `models/registry.py`, `serve/inference.py`, `models/retrain.py`, scripts | four files for each horizon | `save_model`, `load_model`, `ensure_models`, `should_retrain` | one training at a time is registered; an old model is noticed |
| `api/main.py`, `dashboard/app.py` | cache of loaded models | requests, bundles | served pairs of models belong together |
| `monitoring/audit.py` | audit rows, append-only | `record`, `read` | a row tells what produced it |
| `decision/*` | none | `recommend`, `recommend_frame` | no trade at an expected loss; caps hold; margins are those of the volumes |
| `backtest/*` | none | `make_folds`, `run_walkforward`, `realize_pnl` | training data precede what is tested |
| `curate/timebase.py`, `regimes.py`, `calendar_it.py`, `normalize.py` | none | day grids with DST, regime of a day, holidays, printed numbers | periods and instants correspond one to one; values are read as they were printed |
| `decision/charges.py`, `monitoring/pnl_attribution.py` | none | charge of a decision and of its settlement, attribution of errors | a decision is charged what was known; only news makes charge errors |
| `models/dataset.py`, `metrics.py`, `baselines.py` | none | frames, splits, scores, baselines | splits are chronological; scores agree with their definitions; baselines look back only |
| `ingest/external.py`, `monitoring/drift.py`, `config.py`, `io/catalog.py`, `models/sign.py`, `testing/*` | none to speak of | adapters, statistics, settings, fits | numeric |

How they interact: flows call the client (under a token lock), then `land` (reads all part
files, writes a new one), then the watermark file (under another lock). Several flows run at
once: the scheduled flow, a command-line backfill, the demo seeding. The landing zone is
shared between them without a lock. Features and targets read the landing zone through the
views while flows go on writing. Trainers (`retrain_check --apply`, `train_all_horizons`, or
anybody whose `ensure_models` finds nothing registered) rewrite the model files in place while
the API's threads and the batch jobs load them. `generate_bundle` calls the models, then the
decision policy, and the caller may write audit rows.

What is hard, and what the properties are for: the check of stored hashes and the write
that follows are not atomic; files are written under their final names, so a crash or a
reader in between meets half of one; publication time and fetch time differ, revisions
arrive late, and the portal can revise a value back; a pull can die in any window, between
landing and watermark, or resume from a mark that other pulls set; tokens age while they
travel; retries happen inside a lock; four files make one registered training; the daily cap
is applied after each row was sized, rounded and clipped.

`PROJECT.json` lists every component and its status, and every hazard at its line.

## 2. The plan

Done, in this order, most important first:

1. `Vintage`, `Ingest` with the abstract `VintageStore`: everything downstream rests on the
   landing zone and its views. Proved: `IngestProofs`.
2. `Watermark` (the file that `Ingest` abstracts to a cell). Proved: `WatermarkProofs`.
3. `TernaClient`. Proved: `ClientProofs`.
4. `Decision`: sizing, limits, daily cap. Proved: `DecisionProofs`.
5. `Registry`: models, trainers, API, batch jobs. Proved: `RegistryProofs`.
6. `Timebase` and `WalkForward`: decision times, features and targets as of a decision, the
   backtest of both policies, live forecasts over the same landing zone. Proved:
   `WalkForwardProofs`.
7. `Settlement`: charges from publication to settled audit rows, the audit log, attribution.
   Proved: `SettlementProofs`.
8. `Algorithms`: the pure parts (`ItalianCalendar`, `Normalize`, `Metrics`, `Economics`,
   `Baselines`) on bounded inputs against reference definitions. Proved: `AlgorithmsProofs`.

What could follow, and what it would take:

- A target row mixes preliminary and definitive values field by field
  (`targets.py`, `_FEE_DATASETS`), so a spread may subtract prices of two vintages. Ingest and
  WalkForward treat a day's outcome as one value; several fields for each row multiply the
  instances beyond what a run finishes.
- A composition of `Ingest` with the real watermark file, showing that the atomic mark of
  `Ingest` is what `Watermark` implements for one process.
- The frame of `Decision` with the calendar of `Timebase`: the daily cap's Rome day against the
  utilisation's UTC day (`inference.py:196`).

## 3. The modules

**Vintage** (`curate/vintage.py`). Rows with a `key` and a `pub`; `as_of_view(rows, t)` gives,
for each key, every row that may come out of `groupby.tail(1)`. The sort is not stable, so rows
with equal timestamps are all candidates: a view is any choice of one for each key.

**VintageStore**. What the landing zone promises: whoever lands a vintage, known by its payload
hash, holds it once, in one place, and it stays there. It says nothing about two who land the
same vintage: each may hold it.

**Ingest** (`flows.py`, `landing.py`, `storage.py`, the windows of `terna_client.fetch`). One
endpoint, several ingesters, a portal that publishes and revises. An ingester's steps are
those between which another one can run, or the process can die: enter (`ingest_endpoint`,
`backfill_endpoint` with resume), one request window after another (`FetchWindow`,
`FetchFails`), `LandReadHashes` (or `LandNothing`, `LandReadFails`), `LandCreate` (the file
appears under its name), `LandClose` (its footer makes it readable), `SetWatermark`. `Crash`
may follow each. A cell stands for all cells of one delivery day: `build_cells` treats them
alike. What matters is kept: whether the hash covers a Publication_Date (`payload_hash`), and
how the publication timestamp comes from it (`publication_ts`). `StampForm` says how the
portal prints it: with its zone, as a reading of the clocks of Rome without one (what the PRD
says of Terna's times), in a form of which the parser knows the date only (fractions of a
second, or no seconds), as a date, in a form that the parser does not know, or not at all. A
reading without a zone is taken for UTC; `RomeAhead` is by how much the clocks are ahead
at each instant, so they can be put forward and back. A date becomes midnight, and without a
time to parse the fetch time takes its place (`FetchedAt`), whose isoformat has
microseconds, unless they happen to be zero, and then becomes midnight too. A tick stands for
the time in which two publications can be told apart; one tick of lead of the clocks is the hour
or the two hours of Rome, and a day has as many ticks as the instance says. `at`, the
instant of publication itself, `due` and `confirmed` are observers that no action's guard
reads. The watermark is read and written in one step each.

**Watermark** (`watermark.py`). The file is text, truncated or garbled; `set_watermark` takes
the lock of its process, loads, and, if the value advances, truncates (`Open`) and writes
(`Write`); an exception gives the lock back. Reads take no lock. `Home` assigns threads to
processes; two unlocked writers can leave the tail of the longer text behind the shorter one.

**TernaClient** (`terna_client.py`). Threads, a token with the instant until which the portal
accepts it and the instant from which the client refreshes it, the lock held while a token is
asked for, `MaxRetries` attempts. Time passes in ticks, and no answer takes longer than
`Timeout`: the HTTP timeout, taken as a bound on the whole exchange. The portal counts a
token's lifetime from some instant between request and arrival, the client from the arrival.
That a GET leaves right after `bearer` returned is an assumption: no tick passes in between.

**Registry** (`registry.py`, `inference.ensure_models`, `retrain.py`, `api/main.py`, scripts).
One horizon: two model files and two metadata files, each absent, broken (partly written or
garbled) or whole, with the training it belongs to; initially nothing, or one training.
Workers are trainers, batch jobs and API threads. A save is eight steps, `Open` and `Close` of
each stage of `Stages`; when two workers write one file at a time, what is left is either's, or
broken. The API's cache and the age check of the retraining (its age is a fraction of days,
which is why the limit is reached as soon as the dates are `MaxAge` apart) are modelled; the
drift check's answer is open. `disturbed`, `torn` and `overlapped` are observers: whether a
load met a save, whether a save died since the last complete one, whether two saves overlapped
since the last one that had the files for itself.

**Decision** (`decision/*`). Amounts are integers: energy in hundredths, percentages, five
times what derives from the mean of five quantiles, so that nothing is rounded but what the
code rounds (to the grid, halves to even). `Recommend` is the whole of `recommend` on one
row: abstention, target, clip, CVaR stop, margin. `ApplyDailyCap` is the end of
`recommend_frame`: volumes become `delta * num / den`, bindings and margins change as the
code changes them. A configuration without a per-MTU cap is one with a large `MtuCap`.

**Timebase** (`timebase.py`, the decision times of `features/spec.py`). Instants count
settlement periods in UTC; `Midnights` is what the time zone database gives for the local
midnights. Wall clock readings skip or repeat `ShiftTick` on the days of a change, `fold` tells
a repeated one apart, and a decision falls at the same reading of every day, as the subtraction
of aware datetimes makes it. Resolutions are not modelled: a tick is a period.

**WalkForward** (`features/*`, `models/dataset.py`, `backtest/*`, `run_backtest.py`, and the
features of `generate_bundle`). The source publishes outcomes and revisions of days that are
over, pulls land the newest vintage of a day, late or never; meanwhile forecasts are made live,
and at some time a backtest starts over days that are over: folds one after the other, `Train`
(labels from the latest view, `time_split`) or `SkipFold`, `DecideDay` for each test day, then
the naive policy over the same folds without training. Landing goes on in between. `assemble`
is the feature store for one delivery day with the lagged targets; a row stands for a day's
outcome in all areas and fields, and its publication time, the one that the landing zone
records (Ingest says how that differs from the source's), tells its vintage. `complete`, `size`
and `published` are observers. Left out: features of training rows (the same `assemble` at
earlier decisions), residual load and calendar families, fits, and amounts. `Fold` is the fold
the backtest has come to; the list that `make_folds` returns is only walked through.

**Settlement** (`charges.py`, `generate_bundle`, `audit.py`, `pnl_attribution.py`). Charges of
periods are published (at the times that the landing zone records), revised and landed, models
are retrained, and callers (`POST /audit`, the dashboard's button, the shadow run) generate a
bundle of a day with the charges as of its decision, then `record` it: `Open` creates a part file under its name, which
is unreadable until `Close`. The same day can be recorded again. `settle` is the row that the
attribution makes from the latest charges. Of the policy only the position is kept: a unit of
volume if the spread is worth more than the charge. `fit` and `complete` are observers.

**ItalianCalendar** (`calendar_it.py`, `regimes.py` with `conf/regimes.yaml`), **Normalize**
(`normalize.py`), **Metrics** (`metrics.py`, the sorted fan of `spread.py`), **Economics**
(`charges.py`, `economic.py`, `sensitivity.py`, `pnl_attribution.py`), **Baselines**
(`baselines.py`, `dataset.time_split`, `train_baseline.py`): operators, no state. Days are
counted, a printed number is its marks and the size of its groups, rates and means keep their
denominators so that everything stays whole. **Amounts** has what they share. **Algorithms**
feeds them: a behaviour is a calendar that goes on, a number that gets longer, a sample, a book
or a frame that gets one more row. The regime that holds on a day before the first one's
start is the first one: its start is not a change, which
`WindowsWithinARegimeAreUniform` takes into account.

Each `MC` module gives an instance's values. In the models, an operator under a comment
"Faulty variant of X" is X with a plausible bug: it is used by nothing, and shows that a
property tells the bug from the code once it takes X's place.

## 4. The runs

All runs stop by themselves at the bounds on time, calls, revisions and so on; that is why
deadlock is not checked (the system itself stops only when nobody calls it any more).

| Run | Instance | Shows |
|---|---|---|
| Ingest | 2 ingesters, 2 values, 2 days of 2 ticks, windows of 1 day, clock 1-3, 2 revisions, 3 pulls, stamps by the clocks of Rome, which are put forward by a tick; 1.4 million states | provenance; no ingester stores a hash twice; finished pulls stay visible; no look-ahead; the latest view is the source's value; part files are final; implementation of `VintageStore` |
| WatermarkThreads | 2 threads of 1 process, 2 endpoints, 2 dates, 3 calls, crashes | no finished call is lost, every call ends (also those that raise) |
| Client | 2 threads, lifetimes 3 and 5, margin 2, timeout 1, 2 attempts, 3 requests; 180 thousand states | no request with an expired token, single refresh, every request ends |
| Registry | 1 trainer, 1 job, 1 API thread, at most 2 at work, 3 trainings, 2 days, age limit 2, crashes and server restarts, from nothing or from a registered training; 6.9 million states | a save that has the files for itself leaves one training, also after one that died or after two that overlapped; mixed pairs only around those; metadata is never ahead of its model; the check keeps only young models |
| WalkForward | 4 days of 4, 3, 5, 4 periods, horizons on the eve and on the day, folds of 2 days after 1, 2 areas, lags 1 and 2, 2 publications at 5 instants, 1 live forecast; 580 thousand states | periods and instants correspond; decisions see only the past; replay matches live; every day is decided once, by a model trained before it; splits are chronological |
| Decision | frames of 2 rows on one day or two; 5 fans (long, short, balanced, wide), 3 charges, 3 loads, with and without a sign probability; 150 thousand states | no losing trade, caps, worst case |
| Settlement | 2 callers, 2 periods of one day, 2 trainings with the same features, charges of -3 and 1, 2 publications, clock to 2, 2 part files, crashes; 1.8 million states | a decision made again from the data of its time is the same; what was recorded is found; only news makes charge errors |
| Algorithms | Easter 1900-2199, windows of up to 3 days in 2018-2028, printed numbers of up to 3 groups, samples of up to 4 rows, books of up to 3, training frames of up to 5; 520 thousand states | Easter against the *computus*; a window that does not touch a change of regime is uniform; printed numbers are read back; AUC, calibration, pinball loss and sorted fans, drawdown, GO criterion and attribution against their definitions; baselines look back only; holidays are counted down |
| IngestUnstamped, SettlementExplained, WalkForwardLabels, DecisionMargin | smallest instance with the case, or that of the passing run | where code and documentation disagree, see 5 |

Why these bounds are enough. *Ingest*: two revisions are two days with a value each, or one
day revised; three pulls let one abort, one land and one repeat, with the third of another
ingester in between; two one-day windows make a pull that can die between windows; two
ingesters are enough for a check and a write to interleave. Stamps without a zone are what the
documents announce; that they are one tick ahead before the clocks change and two afterwards makes
stored publication times differ from the true ones and from each other; the other forms, and clocks that are
put back, are in section 5. *Watermark*: two endpoints, so that
one's update can undo the other's. *Client*: a token can expire while another thread waits for
the lock, and each thread can fail twice. *Registry*: two workers at once are what it takes for
a save to meet a load or another save; with three at once the run would not finish, and
its properties are proved for any number. Three trainings let the start's be
replaced by a save that dies and then by one that does not; the API cache keeps one across
both. *WalkForward*: a tick is six hours, so that decisions at noon fall inside a day; the days
have both clock changes; two publications make a revision, or two known days of which one is
a test day; the instants include three decision times (5, 10, 14), where "before" and "not
after" differ; 8 rows are needed to train, which the short day alone does not have. *Decision*:
two rows are the least that share a daily cap; `MtuCap` 3 and `DailyCap` 4 let two clipped rows
exceed the day's cap; a grid of 2 rounds small positions both ways. *Settlement*: the decision
falls between the publications that the clock allows, so that a charge is known, late or new;
the two charges lie on both sides of zero, where the central scenario and the clipping of a
negative charge differ; two trainings are forecasts of opposite sign. *Algorithms*: 300 years contain every
branch of the *computus*, the years contain leap days and the regimes' dates, four rows are the
fewest with ties inside and across classes, three book rows have a fall and a recovery, five
frame rows split into parts of more than one row each.

Fairness. `WatermarkThreads` assumes that the operating system runs a thread that can run
(weak fairness of each thread's step; waiting for the lock is not a step). That is enough
because calls are bounded: whoever holds the lock gives it back, and comes back only so often.
Python's lock itself is not fair. `Client` assumes the same, and that a
request is answered or times out, which the HTTP timeout guarantees. New calls, the clock and
crashes are not fair. No other component promises that something will happen.

## 5. What the models show about the code

Runs that TLC finds violated, each quoted in `PROJECT.json`:

- **DecisionMargin** (`policy.py:170`): `delta_mwh` is overwritten with the capped volume before
  the ratio of capped to uncapped volume is formed. The ratio is always one, and on a day that
  hits the daily cap the reported expected margins are those of the uncapped volumes.
- **IngestUnstamped** (`landing.py:65`): a record without Publication_Date counts as published
  at midnight before its fetch, so a morning's as-of view shows what appeared in the afternoon.
  `LookaheadIsBelowADay` (section 6) bounds it for every form of the stamps.
- **WalkForwardLabels** (`walkforward.py:126`): a fold's models are fitted on the latest labels
  of every day up to the eve of its first test day. The D-1 decision for that day is taken on
  the eve, at nine: the eve's outcome is not even realised, the days before it are not
  published (the mock portal publishes preliminary values the morning after, definitive ones
  three days later), and later revisions are used throughout. Features are replayed as of the
  decision, but the models are better informed than any that could have been in service.
- **SettlementExplained** (`audit.py:81`): no caller passes features to `record`, and the version
  of a bundle is made of feature counts, quantiles and the horizon (`inference.py:158`), which a
  retraining does not change. Two rows of a period with the same recorded inputs hold
  different forecasts, although `audit.py:4-5` promises enough to reproduce a decision.

Behaviour that the same models exhibit under other constants, or with another formula stated
as an invariant of the instance:

- Two ingesters store one vintage twice (`NoHashTwice` without `fragments[i].by =
  fragments[j].by`): the check of the stored hashes and the write are not atomic
  (`landing.py:206-222`). The views are unaffected, which the Ingest run checks.
- A value revised and revised back is taken for its first vintage and never landed, if records
  have no Publication_Date (`landing.py:220`): `LatestViewIsSourceValue` with `StampForm =
  "none"` and three revisions. With two, and a day of two ticks, unstamped values fetched on one
  day tie, and the unstable sort may keep the older.
- A Publication_Date without a zone is a reading of the clocks of Rome (PRD, section on the
  fees API: "Timestamps are `Europe/Rome`"), and the parser takes it for UTC (`landing.py:62`). The stored
  publication is one or two hours late: nothing is seen early (`NoLookahead` holds), but a value stays
  invisible for that long after it was out, against `vintage.py:5-7` ("once it has been published"), and a backtest or a
  forecast at nine knows what was out at seven or eight only. In the hour that the clocks repeat in autumn a
  revision can have the stamp of what it revises, or an earlier one: with `RomeAhead <-
  PutBack` both `FinishedPullsStayVisible` and `LatestViewIsSourceValue` are violated.
- A stamp with fractions of a second or without seconds, and one that is a date only, become
  midnight of that day (`landing.py:65`): two vintages of a day tie, and with `StampForm =
  "fraction"` or `"day"` both properties are violated again. Whether a view shows values early depends on
  how far midnight is from the publication: with days of four ticks `NoLookahead` is violated.
  A stamp in any other form silently becomes the fetch time (`landing.py:103`), like none:
  with `StampForm = "unreadable"` `NoLookahead` is violated too. `StoredWasPublished` holds
  with every form.
- A resumed backfill skips days before the watermark that were never pulled (`flows.py:72`),
  although the watermark is called a hint only: `FinishedPullsStayVisible` with `Resume = TRUE`.
- A crash between `LandCreate` and `LandClose` leaves a part file that makes every later read
  of the dataset fail: `(\A w \in Ingesters : pc[w] # "close") => Readable`. Pulls with
  nothing to land still finish, and what they promised still holds. The audit log, which is
  written in the same way, behaves in the same way.
- Two processes lose each other's watermarks (`FinishedCallsAreRecorded` with `Processes =
  {1, 2}` and `Home <- ThreadsApart`).
- A crash between truncation and text leaves a watermark file on which every later
  `set_watermark` raises, after its pull has landed:
  `(\A t \in Threads : pc[t] # "write") => state = "text"`. A reader can meet the truncated
  file too: `\A t \in Threads : pc[t] # "failed"`.
- A load that meets a half-written model raises, since what joblib raises is not an OSError,
  and a crash leaves such a model for all later loads.
- Two saves of one horizon at once (two API threads that find nothing registered, or the
  API and a trainer) leave models of two trainings or unreadable files, until somebody saves
  alone: `SettledRegistryIsOneTraining` without the `overlapped` of `Quiet`.
- After a crash between the sign and the spread model's save, the age check sees a young sign
  model and keeps an old spread model (`ChecksKeepOnlyYoungModels` without the conjunct `Quiet`).
- With a negative offset (MI2) a decision covers all periods of its day, also those that are
  over: `\A x \in Decisions : x.asOf <= local_midnight_utc(x.day)` with `"MI2"` in `Horizons`.
  The backtest scores positions in them.
- A lag of d days is d times 24 hours: on the days of a clock change it is another reading of
  the wall clock, against `lags.py:51` ("exact same-time-of-day lag").
- The two policies of the ablation are not compared on the same days: the naive policy decides the
  days of skipped folds too, on which the models have no recommendation (`ablation.py:62`
  against `walkforward.py:126`), and is scored on outcomes that landed since the model run was.
  `phase = "done" => DecidedIn("naive") = DecidedIn("model")` and `phase = "done" =>
  scored["naive"] = scored["model"]` are violated in the WalkForward instance. `ablation.py:5-7` says
  "Everything downstream - charges, sizing, limits, scoring - is identical, so the
  comparison isolates the value of the models".
- The persistence baseline is not the documented one. It finds the day before only among the
  rows it is given, and the report gives it no test rows (`train_baseline.py:131-136`), so all
  test days but the first get the mean. `baselines.py:3` says "same MTU, previous day (realised
  value)" and line 6 "the realised previous-day outcome", the backtest protocol (line 22) "same MTU, previous day", and
  so does the PRD (section 8). By these words earlier test days should drive
  what it predicts for later ones; in the model, `baseline_report` does not change when any
  test outcome does. `BaselinesLookBack` is what the code and those words have in common. The day
  before is 24 hours before in UTC, which is not the same MTU across a clock change.
- A number with a single thousands mark and no decimals is read a thousand times too small
  ("1.234" as 1.234, in the Italian form 1234), and with more marks not at all
  (`normalize.py:38`): `PrintedNumbersAreReadBack` says that no other number is misread.
- A pull whose window crosses a change of regime asks for all its days in the data type of the
  first (`flows.py:36`): `requested_data_type(input.day, d) = terna_data_type(d)` for each `d` of
  the window fails for every such window, and, as `WindowsWithinARegimeAreUniform` says, for no other.
- A load between the two saves of a training returns a sign model and a spread model of different
  trainings (`inference.py:70, 94-95`): `PairsMixOnlyWhenDisturbed` without its observer.
- The audit log holds a row for each recording of a period (`audit.py:3`: "One row per (area,
  MTU, as_of)"), and the attribution counts each (`AttributionAgreesWithReport` holds for the
  rows as they are).
- The drawdown starts at the first day's cumulated result, so a loss on the first day is none
  (`DrawdownIsWorstStretch` says what it is: the worst stretch after the first day).

Read in the code, outside the models:

- A NaN forecast makes `int(np.sign(nan))` raise (`policy.py:76`, `sizing.py:49`) before
  `AbstainRule.check` could answer "no_forecast".
- `inference.py:119` replaces the price columns when only some of a day's prices are there;
  `inference.py:196` sums utilisation over a UTC day, while the cap was applied to a Rome day.
- The staleness report counts publications after its as-of. `build_cells_long` takes the start of
  a period for its publication if none is given.
- Folds do not start at changes of regime, which `regimes.py:3-4` announces.
- The report on a training scores the price with the realised market price, so its score is
  the spread's. `train_baseline.py --save` writes models without metadata, which the age
  check treats as absent.
- `balanced_accuracy` takes an absent class for recall 0; `value_weighted_sign_miss` averages over
  rows that abstained; the naive climatology of the ablation counts missing signs as
  negative.
- `seed_demo_data` says that it always retrains, and calls `ensure_models`, which does not when
  models are registered. Names of datasets that differ only in `/` and `__`, or `-` and `_`,
  make one DuckDB view.

## 6. The proofs

Each theorem holds for every value of the constants that meets the named assumptions of its
module, plus what the theorem itself assumes.

| Theorem | Assumes | Argument |
|---|---|---|
| `IngestTyped` | | types; the windows of a pull stay inside it |
| `ProvenanceHolds` | | every cell, in memory or in a part file, is the landed form of a revision (`CellsPublished`), for every form of the stamps |
| `WholePartsFinal` | | `PartOwned`: an ingester that is closing a file owns one that is incomplete and belongs to nobody else; `FragmentSteps` lists all that can happen to the files |
| `LandingIsIdempotent` | | `FreshIsNew`: what an ingester is about to write is in no part file of its own; that of another may get there first |
| `AloneStoresOnce` | one ingester | then no hash is stored twice at all |
| `LandingImplementsVintageStore` | | refinement: only `LandClose` adds holders, and only where their ingester had none; every other step stutters |
| `LookaheadIsBelowADay` | | for every form of the stamps: no stored publication is a day or more before the true one (`ProvenanceHolds`, from `PublicationBound`) |
| `ViewsDoNotLookAhead` | `Timed`: the parser reads the time of the stamps, with or without a zone | `CellsExact`: a cell stores what its stamp is taken for (`Told`), which is never before the true publication (`ToldBound`) |
| `FinishedPullsHold` | `Timed`, `InOrder` (a later publication has a later stamp: true but for the repeated hour in autumn), `~Resume` | `DeliveryInv`: for each revision that was current when the pull began, each stage of the pull holds it or something newer in the place where that stage keeps it: not yet asked for, in `cells`, in `fresh` or stored, in the part file |
| `LandingIsUpToDate` | `Timed`, `InOrder`, `~Resume` | from `DeliveryInv`, provenance, and that two records of a day differ in their instants (`RevisionsApart`) |
| `WatermarkTyped` | | types |
| `NoLostUpdate` | `OneHome` (one process) | `IInv`: whoever is past the lock holds it, its copy is the file as it is, and both contain every finished call |
| `ClientTyped` | | types, attempts bounded |
| `TokensOutliveRequests` | | `OnTime`: a request's token is good for a timeout after it was sent; uses that the margin covers two timeouts (`MarginAssumption`; 60 s and 30 s in the configuration) |
| `RefreshesAreSingle` | | `LockHeld`: whoever asks for a token holds the lock, and the token is due |
| `RegistryTyped` | | types of eight stages of save and of the other places |
| `LoneSavesMend` | | `LoneSaves`: what a save without company has left behind at each stage (`AloneAt`): files before its stage are of its training, those after it as they were. `FilesAreOfTrainings` bounds what a file can be of |
| `MetadataTrailsModels` | | from the same invariant: a model is written before its metadata |
| `KeptModelsAreYoung` | | `WholeFilesAreOfTrainings`, and `LoneSavesMend`: in a quiet registry the two models are of one training, so that the age of the first is that of both |
| `UndisturbedPairsMatch` | | `JobsLoadOneTraining`: a job that has loaded the sign model undisturbed finds the spread model still of that training |
| `DecisionTyped` | | recommendations are `Sound` and within the caps |
| `NoTradeLoses` | | `DecisionInv`: a volume points where the net edge points and its impact is no more than that edge (`Pays`). Rounding at most doubles a fraction (`RoundingAtMostDoubles`), twice the optimum is where the margin is zero (`TargetPays`), clipping and the daily cap only shorten. Uses that aggressiveness is at most one |
| `WorstCaseBounded` | | a volume's sign is the direction the CVaR was computed for, and the fan is sorted |
| `CapsAreKept` | | `CapInv`: volumes are within their caps as they are recommended, and what the last step scales by is the sum of the day's volumes (`DayVolume`, a fold over the frame) |
| `TimeBaseIsConsistent` | | days cover the calendar (`DaysCover`) and do not overlap, and within a day the wall clock is arithmetic (`WallClocksAreReadBack`) |
| `WalkForwardTyped` | | `TypedInv`: types, rows come from publications (`Sourced`) at instants that the day has (`Placed`) |
| `DecisionsAreBlindToTheFuture` | | as-of views have strictly older rows; the last observed outcome exists by a well-founded minimum (`LastObservedIsLast`) |
| `ModelsAreTrainedOnThePast`, `ValidationFollowsTraining` | | `Trained`: what the model of the current fold was fitted on, and where it was split |
| `DaysAreDecidedOnce` | | `WindowInv`: each run has decided the days between its first test day and where it is (`Windows`), each once (`Once`) |
| `ReplaysMatchForecasts` | | `Replays`: a feature as of a decision does not change when rows published later are landed, and equals the live one if all that was published had landed by then |
| `SettlementTyped` | | types |
| `DecisionsCanBeReplayed`, `ChargeErrorsNeedNews` | | `ReplayInv`: landed charges are published (`Sourced`), and every row, in a bundle or in the log, is the one that the published charges before its decision make, if they had landed (`Made`) |
| `ReturnedRowsStay` | | `OwnedInv`: a writing caller owns one incomplete part file; complete ones stay |

None of these invariants is inductive without the strengthening named: `NoHashTwice`, for
instance, survives `LandCreate` only because of what `LandReadHashes` decided some steps ago.

`AlgorithmsProofs` is of another kind. The inputs keep their types (`InputsTyped`), and what a
property says of an input follows from its type: the work is in the lemmas about the operators.

| Theorem | Argument |
|---|---|
| `EasterIsByTheMoon` | every day has its year (`YearOfADay`); the moon's age of the algorithm and the epact of the rule make up 23 or 53 (`MoonAndEpact`), the corrections of a century agree (`CenturyCorrections`), `m` is one in just the years whose epact the rule corrects (`MoonCorrection`), and the days add up to whole weeks (`WeeksAreWhole`). For every year, not only those of the run |
| `HolidaysCountDown` | the least distance of a set shifted by a day (`CountDown`), forwards and backwards |
| `WindowsAreUniform` | the regimes of `regimes.yaml`, and a change of data type between two days exactly where one begins (`ChangesOfRegime`) |
| `NumbersAreReadBack` | what `parse_number` does depends on the number of marks of each kind and on the last one (`ReadAs`, `CountsOfMarks`) |
| `AucCountsPairs` | twice a rank counts the rows below and up to a score (`RankCounts`); a sum over pairs is summed row by row (`SumOverPairs`), and among themselves n rows win n times n (`AmongThemselves`) |
| `CalibrationAccounts` | a sum over rows is a sum over bins (`BinsAddUp`), the triangle inequality (`SumTriangle`), and that of Cauchy and Schwarz (`SumOfSquares`) |
| `QuantilesScore` | the loss is linear in the level (`PinballIs`), and its slope at a price counts the outcomes up to it (`AboveSlopes`). A fan's loss is summed price by price (`FanIs`): above each price the sorted fan has as many levels as the raw one, and the highest ones (`SortedFan`, `TopHeavy`) |
| `DrawdownIsOfAStretch` | a stretch is a difference of running totals (`StretchIsADifference`), the drawdown the least of them (`DeepestFall`) |
| `LowerChargesKeepTheGo` | a row's P&L falls with the multiplier, since a negative charge is clipped (`ChargeMonotone`, `PnlFalls`) |
| `AttributionExplainsTheReport` | rows are explained one by one (`RowIsExplained`) and summed by day (`DaysAddUp`) |
| `BaselinesDoLookBack` | rows with another outcome keep their positions (`PositionsAreKept`), so the parts of the frame are the same but for them (`RevisedFrame`), and positions are in the order of time (`PartsFollowEachOther`) |

Sums are folds of the community modules, and `CapsAreKept` and most of these theorems need to
know what a fold over a set gives. The provers cannot use the library's induction theorems,
whose parameters are operators. What is used instead: a set of numbers has a least element
(`LeastExists`, from the well-foundedness of the naturals), so a set of subsets that has the
empty one, and with a subset each that is larger by one element, has the whole
(`GrowsToAll`). From it follow the laws of sums (`SumAdds`, `SumCombines`, `SumMonotone`,
`SumByParts`, `SumOverPairs`, `SumSwaps`), for sets and summands of every kind. The assumptions
on the constants are that sizes are natural numbers and years are positive, that the columns of
a row are integers or missing, and that the missing value is no integer (`SizesAssumption`,
`RowsAssumption`, `NaNAssumption`), besides the ranges of prices, charges, shares and levels
(`ScaleAssumption`, `ChargesAssumption`, `SplitAssumption`).

Only model-checked: liveness (`EveryCallEnds`, `EveryRequestEnds`), since TLAPS does not prove
liveness under fairness. Every invariant and every action property of the passing runs is
proved.

## 7. What is left out

- **Numeric parts without control state**: LightGBM fits and calibrators, which are open choices
  or constants where a model needs them; population stability, feature drift and staleness
  reports; the elasticity estimate; the Sharpe ratio; `eda_spread.py`.
- **Feature families** other than the lagged targets: residual load and calendar columns are
  deterministic functions of the frame or of the date; they are read through the same
  as-of views.
- **Pure I/O and presentation**: dashboard pages, report printing, DuckDB catalogue, settings,
  endpoint catalogue, external adapters, synthetic data. Where they matter to a model they are
  one of its workers.
- **Abstractions**: field values are opaque; the envelopes of the portal's answers and the
  length of backoff pauses are left out; a client retries "some failures" and
  not others, whichever status they have; a token is good until it expires (revocation is
  not modelled); a horizon stands for all, since they share no file.
- **Words**: the vocabulary of signs and of missing values that `parse_sign` and `coerce_str` know;
  of `parse_sign` the model has its numbers only, whose sign is what `parse_number` reads.
  The HTTP timeout is taken for a bound on a whole exchange, while the library applies it to
  the connection and to each read: an answer that trickles in can take longer.
- `land` with `dry_run`, the Prefect wrapper, and `ingest_targets` (the same pull for one
  endpoint after another) add no state.
