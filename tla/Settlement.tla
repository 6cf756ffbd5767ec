----------------------------- MODULE Settlement -----------------------------
(***************************************************************************)
(* From forecast bundles to settled audit rows: callers (the API's POST    *)
(* /audit, the dashboard's button, the shadow run) generate bundles and    *)
(* record them in the audit log (serve/inference.py, monitoring/audit.py)  *)
(* while charges are published, revised and landed and models retrained;   *)
(* the attribution of the dashboard settles the log with the latest view.  *)
(*                                                                         *)
(* One area.  Of the policy only the position matters here: one unit of    *)
(* volume in the direction of the expected spread if that is worth more    *)
(* than the charge; Decision has the volumes.                              *)
(***************************************************************************)
EXTENDS Economics, Vintage, Sequences

CONSTANTS
  Callers,       \* who records bundles
  Periods,       \* delivery periods
  DayOf,         \* the delivery day of each period
  AsOf,          \* the decision time of each delivery day
  Forecast,      \* the expected spread of each period by each training of the models
  Features,      \* the number of features each training has
  ChargeValues,  \* the charges the source publishes
  MaxTime,       \* bound: clock
  MaxCharges,    \* bound: published charges and their revisions
  MaxParts       \* bound: part files of the log

Trainings == DOMAIN Forecast
Days == {DayOf[p] : p \in Periods}

ASSUME SettlementAssumption ==
  /\ IsFiniteSet(Periods) /\ MaxTime \in Nat /\ MaxCharges \in Nat /\ MaxParts \in Nat
  /\ DayOf \in [Periods -> Nat] /\ AsOf \in [Days -> Nat]
  /\ Forecast \in [Trainings -> [Periods -> Int]] /\ Features \in [Trainings -> Nat]
  /\ ChargeValues \subseteq Int

VARIABLES
  now,        \* the clock
  published,  \* observer: every charge the source has published
  landed,     \* the rows of the charges' dataset
  training,   \* which training's models are registered
  pc,         \* pc[c]: "idle", "ready" with a bundle, "writing" a part file
  bundle,     \* bundle[c]: rows in memory
  part,       \* part[c]: the part file c writes
  log,        \* the audit log: part files with their rows
  returned    \* observer: the rows whose identifiers were returned to a caller

source == <<now, published, landed, training>>
vars == <<source, pc, bundle, part, log, returned>>

Charge == [key : Periods, pub : Nat, value : ChargeValues]

---------------------------------------------------------------------------
(* The source, the landing zone and the registry *)

Tick ==
  /\ now < MaxTime
  /\ now' = now + 1
  /\ UNCHANGED <<published, landed, training, pc, bundle, part, log, returned>>

\* The source publishes or revises the charge of a period.
Publish(p, v) ==
  /\ Cardinality(published) < MaxCharges
  /\ \A r \in published : r.key = p => r.pub < now
  /\ published' = published \cup {[key |-> p, pub |-> now, value |-> v]}
  /\ UNCHANGED <<now, landed, training, pc, bundle, part, log, returned>>

\* A pull lands the charge the source serves for a period, its newest.
Land(r) ==
  /\ r \in latest_view(published) \ landed
  /\ landed' = landed \cup {r}
  /\ UNCHANGED <<now, published, training, pc, bundle, part, log, returned>>

\* save_model replaces the models of the horizon.
Retrain(m) ==
  /\ training # m
  /\ training' = m
  /\ UNCHANGED <<now, published, landed, pc, bundle, part, log, returned>>

---------------------------------------------------------------------------
(* Bundles *)

\* The published charge of a period in a view.
ChargeIn(view, p) ==
  IF \E r \in view : r.key = p THEN (CHOOSE r \in view : r.key = p).value ELSE NaN

\* Faulty variant of DecisionCharges: the latest view decides.
LatestCharges(asOf) == latest_view(landed)

\* The charges a decision may know.
DecisionCharges(asOf) == as_of_view(landed, asOf)

\* The charge must leave something of the spread.
Position(e_spread, charge) == IF 10 * Absolute(e_spread) > charge THEN SignOf(e_spread) ELSE 0

\* model_version: what was counted, not which training it was.
model_version(m) == [n_features |-> Features[m]]

\* One row.  fit and complete are observers: which models made it, and whether all
\* charges published before the decision had landed.
recommend(p) ==
  LET asOf == AsOf[DayOf[p]]
      e_spread == Forecast[training][p]
      charge == charge_per_mwh(ChargeIn(DecisionCharges(asOf), p), Central)
  IN  [period |-> p, as_of |-> asOf, e_spread |-> e_spread, charge |-> charge,
       delta |-> Position(e_spread, charge), version |-> model_version(training),
       fit |-> training,
       complete |-> asOf <= now /\ as_of_view(published, asOf) \subseteq landed]

generate_bundle(c, d) ==
  /\ pc[c] # "writing"
  /\ bundle' = [bundle EXCEPT ![c] = {recommend(p) : p \in {q \in Periods : DayOf[q] = d}}]
  /\ pc' = [pc EXCEPT ![c] = "ready"]
  /\ UNCHANGED <<source, part, log, returned>>

---------------------------------------------------------------------------
(* The audit log *)

\* Faulty variant of Open: the name is made of a clock that stood still.
OpenSameName(c) ==
  /\ pc[c] = "ready"
  /\ log' = IF log = <<>> THEN <<[rows |-> bundle[c], whole |-> FALSE]>>
            ELSE [log EXCEPT ![1] = [rows |-> bundle[c], whole |-> FALSE]]
  /\ part' = [part EXCEPT ![c] = 1]
  /\ pc' = [pc EXCEPT ![c] = "writing"]
  /\ UNCHANGED <<source, bundle, returned>>

\* record opens a part file of a name of its own ...
Open(c) ==
  /\ pc[c] = "ready"
  /\ Len(log) < MaxParts
  /\ log' = Append(log, [rows |-> bundle[c], whole |-> FALSE])
  /\ part' = [part EXCEPT ![c] = Len(log) + 1]
  /\ pc' = [pc EXCEPT ![c] = "writing"]
  /\ UNCHANGED <<source, bundle, returned>>

\* ... and returns the identifiers once it is written.  The bundle stays: the dashboard
\* can record it again.
Close(c) ==
  /\ pc[c] = "writing"
  /\ log' = [log EXCEPT ![part[c]].whole = TRUE]
  /\ returned' = returned \cup {[id |-> <<part[c], x.period>>, row |-> x] : x \in bundle[c]}
  /\ pc' = [pc EXCEPT ![c] = "ready"]
  /\ part' = [part EXCEPT ![c] = 0]
  /\ UNCHANGED <<source, bundle>>

record(c) == Open(c) \/ Close(c)

\* The caller's process dies, in the middle of a part file perhaps.
Crash(c) ==
  /\ pc[c] # "idle"
  /\ pc' = [pc EXCEPT ![c] = "idle"]
  /\ bundle' = [bundle EXCEPT ![c] = {}]
  /\ part' = [part EXCEPT ![c] = 0]
  /\ UNCHANGED <<source, log, returned>>

\* read concatenates all part files; one without its footer makes it raise.
Readable == \A i \in DOMAIN log : log[i].whole

\* The rows of the log by their identifiers.
Rows ==
  UNION {{[id |-> <<i, x.period>>, row |-> x] : x \in log[i].rows} : i \in {j \in DOMAIN log : log[j].whole}}

get(id) == {x.row : x \in {y \in Rows : y.id = id}}

---------------------------------------------------------------------------
(* Settlement: build_actuals and the join of attribute *)

\* Faulty variant of SettlementCharges: the first vintage of a charge is final.
FirstCharges == {r \in landed : \A s \in landed : s.key = r.key => r.pub <= s.pub}

SettlementCharges == latest_view(landed)

\* The part of a settled row that its charge error depends on; spreads are settled in
\* Algorithms.
settle(x) ==
  [delta |-> x.delta, charge |-> x.charge, published |-> ChargeIn(SettlementCharges, x.period)]

---------------------------------------------------------------------------
Init ==
  /\ now = 0 /\ published = {} /\ landed = {}
  /\ training \in Trainings
  /\ pc = [c \in Callers |-> "idle"]
  /\ bundle = [c \in Callers |-> {}]
  /\ part = [c \in Callers |-> 0]
  /\ log = <<>> /\ returned = {}

World ==
  \/ Tick
  \/ \E p \in Periods, v \in ChargeValues : Publish(p, v)
  \/ \E r \in published : Land(r)
  \/ \E m \in Trainings : Retrain(m)

Step(c) == (\E d \in Days : generate_bundle(c, d)) \/ record(c) \/ Crash(c)

Next == World \/ \E c \in Callers : Step(c)

Spec == Init /\ [][Next]_vars

---------------------------------------------------------------------------
(* Properties *)

Row ==
  [period : Periods, as_of : Nat, e_spread : Int, charge : Int, delta : {-1, 0, 1},
   version : [n_features : Nat], fit : Trainings, complete : BOOLEAN]

TypeOK ==
  /\ now \in 0..MaxTime
  /\ published \subseteq Charge /\ landed \subseteq published
  /\ training \in Trainings
  /\ pc \in [Callers -> {"idle", "ready", "writing"}]
  /\ bundle \in [Callers -> SUBSET Row]
  /\ part \in [Callers -> Nat]
  /\ log \in Seq([rows : SUBSET Row, whole : BOOLEAN])

\* The rows of the log that a decision made with all there was to know.
Complete == {x \in Rows : x.row.complete}

\* A decision generated again, at any later time, by the same models and with everything
\* landed is the decision that was made (audit.py:3-5, inference.py:154-157): its charge
\* is the one that was known at the decision time.
DecisionsReplay ==
  \A x, y \in Complete :
    x.row.period = y.row.period /\ x.row.fit = y.row.fit => x.row = y.row

\* What a caller was told is recorded is found, unchanged, by whoever reads the log
\* later (audit.py:89-102) and meets no unfinished part file: callers do not write the
\* same file, and none is written twice.
ReturnedRowsAreFound ==
  /\ Readable => \A x \in returned : get(x.id) = {x.row}
  /\ \A c, d \in Callers : c # d /\ pc[c] = "writing" /\ pc[d] = "writing" => part[c] # part[d]

\* The attribution (pnl_attribution.py:8-11) blames the charge only for news: a row that
\* knew all there was to know has a charge error only if a charge of its period was
\* published at or after its decision.
ChargeErrorsAreNews ==
  \A x \in Complete :
    LET news == {r \in published : r.key = x.row.period /\ r.pub >= x.row.as_of}
    IN  news = {} => err_charge(settle(x.row)) = 0

\* audit.py:3-5: a row holds enough to reproduce or explain its decision.  No caller
\* passes features to record, so all it holds of the inputs of a forecast is the version
\* of the models: with the same version, a period has one forecast.
DecisionsAreExplained ==
  \A x, y \in Rows :
    x.row.period = y.row.period /\ x.row.version = y.row.version =>
      x.row.e_spread = y.row.e_spread

=============================================================================
