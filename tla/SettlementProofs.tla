-------------------------- MODULE SettlementProofs --------------------------
(***************************************************************************)
(* Theorems about bundles and the audit log, for any number of callers,    *)
(* periods, charges and trainings: a decision can be made again, the rows  *)
(* a caller was told of are found, and a charge error is news.             *)
(***************************************************************************)
EXTENDS Settlement, SequenceTheorems, TLAPS

Part == [rows : SUBSET Row, whole : BOOLEAN]

---------------------------------------------------------------------------
(* Amounts and types *)

LEMMA ChargesAreIntegers ==
  ASSUME NEW v \in ChargeValues \cup {NaN}
  PROVE  charge_per_mwh(v, Central) \in Int
  BY ChargesAssumption, SettlementAssumption DEF charge_per_mwh, Central, Absolute

LEMMA ChargeInTyped ==
  ASSUME NEW view, view \subseteq Charge, NEW p
  PROVE  ChargeIn(view, p) \in ChargeValues \cup {NaN}
<1>1. CASE \E r \in view : r.key = p
  <2> DEFINE r == CHOOSE r \in view : r.key = p
  <2>1. r \in view
    BY <1>1
  <2>. QED
    BY <1>1, <2>1 DEF ChargeIn, Charge
<1>2. CASE ~ \E r \in view : r.key = p
  BY <1>2 DEF ChargeIn
<1>. QED
  BY <1>1, <1>2

LEMMA PositionTyped ==
  ASSUME NEW e \in Int, NEW c \in Int
  PROVE  Position(e, c) \in {-1, 0, 1}
  BY DEF Position, SignOf

LEMMA TimesTyped ==
  ASSUME NEW p \in Periods
  PROVE  DayOf[p] \in Days /\ AsOf[DayOf[p]] \in Nat
  BY SettlementAssumption DEF Days

LEMMA RecommendTyped ==
  ASSUME TypeOK, NEW p \in Periods
  PROVE  recommend(p) \in Row
<1> DEFINE asOf == AsOf[DayOf[p]]
           published_charge == ChargeIn(DecisionCharges(asOf), p)
           charge == charge_per_mwh(published_charge, Central)
           known == asOf <= now /\ as_of_view(published, asOf) \subseteq landed
<1>1. asOf \in Nat
  BY TimesTyped
<1>2. DecisionCharges(asOf) \subseteq Charge
  BY DEF TypeOK, DecisionCharges, as_of_view, Latest, Visible
<1>3. charge \in Int
  <2> HIDE DEF charge
  <2>1. published_charge \in ChargeValues \cup {NaN}
    BY <1>2, ChargeInTyped
  <2>. QED
    BY <2>1, ChargesAreIntegers DEF charge
<1>4. training \in Trainings /\ Forecast[training][p] \in Int
  BY SettlementAssumption DEF TypeOK, Trainings
<1>5. model_version(training) \in [n_features : Nat]
  BY <1>4, SettlementAssumption DEF model_version
<1>6. Position(Forecast[training][p], charge) \in {-1, 0, 1}
  BY <1>3, <1>4, PositionTyped
<1>7. known \in BOOLEAN
  BY Zenon
<1>8. recommend(p) =
        [period |-> p, as_of |-> asOf, e_spread |-> Forecast[training][p], charge |-> charge,
         delta |-> Position(Forecast[training][p], charge),
         version |-> model_version(training), fit |-> training, complete |-> known]
  BY Zenon DEF recommend
<1> HIDE DEF asOf, charge, known
<1>. QED
  BY <1>1, <1>3, <1>4, <1>5, <1>6, <1>7, <1>8 DEF Row

---------------------------------------------------------------------------
(* Types *)

LEMMA InitTyped == Init => TypeOK
<1> SUFFICES ASSUME Init PROVE TypeOK
  OBVIOUS
<1>1. now \in 0..MaxTime
  BY SettlementAssumption DEF Init
<1>2. log \in Seq(Part)
  BY DEF Init
<1>. QED
  BY <1>1, <1>2 DEF Init, TypeOK, Part

\* A part file opened, and one finished.
LEMMA PartsAreTyped ==
  ASSUME TypeOK
  PROVE  /\ \A c \in Callers : Append(log, [rows |-> bundle[c], whole |-> FALSE]) \in Seq(Part)
         /\ \A i : [log EXCEPT ![i].whole = TRUE] \in Seq(Part)
<1>1. \A c \in Callers : [rows |-> bundle[c], whole |-> FALSE] \in Part
  BY DEF TypeOK, Part
<1>2. log \in Seq(Part)
  BY DEF TypeOK, Part
<1>3. ASSUME NEW i PROVE [log EXCEPT ![i].whole = TRUE] \in Seq(Part)
  <2>1. log \in [1..Len(log) -> Part] /\ Len(log) \in Nat
    BY <1>2
  <2>2. \A j \in 1..Len(log) : [log[j] EXCEPT !.whole = TRUE] \in Part
    BY <2>1 DEF Part
  <2>3. [log EXCEPT ![i].whole = TRUE] \in [1..Len(log) -> Part]
    BY <2>1, <2>2
  <2>4. \A g \in [1..Len(log) -> Part] : g \in Seq(Part)
    BY <2>1
  <2>. QED
    BY <2>3, <2>4
<1>4. ASSUME NEW c \in Callers PROVE Append(log, [rows |-> bundle[c], whole |-> FALSE]) \in Seq(Part)
  BY <1>1, <1>2
<1>. QED
  BY <1>3, <1>4, Zenon

LEMMA NextTyped == TypeOK /\ [Next]_vars => TypeOK'
<1> SUFFICES ASSUME TypeOK, [Next]_vars PROVE TypeOK'
  OBVIOUS
<1> USE DEF Part
<1>1. CASE Tick
  BY <1>1, SettlementAssumption DEF Tick, TypeOK
<1>2. ASSUME NEW p \in Periods, NEW v \in ChargeValues, Publish(p, v) PROVE TypeOK'
  <2>1. now \in Nat
    BY SettlementAssumption DEF TypeOK
  <2>2. [key |-> p, pub |-> now, value |-> v] \in Charge
    BY <2>1 DEF Charge
  <2>. QED
    BY <1>2, <2>2 DEF Publish, TypeOK
<1>3. ASSUME NEW r \in published, Land(r) PROVE TypeOK'
  BY <1>3 DEF Land, TypeOK
<1>4. ASSUME NEW m \in Trainings, Retrain(m) PROVE TypeOK'
  BY <1>4 DEF Retrain, TypeOK
<1>5. ASSUME NEW c \in Callers, NEW d \in Days, generate_bundle(c, d) PROVE TypeOK'
  <2>1. {recommend(p) : p \in {q \in Periods : DayOf[q] = d}} \subseteq Row
    BY RecommendTyped
  <2>2. bundle' \in [Callers -> SUBSET Row]
    BY <1>5, <2>1 DEF generate_bundle, TypeOK
  <2>. QED
    BY <1>5, <2>2 DEF generate_bundle, source, TypeOK
<1>6. ASSUME NEW c \in Callers, Open(c) PROVE TypeOK'
  <2>1. log' \in Seq(Part)
    BY <1>6, PartsAreTyped DEF Open
  <2>2. Len(log) + 1 \in Nat
    BY DEF TypeOK
  <2>. QED
    BY <1>6, <2>1, <2>2 DEF Open, source, TypeOK
<1>7. ASSUME NEW c \in Callers, Close(c) PROVE TypeOK'
  <2>1. log' \in Seq(Part)
    BY <1>7, PartsAreTyped DEF Close
  <2>. QED
    BY <1>7, <2>1 DEF Close, source, TypeOK
<1>8. ASSUME NEW c \in Callers, Crash(c) PROVE TypeOK'
  BY <1>8 DEF Crash, source, TypeOK
<1>9. CASE UNCHANGED vars
  BY <1>9 DEF vars, source, TypeOK
<1>. QED
  BY <1>1, <1>2, <1>3, <1>4, <1>5, <1>6, <1>7, <1>8, <1>9 DEF Next, World, Step, record

\* Every variable keeps its type in every behaviour.
THEOREM SettlementTyped == Spec => []TypeOK
<1>1. Init => TypeOK
  BY InitTyped
<1>2. TypeOK /\ [Next]_vars => TypeOK'
  BY NextTyped
<1>. QED
  BY <1>1, <1>2, PTL DEF Spec

---------------------------------------------------------------------------
(* The charges that are published, and what a decision knew of them *)

\* What was published so far: no two vintages of a charge share their time, and of what
\* a decision time shows of a charge one is the latest.
Sourced ==
  /\ \A r \in published : r.pub <= now
  /\ \A r, s \in published : r.key = s.key /\ r.pub = s.pub => r = s
  /\ \A asOf \in Nat : \A r \in Visible(published, asOf) :
       \E s \in as_of_view(published, asOf) : s.key = r.key

\* What the source published of charges before a decision time.
Known(asOf) == as_of_view(published, asOf)

\* How a row was made.
Made(x) ==
  /\ x.as_of = AsOf[DayOf[x.period]]
  /\ x.e_spread = Forecast[x.fit][x.period]
  /\ x.version = model_version(x.fit)
  /\ x.delta = Position(x.e_spread, x.charge)
  /\ x.complete => /\ x.as_of <= now
                   /\ Known(x.as_of) \subseteq landed
                   /\ x.charge = charge_per_mwh(ChargeIn(Known(x.as_of), x.period), Central)

AllMade ==
  /\ \A c \in Callers : \A x \in bundle[c] : Made(x)
  /\ \A i \in DOMAIN log : \A x \in log[i].rows : Made(x)

\* When what is known has landed, the landed charges show just what is known.
LEMMA LandedShowsKnown ==
  ASSUME TypeOK, Sourced, NEW asOf \in Nat, Known(asOf) \subseteq landed
  PROVE  as_of_view(landed, asOf) = Known(asOf)
<1> USE DEF Known, as_of_view, Latest, Visible
<1>1. landed \subseteq published /\ \A r \in published : r.pub \in Nat
  BY DEF TypeOK, Charge
<1>2. ASSUME NEW r \in Known(asOf) PROVE r \in as_of_view(landed, asOf)
  BY <1>1, <1>2
<1>3. ASSUME NEW r \in as_of_view(landed, asOf) PROVE r \in Known(asOf)
  <2>1. r \in Visible(published, asOf)
    BY <1>1, <1>3
  <2>2. PICK s \in Known(asOf) : s.key = r.key
    BY <2>1 DEF Sourced
  <2>3. s \in landed /\ s.pub <= r.pub
    BY <1>3, <2>2
  <2>4. ASSUME NEW t \in Visible(published, asOf), t.key = r.key PROVE t.pub <= r.pub
    <3>1. t.pub <= s.pub
      BY <2>2, <2>4
    <3>. QED
      BY <1>1, <2>3, <2>4, <3>1
  <2>. QED
    BY <2>1, <2>4
<1>. QED
  BY <1>2, <1>3

\* A row just made is made as every row is.
LEMMA RecommendMade ==
  ASSUME TypeOK, Sourced, NEW p \in Periods
  PROVE  Made(recommend(p)) /\ recommend(p).period = p
<1> DEFINE asOf == AsOf[DayOf[p]]
           charge == charge_per_mwh(ChargeIn(DecisionCharges(asOf), p), Central)
           known == asOf <= now /\ as_of_view(published, asOf) \subseteq landed
           x == recommend(p)
<1>1. asOf \in Nat
  BY TimesTyped
<1>2. /\ x.period = p /\ x.as_of = asOf /\ x.e_spread = Forecast[training][p]
      /\ x.charge = charge /\ x.delta = Position(Forecast[training][p], charge)
      /\ x.version = model_version(training) /\ x.fit = training
  BY DEF recommend
<1>3. x.complete = known
  BY Zenon DEF recommend
<1>4. ASSUME known PROVE charge = charge_per_mwh(ChargeIn(Known(asOf), p), Central)
  <2>1. DecisionCharges(asOf) = Known(asOf)
    BY <1>1, <1>4, LandedShowsKnown DEF Known, DecisionCharges
  <2>. QED
    BY <2>1
<1> HIDE DEF asOf, charge, x
<1>5. x.complete => /\ x.as_of <= now
                    /\ Known(x.as_of) \subseteq landed
                    /\ x.charge = charge_per_mwh(ChargeIn(Known(x.as_of), x.period), Central)
  BY <1>2, <1>3, <1>4 DEF Known
<1>6. Made(x) /\ x.period = p
  BY <1>2, <1>5 DEF Made, asOf
<1>. QED
  BY <1>6 DEF x

\* Publishing keeps what is said of the source, and adds nothing to what a decision
\* of the past could know.
LEMMA PublishSourced ==
  ASSUME TypeOK, Sourced, NEW p \in Periods, NEW v \in ChargeValues, Publish(p, v)
  PROVE  /\ Sourced'
         /\ \A asOf \in Nat : asOf <= now => Known(asOf)' = Known(asOf)
<1> DEFINE new == [key |-> p, pub |-> now, value |-> v]
<1>1. now \in Nat /\ now' = now /\ published' = published \cup {new}
  BY SettlementAssumption DEF TypeOK, Publish
<1>2. \A r \in published : r.pub \in Nat /\ r.pub <= now /\ (r.key = p => r.pub < now)
  BY <1>1 DEF TypeOK, Charge, Sourced, Publish
<1>3. new.key = p /\ new.pub = now
  OBVIOUS
<1> HIDE DEF new
<1>4. ASSUME NEW asOf \in Nat, asOf <= now PROVE Visible(published', asOf) = Visible(published, asOf)
  BY <1>1, <1>3, <1>4 DEF Visible
<1>5. ASSUME NEW asOf \in Nat, asOf <= now PROVE Known(asOf)' = Known(asOf)
  BY <1>4, <1>5 DEF Known, as_of_view
<1>6. (\A r \in published : r.pub <= now)'
  BY <1>1, <1>2, <1>3
<1>7. (\A r, s \in published : r.key = s.key /\ r.pub = s.pub => r = s)'
  BY <1>1, <1>2, <1>3 DEF Sourced
<1>8. ASSUME NEW asOf \in Nat, NEW r \in Visible(published', asOf)
      PROVE  \E s \in as_of_view(published', asOf) : s.key = r.key
  <2>1. CASE asOf <= now
    <3>1. r \in Visible(published, asOf)
      BY <1>4, <1>8, <2>1
    <3>2. PICK s \in as_of_view(published, asOf) : s.key = r.key
      BY <3>1 DEF Sourced
    <3>. QED
      BY <1>4, <2>1, <3>2 DEF as_of_view
  <2>2. CASE asOf > now /\ r.key = p
    <3>1. new \in as_of_view(published', asOf)
      BY <1>1, <1>2, <1>3, <2>2 DEF as_of_view, Latest, Visible
    <3>. QED
      BY <1>3, <2>2, <3>1
  <2>3. CASE asOf > now /\ r.key # p
    <3>1. r \in Visible(published, asOf)
      BY <1>1, <1>3, <1>8, <2>3 DEF Visible
    <3>2. PICK s \in as_of_view(published, asOf) : s.key = r.key
      BY <3>1 DEF Sourced
    <3>3. s \in as_of_view(published', asOf)
      BY <1>1, <1>3, <2>3, <3>2 DEF as_of_view, Latest, Visible
    <3>. QED
      BY <3>2, <3>3
  <2>. QED
    BY <1>1, <2>1, <2>2, <2>3
<1>9. (\A asOf \in Nat : \A r \in Visible(published, asOf) :
         \E s \in as_of_view(published, asOf) : s.key = r.key)'
  BY <1>8
<1>. QED
  BY <1>5, <1>6, <1>7, <1>9 DEF Sourced

---------------------------------------------------------------------------
(* Decisions replay *)

ReplayInv == TypeOK /\ Sourced /\ AllMade

LEMMA InitReplay == Init => ReplayInv
<1> SUFFICES ASSUME Init PROVE ReplayInv
  OBVIOUS
<1>1. TypeOK
  BY InitTyped
<1>2. Sourced
  BY DEF Init, Sourced, Visible
<1>3. AllMade
  BY DEF Init, AllMade
<1>. QED
  BY <1>1, <1>2, <1>3 DEF ReplayInv

\* A step that keeps what decisions of the past know keeps how rows were made.
LEMMA MadeStaysMade ==
  ASSUME TypeOK, NEW x \in Row, Made(x), now \in Nat, now' \in Nat, now <= now',
         landed \subseteq landed',
         \A asOf \in Nat : asOf <= now => Known(asOf)' = Known(asOf)
  PROVE  Made(x)'
<1>1. x.as_of \in Nat
  BY DEF Row
<1>2. ASSUME x.complete
      PROVE  /\ x.as_of <= now'
             /\ Known(x.as_of)' \subseteq landed'
             /\ x.charge = charge_per_mwh(ChargeIn(Known(x.as_of)', x.period), Central)
  <2>1. x.as_of <= now /\ Known(x.as_of) \subseteq landed
        /\ x.charge = charge_per_mwh(ChargeIn(Known(x.as_of), x.period), Central)
    BY <1>2 DEF Made
  <2>2. Known(x.as_of)' = Known(x.as_of)
    BY <1>1, <2>1
  <2>. QED
    BY <1>1, <2>1, <2>2
<1>. QED
  BY <1>2 DEF Made

LEMMA RowsAreTyped ==
  ASSUME TypeOK
  PROVE  /\ \A c \in Callers : bundle[c] \subseteq Row
         /\ \A i \in DOMAIN log : log[i].rows \subseteq Row /\ log[i].whole \in BOOLEAN
<1>1. log \in Seq(Part)
  BY DEF TypeOK, Part
<1>2. \A i \in DOMAIN log : log[i] \in Part
  BY <1>1
<1>. QED
  BY <1>2 DEF TypeOK, Part

LEMMA NextReplay == ReplayInv /\ [Next]_vars => ReplayInv'
<1> SUFFICES ASSUME ReplayInv, [Next]_vars PROVE ReplayInv'
  OBVIOUS
<1>. TypeOK /\ Sourced /\ AllMade
  BY DEF ReplayInv
<1>. TypeOK'
  BY NextTyped
<1>a. now \in Nat /\ now' \in Nat
  BY SettlementAssumption DEF TypeOK
\* The world moves while the rows stay.
<1>b. ASSUME UNCHANGED <<bundle, log>>, now <= now', landed \subseteq landed',
             \A asOf \in Nat : asOf <= now => Known(asOf)' = Known(asOf)
      PROVE  AllMade'
  <2>1. ASSUME NEW c \in Callers, NEW x \in bundle[c] PROVE Made(x)'
    BY <1>a, <1>b, <2>1, RowsAreTyped, MadeStaysMade DEF AllMade
  <2>2. ASSUME NEW i \in DOMAIN log, NEW x \in log[i].rows PROVE Made(x)'
    BY <1>a, <1>b, <2>2, RowsAreTyped, MadeStaysMade DEF AllMade
  <2>. QED
    BY <1>b, <2>1, <2>2 DEF AllMade
\* The rows change while the world stays.
<1>c. ASSUME UNCHANGED source PROVE Sourced' /\ \A x : Made(x)' = Made(x)
  BY <1>c DEF source, Sourced, Made, Known
<1>1. CASE Tick
  <2>1. now' = now + 1 /\ UNCHANGED <<published, landed, bundle, log>>
    BY <1>1 DEF Tick
  <2>2. \A r \in published : r.pub \in Nat
    BY DEF TypeOK, Charge
  <2>3. Sourced'
    BY <1>a, <2>1, <2>2 DEF Sourced
  <2>4. AllMade'
    BY <1>a, <1>b, <2>1 DEF Known
  <2>. QED
    BY <2>3, <2>4 DEF ReplayInv
<1>2. ASSUME NEW p \in Periods, NEW v \in ChargeValues, Publish(p, v) PROVE ReplayInv'
  <2>1. UNCHANGED <<now, landed, bundle, log>>
    BY <1>2 DEF Publish
  <2>2. Sourced' /\ \A asOf \in Nat : asOf <= now => Known(asOf)' = Known(asOf)
    BY <1>2, PublishSourced
  <2>3. AllMade'
    BY <1>a, <1>b, <2>1, <2>2
  <2>. QED
    BY <2>2, <2>3 DEF ReplayInv
<1>3. ASSUME NEW r \in published, Land(r) PROVE ReplayInv'
  <2>1. UNCHANGED <<now, published, bundle, log>> /\ landed \subseteq landed'
    BY <1>3 DEF Land
  <2>2. Sourced'
    BY <2>1 DEF Sourced
  <2>3. AllMade'
    BY <1>a, <1>b, <2>1 DEF Known
  <2>. QED
    BY <2>2, <2>3 DEF ReplayInv
<1>4. ASSUME NEW m \in Trainings, Retrain(m) PROVE ReplayInv'
  <2>1. UNCHANGED <<now, published, landed, bundle, log>>
    BY <1>4 DEF Retrain
  <2>2. Sourced'
    BY <2>1 DEF Sourced
  <2>3. AllMade'
    BY <1>a, <1>b, <2>1 DEF Known
  <2>. QED
    BY <2>2, <2>3 DEF ReplayInv
<1>5. ASSUME NEW c \in Callers, NEW d \in Days, generate_bundle(c, d) PROVE ReplayInv'
  <2>1. UNCHANGED source /\ UNCHANGED log
    BY <1>5 DEF generate_bundle
  <2>2. \A e \in Callers : \A x \in bundle'[e] :
           x \in bundle[e] \/ \E p \in Periods : x = recommend(p)
    BY <1>5 DEF generate_bundle, TypeOK
  <2>3. \A e \in Callers : \A x \in bundle'[e] : Made(x)
    BY <2>2, RecommendMade DEF AllMade
  <2>. QED
    BY <1>c, <2>1, <2>3 DEF AllMade, ReplayInv
<1>6. ASSUME NEW c \in Callers, Open(c) PROVE ReplayInv'
  <2>1. UNCHANGED source /\ UNCHANGED bundle
    BY <1>6 DEF Open
  <2>2. ASSUME NEW i \in DOMAIN log', NEW x \in log'[i].rows PROVE Made(x)
    <3>1. (i \in DOMAIN log /\ log'[i] = log[i]) \/ log'[i].rows = bundle[c]
      BY <1>6 DEF Open, TypeOK
    <3>. QED
      BY <2>2, <3>1 DEF AllMade
  <2>. QED
    BY <1>c, <2>1, <2>2 DEF AllMade, ReplayInv
<1>7. ASSUME NEW c \in Callers, Close(c) PROVE ReplayInv'
  <2>1. UNCHANGED source /\ UNCHANGED bundle
    BY <1>7 DEF Close
  <2>2. ASSUME NEW i \in DOMAIN log' PROVE i \in DOMAIN log /\ log'[i].rows = log[i].rows
    <3>1. log \in Seq(Part)
      BY DEF TypeOK, Part
    <3>2. log' = [log EXCEPT ![part[c]].whole = TRUE]
      BY <1>7 DEF Close
    <3>3. i \in DOMAIN log /\ log[i] \in Part
      BY <2>2, <3>1, <3>2
    <3>. QED
      BY <3>1, <3>2, <3>3 DEF Part
  <2>. QED
    BY <1>c, <2>1, <2>2 DEF AllMade, ReplayInv
<1>8. ASSUME NEW c \in Callers, Crash(c) PROVE ReplayInv'
  <2>1. UNCHANGED source /\ UNCHANGED log
    BY <1>8 DEF Crash
  <2>2. \A e \in Callers : \A x \in bundle'[e] : x \in bundle[e]
    BY <1>8 DEF Crash, TypeOK
  <2>. QED
    BY <1>c, <2>1, <2>2 DEF AllMade, ReplayInv
<1>9. CASE UNCHANGED vars
  <2>1. UNCHANGED source /\ UNCHANGED <<bundle, log>>
    BY <1>9 DEF vars
  <2>. QED
    BY <1>c, <2>1 DEF AllMade, ReplayInv
<1>. QED
  BY <1>1, <1>2, <1>3, <1>4, <1>5, <1>6, <1>7, <1>8, <1>9 DEF Next, World, Step, record

\* What is in the log, row by row.
LEMMA RowsOfTheLog ==
  ASSUME NEW y
  PROVE  y \in Rows <=>
           \E i \in DOMAIN log : log[i].whole /\
             \E x \in log[i].rows : y = [id |-> <<i, x.period>>, row |-> x]
  BY DEF Rows

\* What holds of every complete row of the log.
LEMMA CompleteRows ==
  ASSUME ReplayInv, NEW z \in Complete
  PROVE  z.row \in Row /\ Made(z.row) /\ z.row.complete
<1>1. z \in Rows /\ z.row.complete
  BY DEF Complete
<1>2. PICK i \in DOMAIN log : \E w \in log[i].rows : z = [id |-> <<i, w.period>>, row |-> w]
  BY <1>1, RowsOfTheLog
<1>3. PICK w \in log[i].rows : z.row = w
  BY <1>2
<1>. QED
  BY <1>1, <1>3, RowsAreTyped DEF ReplayInv, AllMade

LEMMA ReplayFollows == ReplayInv => DecisionsReplay
<1> SUFFICES ASSUME ReplayInv, NEW x \in Complete, NEW y \in Complete,
                    x.row.period = y.row.period, x.row.fit = y.row.fit
             PROVE  x.row = y.row
  BY DEF DecisionsReplay
<1> DEFINE a == x.row
           b == y.row
<1>2. a \in Row /\ b \in Row /\ Made(a) /\ Made(b) /\ a.complete /\ b.complete
  BY CompleteRows
<1> HIDE DEF a, b
<1>3. a.period = b.period /\ a.fit = b.fit
  BY DEF a, b
<1>4. /\ a.as_of = b.as_of /\ a.e_spread = b.e_spread /\ a.version = b.version
      /\ a.charge = b.charge
  BY <1>2, <1>3 DEF Made
<1>5. a.delta = b.delta
  BY <1>2, <1>4 DEF Made
<1>6. a.complete = b.complete
  BY <1>2 DEF Row
<1>7. a = b
  BY <1>2, <1>3, <1>4, <1>5, <1>6 DEF Row
<1>. QED
  BY <1>7 DEF a, b

\* A decision generated again, at any later time, by the same models and with everything
\* landed is the decision that was made.
THEOREM DecisionsCanBeReplayed == Spec => []DecisionsReplay
<1>1. Init => ReplayInv
  BY InitReplay
<1>2. ReplayInv /\ [Next]_vars => ReplayInv'
  BY NextReplay
<1>3. ReplayInv => DecisionsReplay
  BY ReplayFollows
<1>. QED
  BY <1>1, <1>2, <1>3, PTL DEF Spec

---------------------------------------------------------------------------
(* Charge errors are news *)

\* Without news of a charge, the view that settles a row shows the charge that was known.
LEMMA SettledAsKnown ==
  ASSUME TypeOK, Sourced, NEW p, NEW asOf \in Nat, Known(asOf) \subseteq landed,
         \A r \in published : r.key = p => r.pub < asOf
  PROVE  ChargeIn(SettlementCharges, p) = ChargeIn(Known(asOf), p)
<1> DEFINE known == Known(asOf)
           settled == SettlementCharges
<1> USE DEF as_of_view, latest_view, Latest, Visible
<1>1. landed \subseteq published /\ known \subseteq landed /\ \A r \in published : r.pub \in Nat
  BY DEF TypeOK, Charge
<1>2. \A r \in known : r.key = p => r \in settled
  BY <1>1 DEF Known, SettlementCharges
<1>3. \A r \in settled : r.key = p => r \in published /\ \E s \in known : s.key = p
  BY <1>1 DEF Known, SettlementCharges, Sourced
<1>4. \A r, s \in settled : r.key = p /\ s.key = p => r = s
  <2>1. SUFFICES ASSUME NEW r \in settled, NEW s \in settled, r.key = p, s.key = p PROVE r = s
    OBVIOUS
  <2>2. r \in published /\ s \in published /\ r.pub <= s.pub /\ s.pub <= r.pub
    BY <1>1, <2>1 DEF SettlementCharges
  <2>3. r.pub = s.pub
    BY <1>1, <2>2
  <2>. QED
    BY <2>1, <2>2, <2>3 DEF Sourced
<1> HIDE DEF known, settled
<1>5. CASE \E r \in known : r.key = p
  <2>1. \E r \in settled : r.key = p
    BY <1>2, <1>5
  <2>2. (CHOOSE r \in known : r.key = p) = (CHOOSE r \in settled : r.key = p)
    BY <1>2, <1>4, <1>5, <2>1
  <2>. QED
    BY <1>5, <2>1, <2>2 DEF ChargeIn, known, settled
<1>6. CASE ~ \E r \in known : r.key = p
  <2>1. ~ \E r \in settled : r.key = p
    BY <1>3, <1>6
  <2>. QED
    BY <1>6, <2>1 DEF ChargeIn, known, settled
<1>. QED
  BY <1>5, <1>6

LEMMA NewsFollows == ReplayInv => ChargeErrorsAreNews
<1> SUFFICES ASSUME ReplayInv, NEW z \in Complete,
                    ~ \E r \in published : r.key = z.row.period /\ r.pub >= z.row.as_of
             PROVE  err_charge(settle(z.row)) = 0
  BY DEF ChargeErrorsAreNews
<1> DEFINE x == z.row
           s == settle(x)
<1>1. TypeOK /\ Sourced
  BY DEF ReplayInv
<1>2. x \in Row /\ Made(x) /\ x.complete
  BY CompleteRows
<1>3. x.as_of \in Nat /\ x.charge \in Int /\ x.delta \in Int
  BY <1>2 DEF Row
<1>4. \A r \in published : r.key = x.period => r.pub < x.as_of
  BY <1>1, <1>3 DEF TypeOK, Charge
<1> HIDE DEF x
<1>5. Known(x.as_of) \subseteq landed
      /\ x.charge = charge_per_mwh(ChargeIn(Known(x.as_of), x.period), Central)
  BY <1>2 DEF Made
<1>6. ChargeIn(SettlementCharges, x.period) = ChargeIn(Known(x.as_of), x.period)
  BY <1>1, <1>3, <1>4, <1>5, SettledAsKnown
<1>7. s.delta = x.delta /\ s.charge = x.charge /\ charge_realized(s, Central) = x.charge
  BY <1>5, <1>6 DEF settle, charge_realized
<1> HIDE DEF s
<1>8. charge_realized(s, Central) - s.charge = 0
  BY <1>3, <1>7
<1>9. Absolute(s.delta) \in Int
  BY <1>3, <1>7 DEF Absolute
<1>10. \A a \in Int : -(a * 0) = 0
  OBVIOUS
<1>11. err_charge(s) = -(Absolute(s.delta) * 0)
  BY <1>8, Zenon DEF err_charge
<1>12. err_charge(s) = 0
  BY <1>9, <1>10, <1>11
<1>. QED
  BY <1>12 DEF s, x

\* A row that knew all there was to know has a charge error only if its charge was
\* published at or after its decision.
THEOREM ChargeErrorsNeedNews == Spec => []ChargeErrorsAreNews
<1>1. Init => ReplayInv
  BY InitReplay
<1>2. ReplayInv /\ [Next]_vars => ReplayInv'
  BY NextReplay
<1>3. ReplayInv => ChargeErrorsAreNews
  BY NewsFollows
<1>. QED
  BY <1>1, <1>2, <1>3, PTL DEF Spec

---------------------------------------------------------------------------
(* What was returned is found *)

\* A period has one row.
OneEach(rows) == \A x, y \in rows : x.period = y.period => x = y

\* A writer has a part file of its own, which holds its bundle.
Owned ==
  /\ \A c \in Callers : OneEach(bundle[c])
  /\ \A i \in DOMAIN log : OneEach(log[i].rows)
  /\ \A c \in Callers : pc[c] = "writing" =>
       part[c] \in DOMAIN log /\ log[part[c]].rows = bundle[c]
  /\ \A c, d \in Callers : c # d /\ pc[c] = "writing" /\ pc[d] = "writing" => part[c] # part[d]
  /\ \A y \in returned : \E i \in DOMAIN log : \E x \in log[i].rows :
       y = [id |-> <<i, x.period>>, row |-> x]

OwnedInv == TypeOK /\ Owned

LEMMA InitOwned == Init => OwnedInv
<1> SUFFICES ASSUME Init PROVE OwnedInv
  OBVIOUS
<1>1. TypeOK
  BY InitTyped
<1>2. Owned
  BY DEF Init, Owned, OneEach
<1>. QED
  BY <1>1, <1>2 DEF OwnedInv

LEMMA NextOwned == OwnedInv /\ [Next]_vars => OwnedInv'
<1> SUFFICES ASSUME OwnedInv, [Next]_vars PROVE OwnedInv'
  OBVIOUS
<1>. TypeOK /\ Owned /\ TypeOK'
  BY NextTyped DEF OwnedInv
<1> DEFINE callers == <<pc, bundle, part>>
\* The log grows or is finished; its rows stay.
<1>a. ASSUME DOMAIN log \subseteq DOMAIN log', \A i \in DOMAIN log : log'[i].rows = log[i].rows
      PROVE  \A i \in DOMAIN log : \A x \in log[i].rows :
               i \in DOMAIN log' /\ x \in log'[i].rows
  BY <1>a
<1>1. CASE UNCHANGED <<callers, log, returned>>
  BY <1>1 DEF Owned, OwnedInv
<1>2. ASSUME NEW c \in Callers, NEW d \in Days, generate_bundle(c, d) PROVE OwnedInv'
  <2>1. OneEach({recommend(p) : p \in {q \in Periods : DayOf[q] = d}})
    <3>1. \A p \in Periods : recommend(p).period = p
      BY DEF recommend
    <3>. QED
      BY <3>1 DEF OneEach
  <2>2. \A e \in Callers : OneEach(bundle'[e])
    BY <1>2, <2>1 DEF generate_bundle, TypeOK, Owned
  <2>3. \A e \in Callers : pc'[e] = "writing" => pc[e] = "writing" /\ bundle'[e] = bundle[e]
    BY <1>2 DEF generate_bundle, TypeOK
  <2>4. UNCHANGED <<part, log, returned>>
    BY <1>2 DEF generate_bundle
  <2>. QED
    BY <2>2, <2>3, <2>4 DEF Owned, OwnedInv
<1>3. ASSUME NEW c \in Callers, Open(c) PROVE OwnedInv'
  <2> DEFINE n == Len(log) + 1
  <2>1. log \in Seq(Part) /\ n \in Nat
    BY DEF TypeOK, Part
  <2>2. /\ UNCHANGED <<bundle, returned>> /\ n \notin DOMAIN log
        /\ DOMAIN log' = DOMAIN log \cup {n} /\ log'[n].rows = bundle[c]
        /\ \A i \in DOMAIN log : log'[i] = log[i]
    BY <1>3, <2>1 DEF Open
  <2>3. \A e \in Callers : \/ e = c /\ part'[e] = n
                           \/ e # c /\ part'[e] = part[e] /\ pc'[e] = pc[e]
    BY <1>3 DEF Open, TypeOK
  <2> HIDE DEF n
  <2>4. \A i \in DOMAIN log' : OneEach(log'[i].rows)
    BY <2>2 DEF Owned
  <2>5. \A e \in Callers : pc'[e] = "writing" =>
          part'[e] \in DOMAIN log' /\ log'[part'[e]].rows = bundle'[e]
    BY <2>2, <2>3 DEF Owned
  <2>6. \A e, f \in Callers : e # f /\ pc'[e] = "writing" /\ pc'[f] = "writing" =>
          part'[e] # part'[f]
    BY <2>2, <2>3 DEF Owned
  <2>7. \A y \in returned' : \E i \in DOMAIN log' : \E x \in log'[i].rows :
          y = [id |-> <<i, x.period>>, row |-> x]
    BY <1>a, <2>2 DEF Owned
  <2>. QED
    BY <2>2, <2>4, <2>5, <2>6, <2>7 DEF Owned, OwnedInv
<1>4. ASSUME NEW c \in Callers, Close(c) PROVE OwnedInv'
  <2>1. part[c] \in DOMAIN log /\ log[part[c]].rows = bundle[c] /\ UNCHANGED bundle
    BY <1>4 DEF Close, Owned
  <2>2. DOMAIN log' = DOMAIN log /\ \A i \in DOMAIN log : log'[i].rows = log[i].rows
    <3>1. log \in Seq(Part) /\ log' = [log EXCEPT ![part[c]].whole = TRUE]
      BY <1>4 DEF Close, TypeOK, Part
    <3>2. \A i \in DOMAIN log : log[i] \in Part
      BY <3>1
    <3>. QED
      BY <3>1, <3>2 DEF Part
  <2>3. \A e \in Callers : pc'[e] = "writing" => pc[e] = "writing" /\ part'[e] = part[e]
    BY <1>4 DEF Close, TypeOK
  <2>4. \A i \in DOMAIN log' : OneEach(log'[i].rows)
    BY <2>2 DEF Owned
  <2>5. \A y \in returned' : \E i \in DOMAIN log' : \E x \in log'[i].rows :
          y = [id |-> <<i, x.period>>, row |-> x]
    <3>1. \A y \in returned' :
            y \in returned \/ \E x \in bundle[c] : y = [id |-> <<part[c], x.period>>, row |-> x]
      BY <1>4 DEF Close
    <3>2. \A y \in returned' : \E i \in DOMAIN log : \E x \in log[i].rows :
            y = [id |-> <<i, x.period>>, row |-> x]
      BY <2>1, <3>1 DEF Owned
    <3>. QED
      BY <1>a, <2>2, <3>2
  <2>. QED
    BY <2>1, <2>2, <2>3, <2>4, <2>5 DEF Owned, OwnedInv
<1>5. ASSUME NEW c \in Callers, Crash(c) PROVE OwnedInv'
  <2>1. UNCHANGED <<log, returned>>
    BY <1>5 DEF Crash
  <2>2. \A e \in Callers : \/ bundle'[e] = {} /\ pc'[e] = "idle"
                           \/ pc'[e] = pc[e] /\ part'[e] = part[e] /\ bundle'[e] = bundle[e]
    BY <1>5 DEF Crash, TypeOK
  <2>3. \A e \in Callers : OneEach(bundle'[e])
    BY <2>2 DEF Owned, OneEach
  <2>. QED
    BY <2>1, <2>2, <2>3 DEF Owned, OwnedInv
<1>6. CASE World
  <2>1. UNCHANGED <<callers, log, returned>>
    BY <1>6 DEF World, Tick, Publish, Land, Retrain
  <2>. QED
    BY <1>1, <2>1
<1>7. CASE UNCHANGED vars
  <2>1. UNCHANGED <<callers, log, returned>>
    BY <1>7 DEF vars
  <2>. QED
    BY <1>1, <2>1
<1>. QED
  BY <1>2, <1>3, <1>4, <1>5, <1>6, <1>7 DEF Next, Step, record

LEMMA FoundFollows == OwnedInv => ReturnedRowsAreFound
<1> SUFFICES ASSUME OwnedInv PROVE ReturnedRowsAreFound
  OBVIOUS
<1>1. ASSUME Readable, NEW y \in returned PROVE get(y.id) = {y.row}
  <2>1. PICK i \in DOMAIN log : \E x \in log[i].rows : y = [id |-> <<i, x.period>>, row |-> x]
    BY DEF OwnedInv, Owned
  <2>2. PICK x \in log[i].rows : y = [id |-> <<i, x.period>>, row |-> x]
    BY <2>1
  <2>3. y \in Rows
    BY <1>1, <2>1, <2>2, RowsOfTheLog DEF Readable
  <2>4. ASSUME NEW z \in Rows, z.id = y.id PROVE z.row = x
    <3>1. PICK j \in DOMAIN log : \E w \in log[j].rows : z = [id |-> <<j, w.period>>, row |-> w]
      BY <2>4, RowsOfTheLog
    <3>2. PICK w \in log[j].rows : z = [id |-> <<j, w.period>>, row |-> w]
      BY <3>1
    <3>3. j = i /\ w.period = x.period
      BY <2>2, <2>4, <3>2
    <3>4. OneEach(log[i].rows)
      BY DEF OwnedInv, Owned
    <3>. QED
      BY <3>2, <3>3, <3>4 DEF OneEach
  <2>. QED
    BY <2>2, <2>3, <2>4 DEF get
<1>2. \A c, d \in Callers : c # d /\ pc[c] = "writing" /\ pc[d] = "writing" => part[c] # part[d]
  BY DEF OwnedInv, Owned
<1>. QED
  BY <1>1, <1>2 DEF ReturnedRowsAreFound

\* What a caller was told is recorded is found, unchanged, and callers do not write the
\* same part file.
THEOREM ReturnedRowsStay == Spec => []ReturnedRowsAreFound
<1>1. Init => OwnedInv
  BY InitOwned
<1>2. OwnedInv /\ [Next]_vars => OwnedInv'
  BY NextOwned
<1>3. OwnedInv => ReturnedRowsAreFound
  BY FoundFollows
<1>. QED
  BY <1>1, <1>2, <1>3, PTL DEF Spec

=============================================================================
