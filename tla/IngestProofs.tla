---------------------------- MODULE IngestProofs ----------------------------
(***************************************************************************)
(* Theorems about Ingest, for any number of ingesters, days, revisions and *)
(* pulls.                                                                  *)
(***************************************************************************)
EXTENDS Ingest, TLAPS

\* Midnight is not later than the instant it is the midnight of, by less than a day.
LEMMA MidnightBound ==
  ASSUME NEW t \in Nat
  PROVE  Midnight(t) \in Nat /\ Midnight(t) <= t /\ t < Midnight(t) + DayLength
BY NumbersAssumption, Z3 DEF Midnight

\* The clocks of Rome are not behind UTC.
LEMMA ReadingBound ==
  ASSUME NEW t \in Times
  PROVE  Reading(t) \in Nat /\ t <= Reading(t)
<1>1. t \in Nat /\ RomeAhead[t] \in Nat
  BY NumbersAssumption, StampAssumption DEF Times
<1>. QED
  BY <1>1 DEF Reading

\* What a stamp tells is a number; where it tells the instant, it is not too early, and
\* where it tells the day, it is not too early by a day.
LEMMA PrintedBound ==
  ASSUME NEW r \in Revision
  PROVE  /\ Printed(r) \in Nat
         /\ StampForm \in {"zoned", "local", "fraction"} => r.at <= Printed(r)
         /\ StampForm = "day" => r.at < Printed(r) + DayLength /\ Midnight(Printed(r)) = Printed(r)
<1>1. r.at \in Times /\ r.at \in Nat
  BY NumbersAssumption DEF Revision, Times
<1>2. Reading(r.at) \in Nat /\ r.at <= Reading(r.at)
  BY <1>1, ReadingBound
<1>3. CASE StampForm = "none"
  BY <1>3 DEF Printed, NoStamp
<1>4. CASE StampForm = "zoned"
  BY <1>1, <1>4 DEF Printed
<1>5. CASE StampForm = "day"
  <2> DEFINE m == Midnight(Reading(r.at))
  <2>1. m \in Nat /\ Reading(r.at) < m + DayLength
    BY <1>2, MidnightBound
  <2>2. Midnight(m) = m
    <3>1. \A n \in Nat : ((n * DayLength) \div DayLength) * DayLength = n * DayLength
      BY NumbersAssumption, Z3
    <3>2. Reading(r.at) \div DayLength \in Nat
      BY <1>2, NumbersAssumption, Z3
    <3>. QED
      BY <3>1, <3>2 DEF Midnight
  <2>3. Printed(r) = m
    BY <1>5 DEF Printed
  <2>. QED
    BY <1>1, <1>2, <1>5, <2>1, <2>2, <2>3, NumbersAssumption
<1>6. CASE StampForm \notin {"none", "zoned", "day"}
  BY <1>2, <1>6 DEF Printed
<1>. QED
  BY <1>3, <1>4, <1>5, <1>6

\* No form of stamp dates a record back by a day, if its fetch time does not.
LEMMA PublicationBound ==
  ASSUME NEW r \in Revision, NEW f \in Nat
  PROVE  /\ publication_ts(r, f) \in Nat
         /\ r.at < f + DayLength => r.at < publication_ts(r, f) + DayLength
<1>1. r.at \in Nat /\ DayLength \in Nat \ {0}
  BY NumbersAssumption DEF Revision, Times
<1>2. Printed(r) \in Nat
  BY PrintedBound
<1>3. CASE StampForm \in {"zoned", "local"}
  <2>1. publication_ts(r, f) = Printed(r) /\ r.at <= Printed(r)
    BY <1>3, PrintedBound DEF publication_ts
  <2>. QED
    BY <1>1, <1>2, <2>1
<1>4. CASE StampForm = "fraction"
  <2>1. publication_ts(r, f) = Midnight(Printed(r)) /\ r.at <= Printed(r)
    BY <1>4, PrintedBound DEF publication_ts
  <2>2. Midnight(Printed(r)) \in Nat /\ Printed(r) < Midnight(Printed(r)) + DayLength
    BY <1>2, MidnightBound
  <2>. QED
    BY <1>1, <1>2, <2>1, <2>2
<1>5. CASE StampForm = "day"
  <2>1. publication_ts(r, f) = Printed(r) /\ r.at < Printed(r) + DayLength
    BY <1>5, PrintedBound DEF publication_ts
  <2>. QED
    BY <1>1, <1>2, <2>1
<1>6. CASE StampForm \notin {"zoned", "local", "fraction", "day"}
  BY <1>6 DEF publication_ts
<1>. QED
  BY <1>3, <1>4, <1>5, <1>6

\* A fetch time is parsed to a number that is too early by less than a day.
LEMMA FetchedAtBound ==
  ASSUME TypeOK, NEW f \in FetchedAt
  PROVE  f \in Nat /\ now < f + DayLength
<1>1. now \in Nat
  BY NumbersAssumption DEF TypeOK, Times
<1>. QED
  BY <1>1, MidnightBound, NumbersAssumption DEF FetchedAt

\* A built cell is a cell of the record's day.
LEMMA BuiltCellTyped ==
  ASSUME NEW r \in Revision, NEW t \in Nat
  PROVE  build_cell(r, t) \in Cell
<1>1. publication_ts(r, t) \in Nat
  BY PublicationBound
<1>2. payload_hash(r) \in Hash
  BY PrintedBound DEF payload_hash, Hash, Revision
<1>. QED
  BY <1>1, <1>2 DEF build_cell, Cell, Revision

\* Replacing one part file gives a sequence of the same part files but that one.
LEMMA PartUpdate ==
  ASSUME NEW fs \in Seq(Fragment), NEW p, NEW f \in Fragment
  PROVE  /\ [fs EXCEPT ![p] = f] \in Seq(Fragment)
         /\ DOMAIN [fs EXCEPT ![p] = f] = DOMAIN fs
         /\ \A i \in DOMAIN fs : [fs EXCEPT ![p] = f][i] = IF i = p THEN f ELSE fs[i]
<1> DEFINE gs == [fs EXCEPT ![p] = f]
<1>1. DOMAIN gs = DOMAIN fs /\ \A i \in DOMAIN fs : gs[i] = IF i = p THEN f ELSE fs[i]
  OBVIOUS
<1>2. \E n \in Nat : fs \in [1..n -> Fragment]
  OBVIOUS
<1>3. \E n \in Nat : gs \in [1..n -> Fragment]
  BY <1>2
<1>4. gs \in Seq(Fragment)
  BY <1>3
<1>. QED
  BY <1>1, <1>4

LEMMA PartTyped ==
  ASSUME TypeOK, NEW i \in DOMAIN fragments
  PROVE  /\ fragments[i].by \in Ingesters
         /\ fragments[i].rows \subseteq Cell
         /\ fragments[i].whole \in BOOLEAN
<1>1. fragments[i] \in Fragment
  BY DEF TypeOK
<1>. QED
  BY <1>1 DEF Fragment

\* land writes cells of the pull only, each hash once, and none that is known.
LEMMA FreshEffect ==
  ASSUME TypeOK, NEW w \in Ingesters, LandReadHashes(w)
  PROVE  LET missing == {c \in cells[w] : c.hash \notin KnownHashes} IN
         /\ fresh'[w] \subseteq missing
         /\ HashesOf(fresh'[w]) = HashesOf(missing)
         /\ \A c, d \in fresh'[w] : c.hash = d.hash => c = d
         /\ \A u \in Ingesters \ {w} : fresh'[u] = fresh[u]
<1> DEFINE missing == {c \in cells[w] : c.hash \notin KnownHashes}
<1>1. PICK F \in Deduplicated(missing) : fresh' = [fresh EXCEPT ![w] = F]
  BY DEF LandReadHashes
<1>2. fresh'[w] = F /\ \A u \in Ingesters \ {w} : fresh'[u] = fresh[u]
  BY <1>1 DEF TypeOK
<1>. QED
  BY <1>1, <1>2 DEF Deduplicated

LEMMA WindowEndBound ==
  ASSUME TypeOK, NEW w \in Ingesters
  PROVE  WindowEnd(w) \in Nat /\ WindowEnd(w) <= upto[w]
BY NumbersAssumption DEF WindowEnd, TypeOK

\* Every variable keeps its type.
THEOREM IngestTyped == Spec => []TypeOK
<1>1. Init => TypeOK
  BY NumbersAssumption
  DEF Init, TypeOK, Times, NoWatermark, Days
<1>2. TypeOK /\ [Next]_vars => TypeOK'
  <2> SUFFICES ASSUME TypeOK, [Next]_vars PROVE TypeOK'
    OBVIOUS
  <2> USE NumbersAssumption
  <2>1. CASE Tick
    BY <2>1 DEF Tick, local, TypeOK, Times
  <2>2. ASSUME NEW d \in Days, NEW v \in Values, Publish(d, v) PROVE TypeOK'
    BY <2>2 DEF Publish, local, TypeOK, Revision
  <2>3. ASSUME NEW w \in Ingesters, NEW asked \in Days, NEW lo \in Days, NEW hi \in Days,
               Enter(w, asked, lo, hi)
        PROVE  TypeOK'
    <3>1. UNION {Current(d) : d \in asked..hi} \in SUBSET Revision
      BY DEF TypeOK, Current
    <3>. QED
      BY <2>3, <3>1 DEF Enter, clocks, TypeOK, Days
  <2>4. ASSUME NEW w \in Ingesters, FetchWindow(w) PROVE TypeOK'
    <3>1. Answer(w) \in SUBSET Revision
      BY DEF TypeOK, Answer, Current
    <3>2. PICK f \in FetchedAt :
            cells' = [cells EXCEPT ![w] = @ \cup {build_cell(r, f) : r \in Answer(w)}]
      BY <2>4 DEF FetchWindow
    <3>3. {build_cell(r, f) : r \in Answer(w)} \in SUBSET Cell
      BY <3>1, FetchedAtBound, BuiltCellTyped
    <3>4. cells' \in [Ingesters -> SUBSET Cell]
      BY <3>2, <3>3 DEF TypeOK
    <3>. QED
      BY <2>4, <3>4, WindowEndBound DEF FetchWindow, clocks, TypeOK
  <2>5. ASSUME NEW w \in Ingesters, Leave(w),
               UNCHANGED <<now, revisions, fragments, pulls>>,
               watermark' \in 0..LastDay, confirmed' \in [Days -> Times]
        PROVE  TypeOK'
    BY <2>5 DEF Leave, TypeOK
  <2>6. ASSUME NEW w \in Ingesters, Raise(w) PROVE TypeOK'
    BY <2>5, <2>6 DEF Raise, TypeOK, clocks
  <2>7. ASSUME NEW w \in Ingesters, Land(w) PROVE TypeOK'
    <3>1. CASE LandNothing(w)
      BY <3>1 DEF LandNothing, clocks, local, TypeOK
    <3>2. CASE LandReadHashes(w)
      <4>1. fresh' \in [Ingesters -> SUBSET Cell]
        BY <3>2 DEF LandReadHashes, Deduplicated, TypeOK
      <4>. QED
        BY <3>2, <4>1 DEF LandReadHashes, clocks, TypeOK
    <3>3. CASE LandReadFails(w)
      BY <2>6, <3>3 DEF LandReadFails
    <3>4. CASE LandCreate(w)
      <4>1. [by |-> w, rows |-> fresh[w], whole |-> FALSE] \in Fragment
        BY DEF TypeOK, Fragment
      <4>. QED
        BY <3>4, <4>1 DEF LandCreate, clocks, TypeOK
    <3>5. CASE LandClose(w)
      <4>1. [by |-> w, rows |-> fresh[w], whole |-> TRUE] \in Fragment
        BY DEF TypeOK, Fragment
      <4>2. fragments' \in Seq(Fragment)
        BY <3>5, <4>1, PartUpdate DEF LandClose, TypeOK
      <4>. QED
        BY <3>5, <4>2 DEF LandClose, clocks, local, TypeOK
    <3>. QED
      BY <2>7, <3>1, <3>2, <3>3, <3>4, <3>5 DEF Land
  <2>8. ASSUME NEW w \in Ingesters, SetWatermark(w) PROVE TypeOK'
    <3>1. \A d \in Days : Newer(d, w) \in SUBSET Times
      BY DEF Newer, TypeOK, Revision
    <3>2. confirmed' \in [Days -> Times]
      BY <2>8, <3>1 DEF SetWatermark, TypeOK
    <3>. QED
      BY <2>5, <2>8, <3>2 DEF SetWatermark, MarkedDay, clocks, TypeOK
  <2>9. CASE UNCHANGED vars
    BY <2>9 DEF vars, TypeOK
  <2>10. ASSUME NEW w \in Ingesters, Pull(w) PROVE TypeOK'
    <3>0. PICK lo \in Days : \E hi \in lo..LastDay :
            ingest_endpoint(w, lo, hi) \/ backfill_endpoint(w, lo, hi)
      BY <2>10 DEF Pull
    <3>1. PICK hi \in lo..LastDay :
            ingest_endpoint(w, lo, hi) \/ backfill_endpoint(w, lo, hi)
      BY <3>0
    <3>2. hi \in Days
      BY <3>1 DEF Days
    <3>3. CASE ingest_endpoint(w, lo, hi)
      BY <2>3, <3>1, <3>2, <3>3 DEF ingest_endpoint
    <3>4. CASE backfill_endpoint(w, lo, hi)
      <4>1. (IF Resume /\ watermark >= lo THEN watermark ELSE lo) \in Days
        BY DEF TypeOK, Days
      <4>. QED
        BY <2>3, <3>2, <3>4, <4>1 DEF backfill_endpoint
    <3>. QED
      BY <3>1, <3>3, <3>4
  <2>. QED
    BY <2>1, <2>2, <2>4, <2>6, <2>7, <2>8, <2>9, <2>10
    DEF Next, Step, FetchFails, Crash
<1>. QED
  BY <1>1, <1>2, PTL DEF Spec

---------------------------------------------------------------------------
(* Provenance *)

CellsPublished ==
  /\ \A r \in revisions : r.at <= now
  /\ \A w \in Ingesters : \A c \in cells[w] \cup fresh[w] : IsPublished(c)

\* What was published stays published.
LEMMA PublishedStays ==
  ASSUME NEW c, IsPublished(c), revisions \subseteq revisions'
  PROVE  IsPublished(c)'
BY DEF IsPublished

\* A cell built now from a record served now is published.
LEMMA BuiltCellPublished ==
  ASSUME TypeOK, CellsPublished, NEW r \in revisions, NEW f \in FetchedAt
  PROVE  IsPublished(build_cell(r, f))
<1>1. r \in Revision /\ r.at \in Nat /\ now \in Nat /\ r.at <= now
  BY NumbersAssumption DEF CellsPublished, TypeOK, Times, Revision
<1>2. f \in Nat /\ r.at < f + DayLength
  BY <1>1, FetchedAtBound, NumbersAssumption
<1>3. r.at < publication_ts(r, f) + DayLength
  BY <1>1, <1>2, PublicationBound
<1>4. r = [day |-> r.day, val |-> r.val, at |-> r.at]
  BY <1>1 DEF Revision
<1>. QED
  BY <1>3, <1>4 DEF build_cell, IsPublished

\* Every stored cell carries what the source published for its day.
THEOREM ProvenanceHolds == Spec => []StoredWasPublished
<1> DEFINE Inv == TypeOK /\ CellsPublished /\ StoredWasPublished
<1>1. Init => CellsPublished /\ StoredWasPublished
  BY DEF Init, CellsPublished, StoredWasPublished
<1>2. Inv /\ TypeOK' /\ [Next]_vars => (CellsPublished /\ StoredWasPublished)'
  <2> SUFFICES ASSUME Inv, TypeOK', [Next]_vars
               PROVE  CellsPublished' /\ StoredWasPublished'
    OBVIOUS
  <2> USE NumbersAssumption
  <2>1. \A w \in Ingesters : \A c \in cells[w] \cup fresh[w] : c \in Cell
    BY DEF TypeOK
  <2>2. \A i \in DOMAIN fragments : \A c \in fragments[i].rows : c \in Cell
    BY PartTyped
  <2>3. CASE /\ cells' = cells /\ fresh' = fresh /\ fragments' = fragments
             /\ revisions \subseteq revisions'
             /\ \A r \in revisions' : r.at <= now'
    <3>0. \A c \in Cell : IsPublished(c) => IsPublished(c)'
      BY <2>3, PublishedStays
    <3>1. CellsPublished'
      BY <2>1, <2>3, <3>0 DEF CellsPublished
    <3>2. StoredWasPublished'
      BY <2>2, <2>3, <3>0 DEF StoredWasPublished
    <3>. QED
      BY <3>1, <3>2
  <2>4. CASE Tick
    BY <2>3, <2>4 DEF Tick, local, CellsPublished, TypeOK, Times, Revision
  <2>5. ASSUME NEW d \in Days, NEW v \in Values, Publish(d, v)
        PROVE  CellsPublished' /\ StoredWasPublished'
    BY <2>3, <2>5 DEF Publish, local, CellsPublished, TypeOK, Times
  <2>6. ASSUME UNCHANGED clocks
        PROVE  \A c : IsPublished(c) => IsPublished(c)'
    BY <2>6 DEF IsPublished, clocks
  <2>7. ASSUME NEW w \in Ingesters, Leave(w), UNCHANGED <<clocks, fragments>>
        PROVE  CellsPublished' /\ StoredWasPublished'
    BY <2>6, <2>7 DEF Leave, CellsPublished, StoredWasPublished, TypeOK, clocks
  <2>8. ASSUME NEW w \in Ingesters, Pull(w)
        PROVE  CellsPublished' /\ StoredWasPublished'
    <3>1. /\ UNCHANGED <<clocks, fragments, fresh>>
          /\ cells' = [cells EXCEPT ![w] = {}]
      BY <2>8 DEF Pull, ingest_endpoint, backfill_endpoint, Enter
    <3>. QED
      BY <2>6, <3>1 DEF CellsPublished, StoredWasPublished, TypeOK, clocks
  <2>9. ASSUME NEW w \in Ingesters, FetchWindow(w)
        PROVE  CellsPublished' /\ StoredWasPublished'
    <3>1. Answer(w) \subseteq revisions
      BY DEF Answer, Current
    <3>2. PICK f \in FetchedAt :
            cells' = [cells EXCEPT ![w] = @ \cup {build_cell(r, f) : r \in Answer(w)}]
      BY <2>9 DEF FetchWindow
    <3>3. \A c \in {build_cell(r, f) : r \in Answer(w)} : IsPublished(c)
      BY <3>1, BuiltCellPublished
    <3>4. \A c \in cells'[w] : IsPublished(c)
      BY <3>2, <3>3 DEF CellsPublished, TypeOK
    <3>5. \A u \in Ingesters \ {w} : cells'[u] = cells[u]
      BY <3>2 DEF TypeOK
    <3>. QED
      BY <2>6, <2>9, <3>4, <3>5 DEF FetchWindow, CellsPublished, StoredWasPublished, clocks
  <2>10. ASSUME NEW w \in Ingesters, Land(w)
         PROVE  CellsPublished' /\ StoredWasPublished'
    <3>1. CASE LandNothing(w)
      BY <2>3, <3>1 DEF LandNothing, clocks, local, CellsPublished, TypeOK, Times
    <3>2. CASE LandReadHashes(w)
      <4>1. fresh'[w] \subseteq cells[w] /\ \A u \in Ingesters \ {w} : fresh'[u] = fresh[u]
        BY <3>2, FreshEffect
      <4>. QED
        BY <2>6, <3>2, <4>1
        DEF LandReadHashes, CellsPublished, StoredWasPublished, TypeOK, clocks
    <3>3. CASE LandReadFails(w)
      BY <2>7, <3>3 DEF LandReadFails, Raise, clocks
    <3>4. CASE LandCreate(w)
      <4>1. \A i \in DOMAIN fragments' :
              \/ i \in DOMAIN fragments /\ fragments'[i] = fragments[i]
              \/ fragments'[i].rows = fresh[w]
        BY <3>4 DEF LandCreate, TypeOK
      <4>. QED
        BY <2>6, <3>4, <4>1 DEF LandCreate, CellsPublished, StoredWasPublished, clocks
    <3>5. CASE LandClose(w)
      <4>1. \A i \in DOMAIN fragments' :
              \/ i \in DOMAIN fragments /\ fragments'[i] = fragments[i]
              \/ fragments'[i].rows = fresh[w]
        BY <3>5, PartUpdate DEF LandClose, TypeOK, Fragment
      <4>. QED
        BY <2>6, <3>5, <4>1
        DEF LandClose, CellsPublished, StoredWasPublished, clocks, local
    <3>. QED
      BY <2>10, <3>1, <3>2, <3>3, <3>4, <3>5 DEF Land
  <2>11. ASSUME NEW w \in Ingesters, SetWatermark(w)
         PROVE  CellsPublished' /\ StoredWasPublished'
    BY <2>7, <2>11 DEF SetWatermark, clocks
  <2>12. CASE UNCHANGED vars
    BY <2>3, <2>12 DEF vars, CellsPublished, TypeOK, Times
  <2>. QED
    BY <2>4, <2>5, <2>7, <2>8, <2>9, <2>10, <2>11, <2>12
    DEF Next, Step, FetchFails, Crash, Raise
<1>. QED
  BY <1>1, <1>2, IngestTyped, PTL DEF Spec

---------------------------------------------------------------------------
(* Part files *)

\* The part file an ingester is about to complete is its own and incomplete.
PartOwned ==
  /\ \A w \in Ingesters : pc[w] = "close" =>
       /\ part[w] \in DOMAIN fragments
       /\ fragments[part[w]] = [by |-> w, rows |-> fresh[w], whole |-> FALSE]
  /\ \A u, w \in Ingesters :
       u # w /\ pc[u] = "close" /\ pc[w] = "close" => part[u] # part[w]

\* The part files after a step, in the only three cases there are.
LEMMA FragmentSteps ==
  ASSUME TypeOK, [Next]_vars
  PROVE  \/ fragments' = fragments
         \/ \E w \in Ingesters : LandCreate(w)
         \/ \E w \in Ingesters : LandClose(w)
BY DEF Next, Step, Tick, Publish, Pull, ingest_endpoint, backfill_endpoint, Enter,
       FetchWindow, FetchFails, Raise, Land, LandNothing, LandReadHashes,
       LandReadFails, SetWatermark, Crash, clocks, local, vars

\* What LandCreate does to the sequence of part files.
LEMMA CreateEffect ==
  ASSUME TypeOK, NEW w \in Ingesters, LandCreate(w)
  PROVE  /\ part'[w] = Len(fragments) + 1
         /\ DOMAIN fragments' = DOMAIN fragments \cup {part'[w]}
         /\ part'[w] \notin DOMAIN fragments
         /\ \A i \in DOMAIN fragments : fragments'[i] = fragments[i]
         /\ fragments'[part'[w]] = [by |-> w, rows |-> fresh[w], whole |-> FALSE]
BY DEF LandCreate, TypeOK

\* What LandClose does to the sequence of part files.
LEMMA CloseEffect ==
  ASSUME TypeOK, NEW w \in Ingesters, LandClose(w)
  PROVE  /\ DOMAIN fragments' = DOMAIN fragments
         /\ \A i \in DOMAIN fragments :
              fragments'[i] = IF i = part[w] THEN [by |-> w, rows |-> fresh[w], whole |-> TRUE]
                              ELSE fragments[i]
<1>1. [by |-> w, rows |-> fresh[w], whole |-> TRUE] \in Fragment
  BY DEF TypeOK, Fragment
<1>. QED
  BY <1>1, PartUpdate DEF LandClose, TypeOK

\* The same, on the fields of the part files.
LEMMA CreateFields ==
  ASSUME TypeOK, NEW w \in Ingesters, LandCreate(w)
  PROVE  /\ fragments'[part'[w]].rows = fresh[w]
         /\ fragments'[part'[w]].by = w
         /\ fragments'[part'[w]].whole = FALSE
<1>1. fragments'[part'[w]] = [by |-> w, rows |-> fresh[w], whole |-> FALSE]
  BY CreateEffect
<1>. QED
  BY <1>1

LEMMA CloseFields ==
  ASSUME TypeOK, PartOwned, NEW w \in Ingesters, LandClose(w)
  PROVE  /\ part[w] \in DOMAIN fragments
         /\ fragments[part[w]].rows = fresh[w]
         /\ fragments[part[w]].by = w
         /\ fragments[part[w]].whole = FALSE
         /\ fragments'[part[w]].rows = fresh[w]
         /\ fragments'[part[w]].by = w
         /\ fragments'[part[w]].whole = TRUE
         /\ \A i \in DOMAIN fragments : i # part[w] => fragments'[i] = fragments[i]
<1>1. pc[w] = "close"
  BY DEF LandClose
<1>2. part[w] \in DOMAIN fragments /\ fragments[part[w]] = [by |-> w, rows |-> fresh[w], whole |-> FALSE]
  BY <1>1 DEF PartOwned
<1>3. fragments'[part[w]] = [by |-> w, rows |-> fresh[w], whole |-> TRUE]
  BY <1>2, CloseEffect
<1>4. /\ fragments[part[w]].rows = fresh[w]
      /\ fragments[part[w]].by = w
      /\ fragments[part[w]].whole = FALSE
  BY <1>2
<1>5. /\ fragments'[part[w]].rows = fresh[w]
      /\ fragments'[part[w]].by = w
      /\ fragments'[part[w]].whole = TRUE
  BY <1>3
<1>. QED
  BY <1>2, <1>4, <1>5, CloseEffect

LEMMA PartOwnedInvariant == Spec => []PartOwned
<1>1. Init => PartOwned
  BY DEF Init, PartOwned
<1>2. TypeOK /\ PartOwned /\ [Next]_vars => PartOwned'
  <2> SUFFICES ASSUME TypeOK, PartOwned, [Next]_vars PROVE PartOwned'
    OBVIOUS
  <2>1. ASSUME UNCHANGED <<pc, fragments, part, fresh>> PROVE PartOwned'
    BY <2>1 DEF PartOwned
  <2>2. CASE Tick \/ (\E d \in Days, v \in Values : Publish(d, v)) \/ UNCHANGED vars
    BY <2>1, <2>2 DEF Tick, Publish, local, vars
  <2>3. ASSUME NEW w \in Ingesters, pc'[w] # "close", fragments' = fragments,
               \A u \in Ingesters \ {w} :
                 pc'[u] = pc[u] /\ part'[u] = part[u] /\ fresh'[u] = fresh[u]
        PROVE  PartOwned'
    BY <2>3 DEF PartOwned
  <2>4. ASSUME NEW w \in Ingesters, Leave(w), fragments' = fragments PROVE PartOwned'
    BY <2>3, <2>4 DEF Leave, TypeOK
  <2>5. ASSUME NEW w \in Ingesters, Pull(w) PROVE PartOwned'
    <3>1. /\ UNCHANGED <<fragments, fresh, part>>
          /\ \/ pc' = [pc EXCEPT ![w] = "fetch"]
             \/ pc' = [pc EXCEPT ![w] = "land"]
      BY <2>5 DEF Pull, ingest_endpoint, backfill_endpoint, Enter
    <3>2. pc'[w] # "close" /\ \A u \in Ingesters \ {w} : pc'[u] = pc[u]
      BY <3>1 DEF TypeOK
    <3>. QED
      BY <2>3, <3>1, <3>2
  <2>6. ASSUME NEW w \in Ingesters, FetchWindow(w) \/ LandNothing(w) PROVE PartOwned'
    BY <2>3, <2>6 DEF FetchWindow, LandNothing, local, TypeOK
  <2>7. ASSUME NEW w \in Ingesters, LandReadHashes(w) PROVE PartOwned'
    BY <2>3, <2>7, FreshEffect DEF LandReadHashes, TypeOK
  <2>8. ASSUME NEW w \in Ingesters, LandCreate(w) PROVE PartOwned'
    <3>1. /\ \A u \in Ingesters \ {w} : pc'[u] = pc[u] /\ part'[u] = part[u]
          /\ fresh' = fresh
      BY <2>8 DEF LandCreate, TypeOK
    <3>2. /\ part'[w] \in DOMAIN fragments'
          /\ fragments'[part'[w]] = [by |-> w, rows |-> fresh[w], whole |-> FALSE]
          /\ \A u \in Ingesters \ {w} : pc[u] = "close" =>
               /\ part[u] \in DOMAIN fragments'
               /\ fragments'[part[u]] = [by |-> u, rows |-> fresh[u], whole |-> FALSE]
               /\ part[u] # part'[w]
      BY <2>8, CreateEffect DEF PartOwned
    <3>3. ASSUME NEW u \in Ingesters, NEW v \in Ingesters,
                 u # v, pc'[u] = "close", pc'[v] = "close"
          PROVE  part'[u] # part'[v]
      <4>1. CASE u = w
        BY <3>1, <3>2, <3>3, <4>1
      <4>2. CASE v = w
        BY <3>1, <3>2, <3>3, <4>2
      <4>3. CASE u # w /\ v # w
        BY <3>1, <3>3, <4>3 DEF PartOwned
      <4>. QED
        BY <4>1, <4>2, <4>3
    <3>4. \A u \in Ingesters : pc'[u] = "close" =>
            /\ part'[u] \in DOMAIN fragments'
            /\ fragments'[part'[u]] = [by |-> u, rows |-> fresh'[u], whole |-> FALSE]
      BY <3>1, <3>2
    <3>. QED
      BY <3>3, <3>4 DEF PartOwned
  <2>9. ASSUME NEW w \in Ingesters, LandClose(w) PROVE PartOwned'
    <3>1. /\ \A u \in Ingesters \ {w} : pc'[u] = pc[u]
          /\ pc[w] = "close" /\ pc'[w] = "mark"
          /\ UNCHANGED <<part, fresh>>
      BY <2>9 DEF LandClose, local, TypeOK
    <3>2. \A u \in Ingesters \ {w} : pc[u] = "close" =>
            /\ part[u] \in DOMAIN fragments'
            /\ fragments'[part[u]] = [by |-> u, rows |-> fresh[u], whole |-> FALSE]
      BY <2>9, <3>1, CloseEffect DEF PartOwned
    <3>. QED
      BY <3>1, <3>2 DEF PartOwned
  <2>. QED
    BY <2>2, <2>4, <2>5, <2>6, <2>7, <2>8, <2>9
    DEF Next, Step, Land, FetchFails, LandReadFails, SetWatermark, Crash, Raise
<1>. QED
  BY <1>1, <1>2, IngestTyped, PTL DEF Spec

\* A step keeps every part file, and the complete ones as they are.
LEMMA WholePartsStay ==
  ASSUME TypeOK, PartOwned, [Next]_vars
  PROVE  \A i \in DOMAIN fragments :
           /\ i \in DOMAIN fragments'
           /\ fragments[i].whole => fragments'[i] = fragments[i]
<1>1. CASE \E w \in Ingesters : LandCreate(w)
  BY <1>1, CreateEffect
<1>2. CASE \E w \in Ingesters : LandClose(w)
  BY <1>2, CloseEffect, CloseFields
<1>. QED
  BY <1>1, <1>2, FragmentSteps

\* No step removes a part file or alters a complete one, with any number of
\* ingesters writing at once.
THEOREM WholePartsFinal == Spec => WholeFragmentsAreFinal
<1>1. TypeOK /\ PartOwned /\ [Next]_vars =>
        [\A i \in DOMAIN fragments :
           /\ i \in DOMAIN fragments'
           /\ fragments[i].whole => fragments'[i] = fragments[i]]_fragments
  BY WholePartsStay
<1>. QED
  BY <1>1, IngestTyped, PartOwnedInvariant, PTL DEF Spec, WholeFragmentsAreFinal

---------------------------------------------------------------------------
(* Idempotency *)

\* What land decided to write is still new to its ingester, each hash once.
FreshIsNew ==
  \A w \in Ingesters : pc[w] = "write" =>
    /\ \A i \in DOMAIN fragments :
         fragments[i].by = w => HashesOf(fragments[i].rows) \cap HashesOf(fresh[w]) = {}
    /\ \A c, d \in fresh[w] : c.hash = d.hash => c = d

\* Only the steps of an ingester that writes touch what FreshIsNew is about.
LEMMA FreshKept ==
  ASSUME TypeOK, FreshIsNew, NEW w \in Ingesters, pc'[w] # "write",
         fragments' = fragments,
         \A u \in Ingesters \ {w} : pc'[u] = pc[u] /\ fresh'[u] = fresh[u]
  PROVE  FreshIsNew'
BY DEF FreshIsNew, HashesOf

\* land decides on hashes that no part file has.
LEMMA FreshDecided ==
  ASSUME TypeOK, NEW w \in Ingesters, LandReadHashes(w)
  PROVE  \A i \in DOMAIN fragments : HashesOf(fragments[i].rows) \cap HashesOf(fresh'[w]) = {}
<1>1. \A i \in DOMAIN fragments : fragments[i].whole
  BY DEF LandReadHashes, Readable
<1>2. \A i \in DOMAIN fragments : HashesOf(fragments[i].rows) \subseteq KnownHashes
  BY <1>1 DEF KnownHashes, Stored, HashesOf
<1>3. \A c \in fresh'[w] : c.hash \notin KnownHashes
  BY FreshEffect
<1>. QED
  BY <1>2, <1>3 DEF HashesOf

\* Neither the rows nor the writer of a part file change when it is completed.
LEMMA CloseKeepsRows ==
  ASSUME TypeOK, PartOwned, NEW w \in Ingesters, LandClose(w)
  PROVE  /\ DOMAIN fragments' = DOMAIN fragments
         /\ \A i \in DOMAIN fragments :
              fragments'[i].rows = fragments[i].rows /\ fragments'[i].by = fragments[i].by
BY CloseFields, CloseEffect

\* No ingester stores a hash twice, by any sequence of pulls, revisions, failures
\* and crashes.
LEMMA IdempotentInvariant == Spec => [](NoHashTwice /\ FreshIsNew)
<1>1. Init => NoHashTwice /\ FreshIsNew
  BY DEF Init, NoHashTwice, FreshIsNew
<1>2. TypeOK /\ PartOwned /\ NoHashTwice /\ FreshIsNew /\ [Next]_vars
      => (NoHashTwice /\ FreshIsNew)'
  <2> SUFFICES ASSUME TypeOK, PartOwned, NoHashTwice, FreshIsNew, [Next]_vars
               PROVE  NoHashTwice' /\ FreshIsNew'
    OBVIOUS
  <2>1. ASSUME fragments' = fragments PROVE NoHashTwice'
    BY <2>1 DEF NoHashTwice, HashesOf
  <2>2. CASE Tick \/ (\E d \in Days, v \in Values : Publish(d, v)) \/ UNCHANGED vars
    <3>1. UNCHANGED <<pc, fragments, fresh>>
      BY <2>2 DEF Tick, Publish, local, vars
    <3>. QED
      BY <2>1, <3>1 DEF FreshIsNew, HashesOf
  <2>3. ASSUME NEW w \in Ingesters, Leave(w), fragments' = fragments
        PROVE  NoHashTwice' /\ FreshIsNew'
    <3>1. pc'[w] # "write" /\ \A u \in Ingesters \ {w} : pc'[u] = pc[u] /\ fresh'[u] = fresh[u]
      BY <2>3 DEF Leave, TypeOK
    <3>. QED
      BY <2>1, <2>3, <3>1, FreshKept
  <2>4. ASSUME NEW w \in Ingesters, Pull(w) PROVE NoHashTwice' /\ FreshIsNew'
    <3>1. /\ UNCHANGED <<fragments, fresh>>
          /\ \/ pc' = [pc EXCEPT ![w] = "fetch"]
             \/ pc' = [pc EXCEPT ![w] = "land"]
      BY <2>4 DEF Pull, ingest_endpoint, backfill_endpoint, Enter
    <3>2. pc'[w] # "write" /\ \A u \in Ingesters \ {w} : pc'[u] = pc[u]
      BY <3>1 DEF TypeOK
    <3>. QED
      BY <2>1, <3>1, <3>2, FreshKept
  <2>5. ASSUME NEW w \in Ingesters, FetchWindow(w) \/ LandNothing(w)
        PROVE  NoHashTwice' /\ FreshIsNew'
    <3>1. UNCHANGED <<fragments, fresh>>
      BY <2>5 DEF FetchWindow, LandNothing, local
    <3>2. pc'[w] # "write" /\ \A u \in Ingesters \ {w} : pc'[u] = pc[u]
      BY <2>5 DEF FetchWindow, LandNothing, TypeOK
    <3>. QED
      BY <2>1, <3>1, <3>2, FreshKept
  <2>6. ASSUME NEW w \in Ingesters, LandReadHashes(w) PROVE NoHashTwice' /\ FreshIsNew'
    <3>1. fragments' = fragments /\ \A u \in Ingesters \ {w} : pc'[u] = pc[u]
      BY <2>6 DEF LandReadHashes, TypeOK
    <3>2. \A i \in DOMAIN fragments :
            HashesOf(fragments[i].rows) \cap HashesOf(fresh'[w]) = {}
      BY <2>6, FreshDecided
    <3>3. /\ \A c, d \in fresh'[w] : c.hash = d.hash => c = d
          /\ \A u \in Ingesters \ {w} : fresh'[u] = fresh[u]
      BY <2>6, FreshEffect
    <3>. QED
      BY <2>1, <3>1, <3>2, <3>3 DEF FreshIsNew, HashesOf
  <2>7. ASSUME NEW w \in Ingesters, LandCreate(w) PROVE NoHashTwice' /\ FreshIsNew'
    <3>1. /\ pc[w] = "write" /\ pc'[w] = "close"
          /\ \A u \in Ingesters \ {w} : pc'[u] = pc[u]
          /\ fresh' = fresh
      BY <2>7 DEF LandCreate, TypeOK
    <3>2. /\ \A i \in DOMAIN fragments :
               fragments[i].by = w => HashesOf(fragments[i].rows) \cap HashesOf(fresh[w]) = {}
          /\ \A c, d \in fresh[w] : c.hash = d.hash => c = d
      BY <3>1 DEF FreshIsNew
    <3>3. fragments'[part'[w]].rows = fresh[w] /\ fragments'[part'[w]].by = w
      BY <2>7, CreateFields
    <3>4. /\ DOMAIN fragments' = DOMAIN fragments \cup {part'[w]}
          /\ \A i \in DOMAIN fragments :
               fragments'[i].rows = fragments[i].rows /\ fragments'[i].by = fragments[i].by
      BY <2>7, CreateEffect
    <3>5. NoHashTwice'
      BY <3>2, <3>3, <3>4 DEF NoHashTwice
    <3>6. ASSUME NEW u \in Ingesters, pc'[u] = "write"
          PROVE  /\ \A i \in DOMAIN fragments' : fragments'[i].by = u =>
                      HashesOf(fragments'[i].rows) \cap HashesOf(fresh'[u]) = {}
                 /\ \A c, d \in fresh'[u] : c.hash = d.hash => c = d
      <4>1. u # w /\ pc[u] = "write"
        BY <3>1, <3>6
      <4>. QED
        BY <3>1, <3>3, <3>4, <4>1 DEF FreshIsNew
    <3>7. FreshIsNew'
      BY <3>6 DEF FreshIsNew, HashesOf
    <3>. QED
      BY <3>5, <3>7
  <2>8. ASSUME NEW w \in Ingesters, LandClose(w) PROVE NoHashTwice' /\ FreshIsNew'
    <3>1. /\ pc'[w] = "mark" /\ \A u \in Ingesters \ {w} : pc'[u] = pc[u]
          /\ fresh' = fresh
      BY <2>8 DEF LandClose, local, TypeOK
    <3>2. /\ DOMAIN fragments' = DOMAIN fragments
          /\ \A i \in DOMAIN fragments :
               fragments'[i].rows = fragments[i].rows /\ fragments'[i].by = fragments[i].by
      BY <2>8, CloseKeepsRows
    <3>3. NoHashTwice'
      BY <3>2 DEF NoHashTwice
    <3>4. FreshIsNew'
      BY <3>1, <3>2 DEF FreshIsNew, HashesOf
    <3>. QED
      BY <3>3, <3>4
  <2>. QED
    BY <2>2, <2>3, <2>4, <2>5, <2>6, <2>7, <2>8
    DEF Next, Step, Land, FetchFails, LandReadFails, SetWatermark, Crash, Raise
<1>. QED
  BY <1>1, <1>2, IngestTyped, PartOwnedInvariant, PTL DEF Spec

\* Landing is idempotent: no ingester ever stores a payload hash twice, whatever
\* the others land at the same time.
THEOREM LandingIsIdempotent == Spec => []NoHashTwice
BY IdempotentInvariant, PTL

\* When a single ingester pulls the endpoint, no payload hash is stored twice at
\* all: duplicates come from concurrent landings only.
THEOREM AloneStoresOnce ==
  ASSUME \A u, w \in Ingesters : u = w
  PROVE  Spec => [](\A i, j \in DOMAIN fragments :
                      i # j => HashesOf(fragments[i].rows) \cap HashesOf(fragments[j].rows) = {})
<1>1. TypeOK /\ NoHashTwice =>
        \A i, j \in DOMAIN fragments :
          i # j => HashesOf(fragments[i].rows) \cap HashesOf(fragments[j].rows) = {}
  <2> SUFFICES ASSUME TypeOK, NoHashTwice, NEW i \in DOMAIN fragments, NEW j \in DOMAIN fragments,
                      i # j
               PROVE  HashesOf(fragments[i].rows) \cap HashesOf(fragments[j].rows) = {}
    OBVIOUS
  <2>1. fragments[i].by \in Ingesters /\ fragments[j].by \in Ingesters
    BY PartTyped
  <2>. QED
    BY <2>1 DEF NoHashTwice
<1>. QED
  BY <1>1, IngestTyped, LandingIsIdempotent, PTL

\* What the landing zone holds is what its complete part files hold.
LEMMA HeldIn ==
  ASSUME NEW e
  PROVE  e \in Held <=>
           \E i \in DOMAIN fragments :
             /\ fragments[i].whole
             /\ \E h \in HashesOf(fragments[i].rows) :
                  e = [hash |-> h, by |-> fragments[i].by, at |-> i]
BY DEF Held

\* The landing zone is a vintage store: a hash arrives from each of its writers in
\* one part file at most, and stays there.
THEOREM LandingImplementsVintageStore == Spec => ImplementsVintageStore
<1>1. Init => Store!Init
  BY DEF Init, Store!Init, Held
<1>2. TypeOK /\ PartOwned /\ NoHashTwice /\ NoHashTwice' /\ [Next]_vars => [Store!Deposit]_Held
  <2> SUFFICES ASSUME TypeOK, PartOwned, NoHashTwice, NoHashTwice', [Next]_vars
               PROVE  Store!Deposit
    OBVIOUS
  <2>1. Held \subseteq Held'
    <3> SUFFICES ASSUME NEW e \in Held PROVE e \in Held'
      OBVIOUS
    <3>1. PICK i \in DOMAIN fragments :
            /\ fragments[i].whole
            /\ \E h \in HashesOf(fragments[i].rows) :
                 e = [hash |-> h, by |-> fragments[i].by, at |-> i]
      BY HeldIn
    <3>2. i \in DOMAIN fragments' /\ fragments'[i] = fragments[i]
      BY <3>1, WholePartsStay
    <3>3. \E h \in HashesOf(fragments'[i].rows) :
            e = [hash |-> h, by |-> fragments'[i].by, at |-> i]
      BY <3>1, <3>2
    <3>. QED
      BY <3>1, <3>2, <3>3 DEF Held, HashesOf
  <2>2. ASSUME NEW e \in Held', NEW f \in Held', f.hash = e.hash, f.by = e.by
        PROVE  f = e
    <3>1. PICK i \in DOMAIN fragments' :
            \E h \in HashesOf(fragments'[i].rows) :
              e = [hash |-> h, by |-> fragments'[i].by, at |-> i]
      BY DEF Held, HashesOf
    <3>2. PICK j \in DOMAIN fragments' :
            \E h \in HashesOf(fragments'[j].rows) :
              f = [hash |-> h, by |-> fragments'[j].by, at |-> j]
      BY DEF Held, HashesOf
    <3>3. /\ e = [hash |-> e.hash, by |-> fragments'[i].by, at |-> i]
          /\ e.hash \in HashesOf(fragments'[i].rows)
      BY <3>1
    <3>4. /\ f = [hash |-> f.hash, by |-> fragments'[j].by, at |-> j]
          /\ f.hash \in HashesOf(fragments'[j].rows)
      BY <3>2
    <3>5. e.by = fragments'[i].by /\ f.by = fragments'[j].by
      BY <3>3, <3>4
    <3>6. i = j
      BY <2>2, <3>3, <3>4, <3>5 DEF NoHashTwice, HashesOf
    <3>. QED
      BY <2>2, <3>3, <3>4, <3>5, <3>6
  <2>. QED
    BY <2>1, <2>2 DEF Store!Deposit
<1>. QED
  BY <1>1, <1>2, IngestTyped, PartOwnedInvariant, LandingIsIdempotent, PTL
  DEF Spec, ImplementsVintageStore, Store!Spec

---------------------------------------------------------------------------
(* What a view may show.  Any stamp is too early by less than a day; one   *)
(* of which the parser reads the time is not too early at all.             *)

\* However the source prints its publications, a view shows nothing that it published
\* a day or more after the view's time.
THEOREM LookaheadIsBelowADay ==
  Spec => [](\A t \in AsOfs : \A c \in V!as_of_view(Stored, t) : c.at + 1 < t + DayLength)
<1>1. TypeOK /\ StoredWasPublished =>
        \A t \in AsOfs : \A c \in V!as_of_view(Stored, t) : c.at + 1 < t + DayLength
  <2> SUFFICES ASSUME TypeOK, StoredWasPublished, NEW t \in AsOfs,
                      NEW c \in V!as_of_view(Stored, t)
               PROVE  c.at + 1 < t + DayLength
    OBVIOUS
  <2>1. c \in Stored /\ c.pub < t
    BY DEF V!as_of_view, V!Latest, V!Visible
  <2>2. c.at < c.pub + DayLength
    BY <2>1 DEF Stored, StoredWasPublished, IsPublished
  <2>3. Stored \subseteq Cell
    BY PartTyped DEF Stored
  <2>4. c.at \in Nat /\ c.pub \in Nat /\ t \in Nat
    BY <2>1, <2>3, NumbersAssumption DEF Cell, Times, AsOfs
  <2>. QED
    BY <2>1, <2>2, <2>4, NumbersAssumption
<1>. QED
  BY <1>1, IngestTyped, ProvenanceHolds, PTL

\* The parser reads the time of the stamps.
Timed == StampForm \in {"zoned", "local"}

\* The instant a stamp is taken for.
Told(t) == IF StampForm = "zoned" THEN t ELSE Reading(t)

\* Later publications have later stamps.  Readings of the clock are not, in the hour
\* after it is put back.
InOrder == \A s, t \in Times : s < t => Told(s) < Told(t)

\* A cell that stores what its stamp is taken for, and whose hash tells it.
Exact(c) ==
  c.pub = Told(c.at) /\ c.hash = [day |-> c.key, val |-> c.val, stamp |-> Told(c.at)]

CellsExact ==
  /\ \A w \in Ingesters : \A c \in cells[w] \cup fresh[w] : Exact(c)
  /\ \A i \in DOMAIN fragments : \A c \in fragments[i].rows : Exact(c)

LEMMA BuiltCellExact ==
  ASSUME Timed, NEW r, NEW t
  PROVE  Exact(build_cell(r, t))
<1>1. Printed(r) = Told(r.at)
  BY DEF Timed, Printed, Told
<1>2. publication_ts(r, t) = Printed(r)
  BY DEF Timed, publication_ts
<1>. QED
  BY <1>1, <1>2 DEF Exact, build_cell, payload_hash

\* Stamps are not too early.
LEMMA ToldBound ==
  ASSUME NEW t \in Times
  PROVE  Told(t) \in Nat /\ t <= Told(t)
BY ReadingBound, NumbersAssumption DEF Told, Times

\* Cells whose stamps are in order are in the order of their publication.
LEMMA ToldOrder ==
  ASSUME InOrder, NEW s \in Times, NEW t \in Times, Told(s) <= Told(t)
  PROVE  s <= t
<1>1. s \in Nat /\ t \in Nat /\ Told(s) \in Nat /\ Told(t) \in Nat
  BY ToldBound, NumbersAssumption DEF Times
<1>2. t < s => Told(t) < Told(s)
  BY DEF InOrder
<1>. QED
  BY <1>1, <1>2

LEMMA StoredExact ==
  ASSUME CellsExact, NEW c \in Stored
  PROVE  Exact(c)
BY DEF CellsExact, Stored

\* Whole part files stay, so whatever is stored stays stored.
LEMMA StoredGrows ==
  ASSUME TypeOK, PartOwned, [Next]_vars
  PROVE  Stored \subseteq Stored' /\ KnownHashes \subseteq KnownHashes'
<1>1. Stored \subseteq Stored'
  BY WholePartsStay DEF Stored
<1>. QED
  BY <1>1 DEF KnownHashes, HashesOf

LEMMA CellsExactInvariant ==
  ASSUME Timed
  PROVE  Spec => []CellsExact
<1>1. Init => CellsExact
  BY DEF Init, CellsExact
<1>2. TypeOK /\ PartOwned /\ CellsExact /\ [Next]_vars => CellsExact'
  <2> SUFFICES ASSUME TypeOK, PartOwned, CellsExact, [Next]_vars PROVE CellsExact'
    OBVIOUS
  <2>1. CASE Tick \/ (\E d \in Days, v \in Values : Publish(d, v)) \/ UNCHANGED vars
    <3>1. UNCHANGED <<cells, fresh, fragments>>
      BY <2>1 DEF Tick, Publish, local, vars
    <3>. QED
      BY <3>1 DEF CellsExact
  <2>2. ASSUME NEW w \in Ingesters, fragments' = fragments,
               \A c \in cells'[w] \cup fresh'[w] : Exact(c),
               \A u \in Ingesters \ {w} : cells'[u] = cells[u] /\ fresh'[u] = fresh[u]
        PROVE  CellsExact'
    BY <2>2 DEF CellsExact
  <2>3. ASSUME NEW w \in Ingesters, Leave(w), fragments' = fragments PROVE CellsExact'
    BY <2>2, <2>3 DEF Leave, TypeOK
  <2>4. ASSUME NEW w \in Ingesters, Pull(w) PROVE CellsExact'
    <3>1. UNCHANGED <<fragments, fresh>> /\ cells' = [cells EXCEPT ![w] = {}]
      BY <2>4 DEF Pull, ingest_endpoint, backfill_endpoint, Enter
    <3>. QED
      BY <3>1 DEF CellsExact, TypeOK
  <2>5. ASSUME NEW w \in Ingesters, FetchWindow(w) PROVE CellsExact'
    <3>1. UNCHANGED <<fragments, fresh>>
      BY <2>5 DEF FetchWindow
    <3>2. PICK f \in FetchedAt :
            cells' = [cells EXCEPT ![w] = @ \cup {build_cell(r, f) : r \in Answer(w)}]
      BY <2>5 DEF FetchWindow
    <3>3. \A c \in {build_cell(r, f) : r \in Answer(w)} : Exact(c)
      BY BuiltCellExact, Timed
    <3>. QED
      BY <3>1, <3>2, <3>3 DEF CellsExact, TypeOK
  <2>6. ASSUME NEW w \in Ingesters, LandNothing(w) PROVE CellsExact'
    <3>1. UNCHANGED <<cells, fresh, fragments>>
      BY <2>6 DEF LandNothing, local
    <3>. QED
      BY <3>1 DEF CellsExact
  <2>7. ASSUME NEW w \in Ingesters, LandReadHashes(w) PROVE CellsExact'
    <3>1. fresh'[w] \subseteq cells[w] /\ \A u \in Ingesters \ {w} : fresh'[u] = fresh[u]
      BY <2>7, FreshEffect
    <3>2. UNCHANGED <<cells, fragments>>
      BY <2>7 DEF LandReadHashes
    <3>. QED
      BY <2>2, <3>1, <3>2 DEF CellsExact
  <2>8. ASSUME NEW w \in Ingesters, LandCreate(w) PROVE CellsExact'
    <3>1. UNCHANGED <<cells, fresh>>
      BY <2>8 DEF LandCreate
    <3>2. \A i \in DOMAIN fragments' :
            \/ i \in DOMAIN fragments /\ fragments'[i] = fragments[i]
            \/ fragments'[i].rows = fresh[w]
      <4>1. fragments'[part'[w]].rows = fresh[w]
        BY <2>8, CreateFields
      <4>2. /\ DOMAIN fragments' = DOMAIN fragments \cup {part'[w]}
            /\ \A i \in DOMAIN fragments : fragments'[i] = fragments[i]
        BY <2>8, CreateEffect
      <4>. QED
        BY <4>1, <4>2
    <3>. QED
      BY <3>1, <3>2 DEF CellsExact
  <2>9. ASSUME NEW w \in Ingesters, LandClose(w) PROVE CellsExact'
    <3>1. UNCHANGED <<cells, fresh>>
      BY <2>9 DEF LandClose, local
    <3>2. \A i \in DOMAIN fragments' :
            \/ i \in DOMAIN fragments /\ fragments'[i] = fragments[i]
            \/ fragments'[i].rows = fresh[w]
      <4>1. /\ fragments'[part[w]].rows = fresh[w]
            /\ \A i \in DOMAIN fragments : i # part[w] => fragments'[i] = fragments[i]
        BY <2>9, CloseFields
      <4>2. DOMAIN fragments' = DOMAIN fragments
        BY <2>9, CloseEffect
      <4>. QED
        BY <4>1, <4>2
    <3>. QED
      BY <3>1, <3>2 DEF CellsExact
  <2>. QED
    BY <2>1, <2>3, <2>4, <2>5, <2>6, <2>7, <2>8, <2>9
    DEF Next, Step, Land, FetchFails, LandReadFails, SetWatermark, Crash, Raise
<1>. QED
  BY <1>1, <1>2, IngestTyped, PartOwnedInvariant, PTL DEF Spec

\* A view never shows what was not published yet, also when the stamps are readings of
\* Roman clocks that are taken for UTC: those clocks are ahead.
THEOREM ViewsDoNotLookAhead ==
  ASSUME Timed
  PROVE  Spec => []NoLookahead
<1>1. TypeOK /\ CellsExact => NoLookahead
  <2> SUFFICES ASSUME TypeOK, CellsExact, NEW t \in AsOfs, NEW c \in V!as_of_view(Stored, t)
               PROVE  c.at < t
    BY DEF NoLookahead
  <2>1. c \in Stored /\ c.pub < t
    BY DEF V!as_of_view, V!Latest, V!Visible
  <2>2. Stored \subseteq Cell
    BY PartTyped DEF Stored
  <2>3. c.at \in Times /\ c.at \in Nat /\ c.pub \in Nat /\ t \in Nat
    BY <2>1, <2>2, NumbersAssumption DEF Cell, Times, AsOfs
  <2>4. c.pub = Told(c.at)
    BY <2>1, StoredExact DEF Exact
  <2>5. c.at <= c.pub
    BY <2>3, <2>4, ToldBound
  <2>. QED
    BY <2>1, <2>3, <2>5
<1>. QED
  BY <1>1, IngestTyped, CellsExactInvariant, PTL

---------------------------------------------------------------------------
(* Delivery *)

\* What the source published for a day always has a newest record.
DaysHaveCurrent == \A r \in revisions : Current(r.day) # {}

LEMMA CurrentKept ==
  ASSUME TypeOK, DaysHaveCurrent, NEW d \in Days, NEW v \in Values, Publish(d, v)
  PROVE  DaysHaveCurrent'
<1> DEFINE new == [day |-> d, val |-> v, at |-> now]
<1>1. revisions' = revisions \cup {new}
  BY DEF Publish
<1>2. \A r \in revisions : r.day = d => r.at <= now
  BY DEF Publish, TypeOK, Times, Revision
<1>3. now \in Nat
  BY NumbersAssumption DEF TypeOK, Times
<1>4. new \in Current(d)'
  BY <1>1, <1>2, <1>3 DEF Current
<1>5. ASSUME NEW r \in revisions, r.day # d PROVE Current(r.day)' # {}
  <2>1. PICK s \in Current(r.day) : TRUE
    BY DEF DaysHaveCurrent
  <2>2. s \in Current(r.day)'
    BY <1>1, <1>5, <2>1 DEF Current
  <2>. QED
    BY <2>2
<1>6. ASSUME NEW r \in revisions' PROVE (Current(r.day)') # {}
  <2>1. CASE r.day = d
    BY <1>4, <2>1
  <2>2. CASE r.day # d
    BY <1>1, <1>5, <2>2
  <2>. QED
    BY <2>1, <2>2
<1>. QED
  BY <1>6 DEF DaysHaveCurrent

\* The cells of w deliver the revision r, or a newer one of its day.
Covered(w, r) == \E c \in cells[w] : c.key = r.day /\ c.at >= r.at

\* Where each revision that a pull has to deliver is on its way to the dataset.
Delivery(w) ==
  /\ due[w] \subseteq revisions
  /\ \A r \in due[w] : r.day <= upto[w]
  /\ pc[w] = "fetch" => \A r \in due[w] : next[w] <= r.day \/ Covered(w, r)
  /\ pc[w] \in {"land", "write", "close", "mark"} => \A r \in due[w] : Covered(w, r)
  /\ pc[w] \in {"write", "close"} =>
       HashesOf(cells[w]) \subseteq KnownHashes \cup HashesOf(fresh[w])
  /\ pc[w] = "mark" => HashesOf(cells[w]) \subseteq KnownHashes

DeliveryInv == DaysHaveCurrent /\ \A w \in Ingesters : Delivery(w)

\* Steps that leave an ingester's memory alone and lose nothing keep it going.
LEMMA DeliveryKept ==
  ASSUME NEW u \in Ingesters, Delivery(u),
         revisions \subseteq revisions', KnownHashes \subseteq KnownHashes',
         pc'[u] = pc[u], next'[u] = next[u], upto'[u] = upto[u],
         cells'[u] = cells[u], fresh'[u] = fresh[u], due'[u] = due[u]
  PROVE  Delivery(u)'
BY DEF Delivery, Covered, HashesOf

\* An answered window covers the days it asked for.
LEMMA WindowCovered ==
  ASSUME TypeOK, DaysHaveCurrent, NEW w \in Ingesters, FetchWindow(w),
         NEW r \in revisions, next[w] <= r.day, r.day <= WindowEnd(w)
  PROVE  \E c \in cells'[w] : c.key = r.day /\ c.at >= r.at
<1>1. PICK s \in Current(r.day) : TRUE
  BY DEF DaysHaveCurrent
<1>2. s.day = r.day /\ s.at >= r.at
  BY <1>1 DEF Current
<1>3. r.day \in next[w]..WindowEnd(w)
  BY WindowEndBound, NumbersAssumption DEF TypeOK, Revision, Days
<1>4. s \in Answer(w)
  BY <1>1, <1>3 DEF Answer
<1>5. PICK f \in FetchedAt :
        cells' = [cells EXCEPT ![w] = @ \cup {build_cell(served, f) : served \in Answer(w)}]
  BY DEF FetchWindow
<1>6. build_cell(s, f) \in cells'[w]
  BY <1>4, <1>5 DEF TypeOK
<1>. QED
  BY <1>2, <1>6 DEF build_cell

LEMMA DeliveryInvariant ==
  ASSUME ~Resume
  PROVE  Spec => []DeliveryInv
<1>1. Init => DeliveryInv
  BY DEF Init, DeliveryInv, DaysHaveCurrent, Delivery
<1>2. TypeOK /\ TypeOK' /\ PartOwned /\ DeliveryInv /\ [Next]_vars => DeliveryInv'
  <2> SUFFICES ASSUME TypeOK, TypeOK', PartOwned, DeliveryInv, [Next]_vars
               PROVE  DeliveryInv'
    OBVIOUS
  <2> USE NumbersAssumption
  <2>1. KnownHashes \subseteq KnownHashes'
    BY StoredGrows
  <2>2. ASSUME revisions' = revisions PROVE DaysHaveCurrent'
    BY <2>2 DEF DeliveryInv, DaysHaveCurrent, Current
  <2>3. ASSUME UNCHANGED <<pc, local, due>>, revisions \subseteq revisions'
        PROVE  \A w \in Ingesters : Delivery(w)'
    BY <2>1, <2>3, DeliveryKept DEF local, DeliveryInv
  <2>4. CASE Tick \/ UNCHANGED vars
    BY <2>2, <2>3, <2>4 DEF Tick, vars, local, DeliveryInv
  <2>5. ASSUME NEW d \in Days, NEW v \in Values, Publish(d, v) PROVE DeliveryInv'
    <3>1. DaysHaveCurrent'
      BY <2>5, CurrentKept DEF DeliveryInv
    <3>. QED
      BY <2>3, <2>5, <3>1 DEF Publish, DeliveryInv
  <2>6. ASSUME NEW w \in Ingesters, revisions' = revisions, Delivery(w)',
               \A u \in Ingesters \ {w} :
                 /\ pc'[u] = pc[u] /\ next'[u] = next[u] /\ upto'[u] = upto[u]
                 /\ cells'[u] = cells[u] /\ fresh'[u] = fresh[u] /\ due'[u] = due[u]
        PROVE  DeliveryInv'
    <3>1. \A u \in Ingesters \ {w} : Delivery(u)'
      BY <2>1, <2>6, DeliveryKept DEF DeliveryInv
    <3>. QED
      BY <2>2, <2>6, <3>1 DEF DeliveryInv
  <2>7. ASSUME NEW w \in Ingesters, Leave(w), revisions' = revisions PROVE DeliveryInv'
    <3>1. pc'[w] = "idle" /\ due'[w] = {}
      BY <2>7 DEF Leave, TypeOK
    <3>2. Delivery(w)'
      BY <3>1 DEF Delivery
    <3>. QED
      BY <2>6, <2>7, <3>2 DEF Leave, TypeOK
  <2>8. ASSUME NEW w \in Ingesters, NEW lo \in Days, NEW hi \in lo..LastDay,
               Enter(w, lo, lo, hi)
        PROVE  DeliveryInv'
    <3>1. /\ pc'[w] = "fetch" /\ next'[w] = lo /\ upto'[w] = hi
          /\ due'[w] = UNION {Current(d) : d \in lo..hi}
      BY <2>8 DEF Enter, TypeOK, Days
    <3>2. revisions' = revisions
      BY <2>8 DEF Enter, clocks
    <3>3. \A r \in due'[w] : r \in revisions /\ r.day \in lo..hi
      BY <3>1 DEF Current
    <3>4. Delivery(w)'
      BY <3>1, <3>2, <3>3 DEF Delivery, Days
    <3>. QED
      BY <2>6, <2>8, <3>2, <3>4 DEF Enter, TypeOK
  <2>9. ASSUME NEW w \in Ingesters, Pull(w) PROVE DeliveryInv'
    <3>1. PICK lo \in Days : \E hi \in lo..LastDay :
            ingest_endpoint(w, lo, hi) \/ backfill_endpoint(w, lo, hi)
      BY <2>9 DEF Pull
    <3>2. PICK hi \in lo..LastDay :
            ingest_endpoint(w, lo, hi) \/ backfill_endpoint(w, lo, hi)
      BY <3>1
    <3>3. Enter(w, lo, lo, hi)
      BY <3>2, ~Resume DEF ingest_endpoint, backfill_endpoint
    <3>. QED
      BY <2>8, <3>3
  <2>10. ASSUME NEW w \in Ingesters, FetchWindow(w) PROVE DeliveryInv'
    <3>1. /\ revisions' = revisions /\ UNCHANGED <<upto, fresh, due>>
          /\ next'[w] = WindowEnd(w) + 1
          /\ cells[w] \subseteq cells'[w]
          /\ pc[w] = "fetch"
          /\ pc'[w] = IF WindowEnd(w) = upto[w] THEN "land" ELSE "fetch"
      BY <2>10 DEF FetchWindow, clocks, TypeOK
    <3>2. ASSUME NEW r \in due[w]
          PROVE  next'[w] <= r.day \/ Covered(w, r)'
      <4>1. r \in revisions /\ (next[w] <= r.day \/ Covered(w, r))
        BY <3>1 DEF DeliveryInv, Delivery
      <4>2. CASE Covered(w, r)
        BY <3>1, <4>2 DEF Covered
      <4>3. CASE next[w] <= r.day /\ r.day <= WindowEnd(w)
        BY <2>10, <4>1, <4>3, WindowCovered DEF DeliveryInv, Covered
      <4>4. CASE ~(r.day <= WindowEnd(w))
        BY <3>1, <4>1, <4>4, WindowEndBound DEF TypeOK, Revision, Days
      <4>. QED
        BY <4>1, <4>2, <4>3, <4>4
    <3>3. \A r \in due[w] : r \in revisions /\ r.day <= upto[w] /\ r.day \in Nat
      BY DEF DeliveryInv, Delivery, TypeOK, Revision, Days
    <3>4. pc'[w] = "land" => \A r \in due[w] : Covered(w, r)'
      <4>1. upto[w] \in Nat
        BY DEF TypeOK
      <4>2. pc'[w] = "land" => next'[w] = upto[w] + 1
        BY <3>1
      <4>3. pc'[w] = "land" => \A r \in due[w] : ~(next'[w] <= r.day)
        BY <3>3, <4>1, <4>2
      <4>. QED
        BY <3>2, <4>3
    <3>5. Delivery(w)'
      BY <3>1, <3>2, <3>3, <3>4 DEF Delivery
    <3>. QED
      BY <2>6, <2>10, <3>1, <3>5 DEF FetchWindow, TypeOK
  <2>11. ASSUME NEW w \in Ingesters, LandNothing(w) PROVE DeliveryInv'
    <3>1. /\ UNCHANGED <<revisions, next, upto, cells, fresh, due>>
          /\ pc[w] = "land" /\ pc'[w] = "mark" /\ cells[w] = {}
          /\ \A u \in Ingesters \ {w} : pc'[u] = pc[u]
      BY <2>11 DEF LandNothing, clocks, local, TypeOK
    <3>2. Delivery(w)'
      BY <3>1 DEF DeliveryInv, Delivery, Covered, HashesOf
    <3>. QED
      BY <2>6, <3>1, <3>2
  <2>12. ASSUME NEW w \in Ingesters, LandReadHashes(w) PROVE DeliveryInv'
    <3> DEFINE missing == {c \in cells[w] : c.hash \notin KnownHashes}
    <3>1. /\ UNCHANGED <<revisions, fragments, next, upto, cells, due>>
          /\ pc[w] = "land"
          /\ pc'[w] = IF fresh'[w] = {} THEN "mark" ELSE "write"
          /\ \A u \in Ingesters \ {w} : pc'[u] = pc[u]
      BY <2>12 DEF LandReadHashes, clocks, TypeOK
    <3>2. /\ HashesOf(fresh'[w]) = HashesOf(missing)
          /\ \A u \in Ingesters \ {w} : fresh'[u] = fresh[u]
      BY <2>12, FreshEffect
    <3>3. HashesOf(cells[w]) \subseteq KnownHashes \cup HashesOf(fresh'[w])
      BY <3>2 DEF HashesOf
    <3>4. fresh'[w] = {} => HashesOf(fresh'[w]) = {}
      BY DEF HashesOf
    <3>5. Delivery(w)'
      BY <2>1, <3>1, <3>3, <3>4 DEF DeliveryInv, Delivery, Covered, HashesOf
    <3>. QED
      BY <2>6, <3>1, <3>2, <3>5
  <2>13. ASSUME NEW w \in Ingesters, LandCreate(w) PROVE DeliveryInv'
    <3>1. /\ UNCHANGED <<revisions, next, upto, cells, fresh, due>>
          /\ pc[w] = "write" /\ pc'[w] = "close"
          /\ \A u \in Ingesters \ {w} : pc'[u] = pc[u]
      BY <2>13 DEF LandCreate, clocks, TypeOK
    <3>2. Delivery(w)'
      BY <2>1, <3>1 DEF DeliveryInv, Delivery, Covered, HashesOf
    <3>. QED
      BY <2>6, <3>1, <3>2
  <2>14. ASSUME NEW w \in Ingesters, LandClose(w) PROVE DeliveryInv'
    <3>1. /\ UNCHANGED <<revisions, next, upto, cells, fresh, due>>
          /\ pc[w] = "close" /\ pc'[w] = "mark"
          /\ \A u \in Ingesters \ {w} : pc'[u] = pc[u]
      BY <2>14 DEF LandClose, clocks, local, TypeOK
    <3>2. fresh[w] \subseteq Stored'
      <4>1. /\ part[w] \in DOMAIN fragments'
            /\ fragments'[part[w]].whole
            /\ fragments'[part[w]].rows = fresh[w]
        BY <2>14, CloseFields, CloseEffect
      <4>. QED
        BY <4>1 DEF Stored
    <3>3. HashesOf(fresh[w]) \subseteq KnownHashes'
      BY <3>2 DEF KnownHashes, HashesOf
    <3>4. Delivery(w)'
      BY <2>1, <3>1, <3>3 DEF DeliveryInv, Delivery, Covered, HashesOf
    <3>. QED
      BY <2>6, <3>1, <3>4
  <2>. QED
    BY <2>4, <2>5, <2>7, <2>9, <2>10, <2>11, <2>12, <2>13, <2>14
    DEF Next, Step, Land, FetchFails, LandReadFails, SetWatermark, Crash, Raise, clocks
<1>. QED
  BY <1>1, <1>2, IngestTyped, PartOwnedInvariant, PTL DEF Spec

\* What a finished pull had to deliver is stored.
ConfirmedIsStored ==
  \A d \in Days : confirmed[d] > 0 =>
    \E c \in Stored : c.key = d /\ c.at >= confirmed[d]

LEMMA MarkDelivers ==
  ASSUME InOrder, TypeOK, CellsExact, DeliveryInv, NEW w \in Ingesters, pc[w] = "mark",
         NEW r \in due[w]
  PROVE  \E c \in Stored : c.key = r.day /\ c.at >= r.at
<1>1. PICK c \in cells[w] : c.key = r.day /\ c.at >= r.at
  BY DEF DeliveryInv, Delivery, Covered
<1>2. c.hash \in KnownHashes
  BY <1>1 DEF DeliveryInv, Delivery, HashesOf
<1>3. PICK e \in Stored : e.hash = c.hash
  BY <1>2 DEF KnownHashes, HashesOf
<1>4. Exact(c) /\ Exact(e)
  BY <1>3, StoredExact DEF CellsExact
<1>5. e.key = c.key /\ e.at = c.at
  <2>1. [day |-> e.key, val |-> e.val, stamp |-> Told(e.at)]
        = [day |-> c.key, val |-> c.val, stamp |-> Told(c.at)]
    BY <1>3, <1>4 DEF Exact
  <2>2. e.key = c.key /\ Told(e.at) = Told(c.at)
    BY <2>1
  <2>3. c.at \in Times /\ e.at \in Times
    <3>1. Stored \subseteq Cell /\ cells[w] \subseteq Cell
      BY PartTyped DEF Stored, TypeOK
    <3>. QED
      BY <1>1, <1>3, <3>1 DEF Cell
  <2>4. e.at <= c.at /\ c.at <= e.at
    <3>1. Told(e.at) <= Told(c.at) /\ Told(c.at) <= Told(e.at)
      BY <2>2, <2>3, ToldBound
    <3>. QED
      BY <2>3, <3>1, ToldOrder
  <2>. QED
    BY <2>2, <2>3, <2>4, NumbersAssumption DEF Times
<1>. QED
  BY <1>1, <1>3, <1>5

\* No finished pull is ever undone, whatever other ingesters do at the same time.
THEOREM FinishedPullsHold ==
  ASSUME Timed, InOrder, ~Resume
  PROVE  Spec => []FinishedPullsStayVisible
<1>1. Init => ConfirmedIsStored
  BY DEF Init, ConfirmedIsStored
<1>2. TypeOK /\ TypeOK' /\ PartOwned /\ CellsExact /\ DeliveryInv /\ ConfirmedIsStored /\ [Next]_vars
      => ConfirmedIsStored'
  <2> SUFFICES ASSUME TypeOK, TypeOK', PartOwned, CellsExact, DeliveryInv, ConfirmedIsStored, [Next]_vars
               PROVE  ConfirmedIsStored'
    OBVIOUS
  <2>1. Stored \subseteq Stored'
    BY StoredGrows
  <2>2. CASE confirmed' = confirmed
    BY <2>1, <2>2 DEF ConfirmedIsStored
  <2>3. ASSUME NEW w \in Ingesters, SetWatermark(w) PROVE ConfirmedIsStored'
    <3> SUFFICES ASSUME NEW d \in Days, confirmed'[d] > 0
                 PROVE  \E c \in Stored : c.key = d /\ c.at >= confirmed'[d]
      BY <2>1 DEF ConfirmedIsStored
    <3>1. confirmed'[d] = IF Newer(d, w) = {} THEN confirmed[d]
                          ELSE CHOOSE t \in Newer(d, w) : TRUE
      BY <2>3 DEF SetWatermark
    <3>2. CASE Newer(d, w) = {}
      BY <3>1, <3>2 DEF ConfirmedIsStored
    <3>3. CASE Newer(d, w) # {}
      <4>1. confirmed'[d] \in Newer(d, w)
        BY <3>1, <3>3
      <4>2. PICK r \in due[w] : r.day = d /\ confirmed'[d] = r.at
        BY <4>1 DEF Newer
      <4>. QED
        BY <2>3, <4>2, MarkDelivers, InOrder DEF SetWatermark
    <3>. QED
      BY <3>2, <3>3
  <2>. QED
    BY <2>2, <2>3
    DEF Next, Step, Tick, Publish, Pull, ingest_endpoint, backfill_endpoint, Enter,
        FetchWindow, FetchFails, Raise, Land, LandNothing, LandReadHashes,
        LandReadFails, LandCreate, LandClose, Crash, vars
<1>3. TypeOK /\ CellsExact /\ ConfirmedIsStored => FinishedPullsStayVisible
  <2> SUFFICES ASSUME TypeOK, CellsExact, ConfirmedIsStored, NEW d \in Days, confirmed[d] > 0
               PROVE  /\ \E c \in Stored : c.key = d
                      /\ \A c \in V!latest_view(Stored) : c.key = d => c.at >= confirmed[d]
    BY DEF FinishedPullsStayVisible
  <2>1. PICK e \in Stored : e.key = d /\ e.at >= confirmed[d]
    BY DEF ConfirmedIsStored
  <2>2. ASSUME NEW c \in V!latest_view(Stored), c.key = d PROVE c.at >= confirmed[d]
    <3>1. c \in Stored /\ e.pub <= c.pub
      BY <2>1, <2>2 DEF V!latest_view, V!Latest
    <3>2. e.pub = Told(e.at) /\ c.pub = Told(c.at)
      BY <2>1, <3>1, StoredExact DEF Exact
    <3>3. e.at \in Times /\ c.at \in Times /\ confirmed[d] \in Times
      <4>1. Stored \subseteq Cell
        BY PartTyped DEF Stored
      <4>. QED
        BY <2>1, <3>1, <4>1 DEF Cell, TypeOK
    <3>4. e.at <= c.at
      BY <3>1, <3>2, <3>3, ToldOrder, InOrder
    <3>. QED
      BY <2>1, <3>3, <3>4, NumbersAssumption DEF Times
  <2>. QED
    BY <2>1, <2>2
<1>. QED
  BY <1>1, <1>2, <1>3, IngestTyped, PartOwnedInvariant, CellsExactInvariant,
     DeliveryInvariant, PTL DEF Spec

---------------------------------------------------------------------------
(* What a pull leaves for the views *)

\* The source's records of one day can be told by their instants.
RevisionsApart ==
  /\ \A r \in revisions : r.at <= now
  /\ \A r, s \in revisions : r.day = s.day /\ r.at = s.at => r = s

LEMMA RevisionsApartInvariant == Spec => []RevisionsApart
<1>1. Init => RevisionsApart
  BY DEF Init, RevisionsApart
<1>2. TypeOK /\ RevisionsApart /\ [Next]_vars => RevisionsApart'
  <2> SUFFICES ASSUME TypeOK, RevisionsApart, [Next]_vars PROVE RevisionsApart'
    OBVIOUS
  <2> USE NumbersAssumption
  <2>1. now \in Nat /\ \A r \in revisions : r.at \in Nat
    BY DEF TypeOK, Times, Revision
  <2>2. CASE UNCHANGED <<now, revisions>>
    BY <2>2 DEF RevisionsApart
  <2>3. CASE Tick
    BY <2>1, <2>3 DEF Tick, RevisionsApart
  <2>4. ASSUME NEW d \in Days, NEW v \in Values, Publish(d, v) PROVE RevisionsApart'
    <3> DEFINE new == [day |-> d, val |-> v, at |-> now]
    <3>1. revisions' = revisions \cup {new} /\ now' = now
      BY <2>4 DEF Publish
    <3>2. \A r \in revisions : r.day = d => r.at # now
      BY <2>1, <2>4 DEF Publish
    <3>. QED
      BY <2>1, <3>1, <3>2 DEF RevisionsApart
  <2>. QED
    BY <2>2, <2>3, <2>4
    DEF Next, Step, Pull, ingest_endpoint, backfill_endpoint, Enter, FetchWindow,
        FetchFails, Raise, Land, LandNothing, LandReadHashes, LandReadFails, LandCreate,
        LandClose, SetWatermark, Crash, clocks, vars
<1>. QED
  BY <1>1, <1>2, IngestTyped, PTL DEF Spec

\* At the end of a pull the latest view has the source's value of each day that
\* was not revised meanwhile, with any number of ingesters at once.
THEOREM LandingIsUpToDate ==
  ASSUME Timed, InOrder, ~Resume
  PROVE  Spec => []LatestViewIsSourceValue
<1>1. TypeOK /\ CellsExact /\ DeliveryInv /\ RevisionsApart /\ StoredWasPublished
      => LatestViewIsSourceValue
  <2> SUFFICES ASSUME TypeOK, CellsExact, DeliveryInv, RevisionsApart, StoredWasPublished,
                      NEW w \in Ingesters, pc[w] = "mark",
                      NEW r \in due[w], r \in Current(r.day),
                      NEW c \in V!latest_view(Stored), c.key = r.day
               PROVE  c.val = r.val
    BY DEF LatestViewIsSourceValue
  <2>1. PICK e \in Stored : e.key = r.day /\ e.at >= r.at
    BY MarkDelivers, InOrder
  <2>2. c \in Stored /\ e.pub <= c.pub
    BY <2>1 DEF V!latest_view, V!Latest
  <2>3. e.pub = Told(e.at) /\ c.pub = Told(c.at)
    BY <2>1, <2>2, StoredExact DEF Exact
  <2> DEFINE s == [day |-> c.key, val |-> c.val, at |-> c.at]
  <2>4. s \in revisions
    BY <2>2 DEF Stored, StoredWasPublished, IsPublished
  <2>5. r \in revisions /\ s.at <= r.at
    BY <2>4 DEF Current
  <2>6. e.at \in Times /\ s.at \in Times /\ r.at \in Times
    <3>1. Stored \subseteq Cell
      BY PartTyped DEF Stored
    <3>. QED
      BY <2>1, <2>4, <2>5, <3>1 DEF Cell, TypeOK, Revision
  <2>7. s.at = r.at
    <3>1. e.at <= c.at
      BY <2>2, <2>3, <2>6, ToldOrder, InOrder
    <3>. QED
      BY <2>1, <2>5, <2>6, <3>1, NumbersAssumption DEF Times
  <2>8. s = r
    BY <2>4, <2>5, <2>7 DEF RevisionsApart
  <2>. QED
    BY <2>8
<1>. QED
  BY <1>1, IngestTyped, ProvenanceHolds, CellsExactInvariant, DeliveryInvariant,
     RevisionsApartInvariant, PTL

=============================================================================
