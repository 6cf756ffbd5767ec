------------------------------- MODULE Ingest -------------------------------
(***************************************************************************)
(* Pulling one Terna endpoint into its landing dataset: ingest_endpoint    *)
(* and backfill_endpoint (sfe/ingest/flows.py), the chunked fetch          *)
(* (terna_client.py), build_cells and land (landing.py), write_fragment    *)
(* and read_dataset (sfe/io/storage.py) and the endpoint's watermark.      *)
(*                                                                         *)
(* Several ingesters (scheduled flow, CLI backfill, demo seeding) may pull *)
(* the same endpoint at once: nothing in the code excludes it.  Between    *)
(* its pulls the source publishes and revises days.  A cell stands for all *)
(* (area, period, field) cells of one delivery day; its value is opaque.   *)
(* The watermark is one atomic cell here; module Watermark models its file.*)
(***************************************************************************)
EXTENDS Naturals, Sequences, FiniteSets

CONSTANTS
  Ingesters,     \* threads or processes that run ingest flows
  Values,        \* contents a day's record can have
  LastDay,       \* the delivery days are 1..LastDay
  MaxWindow,     \* max_window_days of the endpoint
  MaxTime,       \* bound: the clock stops there
  DayLength,     \* clock ticks in one calendar day
  StampForm,     \* how the endpoint prints the Publication_Date of its records
  RomeAhead,     \* RomeAhead[t]: ticks by which the clocks of Rome are ahead of UTC at t
  Resume,        \* the resume argument of backfill_endpoint
  MaxRevisions,  \* bound: publications and revisions by the source
  MaxPulls       \* bound: pulls that are started

ASSUME IngestersAssumption == Ingesters # {} /\ IsFiniteSet(Ingesters)
ASSUME NumbersAssumption ==
  /\ LastDay \in Nat \ {0}
  /\ MaxWindow \in Nat \ {0}
  /\ MaxTime \in Nat \ {0}
  /\ DayLength \in Nat \ {0}
  /\ MaxRevisions \in Nat
  /\ MaxPulls \in Nat
ASSUME FlagsAssumption == Resume \in BOOLEAN

\* With the zone, the reading of the clocks of Rome without it, that reading in a form
\* of which the parser knows the date only (fractions of a second, no seconds), the
\* date, a form the parser does not know at all, or not at all.
StampForms == {"zoned", "local", "fraction", "day", "unreadable", "none"}

ASSUME StampAssumption ==
  /\ StampForm \in StampForms
  /\ RomeAhead \in [0..MaxTime -> Nat]

VARIABLES
  now,        \* the wall clock
  revisions,  \* everything the source has ever published
  fragments,  \* the dataset's part files, in the order they were created
  watermark,  \* the endpoint's watermark, NoWatermark when there is none
  pulls,      \* pulls started so far
  pc,         \* pc[w]: where ingester w is in ingest_endpoint
  next,       \* next[w]: first day of the next request window
  upto,       \* upto[w]: date_to of the pull
  cells,      \* cells[w]: the cells built from the records fetched so far
  fresh,      \* fresh[w]: the cells land decided to write
  part,       \* part[w]: index of the part file w is writing
  due,        \* observer: revisions that were current in the requested window when w began
  confirmed   \* observer: for each day, the newest revision a finished pull had to deliver

vars == <<now, revisions, fragments, watermark, pulls, pc, next, upto, cells,
          fresh, part, due, confirmed>>

clocks == <<now, revisions>>
local == <<next, upto, cells, fresh, part>>

---------------------------------------------------------------------------
(* Days, revisions and cells *)

Days == 1..LastDay
Times == 0..MaxTime
NoWatermark == 0
NoStamp == 0

Revision == [day : Days, val : Values, at : Times]

\* The hash covers the record without the keys that start with an underscore:
\* the day, the values, and the Publication_Date only if the record has one.
Hash == [day : Days, val : Values, stamp : Nat]

\* key, pub and hash are what the row stores; at is an observer, the instant at
\* which the source really published the record.
Cell == [key : Days, val : Values, at : Times, pub : Nat, hash : Hash]

\* by is an observer: the ingester that wrote the part file.
Fragment == [by : Ingesters, rows : SUBSET Cell, whole : BOOLEAN]

\* What the API answers for a day: its newest revision.
Current(d) ==
  {r \in revisions : r.day = d /\ \A s \in revisions : s.day = d => s.at <= r.at}

V == INSTANCE Vintage

\* A text of which _parse_ts_flexible reads the date only: midnight of that day.
Midnight(t) == (t \div DayLength) * DayLength

\* What the clocks of Rome show.
Reading(t) == t + RomeAhead[t]

\* What the text of a record's Publication_Date tells.
Printed(r) ==
  CASE StampForm = "none" -> NoStamp
    [] StampForm = "zoned" -> r.at
    [] StampForm = "day" -> Midnight(Reading(r.at))
    [] OTHER -> Reading(r.at)

payload_hash(r) == [day |-> r.day, val |-> r.val, stamp |-> Printed(r)]

\* Faulty variant of publication_ts: the fetch time always, never the Publication_Date.
FetchTime(r, fetchedAt) == fetchedAt

\* The Publication_Date as it is parsed: a text without a zone is taken for UTC, which
\* is later than the instant it tells.  Without a text that can be parsed, _fetched_at.
publication_ts(r, fetchedAt) ==
  CASE StampForm \in {"zoned", "local"} -> Printed(r)
    [] StampForm \in {"fraction", "day"} -> Midnight(Printed(r))
    [] OTHER -> fetchedAt

\* What _fetched_at is parsed to: its isoformat has microseconds, unless they are zero,
\* and with them it matches no format but that of a date.
FetchedAt == {Midnight(now), now}

\* Faulty variant of build_cell: the cell is filed one day too late.
NextDayCell(r, fetchedAt) ==
  [key |-> IF r.day < LastDay THEN r.day + 1 ELSE r.day, val |-> r.val, at |-> r.at,
   pub |-> publication_ts(r, fetchedAt), hash |-> payload_hash(r)]

build_cell(r, fetchedAt) ==
  [key |-> r.day, val |-> r.val, at |-> r.at,
   pub |-> publication_ts(r, fetchedAt), hash |-> payload_hash(r)]

HashesOf(S) == {c.hash : c \in S}

---------------------------------------------------------------------------
(* The dataset *)

\* Rows of the part files that are complete.
Stored == UNION {fragments[i].rows : i \in {j \in DOMAIN fragments : fragments[j].whole}}

\* read_dataset opens every part-*.parquet; one that is still being written, or
\* that a crash left without its footer, makes the whole read raise.
Readable == \A i \in DOMAIN fragments : fragments[i].whole

\* Faulty variant of KnownHashes: only the newest part file is compared with.
KnownOfLastPart ==
  IF fragments = <<>> THEN {} ELSE HashesOf(fragments[Len(fragments)].rows)

\* The hashes land compares with.
KnownHashes == HashesOf(Stored)

\* drop_duplicates(subset=["_payload_hash"]): one cell for each hash.
Deduplicated(S) ==
  {T \in SUBSET S : /\ HashesOf(T) = HashesOf(S)
                    /\ \A c, d \in T : c.hash = d.hash => c = d}

---------------------------------------------------------------------------
Init ==
  /\ now = 1
  /\ revisions = {}
  /\ fragments = <<>>
  /\ watermark = NoWatermark
  /\ pulls = 0
  /\ pc = [w \in Ingesters |-> "idle"]
  /\ next = [w \in Ingesters |-> 1]
  /\ upto = [w \in Ingesters |-> 0]
  /\ cells = [w \in Ingesters |-> {}]
  /\ fresh = [w \in Ingesters |-> {}]
  /\ part = [w \in Ingesters |-> 0]
  /\ due = [w \in Ingesters |-> {}]
  /\ confirmed = [d \in Days |-> 0]

Tick ==
  /\ now < MaxTime
  /\ now' = now + 1
  /\ UNCHANGED <<revisions, fragments, watermark, pulls, pc, local, due, confirmed>>

\* The source publishes a day, or revises it later; a revision has a newer stamp.
Publish(d, v) ==
  /\ Cardinality(revisions) < MaxRevisions
  /\ \A r \in revisions : r.day = d => r.at < now
  /\ revisions' = revisions \cup {[day |-> d, val |-> v, at |-> now]}
  /\ UNCHANGED <<now, fragments, watermark, pulls, pc, local, due, confirmed>>

---------------------------------------------------------------------------
(* One pull *)

\* ingest_endpoint is entered for lo..hi by a caller that asked for asked..hi.
\* A window with lo > hi makes no request at all and lands nothing.
Enter(w, asked, lo, hi) ==
  /\ pc[w] = "idle"
  /\ pulls < MaxPulls
  /\ pulls' = pulls + 1
  /\ pc' = [pc EXCEPT ![w] = IF lo <= hi THEN "fetch" ELSE "land"]
  /\ next' = [next EXCEPT ![w] = lo]
  /\ upto' = [upto EXCEPT ![w] = hi]
  /\ cells' = [cells EXCEPT ![w] = {}]
  /\ due' = [due EXCEPT ![w] = UNION {Current(d) : d \in asked..hi}]
  /\ UNCHANGED <<clocks, fragments, watermark, fresh, part, confirmed>>

ingest_endpoint(w, date_from, date_to) == Enter(w, date_from, date_from, date_to)

\* With resume, a watermark inside the window (or beyond it) replaces its start.
backfill_endpoint(w, start, end) ==
  Enter(w, start, IF Resume /\ watermark >= start THEN watermark ELSE start, end)

WindowEnd(w) ==
  IF next[w] + MaxWindow - 1 < upto[w] THEN next[w] + MaxWindow - 1 ELSE upto[w]

\* Faulty variant of Answer: the last day of the window is not asked for.
AnswerWithoutLastDay(w) == UNION {Current(d) : d \in next[w]..(WindowEnd(w) - 1)}

Answer(w) == UNION {Current(d) : d \in next[w]..WindowEnd(w)}

\* One request window is answered; the fetch is over when no window is left.
FetchWindow(w) ==
  /\ pc[w] = "fetch"
  /\ \E fetchedAt \in FetchedAt :
       cells' = [cells EXCEPT ![w] = @ \cup {build_cell(r, fetchedAt) : r \in Answer(w)}]
  /\ next' = [next EXCEPT ![w] = WindowEnd(w) + 1]
  /\ pc' = [pc EXCEPT ![w] = IF WindowEnd(w) = upto[w] THEN "land" ELSE "fetch"]
  /\ UNCHANGED <<clocks, fragments, watermark, pulls, upto, fresh, part, due, confirmed>>

\* ingest_endpoint is left: what it held in memory is gone.
Leave(w) ==
  /\ pc' = [pc EXCEPT ![w] = "idle"]
  /\ next' = [next EXCEPT ![w] = 1]
  /\ upto' = [upto EXCEPT ![w] = 0]
  /\ cells' = [cells EXCEPT ![w] = {}]
  /\ fresh' = [fresh EXCEPT ![w] = {}]
  /\ part' = [part EXCEPT ![w] = 0]
  /\ due' = [due EXCEPT ![w] = {}]

Raise(w) == Leave(w) /\ UNCHANGED <<clocks, fragments, watermark, pulls, confirmed>>

\* A window fails for good, after its retries: the earlier windows are lost too.
FetchFails(w) == pc[w] = "fetch" /\ Raise(w)

\* land on an empty frame returns before it looks at the dataset.
LandNothing(w) ==
  /\ pc[w] = "land"
  /\ cells[w] = {}
  /\ pc' = [pc EXCEPT ![w] = "mark"]
  /\ UNCHANGED <<clocks, fragments, watermark, pulls, local, due, confirmed>>

\* land reads the stored hashes and decides what to write.
LandReadHashes(w) ==
  /\ pc[w] = "land"
  /\ cells[w] # {}
  /\ Readable
  /\ fresh' \in {[fresh EXCEPT ![w] = F] :
                   F \in Deduplicated({c \in cells[w] : c.hash \notin KnownHashes})}
  /\ pc' = [pc EXCEPT ![w] = IF fresh'[w] = {} THEN "mark" ELSE "write"]
  /\ UNCHANGED <<clocks, fragments, watermark, pulls, next, upto, cells, part, due, confirmed>>

\* read_dataset meets an incomplete part file and raises.
LandReadFails(w) == pc[w] = "land" /\ cells[w] # {} /\ ~Readable /\ Raise(w)

\* Faulty variant of LandCreate: every part file gets the same name.
LandCreateSameName(w) ==
  /\ pc[w] = "write"
  /\ fragments' = [i \in 1..1 |-> [by |-> w, rows |-> fresh[w], whole |-> FALSE]]
  /\ part' = [part EXCEPT ![w] = 1]
  /\ pc' = [pc EXCEPT ![w] = "close"]
  /\ UNCHANGED <<clocks, watermark, pulls, next, upto, cells, fresh, due, confirmed>>

\* to_parquet creates the file under its final name ...
LandCreate(w) ==
  /\ pc[w] = "write"
  /\ fragments' = Append(fragments, [by |-> w, rows |-> fresh[w], whole |-> FALSE])
  /\ part' = [part EXCEPT ![w] = Len(fragments) + 1]
  /\ pc' = [pc EXCEPT ![w] = "close"]
  /\ UNCHANGED <<clocks, watermark, pulls, next, upto, cells, fresh, due, confirmed>>

\* ... and completes it with the footer.
LandClose(w) ==
  /\ pc[w] = "close"
  /\ fragments' = [fragments EXCEPT ![part[w]] = [by |-> w, rows |-> fresh[w], whole |-> TRUE]]
  /\ pc' = [pc EXCEPT ![w] = "mark"]
  /\ UNCHANGED <<clocks, watermark, pulls, local, due, confirmed>>

MarkedDay(w) == upto[w]

Newer(d, w) == {r.at : r \in {x \in due[w] : x.day = d /\ x.at > confirmed[d]}}

\* set_watermark(date_to), whatever land returned; then the pull is over.
SetWatermark(w) ==
  /\ pc[w] = "mark"
  /\ watermark' = IF watermark < MarkedDay(w) THEN MarkedDay(w) ELSE watermark
  /\ confirmed' = [d \in Days |-> IF Newer(d, w) = {} THEN confirmed[d]
                                  ELSE CHOOSE t \in Newer(d, w) : TRUE]
  /\ Leave(w)
  /\ UNCHANGED <<clocks, fragments, pulls>>

\* The ingester's process dies between two steps.
Crash(w) == pc[w] # "idle" /\ Raise(w)

---------------------------------------------------------------------------
(* The specification *)

Pull(w) ==
  \E lo \in Days : \E hi \in lo..LastDay :
    ingest_endpoint(w, lo, hi) \/ backfill_endpoint(w, lo, hi)

Land(w) ==
  LandNothing(w) \/ LandReadHashes(w) \/ LandReadFails(w) \/ LandCreate(w) \/ LandClose(w)

Step(w) ==
  Pull(w) \/ FetchWindow(w) \/ FetchFails(w) \/ Land(w) \/ SetWatermark(w) \/ Crash(w)

Next ==
  \/ Tick
  \/ \E d \in Days, v \in Values : Publish(d, v)
  \/ \E w \in Ingesters : Step(w)

Spec == Init /\ [][Next]_vars

---------------------------------------------------------------------------
(* Properties *)

TypeOK ==
  /\ now \in Times
  /\ revisions \in SUBSET Revision
  /\ fragments \in Seq(Fragment)
  /\ watermark \in 0..LastDay
  /\ pulls \in 0..MaxPulls
  /\ pc \in [Ingesters -> {"idle", "fetch", "land", "write", "close", "mark"}]
  /\ next \in [Ingesters -> 1..(LastDay + 1)]
  /\ upto \in [Ingesters -> 0..LastDay]
  /\ cells \in [Ingesters -> SUBSET Cell]
  /\ fresh \in [Ingesters -> SUBSET Cell]
  /\ part \in [Ingesters -> Nat]
  /\ due \in [Ingesters -> SUBSET Revision]
  /\ confirmed \in [Days -> Times]

\* The cell is the landed form of a record the source published, and its publication
\* timestamp is less than a day before the record was out.
IsPublished(c) ==
  /\ [day |-> c.key, val |-> c.val, at |-> c.at] \in revisions
  /\ c.at < c.pub + DayLength

\* Provenance: every cell in a part file, complete or not, carries the contents
\* of a record the source published, under that record's day, and whatever form its
\* Publication_Date has, it is dated back by less than a day (landing.py:52-66, 98-148).
StoredWasPublished ==
  \A i \in DOMAIN fragments : \A c \in fragments[i].rows : IsPublished(c)

\* Idempotency (landing.py:7-8): over all part files no payload hash is stored
\* twice by one ingester, whatever is pulled again, revised in between, aborted
\* or crashed, and whatever the other ingesters land meanwhile.
NoHashTwice ==
  /\ \A i, j \in DOMAIN fragments :
       i # j /\ fragments[i].by = fragments[j].by =>
         HashesOf(fragments[i].rows) \cap HashesOf(fragments[j].rows) = {}
  /\ \A i \in DOMAIN fragments : \A c, d \in fragments[i].rows : c.hash = d.hash => c = d

\* A finished pull is never undone: once a pull of a day completed, the latest
\* view of that day is at least as new as what the source was serving for it
\* when the pull began, whatever other ingesters land, skip or abort later
\* (flows.py:24-58, landing.py:204-223, vintage.py:24-43).
FinishedPullsStayVisible ==
  \A d \in Days : confirmed[d] > 0 =>
    /\ \E c \in Stored : c.key = d
    /\ \A c \in V!latest_view(Stored) : c.key = d => c.at >= confirmed[d]

\* All instants between which a view of the stored rows can differ.
AsOfs == Times \cup {c.pub + 1 : c \in Stored}

\* Point in time (vintage.py:3-4, PRD DQ-2): a view as of t never shows a value
\* that the source had not published before t, although the publication time that
\* decides it is read from a text without a time zone (landing.py:52-66).
NoLookahead ==
  \A t \in AsOfs : \A c \in V!as_of_view(Stored, t) : c.at < t

\* A part file never changes once it is complete, and no part file goes away
\* (storage.py:3-4): what a reader has seen stays where it was.
WholeFragmentsAreFinal ==
  [][\A i \in DOMAIN fragments :
       /\ i \in DOMAIN fragments'
       /\ fragments[i].whole => fragments'[i] = fragments[i]]_fragments

\* The landing zone implements the abstract vintage store: the vintages it holds
\* are the hashes in its complete part files.
Held == UNION {{[hash |-> h, by |-> fragments[i].by, at |-> i] : h \in HashesOf(fragments[i].rows)} :
                 i \in {j \in DOMAIN fragments : fragments[j].whole}}

Store == INSTANCE VintageStore WITH held <- Held

ImplementsVintageStore == Store!Spec

\* Landing is up to date (landing.py:123-124, vintage.py:6-7): if nothing was
\* revised since the pull began, then at its end the latest view of each day it
\* covered shows the source's value, whichever of its candidates is taken.
LatestViewIsSourceValue ==
  \A w \in Ingesters : pc[w] = "mark" =>
    \A r \in due[w] : r \in Current(r.day) =>
      \A c \in V!latest_view(Stored) : c.key = r.day => c.val = r.val

=============================================================================
