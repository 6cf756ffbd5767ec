--------------------------- MODULE RegistryProofs ---------------------------
(***************************************************************************)
(* Theorems about the model registry, for any number of trainers, jobs,    *)
(* API threads, days and trainings.  A save that has the four files for    *)
(* itself, whatever died or overlapped before it, leaves one training; and *)
(* it writes a model before its metadata.                                  *)
(***************************************************************************)
EXTENDS Registry, Integers, TLAPS

\* Where a worker can be.
Places == (Names \X {0}) \cup ({"before", "writing", "mixing"} \X (1..4))

LEMMA PlacesAreTyped ==
  /\ \A name \in Names : At(name) \in Places
  /\ \A i \in 1..4 : Before(i) \in Places /\ Writing(i) \in Places /\ Mixing(i) \in Places
  BY DEF Places, At, Before, Writing, Mixing

LEMMA FilesAreTyped ==
  /\ Absent \in File /\ Broken \in File
  /\ \A n \in Trainings : Whole(n) \in File
  /\ \A f \in File : f.of \in Trainings
  BY BoundsAssumption DEF Absent, Broken, Whole, File, NoTraining, Trainings

LEMMA StagesAreTyped ==
  /\ DOMAIN Stages = 1..4 /\ Len(Stages) = 4
  /\ \A i \in 1..4 : Stages[i][1] \in {"model", "meta"} /\ Stages[i][2] \in Kinds
  BY DEF Stages, Kinds

\* A worker that leaves, or goes somewhere, keeps the types.
LEMMA GotoTyped ==
  ASSUME TypeOK, NEW w \in Workers, NEW p \in Places, Goto(w, p)
  PROVE  pc' \in [Workers -> Places]
  BY DEF Goto, TypeOK, Places

LEMMA LeaveTyped ==
  ASSUME TypeOK, NEW w \in Workers, Leave(w)
  PROVE  /\ pc' \in [Workers -> Places]
         /\ pair' \in [Workers -> [Kinds -> Trainings]]
         /\ disturbed' \in [Jobs -> BOOLEAN]
<1>1. At("idle") \in Places
  BY PlacesAreTyped DEF Names
<1>2. NoPair \in [Kinds -> Trainings]
  BY BoundsAssumption DEF NoPair, Kinds, Trainings, NoTraining
<1>3. pc' \in [Workers -> Places]
  BY <1>1, GotoTyped DEF Leave
<1>4. pair' \in [Workers -> [Kinds -> Trainings]]
  BY <1>2 DEF Leave, TypeOK
<1>5. disturbed' \in [Jobs -> BOOLEAN]
  BY DEF Leave, TypeOK
<1>. QED
  BY <1>3, <1>4, <1>5

LEMMA SavesDieTyped ==
  ASSUME TypeOK, NEW ws, SavesDie(ws)
  PROVE  torn' \in BOOLEAN /\ overlapped' \in {"no", "yes", "mending"}
  BY DEF SavesDie, TypeOK

LEMMA InitTyped == Init => TypeOK
<1> SUFFICES ASSUME Init PROVE TypeOK
  OBVIOUS
<1>1. trained \in Seq(0..MaxDay) /\ Len(trained) \in Trainings
  <2>1. CASE trained = <<>>
    BY <2>1, BoundsAssumption DEF Trainings
  <2>2. CASE trained = <<0>>
    <3>1. 0 \in 0..MaxDay /\ 1 \in Trainings
      BY BoundsAssumption DEF Trainings
    <3>. QED
      BY <2>2, <3>1
  <2>. QED
    BY <2>1, <2>2 DEF Init
<1>2. model \in [Kinds -> File] /\ meta \in [Kinds -> File]
  BY FilesAreTyped, BoundsAssumption DEF Init, Trainings
<1>3. pc \in [Workers -> Places]
  BY PlacesAreTyped DEF Init, Names
<1>4. cache \in [Kinds -> Trainings] /\ pair \in [Workers -> [Kinds -> Trainings]]
  BY BoundsAssumption DEF Init, NoPair, Trainings, NoTraining
<1>. QED
  <2>1. disturbed \in [Jobs -> BOOLEAN]
    BY DEF Init
  <2>2. today \in 1..MaxDay
    BY BoundsAssumption DEF Init
  <2>3. torn \in BOOLEAN
    BY Zenon DEF Init
  <2>4. overlapped \in {"no", "yes", "mending"}
    BY DEF Init
  <2>. QED
    BY <1>1, <1>2, <1>3, <1>4, <2>1, <2>2, <2>3, <2>4 DEF TypeOK, Places

LEMMA NextTyped == TypeOK /\ [Next]_vars => TypeOK'
<1> SUFFICES ASSUME TypeOK, [Next]_vars PROVE TypeOK'
  OBVIOUS
<1> USE DEF Places
<1>1. CASE NextDay
  <2>1. today' \in 1..MaxDay
    BY <1>1, BoundsAssumption DEF NextDay, TypeOK
  <2>. QED
    BY <1>1, <2>1 DEF NextDay, TypeOK, saves
<1>2. CASE ServerRestart
  <2>1. pc' \in [Workers -> Places]
    BY <1>2, PlacesAreTyped DEF ServerRestart, TypeOK, Names
  <2>2. NoPair \in [Kinds -> Trainings]
    BY BoundsAssumption DEF NoPair, Kinds, Trainings, NoTraining
  <2>3. pair' \in [Workers -> [Kinds -> Trainings]] /\ cache' \in [Kinds -> Trainings]
    BY <1>2, <2>2 DEF ServerRestart, TypeOK
  <2>4. torn' \in BOOLEAN /\ overlapped' \in {"no", "yes", "mending"}
    BY <1>2, SavesDieTyped DEF ServerRestart
  <2>. QED
    BY <1>2, <2>1, <2>3, <2>4 DEF ServerRestart, TypeOK
<1>3. ASSUME NEW w \in Workers, LoadSign(w) \/ LoadSpread(w) PROVE TypeOK'
  <2>1. \E k \in Kinds, here \in Names, there \in {"loadSpread", "have"} :
           Load(w, k, here, there)
    BY <1>3 DEF LoadSign, LoadSpread, Kinds, Names
  <2>2. PICK k \in Kinds, here \in Names, there \in {"loadSpread", "have"} :
           Load(w, k, here, there)
    BY <2>1
  <2>3. /\ pc' \in [Workers -> Places]
        /\ pair' \in [Workers -> [Kinds -> Trainings]]
        /\ disturbed' \in [Jobs -> BOOLEAN]
    <3>1. CASE Leave(w)
      BY <3>1, LeaveTyped
    <3>2. CASE model[k].state = "absent" /\ Goto(w, At("train")) /\ UNCHANGED <<pair, disturbed>>
      BY <3>2, GotoTyped, PlacesAreTyped DEF TypeOK, Names
    <3>3. CASE pair' = [pair EXCEPT ![w][k] = model[k].of] /\ Goto(w, At(there))
                 /\ UNCHANGED disturbed
      <4>1. model[k].of \in Trainings
        BY FilesAreTyped DEF TypeOK
      <4>2. pair' \in [Workers -> [Kinds -> Trainings]]
        BY <3>3, <4>1 DEF TypeOK
      <4>3. pc' \in [Workers -> Places]
        BY <3>3, GotoTyped, PlacesAreTyped DEF Names
      <4>. QED
        BY <3>3, <4>2, <4>3 DEF TypeOK
    <3>. QED
      BY <2>2, <3>1, <3>2, <3>3 DEF Load
  <2>. QED
    BY <2>2, <2>3 DEF Load, TypeOK, saves
<1>4. ASSUME NEW w \in Workers, Train(w) PROVE TypeOK'
  <2>1. Before(1) \in Places
    BY PlacesAreTyped
  <2>2. pc' \in [Workers -> Places]
    BY <1>4, <2>1, GotoTyped DEF Train
  <2>3. TrainEnd(w) \in 0..MaxDay
    BY BoundsAssumption DEF TrainEnd, TypeOK
  <2>4. trained' \in Seq(0..MaxDay) /\ Len(trained') = Len(trained) + 1
    BY <1>4, <2>3 DEF Train, TypeOK
  <2>5. Len(trained) + 1 \in Trainings
    BY <1>4, BoundsAssumption DEF Train, TypeOK, Trainings
  <2>6. pair' \in [Workers -> [Kinds -> Trainings]]
    BY <1>4, <2>5 DEF Train, TypeOK
  <2>7. disturbed' \in [Jobs -> BOOLEAN] /\ overlapped' \in {"no", "yes", "mending"}
    BY <1>4 DEF Train, TypeOK
  <2>. QED
    BY <1>4, <2>2, <2>4, <2>5, <2>6, <2>7 DEF Train, TypeOK
<1>5. ASSUME NEW w \in Workers, TrainFails(w) \/ Serve(w) \/ CheckRaises(w) \/ End(w)
      PROVE  TypeOK'
  <2>1. Leave(w) /\ UNCHANGED <<today, trained, model, meta, cache, saves>>
    BY <1>5 DEF TrainFails, Serve, CheckRaises, End
  <2>. QED
    BY <2>1, LeaveTyped DEF TypeOK, saves
<1>6. ASSUME NEW w \in Workers, Crash(w) PROVE TypeOK'
  BY <1>6, LeaveTyped, SavesDieTyped DEF Crash, TypeOK
<1>7. ASSUME NEW w \in Workers, NEW i \in 1..4, Open(w, i) PROVE TypeOK'
  <2>1. model' \in [Kinds -> File] /\ meta' \in [Kinds -> File]
    BY <1>7, FilesAreTyped, StagesAreTyped DEF Open, Rewrite, TypeOK
  <2>2. pc' \in [Workers -> Places]
    BY <1>7, PlacesAreTyped DEF Open, TypeOK
  <2>. QED
    BY <1>7, <2>1, <2>2 DEF Open, TypeOK, saves
<1>8. ASSUME NEW w \in Workers, NEW i \in 1..4, Close(w, i) PROVE TypeOK'
  <2>1. Whole(pair[w][Stages[i][2]]) \in File
    BY FilesAreTyped, StagesAreTyped DEF TypeOK
  <2>2. model' \in [Kinds -> File] /\ meta' \in [Kinds -> File]
    BY <1>8, <2>1, FilesAreTyped, StagesAreTyped DEF Close, Rewrite, TypeOK
  <2>3. i < 4 => Before(i + 1) \in Places
    BY PlacesAreTyped
  <2>4. At("have") \in Places
    BY PlacesAreTyped DEF Names
  <2>5. pc' \in [Workers -> Places]
    BY <1>8, <2>3, <2>4, GotoTyped, StagesAreTyped DEF Close
  <2>6. torn' \in BOOLEAN /\ overlapped' \in {"no", "yes", "mending"}
    BY <1>8 DEF Close, TypeOK, saves
  <2>. QED
    BY <1>8, <2>2, <2>5, <2>6 DEF Close, TypeOK
<1>9. ASSUME NEW w \in Workers, Request(w) \/ RunJob(w) PROVE TypeOK'
  <2>1. At("reply") \in Places /\ At("loadSign") \in Places
    BY PlacesAreTyped DEF Names
  <2>2. pc' \in [Workers -> Places]
    BY <1>9, <2>1, GotoTyped DEF Request, RunJob, StartLoad
  <2>3. disturbed' \in [Jobs -> BOOLEAN]
    <3>1. Saving(w) \in BOOLEAN /\ \A u \in Workers : Saving(u) \in BOOLEAN
      BY DEF Saving
    <3>. QED
      BY <1>9, <3>1 DEF Request, RunJob, StartLoad, TypeOK
  <2>. QED
    BY <1>9, <2>2, <2>3 DEF Request, RunJob, TypeOK, saves
<1>10. ASSUME NEW w \in Workers, Remember(w) \/ Reply(w) PROVE TypeOK'
  <2>1. At("reply") \in Places /\ At("serve") \in Places
    BY PlacesAreTyped DEF Names
  <2>2. pc' \in [Workers -> Places]
    BY <1>10, <2>1, GotoTyped DEF Remember, Reply
  <2>. QED
    BY <1>10, <2>2 DEF Remember, Reply, TypeOK, saves
<1>11. ASSUME NEW w \in Workers, TrainAll(w) \/ CheckExists(w) \/ CheckAge(w) PROVE TypeOK'
  <2>1. \A name \in Names : At(name) \in Places
    BY PlacesAreTyped
  <2>2. \E name \in {"train", "due", "age", "kept"} : Goto(w, At(name))
    BY <1>11 DEF TrainAll, CheckExists, CheckAge
  <2>3. pc' \in [Workers -> Places]
    BY <2>1, <2>2, GotoTyped DEF Names
  <2>. QED
    BY <1>11, <2>3 DEF TrainAll, CheckExists, CheckAge, TypeOK, saves
<1>12. CASE UNCHANGED vars
  BY <1>12 DEF vars, saves, TypeOK
<1>. QED
  BY <1>1, <1>2, <1>3, <1>4, <1>5, <1>6, <1>7, <1>8, <1>9, <1>10, <1>11, <1>12,
     StagesAreTyped DEF Next, Step, Save

\* Every variable keeps its type (registry.py, inference.py, retrain.py, main.py).
THEOREM RegistryTyped == Spec => []TypeOK
  BY InitTyped, NextTyped, PTL DEF Spec

---------------------------------------------------------------------------
\* The file that stage j of a save writes.
FileOf(j) == IF Stages[j][1] = "model" THEN model[Stages[j][2]] ELSE meta[Stages[j][2]]

\* Worker w saves alone: it saves the last training, and the stages it has behind it
\* are whole.
AloneAt(w, i) ==
  /\ pc[w] \in {Before(i), Writing(i)}
  /\ \A j \in 1..4 : j < i => FileOf(j) = Whole(Len(trained))

LoneSaves ==
  overlapped # "yes" =>
    \A w \in Workers : Saving(w) =>
      /\ \A u \in Workers : Saving(u) => u = w
      /\ \A k \in Kinds : pair[w][k] = Len(trained)
      /\ \E i \in 1..4 : AloneAt(w, i)

\* No file is of a training that has not been, and nobody saves one.
FilesAreOfTrainings ==
  \A k \in Kinds :
    /\ model[k].of <= Len(trained) /\ meta[k].of <= Len(trained)
    /\ \A w \in Workers : Saving(w) => pair[w][k] <= Len(trained)

IInv ==
  /\ TypeOK
  /\ LoneSaves
  /\ FilesAreOfTrainings
  /\ SettledRegistryIsOneTraining
  /\ MetadataIsNeverAhead

\* A worker that saves is at one of the stages.
LEMMA SavingIsAtAStage ==
  ASSUME NEW w \in Workers
  PROVE  Saving(w) <=> \E i \in 1..4 : pc[w] \in {Before(i), Writing(i), Mixing(i)}
  BY StagesAreTyped DEF Saving

LEMMA NamesAreNoStages ==
  ASSUME NEW name, NEW i \in 1..4
  PROVE  At(name) \notin {Before(i), Writing(i), Mixing(i)}
  BY DEF At, Before, Writing, Mixing

\* Where the files, trainings and saves stay as they are, and w, which does not save,
\* goes somewhere else, the invariant stays.
LEMMA BystandersKeepIInv ==
  ASSUME IInv, TypeOK', NEW w \in Workers, ~Saving(w),
         NEW name, pc' = [pc EXCEPT ![w] = At(name)],
         \A u \in Workers \ {w} : pair'[u] = pair[u],
         UNCHANGED <<trained, model, meta, torn, overlapped>>
  PROVE  IInv'
<1>1. ~Saving(w)' /\ \A u \in Workers \ {w} : pc'[u] = pc[u]
  <2>1. pc'[w] = At(name)
    BY DEF IInv, TypeOK
  <2>. QED
    BY <2>1, NamesAreNoStages, StagesAreTyped DEF Saving, IInv, TypeOK
<1>2. \A u \in Workers : Saving(u)' <=> Saving(u)
  BY <1>1 DEF Saving
<1>3. \A j \in 1..4 : FileOf(j)' = FileOf(j)
  BY DEF FileOf, Stages
<1>4. LoneSaves'
  <2> SUFFICES ASSUME overlapped # "yes", NEW u \in Workers, Saving(u)
               PROVE  /\ \A v \in Workers : Saving(v)' => v = u
                      /\ \A k \in Kinds : pair'[u][k] = Len(trained)
                      /\ \E i \in 1..4 : AloneAt(u, i)'
    BY <1>2 DEF LoneSaves
  <2>1. PICK i \in 1..4 : AloneAt(u, i)
    BY DEF IInv, LoneSaves
  <2>2. AloneAt(u, i)'
    BY <1>1, <1>3, <2>1 DEF AloneAt, Before, Writing
  <2>3. \A k \in Kinds : pair'[u][k] = Len(trained)
    BY DEF IInv, LoneSaves
  <2>. QED
    BY <1>2, <2>2, <2>3 DEF IInv, LoneSaves
<1>5. SettledRegistryIsOneTraining'
  <2>1. Quiet' => Quiet
    BY <1>2 DEF Quiet
  <2>. QED
    BY <2>1 DEF IInv, SettledRegistryIsOneTraining
<1>6. FilesAreOfTrainings'
  BY <1>1, <1>2 DEF IInv, FilesAreOfTrainings
<1>. QED
  BY <1>4, <1>5, <1>6 DEF IInv, MetadataIsNeverAhead

\* A step that touches no file and no worker keeps the invariant.
LEMMA UnchangedKeepsIInv ==
  ASSUME IInv, TypeOK', UNCHANGED <<trained, model, meta, pc, pair, torn, overlapped>>
  PROVE  IInv'
<1>1. \A w \in Workers : Saving(w)' <=> Saving(w)
  BY DEF Saving
<1>2. \A w \in Workers, i \in 1..4 : AloneAt(w, i)' <=> AloneAt(w, i)
  BY DEF AloneAt, FileOf
<1>. QED
  BY <1>1, <1>2
  DEF IInv, LoneSaves, FilesAreOfTrainings, SettledRegistryIsOneTraining, Quiet,
      MetadataIsNeverAhead

\* A training starts a save.
LEMMA TrainKeepsIInv ==
  ASSUME IInv, TypeOK', NEW w \in Workers, Train(w)
  PROVE  IInv'
<1>1. ~Saving(w)
  BY NamesAreNoStages, SavingIsAtAStage DEF Train
<1>2. Len(trained') = Len(trained) + 1 /\ Len(trained) \in Nat
  BY DEF Train, IInv, TypeOK
<1>3. pc'[w] = Before(1) /\ \A u \in Workers \ {w} : pc'[u] = pc[u]
  BY DEF Train, Goto, IInv, TypeOK
<1>4. Saving(w)' /\ \A u \in Workers \ {w} : Saving(u)' <=> Saving(u)
  BY <1>3, StagesAreTyped DEF Saving
<1>5. LoneSaves'
  <2> SUFFICES ASSUME overlapped' # "yes", NEW u \in Workers, Saving(u)'
               PROVE  /\ \A v \in Workers : Saving(v)' => v = u
                      /\ \A k \in Kinds : pair'[u][k] = Len(trained')
                      /\ \E i \in 1..4 : AloneAt(u, i)'
    BY DEF LoneSaves
  <2>1. \A v \in Workers : ~Saving(v)
    BY DEF Train
  <2>2. u = w /\ \A v \in Workers : Saving(v)' => v = w
    BY <1>4, <2>1
  <2>3. \A k \in Kinds : pair'[w][k] = Len(trained')
    BY <1>2 DEF Train, IInv, TypeOK
  <2>4. AloneAt(w, 1)'
    BY <1>3 DEF AloneAt, Before
  <2>. QED
    BY <2>2, <2>3, <2>4
<1>6. FilesAreOfTrainings'
  <2>1. \A f \in File : f.of \in Nat
    BY FilesAreTyped DEF Trainings
  <2>2. \A k \in Kinds : model[k].of \in Nat /\ meta[k].of \in Nat
    BY <2>1 DEF IInv, TypeOK
  <2>3. \A k \in Kinds : model'[k].of <= Len(trained') /\ meta'[k].of <= Len(trained')
    BY <1>2, <2>2 DEF Train, IInv, FilesAreOfTrainings
  <2>4. \A k \in Kinds : pair'[w][k] = Len(trained')
    BY <1>2 DEF Train, IInv, TypeOK
  <2>5. ASSUME NEW u \in Workers \ {w}, Saving(u)', NEW k \in Kinds
        PROVE  pair'[u][k] <= Len(trained')
    <3>1. pair'[u][k] = pair[u][k] /\ pair[u][k] \in Nat
      BY DEF Train, IInv, TypeOK, Trainings
    <3>2. pair[u][k] <= Len(trained)
      BY <1>4, <2>5 DEF IInv, FilesAreOfTrainings
    <3>. QED
      BY <1>2, <3>1, <3>2
  <2>. QED
    BY <1>2, <2>3, <2>4, <2>5 DEF FilesAreOfTrainings
<1>7. SettledRegistryIsOneTraining'
  BY <1>4 DEF SettledRegistryIsOneTraining, Quiet
<1>8. MetadataIsNeverAhead'
  BY DEF Train, IInv, MetadataIsNeverAhead
<1>. QED
  BY <1>5, <1>6, <1>7, <1>8 DEF IInv

\* What a save changes: one file, and where the savers are.
LEMMA RewriteChangesOneFile ==
  ASSUME TypeOK, NEW i \in 1..4, NEW file \in File, Rewrite(i, file)
  PROVE  /\ FileOf(i)' = file
         /\ \A j \in 1..4 : j # i => FileOf(j)' = FileOf(j)
  BY DEF Rewrite, FileOf, Stages, TypeOK, Kinds

\* All four files, by kind.
LEMMA FilesByKind ==
  /\ model["sign"] = FileOf(1) /\ meta["sign"] = FileOf(2)
  /\ model["spread"] = FileOf(3) /\ meta["spread"] = FileOf(4)
  BY DEF FileOf, Stages

LEMMA FilesByKindPrimed ==
  /\ model'["sign"] = FileOf(1)' /\ meta'["sign"] = FileOf(2)'
  /\ model'["spread"] = FileOf(3)' /\ meta'["spread"] = FileOf(4)'
  BY DEF FileOf, Stages

\* Opening a file for writing.
LEMMA OpenKeepsIInv ==
  ASSUME IInv, TypeOK', NEW w \in Workers, NEW i \in 1..4, Open(w, i)
  PROVE  IInv'
<1>1. Saving(w) /\ pc[w] = Before(i)
  BY StagesAreTyped DEF Open, Saving
<1>2. \A u \in Workers : Saving(u)' <=> Saving(u)
  <2> SUFFICES ASSUME NEW u \in Workers PROVE Saving(u)' <=> Saving(u)
    OBVIOUS
  <2>1. \/ pc'[u] = pc[u]
        \/ Saving(u) /\ pc'[u] \in {Writing(i), Mixing(i)}
    BY <1>1, StagesAreTyped DEF Open, Saving
  <2>. QED
    BY <2>1, StagesAreTyped DEF Saving
<1>3. FileOf(i)' = Broken /\ \A j \in 1..4 : j # i => FileOf(j)' = FileOf(j)
  BY RewriteChangesOneFile, FilesAreTyped DEF Open, IInv
<1>4. LoneSaves'
  <2> SUFFICES ASSUME overlapped # "yes", NEW u \in Workers, Saving(u)
               PROVE  /\ \A v \in Workers : Saving(v)' => v = u
                      /\ \A k \in Kinds : pair'[u][k] = Len(trained')
                      /\ \E j \in 1..4 : AloneAt(u, j)'
    BY <1>2 DEF LoneSaves, Open, saves
  <2>1. u = w /\ \A v \in Workers : Saving(v) => v = w
    BY <1>1 DEF IInv, LoneSaves
  <2>2. {v \in Workers : pc[v] \in {Writing(i), Mixing(i)}} = {}
    <3>1. \A v \in Workers : pc[v] \in {Writing(i), Mixing(i)} => v = w
      BY <2>1, StagesAreTyped DEF Saving
    <3>. QED
      BY <1>1, <3>1 DEF Before, Writing, Mixing
  <2>3. pc'[w] = Writing(i)
    BY <2>2 DEF Open
  <2>4. PICK j \in 1..4 : AloneAt(w, j)
    BY <1>1 DEF IInv, LoneSaves
  <2>5. j = i
    BY <1>1, <2>4 DEF AloneAt, Before, Writing
  <2>6. AloneAt(w, i)'
    BY <1>3, <2>3, <2>4, <2>5 DEF AloneAt, Open
  <2>. QED
    BY <1>1, <1>2, <2>1, <2>6 DEF IInv, LoneSaves, Open
<1>5. \A k \in Kinds : model'[k] \in {model[k], Broken} /\ meta'[k] \in {meta[k], Broken}
  BY <1>3, FilesByKind, FilesByKindPrimed DEF Kinds
<1>6. FilesAreOfTrainings'
  <2>1. Broken.of <= Len(trained)
    BY DEF Broken, NoTraining, IInv, TypeOK
  <2>2. UNCHANGED <<trained, pair>>
    BY DEF Open
  <2>. QED
    BY <1>2, <1>5, <2>1, <2>2 DEF IInv, FilesAreOfTrainings
<1>7. SettledRegistryIsOneTraining'
  BY <1>1, <1>2 DEF SettledRegistryIsOneTraining, Quiet
<1>8. MetadataIsNeverAhead'
  <2>1. UNCHANGED overlapped
    BY DEF Open, saves
  <2>. QED
    BY <1>5, <2>1 DEF IInv, MetadataIsNeverAhead, Broken
<1>. QED
  BY <1>4, <1>6, <1>7, <1>8 DEF IInv

\* Closing a file.
LEMMA CloseKeepsIInv ==
  ASSUME IInv, TypeOK', NEW w \in Workers, NEW i \in 1..4, Close(w, i)
  PROVE  IInv'
<1> DEFINE kind == Stages[i][2]
<1>1. Saving(w) /\ pc[w] \in {Writing(i), Mixing(i)}
  BY StagesAreTyped DEF Close, Saving
<1>2. /\ pc'[w] = IF i < 4 THEN Before(i + 1) ELSE At("have")
      /\ \A u \in Workers \ {w} : pc'[u] = pc[u]
  BY StagesAreTyped DEF Close, Goto, IInv, TypeOK
<1>3. /\ Saving(w)' <=> i < 4
      /\ \A u \in Workers \ {w} : Saving(u)' <=> Saving(u)
  BY <1>2, NamesAreNoStages, StagesAreTyped DEF Saving
<1>4. /\ FileOf(i)' \in {Whole(pair[w][kind]), Broken}
      /\ pc[w] = Writing(i) => FileOf(i)' = Whole(pair[w][kind])
      /\ \A j \in 1..4 : j # i => FileOf(j)' = FileOf(j)
  <2>1. Whole(pair[w][kind]) \in File /\ Broken \in File
    BY FilesAreTyped, StagesAreTyped DEF IInv, TypeOK
  <2>2. Writing(i) # Mixing(i)
    BY DEF Writing, Mixing
  <2>. QED
    BY <2>1, <2>2, RewriteChangesOneFile DEF Close, IInv
<1>5. UNCHANGED <<trained, pair>> /\ Len(trained) \in Nat
  BY DEF Close, IInv, TypeOK
<1>6. /\ i < 4 => UNCHANGED <<torn, overlapped>>
      /\ overlapped' = "yes" <=> overlapped = "yes"
      /\ overlapped' = "no" /\ overlapped = "mending" => i = 4
  BY StagesAreTyped DEF Close, saves
<1>7. ASSUME overlapped # "yes"
      PROVE  /\ \A u \in Workers : Saving(u) => u = w
             /\ pair[w][kind] = Len(trained)
             /\ AloneAt(w, i) /\ pc[w] = Writing(i)
  <2>1. PICK j \in 1..4 : AloneAt(w, j)
    BY <1>1, <1>7 DEF IInv, LoneSaves
  <2>2. j = i /\ pc[w] = Writing(i)
    BY <1>1, <2>1 DEF AloneAt, Before, Writing, Mixing
  <2>. QED
    BY <1>1, <1>7, <2>1, <2>2, StagesAreTyped DEF IInv, LoneSaves
<1>8. ASSUME overlapped # "yes"
      PROVE  \A j \in 1..4 : j <= i => FileOf(j)' = Whole(Len(trained))
  BY <1>4, <1>7, <1>8 DEF AloneAt
<1>9. LoneSaves'
  <2> SUFFICES ASSUME overlapped' # "yes", NEW u \in Workers, Saving(u)'
               PROVE  /\ \A v \in Workers : Saving(v)' => v = u
                      /\ \A k \in Kinds : pair'[u][k] = Len(trained')
                      /\ \E j \in 1..4 : AloneAt(u, j)'
    BY DEF LoneSaves
  <2>1. u = w /\ i < 4 /\ \A v \in Workers : Saving(v)' => v = w
    BY <1>3, <1>6, <1>7
  <2>2. AloneAt(w, i + 1)'
    BY <1>2, <1>5, <1>6, <1>8, <2>1 DEF AloneAt
  <2>3. \A k \in Kinds : pair'[w][k] = Len(trained')
    BY <1>1, <1>5, <1>6 DEF IInv, LoneSaves
  <2>. QED
    BY <2>1, <2>2, <2>3
<1>10. FilesAreOfTrainings'
  <2>1. pair[w][kind] <= Len(trained)
    BY <1>1, StagesAreTyped DEF IInv, FilesAreOfTrainings
  <2>2. FileOf(i)'.of <= Len(trained)
    BY <1>4, <1>5, <2>1 DEF Whole, Broken, NoTraining
  <2>3. \A j \in 1..4 : FileOf(j).of <= Len(trained)
    BY FilesByKind DEF IInv, FilesAreOfTrainings, Kinds, FileOf, Stages
  <2>4. \A j \in 1..4 : FileOf(j)'.of <= Len(trained)
    BY <1>4, <2>2, <2>3
  <2>5. \A k \in Kinds : model'[k].of <= Len(trained) /\ meta'[k].of <= Len(trained)
    BY <2>4, FilesByKindPrimed DEF Kinds
  <2>. QED
    BY <1>1, <1>3, <1>5, <2>5 DEF IInv, FilesAreOfTrainings
<1>11. SettledRegistryIsOneTraining'
  <2> SUFFICES ASSUME Quiet'
               PROVE  \E n \in Trainings : \A k \in Kinds :
                        /\ model'[k].of = n /\ meta'[k].of = n
                        /\ model'[k].state \in {"absent", "whole"}
                        /\ meta'[k].state = model'[k].state
    BY DEF SettledRegistryIsOneTraining
  <2>1. i = 4 /\ overlapped # "yes"
    BY <1>3, <1>6 DEF Quiet
  <2>2. \A j \in 1..4 : FileOf(j)' = Whole(Len(trained))
    BY <1>8, <2>1
  <2>3. \A k \in Kinds : model'[k] = Whole(Len(trained)) /\ meta'[k] = Whole(Len(trained))
    BY <2>2, FilesByKindPrimed DEF Kinds
  <2>4. Len(trained) \in Trainings
    BY DEF IInv, TypeOK
  <2>. QED
    BY <2>3, <2>4 DEF Whole
<1>12. MetadataIsNeverAhead'
  <2> SUFFICES ASSUME overlapped' = "no", NEW k \in Kinds,
                      meta'[k].state = "whole", model'[k].state = "whole"
               PROVE  meta'[k].of <= model'[k].of
    BY DEF MetadataIsNeverAhead
  <2>1. CASE i = 4
    <3>1. model'[k] = Whole(Len(trained)) /\ meta'[k] = Whole(Len(trained))
      BY <1>6, <1>8, <2>1, FilesByKindPrimed DEF Kinds
    <3>. QED
      BY <1>5, <3>1 DEF Whole
  <2>2. CASE i # 4
    <3>1. overlapped = "no"
      BY <1>6, <2>2
    <3>2. FileOf(i)' = Whole(Len(trained)) /\ \A j \in 1..4 : j < i => FileOf(j)' = Whole(Len(trained))
      BY <1>8, <3>1
    <3>3. meta[k].of <= Len(trained)
      BY DEF IInv, FilesAreOfTrainings
    <3>4. CASE model'[k] = Whole(Len(trained))
      <4>1. meta'[k].of <= Len(trained)
        BY <1>5, <1>10 DEF FilesAreOfTrainings
      <4>. QED
        BY <3>4, <4>1 DEF Whole
    <3>5. CASE model'[k] = model[k] /\ meta'[k] = meta[k]
      BY <3>1, <3>5 DEF IInv, MetadataIsNeverAhead
    <3>. QED
      BY <1>4, <3>2, <3>4, <3>5, <2>2, FilesByKind, FilesByKindPrimed DEF Kinds
  <2>. QED
    BY <2>1, <2>2
<1>. QED
  BY <1>9, <1>10, <1>11, <1>12 DEF IInv

\* Workers that die: their saves are torn, everybody else goes on.
LEMMA DyingKeepsIInv ==
  ASSUME IInv, TypeOK', NEW ws \in SUBSET Workers, SavesDie(ws),
         \A u \in ws : ~Saving(u)',
         \A u \in Workers \ ws : pc'[u] = pc[u] /\ pair'[u] = pair[u],
         UNCHANGED <<trained, model, meta>>
  PROVE  IInv'
<1>1. \A u \in Workers : Saving(u)' <=> u \notin ws /\ Saving(u)
  BY DEF Saving
<1>2. \A j \in 1..4 : FileOf(j)' = FileOf(j)
  BY DEF FileOf, Stages
<1>3. /\ overlapped' # "yes" => overlapped # "yes"
      /\ overlapped' = "no" => overlapped = "no"
      /\ ~torn' => ~torn /\ \A u \in ws : ~Saving(u)
  BY DEF SavesDie, IInv, TypeOK
<1>4. LoneSaves'
  <2> SUFFICES ASSUME overlapped' # "yes", NEW u \in Workers \ ws, Saving(u)
               PROVE  /\ \A v \in Workers : Saving(v)' => v = u
                      /\ \A k \in Kinds : pair'[u][k] = Len(trained)
                      /\ \E i \in 1..4 : AloneAt(u, i)'
    BY <1>1 DEF LoneSaves
  <2>1. PICK i \in 1..4 : AloneAt(u, i)
    BY <1>3 DEF IInv, LoneSaves
  <2>2. AloneAt(u, i)'
    BY <1>2, <2>1 DEF AloneAt, Before, Writing
  <2>3. \A k \in Kinds : pair'[u][k] = Len(trained)
    BY <1>3 DEF IInv, LoneSaves
  <2>. QED
    BY <1>1, <1>3, <2>2, <2>3 DEF IInv, LoneSaves
<1>5. SettledRegistryIsOneTraining'
  <2>1. Quiet' => Quiet
    BY <1>1, <1>3 DEF Quiet
  <2>. QED
    BY <2>1 DEF IInv, SettledRegistryIsOneTraining
<1>6. FilesAreOfTrainings'
  BY <1>1 DEF IInv, FilesAreOfTrainings
<1>7. MetadataIsNeverAhead'
  BY <1>3 DEF IInv, MetadataIsNeverAhead
<1>. QED
  BY <1>4, <1>5, <1>6, <1>7 DEF IInv

LEMMA IInvHolds == Spec => []IInv
<1>1. Init => IInv
  <2> SUFFICES ASSUME Init, TypeOK PROVE IInv
    BY InitTyped
  <2>1. \A w \in Workers : ~Saving(w)
    BY NamesAreNoStages, SavingIsAtAStage DEF Init
  <2>2. LoneSaves
    BY <2>1 DEF LoneSaves
  <2>3. \E n \in Trainings : \A k \in Kinds :
          /\ model[k].of = n /\ meta[k] = model[k] /\ n <= Len(trained)
          /\ model[k].state \in {"absent", "whole"}
    <3>1. CASE trained = <<>> /\ model = [k \in Kinds |-> Absent]
      <4>1. 0 \in Trainings /\ 0 <= Len(trained)
        BY <3>1, BoundsAssumption DEF Trainings
      <4>. QED
        BY <3>1, <4>1 DEF Init, Absent, NoTraining
    <3>2. CASE trained = <<0>> /\ model = [k \in Kinds |-> Whole(1)]
      <4>1. 1 \in Trainings /\ 1 <= Len(trained)
        BY <3>2, BoundsAssumption DEF Trainings
      <4>. QED
        BY <3>2, <4>1 DEF Init, Whole
    <3>. QED
      BY <3>1, <3>2 DEF Init
  <2>. QED
    BY <2>1, <2>2, <2>3
    DEF IInv, FilesAreOfTrainings, SettledRegistryIsOneTraining, MetadataIsNeverAhead, Trainings
<1>2. IInv /\ [Next]_vars => IInv'
  <2> SUFFICES ASSUME IInv, [Next]_vars PROVE IInv'
    OBVIOUS
  <2>0. TypeOK'
    BY NextTyped DEF IInv
  <2>1. CASE NextDay
    BY <2>0, <2>1, UnchangedKeepsIInv DEF NextDay, saves
  <2>2. CASE ServerRestart
    <3>1. \A u \in ApiThreads : pc'[u] = At("idle")
      BY <2>2 DEF ServerRestart, Workers
    <3>2. \A u \in ApiThreads : ~Saving(u)'
      BY <3>1, NamesAreNoStages, StagesAreTyped DEF Saving
    <3>3. ApiThreads \in SUBSET Workers
      BY DEF Workers
    <3>4. \A u \in Workers \ ApiThreads : pc'[u] = pc[u] /\ pair'[u] = pair[u]
      BY <2>2 DEF ServerRestart
    <3>. QED
      BY <2>0, <2>2, <3>2, <3>3, <3>4, DyingKeepsIInv DEF ServerRestart
  <2>3. ASSUME NEW w \in Workers, Train(w) PROVE IInv'
    BY <2>0, <2>3, TrainKeepsIInv
  <2>4. ASSUME NEW w \in Workers, NEW i \in 1..4, Open(w, i) \/ Close(w, i) PROVE IInv'
    BY <2>0, <2>4, OpenKeepsIInv, CloseKeepsIInv
  <2>5. ASSUME NEW w \in Workers, Crash(w) PROVE IInv'
    <3>1. pc' = [pc EXCEPT ![w] = At("idle")] /\ \A u \in Workers \ {w} : pair'[u] = pair[u]
      BY <2>5 DEF Crash, Leave, Goto, IInv, TypeOK
    <3>2. pc'[w] = At("idle") /\ \A u \in Workers \ {w} : pc'[u] = pc[u]
      BY <3>1 DEF IInv, TypeOK
    <3>3. ~Saving(w)'
      BY <3>2, NamesAreNoStages, StagesAreTyped DEF Saving
    <3>4. \A u \in {w} : ~Saving(u)'
      BY <3>3
    <3>5. UNCHANGED <<trained, model, meta>> /\ SavesDie({w})
      BY <2>5 DEF Crash
    <3>. QED
      BY <2>0, <3>1, <3>2, <3>4, <3>5, DyingKeepsIInv
  <2>6. ASSUME NEW w \in Workers,
               \/ LoadSign(w) \/ LoadSpread(w) \/ TrainFails(w)
               \/ Request(w) \/ Remember(w) \/ Reply(w) \/ RunJob(w) \/ Serve(w)
               \/ TrainAll(w) \/ CheckExists(w) \/ CheckAge(w) \/ CheckRaises(w) \/ End(w)
        PROVE  IInv'
    <3>1. \E name : pc[w] = At(name)
      BY <2>6 DEF LoadSign, LoadSpread, Load, TrainFails, Request, Remember, Reply, RunJob,
                  Serve, TrainAll, CheckExists, CheckAge, CheckRaises, End, MayStart
    <3>2. ~Saving(w)
      BY <3>1, NamesAreNoStages, SavingIsAtAStage
    <3>3. \E name : pc' = [pc EXCEPT ![w] = At(name)]
      BY <2>6 DEF LoadSign, LoadSpread, Load, TrainFails, Request, Remember, Reply, RunJob,
                  Serve, TrainAll, CheckExists, CheckAge, CheckRaises, End, Leave, StartLoad, Goto
    <3>4. /\ \A u \in Workers \ {w} : pair'[u] = pair[u]
          /\ UNCHANGED <<trained, model, meta, torn, overlapped>>
      BY <2>6 DEF LoadSign, LoadSpread, Load, TrainFails, Request, Remember, Reply, RunJob,
                  Serve, TrainAll, CheckExists, CheckAge, CheckRaises, End, Leave, saves,
                  IInv, TypeOK
    <3>. QED
      BY <2>0, <3>2, <3>3, <3>4, BystandersKeepIInv
  <2>7. CASE UNCHANGED vars
    BY <2>0, <2>7, UnchangedKeepsIInv DEF vars, saves
  <2>. QED
    BY <2>1, <2>2, <2>3, <2>4, <2>5, <2>6, <2>7, StagesAreTyped DEF Next, Step, Save
<1>. QED
  BY <1>1, <1>2, PTL DEF Spec

\* While nobody saves, the registry holds one training, whatever died or overlapped before
\* the last save that had the files for itself (registry.py:26-34, inference.py:94-95).
THEOREM LoneSavesMend == Spec => []SettledRegistryIsOneTraining
<1>1. IInv => SettledRegistryIsOneTraining
  BY DEF IInv
<1>. QED
  BY <1>1, IInvHolds, PTL

\* Metadata never runs ahead of its model, also across crashes (registry.py:26-34).
THEOREM MetadataTrailsModels == Spec => []MetadataIsNeverAhead
<1>1. IInv => MetadataIsNeverAhead
  BY DEF IInv
<1>. QED
  BY <1>1, IInvHolds, PTL

---------------------------------------------------------------------------
\* A job that loads undisturbed does so while nobody saves.
JobsLoadOneTraining ==
  \A j \in Jobs :
    /\ Loading(j) /\ ~disturbed[j] => Quiet
    /\ pc[j] = At("loadSpread") /\ ~disturbed[j] => pair[j]["sign"] = model["sign"].of
    /\ Saving(j) => pair[j]["sign"] = pair[j]["spread"]
    /\ pc[j] = At("have") /\ ~disturbed[j] => pair[j]["sign"] = pair[j]["spread"]

\* What happens to job j itself.
LEMMA OwnStepsKeepPairs ==
  ASSUME IInv, JobsLoadOneTraining, NEW j \in Jobs, Step(j)
  PROVE  /\ Loading(j)' /\ ~disturbed'[j] => Quiet'
         /\ pc'[j] = At("loadSpread") /\ ~disturbed'[j] => pair'[j]["sign"] = model'["sign"].of
         /\ Saving(j)' => pair'[j]["sign"] = pair'[j]["spread"]
         /\ pc'[j] = At("have") /\ ~disturbed'[j] => pair'[j]["sign"] = pair'[j]["spread"]
<1> DEFINE Goal ==
      /\ Loading(j)' /\ ~disturbed'[j] => Quiet'
      /\ pc'[j] = At("loadSpread") /\ ~disturbed'[j] => pair'[j]["sign"] = model'["sign"].of
      /\ Saving(j)' => pair'[j]["sign"] = pair'[j]["spread"]
      /\ pc'[j] = At("have") /\ ~disturbed'[j] => pair'[j]["sign"] = pair'[j]["spread"]
<1>1. j \in Workers /\ j \notin Trainers /\ j \notin ApiThreads
  BY WorkersAssumption DEF Workers
<1>2. ASSUME NEW name \in {"idle", "train"}, pc' = [pc EXCEPT ![j] = At(name)] PROVE Goal
  <2>1. pc'[j] = At(name)
    BY <1>1, <1>2 DEF IInv, TypeOK
  <2>. QED
    BY <2>1, NamesAreNoStages, StagesAreTyped DEF Loading, Saving, At
<1>3. CASE LoadSign(j) \/ LoadSpread(j)
  <2>1. CASE \E name \in {"idle", "train"} : pc' = [pc EXCEPT ![j] = At(name)]
    BY <1>2, <2>1
  <2>2. CASE /\ pc[j] = At("loadSign")
             /\ pair' = [pair EXCEPT ![j]["sign"] = model["sign"].of]
             /\ pc' = [pc EXCEPT ![j] = At("loadSpread")]
    <3>1. /\ pc'[j] = At("loadSpread") /\ pair'[j]["sign"] = model["sign"].of
          /\ UNCHANGED <<model, disturbed, torn, overlapped>>
      BY <1>1, <1>3, <2>2 DEF LoadSign, LoadSpread, Load, Leave, Goto, IInv, TypeOK, Kinds, saves, At
    <3>2. ~Saving(j)'
      BY <3>1, NamesAreNoStages, StagesAreTyped DEF Saving
    <3>3. \A u \in Workers \ {j} : Saving(u)' <=> Saving(u)
      BY <2>2 DEF Saving, IInv, TypeOK
    <3>4. Quiet => Quiet'
      BY <3>1, <3>2, <3>3 DEF Quiet
    <3>. QED
      BY <2>2, <3>1, <3>2, <3>4 DEF JobsLoadOneTraining, Loading, At
  <2>3. CASE /\ pc[j] = At("loadSpread")
             /\ pair' = [pair EXCEPT ![j]["spread"] = model["spread"].of]
             /\ pc' = [pc EXCEPT ![j] = At("have")]
             /\ UNCHANGED disturbed
    <3>1. /\ pc'[j] = At("have") /\ pair'[j]["spread"] = model["spread"].of
          /\ pair'[j]["sign"] = pair[j]["sign"]
      BY <1>1, <2>3 DEF IInv, TypeOK, Kinds
    <3>2. ~Saving(j)'
      BY <3>1, NamesAreNoStages, StagesAreTyped DEF Saving
    <3>3. ~disturbed[j] => model["spread"].of = model["sign"].of /\ pair[j]["sign"] = model["sign"].of
      BY <2>3 DEF JobsLoadOneTraining, Loading, IInv, SettledRegistryIsOneTraining, Kinds
    <3>. QED
      BY <2>3, <3>1, <3>2, <3>3 DEF Loading, At
  <2>. QED
    BY <1>3, <2>1, <2>2, <2>3 DEF LoadSign, LoadSpread, Load, Leave, Goto
<1>4. CASE Train(j)
  <2>1. pc'[j] = Before(1) /\ \A k \in Kinds : pair'[j][k] = Len(trained) + 1
    BY <1>1, <1>4 DEF Train, Goto, IInv, TypeOK
  <2>. QED
    BY <2>1 DEF Loading, Kinds, At, Before
<1>5. CASE \E i \in 1..4 : Open(j, i) \/ Close(j, i)
  <2>1. PICK i \in 1..4 : Open(j, i) \/ Close(j, i)
    BY <1>5
  <2>2. Saving(j) /\ UNCHANGED pair
    BY <2>1, StagesAreTyped DEF Open, Close, Saving
  <2>3. pc'[j] \in {Writing(i), Mixing(i), Before(i + 1), At("have")}
    BY <1>1, <2>1 DEF Open, Close, Goto, IInv, TypeOK
  <2>. QED
    BY <2>2, <2>3 DEF JobsLoadOneTraining, Loading, At, Before, Writing, Mixing
<1>6. CASE RunJob(j)
  <2>1. pc'[j] = At("loadSign") /\ \A u \in Workers \ {j} : pc'[u] = pc[u]
    BY <1>1, <1>6 DEF RunJob, StartLoad, Goto, IInv, TypeOK
  <2>2. ~Saving(j)'
    BY <2>1, NamesAreNoStages, StagesAreTyped DEF Saving
  <2>3. \A u \in Workers \ {j} : Saving(u)' <=> Saving(u)
    BY <2>1 DEF Saving
  <2>4. ~disturbed'[j] => Quiet
    BY <1>6 DEF RunJob, StartLoad, Quiet
  <2>5. Quiet => Quiet'
    BY <1>6, <2>2, <2>3 DEF Quiet, RunJob, saves
  <2>. QED
    BY <2>1, <2>2, <2>4, <2>5 DEF At
<1>7. CASE TrainFails(j) \/ Serve(j) \/ CheckRaises(j) \/ End(j) \/ Crash(j)
  BY <1>2, <1>7 DEF TrainFails, Serve, CheckRaises, End, Crash, Leave, Goto
<1>8. ~(\/ Request(j) \/ Remember(j) \/ TrainAll(j) \/ CheckExists(j))
  BY <1>1 DEF Request, Remember, TrainAll, CheckExists
<1>9. CASE Reply(j) \/ CheckAge(j)
  <2>1. pc'[j] \in {At("serve"), At("train"), At("kept")}
    BY <1>1, <1>9 DEF Reply, CheckAge, Goto, IInv, TypeOK
  <2>. QED
    BY <2>1, NamesAreNoStages, StagesAreTyped DEF Loading, Saving, At
<1>. QED
  BY <1>3, <1>4, <1>5, <1>6, <1>7, <1>8, <1>9, StagesAreTyped DEF Step, Save

\* Where nobody saves and nobody starts to, nothing changes for a job that loads.
LEMMA QuietStays ==
  ASSUME IInv, Quiet, [Next]_vars, \A w \in Workers : ~Train(w)
  PROVE  Quiet' /\ UNCHANGED model
<1>1. \A w \in Workers : ~Saving(w)
  BY DEF Quiet
<1>2. CASE NextDay \/ UNCHANGED vars
  BY <1>2 DEF NextDay, vars, saves, Quiet, Saving
<1>3. CASE ServerRestart
  <2>1. \A u \in Workers : pc'[u] \in {pc[u], At("idle")}
    BY <1>3 DEF ServerRestart
  <2>2. \A u \in Workers : ~Saving(u)'
    BY <1>1, <2>1, NamesAreNoStages, StagesAreTyped DEF Saving
  <2>3. UNCHANGED <<model, torn, overlapped>>
    <3>1. \A u \in ApiThreads : ~Saving(u)
      BY <1>1 DEF Workers
    <3>. QED
      BY <1>3, <3>1 DEF ServerRestart, SavesDie, IInv, TypeOK
  <2>. QED
    BY <2>2, <2>3 DEF Quiet
<1>4. ASSUME NEW w \in Workers, Step(w) PROVE Quiet' /\ UNCHANGED model
  <2>1. ~ \E i \in 1..4 : Open(w, i) \/ Close(w, i)
    BY <1>1, StagesAreTyped DEF Open, Close, Saving
  <2>2. /\ UNCHANGED <<model, torn, overlapped>>
        /\ \E name : pc' = [pc EXCEPT ![w] = At(name)]
    <3>1. CASE Crash(w)
      BY <1>1, <3>1 DEF Crash, Leave, Goto, SavesDie, IInv, TypeOK
    <3>2. CASE ~Crash(w)
      BY <1>4, <2>1, <3>2, StagesAreTyped
      DEF Step, Save, LoadSign, LoadSpread, Load, TrainFails, Request, Remember, Reply, RunJob,
          Serve, TrainAll, CheckExists, CheckAge, CheckRaises, End, Leave, StartLoad, Goto, saves
    <3>. QED
      BY <3>1, <3>2
  <2>3. PICK name : pc' = [pc EXCEPT ![w] = At(name)]
    BY <2>2
  <2>4. pc'[w] = At(name) /\ \A u \in Workers \ {w} : pc'[u] = pc[u]
    BY <2>3 DEF IInv, TypeOK
  <2>5. \A u \in Workers : ~Saving(u)'
    BY <1>1, <2>4, NamesAreNoStages, StagesAreTyped DEF Saving
  <2>. QED
    BY <2>2, <2>5 DEF Quiet
<1>. QED
  BY <1>2, <1>3, <1>4 DEF Next

\* What others do to job j.
LEMMA OtherStepsKeepPairs ==
  ASSUME IInv, JobsLoadOneTraining, NEW j \in Jobs, [Next]_vars, ~Step(j)
  PROVE  /\ Loading(j)' /\ ~disturbed'[j] => Quiet'
         /\ pc'[j] = At("loadSpread") /\ ~disturbed'[j] => pair'[j]["sign"] = model'["sign"].of
         /\ Saving(j)' => pair'[j]["sign"] = pair'[j]["spread"]
         /\ pc'[j] = At("have") /\ ~disturbed'[j] => pair'[j]["sign"] = pair'[j]["spread"]
<1>1. j \in Workers /\ j \notin ApiThreads
  BY WorkersAssumption DEF Workers
<1>2. /\ pc'[j] \in {pc[j], Mixing(1), Mixing(2), Mixing(3), Mixing(4)}
      /\ pc'[j] = pc[j] \/ Saving(j)
      /\ pair'[j] = pair[j]
      /\ ~disturbed'[j] => ~disturbed[j]
  <2>1. CASE NextDay \/ UNCHANGED vars
    BY <2>1 DEF NextDay, vars
  <2>2. CASE ServerRestart
    BY <1>1, <2>2 DEF ServerRestart
  <2>3. ASSUME NEW w \in Workers \ {j}, NEW i \in 1..4, Open(w, i)
        PROVE  /\ pc'[j] \in {pc[j], Mixing(i)} /\ (pc'[j] = pc[j] \/ Saving(j))
               /\ pair'[j] = pair[j] /\ disturbed'[j] = disturbed[j]
    BY <1>1, <2>3, StagesAreTyped DEF Open, Saving
  <2>4. ASSUME NEW w \in Workers \ {j}, Step(w), ~ \E i \in 1..4 : Open(w, i)
        PROVE  /\ pc'[j] = pc[j] /\ pair'[j] = pair[j]
               /\ ~disturbed'[j] => ~disturbed[j]
    <3>1. CASE \E i \in 1..4 : Close(w, i)
      BY <1>1, <3>1 DEF Close, Goto, IInv, TypeOK
    <3>2. CASE Train(w)
      BY <1>1, <3>2 DEF Train, Goto, IInv, TypeOK
    <3>3. CASE Request(w) \/ RunJob(w)
      BY <1>1, <3>3 DEF Request, RunJob, StartLoad, Goto, IInv, TypeOK
    <3>4. CASE \/ LoadSign(w) \/ LoadSpread(w) \/ TrainFails(w) \/ Remember(w) \/ Reply(w)
               \/ Serve(w) \/ TrainAll(w) \/ CheckExists(w) \/ CheckAge(w) \/ CheckRaises(w)
               \/ End(w) \/ Crash(w)
      BY <1>1, <3>4 DEF LoadSign, LoadSpread, Load, TrainFails, Remember, Reply, Serve, TrainAll,
                        CheckExists, CheckAge, CheckRaises, End, Crash, Leave, Goto, IInv, TypeOK
    <3>. QED
      BY <2>4, <3>1, <3>2, <3>3, <3>4, StagesAreTyped DEF Step, Save
  <2>. QED
    BY <2>1, <2>2, <2>3, <2>4 DEF Next
<1>3. pc'[j] = pc[j] \/ (Saving(j) /\ \E i \in 1..4 : pc'[j] = Mixing(i))
  BY <1>2
<1>4. ASSUME Loading(j)', ~disturbed'[j] PROVE Quiet' /\ UNCHANGED model
  <2>1. pc'[j] = pc[j] /\ Loading(j)
    BY <1>3, <1>4, NamesAreNoStages DEF Loading
  <2>2. Quiet
    BY <1>2, <1>4, <2>1 DEF JobsLoadOneTraining
  <2>3. \A w \in Workers : ~Train(w)
    <3>1. ~Train(j)
      BY DEF Step
    <3>2. \A w \in Workers : w # j => ~Train(w)
      BY <1>4, <2>1 DEF Train
    <3>. QED
      BY <3>1, <3>2
  <2>. QED
    BY <2>2, <2>3, QuietStays
<1>5. Saving(j)' => Saving(j)
  BY <1>3 DEF Saving
<1>6. pc'[j] = At("loadSpread") => Loading(j)' /\ pc[j] = At("loadSpread")
  BY <1>3, NamesAreNoStages DEF Loading
<1>7. pc'[j] = At("have") => pc[j] = At("have")
  BY <1>3, NamesAreNoStages
<1>. QED
  BY <1>2, <1>4, <1>5, <1>6, <1>7 DEF JobsLoadOneTraining

\* A job mixes two trainings only if it loaded next to a save, or after saves that died or
\* overlapped (inference.py:67-73).
THEOREM UndisturbedPairsMatch == Spec => []PairsMixOnlyWhenDisturbed
<1>1. Init => JobsLoadOneTraining
  <2>1. Init => \A j \in Jobs : pc[j] = At("idle")
    BY DEF Init, Workers
  <2>2. Init => \A j \in Jobs : ~Saving(j)
    BY <2>1, NamesAreNoStages, StagesAreTyped DEF Saving
  <2>. QED
    BY <2>1, <2>2 DEF JobsLoadOneTraining, Loading, At
<1>2. IInv /\ JobsLoadOneTraining /\ [Next]_vars => JobsLoadOneTraining'
  BY OwnStepsKeepPairs, OtherStepsKeepPairs DEF JobsLoadOneTraining
<1>3. JobsLoadOneTraining => PairsMixOnlyWhenDisturbed
  BY DEF JobsLoadOneTraining, PairsMixOnlyWhenDisturbed
<1>. QED
  BY <1>1, <1>2, <1>3, IInvHolds, PTL DEF Spec

---------------------------------------------------------------------------
\* A whole file is of a training that has been, and so is whatever is being saved.
WholeFilesAreOfTrainings ==
  /\ \A k \in Kinds : /\ model[k].state = "whole" => model[k].of \in 1..Len(trained)
                      /\ meta[k].state = "whole" => meta[k].of \in 1..Len(trained)
  /\ \A w \in Workers : Saving(w) => \A k \in Kinds : pair[w][k] \in 1..Len(trained)

\* Steps that neither train nor save.
LEMMA ReadersKeepWholeFiles ==
  ASSUME TypeOK, WholeFilesAreOfTrainings, UNCHANGED <<trained, model, meta>>,
         \A u \in Workers : Saving(u)' => Saving(u) /\ pair'[u] = pair[u]
  PROVE  WholeFilesAreOfTrainings'
  BY DEF WholeFilesAreOfTrainings

LEMMA SaversKeepWholeFiles ==
  ASSUME TypeOK, WholeFilesAreOfTrainings, NEW w \in Workers, NEW i \in 1..4,
         Open(w, i) \/ Close(w, i)
  PROVE  WholeFilesAreOfTrainings'
<1>1. UNCHANGED <<trained, pair>>
  BY DEF Open, Close
<1>2. Saving(w) /\ \A u \in Workers : Saving(u)' => Saving(u)
  <2>1. CASE Open(w, i)
    <3>1. Saving(w)
      BY <2>1, SavingIsAtAStage DEF Open
    <3>2. \A u \in Workers : pc'[u] = pc[u] \/ pc[u] \in {Writing(i), Mixing(i)} \/ u = w
      BY <2>1 DEF Open
    <3>. QED
      BY <3>1, <3>2, SavingIsAtAStage DEF Saving
  <2>2. CASE Close(w, i)
    <3>1. Saving(w)
      BY <2>2, SavingIsAtAStage DEF Close
    <3>2. \A u \in Workers : u # w => pc'[u] = pc[u]
      BY <2>2 DEF Close, Goto, TypeOK
    <3>. QED
      BY <3>1, <3>2 DEF Saving
  <2>. QED
    BY <2>1, <2>2
<1>3. PICK file : Rewrite(i, file) /\ (file = Broken \/ file = Whole(pair[w][Stages[i][2]]))
  BY DEF Open, Close
<1>4. Stages[i][2] \in Kinds
  BY StagesAreTyped DEF Kinds
<1>5. file.state = "whole" => file.of \in 1..Len(trained)
  BY <1>2, <1>3, <1>4 DEF WholeFilesAreOfTrainings, Broken, Whole
<1>6. \A k \in Kinds : model'[k] \in {model[k], file} /\ meta'[k] \in {meta[k], file}
  BY <1>3, <1>4 DEF Rewrite, TypeOK
<1>7. \A k \in Kinds : /\ model'[k].state = "whole" => model'[k].of \in 1..Len(trained)
                       /\ meta'[k].state = "whole" => meta'[k].of \in 1..Len(trained)
  <2>. TAKE k \in Kinds
  <2>1. model'[k] = model[k] \/ model'[k] = file
    BY <1>6
  <2>2. meta'[k] = meta[k] \/ meta'[k] = file
    BY <1>6
  <2>. QED
    BY <1>5, <2>1, <2>2 DEF WholeFilesAreOfTrainings
<1>. QED
  BY <1>1, <1>2, <1>7 DEF WholeFilesAreOfTrainings

LEMMA TrainKeepsWholeFiles ==
  ASSUME TypeOK, WholeFilesAreOfTrainings, NEW w \in Workers, Train(w)
  PROVE  WholeFilesAreOfTrainings'
<1>1. /\ Len(trained) \in Nat /\ Len(trained') = Len(trained) + 1
      /\ UNCHANGED <<model, meta>>
  <2>1. trained \in Seq(0..MaxDay) /\ trained' = Append(trained, TrainEnd(w))
    BY DEF Train, TypeOK
  <2>. QED
    BY <2>1 DEF Train
<1>2. \A n : n \in 1..Len(trained) => n \in 1..Len(trained')
  BY <1>1
<1>3. \A k \in Kinds : pair'[w][k] = Len(trained) + 1
  BY DEF Train, TypeOK
<1>4. \A u \in Workers : u # w => pc'[u] = pc[u] /\ pair'[u] = pair[u]
  BY DEF Train, Goto, TypeOK
<1>5. \A u \in Workers : u # w => (Saving(u)' => Saving(u))
  BY <1>4 DEF Saving
<1>. QED
  BY <1>1, <1>2, <1>3, <1>4, <1>5 DEF WholeFilesAreOfTrainings

LEMMA WholeFilesHold == Spec => [](IInv /\ WholeFilesAreOfTrainings)
<1>1. Init /\ IInv => WholeFilesAreOfTrainings
  <2> SUFFICES ASSUME Init, IInv PROVE WholeFilesAreOfTrainings
    OBVIOUS
  <2>1. \A w \in Workers : ~Saving(w)
    BY NamesAreNoStages, SavingIsAtAStage DEF Init
  <2>2. \A k \in Kinds : meta[k] = model[k] /\ (model[k] = Absent \/ (Len(trained) = 1 /\ model[k] = Whole(1)))
    BY DEF Init
  <2>. QED
    BY <2>1, <2>2 DEF WholeFilesAreOfTrainings, Absent, Whole
<1>2. IInv /\ WholeFilesAreOfTrainings /\ [Next]_vars => WholeFilesAreOfTrainings'
  <2> SUFFICES ASSUME IInv, TypeOK, WholeFilesAreOfTrainings, [Next]_vars
               PROVE  WholeFilesAreOfTrainings'
    BY DEF IInv
  <2>1. CASE NextDay \/ UNCHANGED vars
    BY <2>1, ReadersKeepWholeFiles DEF NextDay, vars, Saving
  <2>2. CASE ServerRestart
    <3>1. /\ UNCHANGED <<trained, model, meta>>
          /\ \A u \in Workers : pc'[u] = At("idle") \/ (pc'[u] = pc[u] /\ pair'[u] = pair[u])
      BY <2>2 DEF ServerRestart
    <3>2. \A u \in Workers : Saving(u)' => Saving(u) /\ pair'[u] = pair[u]
      BY <3>1, NamesAreNoStages, StagesAreTyped DEF Saving
    <3>. QED
      BY <3>1, <3>2, ReadersKeepWholeFiles
  <2>3. ASSUME NEW w \in Workers, Train(w) PROVE WholeFilesAreOfTrainings'
    BY <2>3, TrainKeepsWholeFiles
  <2>4. ASSUME NEW w \in Workers, NEW i \in 1..4, Open(w, i) \/ Close(w, i)
        PROVE  WholeFilesAreOfTrainings'
    BY <2>4, SaversKeepWholeFiles
  <2>5. ASSUME NEW w \in Workers, Step(w), ~Train(w), ~\E i \in 1..4 : Open(w, i) \/ Close(w, i)
        PROVE  WholeFilesAreOfTrainings'
    <3>1. /\ UNCHANGED <<trained, model, meta>>
          /\ \E name : pc' = [pc EXCEPT ![w] = At(name)]
      BY <2>5, StagesAreTyped
      DEF Step, Save, LoadSign, LoadSpread, Load, TrainFails, Request, Remember, Reply, RunJob,
          Serve, TrainAll, CheckExists, CheckAge, CheckRaises, End, Crash, Leave, StartLoad, Goto
    <3>2. PICK name : pc' = [pc EXCEPT ![w] = At(name)]
      BY <3>1
    <3>3. \A u \in Workers : u # w => pair'[u] = pair[u] /\ pc'[u] = pc[u]
      <4>1. \A u \in Workers : u # w => pc'[u] = pc[u]
        BY <3>2 DEF TypeOK
      <4>2. \A u \in Workers : u # w => pair'[u] = pair[u]
        BY <2>5, StagesAreTyped
        DEF Step, Save, LoadSign, LoadSpread, Load, TrainFails, Request, Remember, Reply, RunJob,
            Serve, TrainAll, CheckExists, CheckAge, CheckRaises, End, Crash, Leave, StartLoad,
            TypeOK
      <4>. QED
        BY <4>1, <4>2
    <3>4. ~Saving(w)'
      <4>1. pc'[w] = At(name)
        BY <3>2 DEF TypeOK
      <4>. QED
        BY <4>1, NamesAreNoStages, StagesAreTyped DEF Saving
    <3>5. \A u \in Workers : Saving(u)' => Saving(u) /\ pair'[u] = pair[u]
      BY <3>3, <3>4 DEF Saving
    <3>. QED
      BY <3>1, <3>5, ReadersKeepWholeFiles
  <2>. QED
    BY <2>1, <2>2, <2>3, <2>4, <2>5 DEF Next
<1>. QED
  BY <1>1, <1>2, IInvHolds, PTL DEF Spec

LEMMA EntriesAreOfTheSet ==
  ASSUME NEW S, NEW s \in Seq(S), NEW i \in 1..Len(s)
  PROVE  s[i] \in S
  OBVIOUS

\* Only the age check makes a worker keep the models.
LEMMA OnlyCheckAgeKeeps ==
  ASSUME TypeOK, Next, NEW w \in Workers, pc[w] # At("kept"), pc'[w] = At("kept")
  PROVE  ~TooOld /\ meta["sign"].state \in {"absent", "whole"} /\ UNCHANGED <<today, trained>>
<1>1. ~NextDay /\ ~ServerRestart
  BY DEF NextDay, ServerRestart, At
<1>2. ASSUME NEW v \in Workers, Step(v) PROVE CheckAge(v) /\ v = w
  <2>1. ASSUME NEW i \in 1..4, Open(v, i) PROVE FALSE
    BY <2>1, NamesAreNoStages DEF Open
  <2>2. ASSUME NEW i \in 1..4, Close(v, i) PROVE FALSE
    BY <2>2 DEF Close, Goto, TypeOK, At, Before
  <2>3. ASSUME Train(v) PROVE FALSE
    <3>1. pc' = [pc EXCEPT ![v] = Before(1)]
      BY <2>3 DEF Train, Goto
    <3>. QED
      BY <3>1 DEF TypeOK, At, Before
  <2>4. ASSUME NEW name \in Names \ {"kept"}, pc' = [pc EXCEPT ![v] = At(name)] PROVE FALSE
    BY <2>4 DEF TypeOK, At
  <2>5. ~(\/ LoadSign(v) \/ LoadSpread(v) \/ TrainFails(v) \/ Request(v) \/ Remember(v)
          \/ Reply(v) \/ RunJob(v) \/ Serve(v) \/ TrainAll(v) \/ CheckExists(v)
          \/ CheckRaises(v) \/ End(v) \/ Crash(v))
    BY <2>4 DEF Names, LoadSign, LoadSpread, Load, TrainFails, Request, Remember, Reply, RunJob,
       Serve, TrainAll, CheckExists, CheckRaises, End, Crash, Leave, StartLoad, Goto
  <2>6. CheckAge(v)
    BY <1>2, <2>1, <2>2, <2>3, <2>5, StagesAreTyped DEF Step, Save
  <2>. QED
    BY <2>6 DEF CheckAge, Goto, TypeOK
<1>3. CheckAge(w)
  BY <1>1, <1>2 DEF Next
<1>4. pc' # [pc EXCEPT ![w] = At("train")]
  BY DEF TypeOK, At
<1>. QED
  BY <1>3, <1>4 DEF CheckAge, Goto

\* A check that keeps the models, while nobody saves and the last saves were clean, keeps no
\* model that is too old, although it looks at the sign model only (retrain.py:51-70).
THEOREM KeptModelsAreYoung == Spec => ChecksKeepOnlyYoungModels
<1>1. ASSUME IInv, WholeFilesAreOfTrainings, Next, NEW w \in Workers,
             pc[w] # At("kept"), pc'[w] = At("kept"), Quiet,
             NEW k \in Kinds, model[k].state = "whole"
      PROVE  AgeOf(model[k].of) < MaxAge
  <2>1. ~TooOld /\ meta["sign"].state \in {"absent", "whole"}
    BY <1>1, OnlyCheckAgeKeeps DEF IInv
  <2>2. PICK n \in Trainings : \A q \in Kinds :
          /\ model[q].of = n /\ meta[q].of = n
          /\ meta[q].state = model[q].state
    BY <1>1 DEF IInv, SettledRegistryIsOneTraining
  <2>3. n \in 1..Len(trained)
    BY <1>1, <2>2 DEF WholeFilesAreOfTrainings
  <2>4. meta["sign"].state # "absent"
    <3>1. meta["sign"] \in File /\ meta["sign"].of # 0
      BY <1>1, <2>2, <2>3 DEF IInv, TypeOK, Kinds
    <3>. QED
      BY <3>1 DEF File, NoTraining
  <2>5. ~(AgeOf(n) >= MaxAge)
    BY <2>1, <2>2, <2>4 DEF TooOld, Kinds
  <2>6. AgeOf(n) \in Int /\ MaxAge \in Int
    <3>1. trained \in Seq(0..MaxDay) /\ today \in 1..MaxDay
      BY <1>1 DEF IInv, TypeOK
    <3>2. trained[n] \in 0..MaxDay
      BY <2>3, <3>1, EntriesAreOfTheSet
    <3>3. today \in Int /\ trained[n] \in Int /\ MaxAge \in Int
      BY <3>1, <3>2, BoundsAssumption
    <3>4. AgeOf(n) = today - trained[n]
      BY DEF AgeOf
    <3>. QED
      BY <3>3, <3>4
  <2>. QED
    BY <2>2, <2>5, <2>6
<1>2. IInv /\ WholeFilesAreOfTrainings /\ [Next]_vars =>
        [\A w \in Workers : pc[w] # At("kept") /\ pc'[w] = At("kept") /\ Quiet =>
           \A k \in Kinds : model[k].state = "whole" => AgeOf(model[k].of) < MaxAge]_vars
  BY <1>1
<1>. QED
  BY <1>2, WholeFilesHold, PTL DEF Spec, ChecksKeepOnlyYoungModels

=============================================================================
