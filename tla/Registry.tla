------------------------------ MODULE Registry ------------------------------
(***************************************************************************)
(* The model registry of one horizon and everybody who uses it: save_model *)
(* (sfe/models/registry.py), ensure_models (sfe/serve/inference.py), the   *)
(* retraining check (sfe/models/retrain.py, sfe/scripts/retrain_check.py), *)
(* the API's model cache (sfe/api/main.py), and the batch jobs that load   *)
(* the models each time.                                                   *)
(*                                                                         *)
(* A training produces a sign and a spread model; its number stands for    *)
(* both.  Each model is a file with a metadata file beside it; all four    *)
(* are rewritten in place, one after the other, by whoever trained.        *)
(***************************************************************************)
EXTENDS Naturals, Sequences, FiniteSets

CONSTANTS
  Trainers,         \* processes that run retrain_check --apply or train_all_horizons
  Jobs,             \* processes that load the models for one bundle: shadow_run, dashboard
  ApiThreads,       \* request threads of the API server, which share its cache
  MaxAge,           \* --max-age-days
  Crashes,          \* TRUE iff processes may die, or fail to write, at any point
  MaxBusy,          \* bound: workers at work at the same time
  MaxDay,           \* bound: the last day
  MaxTrainings      \* bound: trainings

ASSUME WorkersAssumption ==
  Trainers \cap Jobs = {} /\ Trainers \cap ApiThreads = {} /\ Jobs \cap ApiThreads = {}
ASSUME BoundsAssumption ==
  /\ MaxAge \in Nat /\ MaxBusy \in Nat /\ MaxDay \in Nat \ {0} /\ MaxTrainings \in Nat \ {0}
  /\ Crashes \in BOOLEAN

VARIABLES
  today,      \* the date
  trained,    \* trained[n]: train_end of training n
  model,      \* model[k]: the joblib file of kind k
  meta,       \* meta[k]: its metadata file
  cache,      \* the pair in the API server's state["models"], or NoPair
  pc,         \* pc[w]: where worker w is
  pair,       \* pair[w]: the trainings its sign and spread model come from
  disturbed,  \* observer: disturbed[w]: a save was under way, or had died or overlapped
              \* another, while job w loaded
  torn,       \* observer: a save died, and no later one has been completed
  overlapped  \* observer: "yes": two saves were under way at once, "mending": a later
              \* one is under way alone, "no": it has been completed, or there was none

saves == <<torn, overlapped>>
vars == <<today, trained, model, meta, cache, pc, pair, disturbed, saves>>

Kinds == {"sign", "spread"}
Workers == Trainers \cup Jobs \cup ApiThreads
Trainings == 0..MaxTrainings
NoTraining == 0
NoPair == [k \in Kinds |-> NoTraining]

\* What opening a file finds; one that is unfinished or garbled is broken.
File == [state : {"absent", "broken"}, of : {NoTraining}]
          \cup [state : {"whole"}, of : Trainings]
Absent == [state |-> "absent", of |-> NoTraining]
Broken == [state |-> "broken", of |-> NoTraining]
Whole(n) == [state |-> "whole", of |-> n]

\* Faulty variant of Stages: the metadata is written before the model.
MetaFirst ==
  <<<<"meta", "sign">>, <<"model", "sign">>, <<"meta", "spread">>, <<"model", "spread">>>>
\* Faulty variant of Stages: the spread model is not saved.
SignOnly == <<<<"model", "sign">>, <<"meta", "sign">>>>

\* The stages of saving a training, in order: <<what is written, of which kind>>.
Stages ==
  <<<<"model", "sign">>, <<"meta", "sign">>, <<"model", "spread">>, <<"meta", "spread">>>>

\* pc values of a worker that is about to write, or is writing, stage i, or is writing it
\* while somebody else is, or was.
Before(i) == <<"before", i>>
Writing(i) == <<"writing", i>>
Mixing(i) == <<"mixing", i>>
At(name) == <<name, 0>>

Saving(w) == \E i \in DOMAIN Stages : pc[w] \in {Before(i), Writing(i), Mixing(i)}
Loading(w) == pc[w] \in {At("loadSign"), At("loadSpread")}

\* Nothing is registered yet, or a training of the day before.
Init ==
  /\ today = 1
  /\ \/ trained = <<>> /\ model = [k \in Kinds |-> Absent]
     \/ /\ trained = <<0>>
        /\ model = [k \in Kinds |-> Whole(1)]
  /\ meta = model
  /\ cache = NoPair
  /\ pc = [w \in Workers |-> At("idle")]
  /\ pair = [w \in Workers |-> NoPair]
  /\ disturbed = [w \in Jobs |-> FALSE]
  /\ torn = FALSE /\ overlapped = "no"

NextDay ==
  /\ today < MaxDay
  /\ today' = today + 1
  /\ UNCHANGED <<trained, model, meta, cache, pc, pair, disturbed, saves>>

Goto(w, where) == pc' = [pc EXCEPT ![w] = where]

MayStart(w) ==
  pc[w] = At("idle") /\ Cardinality({u \in Workers : pc[u] # At("idle")}) < MaxBusy

\* The worker is done; what it held in memory is gone.
Leave(w) ==
  /\ Goto(w, At("idle"))
  /\ pair' = [pair EXCEPT ![w] = NoPair]
  /\ disturbed' = [j \in Jobs |-> disturbed[j] /\ j # w]

\* A load that begins while somebody saves, or a save that begins while w loads.
StartLoad(w) ==
  /\ Goto(w, At("loadSign"))
  /\ disturbed' = [j \in Jobs |->
       IF j = w THEN torn \/ overlapped # "no" \/ \E u \in Workers : Saving(u)
       ELSE disturbed[j]]

---------------------------------------------------------------------------
(* ensure_models *)

\* load_model: no file means train, an unreadable one raises something that is
\* neither FileNotFoundError nor OSError.
Load(w, k, here, there) ==
  /\ pc[w] = At(here)
  /\ \/ /\ model[k].state = "whole"
        /\ pair' = [pair EXCEPT ![w][k] = model[k].of]
        /\ Goto(w, At(there))
        /\ UNCHANGED disturbed
     \/ model[k].state = "absent" /\ Goto(w, At("train")) /\ UNCHANGED <<pair, disturbed>>
     \/ model[k].state = "broken" /\ Leave(w)
  /\ UNCHANGED <<today, trained, model, meta, cache, saves>>

LoadSign(w) == Load(w, "sign", "loadSign", "loadSpread")
LoadSpread(w) == Load(w, "spread", "loadSpread", "have")

\* train_end, the last day of the training window: today where the scripts pass
\* their default --end, yesterday where ensure_models chooses it.
TrainEnd(w) == IF w \in Trainers THEN today ELSE today - 1

\* Both models are fitted on the history up to train_end; then they are saved.
Train(w) ==
  /\ pc[w] = At("train")
  /\ Len(trained) < MaxTrainings
  /\ trained' = Append(trained, TrainEnd(w))
  /\ pair' = [pair EXCEPT ![w] = [k \in Kinds |-> Len(trained) + 1]]
  /\ Goto(w, Before(1))
  /\ disturbed' = [j \in Jobs |-> disturbed[j] \/ (Loading(j) /\ j # w)]
  /\ overlapped' = IF \E u \in Workers : Saving(u) THEN "yes"
                   ELSE IF overlapped = "no" THEN "no" ELSE "mending"
  /\ UNCHANGED <<today, model, meta, cache, torn>>

\* Not enough history: RuntimeError.
TrainFails(w) ==
  /\ pc[w] = At("train")
  /\ Leave(w)
  /\ UNCHANGED <<today, trained, model, meta, cache, saves>>

\* The file of stage i is rewritten.
Rewrite(i, file) ==
  LET k == Stages[i][2]
  IN  IF Stages[i][1] = "model"
      THEN model' = [model EXCEPT ![k] = file] /\ UNCHANGED meta
      ELSE meta' = [meta EXCEPT ![k] = file] /\ UNCHANGED model

\* It is opened and loses what it had; whoever has it open as well mixes with w ...
Open(w, i) ==
  LET others == {u \in Workers : pc[u] \in {Writing(i), Mixing(i)}}
  IN  /\ pc[w] = Before(i)
      /\ Rewrite(i, Broken)
      /\ pc' = [u \in Workers |->
           IF u \in others THEN Mixing(i)
           ELSE IF u # w THEN pc[u]
           ELSE IF others = {} THEN Writing(i) ELSE Mixing(i)]
      /\ UNCHANGED <<today, trained, cache, pair, disturbed, saves>>

\* ... and is complete, or garbled; after the last stage the pair is returned.
Close(w, i) ==
  /\ pc[w] \in {Writing(i), Mixing(i)}
  /\ \/ Rewrite(i, Whole(pair[w][Stages[i][2]]))
     \/ pc[w] = Mixing(i) /\ Rewrite(i, Broken)
  /\ IF i < Len(Stages)
     THEN Goto(w, Before(i + 1)) /\ UNCHANGED saves
     ELSE /\ Goto(w, At("have"))
          /\ torn' = (torn /\ overlapped = "yes")
          /\ overlapped' = IF overlapped = "yes" THEN "yes" ELSE "no"
  /\ UNCHANGED <<today, trained, cache, pair, disturbed>>

Save(w) == \E i \in DOMAIN Stages : Open(w, i) \/ Close(w, i)

---------------------------------------------------------------------------
(* The API server and the batch jobs *)

\* A request finds its horizon in the cache, or goes for the models.
Request(w) ==
  /\ w \in ApiThreads
  /\ MayStart(w)
  /\ IF cache # NoPair
     THEN Goto(w, At("reply")) /\ UNCHANGED disturbed
     ELSE StartLoad(w)
  /\ UNCHANGED <<today, trained, model, meta, cache, pair, saves>>

\* state["models"][horizon] = ensure_models(...)
Remember(w) ==
  /\ w \in ApiThreads
  /\ pc[w] = At("have")
  /\ cache' = pair[w]
  /\ Goto(w, At("reply"))
  /\ UNCHANGED <<today, trained, model, meta, pair, disturbed, saves>>

\* return state["models"][horizon], which another thread may have set meanwhile.
Reply(w) ==
  /\ pc[w] = At("reply")
  /\ pair' = [pair EXCEPT ![w] = cache]
  /\ Goto(w, At("serve"))
  /\ UNCHANGED <<today, trained, model, meta, cache, disturbed, saves>>

\* shadow_run, or a click on the dashboard.
RunJob(w) ==
  /\ w \in Jobs
  /\ MayStart(w)
  /\ StartLoad(w)
  /\ UNCHANGED <<today, trained, model, meta, cache, pair, saves>>

\* generate_bundle with the pair; the bundle, and its audit rows, are for the caller.
Serve(w) ==
  /\ pc[w] = At("serve") \/ (w \in Jobs /\ pc[w] = At("have"))
  /\ Leave(w)
  /\ UNCHANGED <<today, trained, model, meta, cache, saves>>

---------------------------------------------------------------------------
(* Retraining *)

\* train_all_horizons trains in any case.
TrainAll(w) ==
  /\ w \in Trainers
  /\ MayStart(w)
  /\ Goto(w, At("train"))
  /\ UNCHANGED <<today, trained, model, meta, cache, pair, disturbed, saves>>

\* should_retrain is forced, or first looks whether both model files exist ...
CheckExists(w) ==
  /\ w \in Trainers
  /\ MayStart(w)
  /\ \/ Goto(w, At("due"))
     \/ (\A k \in Kinds : model[k].state # "absent") /\ Goto(w, At("age"))
  /\ UNCHANGED <<today, trained, model, meta, cache, pair, disturbed, saves>>

AgeOf(n) == today - trained[n]

\* Faulty variant of TooOld: the age in whole days.
TooOldByOneMore == meta["sign"].state = "whole" /\ AgeOf(meta["sign"].of) > MaxAge

\* model_age_days reads the metadata of the sign model only.  The age is a fraction,
\* counted from the first instant of train_end to some instant of today: it exceeds
\* MaxAge as soon as the dates are MaxAge apart.
TooOld == meta["sign"].state = "whole" /\ AgeOf(meta["sign"].of) >= MaxAge

\* ... then at the age, and, without a reason so far, at the drift, which is open.
CheckAge(w) ==
  /\ pc[w] \in {At("due"), At("age")}
  /\ meta["sign"].state \in {"absent", "whole"}
  /\ \/ Goto(w, At("train"))
     \/ pc[w] = At("age") /\ ~TooOld /\ Goto(w, At("kept"))
  /\ UNCHANGED <<today, trained, model, meta, cache, pair, disturbed, saves>>

\* json.loads raises on a metadata file that is being written or garbled.
CheckRaises(w) ==
  /\ pc[w] \in {At("due"), At("age")}
  /\ meta["sign"].state = "broken"
  /\ Leave(w)
  /\ UNCHANGED <<today, trained, model, meta, cache, saves>>

\* The script or job ends; a trainer also ends once its models are registered.
End(w) ==
  /\ \/ pc[w] = At("kept")
     \/ w \in Trainers /\ pc[w] = At("have")
  /\ Leave(w)
  /\ UNCHANGED <<today, trained, model, meta, cache, saves>>

SavesDie(ws) ==
  LET dying == \E w \in ws : Saving(w)
  IN  /\ torn' = (torn \/ dying)
      /\ overlapped' = IF dying /\ overlapped = "mending" THEN "yes" ELSE overlapped

\* A batch process dies, or a write of a worker raises; files stay as they are.
Crash(w) ==
  /\ Crashes
  /\ pc[w] # At("idle")
  /\ SavesDie({w})
  /\ Leave(w)
  /\ UNCHANGED <<today, trained, model, meta, cache>>

\* The API server restarts: its threads and its cache are gone.
ServerRestart ==
  /\ Crashes
  /\ \/ cache # NoPair
     \/ \E w \in ApiThreads : pc[w] # At("idle")
  /\ pc' = [w \in Workers |-> IF w \in ApiThreads THEN At("idle") ELSE pc[w]]
  /\ pair' = [w \in Workers |-> IF w \in ApiThreads THEN NoPair ELSE pair[w]]
  /\ cache' = NoPair
  /\ SavesDie(ApiThreads)
  /\ UNCHANGED <<today, trained, model, meta, disturbed>>

Step(w) ==
  \/ LoadSign(w) \/ LoadSpread(w) \/ Train(w) \/ TrainFails(w) \/ Save(w)
  \/ Request(w) \/ Remember(w) \/ Reply(w) \/ RunJob(w) \/ Serve(w)
  \/ TrainAll(w) \/ CheckExists(w) \/ CheckAge(w) \/ CheckRaises(w) \/ End(w) \/ Crash(w)

Next == NextDay \/ ServerRestart \/ \E w \in Workers : Step(w)

Spec == Init /\ [][Next]_vars

---------------------------------------------------------------------------
(* Properties *)

Names == {"idle", "loadSign", "loadSpread", "train", "have", "reply", "serve",
          "due", "age", "kept"}

TypeOK ==
  /\ today \in 1..MaxDay
  /\ trained \in Seq(0..MaxDay) /\ Len(trained) \in Trainings
  /\ model \in [Kinds -> File]
  /\ meta \in [Kinds -> File]
  /\ cache \in [Kinds -> Trainings]
  /\ pc \in [Workers -> (Names \X {0}) \cup ({"before", "writing", "mixing"} \X (1..4))]
  /\ pair \in [Workers -> [Kinds -> Trainings]]
  /\ disturbed \in [Jobs -> BOOLEAN]
  /\ torn \in BOOLEAN
  /\ overlapped \in {"no", "yes", "mending"}

\* Nobody saves, no save died, no two overlapped, or somebody saved alone since.
Quiet == ~torn /\ overlapped = "no" /\ \A w \in Workers : ~Saving(w)

\* While nobody saves, the registry holds the two models of one training, each with its
\* own metadata, or nothing at all (registry.py:26-34, inference.py:94-95), unless a save
\* died, or two overlapped (main.py:46-52, two processes), and nobody saved alone since:
\* the next save that has the files for itself mends whatever was left.
SettledRegistryIsOneTraining ==
  Quiet =>
    \E n \in Trainings : \A k \in Kinds :
      model[k].of = n /\ meta[k].of = n /\ model[k].state \in {"absent", "whole"}
                                       /\ meta[k].state = model[k].state

\* The metadata of a model never belongs to a later training than the model, also
\* after a crash between the two writes, so that the age check never takes an old
\* model for a newer one (registry.py:26-34, retrain.py:36-48).  Saves that overlap may
\* leave the metadata of either.
MetadataIsNeverAhead ==
  overlapped = "no" =>
    \A k \in Kinds :
      meta[k].state = "whole" /\ model[k].state = "whole" => meta[k].of <= model[k].of

\* A bundle mixes models of two trainings only if they were loaded while somebody
\* saved, or after a save that died or overlapped another (inference.py:67-73).
PairsMixOnlyWhenDisturbed ==
  \A w \in Jobs : pc[w] = At("have") /\ ~disturbed[w] => pair[w]["sign"] = pair[w]["spread"]

\* retrain.py:3-5: a check that keeps the models found none of them too old, although
\* it looks at the sign model only.  Next to a save, or after torn or overlapping ones,
\* that does not suffice.
ChecksKeepOnlyYoungModels ==
  [][\A w \in Workers : pc[w] # At("kept") /\ pc'[w] = At("kept") /\ Quiet =>
       \A k \in Kinds : model[k].state = "whole" => AgeOf(model[k].of) < MaxAge]_vars

=============================================================================
