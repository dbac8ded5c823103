-------------------------- MODULE OfflinePipeline --------------------------
(***************************************************************************)
(* From full_dataset.csv to final_cpu_selection.csv: the windows of        *)
(* build_thread_windows.py, the histories and the split of                 *)
(* train_thread_predictor.py and predict_thread_windows.py, the loop over  *)
(* the windows of offline_magm_scheduler.py and export_cpu_selection.py,   *)
(* run in order by reproduce_ch4_ch5.sh or by demo_for_teachers.sh.        *)
(*                                                                         *)
(* A script reads its inputs, computes, and writes its files one after the *)
(* other; any of it may fail.  Features, models and scores are left out: a *)
(* prediction is the windows it is made from, those that set the scale of  *)
(* its features among them, a model the predictions it is trained on.      *)
(***************************************************************************)
EXTENDS Integers, FiniteSets, Sequences, FiniteSetsExt

CONSTANTS
  Keys,         \* the threads: [load, tid, comm], the parts of thread_key
  NoThread,     \* the thread of an unattributed sample
  WindowNs,     \* --window-ms
  HistLens,     \* --hist-len
  Datasets,     \* contents of full_dataset.csv: sets of [key, ts, busy]
  Decide(_),    \* schedule_window: the [key, cpu] it binds of a set of threads
  NoKey,        \* an empty slot of a core
  MaxRuns       \* bound: runs of a driver

ASSUME PipelineAssumption ==
  /\ WindowNs \in Nat \ {0} /\ MaxRuns \in Nat
  /\ HistLens \subseteq Nat \ {0}
  /\ NoThread \notin Keys /\ NoKey \notin Keys
  /\ \A d \in Datasets :
       /\ IsFiniteSet(d)
       /\ \A r \in d : r.key \in Keys \cup {NoThread} /\ r.ts \in Nat

\* What MagmScheduleProofs proves of schedule_window.
ASSUME DecideAssumption ==
  \A group \in SUBSET Keys :
    /\ Decide(group) \subseteq [key : group, cpu : Nat]
    /\ \A d, e \in Decide(group) : (d.key = e.key \/ d.cpu = e.cpu) => d = e

VARIABLES
  data,         \* full_dataset.csv
  file,         \* every other file that is there and complete
  driver,       \* which one runs or ran last
  todo,         \* the scripts it has yet to run, the present one first
  pending,      \* the files this one has yet to write
  status,       \* of the driver
  runs

vars == <<data, file, driver, todo, pending, status, runs>>

Files == {"windows", "windows_norm", "norm_meta", "predictions", "regression", "classification",
          "confusion", "model", "model_full", "schedule", "window_summary", "selection", "pairs",
          "final", "selection_summary"}

Init ==
  /\ data \in Datasets
  /\ file = [f \in {} |-> {}]
  /\ driver = "none" /\ todo = <<>> /\ pending = <<>> /\ status = "none" /\ runs = 0

-----------------------------------------------------------------------------
(* What the scripts compute. *)

\* load_full_dataset: rows without a thread are dropped ...
FullDataset == {r \in data : r.key # NoThread}

\* ... and by build_windows windows in which no instruction was counted.
Windows == {[key |-> r.key, win |-> r.ts \div WindowNs] : r \in {x \in FullDataset : x.busy}}

\* minmax_clip_normalize: the clip limits of each feature are quantiles over
\* all the windows, of every thread and load type.
Normalized(windows) == {[key |-> w.key, win |-> w.win, scale |-> windows] : w \in windows}

\* sort_values("window_id") of the windows of one thread: the place of each,
\* counted from 0.
Position(wins, w) == Cardinality({v \in wins : v < w})

\* Mutant of History: the history ends with the window to predict.
HistoryWithTarget(wins, pos, n) == {v \in wins : Position(wins, v) \in pos - n + 1 .. pos}

\* feature_values[pos - hist_len : pos].
History(wins, pos, n) == {v \in wins : Position(wins, v) \in pos - n .. pos - 1}

\* The windows of one thread: groupby("thread_key").
WinsOf(windows, k) == {w.win : w \in {x \in windows : x.key = k}}

Sequence(w, wins, n) ==
  [key |-> w.key, win |-> w.win, hist |-> History(wins, Position(wins, w.win), n), scale |-> w.scale,
   pos |-> Position(wins, w.win), len |-> Cardinality(wins)]

\* build_sequences: one for every row of a thread that has n rows before it.
SequencesOf(windows, n) ==
  {s \in {Sequence(w, WinsOf(windows, w.key), n) : w \in windows} : s.pos >= n}

\* add_split_column: seq_pos / max(seq_len - 1, 1) < 0.9, "train" and "valid".
InTraining(s) == 10 * s.pos < 9 * (IF s.len > 2 THEN s.len - 1 ELSE 1)

Prediction(s) == [key |-> s.key, win |-> s.win, hist |-> s.hist, scale |-> s.scale]

\* main of the scheduler: schedule_window for every load type and window.
Schedule(predictions) ==
  LET groups == {[load |-> p.key.load, win |-> p.win] : p \in predictions}
      threads(g) == {p.key : p \in {q \in predictions : q.key.load = g.load /\ q.win = g.win}}
  IN UNION {{[load |-> g.load, win |-> g.win, key |-> d.key, cpu |-> d.cpu] : d \in Decide(threads(g))}
              : g \in groups}

\* export_cpu_selection.py: the rows of one physical core.
Slot(rows, core, i) ==
  LET there == {r \in rows : r.cpu = 2 * core + i}
  IN IF there = {} THEN NoKey ELSE (CHOOSE r \in there : TRUE).key

Pairs(selection) ==
  LET cores == {[load |-> r.load, win |-> r.win, core |-> r.cpu \div 2] : r \in selection}
      rowsOf(c) == {r \in selection : r.load = c.load /\ r.win = c.win}
  IN {[load |-> c.load, win |-> c.win, core |-> c.core,
       slot0 |-> Slot(rowsOf(c), c.core, 0), slot1 |-> Slot(rowsOf(c), c.core, 1)] : c \in cores}

FinalView(selection) ==
  {r \in selection : r.win = Max({s.win : s \in {x \in selection : x.load = r.load}})}

-----------------------------------------------------------------------------
(* The drivers. *)

Start(name, scripts) ==
  /\ status # "running"
  /\ runs < MaxRuns
  /\ driver' = name /\ todo' = scripts /\ status' = "running" /\ runs' = runs + 1
  /\ UNCHANGED <<file, pending>>

Reproduce == Start("reproduce", <<"build", "train", "schedule", "export">>) /\ UNCHANGED data

\* LIVE_COLLECT=1: new scenes are collected and merged first.
Demo == Start("demo", <<"build", "predict", "schedule", "export">>) /\ data' \in Datasets

Begins(script) == todo # <<>> /\ Head(todo) = script /\ pending = <<>>

Writes(outputs) ==
  /\ pending' = outputs
  /\ UNCHANGED <<data, file, driver, todo, status, runs>>

To(name, content) == [name |-> name, content |-> content]

\* A script raises without the file it reads.  pd.read_csv would take a torn
\* one for a shorter one, but none is left for a script to read: set -e ends
\* the driver that tore it, and the next one writes it again before reading it.
Readable(name) == name \in DOMAIN file

Build ==
  /\ Begins("build")
  /\ Writes(<<To("windows", Windows), To("windows_norm", Normalized(Windows)), To("norm_meta", Windows)>>)

\* The script gives up without a sequence on either side of the split.
Train ==
  /\ Begins("train")
  /\ Readable("windows_norm")
  /\ \E n \in HistLens :
       LET seq == SequencesOf(file["windows_norm"], n)
           train == {s \in seq : InTraining(s)}
           predicted == {Prediction(s) : s \in seq \ train}
           model(on) == [hist |-> n, trained |-> {Prediction(s) : s \in on}]
       IN /\ train # {} /\ seq # train
          /\ Writes(<<To("predictions", predicted), To("regression", predicted),
                      To("classification", predicted), To("confusion", predicted),
                      To("model", model(train)), To("model_full", model(seq))>>)

\* With the model of an earlier training.
Predict ==
  /\ Begins("predict")
  /\ Readable("windows_norm") /\ Readable("model")
  /\ LET predicted == {Prediction(s) : s \in SequencesOf(file["windows_norm"], file["model"].hist)}
     IN /\ predicted # {}
        /\ Writes(<<To("predictions", predicted), To("regression", predicted),
                    To("classification", predicted), To("confusion", predicted)>>)

ScheduleWindows ==
  /\ Begins("schedule")
  /\ Readable("predictions")
  /\ LET predictions == file["predictions"]
     IN Writes(<<To("schedule", Schedule(predictions)),
                 To("window_summary", {[load |-> p.key.load, win |-> p.win] : p \in predictions})>>)

\* An empty schedule has no columns, and is refused.
Export ==
  /\ Begins("export")
  /\ Readable("schedule")
  /\ file["schedule"] # {}
  /\ LET selection == file["schedule"]
     IN Writes(<<To("selection", selection), To("pairs", Pairs(selection)),
                 To("final", FinalView(selection)),
                 To("selection_summary", {r.load : r \in selection})>>)

\* The next to_csv, and with the last one the script.
Write ==
  /\ pending # <<>>
  /\ file' = [f \in DOMAIN file \cup {Head(pending).name} |->
                IF f = Head(pending).name THEN Head(pending).content ELSE file[f]]
  /\ pending' = Tail(pending)
  /\ todo' = IF pending' = <<>> THEN Tail(todo) ELSE todo
  /\ status' = IF todo' = <<>> THEN "ok" ELSE status
  /\ UNCHANGED <<data, driver, runs>>

\* Mutant of AfterFailure: no set -e.
GoOn == Tail(todo)

\* set -e: nothing more is run.
AfterFailure == <<>>

\* An exception, before the first file or while one is written.
Fail ==
  /\ status = "running"
  /\ todo' = AfterFailure
  /\ status' = IF todo' = <<>> THEN "failed" ELSE status
  /\ pending' = <<>>
  /\ \/ UNCHANGED file
     \/ pending # <<>> /\ file' = [f \in DOMAIN file \ {Head(pending).name} |-> file[f]]
  /\ UNCHANGED <<data, driver, runs>>

Next ==
  \/ Reproduce \/ Demo
  \/ Build \/ Train \/ Predict \/ ScheduleWindows \/ Export \/ Write \/ Fail

Spec == Init /\ [][Next]_vars

-----------------------------------------------------------------------------
\* Every variable keeps to its type; a driver that is not running has nothing
\* left to do, and one that did not fail leaves no file out and none torn, but
\* for the model of an earlier training that demo_for_teachers.sh does not read.
PipelineTypeOK ==
  /\ data \in Datasets
  /\ DOMAIN file \subseteq Files
  /\ Readable("predictions") => \A p \in file["predictions"] : p.key \in Keys /\ p.win \in Nat
  /\ Readable("model") => file["model"].hist \in HistLens
  /\ driver \in {"none", "reproduce", "demo"}
  /\ status \in {"none", "running", "ok", "failed"}
  /\ runs \in 0 .. MaxRuns
  /\ (status = "running") = (todo # <<>>)
  /\ pending # <<>> => todo # <<>>
  /\ \A i \in 1 .. Len(pending) : pending[i].name \in Files
  /\ status = "ok" => \A f \in Files : Readable(f) \/ (driver = "demo" /\ f = "model_full")

\* The windows in which a thread is seen, straight from the data.
Seen(k) == {r.ts \div WindowNs : r \in {x \in data : x.key = k /\ x.busy}}

Earlier(k, w) == {v \in Seen(k) : v < w}
Later(k, w) == {v \in Seen(k) : v > w}

AllSeen == UNION {{[key |-> k, win |-> w] : w \in Seen(k)} : k \in Keys}

\* The history of a prediction is older than the window it predicts.  After a
\* driver that did not fail it is the last windows of that thread in the data,
\* none in between left out, on one scale for all the threads that a plan
\* compares: that of the whole present data, so of the window it predicts and
\* of later ones too, which no split keeps out of the training.  After a training, what is predicted is later than every
\* history and target of that thread the model was trained on, and the model
\* was trained on the same scale (train_thread_predictor.py:145, :173,
\* build_thread_windows.py:143).
HistoryIsPast ==
  /\ Readable("predictions") =>
       \A p \in file["predictions"] : \A v \in p.hist : v < p.win
  /\ status = "ok" =>
       \A p \in file["predictions"] :
         /\ p.hist \subseteq Earlier(p.key, p.win)
         /\ Cardinality(p.hist) = file["model"].hist
         /\ \A v \in Earlier(p.key, p.win) \ p.hist : \A u \in p.hist : v < u
         /\ p.scale = AllSeen
  /\ status = "ok" /\ driver = "reproduce" =>
       \A p \in file["predictions"], s \in file["model"].trained :
         /\ s.key = p.key => s.win < p.win
         /\ s.scale = p.scale

\* The threads of a window that a plan can be about: those with history enough
\* and, after a training, in the last tenth of their windows.
Candidates(load, w) ==
  {k \in Keys :
     /\ k.load = load /\ w \in Seen(k)
     /\ Cardinality(Earlier(k, w)) >= file["model"].hist
     /\ driver = "reproduce" => 10 * Cardinality(Later(k, w)) <= Cardinality(Seen(k)) - 1}

Bound(selection, load, w) ==
  {[key |-> r.key, cpu |-> r.cpu] : r \in {x \in selection : x.load = load /\ x.win = w}}

\* After a driver that did not fail, whatever failed before it and whichever
\* files that left behind, the exported plan is the decision of the scheduler
\* for the threads of every window of the present data, the table of pairs has
\* each of its rows in the slot of its CPU, and the final view is the last
\* window of each load type.
PlanFromData ==
  status = "ok" =>
    LET selection == file["selection"]
    IN /\ \A f \in {"model", "selection", "pairs", "final"} : Readable(f)
       /\ \A k \in Keys, w \in UNION {Seen(k) : k \in Keys} :
            Bound(selection, k.load, w) = Decide(Candidates(k.load, w))
       /\ \A p \in file["pairs"] :
            {p.slot0, p.slot1} # {NoKey}
       /\ \A r \in selection :
            \E p \in file["pairs"] :
              /\ p.load = r.load /\ p.win = r.win /\ p.core = r.cpu \div 2
              /\ r.key = IF r.cpu % 2 = 0 THEN p.slot0 ELSE p.slot1
       /\ \A r \in selection :
            r \in file["final"] <=> \A s \in selection : s.load = r.load => s.win <= r.win
=============================================================================
