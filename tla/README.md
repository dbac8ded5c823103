# TLA+ models of the eBPF / MAGM project

The repository collects per-CPU performance counters and thread switches with
eBPF, attributes the counters to threads, predicts each thread's next window,
decides which threads should share a physical core (MAGM) and puts the
decision into effect, with `sched_setaffinity` or with a `sched_ext`
scheduler. These modules model the parts of it where order, concurrency,
failure or a combinatorial decision matter, check them with TLC and prove every
safety invariant that is checked with TLAPS. Paths below are relative to the
repository.

## 1. Inventory

| Component | State it keeps | Operations | Interacts with |
|---|---|---|---|
| sched_switch collector, `Data/thread/` | 16 MiB BPF ring (`events`), reader positions, `exiting`, `sched.csv` | `on_switch` on each CPU (reserve, fill, submit), `ring_buffer__poll`, `handle_event`, signal, attach and destroy | kernel tracepoint and epoll; started and interrupted by the runners; `sched.csv` is read by the attribution |
| PMU sampler, `Data/cpu/data.c` | ten counters per CPU, `stop`, the stamp of the round, `cpu.csv` | open, reset/enable, sleep, disable, stamp, read and write, signal | `perf_event_open`; runners as above |
| PMU samplers by part, `Data/part_cpu/` | as above for one event group | as above | none in the pipeline |
| Scene runners, `scripts/run_{cpu,io,memory,mixed,prod_mixed}.py` | child processes, files of the run | clean up, start load and collectors, interrupt, wait with timeout, terminate, move files, attribute | both collectors through signals and files |
| Merge, alignment, normalisation, `merge_results.py`, `collect_and_align.py`, `prepare_df_norm_all.py` | none | table transformation | CSV files |
| Thread windows, `build_thread_windows.py` | none | windows per thread (`--window-ms`, 100 ms by default), features normalised over all of them | CSV files |
| Predictor, `train_thread_predictor.py`, `predict_thread_windows.py` | model, predictions | histories, split, training, prediction | CSV and model files |
| Offline MAGM scheduler, `offline_magm_scheduler.py` | per window: sorted rows, edges, `core_idx`, `used_threads`, `decisions` | `schedule_window`: CE or SP | reads predictions, writes `magm_schedule.csv` |
| Plan export, `export_cpu_selection.py` | none | sort and summarise every window | writes `final_cpu_selection.csv` for both executors |
| Affinity executor, `apply_cpu_affinity.py` | selected rows, report, the affinity of live threads | `choose_rows`, check of `/proc/<tid>/comm`, `sched_setaffinity` | live threads that exit, are renamed, reuse TIDs |
| Live validation, `run_live_affinity_validation.py` | workload process, snapshot of its threads | start, snapshot, bind, wait, interrupt, terminate, kill | live threads |
| sched_ext prototype, `sched_ext/` | maps `target_cpu_by_tid` and `stats`, link, `exiting` | load the plan, attach, wait, detach; `magm_select_cpu`, `magm_enqueue` | the kernel calls the BPF side on every CPU while the loader runs |
| Pipeline drivers, `reproduce_ch4_ch5.sh`, `demo_for_teachers.sh` | which script is next, every file of the pipeline | run the scripts in order under `set -e` | all scripts above through their files |
| Monitors, analysis, presentation | files | statistics, plots, tables | - |
| Vendored `src/lib` (libbpf, bpftool), `vmlinux.h` | - | only `ringbuf.c` matters here | the collector |

What is hard in it:

* **Concurrency.** Every CPU produces into one ring while the reader consumes
  it; the kernel calls the BPF scheduler on all CPUs while the loader writes
  the same maps; threads come and go while the affinity executor looks at them;
  the runner, two collectors and the machine run side by side, and collectors
  of a dead run go on beside those of the next.
* **Loss and failure.** A full ring drops silently, a CSV that does not open
  loses a row, a counter read fails in the middle of a round, the skeleton does
  not load, a collector does not stop in time, a signal arrives before its
  handler, a runner dies between two files, a script of the pipeline fails while
  it writes, a workload ignores its signals.
* **Order.** Records by reservation or by time stamp, rows of a plan by window,
  the sort before a greedy pass, which collector stops first.
* **Limits.** No cores, as many threads as cores, a full BPF map, a CPU the
  host has not, the limit of one poll.

What makes each component correct:

* collector: no torn record, per-CPU order, nothing reserved stays unread,
  Ctrl+C ends it;
* sampler and attribution: a row counts one round only; it is given to the
  thread that ran, as far as the switches are recorded; the run ends;
* schedule: no CPU or thread twice, pairs on siblings, stable and good pairs;
* sched_ext: hints follow the plan, no statistic lost, detach on Ctrl+C, no
  starvation;
* affinity: an undisturbed thread ends as planned, no CPU gets two threads;
* live validation: the threads that were there are bound in turn, nobody else's
  are, the workload does not outlive the script;
* files of the runs: an attribution has the rows of its own run, and all of them;
* pipeline: histories are of the past, the scale of the features is that of the present
  data, and a plan belongs to the data it is said to be made from, whatever failed before.

`PROJECT.json` lists every component with its status, and every hazard at its
line with the properties that cover it or the reason why none does yet.

## 2. Plan

Written, in this order (the decision first, then what carries it out, then what
feeds it):

1. `SmtPlacement` (abstract), `MagmSchedule`, `MagmScore`, `MagmDecision` (the two
   together), `MagmScheduleProofs`.
2. `MagmScx`.
3. `SwitchRing`, then `SwitchLog` (abstract) and `SwitchTrace`, which extends
   `SwitchRing` with the contents of the records.
4. `AffinityApply`.
5. `SceneRun`, which composes runner, sampler, attribution and the switch
   collector (the latter as `SwitchLog` describes it).

6. `SceneFiles`, the files of several runs and `merge_results.py`.
7. `LiveAffinity`.
8. `OfflinePipeline`, from the merged data to the exported plan, which composes the
   scripts in between and the two drivers; it takes `schedule_window` as an operator
   with what `MagmScheduleProofs` proves of it as the assumption.
9. Proofs: `SwitchProofs`, `MagmScxProofs`, `AffinityApplyProofs`, `SceneRunProofs`,
   `SceneFilesProofs`, `LiveAffinityProofs`, `OfflinePipelineProofs` (section 6).

The plan is carried out. No module that is proved about declares a RECURSIVE operator.

## 3. Modules and code

### MagmSchedule, MagmScore, MagmDecision, SmtPlacement - `scripts/offline_magm_scheduler.py`

One behaviour is one call of `schedule_window`. Arguments and window are chosen
in `Init`; `Sort` is lines 94-102, `BindAlone` a turn of the CE loop, `CollectEdges`
the two nested loops with the sort, `BindPair` and `SkipPair` a turn of the greedy
loop, `ReturnCE` and `ReturnSP` the returns. `decisions` is the list of the code as
a set, `coreIdx` and `used` are `core_idx` and `used_threads` (in mode CE `coreIdx`
is the variable of the loop). The sorted list of edges is kept as the set of those
not yet walked, with `IsBest` as the next one in the order of the stable descending
sort. `sort_values` is not stable: rows of equal intensity come in any order. The
scoring rules are constants of `MagmSchedule`; `MagmScore` has those of the code in
integers: features in tenths, scores in twentieths, intensities in two-hundredths,
all exact, and its sum over the seven features written out. `MagmDecision` puts the two
together: `CodeRules` says that the rules are those of the code, and the property that
is about the rules and the decision stands there.

`SmtPlacement` is what any rule must keep to: threads are put alone on the first
slot, or in pairs on both, of cores that are still idle, until the decision is
handed over.

### MagmScx - `sched_ext/magm_scx.c`, `magm_scx.bpf.c`

Loader actions follow `main`, `load_plan_csv` (a row per turn) and `bump_configured`
(its read and its write are two steps). `SelectCpu` and `Enqueue` are the two
callbacks for one wakeup; `Run`, `Expire`, `Block`, the dispatching in `Attach` and
the ejection in `SelectCpu` are the kernel's side, external to the repository.
`Signal` kills the process before `Arm` and sets the flag afterwards. `MCMagmScx`
gives it plans in the shape and order in which the export writes them. `Accepted` says of a
line whether it can enter the map, from the plan and the capacity alone.

### SwitchRing, SwitchTrace, SwitchLog - `Data/thread/`, libbpf `ringbuf.c`

`ring` is what lies between consumer and producer position, counted in records.
Reserve, Fill, Submit and Notify are four steps of `on_switch`; Notify wakes the
reader if the record is at the consumer position. The reader is `ringbuf_process_ring`
step by step, with `epoll_wait` level-triggered. `SwitchRing` counts nothing and is
finite without any bound on switches; `SwitchTrace` adds histories. `count` stops at
`Batch`, which is all its comparison needs. `SwitchLog` promises that the switches of
a CPU enter in order, some not at all, and are read out once each, from the beginning.

### AffinityApply - `scripts/apply_cpu_affinity.py`

`ChooseRows` is `choose_rows`, one row of the loop is one or three steps: opening
`comm`, reading it, binding. Between them threads exit, are born with a free TID and
are renamed (external actions). `CommGone` is the ESRCH of reading a file under
`/proc` whose thread has gone, which `proc_comm` does not catch: the script ends with
a traceback and no report. `--include-kernel` changes nothing, since `/proc/0` does
not exist, and is left out.

### SceneRun - `scripts/run_cpu.py`, `run_mixed.py`, `Data/cpu/data.c`

`script` chooses which of the two ways of stopping is taken: `run_cpu.py` interrupts
both collectors and then waits; `run_mixed.py`, like the others, stops one and then
the other. A wait either sees the end of the process or terminates it. The sampler
enables, disables and reads CPU by CPU. The counters of a CPU are one counter, whose
value is the set of threads that ran while it was enabled. The switch collector is as
in `SwitchLog`, with a ring that drops when full and is lost when the collector leaves.

### SceneFiles - `scripts/run_mixed.py` and its kin, `merge_results.py`, both collectors

`SceneRun` looks into one run, `SceneFiles` at what several leave in the directory they
share. The runner removes `cpu.csv` and `sched.csv`, starts the collectors, stops them
(`Stopped`: the signal shows as the collector's end, or the timeout terminates it), moves
both files, attributes; it may die at every step (`Dies`), also by a `FileNotFoundError` of
`os.replace`, and then its collectors go on in their own sessions. `run_cpu.py` interrupts
both before it waits, which is among the orders here, as a collector may end at any time.
A collector opens its file by name for every record or round: `WriteRow` appends to whatever
is there by now, without a header if nothing is. `CheckSched` and `CreateSched` are the
`fopen` "r" and "w" of `data_thread.c`, two steps; `CreateCpu` truncates. A row is who wrote
it, during which run, and a number; opening and writing are one step, since a file moved or
removed in between takes the row out of the reach of the next run. `Merge` may happen after
any run. `attr.csv` is written at once.

### LiveAffinity - `scripts/run_live_affinity_validation.py`

`Walk`, `ReadStat` and `ListTasks` are the three passes over `/proc`, one PID per step in
ascending order; `Bind` and `ReadBack` are `sched_setaffinity` and the second
`sched_getaffinity` of one turn of the loop, `BindExited` and `BindFails` its handlers.
`PlannedCpus` are the CPUs the plan names, in the order by core and slot, which is `Ascending`. The end follows
`proc.wait` and `terminate_process_group` with its polls, timeouts and `except Exception`;
`Look` is any of these calls that may find the child dead. `WriteReport` may raise, Ctrl+C
may come at any time, and both leave the workload behind. `Fork` makes a thread or a process
with a free TID and the affinity of its parent, `ExitThread` and `ExitProcess` end them
(external); the first process remains as a zombie until it is waited for. Two histories carry
the property: `kind` says of every thread whether it was there before the listing began, and
`strangers` whether a process of somebody else was born meanwhile.

### OfflinePipeline - `scripts/build_thread_windows.py` to `export_cpu_selection.py`, both drivers

A script is two kinds of steps: one that reads its inputs and computes (`Build`, `Train`,
`Predict`, `ScheduleWindows`, `Export`), putting what it will write into `pending`, and
`Write`, one file at a time. `file` has the files that are there and complete. `Fail` may take
the place of each step; of a file that was being written it leaves the old one (not yet
opened) or a torn one, which counts as not there. `pd.read_csv` would take a torn file for a
shorter one, but no script meets one: `set -e` ends the driver that tore it, and the next
driver writes it again before any of its scripts reads it. Sorting the windows of a thread is counting those before each (`Position`), and a
slice of the sorted list is the windows whose places lie in a range (`History`). `Normalized` keeps of
`minmax_clip_normalize` what its result depends on: the clip limits of every feature are
quantiles over all windows of the file, so that a row of `thread_windows_norm.csv` carries the
set of these as its `scale`, and `build_sequences` hands it on. A prediction is kept as its
target window, its history and its scale, a model as `hist_len` and the samples it was trained
on. The order of the
decisions in the files carries no information and is left out (they are sets), `pos` and
`len` are `seq_pos` and `seq_len`, and the split at 0.9 is compared in integers. `Demo`
stands for `LIVE_COLLECT=1`, the collection and the merge being new data.

## 4. Runs

Times are for two workers.

| Run | What it asks | Bounds | States |
|---|---|---|---|
| `magm_schedule` | is the decision well-formed, stable and good | 4 threads, 5 profiles, 0-2 cores, top_k 2 or 4 | 71 k, 15 s |
| `magm_scx` | do maps, statistics, hints and tasks stay consistent | 3 tasks, 2 CPUs, 7 plans, map of 3, 3 wakeups | 80 k, 35 s |
| `scx_placement_used` (violated) | does a task run on the CPU `select_cpu` answered | same | - |
| `switch_ring` | torn records, lost wakeups, Ctrl+C | 3 CPUs, ring of 2, batch of 3, any number of switches | 31 k, 6 s |
| `switch_trace` | order and completeness of `sched.csv` | 2 CPUs, 2 switches each, ring of 2, batch of 2 | 273 k, 20 s |
| `affinity_apply` | who ends up bound where | 2 TIDs, 2 names, 2 CPUs, plans of at most 3 rows, all options, 2 changes of threads | 1.7 M, 25 s |
| `affinity_reuse` (violated) | can a reused TID be bound under the check | same | - |
| `scene_run` | attribution and end of a run | 2 CPUs, 2 threads, ring of 1, 2 switches, 2 rounds | 1.7 M, 75 s |
| `scene_files` | do files of different runs mix | 2 scenes, 2 runs, 2 rows per collector | 1.3 M, 40 s |
| `live_affinity` | who is bound, and does the workload end | 4 TIDs, the workload, another process, 2 births, 2 CPUs | 291 k, 25 s |
| `offline_pipeline` | what is a prediction made from, is a plan ever stale | 5 threads of 2 load types, 12 data sets, histories of 1 or 2, 2 runs of a driver | 99 k, 25 s |
| `scene_exact` (violated) | is the attribution exact when nothing is dropped | `run_mixed.py` only, 1 CPU, ring of 3, 3 switches, 1 round | - |

Why the bounds are enough. Four threads on at most two cores reach every combination
of modes and of ways the greedy loop ends: no edge left, no core left, a skipped edge
before a bound one; a violated matching needs two edges that share a thread, hence
three threads, and a fourth makes a second pair. The plans of
`magm_scx` contain a thread that moves, one that moves onto another's CPU, a dead TID, TID 0,
an absent CPU and a cut line. One fills the map of three entries with all the live tasks,
so that no wakeup may be a fallback; one has no live task, so that none may be selected; and
in one the fourth TID is that of a live task and finds the map full. A ring of two has a head, a record behind
it and a full state; the third CPU meets the full ring while both slots are still being
filled. In `affinity_apply` two changes are one reuse of a TID.
Names have at most 15 bytes, as the recorder writes them, and `[:15]` leaves them as they are. In `scene_run` a ring of
one drops the second switch, and two rounds show what the first leaves in the counters.
In `scene_files` two runs are one that leaves something behind and one that meets it, of the
same scene or of another; with two rows a collector writes before and after any step of the
runner. In `live_affinity` two births are a child during the listing and a grandchild or a
stranger that takes its TID; the workload lies between the other process and the free TIDs,
so that births fall before and behind the pass; three births (2.4 million states) were
checked as well and show nothing else. In `offline_pipeline` a thread has up to four windows in which it counted anything, with
gaps; with four of them a history of one or of two leaves samples on both sides of the split,
so that a model is trained with either. In one window up to three threads of a load type are
predicted together after a training and up to four by a demo, two of which may be one task
before and after a change of name: a pair on the two slots of the core, a thread alone and
threads left over all occur. The second driver run meets every set of files a failed first one
can leave, and data that have changed. One CPU suffices for
`scene_exact`, whose ring holds every switch.

Properties worth knowing:

* `HalfOfBest` - the greedy pairs score at least half of the best choice of disjoint
  pairs; an admissible pair has a natural score, so that a total is a number of points
  (`Points`). `StableMatching` - no two candidates would both rather be paired.
* `StatsConserved` - holds although `bump_configured` rewrites the whole element,
  only because `main` loads before it attaches; the mutant that swaps them breaks it. It
  counts both: the calls of `magm_select_cpu`, and the lines of the plan that were accepted.
* `HintFollowsPlan` - says what a wakeup is told and how it is counted: if every live task has
  an accepted line no call is a fallback, if none has no call is counted as selected.
* `SignalStops` - rests on the limit of a single poll (`Batch`), which is `INT_MAX` in
  libbpf: on a machine that switches faster than rows are written, Ctrl+C is honoured
  only after two billion records. The model shows that the collector ends, not soon.
* `HeadDelivered` - a submit that wakes nobody is safe, as the reader or an earlier
  record is always about to lead to it.
* `AttributedToRunning` - the attribution is right whenever the last switch before the
  stamp is in `sched.csv`; `scene_exact` shows that it may not be.
* `SharedTargetsSpanWindows` - the map the loader builds is no decision any more, but only
  since it merges windows: the plan of one window would give one task per CPU.
* `FreshRows`, `ExactRows` - hold although a runner removes the files without looking for
  collectors that are still alive: an orphan can spoil the next run's rows (`ExactRows` asks
  that there be none), but never bring rows from before it, and a `sched.csv` an orphan has
  begun has no header, so that the attribution fails rather than using it.
* `BoundUnlessLoose` - what may go unbound is exactly what was born during the listing (or
  stems from it), and the one way to touch somebody else's thread is a TID taken over between
  two passes: `/proc/<pid>/task` then lists another process, all of which is bound.
* `EndsWithWorkload` - "the workload" is the process that was started: SIGKILL goes to it
  alone, and children that ignored SIGINT and SIGTERM live on.
* `HistoryIsPast` - speaks of histories and targets, and of the one scale all features of the
  present data are on. That scale comes from all windows, the predicted one and later ones
  included, so that the features a model is trained on depend on the windows it is tested on
  (section 7). For a demo run the model may have been trained on the very windows it predicts,
  or on another scale: the property says nothing of it there, since the demo normalises new
  data by themselves and takes the old model.
* `PlanFromData` - needs `set -e`: its mutant, a driver that goes on, exports old plans.
* `RunEnds` - is asked with no fairness at all for the collectors: it rests on `terminate`.

## 5. Fairness

The loader and the runner are sequential processes that the system keeps running: weak
fairness of their steps. `on_switch` and the callbacks run to
their end with preemption disabled: weak fairness of what follows a reservation, and
of `Enqueue` after a choice. The kernel runs queued tasks when a CPU is idle and ends
slices: `Run` and `Expire`. The reader's poll has a timeout, so that it always goes on.
No fairness is given to switches, wakeups, signals, failures, nor to the collectors
in `SceneRun`. `LiveAffinity` has weak fairness of the script, all of whose waits have
timeouts, and none of the workload, which may ignore every signal it can. `MagmSchedule`,
`AffinityApply`, `SceneFiles` and `OfflinePipeline` have no liveness property and no fairness.

`CHECK_DEADLOCK FALSE` stands in every configuration: schedule, script, loader and runner
end, and the machine need not do anything more; runs are bounded.

## 6. Proofs

Eight modules hold the proofs, one per component. Every theorem is about `Spec` (or
`TraceSpec`), without fairness, for every value of the constants that the named
assumptions allow: any number of CPUs, threads, rows, rounds, runs and records. The
bounds of the runs (`MaxSwitches`, `MaxRuns`, `MaxBirths`, ...) remain as constants, of
which nothing is assumed but that they are numbers.

| Module | Inductive invariant | Theorems for properties of the runs | Others |
|---|---|---|---|
| `MagmScheduleProofs` | `Inv`, `EdgesOK` | `TypeCorrect`, `NeverDoubleBooked`, `PairsAreSiblings`, `MatchingIsStable`, `GreedyIsHalfOfBest`, `LightLoadIsSpread`, `TwinsAreKeptApart`, `ImplementsPlacement` | `EdgesInvariant` |
| `SwitchProofs` | `RingInv`, `TraceInv` | `RingTypeCorrect`, `NeverTorn`, `TraceTypeCorrect`, `RowsInOrder`, `CollectorKeepsLog` | `WakeupNotLost`, `TraceRefinesRing` |
| `MagmScxProofs` | `ScxInv` | `ScxTypeCorrect`, `NoCountLost`, `WakeupsFollowPlan`, `SharingSpansWindows`, `EjectedForAlienCpu` | |
| `AffinityApplyProofs` | `ApplyInv` | `ApplyTypeCorrect`, `ThreadsBoundAsPlanned`, `NoSharedCpu` | |
| `SceneRunProofs` | `SceneInv` | `SceneTypeCorrect`, `RowsCountTheirRound`, `SamplesToRunning` | |
| `SceneFilesProofs` | `FilesInv` | `FilesTypeCorrect`, `RowsAreFresh`, `RowsAreExact` | |
| `LiveAffinityProofs` | `LiveInv` | `LiveTypeCorrect`, `BoundIfThere` | |
| `OfflinePipelineProofs` | `PipelineInv` | `PipelineTypeCorrect`, `HistoriesFromPast`, `PlanIsFromData` | |

Each module is laid out alike: the parts of the invariant, lemmas about the operators of
the model, one lemma per action that it keeps the invariant, the theorem that joins them
(`Invariant`, `RingInvariant`, ...), and the properties as its consequences.

**The schedule.** That no CPU is handed out twice needs every CPU given so far to lie
below `core_idx` (`BelowOK`); that no thread is bound twice needs `used_threads` to be
exactly the bound threads, each with its partner on the other slot (`PairsOK`), and, in
mode CE, the decisions to be just row k on core k for the k below `core_idx` (`AloneOK`)
with the rows distinct (`OrderOK`). Stability needs both directions: every edge already
walked lost to a bound pair that is at least as good, and every bound pair is at least as
good as every edge still to come (`GreedyOK`). The refinement follows: `BindAlone` and
`BindPair` put threads on the core `core_idx`, which `BelowOK` says is idle.
`LightLoadIsSpread` adds that sorting leaves no row out, which is counting: as many
positions as rows, and no row twice. Assumed are finitely many threads, natural arguments
and an integer, symmetric score (`ThreadsAssumption`, `ArgumentsAssumption`,
`ScoreAssumption`; the code's score is symmetric since it uses the absolute difference
and the mean).

`GreedyIsHalfOfBest` is the classical bound for greedy matchings, for any scores, by
counting points. Give every bound thread the score of its pair. Level by level (`LevelByLevel`),
the pairs of another choice that reach a score map one to one to bound threads that do: to
the thread they lost to, which no other disjoint pair contains, or anyhow, if the cores ran
out, because then every bound thread reaches the score and there are at least as many of them
as the other choice has pairs (`BoundThreadsOutscore`). Every bound pair has been counted twice
then (`PairsCountTwice`). The invariant needs a second layer for that, `EdgesOK`: two decisions
for every core handed out, each from a candidate edge. `TwinsAreKeptApart` rests on it as
well: a bound pair has a score of at least zero, and two equal profiles with a load above
theta score below it (`TwinsScoreNegative`), since every weight of `SUM_WEIGHTS` is positive. Its
assumption is `CodeRules`, under which `ScoreAssumption` holds too (`RulesMeetAssumption`).

**The ring.** That the reader passes over no record still being filled, and that each CPU
knows which record of the ring is its own, need each other: slots move with the head only
because the head that is released was submitted. `WakeupNotLost` is the safety part of
`HeadDelivered`: a ring that is not empty has been announced to the reader, or the CPU
whose record is at its head is still inside `on_switch`. `SwitchTrace` without
its histories is `SwitchRing` (`TraceRefinesRing`), so that `RingInv` serves both.
`TraceInv` adds that a record without a time stamp is that of a CPU between reservation
and stamp (`FillingOK`), that the records of a CPU are in order in the log (`LogOrder`),
and that what has been handed out is older than what has not (`RowsOK`).
`CollectorKeepsLog` maps `SwitchReserved` to `Accept`, `RowWritten` and `RowLost` to
`ReadOut`, and everything else to a stutter of `SwitchLog`.

**The sched_ext prototype.** All but the placement of tasks rests on `StagesOK`: the
loader is through with map and counters before the kernel first calls the BPF side. What
the map holds comes from a usable line (`OriginOK`), the last of its TID (`LatestOK`), and
every line that could enter it did (`LoadedOK`), overfull or not. `Accepted` decides from the
plan alone which lines these are, the code from the map it has so far: that both agree
(`RoomIffAccepted`) needs that no TID entered by another line and that a map that is not full
has refused none (`AdmittedOK`). So the entries made are the lines counted (`ConfiguredOK`).
What was counted as a fallback or as selected is explained by a task without or with an entry
(`ToldOK`). `SharingSpansWindows`
uses `WindowsBookOnce`: the lines of one window are one decision, which books no CPU twice
(`NeverDoubleBooked`).

**The affinity executor.** `BoundAsPlanned` speaks of the end; `BoundSoFar` says the same
of the rows passed, and `MatchedOK` carries the comparison of the names over to the
binding, some system calls later. `NoSharedCpu` needs that whoever is not as born was
bound by a passed row (`BoundByRow`) and that with one load type all rows are of one
window. `AffinityApplyAssumption` says what a plan is: finitely many rows, and in one
window of one load type no CPU twice.

**Collection.** In `SceneRun` the past does not change (what a CPU ran at a moment gone by
stays what it ran), and a counter holds the threads of its CPU from the moment it was
enabled to now, or to when it was disabled (`CountedOK`); rows inherit this (`RowsOK`), and
rows of `sched.csv` are switches that took place (`CollectorOK`). In `SceneFiles` the
removal of both files before the collectors start is what `FreshFiles` and `OwnFiles`
carry along until the files have been moved and attributed.

**The live validation.** A thread that was there is found because its process is there as
long as any of its threads, so that each of the three passes meets it (`EarlyListed`);
somebody else's thread is spared because the group is looked up and no TID has changed
hands since (`StrangersOK`). Both rest on how threads belong to processes, which forks and
exits keep (`ThreadsOK`).

**The pipeline.** A file in the directory may be left from any earlier run, whose data were
others, so that the invariant cannot speak of files by name. It speaks of the present
driver: a file of a script that has begun has the content that script computes from the
present data, in the directory or among what is still to be written (`Has`, `ProgressOK`), and
keeps it since no later script writes it again. What remains is about sets of windows. The
places in the sorted list of a thread are exactly the numbers below its length
(`PositionOnto`, counted with `FiniteSetTheorems`), so that the slice before a window has
`hist_len` windows and all others before it are older (`HistoryIsLast`), and the windows
behind the split at 0.9 are those with at most a tenth of the others after them
(`SplitIsLastTenth`). `HistoriesFromPast` says no more than that of the histories; the scale of
every feature is that of all the windows of the present data, by the same `ProgressOK`. `PlanIsFromData` adds that a group of the schedule is decided once
(`ScheduleOnce`), so that a core has at most one row in each slot (`PairsAreRows`). Assumed of
`schedule_window` are threads of the window, no thread and no CPU twice (`DecideAssumption`),
which is what `TypeCorrect` and `NeverDoubleBooked` prove.

What the proofs changed in the models:

* `KindOfChild` and `BoundUnlessLoose` of `LiveAffinity` were CASE expressions whose guards
  overlapped, so that their meaning was left to a choice TLA+ does not fix. They are an IF
  and a conjunction of implications now; the run's result is the same.
* Sorting is stated as the set of the sequences that are sorted (`Sorted` in
  `AffinityApply`, `Ascending` in `LiveAffinity`, `IsSorted` in `MagmSchedule`) and not
  with an operator of the community modules, which recur over the set. For the sort by a
  key that is no total order this is also the more faithful form.
* `OfflinePipeline` sorted with a community operator and sliced the sequence; a history is now
  the windows whose places lie in a range. Its `file` had markers for absent and torn files
  and is now a function on the files that are there and complete.
* The sum in `ComplementarityScore` was a fold, which the provers cannot unfold, and the total
  of `HalfOfBest` another, of any length; they are written out and counted in points.
* `RingTypeOK` of `SwitchRing` was split into named parts, which the invariant uses.

Only model-checked, and why: the liveness properties (`SignalDetaches`, `QueuedRuns`,
 `SignalStops`, `HeadDelivered`, `AllHandedOut`, `RunEnds`, `EndsWithWorkload`),
since fairness and ENABLED are out of the prover's reach. Their safety parts that matter,
`WakeupNotLost` before all, are proved.

## 7. Disagreements met

Three runs are expected to be violated; each states what a document or a comment says:

1. `PlacementUsed`: the comment of `magm_enqueue` (`sched_ext/magm_scx.bpf.c:102-103`)
   expects the CPU chosen by `select_cpu` to be used; the global queue ignores it.
2. `NoReusedTidBound`: `README.md:303` says the check avoids wrong bindings through
   reuse of PIDs; `comm` alone cannot tell.
3. `ExactAttribution`: the design document promises exact attribution; `run_mixed.py:75` waits
   for the switch collector to exit before it stops the sampler. The run has only that order
   of stopping, and asks it only where no switch was lost while the collector was attached:
   the trace has a switch after the collector has gone and a sample stamped after that switch.

Three more are held down by passing runs. `train_thread_predictor.py:173` says that the split
by time keeps information of future windows from leaking. It does so for the histories, but
`build_thread_windows.py:143` has normalised all windows by quantiles over all of them before
the split: `HistoryIsPast` says that the samples a model is trained on are on the scale of the
whole data, the windows it is tested on included. `README.md:325` says that the `sched_ext` prototype
executes the decisions already made; the loader merges those of all windows
(`SharedTargetsSpanWindows` says exactly when two tasks get one CPU). `README.md:302` says
that the live validation binds the currently running threads; those born while it lists
them are not bound (`BoundUnlessLoose`).

## 8. Not modelled

* Numerical work: the values of features, quantiles, training, statistics, plots and tables
  (which windows a normalised feature depends on is modelled).
* Vendored libbpf and bpftool other than the ring buffer reader; the verifier.
* The part samplers and the monitors, which the pipeline does not run; the parts of the
  drivers that only print, dispatch (`run_magm_scheduler.py`) or probe (`check_sched_ext.py`).
* Wrapping of the `u32` statistics and of the ring's positions; real time: timeouts are
  choices, and a clock is a counter of events.
* The load processes of a run; `sudo` between a runner and its collectors (a signal it does
  not pass on is a collector that does not stop).
* The sampler event by event and a CPU mask with gaps: the rows then mean something else,
  but no part of the code promises otherwise.
* Scripts of the pipeline started by hand in another order; a `full_dataset.csv` that was
  torn by a failed merge and is used afterwards.
