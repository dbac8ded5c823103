----------------------------- MODULE SceneFiles -----------------------------
(***************************************************************************)
(* The files of the collection runs: several runs of scripts/run_mixed.py  *)
(* and its kin one after the other, each with its two collectors, and      *)
(* merge_results.py.  All runs share one directory (SCRIPT_DIR), and a     *)
(* runner that dies leaves its collectors behind: they have sessions of    *)
(* their own and go on writing there.                                      *)
(*                                                                         *)
(* A collector opens its file anew for every record or round, so that a    *)
(* file is the set of its rows.  A row says whose collector wrote it and   *)
(* during which run.                                                       *)
(***************************************************************************)
EXTENDS Integers, Sequences, FiniteSets

CONSTANTS
  Scenes,       \* the load types
  Absent,       \* no such file
  MaxRuns,      \* bound: runs
  MaxRows       \* bound: rows one collector writes

Kinds == {"cpu", "sched"}
Runs == 1 .. MaxRuns

ASSUME SceneFilesAssumption ==
  /\ {MaxRuns, MaxRows} \subseteq Nat \ {0}
  /\ Absent \notin [header : BOOLEAN, rows : SUBSET [by : Runs, during : Runs, n : Nat]]

VARIABLES
  pc,           \* where the runner is
  scenes,       \* history: the scene of every run so far
  here,         \* cpu.csv and sched.csv of SCRIPT_DIR
  saved,        \* those of stress-results/<scene>
  attr,         \* attr.csv of each scene, with the run it is from
  full,         \* full_dataset.csv: rows with their LoadType
  collector,    \* the collectors of every run
  written,      \* history: every row written
  alone         \* history: no collector of an earlier run was left when this one began

runner == <<pc, scenes, alone>>
vars == <<pc, scenes, here, saved, attr, full, collector, written, alone>>

Run == Len(scenes)
Scene == scenes[Run]

Init ==
  /\ pc = "done" /\ scenes = <<>> /\ alone = TRUE
  /\ here = [k \in Kinds |-> Absent]
  /\ saved = [s \in Scenes |-> here]
  /\ attr = [s \in Scenes |-> Absent]
  /\ full = {}
  /\ collector = [r \in Runs |-> [k \in Kinds |-> "off"]]
  /\ written = [k \in Kinds |-> {}]

-----------------------------------------------------------------------------
(* The collectors. *)

Becomes(r, k, state) == collector' = [collector EXCEPT ![r][k] = state]

Fresh == [header |-> TRUE, rows |-> {}]

\* main of data_thread.c: a file that is there keeps what it has ...
CheckSched(r) ==
  /\ collector[r]["sched"] = "start"
  /\ Becomes(r, "sched", IF here["sched"] = Absent THEN "create" ELSE "on")
  /\ UNCHANGED <<runner, here, saved, attr, full, written>>

\* ... and one that was not there when it looked begins with the header.
CreateSched(r) ==
  /\ collector[r]["sched"] = "create"
  /\ here' = [here EXCEPT !["sched"] = Fresh]
  /\ Becomes(r, "sched", "on")
  /\ UNCHANGED <<runner, saved, attr, full, written>>

\* main of data.c: fopen(..., "w").
CreateCpu(r) ==
  /\ collector[r]["cpu"] = "start"
  /\ here' = [here EXCEPT !["cpu"] = Fresh]
  /\ Becomes(r, "cpu", "on")
  /\ UNCHANGED <<runner, saved, attr, full, written>>

WrittenBy(r, k) == {w \in written[k] : w.by = r}

\* fopen(..., "a"): without the file, a new one that has no header.
Appended(f, row) ==
  IF f = Absent THEN [header |-> FALSE, rows |-> {row}] ELSE [f EXCEPT !.rows = @ \cup {row}]

WriteRow(r, k) ==
  LET row == [by |-> r, during |-> Run, n |-> Cardinality(WrittenBy(r, k)) + 1]
  IN /\ collector[r][k] = "on"
     /\ row.n <= MaxRows
     /\ here' = [here EXCEPT ![k] = Appended(@, row)]
     /\ written' = [written EXCEPT ![k] = @ \cup {row}]
     /\ UNCHANGED <<runner, saved, attr, full, collector>>

Alive == {"start", "create", "on"}

\* It fails to come up, has seen the signal, or dies.
Ends(r, k) ==
  /\ collector[r][k] \in Alive
  /\ Becomes(r, k, "gone")
  /\ UNCHANGED <<runner, here, saved, attr, full, written>>

-----------------------------------------------------------------------------
(* The runner. *)

Goto(label) ==
  /\ pc' = label
  /\ UNCHANGED <<scenes, alone, full, written>>

\* A scene is collected, for the first time or again.
StartRun(s) ==
  /\ pc \in {"done", "dead"}
  /\ Run < MaxRuns
  /\ scenes' = Append(scenes, s)
  /\ alone' = (\A r \in Runs, k \in Kinds : collector[r][k] \notin Alive)
  /\ pc' = "cleanCpu"
  /\ UNCHANGED <<here, saved, attr, full, collector, written>>

\* Mutant of Unlinked: the file is left for the collectors to go on with.
NotUnlinked(f) == f

Unlinked(f) == Absent

CleanCpu ==
  /\ pc = "cleanCpu"
  /\ here' = [here EXCEPT !["cpu"] = Unlinked(@)]
  /\ Goto("cleanSched")
  /\ UNCHANGED <<saved, attr, collector>>

CleanSched ==
  /\ pc = "cleanSched"
  /\ here' = [here EXCEPT !["sched"] = Unlinked(@)]
  /\ Goto("startSched")
  /\ UNCHANGED <<saved, attr, collector>>

\* After the load has been started and warmed up.
StartSched ==
  /\ pc = "startSched"
  /\ Becomes(Run, "sched", "start")
  /\ Goto("startCpu")
  /\ UNCHANGED <<here, saved, attr>>

StartCpu ==
  /\ pc = "startCpu"
  /\ Becomes(Run, "cpu", "start")
  /\ Goto("stopSched")
  /\ UNCHANGED <<here, saved, attr>>

\* Mutant of Stopped: the runner goes on without waiting.
NotStopped(state) == state

\* SIGINT and a wait: the collector has ended in the meantime, as it may at any
\* time, or it is terminated after the timeout.
Stopped(state) == "gone"

StopSched ==
  /\ pc = "stopSched"
  /\ Becomes(Run, "sched", Stopped(collector[Run]["sched"]))
  /\ Goto("stopCpu")
  /\ UNCHANGED <<here, saved, attr>>

StopCpu ==
  /\ pc = "stopCpu"
  /\ Becomes(Run, "cpu", Stopped(collector[Run]["cpu"]))
  /\ Goto("moveCpu")
  /\ UNCHANGED <<here, saved, attr>>

\* Mutant of CanMove: a file that is not there is passed over.
CanMoveAnything(k) == TRUE

\* os.replace raises FileNotFoundError.
CanMove(k) == here[k] # Absent

Move(k, next) ==
  /\ CanMove(k)
  /\ IF here[k] = Absent THEN saved' = saved ELSE saved' = [saved EXCEPT ![Scene][k] = here[k]]
  /\ here' = [here EXCEPT ![k] = Absent]
  /\ Goto(next)
  /\ UNCHANGED <<attr, collector>>

MoveCpu == pc = "moveCpu" /\ Move("cpu", "moveSched")

MoveSched == pc = "moveSched" /\ Move("sched", "attribute")

\* Without a header the columns are not found; without a sample the assignment
\* of thread and pid fails.
CanAttribute ==
  /\ \A k \in Kinds : saved[Scene][k] # Absent /\ saved[Scene][k].header
  /\ saved[Scene]["cpu"].rows # {}

Attribute ==
  /\ pc = "attribute"
  /\ CanAttribute
  /\ attr' = [attr EXCEPT ![Scene] =
                [run |-> Run, cpu |-> saved[Scene]["cpu"].rows, sched |-> saved[Scene]["sched"].rows]]
  /\ Goto("done")
  /\ UNCHANGED <<here, saved, collector>>

\* An exception, Ctrl+C or a kill, at any time.
Dies ==
  /\ pc \notin {"done", "dead"}
  /\ Goto("dead")
  /\ UNCHANGED <<here, saved, attr, collector>>

\* merge_results.py, of all scenes or those MERGE_SCENES names; a scene without
\* attr.csv is skipped, and with none at all nothing is written.
Merge(requested) ==
  /\ pc \in {"done", "dead"}
  /\ \E s \in requested : attr[s] # Absent
  /\ full' = UNION {{[load |-> s, row |-> w] : w \in attr[s].cpu} :
                      s \in {x \in requested : attr[x] # Absent}}
  /\ UNCHANGED <<runner, here, saved, attr, collector, written>>

-----------------------------------------------------------------------------
Collectors ==
  \E r \in Runs :
    \/ CheckSched(r) \/ CreateSched(r) \/ CreateCpu(r)
    \/ \E k \in Kinds : WriteRow(r, k) \/ Ends(r, k)

Runner ==
  \/ \E s \in Scenes : StartRun(s)
  \/ CleanCpu \/ CleanSched \/ StartSched \/ StartCpu \/ StopSched \/ StopCpu
  \/ MoveCpu \/ MoveSched \/ Attribute \/ Dies

Next == Collectors \/ Runner \/ \E requested \in SUBSET Scenes : Merge(requested)

Spec == Init /\ [][Next]_vars

-----------------------------------------------------------------------------
Row == [by : Runs, during : Runs, n : 1 .. MaxRows]
File == [header : BOOLEAN, rows : SUBSET Row] \cup {Absent}

\* Every variable keeps to its type; collectors belong to runs that began, none
\* of this run is left when its files are moved, and a file without a header
\* has a row, the one it was created for.
FilesTypeOK ==
  /\ scenes \in Seq(Scenes) /\ Run <= MaxRuns
  /\ here \in [Kinds -> File]
  /\ saved \in [Scenes -> [Kinds -> File]]
  /\ attr \in [Scenes -> [run : Runs, cpu : SUBSET Row, sched : SUBSET Row] \cup {Absent}]
  /\ full \subseteq [load : Scenes, row : Row]
  /\ collector \in [Runs -> [Kinds -> Alive \cup {"off", "gone"}]]
  /\ written \in [Kinds -> SUBSET Row]
  /\ \A r \in Runs, k \in Kinds : collector[r][k] \in Alive => r <= Run
  /\ pc \in {"moveCpu", "moveSched", "attribute"} =>
       \A k \in Kinds : collector[Run][k] = "gone"
  /\ \A k \in Kinds : here[k] # Absent /\ ~ here[k].header => here[k].rows # {}

\* attr.csv has only samples and switches written while its run was on: neither
\* the leftovers of a run that died nor what its collectors wrote before, be
\* they still alive, nor files of an earlier run beside one that was moved; and
\* full_dataset.csv labels every row with the scene of that run.
FreshRows ==
  /\ \A s \in Scenes : attr[s] # Absent =>
       \A w \in attr[s].cpu \cup attr[s].sched : w.during = attr[s].run
  /\ \A x \in full : scenes[x.row.during] = x.load

\* A run that comes to its end and began with no collector of an earlier run
\* alive has attributed exactly what its own collectors wrote, by exactly the
\* switches its own collector wrote, whatever became of the runs before it.
ExactRows ==
  pc = "done" /\ scenes # <<>> /\ alone =>
    attr[Scene] = [run |-> Run, cpu |-> WrittenBy(Run, "cpu"), sched |-> WrittenBy(Run, "sched")]
=============================================================================
