--------------------------- MODULE AffinityApply ---------------------------
(***************************************************************************)
(* scripts/apply_cpu_affinity.py: bind the live threads that a plan names  *)
(* to the CPUs it gives them, with sched_setaffinity.                      *)
(*                                                                         *)
(* The script walks the rows of final_cpu_selection.csv that choose_rows   *)
(* leaves.  For each it looks at /proc/<tid>/comm and, a few system calls  *)
(* later, binds whatever thread has the TID by then: threads exit, their   *)
(* TIDs are given to new ones and names change at any time in between.     *)
(***************************************************************************)
EXTENDS Integers, Sequences, FiniteSets

CONSTANTS
  Tids,         \* the TIDs a thread may have; 0 and Unparsed are not among them
  Names,        \* what /proc/<tid>/comm may say
  Shown,        \* a name of the plan cut to 15 characters
  CpuCount,     \* os.cpu_count()
  Plans,        \* contents of final_cpu_selection.csv: sets of rows
  Options,      \* the command lines: [load, window, apply, strict]
  NotGiven,          \* --load-type is not given, --window-id is latest
  NoTask,
  MaxChanges    \* bound: exits, births and renamings while the script runs

Unparsed == -1      \* parse_thread_key finds no TID

CpuSet == 0 .. CpuCount - 1

ASSUME AffinityApplyAssumption ==
  /\ Tids \subseteq Nat \ {0}
  /\ CpuCount \in Nat \ {0}
  /\ MaxChanges \in Nat
  /\ \A p \in Plans :
       /\ IsFiniteSet(p)
       /\ \A r \in p : r.window \in Nat /\ r.tid \in Tids \cup {0, Unparsed}
       /\ \A r, s \in p : r.load = s.load /\ r.window = s.window /\ r.cpu = s.cpu => r = s

VARIABLES
  plan, opt,    \* the file and the command line
  rows,         \* the rows of the loop, in its order
  pos,          \* the row the loop is at
  pc,
  opened,       \* the birth of the thread whose comm is open
  report,       \* the statuses of report_rows
  task,         \* the thread of each TID: its birth, name and affinity
  changed       \* history: the TIDs whose threads have changed, one entry each time

vars == <<plan, opt, rows, pos, pc, opened, report, task, changed>>

\* A thread that has been there since the start has birth 0.
Task == [born : 0 .. MaxChanges, comm : Names, mask : SUBSET CpuSet]

Init ==
  /\ plan \in Plans
  /\ opt \in Options
  /\ task \in [Tids -> [born : {0}, comm : Names, mask : {CpuSet}] \cup {NoTask}]
  /\ rows = <<>>
  /\ pos = 1
  /\ pc = "choose"
  /\ opened = 0
  /\ report = <<>>
  /\ changed = <<>>

-----------------------------------------------------------------------------
(* choose_rows. *)

OfLoad == {r \in plan : opt.load = NotGiven \/ r.load = opt.load}

\* groupby("LoadType")["window_id"].transform("max").
Latest(r) == \A s \in OfLoad : s.load = r.load => s.window <= r.window

\* Mutant of Selected: every window of the file.
EveryWindow == OfLoad

Selected == {r \in OfLoad : IF opt.window = NotGiven THEN Latest(r) ELSE r.window = opt.window}

\* sort_values(["LoadType", "window_id", "target_cpu"]).
Before(r, s) ==
  \/ r.load < s.load
  \/ r.load = s.load /\ r.window < s.window
  \/ r.load = s.load /\ r.window = s.window /\ r.cpu < s.cpu

Sorted(S) ==
  {s \in [1 .. Cardinality(S) -> S] :
     \A i, j \in 1 .. Cardinality(S) : i < j => s[i] # s[j] /\ ~ Before(s[j], s[i])}

ChooseRows ==
  /\ pc = "choose"
  /\ rows' \in Sorted(Selected)
  /\ pc' = IF Selected = {} THEN "done" ELSE "row"
  /\ UNCHANGED <<plan, opt, pos, opened, report, task, changed>>

-----------------------------------------------------------------------------
(* The loop of main. *)

Row == rows[pos]

\* Report the row and go to the next one.
Report(status) ==
  /\ report' = Append(report, status)
  /\ pos' = pos + 1
  /\ pc' = IF pos < Len(rows) THEN "row" ELSE "done"
  /\ opened' = 0
  /\ UNCHANGED <<plan, opt, rows, changed>>

Goto(label) ==
  /\ pc' = label
  /\ UNCHANGED <<plan, opt, rows, pos, report, task, changed>>

\* Mutant of Unusable: the first CPU the machine has not passes.
UnusableOffByOne(r) == r.tid \in {Unparsed, 0} \/ r.cpu \notin 0 .. CpuCount

\* A row with no TID, with TID 0 (whose /proc/0 does not exist either, should
\* --include-kernel be given), with a CPU the machine has not.
Unusable(r) == r.tid \in {Unparsed, 0} \/ r.cpu \notin CpuSet

SkipRow ==
  /\ pc = "row"
  /\ Unusable(Row)
  /\ Report("skipped")
  /\ UNCHANGED task

\* proc_comm opens the file ...
OpenComm ==
  /\ pc = "row"
  /\ ~ Unusable(Row)
  /\ task[Row.tid] # NoTask
  /\ opened' = task[Row.tid].born
  /\ Goto("comm")

NotLive ==
  /\ pc = "row"
  /\ ~ Unusable(Row)
  /\ task[Row.tid] = NoTask
  /\ Report("skipped")
  /\ UNCHANGED task

\* ... and reads it: of a thread that is gone the read fails with ESRCH, a
\* ProcessLookupError that proc_comm does not catch.
StillOpen == task[Row.tid] # NoTask /\ task[Row.tid].born = opened

CommGone ==
  /\ pc = "comm"
  /\ ~ StillOpen
  /\ opened' = 0
  /\ Goto("aborted")

\* live_comm == recorded_comm[:15].
SameComm(live, recorded) == live = Shown[recorded]

\* Mutant of Accepted: the meaning of --no-strict-comm turned round.
AcceptedInverted(r) == ~ opt.strict => SameComm(task[r.tid].comm, r.comm)

Accepted(r) == opt.strict => SameComm(task[r.tid].comm, r.comm)

CommMatches ==
  /\ pc = "comm"
  /\ StillOpen /\ Accepted(Row)
  /\ opened' = 0
  /\ Goto("pin")

CommDiffers ==
  /\ pc = "comm"
  /\ StillOpen /\ ~ Accepted(Row)
  /\ Report("skipped")
  /\ UNCHANGED task

DryRun ==
  /\ pc = "pin"
  /\ ~ opt.apply
  /\ Report("dry-run")
  /\ UNCHANGED task

\* os.sched_setaffinity, and current_affinity, which only informs the report.
Pin ==
  /\ pc = "pin"
  /\ opt.apply
  /\ task[Row.tid] # NoTask
  /\ task' = [task EXCEPT ![Row.tid].mask = {Row.cpu}]
  /\ Report("applied")

TaskExited ==
  /\ pc = "pin"
  /\ opt.apply
  /\ task[Row.tid] = NoTask
  /\ Report("skipped")
  /\ UNCHANGED task

\* PermissionError, or another OSError.
PinFails ==
  /\ pc = "pin"
  /\ opt.apply
  /\ task[Row.tid] # NoTask
  /\ Report("failed")
  /\ UNCHANGED task

-----------------------------------------------------------------------------
(* The threads of the machine. *)

Change(t, new) ==
  /\ pc \notin {"done", "aborted"}
  /\ Len(changed) < MaxChanges
  /\ changed' = Append(changed, t)
  /\ task' = [task EXCEPT ![t] = new]
  /\ UNCHANGED <<plan, opt, rows, pos, pc, opened, report>>

Exit(t) == task[t] # NoTask /\ Change(t, NoTask)

\* The TID goes to a new thread.
Reuse(t, comm) ==
  /\ task[t] = NoTask
  /\ Change(t, [born |-> Len(changed) + 1, comm |-> comm, mask |-> CpuSet])

\* prctl(PR_SET_NAME).
Rename(t, comm) ==
  /\ task[t] # NoTask
  /\ comm # task[t].comm
  /\ Change(t, [task[t] EXCEPT !.comm = comm])

-----------------------------------------------------------------------------
Script ==
  \/ ChooseRows \/ SkipRow \/ OpenComm \/ NotLive \/ CommGone
  \/ CommMatches \/ CommDiffers \/ DryRun \/ Pin \/ TaskExited \/ PinFails

Threads == \E t \in Tids : Exit(t) \/ \E comm \in Names : Reuse(t, comm) \/ Rename(t, comm)

Next == Script \/ Threads

Spec == Init /\ [][Next]_vars

-----------------------------------------------------------------------------
\* Every variable keeps to its type, and the report has one status for every
\* row the loop has passed.
ApplyTypeOK ==
  /\ task \in [Tids -> Task \cup {NoTask}]
  /\ pc \in {"choose", "row", "comm", "pin", "done", "aborted"}
  /\ pos \in 1 .. Len(rows) + 1
  /\ pc \in {"row", "comm", "pin"} => pos <= Len(rows)
  /\ pc \in {"comm", "pin"} => Row.tid \in Tids /\ Row.cpu \in CpuSet
  /\ report \in Seq({"skipped", "dry-run", "applied", "failed"})
  /\ Len(report) = pos - 1
  /\ Len(changed) <= MaxChanges

Undisturbed == {t \in Tids : task[t] # NoTask /\ t \notin {changed[i] : i \in 1 .. Len(changed)}}

\* The rows that speak of the thread that has TID t, as far as the script can
\* tell, and whose binding was not refused.
RowsOf(t) ==
  {i \in 1 .. Len(rows) :
     /\ rows[i].tid = t
     /\ rows[i].cpu \in CpuSet
     /\ opt.strict => task[t].comm = Shown[rows[i].comm]
     /\ report[i] # "failed"}

\* When the script has ended, a thread that was there all the time and kept its
\* name is bound as the last row about it says, whatever became of the other
\* threads, and left alone if there is none or the run was dry
\* (apply_cpu_affinity.py:4-7).
BoundAsPlanned ==
  pc = "done" =>
    \A t \in Undisturbed :
      LET mine == RowsOf(t)
      IN task[t].mask =
           IF opt.apply /\ mine # {}
             THEN {rows[CHOOSE i \in mine : \A j \in mine : j <= i].cpu}
             ELSE CpuSet

\* With one load type given, whether the window is the latest or a numbered
\* one, no two threads are bound to one CPU: every row comes from one window of
\* the scheduler.  Without --load-type this is not so.
OneThreadPerCpu ==
  opt.load # NotGiven =>
    \A t, u \in Tids :
      (/\ t # u
       /\ task[t] # NoTask /\ task[u] # NoTask
       /\ task[t].mask # CpuSet /\ task[u].mask # CpuSet)
      => task[t].mask \cap task[u].mask = {}

\* README.md:303: the check of comm avoids that a thread is bound because its
\* TID has been reused.  A thread born after the start of the run, let alone
\* after the recording, is never bound under the check.  The script violates
\* it: comm is all it knows a thread by, and comm is read before the binding.
NoReusedTidBound ==
  opt.strict => \A t \in Tids : (task[t] # NoTask /\ task[t].born > 0) => task[t].mask = CpuSet
=============================================================================
