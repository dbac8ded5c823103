---------------------------- MODULE LiveAffinity ----------------------------
(***************************************************************************)
(* scripts/run_live_affinity_validation.py: start a workload, list the     *)
(* threads of its process group, bind them to the CPUs of the plan in      *)
(* turn, wait for the workload and put an end to it if it does not end by  *)
(* itself.                                                                 *)
(*                                                                         *)
(* The list is made in three passes (the names in /proc, the group of each *)
(* process, the threads of each) and worked off one thread at a time,      *)
(* while the workload and the rest of the machine fork and exit.           *)
(***************************************************************************)
EXTENDS Integers, FiniteSets, Sequences

CONSTANTS
  MaxTid,       \* the TIDs are 1 .. MaxTid
  Leader,       \* the PID Popen gets
  Others,       \* the processes that are there before, none of the workload
  CpuCount,     \* the CPUs of the machine are 0 .. CpuCount - 1
  Plans,        \* contents of final_cpu_selection.csv: sets of rows
  Options,      \* the command lines: [load, window]
  Latest,       \* --window-id latest
  NoTask,
  MaxBirths     \* bound: forks and clones

Tids == 1 .. MaxTid
CpuSet == 0 .. CpuCount - 1

\* kind says when a thread was born: "early", before the list was begun;
\* "loose", while it was made and worked off, or of a loose one, or one whose
\* binding failed; "tame", afterwards.  A process that is dead and not yet
\* reaped still has its PID.
Task == [pid : Tids, ours : BOOLEAN, first : BOOLEAN, live : BOOLEAN,
         mask : SUBSET CpuSet, kind : {"early", "loose", "tame"}]

ASSUME LiveAffinityAssumption ==
  /\ {MaxTid, CpuCount} \subseteq Nat \ {0}
  /\ MaxBirths \in Nat
  /\ Others \subseteq Tids /\ Leader \in Tids \ Others
  /\ \A p \in Plans : IsFiniteSet(p) /\ \A r \in p : r.cpu \in Nat
  /\ NoTask \notin Task

VARIABLES
  pc,
  cpus,         \* cpu_plan
  at,           \* how far the pass in hand has come
  found,        \* the processes, of /proc and then of the group
  tids,         \* their threads
  report,       \* the status of each thread of the list
  task,         \* the thread that has each TID
  births,       \* forks and clones so far
  strangers     \* history: some were somebody else's, while the list was made or worked off

script == <<pc, cpus, at, found, tids, report>>
machine == <<task, births, strangers>>
vars == <<pc, cpus, at, found, tids, report, task, births, strangers>>

Process(p, isOurs) ==
  [pid |-> p, ours |-> isOurs, first |-> isOurs, live |-> TRUE, mask |-> CpuSet, kind |-> "early"]

Init ==
  /\ pc = "plan" /\ cpus = <<>> /\ at = 1
  /\ found = {} /\ tids = {} /\ report = [t \in Tids |-> "none"]
  /\ task = [t \in Tids |-> IF t \in Others THEN Process(t, FALSE) ELSE NoTask]
  /\ births = 0 /\ strangers = FALSE

-----------------------------------------------------------------------------
(* The plan and the workload. *)

\* The rows of one load type, of its latest or a given window ...
PlannedCpus(plan, opt) ==
  LET ofLoad == {r \in plan : r.load = opt.load}
      chosen == {r \in ofLoad : IF opt.window = Latest
                                  THEN \A s \in ofLoad : s.window <= r.window
                                  ELSE r.window = opt.window}
  IN {r.cpu : r \in chosen}

\* ... in the order of core and slot, which is that of the CPUs (load_cpu_plan).
Ascending(S) ==
  {s \in [1 .. Cardinality(S) -> S] : \A i, j \in 1 .. Cardinality(S) : i < j => s[i] < s[j]}

\* Mutant of LoadPlan: an empty selection is not refused.
LoadPlanUnchecked ==
  /\ pc = "plan"
  /\ \E plan \in Plans, opt \in Options : cpus' \in Ascending(PlannedCpus(plan, opt))
  /\ pc' = "launch"
  /\ UNCHANGED <<at, found, tids, report, machine>>

\* Without a row the script ends before it has started anything.
LoadPlan ==
  /\ pc = "plan"
  /\ \E plan \in Plans, opt \in Options :
       /\ cpus' \in Ascending(PlannedCpus(plan, opt))
       /\ pc' = IF cpus' = <<>> THEN "refused" ELSE "launch"
  /\ UNCHANGED <<at, found, tids, report, machine>>

\* Popen, in a session and group of its own.
Launch ==
  /\ pc = "launch"
  /\ task[Leader] = NoTask
  /\ task' = [task EXCEPT ![Leader] = Process(Leader, TRUE)]
  /\ pc' = "settle"
  /\ UNCHANGED <<cpus, at, found, tids, report, births, strangers>>

Settled ==
  /\ pc = "settle"
  /\ pc' = "walk"
  /\ UNCHANGED <<cpus, at, found, tids, report, machine>>

-----------------------------------------------------------------------------
(* The list of threads. *)

\* The pass goes on to the next TID, and the last TID to the next pass.
Advance(next) ==
  /\ at' = IF at < MaxTid THEN at + 1 ELSE 1
  /\ pc' = IF at < MaxTid THEN pc ELSE next

\* Path("/proc").iterdir(): the names of the processes, in ascending order.
Walk ==
  /\ pc = "walk"
  /\ found' = IF task[at] # NoTask /\ task[at].pid = at THEN found \cup {at} ELSE found
  /\ Advance("stat")
  /\ UNCHANGED <<cpus, tids, report, machine>>

\* process_group_pids: the stat of whatever has the PID by now.
ReadStat ==
  /\ pc = "stat"
  /\ found' = IF task[at] # NoTask /\ task[at].ours THEN found ELSE found \ {at}
  /\ Advance("tasks")
  /\ UNCHANGED <<cpus, tids, report, machine>>

\* Mutant of ThreadsOf: the processes, without their further threads.
MainThread(p) == {p}

ThreadsOf(p) == {t \in Tids : task[t] # NoTask /\ task[t].pid = task[p].pid}

\* task_tids, an empty list for a process that is gone.
ListTasks ==
  /\ pc = "tasks"
  /\ tids' = IF at \in found /\ task[at] # NoTask THEN tids \cup ThreadsOf(at) ELSE tids
  /\ Advance("bind")
  /\ UNCHANGED <<cpus, found, report, machine>>

-----------------------------------------------------------------------------
(* The loop of apply_affinity_to_group over sorted(tids). *)

\* cpu_plan[idx % len(cpu_plan)].
Target(t) == cpus[(Cardinality({u \in tids : u < t}) % Len(cpus)) + 1]

PassOver ==
  /\ pc = "bind"
  /\ at \notin tids
  /\ Advance("report")
  /\ UNCHANGED <<cpus, found, tids, report, machine>>

\* sched_setaffinity succeeds ...
Bind ==
  /\ pc = "bind"
  /\ at \in tids
  /\ task[at] # NoTask /\ Target(at) \in CpuSet
  /\ task' = [task EXCEPT ![at].mask = {Target(at)}]
  /\ pc' = "after"
  /\ UNCHANGED <<cpus, at, found, tids, report, births, strangers>>

Reported(status) == report' = [report EXCEPT ![at] = status]

\* ... and the affinity is read back, unless the thread has exited.
ReadBack ==
  /\ pc = "after"
  /\ Reported(IF task[at] = NoTask THEN "skipped" ELSE "applied")
  /\ at' = IF at < MaxTid THEN at + 1 ELSE 1
  /\ pc' = IF at < MaxTid THEN "bind" ELSE "report"
  /\ UNCHANGED <<cpus, found, tids, machine>>

BindExited ==
  /\ pc = "bind"
  /\ at \in tids /\ task[at] = NoTask
  /\ Reported("skipped")
  /\ Advance("report")
  /\ UNCHANGED <<cpus, found, tids, machine>>

\* PermissionError, or OSError as for a CPU the machine has not.
BindFails ==
  /\ pc = "bind"
  /\ at \in tids /\ task[at] # NoTask
  /\ Reported("failed")
  /\ task' = [task EXCEPT ![at].kind = "loose"]
  /\ Advance("report")
  /\ UNCHANGED <<cpus, found, tids, births, strangers>>

-----------------------------------------------------------------------------
(* The report, and the end of the workload. *)

\* Written, or the exception ends the script and the workload goes on.
WriteReport ==
  /\ pc = "report"
  /\ pc' \in {"wait", "crashed"}
  /\ UNCHANGED <<cpus, at, found, tids, report, machine>>

Dead == task[Leader] # NoTask /\ ~ task[Leader].live

\* poll() and wait(timeout): a dead child is reaped and main comes to its end,
\* otherwise it goes on with one of next.
Look(label, next) ==
  /\ pc = label
  /\ IF Dead THEN pc' = "done" /\ task' = [task EXCEPT ![Leader] = NoTask]
             ELSE pc' \in next /\ task' = task
  /\ UNCHANGED <<cpus, at, found, tids, report, births, strangers>>

\* proc.wait(timeout=remaining + 2.0).
WaitWorkload == Look("wait", {"poll"})

\* SIGINT to the group, unless killpg raises.
InterruptGroup == Look("poll", {"grace", "pollAgain"})

WaitGrace == Look("grace", {"pollAgain"})

\* SIGTERM to the group.
TerminateGroup == Look("pollAgain", {"lastGrace", "kill"})

WaitLastGrace == Look("lastGrace", {"kill"})

\* Mutant of AfterKill: as if SIGTERM were enough.
NotKilled == task

\* SIGKILL to the first process, with all its threads; its group is left.  It is
\* reaped when the script ends, which is at once.
AfterKill == [t \in Tids |-> IF task[t] # NoTask /\ task[t].pid = Leader THEN NoTask ELSE task[t]]

\* proc.kill(), which polls first and may not be permitted.
Kill ==
  /\ pc = "kill"
  /\ \/ pc' = "done" /\ task' = AfterKill
     \/ ~ Dead /\ pc' = "crashed" /\ task' = task
  /\ UNCHANGED <<cpus, at, found, tids, report, births, strangers>>

Ended == {"refused", "done", "crashed"}

\* Ctrl+C, which the workload in its own session does not get.
KeyboardInterrupt ==
  /\ pc \notin Ended
  /\ pc' = "crashed"
  /\ UNCHANGED <<cpus, at, found, tids, report, machine>>

-----------------------------------------------------------------------------
(* The threads of the workload and of the machine. *)

Working == {"walk", "stat", "tasks", "bind", "after"}

KindOfChild(parent) ==
  IF pc \in Working \/ parent.kind = "loose" THEN "loose"
  ELSE IF pc \in {"plan", "launch", "settle"} THEN "early"
  ELSE "tame"

\* A child process or another thread, with the affinity and the group of t,
\* gets a free TID.
Fork(t, u) ==
  /\ task[t] # NoTask /\ task[t].live
  /\ task[u] = NoTask
  /\ pc \in {"plan", "launch"} => u # Leader
  /\ births < MaxBirths
  /\ births' = births + 1
  /\ strangers' = (strangers \/ (pc \in Working /\ ~ task[t].ours))
  /\ \E p \in {u, task[t].pid} :
       task' = [task EXCEPT ![u] =
                  [task[t] EXCEPT !.pid = p, !.first = FALSE, !.kind = KindOfChild(task[t])]]
  /\ UNCHANGED script

\* A thread ends, or a process with all its threads; the first process of the
\* workload stays as a zombie until the script reaps it.
ExitThread(t) ==
  /\ task[t] # NoTask /\ task[t].pid # t
  /\ task' = [task EXCEPT ![t] = NoTask]
  /\ UNCHANGED <<script, births, strangers>>

ExitProcess(p) ==
  /\ task[p] # NoTask /\ task[p].pid = p /\ task[p].live
  /\ task' = [t \in Tids |->
                IF task[t] = NoTask \/ (task[t] # NoTask /\ task[t].pid # p) THEN task[t]
                ELSE IF task[t].first THEN [task[t] EXCEPT !.live = FALSE] ELSE NoTask]
  /\ UNCHANGED <<script, births, strangers>>

-----------------------------------------------------------------------------
Script ==
  \/ LoadPlan \/ Launch \/ Settled \/ Walk \/ ReadStat \/ ListTasks
  \/ PassOver \/ Bind \/ ReadBack \/ BindExited \/ BindFails
  \/ WriteReport \/ WaitWorkload \/ InterruptGroup \/ WaitGrace \/ TerminateGroup
  \/ WaitLastGrace \/ Kill

Machine ==
  \/ \E t, u \in Tids : Fork(t, u)
  \/ \E t \in Tids : ExitThread(t) \/ ExitProcess(t)

Next == Script \/ KeyboardInterrupt \/ (pc \notin Ended /\ Machine)

Spec == Init /\ [][Next]_vars

\* The script goes on; its waits have timeouts.  Nothing is asked of the
\* workload, which may ignore every signal it can.
FairSpec == Spec /\ WF_vars(Script)

-----------------------------------------------------------------------------
\* Every variable keeps to its type; a thread of the workload is there only
\* once it is started, and a dead process waits only for the script.
LiveTypeOK ==
  /\ cpus \in Seq(Nat)
  /\ pc \in {"plan", "launch"} \cup Ended \/ cpus # <<>>
  /\ at \in Tids
  /\ found \subseteq Tids /\ tids \subseteq Tids
  /\ report \in [Tids -> {"none", "applied", "skipped", "failed"}]
  /\ task \in [Tids -> Task \cup {NoTask}]
  /\ births \in 0 .. MaxBirths
  /\ \A t \in Tids : task[t] # NoTask =>
       /\ pc \in {"plan", "launch", "refused"} => ~ task[t].ours
       /\ task[task[t].pid] # NoTask
       /\ ~ task[t].live => t = Leader /\ task[t].first

\* When the loop is over, a thread the workload had when the list was begun is
\* bound to the CPU of its place in the list, its later children have the
\* CPU of their parent: one that is not bound as planned was born while the
\* list was made and worked off, stems from such a thread, or its binding
\* failed.  A thread of somebody else is left alone unless somebody else got a
\* TID in that time; with it, all threads of that process may be bound.
BoundUnlessLoose ==
  pc \notin {"plan", "launch", "settle"} \cup Working \cup Ended =>
    \A t \in Tids : task[t] # NoTask =>
      /\ ~ task[t].ours => strangers \/ task[t].mask = CpuSet
      /\ task[t].ours /\ task[t].kind = "early" => task[t].mask = {Target(t)}
      /\ task[t].ours /\ task[t].kind = "tame" =>
           \E i \in 1 .. Len(cpus) : task[t].mask = {cpus[i]}

FirstGone == \A t \in Tids : task[t] # NoTask => ~ task[t].first

\* The script comes to its end whatever the workload does with the signals, and
\* if no exception ended it the process it started is gone.
EndsWithWorkload == <>[](pc \in Ended /\ (pc = "done" => FirstGone))
=============================================================================
