------------------------------ MODULE MagmScx ------------------------------
(***************************************************************************)
(* The sched_ext prototype: the loader sched_ext/magm_scx.c, the BPF       *)
(* scheduler sched_ext/magm_scx.bpf.c and, as far as they use it, the      *)
(* sched_ext core of the kernel.                                           *)
(*                                                                         *)
(* The loader copies the plan (final_cpu_selection.csv) row by row into    *)
(* the map target_cpu_by_tid, counts the rows in the stats map, attaches   *)
(* the scheduler and then waits for a signal.  From the attachment on the  *)
(* kernel calls magm_select_cpu when a task wakes up and magm_enqueue when *)
(* it is to be queued, on whatever CPU that happens.                       *)
(***************************************************************************)
EXTENDS Integers, Sequences, FiniteSets

CONSTANTS
  Tids,         \* the thread ids of the live tasks
  Cpus,         \* the logical CPUs of the host
  Plans,        \* the plan files the loader may be given
  MapCapacity,  \* max_entries of target_cpu_by_tid
  MaxSelects,   \* bound: wakeups explored
  NoCpu, NoTask

\* A line of the plan.  A line whose command name holds a comma is cut at it
\* by strtok_r, so that no "pid=" is found at the column of thread_key.
Row == [window : Nat, tid : Nat, cpu : Nat, cut : BOOLEAN]

ASSUME MagmScxAssumption ==
  /\ Tids \subseteq Nat \ {0}
  /\ IsFiniteSet(Tids)
  /\ Cpus \subseteq Nat
  /\ Plans \subseteq Seq(Row)
  /\ MapCapacity \in Nat
  /\ MaxSelects \in Nat
  /\ NoCpu \notin Cpus
  /\ NoTask \notin Tids

\* The lines of one window are one decision of the scheduler, which books no CPU
\* twice (MagmSchedule!NoDoubleBooking).
ASSUME WindowsBookOnce ==
  \A p \in Plans : \A j, k \in 1 .. Len(p) :
    p[j].window = p[k].window /\ p[j].cpu = p[k].cpu => j = k

VARIABLES
  plan,             \* the lines of the file
  pc,               \* where main and load_plan_csv are
  pos,              \* the line load_plan_csv is at
  copy,             \* the stat that bump_configured has read
  signalled,        \* SIGINT or SIGTERM has been sent
  armed,            \* the handlers are installed
  exiting,          \* the flag the handler sets
  target,           \* map target_cpu_by_tid
  stat,             \* map stats
  attached,         \* the kernel schedules with magm_ops
  at,               \* where each live task is
  hint,             \* what magm_select_cpu answered for its last wakeup
  dsq,              \* the global dispatch queue
  on,               \* the task each CPU runs
  selects           \* calls of magm_select_cpu so far

loader == <<plan, pc, pos, copy, signalled, armed, exiting>>
maps == <<target, stat>>
tasks == <<at, hint, dsq, on>>
vars == <<plan, pc, pos, copy, signalled, armed, exiting, target, stat, attached,
          at, hint, dsq, on, selects>>

ZeroStat == [configured |-> 0, selected |-> 0, fallback |-> 0]

AllAsleep == [t \in Tids |-> "asleep"]
NoHint == [t \in Tids |-> NoCpu]
AllIdle == [c \in Cpus |-> NoTask]

Init ==
  /\ plan \in Plans
  /\ pc = "open"
  /\ pos = 1
  /\ copy = ZeroStat
  /\ signalled = FALSE
  /\ armed = FALSE
  /\ exiting = FALSE
  /\ target = <<>>
  /\ stat = ZeroStat
  /\ attached = FALSE
  /\ at = AllAsleep /\ hint = NoHint /\ dsq = <<>> /\ on = AllIdle
  /\ selects = 0

-----------------------------------------------------------------------------
(* The loader. *)

\* Mutant of Then: main attaches before it loads the plan.
AttachFirst(step) ==
  CASE step = "open" -> "attach"
    [] step = "attach" -> "load"
    [] step = "load" -> "arm"
    [] step = "arm" -> "loop"

\* The order of the steps of main.
Then(step) ==
  CASE step = "open" -> "load"
    [] step = "load" -> "attach"
    [] step = "attach" -> "arm"
    [] step = "arm" -> "loop"

Open ==
  /\ pc = "open"
  /\ pc' \in {Then("open"), "gone"}     \* gone: the skeleton does not load
  /\ UNCHANGED <<plan, pos, copy, signalled, armed, exiting, maps, attached, tasks, selects>>

\* tid > 0 && target_cpu >= 0, both still -1 when their column was not parsed.
Usable(row) == ~ row.cut /\ row.tid > 0

\* Mutants of Value: CPUs counted from one, and the physical_core column.
ValueFromOne(row) == row.cpu + 1
ValueOfCore(row) == row.cpu \div 2

\* The value of the map: the target_cpu column.
Value(row) == row.cpu

\* Mutant of Updated: BPF_NOEXIST for BPF_ANY, the first row wins.
UpdatedIfAbsent(row) ==
  IF row.tid \in DOMAIN target THEN target
  ELSE [t \in DOMAIN target \cup {row.tid} |-> IF t = row.tid THEN Value(row) ELSE target[t]]

\* bpf_map_update_elem(target_map_fd, &key, &value, BPF_ANY).
Updated(row) ==
  [t \in DOMAIN target \cup {row.tid} |-> IF t = row.tid THEN Value(row) ELSE target[t]]

\* The update of a full hash map fails for a new key.
HasRoom(row) ==
  row.tid \in DOMAIN target \/ Cardinality(DOMAIN target) < MapCapacity

LoadRow ==
  /\ pc = "load"
  /\ pos <= Len(plan)
  /\ IF Usable(plan[pos]) /\ HasRoom(plan[pos])
       THEN target' = Updated(plan[pos]) /\ pc' = "bump" /\ pos' = pos
       ELSE target' = target /\ pc' = pc /\ pos' = pos + 1
  /\ UNCHANGED <<plan, copy, signalled, armed, exiting, stat, attached, tasks, selects>>

\* bump_configured reads the whole stat ...
BumpRead ==
  /\ pc = "bump"
  /\ copy' = stat
  /\ pc' = "write"
  /\ UNCHANGED <<plan, pos, signalled, armed, exiting, maps, attached, tasks, selects>>

\* ... and writes the whole of it back.
BumpWrite ==
  /\ pc = "write"
  /\ stat' = [copy EXCEPT !.configured = @ + 1]
  /\ pos' = pos + 1
  /\ pc' = "load"
  /\ UNCHANGED <<plan, copy, signalled, armed, exiting, target, attached, tasks, selects>>

LoadEnd ==
  /\ pc = "load"
  /\ pos > Len(plan)
  /\ pc' = Then("load")
  /\ UNCHANGED <<plan, pos, copy, signalled, armed, exiting, maps, attached, tasks, selects>>

\* The file cannot be opened, is empty or lacks a column: goto cleanup.
LoadFails ==
  /\ pc = "load"
  /\ pos = 1
  /\ pc' = "cleanup"
  /\ UNCHANGED <<plan, pos, copy, signalled, armed, exiting, maps, attached, tasks, selects>>

\* magm_ops takes over every task; those that were running or waiting for a
\* CPU go through magm_enqueue, in some order.
Attach ==
  /\ pc = "attach"
  /\ pc' = Then("attach")
  /\ attached' = TRUE
  /\ \E q \in UNION {[1 .. n -> Tids] : n \in 0 .. Cardinality(Tids)} :
       /\ \A i, j \in DOMAIN q : q[i] = q[j] => i = j
       /\ dsq' = q
       /\ at' = [t \in Tids |-> IF \E i \in DOMAIN q : q[i] = t THEN "queued" ELSE "asleep"]
  /\ UNCHANGED <<plan, pos, copy, signalled, armed, exiting, maps, hint, on, selects>>

AttachFails ==
  /\ pc = "attach"
  /\ pc' = "cleanup"
  /\ UNCHANGED <<plan, pos, copy, signalled, armed, exiting, maps, attached, tasks, selects>>

Arm ==
  /\ pc = "arm"
  /\ armed' = TRUE
  /\ pc' = Then("arm")
  /\ UNCHANGED <<plan, pos, copy, signalled, exiting, maps, attached, tasks, selects>>

\* while (!exiting) prints the statistics and sleeps.
LeaveLoop ==
  /\ pc = "loop"
  /\ exiting
  /\ pc' = "cleanup"
  /\ UNCHANGED <<plan, pos, copy, signalled, armed, exiting, maps, attached, tasks, selects>>

\* The scheduler goes, every task returns to the kernel's own class.
Released ==
  /\ attached' = FALSE
  /\ at' = AllAsleep /\ hint' = NoHint /\ dsq' = <<>> /\ on' = AllIdle

\* Mutant of Released: the link is not destroyed.
NotReleased == UNCHANGED <<attached, tasks>>

\* bpf_link__destroy and magm_scx_bpf__destroy.
Destroyed == Released

Cleanup ==
  /\ pc = "cleanup"
  /\ pc' = "gone"
  /\ Destroyed
  /\ UNCHANGED <<plan, pos, copy, signalled, armed, exiting, maps, selects>>

\* Ctrl+C.  Before the handlers are installed it ends the process, and the
\* kernel drops the link with the last descriptor.
Signal ==
  /\ pc # "gone"
  /\ ~ signalled
  /\ signalled' = TRUE
  /\ IF armed
       THEN exiting' = TRUE /\ UNCHANGED <<pc, attached, tasks>>
       ELSE exiting' = exiting /\ pc' = "gone" /\ Released
  /\ UNCHANGED <<plan, pos, copy, armed, maps, selects>>

-----------------------------------------------------------------------------
(* The BPF scheduler and the kernel that calls it. *)

\* task_target_cpu.
HasTarget(t) == t \in DOMAIN target

\* bump_stat: __sync_fetch_and_add on the element of the map.
BumpStat(t) ==
  stat' = IF HasTarget(t) THEN [stat EXCEPT !.selected = @ + 1]
                          ELSE [stat EXCEPT !.fallback = @ + 1]

\* magm_select_cpu answers for a task that wakes up.  A CPU the host does not
\* have is an error of the scheduler, for which the kernel ejects it.
SelectCpu(t) ==
  /\ attached
  /\ at[t] = "asleep"
  /\ selects < MaxSelects
  /\ selects' = selects + 1
  /\ BumpStat(t)
  /\ \/ /\ HasTarget(t) /\ target[t] \in Cpus
        /\ hint' = [hint EXCEPT ![t] = target[t]]
        /\ at' = [at EXCEPT ![t] = "chosen"]
        /\ UNCHANGED <<dsq, on, attached>>
     \/ /\ ~ HasTarget(t)
        /\ \E c \in Cpus : hint' = [hint EXCEPT ![t] = c]
        /\ at' = [at EXCEPT ![t] = "chosen"]
        /\ UNCHANGED <<dsq, on, attached>>
     \/ /\ HasTarget(t) /\ target[t] \notin Cpus
        /\ Released
  /\ UNCHANGED <<loader, target>>

\* Mutants of Inserted: the task goes to the head of the queue, and the task is
\* inserted a second time.
InsertedAtHead(t) == <<t>> \o dsq
InsertedTwice(t) == dsq \o <<t, t>>

\* scx_bpf_dsq_insert(p, SCX_DSQ_GLOBAL, ...).
Inserted(t) == Append(dsq, t)

\* magm_enqueue after the wakeup.
Enqueue(t) ==
  /\ attached
  /\ at[t] = "chosen"
  /\ at' = [at EXCEPT ![t] = "queued"]
  /\ dsq' = Inserted(t)
  /\ UNCHANGED <<loader, maps, attached, hint, on, selects>>

\* An idle CPU takes the first task of the global queue.
Run(c) ==
  /\ attached
  /\ on[c] = NoTask
  /\ dsq # <<>>
  /\ on' = [on EXCEPT ![c] = Head(dsq)]
  /\ at' = [at EXCEPT ![Head(dsq)] = "running"]
  /\ dsq' = Tail(dsq)
  /\ UNCHANGED <<loader, maps, attached, hint, selects>>

\* The slice is used up while others wait: magm_enqueue, without a new choice.
Expire(c) ==
  /\ attached
  /\ on[c] # NoTask
  /\ dsq # <<>>
  /\ dsq' = Inserted(on[c])
  /\ at' = [at EXCEPT ![on[c]] = "queued"]
  /\ hint' = [hint EXCEPT ![on[c]] = NoCpu]
  /\ on' = [on EXCEPT ![c] = NoTask]
  /\ UNCHANGED <<loader, maps, attached, selects>>

\* The running task goes to sleep.
Block(c) ==
  /\ attached
  /\ on[c] # NoTask
  /\ at' = [at EXCEPT ![on[c]] = "asleep"]
  /\ hint' = [hint EXCEPT ![on[c]] = NoCpu]
  /\ on' = [on EXCEPT ![c] = NoTask]
  /\ UNCHANGED <<loader, maps, attached, dsq, selects>>

-----------------------------------------------------------------------------
LoaderStep ==
  \/ Open \/ LoadRow \/ BumpRead \/ BumpWrite \/ LoadEnd \/ LoadFails
  \/ Attach \/ AttachFails \/ Arm \/ LeaveLoop \/ Cleanup

Next ==
  \/ LoaderStep
  \/ Signal
  \/ \E t \in Tids : SelectCpu(t) \/ Enqueue(t)
  \/ \E c \in Cpus : Run(c) \/ Expire(c) \/ Block(c)

Spec == Init /\ [][Next]_vars

\* The loader is a process of its own and keeps running; the kernel finishes a
\* wakeup it has begun, a CPU does not idle while the queue holds a task, and a
\* slice ends.  Nobody has to send a signal, and no task has to wake or sleep.
FairSpec ==
  /\ Spec
  /\ WF_vars(LoaderStep)
  /\ \A t \in Tids : WF_vars(Enqueue(t))
  /\ \A c \in Cpus : WF_vars(Run(c)) /\ WF_vars(Expire(c))

-----------------------------------------------------------------------------
\* Every variable keeps to its type, the map to its capacity, and queue, CPUs
\* and tasks agree on which task is where: no task is queued twice or run by two
\* CPUs.
TypeOK ==
  /\ plan \in Plans
  /\ pc \in {"open", "load", "bump", "write", "attach", "arm", "loop", "cleanup", "gone"}
  /\ pos \in 1 .. Len(plan) + 1
  /\ {signalled, armed, exiting, attached} \subseteq BOOLEAN
  /\ DOMAIN target \subseteq Nat
  /\ IsFiniteSet(DOMAIN target) /\ Cardinality(DOMAIN target) <= MapCapacity
  /\ \A t \in DOMAIN target : target[t] \in Nat
  /\ {stat, copy} \subseteq [configured : Nat, selected : Nat, fallback : Nat]
  /\ at \in [Tids -> {"asleep", "chosen", "queued", "running"}]
  /\ hint \in [Tids -> Cpus \cup {NoCpu}]
  /\ on \in [Cpus -> Tids \cup {NoTask}]
  /\ selects \in 0 .. MaxSelects
  /\ dsq \in Seq(Tids)
  /\ \A i, j \in 1 .. Len(dsq) : dsq[i] = dsq[j] => i = j
  /\ \A t \in Tids :
       /\ at[t] = "queued" <=> \E i \in 1 .. Len(dsq) : dsq[i] = t
       /\ at[t] = "running" <=> \E c \in Cpus : on[c] = t
  /\ \A c, d \in Cpus : on[c] = on[d] /\ on[c] # NoTask => c = d

\* The rows of the plan that can enter the map: the usable ones whose TID is
\* among the first MapCapacity to appear.
Earlier(k) == {plan[i].tid : i \in {j \in 1 .. k - 1 : Usable(plan[j])}}

Accepted(k) ==
  /\ Usable(plan[k])
  /\ \E first \in 1 .. k :
       /\ plan[first].tid = plan[k].tid /\ Usable(plan[first])
       /\ Cardinality(Earlier(first)) < MapCapacity
       /\ plan[k].tid \notin Earlier(first)

\* The statistics lose nothing, although bump_configured rewrites the whole
\* element without synchronisation: every call of magm_select_cpu is in one of
\* its two counters (the loader is through with the plan before it attaches,
\* magm_scx.c), and every line that could enter the map, and no other, has been
\* counted as configured when the loader is past it.
StatsConserved ==
  /\ stat.selected + stat.fallback = selects
  /\ stat.configured = Cardinality({k \in 1 .. pos - 1 : Accepted(k)})

LastRow(t, k) ==
  /\ plan[k].tid = t /\ Accepted(k)
  /\ \A j \in k + 1 .. Len(plan) : plan[j].tid # t \/ ~ Usable(plan[j])

\* No wakeup ever sees a half-loaded plan: what magm_select_cpu answers for a
\* task of the plan is its last row that was accepted, from the first wakeup on.
\* When every live task has such a row no wakeup is counted as a fallback, and
\* when none has, none as selected.
HintFollowsPlan ==
  LET Planned(t) == \E k \in 1 .. Len(plan) : plan[k].tid = t /\ Accepted(k)
  IN attached =>
       /\ \A t \in Tids : hint[t] # NoCpu =>
            \A k \in 1 .. Len(plan) : LastRow(t, k) => hint[t] = plan[k].cpu
       /\ (\A t \in Tids : Planned(t)) => stat.fallback = 0
       /\ (\A t \in Tids : ~ Planned(t)) => stat.selected = 0

\* The loader merges all windows of the plan into one map, no single decision of
\* the scheduler: two TIDs have one target only if two windows, by now loaded,
\* each gave it to one of them (MagmSchedule!NoDoubleBooking for a single one).
SharedTargetsSpanWindows ==
  \A t, u \in DOMAIN target : t # u /\ target[t] = target[u] =>
    \E j, k \in {i \in 1 .. Len(plan) : i <= pos /\ Usable(plan[i])} :
      /\ plan[j].tid = t /\ plan[k].tid = u
      /\ plan[j].cpu = target[t] /\ plan[k].cpu = target[u]
      /\ plan[j].window # plan[k].window

\* The loader waits for Ctrl+C in vain, with no scheduler attached, only if
\* the plan names a CPU the host does not have.
OnlyAlienCpuEjects ==
  (pc = "loop" /\ ~ attached) =>
    \E k \in 1 .. Len(plan) : Usable(plan[k]) /\ plan[k].cpu \notin Cpus

\* Ctrl+C detaches the scheduler (sched_ext/README.md:56), whenever it comes.
SignalDetaches == signalled ~> (pc = "gone" /\ ~ attached)

\* No task starves in the global queue.
QueuedRuns == \A t \in Tids : at[t] = "queued" ~> at[t] # "queued"

-----------------------------------------------------------------------------
(* What the documentation says and the code does not do. *)

\* "sched_ext uses select_cpu's placement decision when the task becomes
\* runnable" (magm_scx.bpf.c:102-103): a task of the plan that has woken up
\* runs on the CPU magm_select_cpu answered.
PlacementUsed ==
  \A c \in Cpus :
    (on[c] # NoTask /\ HasTarget(on[c]) /\ hint[on[c]] # NoCpu) => hint[on[c]] = c
=============================================================================
