------------------------------ MODULE SceneRun ------------------------------
(***************************************************************************)
(* One collection run: the runner (scripts/run_cpu.py, run_mixed.py and    *)
(* their kin), the two collectors it starts, and the attribution of the    *)
(* PMU samples to threads that follows.                                    *)
(*                                                                         *)
(* The sched_switch collector is here as SwitchLog has it: a switch enters *)
(* the ring or is dropped, and what is in the ring becomes a row of        *)
(* sched.csv in its order.  The PMU sampler Data/cpu/data.c is here in its *)
(* own steps.  All counters of a CPU are one counter, whose value is the   *)
(* set of the threads that have run while it was enabled.                  *)
(***************************************************************************)
EXTENDS Integers, Sequences, FiniteSets

CONSTANTS
  Scripts,      \* the runners: "cpu" stops both collectors and then waits, "mixed"
                \* stops the second when the first has ended
  NCpus,        \* cpu_count of the sampler: CPUs 0 .. NCpus - 1
  Threads,      \* threads a CPU may switch to
  Idle,         \* the idle thread of every CPU
  NoThread,     \* None in attr.csv
  RingSize,     \* records the ring of the collector holds
  MaxSwitches,  \* bound: switches of the machine
  MaxRounds     \* bound: rounds of the sampler

Cpus == 0 .. NCpus - 1

ASSUME SceneRunAssumption ==
  /\ Scripts \subseteq {"cpu", "mixed"}
  /\ NCpus \in Nat \ {0}
  /\ Idle \notin Threads
  /\ NoThread \notin Threads \cup {Idle}
  /\ {RingSize, MaxSwitches, MaxRounds} \subseteq Nat

VARIABLES
  script,       \* the runner of this run
  pc,           \* where the runner is
  sched,        \* the sched_switch collector
  ring,         \* its records not yet handed out
  schedCsv,     \* the rows of sched.csv
  sampler,      \* where main of the PMU sampler is
  stop,         \* its flag
  at,           \* the CPU its loop is at
  counting,     \* the CPUs whose counters are enabled
  counted,      \* the counters
  ns,           \* the time stamp of the round
  rounds,       \* rounds begun
  cpuCsv,       \* the rows of cpu.csv
  attr,         \* the rows of attr.csv
  now,          \* CLOCK_MONOTONIC, which bpf_ktime_get_ns reads too
  running,      \* the thread each CPU runs
  switches,     \* history: every switch, and whether the collector was attached to see it
  span          \* history: when the counter of each CPU was enabled and disabled

collector == <<sched, ring, schedCsv>>
pmu == <<sampler, stop, at, counting, ns, rounds, cpuCsv, span>>
machine == <<running, switches>>
vars == <<script, pc, sched, ring, schedCsv, sampler, stop, at, counting, counted, ns, rounds,
          cpuCsv, attr, now, running, switches, span>>

Init ==
  /\ script \in Scripts
  /\ pc = "start"
  /\ sched = "off" /\ ring = <<>> /\ schedCsv = <<>>
  /\ sampler = "off" /\ stop = FALSE /\ at = 0
  /\ counting = {} /\ counted = [c \in Cpus |-> {}]
  /\ ns = 0 /\ rounds = 0 /\ cpuCsv = {} /\ attr = {}
  /\ now = 0
  /\ running = [c \in Cpus |-> Idle]
  /\ switches = <<>>
  /\ span = [c \in Cpus |-> <<0, 0>>]

-----------------------------------------------------------------------------
(* The machine and the sched_switch collector. *)

Attached == sched \in {"on", "leaving"}

\* CPU c switches to thread t; with the tracepoint attached the switch is
\* recorded, or dropped if the ring is full.
Switch(c, t) ==
  LET event == [ts |-> now + 1, cpu |-> c, next |-> t, seen |-> Attached]
  IN /\ Len(switches) < MaxSwitches
     /\ pc # "done"
     /\ t # running[c]
     /\ t # Idle => \A d \in Cpus : running[d] # t
     /\ running' = [running EXCEPT ![c] = t]
     /\ now' = now + 1
     /\ switches' = Append(switches, event)
     /\ ring' = IF Attached /\ Len(ring) < RingSize THEN Append(ring, event) ELSE ring
     /\ counted' = IF c \in counting THEN [counted EXCEPT ![c] = @ \cup {t}] ELSE counted
     /\ UNCHANGED <<script, pc, sched, schedCsv, pmu, attr>>

\* The program is loaded and attached, or it is not and the collector ends.
SchedUp ==
  /\ sched = "loading"
  /\ sched' \in {"on", "gone"}
  /\ UNCHANGED <<script, pc, ring, schedCsv, pmu, counted, attr, now, machine>>

HandOut ==
  /\ Attached /\ ring # <<>>
  /\ ring' = Tail(ring)
  /\ schedCsv' \in {schedCsv, Append(schedCsv, Head(ring))}
  /\ UNCHANGED <<script, pc, sched, pmu, counted, attr, now, machine>>

\* It sees exiting; what the ring still holds is lost.
SchedLeaves ==
  /\ sched = "leaving"
  /\ sched' = "gone"
  /\ ring' = <<>>
  /\ UNCHANGED <<script, pc, schedCsv, pmu, counted, attr, now, machine>>

-----------------------------------------------------------------------------
(* The PMU sampler. *)

SamplerGoto(label) ==
  /\ sampler' = label
  /\ at' = 0

others == <<script, pc, collector, attr, machine>>

\* The events of every CPU are opened, disabled, or it gives up.
SamplerUp ==
  /\ sampler = "loading"
  /\ sampler' \in {"loop", "gone"}
  /\ UNCHANGED <<others, stop, at, counting, counted, ns, rounds, cpuCsv, now, span>>

\* while (!stop).
Loop ==
  /\ sampler = "loop"
  /\ IF stop THEN SamplerGoto("gone") /\ rounds' = rounds
             ELSE rounds < MaxRounds /\ SamplerGoto("enable") /\ rounds' = rounds + 1
  /\ UNCHANGED <<others, stop, counting, counted, ns, cpuCsv, now, span>>

\* Mutant of AfterReset: no PERF_EVENT_IOC_RESET.
NotReset(c) == counted[c]

\* PERF_EVENT_IOC_RESET.
AfterReset(c) == {}

\* ... and PERF_EVENT_IOC_ENABLE, for the events of one CPU.
Enable ==
  /\ sampler = "enable"
  /\ counting' = counting \cup {at}
  /\ counted' = [counted EXCEPT ![at] = AfterReset(at) \cup {running[at]}]
  /\ span' = [span EXCEPT ![at] = <<now, now>>]
  /\ IF at + 1 < NCpus THEN at' = at + 1 /\ sampler' = sampler ELSE SamplerGoto("sleep")
  /\ UNCHANGED <<others, stop, ns, rounds, cpuCsv, now>>

\* sleep(SAMPLE_INTERVAL) is over, or SIGINT has ended it.
Wake ==
  /\ sampler = "sleep"
  /\ SamplerGoto("disable")
  /\ UNCHANGED <<others, stop, counting, counted, ns, rounds, cpuCsv, now, span>>

Disable ==
  /\ sampler = "disable"
  /\ counting' = counting \ {at}
  /\ span' = [span EXCEPT ![at] = <<@[1], now>>]
  /\ IF at + 1 < NCpus THEN at' = at + 1 /\ sampler' = sampler ELSE SamplerGoto("stamp")
  /\ UNCHANGED <<others, stop, counted, ns, rounds, cpuCsv, now>>

\* clock_gettime(CLOCK_MONOTONIC): one stamp for every CPU of the round.
Stamp ==
  /\ sampler = "stamp"
  /\ ns' = now + 1
  /\ now' = now + 1
  /\ SamplerGoto("rows")
  /\ UNCHANGED <<others, stop, counting, counted, rounds, cpuCsv, span>>

Sample(c) == [ts |-> ns, cpu |-> c, threads |-> counted[c], span |-> span[c]]

\* The counters, all disabled by now, are read and written out; should
\* cpu.csv not open they are lost.
WriteRows ==
  /\ sampler = "rows"
  /\ cpuCsv' \in {cpuCsv, cpuCsv \cup {Sample(c) : c \in Cpus}}
  /\ SamplerGoto("loop")
  /\ UNCHANGED <<others, stop, counting, counted, ns, rounds, now, span>>

\* A read fails: the rows before it have been written and main returns.
ReadFails ==
  /\ sampler = "rows"
  /\ \E c \in Cpus : cpuCsv' = cpuCsv \cup {Sample(d) : d \in 0 .. c - 1}
  /\ SamplerGoto("gone")
  /\ UNCHANGED <<others, stop, counting, counted, ns, rounds, now, span>>

-----------------------------------------------------------------------------
(* The runner. *)

\* The old files are removed, the load is started and warmed up.
StartSched ==
  /\ pc = "start"
  /\ pc' = "startPmu"
  /\ sched' = "loading"
  /\ UNCHANGED <<script, ring, schedCsv, pmu, counted, attr, now, machine>>

StartPmu ==
  /\ pc = "startPmu"
  /\ pc' = "collect"
  /\ sampler' = "loading"
  /\ UNCHANGED <<script, collector, stop, at, counting, counted, ns, rounds, cpuCsv, attr, now,
                 machine, span>>

\* sleep(collect_seconds) is over: SIGINT to the sched_switch collector, which
\* dies of it unless its handler is installed.
InterruptSched ==
  /\ pc = "collect"
  /\ pc' = IF script = "cpu" THEN "interruptPmu" ELSE "waitSched"
  /\ sched' = IF sched = "on" THEN "leaving" ELSE "gone"
  /\ UNCHANGED <<script, ring, schedCsv, pmu, counted, attr, now, machine>>

InterruptPmu ==
  /\ pc = "interruptPmu"
  /\ pc' = IF script = "cpu" THEN "waitSched" ELSE "waitPmu"
  /\ stop' = TRUE
  /\ sampler' = IF sampler = "loading" THEN "gone" ELSE sampler
  /\ UNCHANGED <<script, collector, at, counting, counted, ns, rounds, cpuCsv, attr, now,
                 machine, span>>

\* Mutant of Terminated: the runner waits without a timeout.
NotTerminated(state) == state

\* What terminate() makes of a collector that wait(timeout) has not seen end.
Terminated(state) == "gone"

\* Mutant of AfterSched: the sampler is not waited for.
AfterSchedAtOnce == "attribute"

AfterSched == IF script = "cpu" THEN "waitPmu" ELSE "interruptPmu"

WaitSched ==
  /\ pc = "waitSched"
  /\ IF sched = "gone"
       THEN pc' = AfterSched /\ UNCHANGED <<sched, ring>>
       ELSE pc' = pc /\ sched' = Terminated(sched) /\ ring' = (IF sched' = "gone" THEN <<>> ELSE ring)
  /\ UNCHANGED <<script, schedCsv, pmu, counted, attr, now, machine>>

\* The rows of a sampler that is terminated are lost with its buffer.
WaitPmu ==
  /\ pc = "waitPmu"
  /\ IF sampler = "gone"
       THEN pc' = "attribute" /\ UNCHANGED <<sampler, counting>>
       ELSE pc' = pc /\ sampler' = Terminated(sampler) /\ counting' = {}
  /\ UNCHANGED <<script, collector, stop, at, counted, ns, rounds, cpuCsv, attr, now,
                 machine, span>>

\* Mutant of Before: the CPU is not looked at.
OnAnyCpu(r, s) == r.ts <= s.ts

\* (sched_df['cpu']==cpu) & (sched_df['ts']<=ts).
Before(r, s) == r.cpu = s.cpu /\ r.ts <= s.ts

\* find_last_thread.
LastThread(s) ==
  LET rows == {i \in 1 .. Len(schedCsv) : Before(schedCsv[i], s)}
  IN IF rows = {} THEN NoThread
     ELSE schedCsv[CHOOSE i \in rows : \A j \in rows : schedCsv[j].ts <= schedCsv[i].ts].next

Attribute ==
  /\ pc = "attribute"
  /\ pc' = "done"
  /\ attr' = {[sample |-> s, thread |-> LastThread(s)] : s \in cpuCsv}
  /\ UNCHANGED <<script, collector, pmu, counted, now, machine>>

-----------------------------------------------------------------------------
Runner ==
  \/ StartSched \/ StartPmu \/ InterruptSched \/ InterruptPmu
  \/ WaitSched \/ WaitPmu \/ Attribute

Sampler ==
  \/ SamplerUp \/ Loop \/ Enable \/ Wake \/ Disable \/ Stamp \/ WriteRows \/ ReadFails

Next ==
  \/ \E c \in Cpus, t \in Threads \cup {Idle} : Switch(c, t)
  \/ SchedUp \/ HandOut \/ SchedLeaves
  \/ Sampler
  \/ Runner

Spec == Init /\ [][Next]_vars

\* The runner goes on: its waits are bounded by timeouts.  Nothing is asked of
\* the collectors, which may not answer the signal in time.
FairSpec == Spec /\ WF_vars(Runner)

-----------------------------------------------------------------------------
Records == [ts : Nat, cpu : Cpus, next : Threads \cup {Idle}, seen : BOOLEAN]

\* Every variable keeps to its type, counters run only within a round, and
\* nothing is in the ring unless the collector is there.
SceneTypeOK ==
  /\ pc \in {"start", "startPmu", "collect", "waitSched", "interruptPmu", "waitPmu", "attribute",
            "done"}
  /\ sched \in {"off", "loading", "on", "leaving", "gone"}
  /\ ring \in Seq(Records) /\ Len(ring) <= RingSize
  /\ schedCsv \in Seq(Records)
  /\ sampler \in {"off", "loading", "loop", "enable", "sleep", "disable", "stamp", "rows", "gone"}
  /\ stop \in BOOLEAN /\ at \in Cpus
  /\ counted \in [Cpus -> SUBSET (Threads \cup {Idle})]
  /\ rounds \in 0 .. MaxRounds
  /\ counting = IF sampler = "enable" THEN 0 .. at - 1
                ELSE IF sampler = "disable" THEN at .. NCpus - 1
                ELSE IF sampler = "sleep" THEN Cpus ELSE {}
  /\ ~ Attached => ring = <<>>
  /\ pc \in {"attribute", "done"} => sched = "gone" /\ sampler = "gone"
  /\ running \in [Cpus -> Threads \cup {Idle}]
  /\ {a.sample : a \in attr} \subseteq cpuCsv

SwitchesOf(c, until) == {i \in 1 .. Len(switches) : switches[i].cpu = c /\ switches[i].ts <= until}

LastOf(set) == switches[CHOOSE i \in set : \A j \in set : j <= i]

RunningAt(c, ts) == IF SwitchesOf(c, ts) = {} THEN Idle ELSE LastOf(SwitchesOf(c, ts)).next

Recorded(e) == \E i \in 1 .. Len(schedCsv) : schedCsv[i] = e

\* A sample goes to the thread that ran on its CPU when the round was stamped,
\* unless the last switch before is missing from sched.csv.
AttributedToRunning ==
  \A a \in attr :
    LET before == SwitchesOf(a.sample.cpu, a.sample.ts)
    IN (before # {} /\ Recorded(LastOf(before))) =>
         a.thread = RunningAt(a.sample.cpu, a.sample.ts)

\* The counters of a row are those of one round: of the threads that ran on
\* the CPU between the moments its own counters were enabled and disabled, and
\* of all of them; the stamp of the row is not before the end of any of it.
RowCountsItsRound ==
  \A s \in cpuCsv :
    /\ s.span[2] < s.ts
    /\ s.threads = {RunningAt(s.cpu, t) : t \in s.span[1] .. s.span[2]}

\* The run comes to its end whatever the collectors do.
RunEnds == <>(pc = "done")

-----------------------------------------------------------------------------
\* "Exact attribution: the hardware events of every sampling moment are
\* attributed to the thread that really ran" (the design document, line 13).
\* With every switch that the collector saw in sched.csv, a row of attr.csv that
\* names a thread names the one that ran at the stamp.
ExactAttribution ==
  (\A i \in 1 .. Len(switches) : switches[i].seen => Recorded(switches[i])) =>
    \A a \in attr : a.thread # NoThread => a.thread = RunningAt(a.sample.cpu, a.sample.ts)
=============================================================================
