------------------------- MODULE LiveAffinityProofs -------------------------
(***************************************************************************)
(* What holds of the live validation for every machine, plan and workload. *)
(*                                                                         *)
(* A thread that was there when the list was begun is found because its    *)
(* process is: the process is there as long as any of its threads, so that *)
(* each of the three passes meets it (EarlyListed).  A thread of somebody  *)
(* else is spared because the group is looked at and no TID changed hands  *)
(* since (StrangersOK).  Both rest on how threads belong to processes,     *)
(* which forks and exits must keep (ThreadsOK).                            *)
(***************************************************************************)
EXTENDS LiveAffinity, FiniteSetTheorems, SequenceTheorems, TLAPS

\* Before the list, and after the loop over it.
Before == {"plan", "launch", "settle"}
Over == {"report", "wait", "poll", "grace", "pollAgain", "lastGrace", "kill"}

\* The variables of the script.
ScriptOK ==
  /\ pc \in Before \cup Working \cup Over \cup Ended
  /\ cpus \in Seq(Nat)
  /\ pc \in {"plan"} \cup Ended \/ cpus # <<>>
  /\ at \in Tids
  /\ pc \in Before => at = 1
  /\ found \subseteq Tids /\ tids \subseteq Tids
  /\ pc \in Before \cup {"walk", "stat"} => tids = {}
  /\ report \in [Tids -> {"none", "applied", "skipped", "failed"}]
  /\ births \in 0 .. MaxBirths
  /\ strangers \in BOOLEAN

\* A thread has a process, of the same owner; the dead first process has no
\* further thread.
ThreadOK(t) ==
  /\ task[task[t].pid] # NoTask /\ task[task[t].pid].pid = task[t].pid
  /\ task[task[t].pid].ours = task[t].ours
  /\ task[t].first => t = Leader /\ task[t].pid = Leader
  /\ ~ task[t].live => task[t].first
  /\ ~ task[task[t].pid].live => t = task[t].pid

ThreadsOK ==
  /\ task \in [Tids -> Task \cup {NoTask}]
  /\ pc \in {"plan", "launch"} => task[Leader] = NoTask
  /\ \A t \in Tids : task[t] # NoTask => ThreadOK(t)
  /\ pc \in {"plan", "launch", "refused"} => \A t \in Tids : task[t] # NoTask => ~ task[t].ours

\* How far the passes have come with a thread that was there when they began.
EarlyOK(t) ==
  /\ pc = "walk" /\ task[t].pid < at => task[t].pid \in found
  /\ pc \in {"stat", "tasks"} => task[t].pid \in found
  /\ pc = "tasks" /\ task[t].pid < at => t \in tids
  /\ pc \in {"bind", "after"} => t \in tids
  /\ (pc = "bind" /\ t < at) \/ (pc = "after" /\ t <= at) \/ pc \in Over =>
       task[t].mask = {Target(t)}

EarlyListed ==
  \A t \in Tids : task[t] # NoTask /\ task[t].ours /\ task[t].kind = "early" => EarlyOK(t)

\* The children of bound threads.
TameOK ==
  \A t \in Tids : task[t] # NoTask /\ task[t].ours /\ task[t].kind = "tame" =>
    /\ pc \in Over \cup Ended
    /\ pc \in Over => \E i \in 1 .. Len(cpus) : task[t].mask = {cpus[i]}

NotStranger(t) == task[t] # NoTask => task[t].ours

\* Unless a stranger was born at a bad time the lists name threads of the
\* workload only.
StrangersOK ==
  ~ strangers =>
    /\ \A t \in Tids : task[t] # NoTask /\ ~ task[t].ours => task[t].mask = CpuSet
    /\ pc = "stat" => \A p \in found : p < at => NotStranger(p)
    /\ pc = "tasks" => \A p \in found : NotStranger(p)
    /\ pc \in Working => \A t \in tids : NotStranger(t)

LiveInv ==
  /\ ScriptOK
  /\ ThreadsOK
  /\ EarlyListed
  /\ TameOK
  /\ StrangersOK

-----------------------------------------------------------------------------
\* The TIDs are not too few.
LEMMA TidFacts ==
  /\ MaxTid \in Nat /\ MaxTid > 0 /\ 1 \in Tids /\ Leader \in Tids
  /\ \A t \in Tids : t \in Nat /\ t >= 1 /\ t <= MaxTid /\ (t < MaxTid => t + 1 \in Tids)
  /\ MaxBirths \in Nat /\ NoTask \notin Task
  BY LiveAffinityAssumption DEF Tids

\* A process begins with one thread and all CPUs.
LEMMA ProcessFields ==
  ASSUME NEW p, NEW q
  PROVE  /\ q = Process(p, TRUE) => q.pid = p /\ q.ours /\ q.first /\ q.live /\ q.kind = "early"
         /\ q = Process(p, FALSE) => q.pid = p /\ ~ q.ours /\ ~ q.first /\ q.live /\ q.mask = CpuSet
  BY DEF Process

\* The fields of a thread that is there.
LEMMA TaskFields ==
  ASSUME ThreadsOK, NEW t \in Tids, task[t] # NoTask
  PROVE  /\ task[t] \in Task
         /\ task[t].pid \in Tids /\ task[t].ours \in BOOLEAN /\ task[t].first \in BOOLEAN
         /\ task[t].live \in BOOLEAN /\ task[t].mask \in SUBSET CpuSet
         /\ task[t].kind \in {"early", "loose", "tame"}
  BY DEF ThreadsOK, Task

\* The CPU of a thread's place in the list is one of the plan.
LEMMA TargetPlanned ==
  ASSUME ScriptOK, cpus # <<>>, NEW t
  PROVE  \E i \in 1 .. Len(cpus) : Target(t) = cpus[i]
  <1> DEFINE before == {u \in tids : u < t}
  <1>1. Cardinality(before) \in Nat
    <2>1. before \in SUBSET (1 .. MaxTid)
      BY DEF ScriptOK, Tids
    <2>2. IsFiniteSet(1 .. MaxTid)
      BY TidFacts, FS_Interval
    <2> QED
      BY <2>1, <2>2, FS_Subset, FS_CardinalityType
  <1>2. Len(cpus) \in Nat /\ Len(cpus) > 0
    BY LenProperties, EmptySeq DEF ScriptOK
  <1> HIDE DEF before
  <1> DEFINE n == Cardinality(before)
             l == Len(cpus)
  <1>3. n % l \in 0 .. l - 1
    <2> HIDE DEF n, l
    <2>1. n \in Nat /\ l \in Nat /\ l > 0
      BY <1>1, <1>2 DEF n, l
    <2> QED
      BY <2>1
  <1>4. (n % l) + 1 \in 1 .. l
    BY <1>2, <1>3
  <1>5. Target(t) = cpus[(n % l) + 1]
    BY DEF Target, before
  <1> QED
    BY <1>4, <1>5

\* The place of a thread is that in the list.
LEMMA TargetSame ==
  ASSUME UNCHANGED <<cpus, tids>>
  PROVE  \A t : Target(t)' = Target(t)
  BY DEF Target

\* What a step that touches no thread keeps.
LEMMA ThreadsKept ==
  ASSUME ThreadsOK, task' = task,
         pc' \in {"plan", "launch"} => pc \in {"plan", "launch"},
         pc' = "refused" => pc \in {"plan", "launch", "refused"}
  PROVE  ThreadsOK'
  BY DEF ThreadsOK, ThreadOK

-----------------------------------------------------------------------------
\* Before the start there are only strangers, with all CPUs.
LEMMA LiveInit == Init => LiveInv
  <1> SUFFICES ASSUME Init PROVE LiveInv
    OBVIOUS
  <1>1. ScriptOK
    <2>1. 1 \in Tids /\ 0 \in 0 .. MaxBirths
      BY TidFacts
    <2>2. /\ pc = "plan" /\ cpus = <<>> /\ at = 1 /\ found = {} /\ tids = {}
          /\ report = [t \in Tids |-> "none"] /\ births = 0 /\ strangers = FALSE
      BY DEF Init
    <2>3. report \in [Tids -> {"none", "applied", "skipped", "failed"}]
      BY <2>2
    <2> QED
      BY <2>1, <2>2, <2>3, EmptySeq DEF ScriptOK, Before
  <1>2. \A t \in Tids : task[t] # NoTask => t \in Others /\ task[t] = Process(t, FALSE)
    BY DEF Init
  <1>3. \A t \in Tids : task[t] # NoTask =>
          task[t].pid = t /\ ~ task[t].ours /\ ~ task[t].first /\ task[t].live /\ task[t].mask = CpuSet
    <2> SUFFICES ASSUME NEW t \in Tids, task[t] # NoTask
                 PROVE  /\ task[t].pid = t /\ ~ task[t].ours /\ ~ task[t].first /\ task[t].live
                        /\ task[t].mask = CpuSet
      OBVIOUS
    <2>1. task[t] = Process(t, FALSE)
      BY <1>2
    <2> QED
      BY <2>1, ProcessFields, ZenonT(30)
  <1>4. \A t \in Others : t \in Tids /\ task[t] = Process(t, FALSE) /\ Process(t, FALSE) \in Task
    BY LiveAffinityAssumption DEF Init, Process, Task
  <1>5. ThreadsOK
    <2>1. task \in [Tids -> Task \cup {NoTask}]
      BY <1>4 DEF Init
    <2>2. task[Leader] = NoTask
      BY LiveAffinityAssumption DEF Init
    <2>3. ASSUME NEW t \in Tids, task[t] # NoTask PROVE ThreadOK(t) /\ ~ task[t].ours
      <3>1. task[t].pid = t /\ ~ task[t].ours /\ ~ task[t].first /\ task[t].live
        BY <1>3, <2>3
      <3> QED
        BY <2>3, <3>1 DEF ThreadOK
    <2> QED
      BY <2>1, <2>2, <2>3 DEF ThreadsOK
  <1>6. \A t \in Tids : task[t] # NoTask => ~ task[t].ours /\ task[t].mask = CpuSet
    BY <1>3
  <1>7. EarlyListed /\ TameOK
    BY <1>6 DEF EarlyListed, TameOK
  <1>8. StrangersOK
    BY <1>6 DEF Init, StrangersOK, Working
  <1> QED
    BY <1>1, <1>5, <1>7, <1>8 DEF LiveInv

-----------------------------------------------------------------------------
(* The plan and the workload. *)

\* A plan without a CPU is refused.
LEMMA LoadPlanInv ==
  ASSUME LiveInv, LoadPlan
  PROVE  LiveInv'
  <1>1. PICK plan \in Plans, opt \in Options : cpus' \in Ascending(PlannedCpus(plan, opt))
    BY DEF LoadPlan
  <1> DEFINE S == PlannedCpus(plan, opt)
             n == Cardinality(S)
  <1>2. S \subseteq Nat /\ IsFiniteSet(S)
    <2>1. IsFiniteSet(plan) /\ \A r \in plan : r.cpu \in Nat
      BY LiveAffinityAssumption
    <2>2. PICK chosen \in SUBSET plan : S = {r.cpu : r \in chosen}
      BY DEF PlannedCpus
    <2>3. IsFiniteSet(chosen)
      BY <2>1, FS_Subset
    <2>4. [r \in chosen |-> r.cpu] \in Surjection(chosen, S)
      BY <2>2 DEF Surjection
    <2> QED
      BY <2>1, <2>2, <2>3, <2>4, FS_Surjection
  <1>3. n \in Nat /\ cpus' \in [1 .. n -> S]
    BY <1>1, <1>2, FS_CardinalityType DEF Ascending
  <1> HIDE DEF S, n
  <1>4. cpus' \in Seq(Nat)
    <2>1. cpus' \in [1 .. n -> Nat]
      BY <1>2, <1>3
    <2> QED
      BY <1>3, <2>1, SeqDef
  <1>5. /\ pc = "plan" /\ pc' = IF cpus' = <<>> THEN "refused" ELSE "launch"
        /\ UNCHANGED <<at, found, tids, report, task, births, strangers>>
    BY DEF LoadPlan, machine
  <1>6. ScriptOK'
    BY <1>4, <1>5 DEF LiveInv, ScriptOK, Before, Ended
  <1>7. ThreadsOK'
    BY <1>5, ThreadsKept DEF LiveInv
  <1>8. EarlyListed' /\ TameOK'
    BY <1>5 DEF LiveInv, ThreadsOK, EarlyListed, TameOK
  <1>9. StrangersOK'
    BY <1>5 DEF LiveInv, StrangersOK, Working
  <1> QED
    BY <1>6, <1>7, <1>8, <1>9 DEF LiveInv

\* The workload is one process.
LEMMA LaunchInv ==
  ASSUME LiveInv, Launch
  PROVE  LiveInv'
  <1>1. /\ pc = "launch" /\ pc' = "settle" /\ task[Leader] = NoTask
        /\ task' = [task EXCEPT ![Leader] = Process(Leader, TRUE)]
        /\ UNCHANGED <<cpus, at, found, tids, report, births, strangers>>
    BY DEF Launch
  <1>2. task \in [Tids -> Task \cup {NoTask}] /\ Leader \in Tids /\ Process(Leader, TRUE) \in Task
    BY TidFacts DEF LiveInv, ThreadsOK, Process, Task
  <1>3. /\ task' \in [Tids -> Task \cup {NoTask}] /\ task'[Leader] = Process(Leader, TRUE)
        /\ \A t \in Tids : t # Leader => task'[t] = task[t]
    BY <1>1, <1>2
  <1>4. ScriptOK'
    BY <1>1 DEF LiveInv, ScriptOK, Before, Working, Ended
  <1>5. ThreadsOK'
    <2>1. ASSUME NEW t \in Tids, task'[t] # NoTask PROVE ThreadOK(t)'
      <3>1. CASE t = Leader
        <4>1. /\ task'[t].pid = Leader /\ task'[t].ours /\ task'[t].first /\ task'[t].live
          BY <1>3, <3>1, ProcessFields, ZenonT(30)
        <4> QED
          BY <2>1, <3>1, <4>1 DEF ThreadOK
      <3>2. CASE t # Leader
        <4>1. task[t] # NoTask /\ task'[t] = task[t] /\ ThreadOK(t)
          BY <1>3, <2>1, <3>2 DEF LiveInv, ThreadsOK
        <4>2. task[t].pid \in Tids /\ task[t].pid # Leader
          BY <1>1, <4>1, TaskFields DEF LiveInv, ThreadOK
        <4> QED
          BY <1>3, <4>1, <4>2 DEF ThreadOK
      <3> QED
        BY <3>1, <3>2
    <2> QED
      BY <1>1, <1>3, <2>1 DEF ThreadsOK
  <1>6. EarlyListed'
    BY <1>1 DEF EarlyListed, EarlyOK, Over
  <1>7. TameOK'
    BY <1>1, <1>3 DEF LiveInv, TameOK, Process, Over, Ended
  <1>8. StrangersOK'
    BY <1>1, <1>3 DEF LiveInv, StrangersOK, Process, Working
  <1> QED
    BY <1>4, <1>5, <1>6, <1>7, <1>8 DEF LiveInv

\* The list is begun at the first TID.
LEMMA SettledInv ==
  ASSUME LiveInv, Settled
  PROVE  LiveInv'
  <1>1. /\ pc = "settle" /\ pc' = "walk" /\ at = 1
        /\ UNCHANGED <<cpus, at, found, tids, report, task, births, strangers>>
    BY DEF Settled, machine, LiveInv, ScriptOK, Before
  <1>2. ScriptOK'
    BY <1>1 DEF LiveInv, ScriptOK, Before, Working, Ended
  <1>3. ThreadsOK'
    BY <1>1, ThreadsKept DEF LiveInv
  <1>4. EarlyListed'
    <2> SUFFICES ASSUME NEW t \in Tids, task[t] # NoTask PROVE ~ (task[t].pid < 1)
      BY <1>1 DEF EarlyListed, EarlyOK, Over
    <2> QED
      BY TaskFields, TidFacts DEF LiveInv
  <1>5. TameOK'
    BY <1>1 DEF LiveInv, TameOK, Over, Ended
  <1>6. StrangersOK'
    BY <1>1 DEF LiveInv, StrangersOK, ScriptOK, Before
  <1> QED
    BY <1>2, <1>3, <1>4, <1>5, <1>6 DEF LiveInv

-----------------------------------------------------------------------------
(* The list of threads. *)

\* One TID further, or the next pass.
LEMMA Advanced ==
  ASSUME ScriptOK, NEW next, Advance(next)
  PROVE  /\ at \in Nat /\ at >= 1 /\ at' \in Tids
         /\ \/ at < MaxTid /\ at' = at + 1 /\ pc' = pc
            \/ at = MaxTid /\ at' = 1 /\ pc' = next
  BY TidFacts DEF ScriptOK, Advance

\* The process of a thread in hand, or a pass before, is in the list.
LEMMA WalkInv ==
  ASSUME LiveInv, Walk
  PROVE  LiveInv'
  <1>1. /\ pc = "walk"
        /\ found' = IF task[at] # NoTask /\ task[at].pid = at THEN found \cup {at} ELSE found
        /\ UNCHANGED <<cpus, tids, report, task, births, strangers>>
    BY DEF Walk, machine
  <1>2. /\ at \in Nat /\ at >= 1 /\ at \in Tids /\ at' \in Tids
        /\ \/ at < MaxTid /\ at' = at + 1 /\ pc' = "walk"
           \/ at = MaxTid /\ at' = 1 /\ pc' = "stat"
    BY <1>1, Advanced DEF Walk, LiveInv, ScriptOK
  <1>3. ScriptOK'
    BY <1>1, <1>2 DEF LiveInv, ScriptOK, Before, Working, Ended
  <1>4. ThreadsOK'
    BY <1>1, <1>2, ThreadsKept DEF LiveInv
  <1>5. EarlyListed'
    <2> SUFFICES ASSUME NEW t \in Tids, task[t] # NoTask, task[t].ours, task[t].kind = "early",
                        pc' = "walk" => task[t].pid < at'
                 PROVE  task[t].pid \in found'
      BY <1>1, <1>2 DEF EarlyListed, EarlyOK, Over
    <2>1. PICK p \in Tids : p = task[t].pid /\ task[p] # NoTask /\ task[p].pid = p
      BY TaskFields DEF LiveInv, ThreadsOK, ThreadOK
    <2>2. p <= at
      BY <1>2, <2>1, TidFacts
    <2>3. CASE p = at
      BY <1>1, <2>1, <2>3
    <2>4. CASE p < at
      BY <1>1, <2>1, <2>4 DEF LiveInv, EarlyListed, EarlyOK
    <2> QED
      BY <1>2, <2>1, <2>2, <2>3, <2>4, TidFacts
  <1>6. TameOK'
    BY <1>1 DEF LiveInv, TameOK, Over, Ended
  <1>7. StrangersOK'
    <2>1. \A p \in found' : ~ (pc' = "stat" /\ p < at')
      BY <1>1, <1>2, <1>3, TidFacts DEF ScriptOK
    <2> QED
      BY <1>1, <1>2, <2>1 DEF LiveInv, StrangersOK, NotStranger, Working
  <1> QED
    BY <1>3, <1>4, <1>5, <1>6, <1>7 DEF LiveInv

\* A process of the workload stays in the list, any other in hand goes.
LEMMA ReadStatInv ==
  ASSUME LiveInv, ReadStat
  PROVE  LiveInv'
  <1>1. /\ pc = "stat"
        /\ found' = IF task[at] # NoTask /\ task[at].ours THEN found ELSE found \ {at}
        /\ UNCHANGED <<cpus, tids, report, task, births, strangers>>
    BY DEF ReadStat, machine
  <1>2. /\ at \in Nat /\ at >= 1 /\ at \in Tids /\ at' \in Tids
        /\ \/ at < MaxTid /\ at' = at + 1 /\ pc' = "stat"
           \/ at = MaxTid /\ at' = 1 /\ pc' = "tasks"
    BY <1>1, Advanced DEF ReadStat, LiveInv, ScriptOK
  <1>3. ScriptOK'
    BY <1>1, <1>2 DEF LiveInv, ScriptOK, Before, Working, Ended
  <1>4. ThreadsOK'
    BY <1>1, <1>2, ThreadsKept DEF LiveInv
  <1>5. EarlyListed'
    <2>1. ASSUME NEW t \in Tids, task[t] # NoTask, task[t].ours, task[t].kind = "early"
          PROVE  task[t].pid \in found' /\ task[t].pid \in Tids
      <3>1. PICK p \in Tids : p = task[t].pid /\ task[p] # NoTask /\ task[p].ours
        BY <2>1, TaskFields DEF LiveInv, ThreadsOK, ThreadOK
      <3>2. p \in found
        BY <1>1, <2>1, <3>1 DEF LiveInv, EarlyListed, EarlyOK
      <3> QED
        BY <1>1, <3>1, <3>2
    <2>2. ASSUME NEW t \in Tids, task[t] # NoTask PROVE ~ (pc' = "tasks" /\ task[t].pid < at')
      <3>1. PICK p \in Tids : p = task[t].pid
        BY <2>2, TaskFields DEF LiveInv
      <3>2. pc' = "tasks" => ~ (p < at')
        BY <1>2, TidFacts
      <3> QED
        BY <3>1, <3>2
    <2> QED
      BY <1>1, <1>2, <2>1, <2>2 DEF EarlyListed, EarlyOK, Over
  <1>6. TameOK'
    BY <1>1 DEF LiveInv, TameOK, Over, Ended
  <1>7. StrangersOK'
    <2>1. ASSUME ~ strangers, NEW p \in found', p <= at PROVE NotStranger(p)
      <3>1. p \in found /\ p \in Nat
        BY <1>1, TidFacts DEF LiveInv, ScriptOK
      <3>2. CASE p = at
        BY <1>1, <3>2 DEF NotStranger
      <3>3. CASE p < at
        BY <1>1, <2>1, <3>1, <3>3 DEF LiveInv, StrangersOK
      <3> QED
        BY <1>2, <2>1, <3>1, <3>2, <3>3
    <2>2. \A p \in found' : p \in Nat /\ p <= MaxTid
      BY <1>3, TidFacts DEF ScriptOK
    <2>3. ~ strangers => \A p \in found' : (p < at' \/ pc' = "tasks") => NotStranger(p)
      BY <1>2, <2>1, <2>2, TidFacts
    <2> QED
      BY <1>1, <1>2, <2>3 DEF LiveInv, StrangersOK, NotStranger, Working
  <1> QED
    BY <1>3, <1>4, <1>5, <1>6, <1>7 DEF LiveInv

\* All threads of the process in hand are in the list.
LEMMA ListTasksInv ==
  ASSUME LiveInv, ListTasks
  PROVE  LiveInv'
  <1>1. /\ pc = "tasks"
        /\ tids' = IF at \in found /\ task[at] # NoTask THEN tids \cup ThreadsOf(at) ELSE tids
        /\ UNCHANGED <<cpus, found, report, task, births, strangers>>
    BY DEF ListTasks, machine
  <1>2. /\ at \in Nat /\ at >= 1 /\ at \in Tids /\ at' \in Tids
        /\ \/ at < MaxTid /\ at' = at + 1 /\ pc' = "tasks"
           \/ at = MaxTid /\ at' = 1 /\ pc' = "bind"
    BY <1>1, Advanced DEF ListTasks, LiveInv, ScriptOK
  <1>3. ScriptOK'
    <2>1. tids' \subseteq Tids
      BY <1>1 DEF LiveInv, ScriptOK, ThreadsOf
    <2> QED
      BY <1>1, <1>2, <2>1 DEF LiveInv, ScriptOK, Before, Working, Ended
  <1>4. ThreadsOK'
    BY <1>1, <1>2, ThreadsKept DEF LiveInv
  <1>5. EarlyListed'
    <2>1. ASSUME NEW t \in Tids, task[t] # NoTask, task[t].ours, task[t].kind = "early"
          PROVE  /\ task[t].pid \in found /\ task[t].pid \in Tids
                 /\ task[t].pid <= at => t \in tids'
      <3>1. PICK p \in Tids : p = task[t].pid /\ task[p] # NoTask /\ task[p].pid = p
        BY <2>1, TaskFields DEF LiveInv, ThreadsOK, ThreadOK
      <3>2. p \in found /\ (p < at => t \in tids)
        BY <1>1, <2>1, <3>1 DEF LiveInv, EarlyListed, EarlyOK
      <3>3. p = at => t \in tids'
        BY <1>1, <2>1, <3>1, <3>2 DEF ThreadsOf
      <3>4. p <= at => t \in tids'
        BY <1>2, <3>2, <3>3, TidFacts, <1>1
      <3> QED
        BY <1>1, <3>1, <3>2, <3>4
    <2>2. ASSUME NEW t \in Tids, task[t] # NoTask, task[t].ours, task[t].kind = "early"
          PROVE  EarlyOK(t)'
      <3>1. PICK p \in Tids : p = task[t].pid
        BY <2>1, <2>2
      <3>2. p \in found' /\ (p <= at => t \in tids')
        BY <1>1, <2>1, <2>2, <3>1
      <3>3. CASE pc' = "tasks"
        <4>1. p < at' => p <= at
          BY <1>2, <3>3, TidFacts
        <4> QED
          BY <1>1, <3>1, <3>2, <3>3, <4>1 DEF EarlyOK, Over
      <3>4. CASE pc' = "bind"
        <4>1. p <= at /\ ~ (t < at')
          BY <1>2, <3>4, TidFacts
        <4> QED
          BY <3>2, <3>4, <4>1 DEF EarlyOK, Over
      <3> QED
        BY <1>2, <3>3, <3>4
    <2> QED
      BY <1>1, <2>2 DEF EarlyListed
  <1>6. TameOK'
    BY <1>1 DEF LiveInv, TameOK, Over, Ended
  <1>7. StrangersOK'
    <2>1. ASSUME ~ strangers, NEW t \in tids' PROVE NotStranger(t)
      <3>1. CASE t \in tids
        BY <1>1, <2>1, <3>1 DEF LiveInv, StrangersOK, Working
      <3>2. CASE t \in ThreadsOf(at) /\ at \in found /\ task[at] # NoTask
        <4>1. task[at].ours
          BY <1>1, <2>1, <3>2 DEF LiveInv, StrangersOK, NotStranger
        <4>2. t \in Tids /\ task[t] # NoTask /\ task[t].pid = task[at].pid
          BY <3>2 DEF ThreadsOf
        <4>3. task[t].ours = task[at].ours
          BY <1>2, <3>2, <4>2 DEF LiveInv, ThreadsOK, ThreadOK
        <4> QED
          BY <4>1, <4>3 DEF NotStranger
      <3> QED
        BY <1>1, <3>1, <3>2
    <2>2. ~ strangers => \A t \in tids' : NotStranger(t)
      BY <2>1
    <2> QED
      BY <1>1, <1>2, <2>2 DEF LiveInv, StrangersOK, NotStranger, Working
  <1> QED
    BY <1>3, <1>4, <1>5, <1>6, <1>7 DEF LiveInv

-----------------------------------------------------------------------------
(* The loop over the list. *)

\* The loop goes on: an early thread in hand has been bound, or no longer counts.
LEMMA LoopGoesOn ==
  ASSUME LiveInv, pc \in {"bind", "after"}, at' \in Tids,
         \/ at < MaxTid /\ at' = at + 1 /\ pc' = "bind"
         \/ at = MaxTid /\ at' = 1 /\ pc' = "report",
         UNCHANGED <<cpus, found, tids, births, strangers>>,
         report' \in [Tids -> {"none", "applied", "skipped", "failed"}],
         ThreadsOK',
         \A t \in Tids : task'[t] # NoTask =>
           /\ task[t] # NoTask /\ task'[t].ours = task[t].ours /\ task'[t].mask = task[t].mask
           /\ task'[t].kind \in {task[t].kind, "loose"},
         pc = "bind" => ~ (task'[at] # NoTask /\ task'[at].ours /\ task'[at].kind = "early")
  PROVE  LiveInv'
  <1>1. /\ at \in Tids /\ at \in Nat /\ at >= 1 /\ at <= MaxTid /\ MaxTid \in Nat
        /\ \A t \in Tids : t \in Nat /\ t >= 1 /\ t <= MaxTid
    BY TidFacts DEF LiveInv, ScriptOK
  <1>2. ScriptOK'
    BY DEF LiveInv, ScriptOK, Before, Working, Over, Ended
  <1>3. EarlyListed'
    <2>1. ASSUME NEW t \in Tids, task'[t] # NoTask, task'[t].ours, task'[t].kind = "early"
          PROVE  t \in tids /\ (t <= at => task'[t].mask = {Target(t)})
      <3>1. /\ task[t] # NoTask /\ task[t].ours /\ task[t].kind = "early"
            /\ task'[t].mask = task[t].mask
        BY <2>1
      <3>2. EarlyOK(t)
        BY <3>1 DEF LiveInv, EarlyListed
      <3>3. t = at => pc = "after"
        BY <2>1
      <3> QED
        BY <1>1, <3>1, <3>2, <3>3 DEF EarlyOK
    <2>2. ASSUME NEW t \in Tids, task'[t] # NoTask, task'[t].ours, task'[t].kind = "early"
          PROVE  EarlyOK(t)'
      <3>1. Target(t)' = Target(t)
        BY TargetSame
      <3>2. (pc' = "bind" /\ t < at') \/ pc' = "report" => t <= at
        BY <1>1
      <3> QED
        BY <2>1, <2>2, <3>1, <3>2 DEF EarlyOK, Over
    <2> QED
      BY <2>2 DEF EarlyListed
  <1>4. TameOK'
    BY DEF LiveInv, TameOK, Over, Ended
  <1>5. StrangersOK'
    <2>1. ~ strangers => \A t \in tids : NotStranger(t)'
      BY DEF LiveInv, StrangersOK, NotStranger, Working, ScriptOK
    <2>2. ~ strangers => \A t \in Tids : task'[t] # NoTask /\ ~ task'[t].ours => task'[t].mask = CpuSet
      BY DEF LiveInv, StrangersOK
    <2> QED
      BY <2>1, <2>2 DEF StrangersOK
  <1> QED
    BY <1>2, <1>3, <1>4, <1>5 DEF LiveInv

\* A TID that is not in the list is passed over.
LEMMA PassOverInv ==
  ASSUME LiveInv, PassOver
  PROVE  LiveInv'
  <1>1. /\ pc = "bind" /\ at \notin tids
        /\ UNCHANGED <<cpus, found, tids, report, task, births, strangers>>
    BY DEF PassOver, machine
  <1>2. /\ at' \in Tids
        /\ \/ at < MaxTid /\ at' = at + 1 /\ pc' = "bind"
           \/ at = MaxTid /\ at' = 1 /\ pc' = "report"
    BY <1>1, Advanced DEF PassOver, LiveInv
  <1>3. ~ (task[at] # NoTask /\ task[at].ours /\ task[at].kind = "early")
    BY <1>1 DEF LiveInv, EarlyListed, EarlyOK, ScriptOK
  <1>4. ThreadsOK'
    BY <1>1, <1>2, ThreadsKept DEF LiveInv
  <1>5. report \in [Tids -> {"none", "applied", "skipped", "failed"}]
    BY DEF LiveInv, ScriptOK
  <1> QED
    BY <1>1, <1>2, <1>3, <1>4, <1>5, LoopGoesOn

\* The thread in hand is reported; if it was early it has been bound.
LEMMA ReadBackInv ==
  ASSUME LiveInv, ReadBack
  PROVE  LiveInv'
  <1>1. /\ pc = "after"
        /\ report' = [report EXCEPT ![at] = IF task[at] = NoTask THEN "skipped" ELSE "applied"]
        /\ UNCHANGED <<cpus, found, tids, task, births, strangers>>
    BY DEF ReadBack, Reported, machine
  <1>2. /\ at' \in Tids
        /\ \/ at < MaxTid /\ at' = at + 1 /\ pc' = "bind"
           \/ at = MaxTid /\ at' = 1 /\ pc' = "report"
    BY TidFacts DEF ReadBack, LiveInv, ScriptOK
  <1>3. ThreadsOK'
    BY <1>1, <1>2, ThreadsKept DEF LiveInv
  <1>4. report' \in [Tids -> {"none", "applied", "skipped", "failed"}]
    BY <1>1 DEF LiveInv, ScriptOK
  <1> QED
    BY <1>1, <1>2, <1>3, <1>4, LoopGoesOn

\* There is no thread in hand.
LEMMA BindExitedInv ==
  ASSUME LiveInv, BindExited
  PROVE  LiveInv'
  <1>1. /\ pc = "bind" /\ task[at] = NoTask
        /\ report' = [report EXCEPT ![at] = "skipped"]
        /\ UNCHANGED <<cpus, found, tids, task, births, strangers>>
    BY DEF BindExited, Reported, machine
  <1>2. /\ at' \in Tids
        /\ \/ at < MaxTid /\ at' = at + 1 /\ pc' = "bind"
           \/ at = MaxTid /\ at' = 1 /\ pc' = "report"
    BY <1>1, Advanced DEF BindExited, LiveInv
  <1>3. ThreadsOK'
    BY <1>1, <1>2, ThreadsKept DEF LiveInv
  <1>4. report' \in [Tids -> {"none", "applied", "skipped", "failed"}]
    BY <1>1 DEF LiveInv, ScriptOK
  <1> QED
    BY <1>1, <1>2, <1>3, <1>4, LoopGoesOn

\* A thread that differs in its CPUs and its birth only.
LEMMA ThreadTouched ==
  ASSUME ThreadsOK, NEW a \in Tids, task[a] # NoTask, NEW r \in Task,
         r.pid = task[a].pid, r.ours = task[a].ours, r.first = task[a].first,
         r.live = task[a].live,
         task' = [task EXCEPT ![a] = r],
         pc \notin {"plan", "launch", "refused"}, pc' \notin {"plan", "launch", "refused"}
  PROVE  /\ ThreadsOK' /\ task'[a] = r
         /\ \A t \in Tids : /\ task'[t] # NoTask <=> task[t] # NoTask
                            /\ t # a => task'[t] = task[t]
  <1>1. r # NoTask
    BY TidFacts
  <1>2. /\ task' \in [Tids -> Task \cup {NoTask}] /\ task'[a] = r
        /\ \A t \in Tids : t # a => task'[t] = task[t]
    BY DEF ThreadsOK
  <1>3. \A t \in Tids : task'[t] # NoTask <=> task[t] # NoTask
    BY <1>1, <1>2
  <1>4. \A t \in Tids : task[t] # NoTask =>
          /\ task'[t].pid = task[t].pid /\ task'[t].ours = task[t].ours
          /\ task'[t].first = task[t].first /\ task'[t].live = task[t].live
    BY <1>2
  <1>5. ASSUME NEW t \in Tids, task'[t] # NoTask PROVE ThreadOK(t)'
    <2>1. task[t] # NoTask /\ ThreadOK(t)
      BY <1>3, <1>5 DEF ThreadsOK
    <2>2. PICK p \in Tids : p = task[t].pid /\ p = task'[t].pid
      BY <1>4, <2>1, TaskFields
    <2>3. task[p] # NoTask
      BY <2>1, <2>2 DEF ThreadOK
    <2>4. /\ task'[p].pid = task[p].pid /\ task'[p].ours = task[p].ours
          /\ task'[p].live = task[p].live /\ task'[p] # NoTask
      BY <1>3, <1>4, <2>2, <2>3
    <2> QED
      BY <1>4, <2>1, <2>2, <2>3, <2>4 DEF ThreadOK
  <1> QED
    BY <1>2, <1>3, <1>5 DEF ThreadsOK

\* The thread in hand has the CPU of its place.
LEMMA BindInv ==
  ASSUME LiveInv, Bind
  PROVE  LiveInv'
  <1>1. PICK a \in Tids : a = at
    BY DEF LiveInv, ScriptOK
  <1>2. /\ pc = "bind" /\ pc' = "after" /\ a \in tids /\ task[a] # NoTask /\ Target(a) \in CpuSet
        /\ task' = [task EXCEPT ![a].mask = {Target(a)}]
        /\ UNCHANGED <<cpus, at, found, tids, report, births, strangers>>
    BY <1>1 DEF Bind
  <1> DEFINE r == [task[a] EXCEPT !.mask = {Target(a)}]
  <1>3. /\ r \in Task /\ r.pid = task[a].pid /\ r.ours = task[a].ours /\ r.first = task[a].first
        /\ r.live = task[a].live /\ r.kind = task[a].kind /\ r.mask = {Target(a)}
    BY <1>2, TaskFields DEF LiveInv, Task
  <1>4. task' = [task EXCEPT ![a] = r]
    BY <1>2
  <1> HIDE DEF r
  <1>5. /\ ThreadsOK' /\ task'[a] = r
        /\ \A t \in Tids : /\ task'[t] # NoTask <=> task[t] # NoTask
                           /\ t # a => task'[t] = task[t]
    BY <1>2, <1>3, <1>4, ThreadTouched DEF LiveInv
  <1>6. ScriptOK'
    BY <1>2 DEF LiveInv, ScriptOK, Before, Working, Ended
  <1>7. EarlyListed'
    <2> SUFFICES ASSUME NEW t \in Tids, task'[t] # NoTask, task'[t].ours, task'[t].kind = "early"
                 PROVE  EarlyOK(t)'
      BY DEF EarlyListed
    <2>1. Target(t)' = Target(t)
      BY <1>2, TargetSame
    <2>2. task[t] # NoTask /\ task[t].ours /\ task[t].kind = "early"
      BY <1>3, <1>5
    <2>3. EarlyOK(t)
      BY <2>2 DEF LiveInv, EarlyListed
    <2>4. t <= a => task'[t].mask = {Target(t)}
      <3>1. t = a => task'[t].mask = {Target(t)}
        BY <1>3, <1>5
      <3>2. t < a => task'[t].mask = {Target(t)}
        BY <1>1, <1>2, <1>5, <2>3, TidFacts DEF EarlyOK
      <3> QED
        BY <3>1, <3>2, TidFacts
    <2> QED
      BY <1>1, <1>2, <2>1, <2>3, <2>4 DEF EarlyOK, Over
  <1>8. TameOK'
    BY <1>2, <1>3, <1>5 DEF LiveInv, TameOK, Over, Ended
  <1>9. StrangersOK'
    <2>1. ASSUME ~ strangers PROVE task[a].ours /\ \A t \in tids : NotStranger(t)
      BY <1>2, <2>1 DEF LiveInv, StrangersOK, NotStranger, Working
    <2>2. ~ strangers => \A t \in tids : NotStranger(t)'
      BY <1>3, <1>5, <2>1 DEF NotStranger, LiveInv, ScriptOK
    <2>3. ~ strangers => \A t \in Tids : task'[t] # NoTask /\ ~ task'[t].ours => task'[t].mask = CpuSet
      BY <1>3, <1>5, <2>1 DEF LiveInv, StrangersOK
    <2> QED
      BY <1>2, <2>2, <2>3 DEF StrangersOK
  <1> QED
    BY <1>5, <1>6, <1>7, <1>8, <1>9 DEF LiveInv

\* A thread whose binding failed no longer counts.
LEMMA BindFailsInv ==
  ASSUME LiveInv, BindFails
  PROVE  LiveInv'
  <1>1. PICK a \in Tids : a = at
    BY DEF LiveInv, ScriptOK
  <1>2. /\ pc = "bind" /\ task[a] # NoTask
        /\ report' = [report EXCEPT ![a] = "failed"]
        /\ task' = [task EXCEPT ![a].kind = "loose"]
        /\ UNCHANGED <<cpus, found, tids, births, strangers>>
    BY <1>1 DEF BindFails, Reported
  <1>3. /\ at' \in Tids
        /\ \/ at < MaxTid /\ at' = at + 1 /\ pc' = "bind"
           \/ at = MaxTid /\ at' = 1 /\ pc' = "report"
    BY <1>2, Advanced DEF BindFails, LiveInv
  <1> DEFINE r == [task[a] EXCEPT !.kind = "loose"]
  <1>4. /\ r \in Task /\ r.pid = task[a].pid /\ r.ours = task[a].ours /\ r.first = task[a].first
        /\ r.live = task[a].live /\ r.kind = "loose" /\ r.mask = task[a].mask
    BY <1>2, TaskFields DEF LiveInv, Task
  <1>5. task' = [task EXCEPT ![a] = r]
    BY <1>2
  <1> HIDE DEF r
  <1>6. /\ ThreadsOK' /\ task'[a] = r
        /\ \A t \in Tids : /\ task'[t] # NoTask <=> task[t] # NoTask
                           /\ t # a => task'[t] = task[t]
    BY <1>2, <1>3, <1>4, <1>5, ThreadTouched, ZenonT(30) DEF LiveInv
  <1>7. report' \in [Tids -> {"none", "applied", "skipped", "failed"}]
    BY <1>2 DEF LiveInv, ScriptOK
  <1> QED
    BY <1>1, <1>2, <1>3, <1>4, <1>6, <1>7, LoopGoesOn

-----------------------------------------------------------------------------
(* The report, and the end of the workload. *)

\* The script goes on after the loop, or ends; with it threads may be gone.
LEMMA EndStep ==
  ASSUME LiveInv, pc \notin Ended, pc' \in Over \cup {"done", "crashed"},
         pc' \in Over => pc \in Over /\ task' = task,
         \A t \in Tids : task'[t] # NoTask => task'[t] = task[t],
         UNCHANGED <<cpus, at, found, tids, report, births, strangers>>,
         ThreadsOK'
  PROVE  LiveInv'
  <1>1. ScriptOK'
    BY DEF LiveInv, ScriptOK, Before, Working, Over, Ended
  <1>2. pc' \in Over \/ pc' \in {"done", "crashed"}
    OBVIOUS
  <1>3. EarlyListed'
    <2>1. CASE pc' \in Over
      <3>1. task' = task /\ pc \in Over /\ \A t : Target(t)' = Target(t)
        BY <2>1, TargetSame
      <3> QED
        BY <2>1, <3>1 DEF LiveInv, EarlyListed, EarlyOK, Over
    <2>2. CASE pc' \in {"done", "crashed"}
      BY <2>2 DEF EarlyListed, EarlyOK, Over
    <2> QED
      BY <1>2, <2>1, <2>2
  <1>4. TameOK'
    <2>1. CASE pc' \in Over
      BY <2>1 DEF LiveInv, TameOK
    <2>2. CASE pc' \in {"done", "crashed"}
      BY <2>2 DEF TameOK, Over, Ended
    <2> QED
      BY <1>2, <2>1, <2>2
  <1>5. StrangersOK'
    <2>1. pc' \notin Working
      BY DEF Over, Working
    <2>2. ~ strangers => \A t \in Tids : task'[t] # NoTask /\ ~ task'[t].ours => task'[t].mask = CpuSet
      BY DEF LiveInv, StrangersOK
    <2> QED
      BY <2>1, <2>2 DEF StrangersOK, Working
  <1> QED
    BY <1>1, <1>3, <1>4, <1>5 DEF LiveInv

\* All threads of a process may go together.
LEMMA ProcessGone ==
  ASSUME ThreadsOK, NEW p \in Tids,
         task' \in [Tids -> Task \cup {NoTask}],
         \A t \in Tids : task'[t] # NoTask => task[t] # NoTask /\ task'[t] = task[t] /\ task[t].pid # p,
         \A t \in Tids : task[t] # NoTask /\ task[t].pid # p => task'[t] = task[t],
         pc' \in {"plan", "launch"} => pc \in {"plan", "launch"},
         pc' = "refused" => pc \in {"plan", "launch", "refused"}
  PROVE  ThreadsOK'
  <1>1. ASSUME NEW t \in Tids, task'[t] # NoTask PROVE ThreadOK(t)'
    <2>1. task[t] # NoTask /\ task'[t] = task[t] /\ ThreadOK(t) /\ task[t].pid # p
      BY <1>1 DEF ThreadsOK
    <2>2. PICK q \in Tids : q = task[t].pid /\ q = task'[t].pid
      BY <2>1, TaskFields
    <2>3. task[q] # NoTask /\ task[q].pid = q
      BY <2>1, <2>2 DEF ThreadOK
    <2>4. task'[q] = task[q]
      BY <2>1, <2>2, <2>3
    <2> QED
      BY <2>1, <2>2, <2>3, <2>4 DEF ThreadOK
  <1>2. pc' \in {"plan", "launch"} => task'[Leader] = NoTask
    BY TidFacts DEF ThreadsOK
  <1>3. pc' \in {"plan", "launch", "refused"} => \A t \in Tids : task'[t] # NoTask => ~ task'[t].ours
    BY DEF ThreadsOK
  <1> QED
    BY <1>1, <1>2, <1>3 DEF ThreadsOK

\* A dead first process is the last of its threads.
LEMMA LookInv ==
  ASSUME LiveInv, NEW label \in Over, NEW next \in SUBSET (Over \cup {"crashed"}), Look(label, next)
  PROVE  LiveInv'
  <1>1. /\ pc = label
        /\ UNCHANGED <<cpus, at, found, tids, report, births, strangers>>
    BY DEF Look
  <1>2. pc \notin Ended
    BY <1>1 DEF Over, Ended
  <1>3. CASE Dead
    <2>1. /\ pc' = "done" /\ task' = [task EXCEPT ![Leader] = NoTask]
          /\ task[Leader] # NoTask /\ ~ task[Leader].live
      BY <1>3 DEF Look, Dead
    <2>2. /\ task' \in [Tids -> Task \cup {NoTask}] /\ task'[Leader] = NoTask
          /\ \A t \in Tids : t # Leader => task'[t] = task[t]
      BY <2>1, TidFacts DEF LiveInv, ThreadsOK
    <2>3. \A t \in Tids : task[t] # NoTask => (task[t].pid = Leader <=> t = Leader)
      BY <2>1, TidFacts DEF LiveInv, ThreadsOK, ThreadOK
    <2>4. /\ \A t \in Tids : task'[t] # NoTask =>
                 task[t] # NoTask /\ task'[t] = task[t] /\ task[t].pid # Leader
          /\ \A t \in Tids : task[t] # NoTask /\ task[t].pid # Leader => task'[t] = task[t]
      BY <2>2, <2>3
    <2>5. ThreadsOK'
      BY <2>1, <2>2, <2>4, TidFacts, ProcessGone DEF LiveInv
    <2> QED
      BY <1>1, <1>2, <2>1, <2>4, <2>5, EndStep DEF Over
  <1>4. CASE ~ Dead
    <2>1. task' = task /\ pc' \in next
      BY <1>4 DEF Look
    <2>2. pc' \in Over \cup {"done", "crashed"}
      BY <2>1
    <2>3. ThreadsOK'
      BY <2>1, <2>2, ThreadsKept DEF LiveInv, Over
    <2> QED
      BY <1>1, <1>2, <2>1, <2>2, <2>3, EndStep
  <1> QED
    BY <1>3, <1>4

\* The waits and the signals.
LEMMA WaitsInv ==
  ASSUME LiveInv, WaitWorkload \/ InterruptGroup \/ WaitGrace \/ TerminateGroup \/ WaitLastGrace
  PROVE  LiveInv'
  <1>1. {"wait", "poll", "grace", "pollAgain", "lastGrace", "kill"} \subseteq Over
    BY DEF Over
  <1>2. PICK label \in Over, next \in SUBSET Over : Look(label, next)
    <2>1. CASE WaitWorkload
      BY <1>1, <2>1 DEF WaitWorkload
    <2>2. CASE InterruptGroup
      BY <1>1, <2>2 DEF InterruptGroup
    <2>3. CASE WaitGrace
      BY <1>1, <2>3 DEF WaitGrace
    <2>4. CASE TerminateGroup
      BY <1>1, <2>4 DEF TerminateGroup
    <2>5. CASE WaitLastGrace
      BY <1>1, <2>5 DEF WaitLastGrace
    <2> QED
      BY <2>1, <2>2, <2>3, <2>4, <2>5
  <1> QED
    BY <1>2, LookInv

\* The first process goes with all its threads.
LEMMA KillInv ==
  ASSUME LiveInv, Kill
  PROVE  LiveInv'
  <1>1. /\ pc = "kill"
        /\ \/ pc' = "done" /\ task' = AfterKill
           \/ pc' = "crashed" /\ task' = task
        /\ UNCHANGED <<cpus, at, found, tids, report, births, strangers>>
    BY DEF Kill
  <1>2. CASE task' = task /\ pc' = "crashed"
    <2>1. ThreadsOK'
      BY <1>2, ThreadsKept DEF LiveInv
    <2> QED
      BY <1>1, <1>2, <2>1, EndStep DEF Ended, Over
  <1>3. CASE task' = AfterKill /\ pc' = "done"
    <2>1. task \in [Tids -> Task \cup {NoTask}]
      BY DEF LiveInv, ThreadsOK
    <2>2. /\ task' \in [Tids -> Task \cup {NoTask}]
          /\ \A t \in Tids : task'[t] = IF task[t] # NoTask /\ task[t].pid = Leader THEN NoTask ELSE task[t]
      BY <1>3, <2>1 DEF AfterKill
    <2>3. /\ \A t \in Tids : task'[t] # NoTask =>
                 task[t] # NoTask /\ task'[t] = task[t] /\ task[t].pid # Leader
          /\ \A t \in Tids : task[t] # NoTask /\ task[t].pid # Leader => task'[t] = task[t]
      BY <2>2
    <2>4. ThreadsOK'
      BY <1>3, <2>2, <2>3, TidFacts, ProcessGone DEF LiveInv
    <2> QED
      BY <1>1, <1>3, <2>3, <2>4, EndStep DEF Ended, Over
  <1> QED
    BY <1>1, <1>2, <1>3

\* The report is written, or the script ends with it; and Ctrl+C.
LEMMA LeaveInv ==
  ASSUME LiveInv, WriteReport \/ KeyboardInterrupt
  PROVE  LiveInv'
  <1>1. /\ pc \notin Ended
        /\ pc' \in Over \cup {"done", "crashed"} /\ (pc' \in Over => pc \in Over)
        /\ UNCHANGED <<cpus, at, found, tids, report, task, births, strangers>>
    BY DEF WriteReport, KeyboardInterrupt, Over, Ended, machine
  <1>2. ThreadsOK'
    BY <1>1, ThreadsKept DEF LiveInv, Over
  <1> QED
    BY <1>1, <1>2, EndStep

-----------------------------------------------------------------------------
(* The threads of the workload and of the machine. *)

\* Threads that end leave the others as they are.
LEMMA ThreadsEnd ==
  ASSUME LiveInv, UNCHANGED <<script, births, strangers>>, ThreadsOK',
         \A t \in Tids : task'[t] # NoTask =>
           /\ task[t] # NoTask /\ task'[t].pid = task[t].pid /\ task'[t].ours = task[t].ours
           /\ task'[t].kind = task[t].kind /\ task'[t].mask = task[t].mask
  PROVE  LiveInv'
  <1>1. UNCHANGED <<pc, cpus, at, found, tids, report>>
    BY DEF script
  <1>2. ScriptOK'
    BY <1>1 DEF LiveInv, ScriptOK
  <1>3. EarlyListed'
    <2>1. \A t : Target(t)' = Target(t)
      BY <1>1, TargetSame
    <2>2. ASSUME NEW t \in Tids, task'[t] # NoTask, task'[t].ours, task'[t].kind = "early"
          PROVE  EarlyOK(t)'
      <3>1. EarlyOK(t)
        BY <2>2 DEF LiveInv, EarlyListed
      <3> QED
        BY <1>1, <2>1, <2>2, <3>1 DEF EarlyOK
    <2> QED
      BY <2>2 DEF EarlyListed
  <1>4. TameOK'
    BY <1>1 DEF LiveInv, TameOK
  <1>5. StrangersOK'
    <2>1. \A t \in Tids : NotStranger(t) => NotStranger(t)'
      BY DEF NotStranger
    <2>2. found \subseteq Tids /\ tids \subseteq Tids
      BY DEF LiveInv, ScriptOK
    <2>3. ~ strangers => \A t \in Tids : task'[t] # NoTask /\ ~ task'[t].ours => task'[t].mask = CpuSet
      BY DEF LiveInv, StrangersOK
    <2> QED
      BY <1>1, <2>1, <2>2, <2>3 DEF LiveInv, StrangersOK
  <1> QED
    BY <1>2, <1>3, <1>4, <1>5 DEF LiveInv

\* A further thread of a process ends.
LEMMA ExitThreadInv ==
  ASSUME LiveInv, NEW a \in Tids, ExitThread(a)
  PROVE  LiveInv'
  <1>1. /\ task[a] # NoTask /\ task[a].pid # a
        /\ task' = [task EXCEPT ![a] = NoTask] /\ UNCHANGED <<script, births, strangers, pc>>
    BY DEF ExitThread, script
  <1>2. /\ task' \in [Tids -> Task \cup {NoTask}] /\ task'[a] = NoTask
        /\ \A t \in Tids : t # a => task'[t] = task[t]
    BY <1>1 DEF LiveInv, ThreadsOK
  <1>3. ThreadsOK'
    <2>1. ASSUME NEW t \in Tids, task'[t] # NoTask PROVE ThreadOK(t)'
      <3>1. task[t] # NoTask /\ task'[t] = task[t] /\ ThreadOK(t)
        BY <1>2, <2>1 DEF LiveInv, ThreadsOK
      <3>2. PICK p \in Tids : p = task[t].pid /\ p = task'[t].pid /\ task[p].pid = p
        BY <3>1, TaskFields DEF LiveInv, ThreadOK
      <3>3. task'[p] = task[p]
        BY <1>1, <1>2, <3>2
      <3> QED
        BY <3>1, <3>2, <3>3 DEF ThreadOK
    <2>2. pc \in {"plan", "launch"} => task'[Leader] = NoTask
      BY <1>2, TidFacts DEF LiveInv, ThreadsOK
    <2> QED
      BY <1>1, <1>2, <2>1, <2>2 DEF LiveInv, ThreadsOK
  <1> QED
    BY <1>1, <1>2, <1>3, ThreadsEnd

\* A process ends; the first one of the workload waits for the script.
LEMMA ExitProcessInv ==
  ASSUME LiveInv, NEW p \in Tids, ExitProcess(p)
  PROVE  LiveInv'
  <1>1. /\ task[p] # NoTask /\ task[p].pid = p /\ task[p].live
        /\ task' = [t \in Tids |->
                IF task[t] = NoTask \/ (task[t] # NoTask /\ task[t].pid # p) THEN task[t]
                ELSE IF task[t].first THEN [task[t] EXCEPT !.live = FALSE] ELSE NoTask]
        /\ UNCHANGED <<script, births, strangers, pc>>
    BY DEF ExitProcess, script
  <1>2. \A t \in Tids : task'[t] =
                IF task[t] = NoTask \/ (task[t] # NoTask /\ task[t].pid # p) THEN task[t]
                ELSE IF task[t].first THEN [task[t] EXCEPT !.live = FALSE] ELSE NoTask
    BY <1>1
  <1>3. ASSUME NEW t \in Tids, task[t] # NoTask, task[t].pid = p, task[t].first
        PROVE  /\ t = p /\ [task[t] EXCEPT !.live = FALSE] \in Task
               /\ p = Leader
    <2>1. t = Leader /\ p = Leader
      BY <1>3 DEF LiveInv, ThreadsOK, ThreadOK
    <2>2. [task[t] EXCEPT !.live = FALSE] \in Task
      BY <1>3, TaskFields DEF LiveInv, Task
    <2> QED
      BY <2>1, <2>2
  <1>4. ASSUME NEW t \in Tids, task'[t] # NoTask
        PROVE  /\ task[t] # NoTask
               /\ \/ task'[t] = task[t] /\ task[t].pid # p
                  \/ t = p /\ task[t].first /\ p = Leader /\ task'[t] = [task[t] EXCEPT !.live = FALSE]
    BY <1>2, <1>3, <1>4
  <1>5. task' \in [Tids -> Task \cup {NoTask}]
    <2>1. \A t \in Tids : task'[t] \in Task \cup {NoTask}
      BY <1>2, <1>3 DEF LiveInv, ThreadsOK
    <2> QED
      BY <1>1, <2>1
  <1>6. \A t \in Tids : task'[t] # NoTask =>
           /\ task[t] # NoTask /\ task'[t].pid = task[t].pid /\ task'[t].ours = task[t].ours
           /\ task'[t].first = task[t].first
           /\ task'[t].kind = task[t].kind /\ task'[t].mask = task[t].mask
    <2> SUFFICES ASSUME NEW t \in Tids, task'[t] # NoTask
                 PROVE  /\ task[t] # NoTask /\ task'[t].pid = task[t].pid /\ task'[t].ours = task[t].ours
                        /\ task'[t].first = task[t].first
                        /\ task'[t].kind = task[t].kind /\ task'[t].mask = task[t].mask
      OBVIOUS
    <2>1. task[t] \in Task
      BY <1>4, TaskFields DEF LiveInv
    <2> QED
      BY <1>4, <2>1 DEF Task
  <1>7. ThreadsOK'
    <2>1. ASSUME NEW t \in Tids, task'[t] # NoTask PROVE ThreadOK(t)'
      <3>1. task[t] # NoTask /\ ThreadOK(t)
        BY <1>4, <2>1 DEF LiveInv, ThreadsOK
      <3>2. CASE task'[t] = task[t] /\ task[t].pid # p
        <4>1. PICK q \in Tids : q = task[t].pid /\ q = task'[t].pid /\ task[q] # NoTask /\ task[q].pid = q
          BY <3>1, <3>2, TaskFields DEF LiveInv, ThreadOK
        <4>2. task'[q] = task[q]
          BY <1>2, <3>2, <4>1
        <4> QED
          BY <3>1, <3>2, <4>1, <4>2 DEF ThreadOK
      <3>3. CASE t = p /\ task[t].first /\ p = Leader
        <4>1. task'[t].pid = p /\ task'[t].first
          BY <1>1, <1>6, <2>1, <3>3
        <4> QED
          BY <2>1, <3>3, <4>1 DEF ThreadOK
      <3> QED
        BY <1>4, <2>1, <3>2, <3>3
    <2>2. pc \in {"plan", "launch"} => task'[Leader] = NoTask
      BY <1>2, TidFacts DEF LiveInv, ThreadsOK
    <2>3. pc \in {"plan", "launch", "refused"} => \A t \in Tids : task'[t] # NoTask => ~ task'[t].ours
      BY <1>6 DEF LiveInv, ThreadsOK
    <2> QED
      BY <1>1, <1>5, <2>1, <2>2, <2>3 DEF ThreadsOK
  <1> QED
    BY <1>1, <1>6, <1>7, ThreadsEnd

\* When a child is born decides what it counts as.
LEMMA ChildKind ==
  ASSUME NEW parent, pc \notin Ended, ScriptOK
  PROVE  /\ KindOfChild(parent) \in {"early", "loose", "tame"}
         /\ KindOfChild(parent) = "early" => pc \in Before
         /\ KindOfChild(parent) = "tame" => pc \in Over /\ parent.kind # "loose"
  <1>1. CASE pc \in Working
    BY <1>1 DEF KindOfChild, Working
  <1>2. CASE pc \in Before
    BY <1>2 DEF KindOfChild, Working, Before
  <1>3. CASE pc \in Over
    BY <1>3 DEF KindOfChild, Working, Over
  <1> QED
    BY <1>1, <1>2, <1>3 DEF ScriptOK

\* A child belongs to the process and the owner of its parent, and has its CPUs.
LEMMA ForkInv ==
  ASSUME LiveInv, pc \notin Ended, NEW t \in Tids, NEW u \in Tids, Fork(t, u)
  PROVE  LiveInv'
  <1>1. PICK p \in {u, task[t].pid} :
          task' = [task EXCEPT ![u] =
                     [task[t] EXCEPT !.pid = p, !.first = FALSE, !.kind = KindOfChild(task[t])]]
    BY DEF Fork
  <1>2. /\ task[t] # NoTask /\ task[t].live /\ task[u] = NoTask
        /\ pc \in {"plan", "launch"} => u # Leader
        /\ births < MaxBirths /\ births' = births + 1
        /\ strangers' = (strangers \/ (pc \in Working /\ ~ task[t].ours))
        /\ UNCHANGED <<pc, cpus, at, found, tids, report>>
    BY DEF Fork, script
  <1> DEFINE child == [task[t] EXCEPT !.pid = p, !.first = FALSE, !.kind = KindOfChild(task[t])]
  <1>3. /\ task[t] \in Task /\ task[t].pid \in Tids /\ p \in Tids
        /\ ThreadOK(t)
    BY <1>2, TaskFields DEF LiveInv, ThreadsOK
  <1>4. /\ child \in Task /\ child.pid = p /\ child.ours = task[t].ours /\ ~ child.first
        /\ child.live = task[t].live /\ child.mask = task[t].mask /\ child.kind = KindOfChild(task[t])
    <2>1. KindOfChild(task[t]) \in {"early", "loose", "tame"}
      BY ChildKind DEF LiveInv
    <2> QED
      BY <1>3, <2>1 DEF Task
  <1>5. task' = [task EXCEPT ![u] = child]
    BY <1>1
  <1> HIDE DEF child
  <1>6. /\ task' \in [Tids -> Task \cup {NoTask}] /\ task'[u] = child /\ child # NoTask
        /\ \A x \in Tids : x # u => task'[x] = task[x]
    BY <1>4, <1>5, TidFacts DEF LiveInv, ThreadsOK
  <1>7. ScriptOK'
    <2>1. births' \in 0 .. MaxBirths
      BY <1>2, TidFacts DEF LiveInv, ScriptOK
    <2>2. strangers' \in BOOLEAN
      BY <1>2
    <2> QED
      BY <1>2, <2>1, <2>2 DEF LiveInv, ScriptOK
  <1>8. ThreadsOK'
    <2>1. ASSUME NEW x \in Tids, task'[x] # NoTask PROVE ThreadOK(x)'
      <3>1. CASE x # u
        <4>1. task[x] # NoTask /\ task'[x] = task[x] /\ ThreadOK(x)
          BY <1>6, <2>1, <3>1 DEF LiveInv, ThreadsOK
        <4>2. PICK q \in Tids : q = task[x].pid /\ q = task'[x].pid /\ task[q] # NoTask
          BY <4>1, TaskFields DEF LiveInv, ThreadOK
        <4>3. task'[q] = task[q]
          BY <1>2, <1>6, <4>2
        <4> QED
          BY <4>1, <4>2, <4>3 DEF ThreadOK
      <3>2. CASE x = u /\ p = u
        <4>1. /\ task'[x].pid = x /\ ~ task'[x].first /\ task'[x].live
          BY <1>2, <1>4, <1>6, <3>2
        <4> QED
          BY <2>1, <4>1 DEF ThreadOK
      <3>3. CASE x = u /\ p # u
        <4>1. p = task[t].pid /\ task[p] # NoTask /\ task[p].pid = p /\ task[p].ours = task[t].ours
          BY <1>3, <3>3 DEF ThreadOK
        <4>2. task[p].live
          BY <1>2, <1>3, <4>1 DEF ThreadOK
        <4>3. task'[p] = task[p]
          BY <1>3, <1>6, <3>3
        <4>4. /\ task'[x].pid = p /\ ~ task'[x].first /\ task'[x].live /\ task'[x].ours = task[t].ours
          BY <1>2, <1>4, <1>6, <3>3
        <4> QED
          BY <4>1, <4>2, <4>3, <4>4 DEF ThreadOK
      <3> QED
        BY <3>1, <3>2, <3>3
    <2>2. pc \in {"plan", "launch"} => task'[Leader] = NoTask
      BY <1>2, <1>6, TidFacts DEF LiveInv, ThreadsOK
    <2>3. pc \in {"plan", "launch", "refused"} => \A x \in Tids : task'[x] # NoTask => ~ task'[x].ours
      BY <1>2, <1>4, <1>6 DEF LiveInv, ThreadsOK
    <2> QED
      BY <1>2, <1>6, <2>1, <2>2, <2>3 DEF ThreadsOK
  <1>9. \A x : Target(x)' = Target(x)
    BY <1>2, TargetSame
  <1>10. EarlyListed'
    <2> SUFFICES ASSUME NEW x \in Tids, task'[x] # NoTask, task'[x].ours, task'[x].kind = "early"
                 PROVE  EarlyOK(x)'
      BY DEF EarlyListed
    <2>1. CASE x # u
      <3>1. task'[x] = task[x] /\ EarlyOK(x)
        BY <1>6, <2>1 DEF LiveInv, EarlyListed
      <3> QED
        BY <1>2, <1>9, <3>1 DEF EarlyOK
    <2>2. CASE x = u
      <3>1. pc \in Before
        BY <1>4, <1>6, <2>2, ChildKind DEF LiveInv
      <3> QED
        BY <1>2, <3>1 DEF EarlyOK, Before, Over
    <2> QED
      BY <2>1, <2>2
  <1>11. TameOK'
    <2> SUFFICES ASSUME NEW x \in Tids, task'[x] # NoTask, task'[x].ours, task'[x].kind = "tame"
                 PROVE  /\ pc \in Over \cup Ended
                        /\ pc \in Over => \E i \in 1 .. Len(cpus) : task'[x].mask = {cpus[i]}
      BY <1>2 DEF TameOK
    <2>1. CASE x # u
      BY <1>6, <2>1 DEF LiveInv, TameOK
    <2>2. CASE x = u
      <3>1. pc \in Over /\ task[t].kind # "loose" /\ task[t].ours /\ task'[x].mask = task[t].mask
        BY <1>4, <1>6, <2>2, ChildKind DEF LiveInv
      <3>2. task[t].kind \in {"early", "tame"}
        BY <1>2, <3>1, TaskFields DEF LiveInv
      <3>3. CASE task[t].kind = "tame"
        BY <1>2, <3>1, <3>3 DEF LiveInv, TameOK
      <3>4. CASE task[t].kind = "early"
        <4>1. task[t].mask = {Target(t)}
          BY <1>2, <3>1, <3>4 DEF LiveInv, EarlyListed, EarlyOK
        <4>2. cpus # <<>>
          BY <3>1 DEF LiveInv, ScriptOK, Over, Ended
        <4> QED
          BY <3>1, <4>1, <4>2, TargetPlanned DEF LiveInv
      <3> QED
        BY <3>2, <3>3, <3>4
    <2> QED
      BY <2>1, <2>2
  <1>12. StrangersOK'
    <2> SUFFICES ASSUME ~ strangers'
                 PROVE  /\ \A x \in Tids : task'[x] # NoTask /\ ~ task'[x].ours => task'[x].mask = CpuSet
                        /\ pc = "stat" => \A q \in found : q < at => NotStranger(q)'
                        /\ pc = "tasks" => \A q \in found : NotStranger(q)'
                        /\ pc \in Working => \A q \in tids : NotStranger(q)'
      BY <1>2 DEF StrangersOK
    <2>1. ~ strangers /\ (pc \in Working => task[t].ours)
      BY <1>2
    <2>2. pc \in Working => \A x \in Tids : NotStranger(x) => NotStranger(x)'
      BY <1>4, <1>6, <2>1 DEF NotStranger
    <2>3. {"stat", "tasks"} \subseteq Working
      BY DEF Working
    <2>4. \A x \in Tids : task'[x] # NoTask /\ ~ task'[x].ours => task'[x].mask = CpuSet
      BY <1>2, <1>4, <1>6, <2>1 DEF LiveInv, StrangersOK
    <2>5. found \subseteq Tids /\ tids \subseteq Tids
      BY DEF LiveInv, ScriptOK
    <2> QED
      BY <2>1, <2>2, <2>3, <2>4, <2>5 DEF LiveInv, StrangersOK
  <1> QED
    BY <1>7, <1>8, <1>10, <1>11, <1>12 DEF LiveInv

-----------------------------------------------------------------------------
(* The theorems. *)

\* Every step of the script and of the machine keeps the invariant.
LEMMA LiveNext ==
  ASSUME LiveInv, [Next]_vars
  PROVE  LiveInv'
  <1>1. CASE Script
    <2>1. CASE LoadPlan \/ Launch \/ Settled \/ Walk \/ ReadStat \/ ListTasks
      BY <2>1, LoadPlanInv, LaunchInv, SettledInv, WalkInv, ReadStatInv, ListTasksInv
    <2>2. CASE PassOver \/ Bind \/ ReadBack \/ BindExited \/ BindFails
      BY <2>2, PassOverInv, BindInv, ReadBackInv, BindExitedInv, BindFailsInv
    <2>3. CASE WriteReport \/ Kill
      BY <2>3, LeaveInv, KillInv
    <2>4. CASE WaitWorkload \/ InterruptGroup \/ WaitGrace \/ TerminateGroup \/ WaitLastGrace
      BY <2>4, WaitsInv
    <2> QED
      BY <1>1, <2>1, <2>2, <2>3, <2>4 DEF Script
  <1>2. CASE KeyboardInterrupt
    BY <1>2, LeaveInv
  <1>3. CASE pc \notin Ended /\ Machine
    BY <1>3, ForkInv, ExitThreadInv, ExitProcessInv DEF Machine
  <1>4. CASE UNCHANGED vars
    <2>1. UNCHANGED <<script, births, strangers, task, pc>>
      BY <1>4 DEF vars, script
    <2>2. ThreadsOK'
      BY <2>1, ThreadsKept DEF LiveInv
    <2> QED
      BY <2>1, <2>2, ThreadsEnd
  <1> QED
    BY <1>1, <1>2, <1>3, <1>4 DEF Next

\* The invariant holds in every state of a validation.
THEOREM LiveInvariant == Spec => []LiveInv
  <1>1. LiveInv /\ [Next]_vars => LiveInv'
    BY LiveNext
  <1> QED
    BY LiveInit, <1>1, PTL DEF Spec

\* Every variable keeps to its type, no thread of the workload is there before
\* it is started, and only its first process may be dead and not yet reaped.
THEOREM LiveTypeCorrect == Spec => []LiveTypeOK
  <1>1. LiveInv => LiveTypeOK
    <2> SUFFICES ASSUME LiveInv PROVE LiveTypeOK
      OBVIOUS
    <2>1. ASSUME NEW t \in Tids, task[t] # NoTask
          PROVE  /\ pc \in {"plan", "launch", "refused"} => ~ task[t].ours
                 /\ task[task[t].pid] # NoTask
                 /\ ~ task[t].live => t = Leader /\ task[t].first
      BY <2>1 DEF LiveInv, ThreadsOK, ThreadOK
    <2>2. task \in [Tids -> Task \cup {NoTask}]
      BY DEF LiveInv, ThreadsOK
    <2> QED
      BY <2>1, <2>2 DEF LiveInv, ScriptOK, LiveTypeOK
  <1> QED
    BY LiveInvariant, <1>1, PTL

\* After the loop an early thread of the workload has the CPU of its place, its
\* later children a CPU of the plan, and nobody else's thread has been touched
\* unless a TID changed hands.
THEOREM BoundIfThere == Spec => []BoundUnlessLoose
  <1>1. LiveInv => BoundUnlessLoose
    <2> SUFFICES ASSUME LiveInv, pc \notin Before \cup Working \cup Ended,
                        NEW t \in Tids, task[t] # NoTask
                 PROVE  /\ ~ task[t].ours => strangers \/ task[t].mask = CpuSet
                        /\ task[t].ours /\ task[t].kind = "early" => task[t].mask = {Target(t)}
                        /\ task[t].ours /\ task[t].kind = "tame" =>
                             \E i \in 1 .. Len(cpus) : task[t].mask = {cpus[i]}
      BY DEF BoundUnlessLoose, Before
    <2>1. pc \in Over
      BY DEF LiveInv, ScriptOK
    <2>2. ~ task[t].ours => strangers \/ task[t].mask = CpuSet
      BY DEF LiveInv, StrangersOK
    <2>3. task[t].ours /\ task[t].kind = "early" => task[t].mask = {Target(t)}
      BY <2>1 DEF LiveInv, EarlyListed, EarlyOK
    <2>4. task[t].ours /\ task[t].kind = "tame" => \E i \in 1 .. Len(cpus) : task[t].mask = {cpus[i]}
      BY <2>1 DEF LiveInv, TameOK
    <2> QED
      BY <2>2, <2>3, <2>4
  <1> QED
    BY LiveInvariant, <1>1, PTL
=============================================================================
