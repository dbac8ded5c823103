--------------------------- MODULE SceneRunProofs ---------------------------
(***************************************************************************)
(* What holds of a collection run for every number of CPUs, threads,       *)
(* switches and rounds, and every size of the ring.                        *)
(*                                                                         *)
(* Two facts carry the rest.  The past does not change: what a CPU ran at  *)
(* a moment gone by stays what it ran (PastKept).  And a counter holds the *)
(* threads of its CPU from the moment it was enabled to now, or to the     *)
(* moment it was disabled (CountedOK).  Rows of cpu.csv inherit this       *)
(* (RowsOK); rows of sched.csv are switches (CollectorOK), so that the     *)
(* last one before a stamp, if recorded, is the one find_last_thread finds.*)
(***************************************************************************)
EXTENDS SceneRun, SequenceTheorems, WellFoundedInduction, TLAPS

\* The threads CPU c ran from moment a to moment b.
RanIn(c, a, b) == {RunningAt(c, t) : t \in a .. b}

\* Switches are numbered by the clock, and each CPU runs what it was last switched to.
MachineOK ==
  /\ now \in Nat
  /\ switches \in Seq(Records)
  /\ \A i \in 1 .. Len(switches) : switches[i].ts <= now
  /\ \A i, j \in 1 .. Len(switches) : i < j => switches[i].ts < switches[j].ts
  /\ running \in [Cpus -> Threads \cup {Idle}]
  /\ \A c \in Cpus : running[c] = RunningAt(c, now)

\* The runner waits for the one collector and for the other, in an order that
\* depends on the script.
StagesOK ==
  /\ script \in {"cpu", "mixed"}
  /\ pc \in {"start", "startPmu", "collect", "waitSched", "interruptPmu", "waitPmu", "attribute",
            "done"}
  /\ sched \in {"off", "loading", "on", "leaving", "gone"}
  /\ sampler \in {"off", "loading", "loop", "enable", "sleep", "disable", "stamp", "rows", "gone"}
  /\ pc = "start" => sched = "off"
  /\ pc \in {"start", "startPmu"} => sampler = "off"
  /\ sched = "leaving" => pc \in {"interruptPmu", "waitSched"}
  /\ pc = "waitPmu" \/ (pc = "interruptPmu" /\ script = "mixed") => sched = "gone"
  /\ pc \in {"attribute", "done"} => sched = "gone" /\ sampler = "gone"

\* Every record is a switch that took place.
CollectorOK ==
  /\ ring \in Seq(Records) /\ Len(ring) <= RingSize
  /\ schedCsv \in Seq(Records)
  /\ \A i \in 1 .. Len(ring) : \E j \in 1 .. Len(switches) : ring[i] = switches[j]
  /\ \A i \in 1 .. Len(schedCsv) : \E j \in 1 .. Len(switches) : schedCsv[i] = switches[j]
  /\ ~ Attached => ring = <<>>

\* The counters that are enabled, by where the sampler is.
SamplerOK ==
  /\ stop \in BOOLEAN
  /\ at \in Cpus
  /\ rounds \in 0 .. MaxRounds
  /\ counting = IF sampler = "enable" THEN 0 .. at - 1
                ELSE IF sampler = "disable" THEN at .. NCpus - 1
                ELSE IF sampler = "sleep" THEN Cpus ELSE {}
  /\ sampler = "sleep" => at = 0
  /\ ns \in Nat /\ ns <= now

\* The counters of a round that have been disabled.
Closed == IF sampler = "disable" THEN 0 .. at - 1
          ELSE IF sampler \in {"stamp", "rows"} THEN Cpus ELSE {}

CountedOK ==
  /\ counted \in [Cpus -> SUBSET (Threads \cup {Idle})]
  /\ span \in [Cpus -> Nat \X Nat]
  /\ \A c \in counting : span[c][1] <= now /\ counted[c] = RanIn(c, span[c][1], now)
  /\ \A c \in Closed :
       /\ span[c][2] <= now /\ (sampler = "rows" => span[c][2] < ns)
       /\ counted[c] = RanIn(c, span[c][1], span[c][2])

RowsOK ==
  \A s \in cpuCsv :
    /\ s.cpu \in Cpus /\ s.ts \in Nat /\ s.ts <= now
    /\ s.span \in Nat \X Nat /\ s.span[2] < s.ts
    /\ s.threads = RanIn(s.cpu, s.span[1], s.span[2])

\* The samples are attributed at the end, when nothing is written any more.
AttrOK ==
  \A a \in attr : pc = "done" /\ a.sample \in cpuCsv /\ a.thread = LastThread(a.sample)

SceneInv ==
  /\ MachineOK
  /\ StagesOK
  /\ CollectorOK
  /\ SamplerOK
  /\ CountedOK
  /\ RowsOK
  /\ AttrOK

-----------------------------------------------------------------------------
(* The past. *)

\* A set of positions of a sequence has a last one.
LEMMA LastExists ==
  ASSUME NEW n \in Nat, NEW S \in SUBSET (1 .. n), S # {}
  PROVE  \E i \in S : \A j \in S : j <= i
  <1> DEFINE D == {n - i : i \in S}
  <1>1. D \subseteq Nat /\ D # {}
    <2>1. \A i \in S : n - i \in Nat
      OBVIOUS
    <2> QED
      BY <2>1
  <1>2. PICK d \in D : \A e \in D : ~ (<<e, d>> \in OpToRel(<, Nat))
    BY <1>1, NatLessThanWellFounded, WFMin
  <1>3. \A e \in D : ~ (e < d)
    BY <1>1, <1>2 DEF OpToRel
  <1>4. PICK i \in S : d = n - i
    BY <1>2
  <1>5. ASSUME NEW j \in S PROVE j <= i
    <2>1. n - j \in D /\ ~ (n - j < d)
      BY <1>3
    <2> QED
      BY <1>4, <2>1
  <1> QED
    BY <1>5

\* A switch has its moment, its CPU and its thread.
LEMMA SwitchTypes ==
  ASSUME MachineOK
  PROVE  /\ Len(switches) \in Nat
         /\ \A i \in 1 .. Len(switches) :
              /\ switches[i] \in Records /\ switches[i].ts \in Nat /\ switches[i].ts <= now
              /\ switches[i].cpu \in Cpus /\ switches[i].next \in Threads \cup {Idle}
  <1>1. Len(switches) \in Nat
    BY LenProperties DEF MachineOK
  <1>2. \A i \in 1 .. Len(switches) : switches[i] \in Records
    BY ElementOfSeq DEF MachineOK
  <1>3. \A r \in Records : r.ts \in Nat /\ r.cpu \in Cpus /\ r.next \in Threads \cup {Idle}
    BY DEF Records
  <1> QED
    BY <1>1, <1>2, <1>3 DEF MachineOK

\* The last switch before a moment.
LEMMA LastSwitch ==
  ASSUME MachineOK, NEW c, NEW t, SwitchesOf(c, t) # {}
  PROVE  \E i \in SwitchesOf(c, t) :
           LastOf(SwitchesOf(c, t)) = switches[i] /\ \A j \in SwitchesOf(c, t) : j <= i
  <1>1. Len(switches) \in Nat /\ SwitchesOf(c, t) \in SUBSET (1 .. Len(switches))
    BY SwitchTypes DEF SwitchesOf
  <1>2. \E i \in SwitchesOf(c, t) : \A j \in SwitchesOf(c, t) : j <= i
    BY <1>1, LastExists
  <1> QED
    BY <1>2 DEF LastOf

\* A moment at which a CPU did not switch is like the one before.
LEMMA SameAsBefore ==
  ASSUME MachineOK, NEW c
  PROVE  RunningAt(c, now + 1) = RunningAt(c, now)
  <1>1. \A i \in 1 .. Len(switches) : switches[i].ts \in Nat
    BY SwitchTypes
  <1>2. SwitchesOf(c, now + 1) = SwitchesOf(c, now)
    BY <1>1 DEF MachineOK, SwitchesOf
  <1> QED
    BY <1>2 DEF RunningAt

\* As long as nothing switches, the past and the present are what they were.
LEMMA PastSame ==
  ASSUME UNCHANGED switches
  PROVE  /\ \A c, t : RunningAt(c, t)' = RunningAt(c, t)
         /\ \A c, a, b : RanIn(c, a, b)' = RanIn(c, a, b)
  BY DEF RunningAt, SwitchesOf, LastOf, RanIn

\* A switch changes nothing of the past, and what its own CPU runs from now on.
LEMMA PastKept ==
  ASSUME MachineOK, NEW n, n = now, NEW e \in Records, e.ts = n + 1,
         switches' = Append(switches, e)
  PROVE  /\ \A c : \A t \in 0 .. n : RunningAt(c, t)' = RunningAt(c, t)
         /\ \A c : RunningAt(c, n + 1)' = IF c = e.cpu THEN e.next ELSE RunningAt(c, n)
  <1> DEFINE k == Len(switches)
  <1>1. /\ k \in Nat /\ n \in Nat
        /\ \A i \in 1 .. k : switches[i].ts \in Nat /\ switches[i].ts <= n
    BY SwitchTypes DEF MachineOK
  <1>2. /\ Len(switches') = k + 1 /\ switches'[k + 1] = e
        /\ \A i \in 1 .. k : switches'[i] = switches[i]
    BY AppendProperties DEF MachineOK
  <1> HIDE DEF k
  <1>3. ASSUME NEW c, NEW t \in 0 .. n PROVE RunningAt(c, t)' = RunningAt(c, t)
    <2>1. SwitchesOf(c, t) = {i \in 1 .. k : switches[i].cpu = c /\ switches[i].ts <= t}
      BY DEF SwitchesOf, k
    <2>2. SwitchesOf(c, t)' = {i \in 1 .. k + 1 : switches'[i].cpu = c /\ switches'[i].ts <= t}
      BY <1>2 DEF SwitchesOf
    <2>3. SwitchesOf(c, t)' = SwitchesOf(c, t)
      BY <1>1, <1>2, <2>1, <2>2
    <2>4. SwitchesOf(c, t) # {} => LastOf(SwitchesOf(c, t))' = LastOf(SwitchesOf(c, t))
      <3> SUFFICES ASSUME SwitchesOf(c, t) # {}
                   PROVE  LastOf(SwitchesOf(c, t))' = LastOf(SwitchesOf(c, t))
        OBVIOUS
      <3> DEFINE last == CHOOSE i \in SwitchesOf(c, t) : \A j \in SwitchesOf(c, t) : j <= i
      <3>1. last \in SwitchesOf(c, t)
        BY <1>1, <2>1, LastExists
      <3>2. switches'[last] = switches[last]
        BY <1>2, <2>1, <3>1
      <3>3. LastOf(SwitchesOf(c, t)) = switches[last]
        BY DEF LastOf
      <3>4. LastOf(SwitchesOf(c, t))' = switches'[last]
        BY <2>3 DEF LastOf
      <3> QED
        BY <3>2, <3>3, <3>4
    <2> QED
      BY <2>3, <2>4 DEF RunningAt
  <1>4. ASSUME NEW c PROVE RunningAt(c, n + 1)' = IF c = e.cpu THEN e.next ELSE RunningAt(c, n)
    <2>1. SwitchesOf(c, n) = {i \in 1 .. k : switches[i].cpu = c}
      BY <1>1 DEF SwitchesOf, k
    <2>2. SwitchesOf(c, n + 1)' = {i \in 1 .. k + 1 : switches'[i].cpu = c /\ switches'[i].ts <= n + 1}
      BY <1>2 DEF SwitchesOf
    <2>3. SwitchesOf(c, n + 1)' = IF c = e.cpu THEN SwitchesOf(c, n) \cup {k + 1} ELSE SwitchesOf(c, n)
      <3>1. \A i \in 1 .. k : i \in SwitchesOf(c, n + 1)' <=> i \in SwitchesOf(c, n)
        BY <1>1, <1>2, <2>1, <2>2
      <3>2. k + 1 \in SwitchesOf(c, n + 1)' <=> c = e.cpu
        BY <1>1, <1>2, <2>2
      <3>3. SwitchesOf(c, n + 1)' \subseteq 1 .. k + 1 /\ SwitchesOf(c, n) \subseteq 1 .. k
        BY <2>1, <2>2
      <3>4. \A i \in 1 .. k + 1 : i \in 1 .. k \/ i = k + 1
        BY <1>1
      <3>5. k + 1 \notin 1 .. k /\ k + 1 \in 1 .. k + 1 /\ 1 .. k \subseteq 1 .. k + 1
        BY <1>1
      <3> DEFINE new == SwitchesOf(c, n + 1)'
                 old == SwitchesOf(c, n)
      <3>6. \A i : i \in new <=> i \in old \/ (i = k + 1 /\ c = e.cpu)
        <4> HIDE DEF new, old
        <4>1. /\ new \subseteq 1 .. k + 1 /\ old \subseteq 1 .. k
              /\ \A i \in 1 .. k : i \in new <=> i \in old
              /\ k + 1 \in new <=> c = e.cpu
          BY <3>1, <3>2, <3>3 DEF new, old
        <4> QED
          BY <3>4, <3>5, <4>1
      <3>7. new = IF c = e.cpu THEN old \cup {k + 1} ELSE old
        <4> HIDE DEF new, old
        <4> QED
          BY <3>6
      <3> QED
        BY <3>7
    <2>4. CASE c = e.cpu
      <3>1. /\ k + 1 \in SwitchesOf(c, n + 1)'
            /\ \A j \in SwitchesOf(c, n + 1)' : j \in 1 .. k + 1
        BY <1>1, <2>1, <2>3, <2>4
      <3>2. (CHOOSE i \in SwitchesOf(c, n + 1)' : \A j \in SwitchesOf(c, n + 1)' : j <= i) = k + 1
        BY <1>1, <3>1
      <3>3. LastOf(SwitchesOf(c, n + 1))' = e
        BY <1>2, <3>2 DEF LastOf
      <3> QED
        BY <2>4, <3>1, <3>3 DEF RunningAt
    <2>5. CASE c # e.cpu
      <3>1. SwitchesOf(c, n + 1)' = SwitchesOf(c, n)'
        <4>1. SwitchesOf(c, n)' = {i \in 1 .. k + 1 : switches'[i].cpu = c /\ switches'[i].ts <= n}
          BY <1>2 DEF SwitchesOf
        <4> QED
          BY <1>1, <1>2, <2>2, <2>5, <4>1
      <3>2. RunningAt(c, n + 1)' = RunningAt(c, n)'
        BY <3>1 DEF RunningAt
      <3> QED
        BY <1>1, <1>3, <2>5, <3>2
    <2> QED
      BY <2>4, <2>5
  <1> QED
    BY <1>3, <1>4

\* What a CPU ran in a span of the past stays; up to now, the switch is added.
LEMMA RanKept ==
  ASSUME MachineOK, NEW n, n = now, NEW e \in Records, e.ts = n + 1,
         switches' = Append(switches, e)
  PROVE  /\ \A c : \A a \in Nat, b \in 0 .. n : RanIn(c, a, b)' = RanIn(c, a, b)
         /\ \A a \in 0 .. n : RanIn(e.cpu, a, n + 1)' = RanIn(e.cpu, a, n) \cup {e.next}
         /\ \A c : \A a \in 0 .. n : c # e.cpu => RanIn(c, a, n + 1)' = RanIn(c, a, n)
  <1>1. /\ \A c : \A t \in 0 .. n : RunningAt(c, t)' = RunningAt(c, t)
        /\ \A c : RunningAt(c, n + 1)' = IF c = e.cpu THEN e.next ELSE RunningAt(c, n)
    BY PastKept
  <1>2. n \in Nat
    BY DEF MachineOK
  <1>3. ASSUME NEW c, NEW a \in Nat, NEW b \in 0 .. n PROVE RanIn(c, a, b)' = RanIn(c, a, b)
    <2>1. \A t \in a .. b : t \in 0 .. n
      BY <1>2
    <2> QED
      BY <1>1, <2>1 DEF RanIn
  <1>4. ASSUME NEW c, NEW a \in 0 .. n
        PROVE  RanIn(c, a, n + 1)' = IF c = e.cpu THEN RanIn(c, a, n) \cup {e.next} ELSE RanIn(c, a, n)
    <2>1. /\ \A t \in a .. n : t \in 0 .. n /\ t \in a .. n + 1
          /\ n + 1 \in a .. n + 1 /\ n \in a .. n
          /\ \A t \in a .. n + 1 : t \in a .. n \/ t = n + 1
      BY <1>2
    <2>2. RanIn(c, a, n + 1)' = RanIn(c, a, n) \cup {RunningAt(c, n + 1)'}
      <3>1. RanIn(c, a, n + 1)' = {RunningAt(c, t)' : t \in a .. n + 1}
        BY DEF RanIn
      <3>2. RanIn(c, a, n) = {RunningAt(c, t)' : t \in a .. n}
        BY <1>1, <2>1 DEF RanIn
      <3> QED
        BY <2>1, <3>1, <3>2
    <2>3. RunningAt(c, n) \in RanIn(c, a, n)
      BY <2>1 DEF RanIn
    <2> QED
      BY <1>1, <2>2, <2>3
  <1> QED
    BY <1>3, <1>4

-----------------------------------------------------------------------------
\* Nothing runs but the idle threads, and nothing is counted.
LEMMA SceneInit == Init => SceneInv
  <1> SUFFICES ASSUME Init PROVE SceneInv
    OBVIOUS
  <1>1. NCpus \in Nat \ {0} /\ RingSize \in Nat /\ MaxRounds \in Nat
    BY SceneRunAssumption
  <1>2. switches = <<>> /\ Len(switches) = 0 /\ switches \in Seq(Records)
    BY EmptySeq DEF Init
  <1>3. MachineOK
    <2>1. \A c \in Cpus : SwitchesOf(c, now) = {}
      BY <1>2 DEF SwitchesOf
    <2> QED
      BY <1>2, <2>1 DEF Init, MachineOK, RunningAt
  <1>4. StagesOK
    <2>1. script \in {"cpu", "mixed"}
      BY SceneRunAssumption DEF Init
    <2> QED
      BY <2>1 DEF Init, StagesOK
  <1>5. CollectorOK
    BY <1>1, EmptySeq DEF Init, CollectorOK, Attached
  <1>6. SamplerOK
    <2>1. 0 \in Cpus /\ 0 \in 0 .. MaxRounds
      BY <1>1 DEF Cpus
    <2>2. /\ counting = {} /\ sampler = "off" /\ at = 0 /\ stop = FALSE
          /\ rounds = 0 /\ ns = 0 /\ now = 0
      BY DEF Init
    <2>3. counting = IF sampler = "enable" THEN 0 .. at - 1
                     ELSE IF sampler = "disable" THEN at .. NCpus - 1
                     ELSE IF sampler = "sleep" THEN Cpus ELSE {}
      BY <2>2
    <2>4. stop \in BOOLEAN /\ at \in Cpus /\ rounds \in 0 .. MaxRounds
      BY <2>1, <2>2
    <2>5. (sampler = "sleep" => at = 0) /\ ns \in Nat /\ ns <= now
      BY <2>2
    <2> QED
      BY <2>3, <2>4, <2>5 DEF SamplerOK
  <1>7. CountedOK
    BY DEF Init, CountedOK, Closed
  <1>8. RowsOK /\ AttrOK
    BY DEF Init, RowsOK, AttrOK
  <1> QED
    BY <1>3, <1>4, <1>5, <1>6, <1>7, <1>8 DEF SceneInv

-----------------------------------------------------------------------------
(* The machine. *)

\* A switch of a CPU is counted by its counter, and becomes the last record.
LEMMA SwitchInv ==
  ASSUME SceneInv, NEW c \in Cpus, NEW t \in Threads \cup {Idle}, Switch(c, t)
  PROVE  SceneInv'
  <1> DEFINE event == [ts |-> now + 1, cpu |-> c, next |-> t, seen |-> Attached]
  <1>1. PICK n, e : n = now /\ e = event
    OBVIOUS
  <1>2. /\ pc # "done"
        /\ running' = [running EXCEPT ![c] = t]
        /\ now' = n + 1
        /\ switches' = Append(switches, e)
        /\ ring' = IF Attached /\ Len(ring) < RingSize THEN Append(ring, e) ELSE ring
        /\ counted' = IF c \in counting THEN [counted EXCEPT ![c] = @ \cup {t}] ELSE counted
        /\ UNCHANGED <<script, pc, sched, schedCsv, pmu, attr>>
    BY <1>1 DEF Switch
  <1>3. UNCHANGED <<sampler, stop, at, counting, ns, rounds, cpuCsv, span>>
    BY <1>2 DEF pmu
  <1>4. n \in Nat /\ e \in Records /\ e.ts = n + 1 /\ e.cpu = c /\ e.next = t /\ MachineOK
    <2>1. Attached \in BOOLEAN /\ n \in Nat /\ MachineOK
      BY <1>1 DEF Attached, SceneInv, MachineOK
    <2> QED
      BY <1>1, <2>1 DEF Records
  <1>5. /\ \A d : RunningAt(d, n + 1)' = IF d = c THEN t ELSE RunningAt(d, n)
        /\ \A d : \A a \in Nat, b \in 0 .. n : RanIn(d, a, b)' = RanIn(d, a, b)
        /\ \A d : \A a \in 0 .. n :
             RanIn(d, a, n + 1)' = IF d = c THEN RanIn(d, a, n) \cup {t} ELSE RanIn(d, a, n)
    <2>1. /\ \A d : RunningAt(d, n + 1)' = IF d = e.cpu THEN e.next ELSE RunningAt(d, n)
          /\ \A d : \A a \in Nat, b \in 0 .. n : RanIn(d, a, b)' = RanIn(d, a, b)
          /\ \A d : \A a \in 0 .. n :
               RanIn(d, a, n + 1)' =
                 IF d = e.cpu THEN RanIn(d, a, n) \cup {e.next} ELSE RanIn(d, a, n)
      <3> HIDE DEF event
      <3>1. n = now /\ e \in Records /\ e.ts = n + 1 /\ switches' = Append(switches, e) /\ MachineOK
        BY <1>1, <1>2, <1>4
      <3>2. \A d : RunningAt(d, n + 1)' = IF d = e.cpu THEN e.next ELSE RunningAt(d, n)
        BY <3>1, PastKept
      <3>3. \A d : \A a \in Nat, b \in 0 .. n : RanIn(d, a, b)' = RanIn(d, a, b)
        BY <3>1, RanKept
      <3>4. \A a \in 0 .. n : RanIn(e.cpu, a, n + 1)' = RanIn(e.cpu, a, n) \cup {e.next}
        BY <3>1, RanKept
      <3>5. \A d : \A a \in 0 .. n : d # e.cpu => RanIn(d, a, n + 1)' = RanIn(d, a, n)
        BY <3>1, RanKept
      <3> QED
        BY <3>2, <3>3, <3>4, <3>5
    <2> QED
      BY <1>4, <2>1
  <1>6. /\ switches' \in Seq(Records) /\ Len(switches') = Len(switches) + 1
        /\ switches'[Len(switches) + 1] = e
        /\ \A i \in 1 .. Len(switches) : switches'[i] = switches[i]
    BY <1>2, <1>4, AppendProperties DEF MachineOK
  <1>7. /\ Len(switches) \in Nat
        /\ \A i \in 1 .. Len(switches) : switches[i].ts \in Nat /\ switches[i].ts <= n
    BY <1>1, <1>4, SwitchTypes
  <1>8. MachineOK'
    <2>1. \A i \in 1 .. Len(switches') : switches'[i].ts <= n + 1
      BY <1>4, <1>6, <1>7
    <2>2. \A i, j \in 1 .. Len(switches') : i < j => switches'[i].ts < switches'[j].ts
      <3> SUFFICES ASSUME NEW i \in 1 .. Len(switches'), NEW j \in 1 .. Len(switches'), i < j
                   PROVE  switches'[i].ts < switches'[j].ts
        OBVIOUS
      <3>1. i \in 1 .. Len(switches) /\ switches'[i] = switches[i] /\ switches[i].ts <= n
            /\ switches[i].ts \in Nat
        BY <1>6, <1>7
      <3>2. CASE j \in 1 .. Len(switches)
        BY <1>4, <1>6, <3>1, <3>2 DEF MachineOK
      <3>3. CASE j = Len(switches) + 1
        BY <1>4, <1>6, <3>1, <3>3
      <3> QED
        BY <1>6, <1>7, <3>2, <3>3
    <2>3. /\ running' \in [Cpus -> Threads \cup {Idle}]
          /\ \A d \in Cpus : running'[d] = IF d = c THEN t ELSE running[d]
      BY <1>2, <1>4 DEF MachineOK
    <2>4. \A d \in Cpus : running'[d] = RunningAt(d, n + 1)'
      BY <1>1, <1>4, <1>5, <2>3 DEF MachineOK
    <2>5. \A d : RunningAt(d, now)' = RunningAt(d, n + 1)'
      BY <1>2 DEF RunningAt, SwitchesOf
    <2> QED
      BY <1>2, <1>4, <1>6, <2>1, <2>2, <2>3, <2>4, <2>5 DEF MachineOK
  <1>9. StagesOK'
    BY <1>2, <1>3 DEF SceneInv, StagesOK
  <1>10. CollectorOK'
    <2>1. \A j \in 1 .. Len(switches) : j \in 1 .. Len(switches')
      BY <1>6, <1>7
    <2>2. /\ ring' \in Seq(Records) /\ Len(ring') <= RingSize
          /\ \A i \in 1 .. Len(ring') : \E j \in 1 .. Len(switches') : ring'[i] = switches'[j]
      <3>1. CASE ring' = ring
        BY <1>6, <2>1, <3>1 DEF SceneInv, CollectorOK
      <3>2. CASE ring' = Append(ring, e) /\ Len(ring) < RingSize
        <4>1. /\ ring' \in Seq(Records) /\ Len(ring') = Len(ring) + 1 /\ Len(ring) \in Nat
              /\ ring'[Len(ring) + 1] = e /\ \A i \in 1 .. Len(ring) : ring'[i] = ring[i]
          BY <1>4, <3>2, AppendProperties, LenProperties DEF SceneInv, CollectorOK
        <4>2. Len(ring') <= RingSize
          BY <3>2, <4>1, SceneRunAssumption
        <4>3. Len(switches) + 1 \in 1 .. Len(switches')
          BY <1>6, <1>7
        <4>4. \A i \in 1 .. Len(ring) : \E j \in 1 .. Len(switches') : ring'[i] = switches'[j]
          BY <1>6, <2>1, <4>1 DEF SceneInv, CollectorOK
        <4> QED
          BY <1>6, <4>1, <4>2, <4>3, <4>4
      <3> QED
        BY <1>2, <3>1, <3>2
    <2>3. \A i \in 1 .. Len(schedCsv) : \E j \in 1 .. Len(switches') : schedCsv[i] = switches'[j]
      BY <1>6, <2>1 DEF SceneInv, CollectorOK
    <2> QED
      BY <1>2, <2>2, <2>3 DEF SceneInv, CollectorOK, Attached
  <1>11. SamplerOK'
    BY <1>1, <1>2, <1>3, <1>4 DEF SceneInv, SamplerOK
  <1>12. CountedOK'
    <2>1. counting \subseteq Cpus /\ Closed \subseteq Cpus /\ Closed \cap counting = {}
      BY SceneRunAssumption DEF SceneInv, SamplerOK, Closed, Cpus
    <2>2. /\ counted' \in [Cpus -> SUBSET (Threads \cup {Idle})]
          /\ \A d \in Cpus : counted'[d] = IF d = c /\ d \in counting THEN counted[d] \cup {t} ELSE counted[d]
      BY <1>2 DEF SceneInv, CountedOK
    <2>3. \A d \in Cpus : span[d][1] \in Nat /\ span[d][2] \in Nat
      BY DEF SceneInv, CountedOK
    <2>4. ASSUME NEW d \in counting
          PROVE  span[d][1] <= n + 1 /\ counted'[d] = RanIn(d, span[d][1], n + 1)'
      <3>1. d \in Cpus /\ span[d][1] \in 0 .. n /\ counted[d] = RanIn(d, span[d][1], n)
        BY <1>1, <1>4, <2>1, <2>3 DEF SceneInv, CountedOK
      <3>2. PICK a \in 0 .. n : a = span[d][1] /\ a = span'[d][1]
        BY <1>3, <3>1
      <3>3. RanIn(d, a, n + 1)' = RanIn(d, span[d][1], n + 1)'
        BY <1>3, <3>2 DEF RanIn
      <3>4. counted'[d] = RanIn(d, a, n + 1)'
        BY <1>5, <2>2, <3>1, <3>2
      <3> QED
        BY <1>4, <3>1, <3>3, <3>4
    <2>5. ASSUME NEW d \in Closed
          PROVE  span[d][2] <= n + 1 /\ counted'[d] = RanIn(d, span[d][1], span[d][2])'
      <3>1. d \in Cpus /\ d \notin counting /\ span[d][2] \in 0 .. n /\ span[d][1] \in Nat
            /\ counted[d] = RanIn(d, span[d][1], span[d][2])
        BY <1>1, <1>4, <2>1, <2>3 DEF SceneInv, CountedOK
      <3>2. PICK a \in Nat, b \in 0 .. n : /\ a = span[d][1] /\ b = span[d][2]
                                          /\ a = span'[d][1] /\ b = span'[d][2]
        BY <1>3, <3>1
      <3>3. RanIn(d, a, b)' = RanIn(d, span[d][1], span[d][2])'
        BY <1>3, <3>2 DEF RanIn
      <3>4. counted'[d] = RanIn(d, a, b)'
        BY <1>5, <2>2, <3>1, <3>2
      <3> QED
        BY <1>4, <3>1, <3>3, <3>4
    <2>6. Closed' = Closed
      BY <1>3 DEF Closed
    <2> QED
      BY <1>2, <1>3, <2>2, <2>4, <2>5, <2>6 DEF SceneInv, CountedOK, RanIn
  <1>13. RowsOK'
    <2> SUFFICES ASSUME NEW s \in cpuCsv
                 PROVE  /\ s.cpu \in Cpus /\ s.ts \in Nat /\ s.ts <= n + 1
                        /\ s.span \in Nat \X Nat /\ s.span[2] < s.ts
                        /\ s.threads = RanIn(s.cpu, s.span[1], s.span[2])'
      BY <1>2, <1>3 DEF RowsOK
    <2>1. /\ s.cpu \in Cpus /\ s.ts \in Nat /\ s.ts <= n
          /\ s.span \in Nat \X Nat /\ s.span[2] < s.ts
          /\ s.threads = RanIn(s.cpu, s.span[1], s.span[2])
      BY <1>1 DEF SceneInv, RowsOK
    <2>2. s.span[1] \in Nat /\ s.span[2] \in 0 .. n
      BY <1>4, <2>1
    <2> QED
      BY <1>4, <1>5, <2>1, <2>2
  <1>14. AttrOK'
    BY <1>2 DEF SceneInv, AttrOK
  <1> QED
    BY <1>8, <1>9, <1>10, <1>11, <1>12, <1>13, <1>14 DEF SceneInv

-----------------------------------------------------------------------------
(* What a step leaves alone. *)

\* Before the end nothing is attributed.
LEMMA AttrKept ==
  ASSUME AttrOK, pc # "done", attr' = attr
  PROVE  AttrOK'
  <1>1. attr = {}
    BY DEF AttrOK
  <1> QED
    BY <1>1 DEF AttrOK

\* The machine has not moved.
LEMMA MachineKept ==
  ASSUME MachineOK, UNCHANGED <<now, machine>>
  PROVE  MachineOK'
  <1>1. UNCHANGED <<now, running, switches>>
    BY DEF machine
  <1>2. \A c : RunningAt(c, now)' = RunningAt(c, now)
    BY <1>1 DEF RunningAt, SwitchesOf, LastOf
  <1> QED
    BY <1>1, <1>2 DEF MachineOK

\* The collector has not moved.
LEMMA CollectorKept ==
  ASSUME CollectorOK, UNCHANGED <<collector, switches>>
  PROVE  CollectorOK'
  BY DEF CollectorOK, collector, Attached

\* No row is written and nothing switches.
LEMMA RowsKept ==
  ASSUME RowsOK, UNCHANGED <<cpuCsv, switches, now>>
  PROVE  RowsOK'
  <1>1. \A c, a, b : RanIn(c, a, b)' = RanIn(c, a, b)
    BY PastSame
  <1> SUFFICES ASSUME NEW s \in cpuCsv
               PROVE  /\ s.cpu \in Cpus /\ s.ts \in Nat /\ s.ts <= now
                      /\ s.span \in Nat \X Nat /\ s.span[2] < s.ts
                      /\ s.threads = RanIn(s.cpu, s.span[1], s.span[2])'
    BY DEF RowsOK
  <1> QED
    BY <1>1 DEF RowsOK

\* No counter is touched and nothing switches; some that were enabled or
\* disabled may no longer be of interest.
LEMMA CountersKept ==
  ASSUME CountedOK, UNCHANGED <<counted, span, switches, now, ns>>,
         counting' \subseteq counting, Closed' \subseteq Closed,
         sampler' = "rows" => sampler = "rows"
  PROVE  CountedOK'
  <1>1. \A c, a, b : RanIn(c, a, b)' = RanIn(c, a, b)
    BY PastSame
  <1>2. ASSUME NEW c \in counting'
        PROVE  span[c][1] <= now /\ counted[c] = RanIn(c, span[c][1], now)'
    <2>1. c \in counting
      OBVIOUS
    <2>2. PICK a, n : a = span[c][1] /\ n = now
      OBVIOUS
    <2>3. a <= n /\ counted[c] = RanIn(c, a, n)
      BY <2>1, <2>2 DEF CountedOK
    <2>4. RanIn(c, a, n)' = RanIn(c, span[c][1], now)'
      BY <2>2 DEF RanIn
    <2> QED
      BY <1>1, <2>2, <2>3, <2>4
  <1>3. ASSUME NEW c \in Closed'
        PROVE  /\ span[c][2] <= now /\ (sampler' = "rows" => span[c][2] < ns)
               /\ counted[c] = RanIn(c, span[c][1], span[c][2])'
    <2>1. c \in Closed
      OBVIOUS
    <2>2. PICK a, b : a = span[c][1] /\ b = span[c][2]
      OBVIOUS
    <2>3. b <= now /\ (sampler = "rows" => b < ns) /\ counted[c] = RanIn(c, a, b)
      BY <2>1, <2>2 DEF CountedOK
    <2>4. RanIn(c, a, b)' = RanIn(c, span[c][1], span[c][2])'
      BY <2>2 DEF RanIn
    <2> QED
      BY <1>1, <2>2, <2>3, <2>4
  <1> QED
    BY <1>2, <1>3 DEF CountedOK, RanIn

\* A step that touches neither the machine nor the sampler nor the rows.
LEMMA OthersKept ==
  ASSUME SceneInv, pc # "done", UNCHANGED <<pmu, counted, attr, now, machine>>,
         StagesOK', CollectorOK'
  PROVE  SceneInv'
  <1>1. UNCHANGED <<sampler, stop, at, counting, ns, rounds, cpuCsv, span, switches>>
    BY DEF pmu, machine
  <1>2. MachineOK' /\ RowsOK' /\ AttrOK'
    BY <1>1, MachineKept, RowsKept, AttrKept DEF SceneInv
  <1>3. SamplerOK'
    BY <1>1 DEF SceneInv, SamplerOK
  <1>4. CountedOK'
    BY <1>1, CountersKept DEF SceneInv, Closed
  <1> QED
    BY <1>2, <1>3, <1>4 DEF SceneInv

-----------------------------------------------------------------------------
(* The sched_switch collector. *)

\* Nothing is in the ring when it starts.
LEMMA SchedUpInv ==
  ASSUME SceneInv, SchedUp
  PROVE  SceneInv'
  <1>1. pc # "done" /\ StagesOK'
    BY DEF SceneInv, SchedUp, StagesOK, pmu
  <1>2. CollectorOK'
    <2>1. ring = <<>>
      BY DEF SceneInv, SchedUp, CollectorOK, Attached
    <2>2. UNCHANGED <<ring, schedCsv, switches>>
      BY DEF SchedUp, machine
    <2> QED
      BY <2>1, <2>2 DEF SceneInv, CollectorOK
  <1> QED
    BY <1>1, <1>2, OthersKept DEF SchedUp

\* The first record of the ring becomes a row, or is lost.
LEMMA HandOutInv ==
  ASSUME SceneInv, HandOut
  PROVE  SceneInv'
  <1>1. pc # "done" /\ StagesOK'
    BY DEF SceneInv, HandOut, StagesOK, Attached, pmu
  <1>2. CollectorOK'
    <2>1. UNCHANGED <<sched, switches>> /\ Attached
      BY DEF HandOut, machine
    <2>2. /\ ring \in Seq(Records) /\ ring # <<>> /\ Len(ring) <= RingSize
          /\ schedCsv \in Seq(Records)
          /\ \A i \in 1 .. Len(ring) : \E j \in 1 .. Len(switches) : ring[i] = switches[j]
          /\ \A i \in 1 .. Len(schedCsv) : \E j \in 1 .. Len(switches) : schedCsv[i] = switches[j]
      BY DEF SceneInv, HandOut, CollectorOK
    <2>3. ring' = Tail(ring) /\ schedCsv' \in {schedCsv, Append(schedCsv, Head(ring))}
      BY DEF HandOut
    <2>4. /\ ring' \in Seq(Records) /\ Len(ring) \in Nat /\ Len(ring) > 0
          /\ Len(ring') = Len(ring) - 1
          /\ \A i \in 1 .. Len(ring') : ring'[i] = ring[i + 1]
          /\ Head(ring) = ring[1] /\ ring[1] \in Records
      BY <2>2, <2>3, HeadTailProperties, LenProperties, EmptySeq, ElementOfSeq
    <2>5. Len(ring') <= RingSize
      BY <2>2, <2>4, SceneRunAssumption
    <2>6. \A i \in 1 .. Len(ring') : \E j \in 1 .. Len(switches) : ring'[i] = switches[j]
      <3>1. \A i \in 1 .. Len(ring') : i + 1 \in 1 .. Len(ring) /\ ring'[i] = ring[i + 1]
        BY <2>4
      <3>2. \A i \in 1 .. Len(ring) : \E j \in 1 .. Len(switches) : ring[i] = switches[j]
        BY <2>2
      <3>3. ASSUME NEW i \in 1 .. Len(ring') PROVE \E j \in 1 .. Len(switches) : ring'[i] = switches[j]
        <4>1. PICK j \in 1 .. Len(switches) : ring[i + 1] = switches[j]
          BY <3>1, <3>2
        <4> QED
          BY <3>1, <4>1
      <3> QED
        BY <3>3
    <2>7. /\ schedCsv' \in Seq(Records)
          /\ \A i \in 1 .. Len(schedCsv') : \E j \in 1 .. Len(switches) : schedCsv'[i] = switches[j]
      <3>1. CASE schedCsv' = schedCsv
        BY <2>2, <3>1
      <3>2. CASE schedCsv' = Append(schedCsv, ring[1])
        <4>1. /\ schedCsv' \in Seq(Records) /\ Len(schedCsv') = Len(schedCsv) + 1
              /\ Len(schedCsv) \in Nat /\ schedCsv'[Len(schedCsv) + 1] = ring[1]
              /\ \A i \in 1 .. Len(schedCsv) : schedCsv'[i] = schedCsv[i]
          BY <2>2, <2>4, <3>2, AppendProperties, LenProperties
        <4>2. \E j \in 1 .. Len(switches) : ring[1] = switches[j]
          BY <2>2, <2>4
        <4> QED
          BY <2>2, <4>1, <4>2
      <3> QED
        BY <2>3, <2>4, <3>1, <3>2
    <2> QED
      BY <2>1, <2>5, <2>4, <2>6, <2>7 DEF CollectorOK, Attached
  <1> QED
    BY <1>1, <1>2, OthersKept DEF HandOut

\* Nothing is left in the ring.
LEMMA SchedLeavesInv ==
  ASSUME SceneInv, SchedLeaves
  PROVE  SceneInv'
  <1>1. pc # "done" /\ StagesOK'
    BY DEF SceneInv, SchedLeaves, StagesOK, pmu
  <1>2. CollectorOK'
    <2>1. ring' = <<>> /\ UNCHANGED <<schedCsv, switches>>
      BY DEF SchedLeaves, machine
    <2> QED
      BY <2>1, EmptySeq, SceneRunAssumption DEF SceneInv, CollectorOK
  <1> QED
    BY <1>1, <1>2, OthersKept DEF SchedLeaves

-----------------------------------------------------------------------------
(* The PMU sampler. *)

\* A step of the sampler in which no time passes and no row is written.
LEMMA SamplerStep ==
  ASSUME SceneInv, pc # "done", UNCHANGED <<others, now, ns, cpuCsv>>,
         sampler # "off" => sampler' # "off",
         sampler' \in {"off", "loading", "loop", "enable", "sleep", "disable", "stamp", "rows", "gone"},
         pc \in {"start", "startPmu"} => sampler' = "off",
         pc \in {"attribute", "done"} => sampler' = "gone",
         SamplerOK', CountedOK'
  PROVE  SceneInv'
  <1>1. UNCHANGED <<script, pc, collector, attr, machine, sched, switches>>
    BY DEF others, collector, machine
  <1>2. MachineOK' /\ CollectorOK' /\ RowsOK' /\ AttrOK'
    BY <1>1, MachineKept, CollectorKept, RowsKept, AttrKept DEF SceneInv
  <1>3. StagesOK'
    BY <1>1 DEF SceneInv, StagesOK
  <1> QED
    BY <1>2, <1>3 DEF SceneInv

\* Once the sampler is started the runner is past its start, and it cannot be
\* at its end before the sampler is.
LEMMA SamplerWhen ==
  ASSUME SceneInv, sampler \notin {"off", "gone"}
  PROVE  pc \notin {"start", "startPmu", "attribute", "done"}
  BY DEF SceneInv, StagesOK

\* The CPUs in the order of the loop.
LEMMA CpuOrder ==
  ASSUME NEW a \in Cpus
  PROVE  /\ NCpus \in Nat /\ a \in Nat /\ a < NCpus /\ 0 \in Cpus
         /\ a + 1 < NCpus => a + 1 \in Cpus
         /\ ~ (a + 1 < NCpus) => 0 .. a = Cpus
         /\ (0 .. a - 1) \cup {a} = 0 .. a
         /\ (a .. NCpus - 1) \ {a} = a + 1 .. NCpus - 1
         /\ ~ (a + 1 < NCpus) => a + 1 .. NCpus - 1 = {}
         /\ 0 .. a \subseteq Cpus /\ a .. NCpus - 1 \subseteq Cpus
         /\ 0 .. 0 - 1 = {} /\ 0 .. NCpus - 1 = Cpus
  <1>1. NCpus \in Nat /\ NCpus > 0 /\ Cpus = 0 .. NCpus - 1
    BY SceneRunAssumption DEF Cpus
  <1> QED
    BY <1>1

\* No counter is enabled, and none holds a finished round.
LEMMA SamplerUpInv ==
  ASSUME SceneInv, SamplerUp
  PROVE  SceneInv'
  <1>1. pc \notin {"start", "startPmu", "attribute", "done"}
    BY SamplerWhen DEF SamplerUp
  <1>2. /\ sampler = "loading" /\ sampler' \in {"loop", "gone"}
        /\ UNCHANGED <<others, switches, stop, at, counting, counted, ns, rounds, cpuCsv, now, span>>
    BY DEF SamplerUp, others, machine
  <1>3. SamplerOK'
    BY <1>2 DEF SceneInv, SamplerOK
  <1>4. CountedOK'
    BY <1>2, CountersKept DEF SceneInv, Closed
  <1> QED
    BY <1>1, <1>2, <1>3, <1>4, SamplerStep

\* The next round begins at the first CPU.
LEMMA LoopInv ==
  ASSUME SceneInv, Loop
  PROVE  SceneInv'
  <1>1. pc \notin {"start", "startPmu", "attribute", "done"}
    BY SamplerWhen DEF Loop
  <1>2. /\ sampler = "loop" /\ sampler' \in {"enable", "gone"} /\ at' = 0
        /\ UNCHANGED <<others, switches, stop, counting, counted, ns, cpuCsv, now, span>>
    BY DEF Loop, SamplerGoto, others, machine
  <1>3. SamplerOK'
    <2>1. 0 \in Cpus /\ 0 .. 0 - 1 = {} /\ counting = {}
      BY <1>2, CpuOrder DEF SceneInv, SamplerOK
    <2>2. rounds' \in 0 .. MaxRounds
      BY SceneRunAssumption DEF SceneInv, SamplerOK, Loop
    <2> QED
      BY <1>2, <2>1, <2>2 DEF SceneInv, SamplerOK
  <1>4. CountedOK'
    BY <1>2, CountersKept DEF SceneInv, Closed
  <1> QED
    BY <1>1, <1>2, <1>3, <1>4, SamplerStep

\* The counter of a CPU starts with the thread it runs now.
LEMMA EnableInv ==
  ASSUME SceneInv, Enable
  PROVE  SceneInv'
  <1>1. pc \notin {"start", "startPmu", "attribute", "done"}
    BY SamplerWhen DEF Enable
  <1>2. PICK a, n : a = at /\ n = now /\ a \in Cpus /\ n \in Nat
    BY DEF SceneInv, SamplerOK, MachineOK
  <1>3. /\ sampler = "enable"
        /\ counting = 0 .. a - 1 /\ counting' = counting \cup {a}
        /\ counted' = [counted EXCEPT ![a] = {running[a]}]
        /\ span' = [span EXCEPT ![a] = <<n, n>>]
        /\ UNCHANGED <<others, switches, stop, ns, rounds, cpuCsv, now>>
    BY <1>2 DEF Enable, AfterReset, others, machine, SceneInv, SamplerOK
  <1>4. IF a + 1 < NCpus THEN at' = a + 1 /\ sampler' = "enable" ELSE at' = 0 /\ sampler' = "sleep"
    BY <1>2 DEF Enable, SamplerGoto
  <1>5. SamplerOK'
    <2>1. at' \in Cpus
      BY <1>2, <1>4, CpuOrder
    <2>2. counting' = 0 .. a
      BY <1>2, <1>3, CpuOrder
    <2>3. CASE a + 1 < NCpus
      <3>1. 0 .. (a + 1) - 1 = 0 .. a
        BY <1>2, CpuOrder
      <3> QED
        BY <1>3, <1>4, <2>1, <2>2, <2>3, <3>1 DEF SceneInv, SamplerOK
    <2>4. CASE ~ (a + 1 < NCpus)
      BY <1>2, <1>3, <1>4, <2>1, <2>2, <2>4, CpuOrder DEF SceneInv, SamplerOK
    <2> QED
      BY <2>3, <2>4
  <1>6. CountedOK'
    <2>1. /\ counted \in [Cpus -> SUBSET (Threads \cup {Idle})] /\ span \in [Cpus -> Nat \X Nat]
          /\ running[a] \in Threads \cup {Idle} /\ running[a] = RunningAt(a, n)
      BY <1>2 DEF SceneInv, CountedOK, MachineOK
    <2>2. /\ counted' \in [Cpus -> SUBSET (Threads \cup {Idle})] /\ span' \in [Cpus -> Nat \X Nat]
          /\ counted'[a] = {running[a]} /\ span'[a] = <<n, n>>
          /\ \A c \in Cpus : c # a => counted'[c] = counted[c] /\ span'[c] = span[c]
      BY <1>2, <1>3, <2>1
    <2>3. Closed' = {}
      BY <1>4 DEF Closed
    <2>4. \A c, x, y : RanIn(c, x, y)' = RanIn(c, x, y)
      BY <1>3, PastSame
    <2>5. ASSUME NEW c \in counting'
          PROVE  span'[c][1] <= n /\ counted'[c] = RanIn(c, span'[c][1], n)
      <3>1. CASE c = a
        <4>1. n .. n = {n}
          BY <1>2
        <4>2. RanIn(a, n, n) = {running[a]}
          BY <2>1, <4>1 DEF RanIn
        <4> QED
          BY <1>2, <2>2, <3>1, <4>2
      <3>2. CASE c # a
        <4>1. c \in counting /\ c \in Cpus
          BY <1>2, <1>3, <3>2, CpuOrder
        <4>2. span[c][1] <= n /\ counted[c] = RanIn(c, span[c][1], n)
          BY <1>2, <4>1 DEF SceneInv, CountedOK
        <4> QED
          BY <2>2, <3>2, <4>1, <4>2
      <3> QED
        BY <3>1, <3>2
    <2>6. ASSUME NEW c \in counting'
          PROVE  span'[c][1] <= now' /\ counted'[c] = RanIn(c, span[c][1], now)'
      <3>1. PICK x : x = span'[c][1]
        OBVIOUS
      <3>2. RanIn(c, x, n)' = RanIn(c, span[c][1], now)'
        BY <1>2, <1>3, <3>1 DEF RanIn
      <3> QED
        BY <1>2, <1>3, <2>4, <2>5, <3>1, <3>2
    <2> QED
      BY <2>2, <2>3, <2>6 DEF CountedOK
  <1> QED
    BY <1>1, <1>3, <1>4, <1>5, <1>6, SamplerStep

\* Every counter is enabled.
LEMMA WakeInv ==
  ASSUME SceneInv, Wake
  PROVE  SceneInv'
  <1>1. pc \notin {"start", "startPmu", "attribute", "done"}
    BY SamplerWhen DEF Wake
  <1>2. /\ sampler = "sleep" /\ sampler' = "disable" /\ at' = 0
        /\ UNCHANGED <<others, switches, stop, counting, counted, ns, rounds, cpuCsv, now, span>>
    BY DEF Wake, SamplerGoto, others, machine
  <1>3. 0 \in Cpus /\ 0 .. 0 - 1 = {} /\ 0 .. NCpus - 1 = Cpus
    BY CpuOrder DEF SceneInv, SamplerOK
  <1>4. SamplerOK'
    BY <1>2, <1>3 DEF SceneInv, SamplerOK
  <1>5. CountedOK'
    <2>1. Closed' = {}
      BY <1>2, <1>3 DEF Closed
    <2> QED
      BY <1>2, <2>1, CountersKept DEF SceneInv
  <1> QED
    BY <1>1, <1>2, <1>4, <1>5, SamplerStep

\* The counter of a CPU stays what it is now.
LEMMA DisableInv ==
  ASSUME SceneInv, Disable
  PROVE  SceneInv'
  <1>1. pc \notin {"start", "startPmu", "attribute", "done"}
    BY SamplerWhen DEF Disable
  <1>2. PICK a, n : a = at /\ n = now /\ a \in Cpus /\ n \in Nat
    BY DEF SceneInv, SamplerOK, MachineOK
  <1>3. /\ sampler = "disable"
        /\ counting = a .. NCpus - 1 /\ counting' = counting \ {a}
        /\ span' = [span EXCEPT ![a] = <<span[a][1], n>>]
        /\ UNCHANGED <<others, switches, stop, counted, ns, rounds, cpuCsv, now>>
    BY <1>2 DEF Disable, others, machine, SceneInv, SamplerOK
  <1>4. IF a + 1 < NCpus THEN at' = a + 1 /\ sampler' = "disable" ELSE at' = 0 /\ sampler' = "stamp"
    BY <1>2 DEF Disable, SamplerGoto
  <1>5. counting' = a + 1 .. NCpus - 1
    BY <1>2, <1>3, CpuOrder
  <1>6. SamplerOK'
    <2>1. at' \in Cpus
      BY <1>2, <1>4, CpuOrder
    <2>2. CASE a + 1 < NCpus
      BY <1>3, <1>4, <1>5, <2>1, <2>2 DEF SceneInv, SamplerOK
    <2>3. CASE ~ (a + 1 < NCpus)
      BY <1>2, <1>3, <1>4, <1>5, <2>1, <2>3, CpuOrder DEF SceneInv, SamplerOK
    <2> QED
      BY <2>2, <2>3
  <1>7. Closed' = 0 .. a /\ Closed = 0 .. a - 1
    <2>1. Closed = 0 .. a - 1
      BY <1>2, <1>3 DEF Closed
    <2>2. CASE a + 1 < NCpus
      <3>1. 0 .. (a + 1) - 1 = 0 .. a
        BY <1>2, CpuOrder
      <3>2. Closed' = 0 .. (a + 1) - 1
        BY <1>4, <2>2 DEF Closed
      <3> QED
        BY <2>1, <3>1, <3>2
    <2>3. CASE ~ (a + 1 < NCpus)
      <3>1. Closed' = Cpus
        BY <1>4, <2>3 DEF Closed
      <3> QED
        BY <1>2, <2>1, <2>3, <3>1, CpuOrder
    <2> QED
      BY <2>2, <2>3
  <1>8. CountedOK'
    <2>1. /\ counted \in [Cpus -> SUBSET (Threads \cup {Idle})] /\ span \in [Cpus -> Nat \X Nat]
          /\ a \in counting /\ span[a][1] <= n /\ counted[a] = RanIn(a, span[a][1], n)
      <3>1. a \in counting
        BY <1>2, <1>3, CpuOrder
      <3> QED
        BY <1>2, <3>1 DEF SceneInv, CountedOK
    <2>2. span[a][1] \in Nat
      BY <1>2, <2>1
    <2>3. /\ span' \in [Cpus -> Nat \X Nat] /\ span'[a] = <<span[a][1], n>>
          /\ \A c \in Cpus : c # a => span'[c] = span[c]
      BY <1>2, <1>3, <2>1, <2>2
    <2>4. \A c, x, y : RanIn(c, x, y)' = RanIn(c, x, y)
      BY <1>3, PastSame
    <2>5. ASSUME NEW c \in counting'
          PROVE  span'[c][1] <= now' /\ counted'[c] = RanIn(c, span[c][1], now)'
      <3>1. c \in counting /\ c \in Cpus /\ c # a
        BY <1>2, <1>3, CpuOrder
      <3>2. PICK x : x = span[c][1] /\ x = span'[c][1]
        BY <2>3, <3>1
      <3>3. x <= n /\ counted[c] = RanIn(c, x, n)
        BY <1>2, <3>1, <3>2 DEF SceneInv, CountedOK
      <3>4. RanIn(c, x, n)' = RanIn(c, span[c][1], now)'
        BY <1>2, <1>3, <3>2 DEF RanIn
      <3> QED
        BY <1>2, <1>3, <2>4, <3>2, <3>3, <3>4
    <2>6. ASSUME NEW c \in Closed'
          PROVE  /\ span'[c][2] <= now'
                 /\ counted'[c] = RanIn(c, span[c][1], span[c][2])'
      <3>1. PICK x, y : x = span'[c][1] /\ y = span'[c][2]
        OBVIOUS
      <3>2. RanIn(c, x, y)' = RanIn(c, span[c][1], span[c][2])'
        BY <3>1 DEF RanIn
      <3>3. y <= n /\ counted[c] = RanIn(c, x, y)
        <4>1. CASE c = a
          BY <1>2, <2>1, <2>3, <3>1, <4>1
        <4>2. CASE c # a
          <5>1. c \in Closed /\ c \in Cpus
            <6>1. c \in 0 .. a
              BY <1>7
            <6>2. (0 .. a - 1) \cup {a} = 0 .. a /\ 0 .. a \subseteq Cpus
              BY <1>2, CpuOrder
            <6>3. c \in 0 .. a - 1 /\ c \in Cpus
              BY <4>2, <6>1, <6>2
            <6> QED
              BY <1>7, <6>3
          <5>2. x = span[c][1] /\ y = span[c][2]
            BY <2>3, <3>1, <4>2, <5>1
          <5> QED
            BY <1>2, <5>1, <5>2 DEF SceneInv, CountedOK
        <4> QED
          BY <4>1, <4>2
      <3> QED
        BY <1>2, <1>3, <2>4, <3>1, <3>2, <3>3
    <2>7. sampler' # "rows" /\ counted' = counted
      BY <1>3, <1>4
    <2> QED
      BY <2>1, <2>3, <2>5, <2>6, <2>7 DEF CountedOK
  <1> QED
    BY <1>1, <1>3, <1>4, <1>6, <1>8, SamplerStep

\* Every counter has been disabled by the moment of the stamp.
LEMMA StampInv ==
  ASSUME SceneInv, Stamp
  PROVE  SceneInv'
  <1>1. pc \notin {"start", "startPmu", "attribute", "done"}
    BY SamplerWhen DEF Stamp
  <1>2. PICK n : n = now /\ n \in Nat
    BY DEF SceneInv, MachineOK
  <1>3. /\ sampler = "stamp" /\ sampler' = "rows" /\ at' = 0 /\ ns' = n + 1 /\ now' = n + 1
        /\ UNCHANGED <<script, pc, collector, attr, running, switches, sched>>
        /\ UNCHANGED <<stop, counting, counted, rounds, cpuCsv, span>>
    BY <1>2 DEF Stamp, SamplerGoto, others, machine, collector
  <1>4. MachineOK'
    <2>1. /\ switches \in Seq(Records) /\ running \in [Cpus -> Threads \cup {Idle}]
          /\ \A i \in 1 .. Len(switches) : switches[i].ts \in Nat /\ switches[i].ts <= n
          /\ \A i, j \in 1 .. Len(switches) : i < j => switches[i].ts < switches[j].ts
      BY <1>2, SwitchTypes DEF SceneInv, MachineOK
    <2>2. \A i \in 1 .. Len(switches) : switches[i].ts <= n + 1
      BY <1>2, <2>1
    <2>3. \A c \in Cpus : running[c] = RunningAt(c, now + 1)
      BY SameAsBefore DEF SceneInv, MachineOK
    <2>4. \A c : RunningAt(c, now)' = RunningAt(c, now + 1)
      BY <1>2, <1>3 DEF RunningAt, SwitchesOf, LastOf
    <2> QED
      BY <1>2, <1>3, <2>1, <2>2, <2>3, <2>4 DEF MachineOK
  <1>5. SamplerOK'
    <2>1. 0 \in Cpus
      BY CpuOrder DEF SceneInv, SamplerOK
    <2> QED
      BY <1>2, <1>3, <2>1 DEF SceneInv, SamplerOK
  <1>6. counting = {} /\ Closed = Cpus /\ Closed' = Cpus
    BY <1>3 DEF SceneInv, SamplerOK, Closed
  <1>7. \A c, a, b : RanIn(c, a, b)' = RanIn(c, a, b)
    BY <1>3, PastSame
  <1>8. CountedOK'
    <2> SUFFICES ASSUME NEW c \in Cpus
                 PROVE  /\ span[c][2] <= n + 1 /\ span[c][2] < n + 1
                        /\ counted[c] = RanIn(c, span[c][1], span[c][2])'
      BY <1>3, <1>6 DEF SceneInv, CountedOK
    <2>1. PICK x, y : x = span[c][1] /\ y = span[c][2]
      OBVIOUS
    <2>2. y <= n /\ y \in Nat /\ counted[c] = RanIn(c, x, y)
      BY <1>2, <1>6, <2>1 DEF SceneInv, CountedOK
    <2>3. RanIn(c, x, y)' = RanIn(c, span[c][1], span[c][2])'
      BY <1>3, <2>1 DEF RanIn
    <2> QED
      BY <1>2, <1>7, <2>1, <2>2, <2>3
  <1>9. RowsOK'
    <2> SUFFICES ASSUME NEW s \in cpuCsv
                 PROVE  /\ s.cpu \in Cpus /\ s.ts \in Nat /\ s.ts <= n + 1
                        /\ s.span \in Nat \X Nat /\ s.span[2] < s.ts
                        /\ s.threads = RanIn(s.cpu, s.span[1], s.span[2])'
      BY <1>3 DEF RowsOK
    <2> QED
      BY <1>2, <1>7 DEF SceneInv, RowsOK
  <1>10. StagesOK' /\ CollectorOK' /\ AttrOK'
    <2>1. CollectorOK' /\ AttrOK'
      BY <1>1, <1>3, CollectorKept, AttrKept DEF SceneInv
    <2>2. StagesOK'
      BY <1>1, <1>3 DEF SceneInv, StagesOK
    <2> QED
      BY <2>1, <2>2
  <1> QED
    BY <1>4, <1>5, <1>8, <1>9, <1>10 DEF SceneInv

\* A sample of a CPU counts the threads of its round.
LEMMA SampleOK ==
  ASSUME SceneInv, sampler = "rows", NEW c \in Cpus
  PROVE  LET s == Sample(c)
         IN /\ s.cpu \in Cpus /\ s.ts \in Nat /\ s.ts <= now
            /\ s.span \in Nat \X Nat /\ s.span[2] < s.ts
            /\ s.threads = RanIn(s.cpu, s.span[1], s.span[2])
  <1>1. ns \in Nat /\ ns <= now
    BY DEF SceneInv, SamplerOK
  <1>2. Closed = Cpus
    BY DEF Closed
  <1>3. /\ span[c] \in Nat \X Nat /\ span[c][2] < ns
        /\ counted[c] = RanIn(c, span[c][1], span[c][2])
    BY <1>2 DEF SceneInv, CountedOK
  <1> QED
    BY <1>1, <1>3 DEF Sample

\* Rows of the round are written, all of them or those read so far.
LEMMA RowsWritten ==
  ASSUME SceneInv, sampler = "rows", sampler' \in {"loop", "gone"}, at' = 0,
         cpuCsv' \subseteq cpuCsv \cup {Sample(c) : c \in Cpus},
         UNCHANGED <<others, stop, counting, counted, ns, rounds, now, span>>
  PROVE  SceneInv'
  <1>1. pc \notin {"start", "startPmu", "attribute", "done"}
    BY SamplerWhen
  <1>2. UNCHANGED <<script, pc, collector, attr, machine, sched, switches>>
    BY DEF others, collector, machine
  <1>3. MachineOK' /\ CollectorOK' /\ AttrOK'
    BY <1>1, <1>2, MachineKept, CollectorKept, AttrKept DEF SceneInv
  <1>4. StagesOK'
    BY <1>1, <1>2 DEF SceneInv, StagesOK
  <1>5. SamplerOK'
    <2>1. 0 \in Cpus
      BY CpuOrder DEF SceneInv, SamplerOK
    <2> QED
      BY <2>1 DEF SceneInv, SamplerOK
  <1>6. CountedOK'
    <2>1. Closed' = {}
      BY DEF Closed
    <2> QED
      BY <1>2, <2>1, CountersKept DEF SceneInv
  <1>7. RowsOK'
    <2>1. \A c, a, b : RanIn(c, a, b)' = RanIn(c, a, b)
      BY <1>2, PastSame
    <2> SUFFICES ASSUME NEW s \in cpuCsv'
                 PROVE  /\ s.cpu \in Cpus /\ s.ts \in Nat /\ s.ts <= now
                        /\ s.span \in Nat \X Nat /\ s.span[2] < s.ts
                        /\ s.threads = RanIn(s.cpu, s.span[1], s.span[2])'
      BY DEF RowsOK
    <2>2. CASE s \in cpuCsv
      BY <2>1, <2>2 DEF SceneInv, RowsOK
    <2>3. CASE s \in {Sample(c) : c \in Cpus}
      <3>1. PICK c \in Cpus : s = Sample(c)
        BY <2>3
      <3> QED
        BY <2>1, <3>1, SampleOK
    <2> QED
      BY <2>2, <2>3
  <1> QED
    BY <1>3, <1>4, <1>5, <1>6, <1>7 DEF SceneInv

\* The rows of the round are written.
LEMMA WriteRowsInv ==
  ASSUME SceneInv, WriteRows
  PROVE  SceneInv'
  BY RowsWritten DEF WriteRows, SamplerGoto

\* The rows of the CPUs before the one that fails are written.
LEMMA ReadFailsInv ==
  ASSUME SceneInv, ReadFails
  PROVE  SceneInv'
  <1>1. PICK c \in Cpus : cpuCsv' = cpuCsv \cup {Sample(d) : d \in 0 .. c - 1}
    BY DEF ReadFails
  <1>2. 0 .. c - 1 \subseteq Cpus
    BY SceneRunAssumption DEF Cpus
  <1> QED
    BY <1>1, <1>2, RowsWritten DEF ReadFails, SamplerGoto

-----------------------------------------------------------------------------
(* The runner. *)

\* Nothing has been recorded yet.
LEMMA StartSchedInv ==
  ASSUME SceneInv, StartSched
  PROVE  SceneInv'
  <1>1. /\ pc = "start" /\ pc' = "startPmu" /\ sched' = "loading"
        /\ UNCHANGED <<script, ring, schedCsv, sampler, switches>>
    BY DEF StartSched, pmu, machine
  <1>2. StagesOK'
    BY <1>1 DEF SceneInv, StagesOK
  <1>3. CollectorOK'
    BY <1>1 DEF SceneInv, CollectorOK, StagesOK, Attached
  <1> QED
    BY <1>1, <1>2, <1>3, OthersKept DEF StartSched

\* The events are about to be opened.
LEMMA StartPmuInv ==
  ASSUME SceneInv, StartPmu
  PROVE  SceneInv'
  <1>1. /\ pc = "startPmu" /\ pc' = "collect" /\ sampler = "off" /\ sampler' = "loading"
        /\ UNCHANGED <<script, collector, sched, stop, at, counting, counted, ns, rounds, cpuCsv,
                       attr, now, machine, switches, span>>
    BY DEF StartPmu, collector, machine, SceneInv, StagesOK
  <1>2. MachineOK' /\ CollectorOK' /\ RowsOK' /\ AttrOK'
    BY <1>1, MachineKept, CollectorKept, RowsKept, AttrKept DEF SceneInv
  <1>3. StagesOK'
    BY <1>1 DEF SceneInv, StagesOK
  <1>4. SamplerOK'
    BY <1>1 DEF SceneInv, SamplerOK
  <1>5. CountedOK'
    BY <1>1, CountersKept DEF SceneInv, Closed
  <1> QED
    BY <1>2, <1>3, <1>4, <1>5 DEF SceneInv

\* A collector that dies of the signal has recorded nothing yet.
LEMMA InterruptSchedInv ==
  ASSUME SceneInv, InterruptSched
  PROVE  SceneInv'
  <1>1. /\ pc = "collect" /\ pc' = IF script = "cpu" THEN "interruptPmu" ELSE "waitSched"
        /\ sched' = IF sched = "on" THEN "leaving" ELSE "gone"
        /\ UNCHANGED <<script, ring, schedCsv, sampler, switches>>
    BY DEF InterruptSched, pmu, machine
  <1>2. StagesOK'
    BY <1>1 DEF SceneInv, StagesOK
  <1>3. CollectorOK'
    BY <1>1 DEF SceneInv, CollectorOK, StagesOK, Attached
  <1> QED
    BY <1>1, <1>2, <1>3, OthersKept DEF InterruptSched

\* A sampler that dies of the signal has not counted yet.
LEMMA InterruptPmuInv ==
  ASSUME SceneInv, InterruptPmu
  PROVE  SceneInv'
  <1>1. /\ pc = "interruptPmu" /\ pc' = IF script = "cpu" THEN "waitSched" ELSE "waitPmu"
        /\ stop' = TRUE /\ sampler' = IF sampler = "loading" THEN "gone" ELSE sampler
        /\ UNCHANGED <<script, collector, sched, at, counting, counted, ns, rounds, cpuCsv,
                       attr, now, machine, switches, span>>
    BY DEF InterruptPmu, collector, machine
  <1>2. MachineOK' /\ CollectorOK' /\ RowsOK' /\ AttrOK'
    BY <1>1, MachineKept, CollectorKept, RowsKept, AttrKept DEF SceneInv
  <1>3. StagesOK'
    BY <1>1 DEF SceneInv, StagesOK
  <1>4. SamplerOK'
    BY <1>1 DEF SceneInv, SamplerOK
  <1>5. CountedOK'
    BY <1>1, CountersKept DEF SceneInv, Closed
  <1> QED
    BY <1>2, <1>3, <1>4, <1>5 DEF SceneInv

\* A collector that is terminated leaves nothing in the ring.
LEMMA WaitSchedInv ==
  ASSUME SceneInv, WaitSched
  PROVE  SceneInv'
  <1>1. /\ pc = "waitSched"
        /\ \/ sched = "gone" /\ sched' = sched /\ ring' = ring
              /\ pc' = IF script = "cpu" THEN "waitPmu" ELSE "interruptPmu"
           \/ pc' = pc /\ sched' = "gone" /\ ring' = <<>>
        /\ UNCHANGED <<script, schedCsv, sampler, switches>>
    BY DEF WaitSched, AfterSched, Terminated, pmu, machine
  <1>2. StagesOK'
    BY <1>1 DEF SceneInv, StagesOK
  <1>3. CollectorOK'
    <2>1. CASE ring' = ring /\ sched' = sched
      BY <1>1, <2>1 DEF SceneInv, CollectorOK, Attached
    <2>2. CASE ring' = <<>>
      BY <1>1, <2>2, EmptySeq, SceneRunAssumption DEF SceneInv, CollectorOK
    <2> QED
      BY <1>1, <2>1, <2>2
  <1> QED
    BY <1>1, <1>2, <1>3, OthersKept DEF WaitSched

\* The counters of a sampler that is terminated are closed with it.
LEMMA WaitPmuInv ==
  ASSUME SceneInv, WaitPmu
  PROVE  SceneInv'
  <1>1. /\ pc = "waitPmu" /\ sampler' = "gone"
        /\ \/ sampler = "gone" /\ pc' = "attribute" /\ counting' = counting
           \/ pc' = pc /\ counting' = {}
        /\ UNCHANGED <<script, collector, sched, stop, at, counted, ns, rounds, cpuCsv,
                       attr, now, machine, switches, span>>
    BY DEF WaitPmu, Terminated, collector, machine
  <1>2. MachineOK' /\ CollectorOK' /\ RowsOK' /\ AttrOK'
    BY <1>1, MachineKept, CollectorKept, RowsKept, AttrKept DEF SceneInv
  <1>3. StagesOK'
    BY <1>1 DEF SceneInv, StagesOK
  <1>4. SamplerOK'
    BY <1>1 DEF SceneInv, SamplerOK
  <1>5. CountedOK'
    <2>1. Closed' = {} /\ counting' \subseteq counting
      BY <1>1 DEF Closed
    <2> QED
      BY <1>1, <2>1, CountersKept DEF SceneInv
  <1> QED
    BY <1>2, <1>3, <1>4, <1>5 DEF SceneInv

\* Each sample goes to the thread find_last_thread finds for it.
LEMMA AttributeInv ==
  ASSUME SceneInv, Attribute
  PROVE  SceneInv'
  <1>1. /\ pc = "attribute" /\ pc' = "done"
        /\ attr' = {[sample |-> s, thread |-> LastThread(s)] : s \in cpuCsv}
        /\ UNCHANGED <<script, collector, pmu, counted, now, machine>>
        /\ UNCHANGED <<sched, schedCsv, sampler, stop, at, counting, ns, rounds, cpuCsv, span, switches>>
    BY DEF Attribute, collector, pmu, machine
  <1>2. MachineOK' /\ CollectorOK' /\ RowsOK'
    BY <1>1, MachineKept, CollectorKept, RowsKept DEF SceneInv
  <1>3. StagesOK'
    BY <1>1 DEF SceneInv, StagesOK
  <1>4. SamplerOK'
    BY <1>1 DEF SceneInv, SamplerOK
  <1>5. CountedOK'
    BY <1>1, CountersKept DEF SceneInv, Closed
  <1>6. AttrOK'
    <2>1. \A s : LastThread(s)' = LastThread(s)
      BY <1>1 DEF LastThread
    <2> QED
      BY <1>1, <2>1 DEF AttrOK
  <1> QED
    BY <1>2, <1>3, <1>4, <1>5, <1>6 DEF SceneInv

-----------------------------------------------------------------------------
(* The theorems. *)

\* Every step of a run keeps the invariant.
LEMMA SceneNext ==
  ASSUME SceneInv, [Next]_vars
  PROVE  SceneInv'
  <1>1. ASSUME NEW c \in Cpus, NEW t \in Threads \cup {Idle}, Switch(c, t) PROVE SceneInv'
    BY <1>1, SwitchInv
  <1>2. CASE SchedUp \/ HandOut \/ SchedLeaves
    BY <1>2, SchedUpInv, HandOutInv, SchedLeavesInv
  <1>3. CASE Sampler
    <2>1. CASE SamplerUp \/ Loop \/ Enable \/ Wake
      BY <2>1, SamplerUpInv, LoopInv, EnableInv, WakeInv
    <2>2. CASE Disable \/ Stamp \/ WriteRows \/ ReadFails
      BY <2>2, DisableInv, StampInv, WriteRowsInv, ReadFailsInv
    <2> QED
      BY <1>3, <2>1, <2>2 DEF Sampler
  <1>4. CASE Runner
    <2>1. CASE StartSched \/ StartPmu \/ InterruptSched \/ InterruptPmu
      BY <2>1, StartSchedInv, StartPmuInv, InterruptSchedInv, InterruptPmuInv
    <2>2. CASE WaitSched \/ WaitPmu \/ Attribute
      BY <2>2, WaitSchedInv, WaitPmuInv, AttributeInv
    <2> QED
      BY <1>4, <2>1, <2>2 DEF Runner
  <1>5. CASE UNCHANGED vars
    <2>1. /\ UNCHANGED <<script, pc, collector, sched, sampler, stop, at, counting, counted, ns>>
          /\ UNCHANGED <<rounds, cpuCsv, attr, schedCsv, now, machine, switches, span>>
      BY <1>5 DEF vars, collector, machine
    <2>2. MachineOK' /\ CollectorOK' /\ RowsOK'
      BY <2>1, MachineKept, CollectorKept, RowsKept DEF SceneInv
    <2>3. StagesOK'
      BY <2>1 DEF SceneInv, StagesOK
    <2>4. SamplerOK'
      BY <2>1 DEF SceneInv, SamplerOK
    <2>5. CountedOK'
      BY <2>1, CountersKept DEF SceneInv, Closed
    <2>6. AttrOK'
      <3>1. \A s : LastThread(s)' = LastThread(s)
        BY <2>1 DEF LastThread
      <3> QED
        BY <2>1, <3>1 DEF SceneInv, AttrOK
    <2> QED
      BY <2>2, <2>3, <2>4, <2>5, <2>6 DEF SceneInv
  <1> QED
    BY <1>1, <1>2, <1>3, <1>4, <1>5 DEF Next

\* The invariant holds in every state of a run.
THEOREM SceneInvariant == Spec => []SceneInv
  <1>1. SceneInv /\ [Next]_vars => SceneInv'
    BY SceneNext
  <1> QED
    BY SceneInit, <1>1, PTL DEF Spec

\* Every variable of a run keeps to its type, the counters run only within a
\* round, and both collectors have ended before the samples are attributed.
THEOREM SceneTypeCorrect == Spec => []SceneTypeOK
  <1>1. SceneInv => SceneTypeOK
    <2> SUFFICES ASSUME SceneInv PROVE SceneTypeOK
      OBVIOUS
    <2>1. MachineOK /\ StagesOK /\ CollectorOK /\ SamplerOK /\ CountedOK /\ AttrOK
      BY DEF SceneInv
    <2>2. {a.sample : a \in attr} \subseteq cpuCsv
      BY <2>1 DEF AttrOK
    <2>3. running \in [Cpus -> Threads \cup {Idle}]
      BY <2>1 DEF MachineOK
    <2>4. counted \in [Cpus -> SUBSET (Threads \cup {Idle})]
      BY <2>1 DEF CountedOK
    <2>5. /\ ring \in Seq(Records) /\ Len(ring) <= RingSize /\ schedCsv \in Seq(Records)
          /\ ~ Attached => ring = <<>>
      BY <2>1 DEF CollectorOK
    <2>6. /\ stop \in BOOLEAN /\ at \in Cpus /\ rounds \in 0 .. MaxRounds
          /\ counting = IF sampler = "enable" THEN 0 .. at - 1
                        ELSE IF sampler = "disable" THEN at .. NCpus - 1
                        ELSE IF sampler = "sleep" THEN Cpus ELSE {}
      BY <2>1 DEF SamplerOK
    <2> QED
      BY <2>1, <2>2, <2>3, <2>4, <2>5, <2>6 DEF SceneTypeOK, StagesOK
  <1> QED
    BY SceneInvariant, <1>1, PTL

\* The counters of a row of cpu.csv are those of one round: of all the threads
\* that ran on its CPU while they were enabled, which was over at the stamp.
THEOREM RowsCountTheirRound == Spec => []RowCountsItsRound
  <1>1. SceneInv => RowCountsItsRound
    BY DEF SceneInv, RowsOK, RowCountsItsRound, RanIn
  <1> QED
    BY SceneInvariant, <1>1, PTL

\* Of the rows of sched.csv before a sample, the last switch has the latest
\* stamp, and is the only one that has.
LEMMA FoundIsLast ==
  ASSUME SceneInv, NEW s \in cpuCsv, SwitchesOf(s.cpu, s.ts) # {},
         Recorded(LastOf(SwitchesOf(s.cpu, s.ts)))
  PROVE  LastThread(s) = RunningAt(s.cpu, s.ts)
  <1> DEFINE before == SwitchesOf(s.cpu, s.ts)
             rows == {i \in 1 .. Len(schedCsv) : Before(schedCsv[i], s)}
  <1>1. MachineOK
    BY DEF SceneInv
  <1>2. PICK i \in before : LastOf(before) = switches[i] /\ \A j \in before : j <= i
    BY <1>1, LastSwitch
  <1>3. /\ before \subseteq 1 .. Len(switches) /\ Len(switches) \in Nat
        /\ \A j \in before : switches[j].cpu = s.cpu /\ switches[j].ts <= s.ts
        /\ \A j \in 1 .. Len(switches) :
             switches[j].cpu = s.cpu /\ switches[j].ts <= s.ts => j \in before
    BY <1>1, SwitchTypes DEF SwitchesOf
  <1>4. \A j \in before : switches[j].ts \in Nat /\ (j # i => switches[j].ts < switches[i].ts)
    <2>1. \A j \in before : j \in Nat /\ j <= i
      BY <1>2, <1>3
    <2>2. \A j \in before : j # i => j < i
      BY <2>1, <1>2
    <2> QED
      BY <1>1, <1>2, <1>3, <2>2, SwitchTypes DEF MachineOK
  <1>5. \A k \in rows : \E j \in before : schedCsv[k] = switches[j]
    <2> SUFFICES ASSUME NEW k \in rows PROVE \E j \in before : schedCsv[k] = switches[j]
      OBVIOUS
    <2>1. k \in 1 .. Len(schedCsv) /\ schedCsv[k].cpu = s.cpu /\ schedCsv[k].ts <= s.ts
      BY DEF Before
    <2>2. PICK j \in 1 .. Len(switches) : schedCsv[k] = switches[j]
      BY <2>1 DEF SceneInv, CollectorOK
    <2> QED
      BY <1>3, <2>1, <2>2
  <1>6. PICK k \in rows : schedCsv[k] = switches[i]
    <2>1. PICK k \in 1 .. Len(schedCsv) : schedCsv[k] = switches[i]
      BY <1>2 DEF Recorded
    <2>2. k \in rows
      BY <1>2, <1>3, <2>1 DEF Before
    <2> QED
      BY <2>1, <2>2
  <1> DEFINE found == CHOOSE m \in rows : \A j \in rows : schedCsv[j].ts <= schedCsv[m].ts
  <1>7. LastThread(s) = schedCsv[found].next
    BY <1>6 DEF LastThread
  <1>8. RunningAt(s.cpu, s.ts) = switches[i].next
    BY <1>2 DEF RunningAt
  <1> HIDE DEF before, rows
  <1>9. \A j \in rows : schedCsv[j].ts \in Nat /\ schedCsv[j].ts <= switches[i].ts
    <2> SUFFICES ASSUME NEW j \in rows
                 PROVE  schedCsv[j].ts \in Nat /\ schedCsv[j].ts <= switches[i].ts
      OBVIOUS
    <2>1. PICK x \in before : schedCsv[j] = switches[x]
      BY <1>5
    <2>2. switches[x].ts \in Nat /\ switches[i].ts \in Nat
      BY <1>2, <1>4
    <2> QED
      BY <1>4, <2>1, <2>2
  <1>10. found \in rows /\ \A j \in rows : schedCsv[j].ts <= schedCsv[found].ts
    BY <1>6, <1>9
  <1> HIDE DEF found
  <1>11. schedCsv[found].ts = switches[i].ts
    BY <1>6, <1>9, <1>10
  <1>12. schedCsv[found] = switches[i]
    <2>1. PICK x \in before : schedCsv[found] = switches[x]
      BY <1>5, <1>10
    <2>2. switches[x].ts \in Nat /\ switches[i].ts \in Nat
      BY <1>2, <1>4
    <2> QED
      BY <1>4, <1>11, <2>1, <2>2
  <1> QED
    BY <1>7, <1>8, <1>12

\* A sample goes to the thread that ran on its CPU at the stamp, if the last
\* switch before is in sched.csv.
THEOREM SamplesToRunning == Spec => []AttributedToRunning
  <1>1. SceneInv => AttributedToRunning
    <2> SUFFICES ASSUME SceneInv, NEW a \in attr,
                        SwitchesOf(a.sample.cpu, a.sample.ts) # {},
                        Recorded(LastOf(SwitchesOf(a.sample.cpu, a.sample.ts)))
                 PROVE  a.thread = RunningAt(a.sample.cpu, a.sample.ts)
      BY DEF AttributedToRunning
    <2>1. a.sample \in cpuCsv /\ a.thread = LastThread(a.sample)
      BY DEF SceneInv, AttrOK
    <2> QED
      BY <2>1, FoundIsLast
  <1> QED
    BY SceneInvariant, <1>1, PTL
=============================================================================
