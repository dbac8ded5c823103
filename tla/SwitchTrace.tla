---------------------------- MODULE SwitchTrace ----------------------------
(***************************************************************************)
(* The sched_switch collector with what its records say: which switch of   *)
(* which CPU, at what time.  Every action is one of SwitchRing, with the   *)
(* history of the switches, of the reserved records and of sched.csv.      *)
(*                                                                         *)
(* Reservation and time stamp are two steps, so that the records of two    *)
(* CPUs may lie in the ring in another order than that of their stamps.    *)
(***************************************************************************)
EXTENDS SwitchRing

CONSTANT MaxSwitches    \* bound: switches of each CPU

ASSUME SwitchTraceAssumption == MaxSwitches \in Nat

VARIABLES
  switches,     \* switches of each CPU so far
  clock,        \* bpf_ktime_get_ns
  log,          \* the records reserved so far, ts = 0 until it is filled in
  handed,       \* calls of handle_event so far
  csv           \* the rows of sched.csv below its header

traceVars == <<capture, slot, ring, ready, attached, pc, ahead, gotNew, count, signalled,
               exiting, switches, clock, log, handed, csv>>

history == <<switches, clock, log, handed, csv>>

TraceInit ==
  /\ Init
  /\ switches = [c \in Cpus |-> 0]
  /\ clock = 0
  /\ log = <<>>
  /\ handed = 0
  /\ csv = <<>>

-----------------------------------------------------------------------------
Switch(c) ==
  /\ switches[c] < MaxSwitches
  /\ switches' = [switches EXCEPT ![c] = @ + 1]

SwitchReserved(c) ==
  /\ Reserve(c)
  /\ Switch(c)
  /\ log' = Append(log, [cpu |-> c, n |-> switches[c] + 1, ts |-> 0])
  /\ UNCHANGED <<clock, handed, csv>>

SwitchDropped(c) ==
  /\ Drop(c)
  /\ Switch(c)
  /\ UNCHANGED <<clock, log, handed, csv>>

\* The record a CPU is filling in.
Filling(c) == CHOOSE i \in 1 .. Len(log) : log[i].cpu = c /\ log[i].ts = 0

\* Mutant of Stamp: a coarse clock, which has not ticked since the last record.
StampCoarse == clock

\* e->ts = bpf_ktime_get_ns().
Stamp == clock + 1

SwitchFilled(c) ==
  /\ Fill(c)
  /\ log' = [log EXCEPT ![Filling(c)].ts = Stamp]
  /\ clock' = clock + 1
  /\ UNCHANGED <<switches, handed, csv>>

\* The record at consumer_pos.
AtHead == log[Len(log) - Len(ring) + 1]

\* Mutant of Row: the newest record in place of the one at consumer_pos.
RowNewest == log[Len(log)]

Row == AtHead

RowWritten ==
  /\ Deliver
  /\ csv' = Append(csv, Row)
  /\ handed' = handed + 1
  /\ UNCHANGED <<switches, clock, log>>

\* sched.csv cannot be opened: handle_event returns 0 all the same.
RowLost ==
  /\ Deliver
  /\ handed' = handed + 1
  /\ UNCHANGED <<switches, clock, log, csv>>

ReaderOther ==
  \/ Attach \/ Create \/ CreateFails \/ Arm \/ Leave \/ PollReady \/ PollTimeout
  \/ Load \/ ScanBusy \/ ScanRecord \/ ScanEnd \/ Release

TraceReader ==
  \/ RowWritten \/ RowLost
  \/ ReaderOther /\ UNCHANGED history

TraceNext ==
  \/ \E c \in Cpus :
       \/ SwitchReserved(c) \/ SwitchDropped(c) \/ SwitchFilled(c)
       \/ (Submit(c) \/ Notify(c)) /\ UNCHANGED history
  \/ TraceReader
  \/ (PollFails \/ Signal) /\ UNCHANGED history

TraceSpec == TraceInit /\ [][TraceNext]_traceVars

\* The fairness of SwitchRing.
TraceFairSpec ==
  /\ TraceSpec
  /\ WF_traceVars(TraceReader)
  /\ \A c \in Cpus :
       WF_traceVars(SwitchFilled(c) \/ ((Submit(c) \/ Notify(c)) /\ UNCHANGED history))

-----------------------------------------------------------------------------
\* Every history variable keeps to its type, and the ring is the end of the
\* log that has not been released: of the records handed out only the one
\* being delivered is still in it.
TraceTypeOK ==
  /\ switches \in [Cpus -> 0 .. MaxSwitches]
  /\ clock \in Nat
  /\ log \in Seq([cpu : Cpus, n : Nat, ts : Nat])
  /\ handed \in 0 .. Len(log)
  /\ Len(ring) <= Len(log)
  /\ Len(log) - Len(ring) = IF pc = "release" THEN handed - 1 ELSE handed
  /\ \A i \in 1 .. Len(ring) : ring[i].cpu = log[Len(log) - Len(ring) + i].cpu

\* The rows of one CPU are in the order of its switches and of their time
\* stamps, which is what the attribution of samples takes for granted when it
\* takes the last row of a CPU not later than the sample; whole rows of other
\* CPUs may be out of order.
PerCpuOrder ==
  \A i, j \in 1 .. Len(csv) :
    (i < j /\ csv[i].cpu = csv[j].cpu) => csv[i].n < csv[j].n /\ csv[i].ts < csv[j].ts

\* As long as the reader runs every record reserved is handed out in the end.
AllHandedOut == []<>(handed = Len(log) \/ pc = "gone")

\* The collector keeps the promise of SwitchLog.
EntryOf(e) == <<e.cpu, e.n>>

Log == INSTANCE SwitchLog WITH
  log <- [i \in 1 .. Len(log) |-> EntryOf(log[i])],
  csv <- [i \in 1 .. Len(csv) |-> EntryOf(csv[i])]

LogSpec == Log!Spec
=============================================================================
