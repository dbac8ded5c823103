---------------------------- MODULE SwitchProofs ----------------------------
(***************************************************************************)
(* What holds of the sched_switch collector and of sched.csv for every     *)
(* number of CPUs and of switches, every size of the ring and every limit  *)
(* on one call of ring_buffer__poll.                                       *)
(*                                                                         *)
(* First the ring.  That the reader never sees a record still being        *)
(* filled, and that each CPU knows which record is its own, need each      *)
(* other: the slots of the CPUs move with the head of the ring only        *)
(* because the head that is released was submitted.  RingInv is their      *)
(* conjunction.                                                            *)
(*                                                                         *)
(* Then the rows.  Those of a CPU are in order because the records of a    *)
(* CPU are in order in the log, because what has been handed out lies      *)
(* before what has not, and because a record without a time stamp is that  *)
(* of a CPU inside on_switch, which the reader has not passed.  TraceInv   *)
(* collects this.                                                          *)
(***************************************************************************)
EXTENDS SwitchTrace, SequenceTheorems, TLAPS

-----------------------------------------------------------------------------
(* The ring. *)

Record == [cpu : Cpus, busy : BOOLEAN]

\* The type of the flags and of the reader's own variables.
Flags ==
  /\ ready \in BOOLEAN /\ attached \in BOOLEAN /\ gotNew \in BOOLEAN
  /\ signalled \in BOOLEAN /\ exiting \in BOOLEAN

ReaderTypes ==
  /\ pc \in {"attach", "create", "arm", "poll", "load", "scan", "deliver", "release", "gone"}
  /\ count \in 0 .. Batch

\* The type of the ring and of what the CPUs know of it.
RingTypes ==
  /\ capture \in [Cpus -> {"idle", "reserved", "filled", "submitted"}]
  /\ ring \in Seq(Record)
  /\ Len(ring) <= Size
  /\ slot \in [Cpus -> 0 .. Size]

RingInv ==
  /\ RingTypes
  /\ Flags
  /\ ReaderTypes
  /\ WalkOK
  /\ \A c \in Cpus : OwnsRecord(c)
  /\ NoTornRecord

\* RingInv contains what the types of the ring are.
LEMMA RingInvType == RingInv => RingTypeOK
  <1> SUFFICES ASSUME RingInv PROVE RingTypeOK
    OBVIOUS
  <1>1. {ready, attached, gotNew, signalled, exiting} \subseteq BOOLEAN
    BY DEF RingInv, Flags
  <1> QED
    BY <1>1 DEF RingInv, RingTypes, ReaderTypes, Record, RingTypeOK

\* While the reader is at a record the ring is not empty.
LEMMA RingAtRecord ==
  ASSUME RingInv, pc \in {"deliver", "release"} \/ (pc = "scan" /\ ahead > 0)
  PROVE  ring # <<>> /\ Len(ring) \in Nat \ {0} /\ Head(ring) = ring[1]
  <1>1. ring \in Seq(Record) /\ ahead \in Nat /\ ahead > 0 /\ ahead <= Len(ring)
    BY DEF RingInv, RingTypes, WalkOK
  <1>2. Len(ring) \in Nat \ {0}
    BY <1>1, LenProperties
  <1> QED
    BY <1>1, <1>2, EmptySeq

-----------------------------------------------------------------------------
\* Nothing is reserved before the tracepoint is attached.
LEMMA RingInitInv == Init => RingInv
  <1> SUFFICES ASSUME Init PROVE RingInv
    OBVIOUS
  <1>1. RingTypes
    BY SwitchRingAssumption DEF Init, RingTypes
  <1>2. ReaderTypes
    BY SwitchRingAssumption DEF Init, ReaderTypes
  <1>3. Flags
    BY DEF Init, Flags
  <1>4. WalkOK /\ NoTornRecord
    BY DEF Init, WalkOK, NoTornRecord
  <1>5. \A c \in Cpus : OwnsRecord(c)
    <2> SUFFICES ASSUME NEW c \in Cpus PROVE OwnsRecord(c)
      OBVIOUS
    <2>1. capture[c] = "idle" /\ slot[c] = 0 /\ Len(ring) = 0
      BY DEF Init
    <2> QED
      BY <2>1 DEF OwnsRecord
  <1> QED
    BY <1>1, <1>2, <1>4, <1>5, <1>3 DEF RingInv

\* A record is reserved at the end of the ring: every other slot stays.
LEMMA ReserveInv == ASSUME RingInv, NEW c \in Cpus, Reserve(c) PROVE RingInv'
  <1> DEFINE r == [cpu |-> c, busy |-> TRUE]
  <1>1. ring \in Seq(Record) /\ r \in Record /\ ring' = Append(ring, r)
    BY DEF RingInv, RingTypes, Record, Reserve
  <1>2. /\ ring' \in Seq(Record)
        /\ Len(ring') = Len(ring) + 1 /\ Len(ring) \in Nat
        /\ \A i \in 1 .. Len(ring) : ring'[i] = ring[i]
        /\ ring'[Len(ring) + 1] = r
    BY <1>1, AppendProperties, LenProperties
  <1>3. r.cpu = c /\ r.busy = TRUE
    OBVIOUS
  <1> HIDE DEF r
  <1>4. Len(ring) + 1 \in 1 .. Size
    BY <1>2, SwitchRingAssumption DEF Reserve, HasRoom
  <1>5. RingTypes'
    BY <1>2, <1>4 DEF RingInv, RingTypes, Reserve
  <1>6. Flags' /\ ReaderTypes' /\ WalkOK'
    BY <1>2 DEF RingInv, Flags, ReaderTypes, WalkOK, Reserve, reader
  <1>7. ASSUME NEW d \in Cpus PROVE OwnsRecord(d)'
    <2>1. CASE d = c
      BY <2>1, <1>2, <1>3 DEF RingInv, RingTypes, OwnsRecord, Reserve
    <2>2. CASE d # c
      BY <2>2, <1>2, <1>3 DEF RingInv, RingTypes, OwnsRecord, Reserve
    <2> QED
      BY <2>1, <2>2
  <1>8. NoTornRecord'
    BY <1>1, <1>2, RingAtRecord, HeadTailAppend DEF RingInv, NoTornRecord, Reserve, reader
  <1> QED
    BY <1>5, <1>6, <1>7, <1>8 DEF RingInv

\* Filling a record in does not touch the ring.
LEMMA FillInv == ASSUME RingInv, NEW c \in Cpus, Fill(c) PROVE RingInv'
  <1>1. RingTypes'
    BY DEF RingInv, RingTypes, Fill
  <1>2. Flags' /\ ReaderTypes' /\ WalkOK' /\ NoTornRecord'
    BY DEF RingInv, Flags, ReaderTypes, WalkOK, NoTornRecord, Fill, reader
  <1>3. ASSUME NEW d \in Cpus PROVE OwnsRecord(d)'
    BY DEF RingInv, RingTypes, OwnsRecord, Fill
  <1> QED
    BY <1>1, <1>2, <1>3 DEF RingInv

\* A CPU submits its own record and no other.
LEMMA SubmitInv == ASSUME RingInv, NEW c \in Cpus, Submit(c) PROVE RingInv'
  <1> DEFINE i == slot[c]
             r == [ring[i] EXCEPT !.busy = FALSE]
  <1>1. i \in 1 .. Len(ring) /\ ring[i].cpu = c /\ ring \in Seq(Record) /\ Len(ring) \in Nat
    BY LenProperties DEF RingInv, RingTypes, OwnsRecord, Submit
  <1>2. ring[i] \in Record
    BY <1>1, ElementOfSeq
  <1>3. r \in Record /\ r.cpu = c /\ r.busy = FALSE
    BY <1>1, <1>2 DEF Record
  <1>4. ring' = [ring EXCEPT ![i] = r]
    BY DEF Submit
  <1> HIDE DEF r
  <1>5. /\ ring' \in Seq(Record) /\ Len(ring') = Len(ring)
        /\ \A j \in 1 .. Len(ring) : ring'[j] = IF j = i THEN r ELSE ring[j]
    BY <1>1, <1>3, <1>4, ExceptSeq
  <1>6. RingTypes'
    BY <1>5 DEF RingInv, RingTypes, Submit
  <1>7. Flags' /\ ReaderTypes' /\ WalkOK'
    BY <1>5 DEF RingInv, Flags, ReaderTypes, WalkOK, Submit, reader
  <1>8. ASSUME NEW d \in Cpus PROVE OwnsRecord(d)'
    <2>1. CASE d = c
      BY <2>1, <1>1, <1>3, <1>5 DEF RingInv, RingTypes, OwnsRecord, Submit
    <2>2. CASE d # c
      BY <2>2, <1>1, <1>3, <1>5 DEF RingInv, RingTypes, OwnsRecord, Submit
    <2> QED
      BY <2>1, <2>2
  <1>9. NoTornRecord'
    <2> SUFFICES ASSUME pc' \in {"deliver", "release"} PROVE ~ Head(ring').busy
      BY DEF NoTornRecord
    <2>1. pc \in {"deliver", "release"}
      BY DEF Submit, reader
    <2>2. ~ ring[1].busy /\ 1 \in 1 .. Len(ring)
      BY <2>1, <1>1, RingAtRecord DEF RingInv, NoTornRecord
    <2>3. ~ ring'[1].busy
      BY <2>2, <1>3, <1>5
    <2>4. ring' # <<>>
      BY <2>2, <1>5, EmptySeq
    <2> QED
      BY <2>3, <2>4, <1>5
  <1> QED
    BY <1>6, <1>7, <1>8, <1>9 DEF RingInv

\* A CPU that has notified the reader knows no record any more.
LEMMA NotifyInv == ASSUME RingInv, NEW c \in Cpus, Notify(c) PROVE RingInv'
  <1>1. RingTypes'
    BY SwitchRingAssumption DEF RingInv, RingTypes, Notify
  <1>2. Flags' /\ ReaderTypes' /\ WalkOK' /\ NoTornRecord'
    BY DEF RingInv, Flags, ReaderTypes, WalkOK, NoTornRecord, Notify, reader
  <1>3. ASSUME NEW d \in Cpus PROVE OwnsRecord(d)'
    BY LenProperties DEF RingInv, RingTypes, OwnsRecord, Notify
  <1> QED
    BY <1>1, <1>2, <1>3 DEF RingInv

-----------------------------------------------------------------------------
\* The steps of the reader that touch neither the ring nor a slot.
ReaderKeepsRing ==
  \/ Attach \/ Create \/ CreateFails \/ Arm \/ Leave \/ PollReady \/ PollTimeout
  \/ PollFails \/ Signal \/ Load \/ ScanBusy \/ ScanRecord \/ ScanEnd \/ Deliver

\* The reader, whatever it does short of releasing records, breaks nothing.
LEMMA ReaderInv == ASSUME RingInv, ReaderKeepsRing PROVE RingInv'
  <1>1. UNCHANGED <<capture, slot, ring>>
    BY DEF ReaderKeepsRing, Attach, Create, CreateFails, Arm, Leave, PollReady, PollTimeout,
           PollFails, Signal, Load, ScanBusy, ScanRecord, ScanEnd, Deliver
  <1>2. RingTypes' /\ \A c \in Cpus : OwnsRecord(c)'
    BY <1>1 DEF RingInv, RingTypes, OwnsRecord
  <1>3. Len(ring) \in Nat /\ (ring # <<>>) \in BOOLEAN
    BY LenProperties DEF RingInv, RingTypes
  <1>4. Flags'
    BY <1>3
    DEF RingInv, Flags, reader, ReaderKeepsRing, Attach, Create, CreateFails, Arm, Leave,
        PollReady, PollTimeout, PollFails, Signal, Load, ScanBusy, ScanRecord, ScanEnd, Deliver
  <1>5. ReaderTypes'
    BY SwitchRingAssumption
    DEF RingInv, ReaderTypes, reader, ReaderKeepsRing, Attach, Create, CreateFails, Arm, Leave,
        PollReady, PollTimeout, PollFails, Signal, Load, ScanBusy, ScanRecord, ScanEnd, Deliver
  <1>6. WalkOK'
    BY <1>1, <1>3
    DEF RingInv, WalkOK, reader, ReaderKeepsRing, Attach, Create, CreateFails, Arm, Leave,
        PollReady, PollTimeout, PollFails, Signal, Load, ScanBusy, ScanRecord, ScanEnd, Deliver
  <1>7. NoTornRecord'
    BY <1>1
    DEF RingInv, Flags, ReaderTypes, NoTornRecord, Submitted, reader, ReaderKeepsRing, Attach, Create,
        CreateFails, Arm, Leave, PollReady, PollTimeout, PollFails, Signal, Load, ScanBusy,
        ScanRecord, ScanEnd, Deliver
  <1> QED
    BY <1>2, <1>5, <1>6, <1>7, <1>4 DEF RingInv

\* The head that is released belongs to no CPU any more: every slot moves by
\* one with its record.
LEMMA ReleaseInv == ASSUME RingInv, Release PROVE RingInv'
  <1>1. /\ ring \in Seq(Record) /\ ring # <<>> /\ ring' = Tail(ring)
        /\ Len(ring) \in Nat \ {0} /\ ~ ring[1].busy
    BY RingAtRecord DEF RingInv, RingTypes, NoTornRecord, Release, Consumed
  <1>2. /\ ring' \in Seq(Record) /\ Len(ring') = Len(ring) - 1
        /\ \A i \in 1 .. Len(ring') : ring'[i] = ring[i + 1]
    BY <1>1, HeadTailProperties
  <1>3. RingTypes'
    BY <1>1, <1>2, SwitchRingAssumption DEF RingInv, RingTypes, Release
  <1>4. Flags' /\ ReaderTypes'
    BY SwitchRingAssumption DEF RingInv, Flags, ReaderTypes, Release, Counted
  <1>5. WalkOK' /\ NoTornRecord'
    BY <1>1, <1>2 DEF RingInv, WalkOK, NoTornRecord, Release
  <1>6. ASSUME NEW c \in Cpus PROVE OwnsRecord(c)'
    <2>1. slot[c] \in 0 .. Size /\ slot'[c] = IF slot[c] > 0 THEN slot[c] - 1 ELSE 0
      BY DEF RingInv, RingTypes, Release
    <2>2. capture[c] \in {"reserved", "filled"} => slot[c] > 1
      BY <1>1, <2>1, SwitchRingAssumption DEF RingInv, OwnsRecord
    <2>3. slot'[c] <= Len(ring')
      BY <1>1, <1>2, <2>1, SwitchRingAssumption DEF RingInv, OwnsRecord
    <2>4. ASSUME NEW i \in 1 .. Len(ring')
          PROVE  (ring'[i].cpu = c /\ ring'[i].busy) <=>
                   (capture'[c] \in {"reserved", "filled"} /\ slot'[c] = i)
      <3>1. i + 1 \in 1 .. Len(ring) /\ ring'[i] = ring[i + 1]
        BY <1>1, <1>2
      <3>2. (ring[i + 1].cpu = c /\ ring[i + 1].busy) <=>
              (capture[c] \in {"reserved", "filled"} /\ slot[c] = i + 1)
        BY <3>1 DEF RingInv, OwnsRecord
      <3>3. capture'[c] = capture[c] /\ (slot'[c] = i <=> slot[c] = i + 1)
        BY <2>1, <1>1, <1>2, SwitchRingAssumption DEF Release
      <3> QED
        BY <3>1, <3>2, <3>3
    <2> QED
      BY <2>1, <2>2, <2>3, <2>4, SwitchRingAssumption DEF OwnsRecord, Release
  <1> QED
    BY <1>3, <1>4, <1>5, <1>6 DEF RingInv

-----------------------------------------------------------------------------
\* No step of a writer, of the reader or of the collector breaks RingInv.
LEMMA RingNextInv == RingInv /\ [Next]_ringVars => RingInv'
  <1> SUFFICES ASSUME RingInv, [Next]_ringVars PROVE RingInv'
    OBVIOUS
  <1>1. ASSUME NEW c \in Cpus, Reserve(c) \/ Fill(c) \/ Submit(c) \/ Notify(c) PROVE RingInv'
    BY <1>1, ReserveInv, FillInv, SubmitInv, NotifyInv
  <1>2. CASE (\E c \in Cpus : Drop(c)) \/ UNCHANGED ringVars
    BY <1>2 DEF Drop, ringVars, RingInv, RingTypes, Flags, ReaderTypes, WalkOK, OwnsRecord, NoTornRecord
  <1>3. CASE Release
    BY <1>3, ReleaseInv
  <1>4. CASE ReaderKeepsRing
    BY <1>4, ReaderInv
  <1> QED
    BY <1>1, <1>2, <1>3, <1>4 DEF Next, Reader, ReaderKeepsRing

\* RingInv holds in every state of every execution.
THEOREM RingInvariant == Spec => []RingInv
  BY RingInitInv, RingNextInv, PTL DEF Spec

\* Type correctness: the ring never holds more records than fit, a CPU inside
\* on_switch owns its record, and the reader stays within the ring.
THEOREM RingTypeCorrect == Spec => []RingTypeOK
  BY RingInvariant, RingInvType, PTL

\* ringbuf_process_ring never hands out a record whose BUSY bit is set.
THEOREM NeverTorn == Spec => []NoTornRecord
  <1>1. RingInv => NoTornRecord
    BY DEF RingInv
  <1> QED
    BY <1>1, RingInvariant, PTL

-----------------------------------------------------------------------------
(* The wakeup. *)

\* Once the ring has been added to the epoll instance it is on the ready list,
\* or it is empty, or a CPU is inside on_switch with the record at its head and
\* will see that consumer_pos is there: a submit that wakes nobody loses no
\* wakeup, whichever way it is interleaved with the reader.
WakeupOwed ==
  pc \notin {"attach", "create", "gone"} =>
    \/ ready
    \/ ring = <<>>
    \/ \E c \in Cpus : capture[c] # "idle" /\ slot[c] = 1

\* The reader is at the ring only when epoll_wait has reported it.
ReportedOK == pc \in {"load", "scan", "deliver", "release"} => ready

WakeupInv == ReportedOK /\ WakeupOwed

\* Before the first step nobody is owed a wakeup.
LEMMA WakeupInit == Init => WakeupInv
  BY DEF Init, WakeupInv, ReportedOK, WakeupOwed

\* The steps of a CPU: whoever has the head of the ring keeps it until it has
\* set the ring ready.
LEMMA WakeupCpu ==
  ASSUME RingInv, WakeupInv, NEW c \in Cpus, Reserve(c) \/ Fill(c) \/ Submit(c) \/ Notify(c)
  PROVE  WakeupInv'
  <1>1. ready => ready'
    BY DEF Reserve, Fill, Submit, Notify
  <1>2. /\ pc' = pc /\ (ready => ready')
        /\ capture \in [Cpus -> {"idle", "reserved", "filled", "submitted"}]
        /\ slot \in [Cpus -> 0 .. Size]
    BY <1>1 DEF RingInv, RingTypes, Reserve, Fill, Submit, Notify, reader
  <1>3. ReportedOK'
    BY <1>2 DEF WakeupInv, ReportedOK
  <1> SUFFICES ASSUME pc \notin {"attach", "create", "gone"}, ~ ready', ring' # <<>>
               PROVE  \E d \in Cpus : capture'[d] # "idle" /\ slot'[d] = 1
    BY <1>2, <1>3 DEF WakeupInv, WakeupOwed
  <1>4. ~ ready
    BY <1>2
  <1>5. ring = <<>> \/ \E d \in Cpus : capture[d] # "idle" /\ slot[d] = 1
    BY <1>4 DEF WakeupInv, WakeupOwed
  <1>6. CASE Reserve(c)
    <2>1. CASE ring = <<>>
      <3>1. slot'[c] = 1 /\ capture'[c] = "reserved"
        BY <1>2, <1>6, <2>1 DEF Reserve
      <3> QED
        BY <3>1
    <2>2. CASE ring # <<>>
      <3>1. PICK d \in Cpus : capture[d] # "idle" /\ slot[d] = 1
        BY <1>5, <2>2
      <3>2. capture'[d] = capture[d] /\ slot'[d] = slot[d]
        BY <1>2, <1>6, <3>1 DEF Reserve
      <3> QED
        BY <3>1, <3>2
    <2> QED
      BY <2>1, <2>2
  <1>7. ring # <<>> \/ Reserve(c)
    BY LenProperties DEF RingInv, RingTypes, OwnsRecord, Fill, Submit, Notify
  <1>8. CASE ~ Reserve(c)
    <2>1. PICK d \in Cpus : capture[d] # "idle" /\ slot[d] = 1
      BY <1>5, <1>7, <1>8
    <2>2. d # c \/ ~ Notify(c)
      BY <1>4, <2>1 DEF Notify, Wakes
    <2>3. capture'[d] # "idle" /\ slot'[d] = 1
      BY <1>2, <1>8, <2>1, <2>2 DEF Fill, Submit, Notify
    <2> QED
      BY <2>3
  <1> QED
    BY <1>6, <1>8

\* The steps of the reader: poll takes the ring from the ready list only when it
\* is empty.
LEMMA WakeupReader ==
  ASSUME RingInv, WakeupInv, ReaderKeepsRing \/ Release
  PROVE  WakeupInv'
  <1>1. CASE Release
    BY <1>1 DEF Release, WakeupInv, ReportedOK, WakeupOwed
  <1>2. CASE PollTimeout
    BY <1>2 DEF PollTimeout, reader, WakeupInv, ReportedOK, WakeupOwed
  <1>3. CASE Create
    BY <1>3 DEF Create, WakeupInv, ReportedOK, WakeupOwed
  <1>4. CASE ReaderKeepsRing /\ ~ PollTimeout /\ ~ Create
    <2>1. UNCHANGED <<capture, slot, ring, ready>>
      BY <1>4 DEF ReaderKeepsRing, Attach, CreateFails, Arm, Leave, PollReady,
                  PollFails, Signal, Load, ScanBusy, ScanRecord, ScanEnd, Deliver
    <2>2. /\ pc' \notin {"attach", "create", "gone"} => pc \notin {"attach", "create", "gone"}
          /\ pc' \in {"load", "scan", "deliver", "release"} =>
               pc \in {"load", "scan", "deliver", "release"} \/ ready
      BY <1>4 DEF ReaderKeepsRing, Attach, CreateFails, Arm, Leave, PollReady,
                  PollFails, Signal, Load, ScanBusy, ScanRecord, ScanEnd, Deliver
    <2> QED
      BY <2>1, <2>2 DEF WakeupInv, ReportedOK, WakeupOwed
  <1> QED
    BY <1>1, <1>2, <1>3, <1>4

\* No step loses a wakeup that is owed.
LEMMA WakeupNext == RingInv /\ WakeupInv /\ [Next]_ringVars => WakeupInv'
  <1> SUFFICES ASSUME RingInv, WakeupInv, [Next]_ringVars PROVE WakeupInv'
    OBVIOUS
  <1>1. ASSUME NEW c \in Cpus, Reserve(c) \/ Fill(c) \/ Submit(c) \/ Notify(c) PROVE WakeupInv'
    BY <1>1, WakeupCpu
  <1>2. CASE (\E c \in Cpus : Drop(c)) \/ UNCHANGED ringVars
    BY <1>2 DEF Drop, ringVars, WakeupInv, ReportedOK, WakeupOwed
  <1>3. CASE ReaderKeepsRing \/ Release
    BY <1>3, WakeupReader
  <1> QED
    BY <1>1, <1>2, <1>3 DEF Next, Reader, ReaderKeepsRing

\* No wakeup is lost: what makes HeadDelivered true, whose own proof would need
\* the fairness of the reader.
THEOREM WakeupNotLost == Spec => []WakeupOwed
  <1>1. WakeupInv => WakeupOwed
    BY DEF WakeupInv
  <1> QED
    BY <1>1, WakeupInit, WakeupNext, RingInvariant, PTL DEF Spec

-----------------------------------------------------------------------------
(* The rows. *)

Entry == [cpu : Cpus, n : Nat, ts : Nat]

\* The records that have left the ring.
Gap == Len(log) - Len(ring)

\* The records without a time stamp are those of the CPUs between reservation
\* and bpf_ktime_get_ns.
FillingOK ==
  \A c \in Cpus : \A i \in 1 .. Len(log) :
    (log[i].cpu = c /\ log[i].ts = 0) <=> (capture[c] = "reserved" /\ i = Gap + slot[c])

\* No record is from the future.
BoundsOK ==
  \A i \in 1 .. Len(log) : log[i].ts <= clock /\ log[i].n <= switches[log[i].cpu]

\* The records of one CPU are in order, and only the last may lack its stamp.
LogOrder ==
  \A i, j \in 1 .. Len(log) :
    (i < j /\ log[i].cpu = log[j].cpu) =>
      /\ log[i].n < log[j].n
      /\ log[i].ts # 0
      /\ log[j].ts = 0 \/ log[i].ts < log[j].ts

\* A row is older than every record of its CPU still to be handed out.
RowsOK ==
  /\ csv \in Seq(Entry)
  /\ \A k \in 1 .. Len(csv) :
       /\ csv[k].ts <= clock
       /\ csv[k].n <= switches[csv[k].cpu]
       /\ \A i \in handed + 1 .. Len(log) :
            log[i].cpu = csv[k].cpu =>
              csv[k].n < log[i].n /\ (log[i].ts = 0 \/ csv[k].ts < log[i].ts)

TraceInv ==
  /\ TraceTypeOK
  /\ FillingOK
  /\ BoundsOK
  /\ LogOrder
  /\ RowsOK
  /\ PerCpuOrder

-----------------------------------------------------------------------------
\* A step of SwitchTrace is a step of SwitchRing.
LEMMA TraceStepIsRingStep == [TraceNext]_traceVars => [Next]_ringVars
  BY DEF TraceNext, TraceReader, ReaderOther, SwitchReserved, SwitchDropped, SwitchFilled,
         RowWritten, RowLost, Next, Reader, traceVars, ringVars

\* The history changes nothing that the collector does.
THEOREM TraceRefinesRing == TraceSpec => Spec
  <1>1. TraceInit => Init
    BY DEF TraceInit
  <1> QED
    BY <1>1, TraceStepIsRingStep, PTL DEF TraceSpec, Spec

\* The types that most steps below need.
LEMMA TraceTypes ==
  ASSUME RingInv, TraceInv
  PROVE  /\ capture \in [Cpus -> {"idle", "reserved", "filled", "submitted"}]
         /\ slot \in [Cpus -> 0 .. Size] /\ \A c \in Cpus : slot[c] \in Nat
         /\ switches \in [Cpus -> 0 .. MaxSwitches] /\ \A c \in Cpus : switches[c] \in Nat
         /\ clock \in Nat
         /\ ring \in Seq(Record) /\ Len(ring) \in Nat
         /\ log \in Seq(Entry) /\ Len(log) \in Nat /\ log \in [1 .. Len(log) -> Entry]
         /\ csv \in Seq(Entry) /\ Len(csv) \in Nat /\ csv \in [1 .. Len(csv) -> Entry]
         /\ Gap \in Nat /\ handed \in Nat /\ handed <= Len(log)
         /\ Gap = IF pc = "release" THEN handed - 1 ELSE handed
         /\ \A c \in Cpus : slot[c] <= Len(ring)
  <1>1. log \in Seq(Entry) /\ csv \in Seq(Entry) /\ ring \in Seq(Record)
    BY DEF TraceInv, TraceTypeOK, RowsOK, Entry, RingInv, RingTypes
  <1>2. /\ Len(log) \in Nat /\ log \in [1 .. Len(log) -> Entry]
        /\ Len(csv) \in Nat /\ csv \in [1 .. Len(csv) -> Entry]
        /\ Len(ring) \in Nat
    BY <1>1, LenProperties
  <1>3. /\ capture \in [Cpus -> {"idle", "reserved", "filled", "submitted"}]
        /\ slot \in [Cpus -> 0 .. Size] /\ \A c \in Cpus : slot[c] \in Nat
        /\ \A c \in Cpus : slot[c] <= Len(ring)
    BY SwitchRingAssumption DEF RingInv, RingTypes, OwnsRecord
  <1>4. switches \in [Cpus -> 0 .. MaxSwitches] /\ \A c \in Cpus : switches[c] \in Nat
    BY SwitchTraceAssumption, SMTT(20) DEF TraceInv, TraceTypeOK
  <1>5. clock \in Nat /\ handed \in 0 .. Len(log) /\ Len(ring) <= Len(log)
    BY DEF TraceInv, TraceTypeOK
  <1>6. Gap \in Nat
    BY <1>2, <1>5 DEF Gap
  <1>7. handed \in Nat /\ handed <= Len(log)
    BY <1>2, <1>5
  <1>8. Gap = IF pc = "release" THEN handed - 1 ELSE handed
    BY DEF TraceInv, TraceTypeOK, Gap
  <1> QED
    BY <1>1, <1>2, <1>3, <1>4, <1>5, <1>6, <1>7, <1>8

\* A step that leaves the history, and the place of every record, keeps TraceInv.
LEMMA HistoryUntouched ==
  ASSUME RingInv, TraceInv, UNCHANGED history,
         /\ Len(ring') = Len(ring) /\ (pc' = "release" <=> pc = "release")
         /\ \A i \in 1 .. Len(ring) : ring'[i].cpu = ring[i].cpu
         /\ \A c \in Cpus : /\ capture'[c] = "reserved" <=> capture[c] = "reserved"
                            /\ capture[c] = "reserved" => slot'[c] = slot[c]
  PROVE  TraceInv'
  <1>1. TraceTypeOK'
    BY DEF TraceInv, TraceTypeOK, history
  <1>2. FillingOK'
    BY DEF TraceInv, FillingOK, Gap, history
  <1>3. BoundsOK' /\ LogOrder' /\ RowsOK' /\ PerCpuOrder'
    BY DEF TraceInv, BoundsOK, LogOrder, RowsOK, PerCpuOrder, history
  <1> QED
    BY <1>1, <1>2, <1>3 DEF TraceInv

-----------------------------------------------------------------------------
\* The collector starts with no row to explain.
LEMMA TraceInitInv == TraceInit => TraceInv
  <1> SUFFICES ASSUME TraceInit PROVE TraceInv
    OBVIOUS
  <1>1. Len(log) = 0 /\ Len(csv) = 0 /\ Len(ring) = 0 /\ handed = 0 /\ pc = "attach"
    BY DEF TraceInit, Init
  <1>2. TraceTypeOK
    BY <1>1, SwitchTraceAssumption DEF TraceInit, TraceTypeOK
  <1>3. FillingOK /\ BoundsOK /\ LogOrder /\ PerCpuOrder
    BY <1>1 DEF FillingOK, BoundsOK, LogOrder, PerCpuOrder
  <1>4. RowsOK
    BY <1>1 DEF RowsOK, TraceInit
  <1> QED
    BY <1>2, <1>3, <1>4 DEF TraceInv

\* The record of a new switch is the last of the log, and its CPU has no other
\* without a stamp.
LEMMA ReservedTrace ==
  ASSUME RingInv, TraceInv, NEW c \in Cpus, SwitchReserved(c)
  PROVE  TraceInv'
  <1> DEFINE r == [cpu |-> c, busy |-> TRUE]
             e == [cpu |-> c, n |-> switches[c] + 1, ts |-> 0]
  <1>1. /\ ring' = Append(ring, r) /\ r \in Record
        /\ log' = Append(log, e) /\ e \in Entry
    <2>1. switches[c] + 1 \in Nat
      BY TraceTypes
    <2> QED
      BY <2>1 DEF SwitchReserved, Reserve, Record, Entry
  <1>2. e.cpu = c /\ e.n = switches[c] + 1 /\ e.ts = 0 /\ r.cpu = c
    OBVIOUS
  <1> HIDE DEF r, e
  <1>3. /\ Len(ring') = Len(ring) + 1 /\ ring'[Len(ring) + 1] = r
        /\ \A i \in 1 .. Len(ring) : ring'[i] = ring[i]
    BY <1>1, TraceTypes, AppendProperties
  <1>4. /\ log' \in Seq(Entry) /\ Len(log') = Len(log) + 1 /\ log'[Len(log) + 1] = e
        /\ \A i \in 1 .. Len(log) : log'[i] = log[i]
    BY <1>1, TraceTypes, AppendProperties
  <1>5. /\ switches' = [switches EXCEPT ![c] = @ + 1] /\ switches[c] < MaxSwitches
        /\ UNCHANGED <<clock, handed, csv, pc>>
        /\ capture[c] = "idle" /\ capture' = [capture EXCEPT ![c] = "reserved"]
        /\ slot' = [slot EXCEPT ![c] = Len(ring) + 1]
    BY DEF SwitchReserved, Reserve, Switch, reader
  <1>6. /\ switches' \in [Cpus -> 0 .. MaxSwitches] /\ switches'[c] = switches[c] + 1
        /\ \A d \in Cpus : switches[d] <= switches'[d]
    BY <1>5, TraceTypes, SwitchTraceAssumption, SMTT(20)
  <1>7. Gap' = Gap
    BY <1>3, <1>4, TraceTypes DEF Gap
  <1>8. TraceTypeOK'
    <2>1. ASSUME NEW i \in 1 .. Len(ring') PROVE ring'[i].cpu = log'[Gap + i].cpu
      <3>1. CASE i = Len(ring) + 1
        BY <3>1, <1>2, <1>3, <1>4, TraceTypes DEF Gap
      <3>2. CASE i # Len(ring) + 1
        <4>1. i \in 1 .. Len(ring) /\ Gap + i \in 1 .. Len(log)
          BY <3>2, <1>3, TraceTypes DEF Gap
        <4> QED
          BY <4>1, <1>3, <1>4 DEF TraceInv, TraceTypeOK, Gap
      <3> QED
        BY <3>1, <3>2
    <2>2. /\ handed' \in 0 .. Len(log') /\ Len(ring') <= Len(log')
          /\ Gap' = IF pc' = "release" THEN handed' - 1 ELSE handed'
      BY <1>3, <1>4, <1>5, <1>7, TraceTypes DEF Gap
    <2> QED
      BY <1>4, <1>5, <1>6, <1>7, <2>1, <2>2, TraceTypes DEF TraceTypeOK, Entry, Gap
  <1>9. FillingOK'
    <2> SUFFICES ASSUME NEW d \in Cpus, NEW i \in 1 .. Len(log')
                 PROVE  (log'[i].cpu = d /\ log'[i].ts = 0) <=>
                          (capture'[d] = "reserved" /\ i = Gap + slot'[d])
      BY <1>7 DEF FillingOK
    <2>1. CASE i = Len(log) + 1
      <3>1. log'[i] = e /\ Gap + Len(ring) = Len(log) /\ Gap \in Nat
        BY <2>1, <1>4, TraceTypes DEF Gap
      <3>2. CASE d = c
        <4>1. capture'[c] = "reserved" /\ slot'[c] = Len(ring) + 1
          BY <1>5, TraceTypes
        <4> QED
          BY <3>1, <3>2, <4>1, <2>1, <1>2, TraceTypes, SMTT(20)
      <3>3. CASE d # c
        <4>1. slot'[d] = slot[d] /\ slot[d] \in Nat /\ slot[d] <= Len(ring)
          BY <3>3, <1>5, TraceTypes
        <4>2. i # Gap + slot'[d]
          BY <4>1, <3>1, <2>1, TraceTypes
        <4> QED
          BY <3>1, <3>3, <4>2, <1>2
      <3> QED
        BY <3>2, <3>3
    <2>2. CASE i # Len(log) + 1 /\ d = c
      <3>1. i \in 1 .. Len(log) /\ log'[i] = log[i] /\ slot'[c] = Len(ring) + 1
        BY <2>2, <1>4, <1>5, TraceTypes
      <3>2. i # Gap + slot'[c]
        BY <3>1, TraceTypes DEF Gap
      <3> QED
        BY <2>2, <3>1, <3>2, <1>5 DEF TraceInv, FillingOK
    <2>3. CASE i # Len(log) + 1 /\ d # c
      <3>1. i \in 1 .. Len(log) /\ log'[i] = log[i]
        BY <2>3, <1>4, TraceTypes
      <3>2. slot'[d] = slot[d] /\ capture'[d] = capture[d]
        BY <2>3, <1>5, TraceTypes
      <3> QED
        BY <3>1, <3>2 DEF TraceInv, FillingOK
    <2> QED
      BY <2>1, <2>2, <2>3
  <1>10. BoundsOK'
    <2> SUFFICES ASSUME NEW i \in 1 .. Len(log')
                 PROVE  log'[i].ts <= clock' /\ log'[i].n <= switches'[log'[i].cpu]
      BY DEF BoundsOK
    <2>1. CASE i = Len(log) + 1
      BY <2>1, <1>2, <1>4, <1>5, <1>6, TraceTypes
    <2>2. CASE i # Len(log) + 1
      <3>1. i \in 1 .. Len(log) /\ log'[i] = log[i] /\ log[i] \in Entry
        BY <2>2, <1>4, TraceTypes
      <3>2. /\ log[i].ts <= clock /\ log[i].n <= switches[log[i].cpu]
            /\ log[i].cpu \in Cpus /\ log[i].n \in Nat
        BY <3>1 DEF TraceInv, BoundsOK, Entry
      <3> QED
        BY <3>1, <3>2, <1>5, <1>6, TraceTypes, SMTT(20)
    <2> QED
      BY <2>1, <2>2
  <1>11. LogOrder'
    <2> SUFFICES ASSUME NEW i \in 1 .. Len(log'), NEW j \in 1 .. Len(log'),
                        i < j, log'[i].cpu = log'[j].cpu
                 PROVE  /\ log'[i].n < log'[j].n
                        /\ log'[i].ts # 0
                        /\ log'[j].ts = 0 \/ log'[i].ts < log'[j].ts
      BY DEF LogOrder
    <2>1. i \in 1 .. Len(log) /\ log'[i] = log[i] /\ log[i] \in Entry
      BY <1>4, TraceTypes
    <2>2. CASE j = Len(log) + 1
      <3>1. log[i].cpu = c /\ log[i].n <= switches[c] /\ log[i].n \in Nat
        BY <2>1, <2>2, <1>2, <1>4 DEF TraceInv, BoundsOK, Entry
      <3>2. log[i].ts # 0
        BY <2>1, <3>1, <1>5 DEF TraceInv, FillingOK
      <3> QED
        BY <2>1, <2>2, <3>1, <3>2, <1>2, <1>4, TraceTypes
    <2>3. CASE j # Len(log) + 1
      BY <2>1, <2>3, <1>4, TraceTypes DEF TraceInv, LogOrder
    <2> QED
      BY <2>2, <2>3
  <1>12. RowsOK'
    <2> SUFFICES ASSUME NEW k \in 1 .. Len(csv)
                 PROVE  /\ csv[k].ts <= clock
                        /\ csv[k].n <= switches'[csv[k].cpu]
                        /\ \A i \in handed + 1 .. Len(log') :
                             log'[i].cpu = csv[k].cpu =>
                               csv[k].n < log'[i].n /\ (log'[i].ts = 0 \/ csv[k].ts < log'[i].ts)
      BY <1>5, TraceTypes DEF RowsOK
    <2>1. /\ csv[k] \in Entry /\ csv[k].cpu \in Cpus /\ csv[k].n \in Nat
          /\ csv[k].ts <= clock /\ csv[k].n <= switches[csv[k].cpu]
      BY TraceTypes DEF TraceInv, RowsOK, Entry
    <2>2. csv[k].n <= switches'[csv[k].cpu]
      BY <2>1, <1>6, TraceTypes, SMTT(20)
    <2>3. ASSUME NEW i \in handed + 1 .. Len(log'), log'[i].cpu = csv[k].cpu
          PROVE  csv[k].n < log'[i].n /\ (log'[i].ts = 0 \/ csv[k].ts < log'[i].ts)
      <3>1. CASE i = Len(log) + 1
        BY <3>1, <2>1, <2>3, <1>2, <1>4, TraceTypes, SMTT(20)
      <3>2. CASE i # Len(log) + 1
        <4>1. i \in handed + 1 .. Len(log) /\ i \in 1 .. Len(log)
          BY <3>2, <1>4, TraceTypes
        <4> QED
          BY <4>1, <2>3, <1>4 DEF TraceInv, RowsOK
      <3> QED
        BY <3>1, <3>2
    <2> QED
      BY <2>1, <2>2, <2>3
  <1>13. PerCpuOrder'
    BY <1>5 DEF TraceInv, PerCpuOrder
  <1> QED
    BY <1>8, <1>9, <1>10, <1>11, <1>12, <1>13 DEF TraceInv

\* A switch that leaves no record only counts.
LEMMA DroppedTrace ==
  ASSUME RingInv, TraceInv, NEW c \in Cpus, SwitchDropped(c)
  PROVE  TraceInv'
  <1>1. /\ UNCHANGED <<clock, log, handed, csv, pc, ring, slot, capture>>
        /\ switches' = [switches EXCEPT ![c] = @ + 1] /\ switches[c] < MaxSwitches
    BY DEF SwitchDropped, Drop, Switch, ringVars
  <1>2. /\ switches' \in [Cpus -> 0 .. MaxSwitches]
        /\ \A d \in Cpus : switches[d] <= switches'[d] /\ switches'[d] \in Nat
    BY <1>1, TraceTypes, SwitchTraceAssumption
  <1>3. TraceTypeOK' /\ FillingOK' /\ LogOrder' /\ PerCpuOrder'
    BY <1>1, <1>2, SMTT(20) DEF TraceInv, TraceTypeOK, FillingOK, LogOrder, PerCpuOrder, Gap
  <1>4. BoundsOK'
    <2> SUFFICES ASSUME NEW i \in 1 .. Len(log)
                 PROVE  log[i].ts <= clock /\ log[i].n <= switches'[log[i].cpu]
      BY <1>1 DEF BoundsOK
    <2>1. log[i].cpu \in Cpus /\ log[i].n \in Nat
      BY TraceTypes DEF Entry
    <2> QED
      BY <2>1, <1>2, TraceTypes, SMTT(20) DEF TraceInv, BoundsOK
  <1>5. RowsOK'
    <2> SUFFICES ASSUME NEW k \in 1 .. Len(csv) PROVE csv[k].n <= switches'[csv[k].cpu]
      BY <1>1 DEF TraceInv, RowsOK
    <2>1. csv[k].cpu \in Cpus /\ csv[k].n \in Nat
      BY TraceTypes DEF Entry
    <2> QED
      BY <2>1, <1>2, TraceTypes, SMTT(20) DEF TraceInv, RowsOK
  <1> QED
    BY <1>3, <1>4, <1>5 DEF TraceInv

\* The record that gets its stamp is that at the slot of the CPU, and nothing
\* else of the log changes.
LEMMA FilledLog ==
  ASSUME RingInv, TraceInv, NEW c \in Cpus, SwitchFilled(c)
  PROVE  /\ capture[c] = "reserved" /\ capture' = [capture EXCEPT ![c] = "filled"]
         /\ UNCHANGED <<switches, handed, csv, pc, ring, slot>> /\ clock' = clock + 1
         /\ Gap + slot[c] \in 1 .. Len(log)
         /\ log[Gap + slot[c]].cpu = c /\ log[Gap + slot[c]].ts = 0
         /\ \A i \in 1 .. Len(log) : log[i].cpu = c /\ log[i].ts = 0 => i = Gap + slot[c]
         /\ log' \in Seq(Entry) /\ Len(log') = Len(log)
         /\ \A i \in 1 .. Len(log) :
              /\ log'[i].cpu = log[i].cpu /\ log'[i].n = log[i].n
              /\ log'[i].ts = IF i = Gap + slot[c] THEN clock + 1 ELSE log[i].ts
  <1> DEFINE f == Gap + slot[c]
             e == [cpu |-> c, n |-> log[f].n, ts |-> clock + 1]
  <1>1. /\ capture[c] = "reserved" /\ capture' = [capture EXCEPT ![c] = "filled"]
        /\ UNCHANGED <<switches, handed, csv, pc, ring, slot>> /\ clock' = clock + 1
        /\ log' = [log EXCEPT ![Filling(c)].ts = clock + 1]
    BY DEF SwitchFilled, Fill, reader, Stamp
  <1>2. f \in 1 .. Len(log) /\ log[f].cpu = c /\ log[f].ts = 0 /\ f > Gap
    <2>1. slot[c] \in Nat /\ slot[c] > 0 /\ slot[c] <= Len(ring)
      BY <1>1, TraceTypes DEF RingInv, OwnsRecord
    <2>2. f \in 1 .. Len(log) /\ f > Gap
      BY <2>1, TraceTypes DEF Gap
    <2> QED
      BY <1>1, <2>2 DEF TraceInv, FillingOK
  <1>3. \A i \in 1 .. Len(log) : log[i].cpu = c /\ log[i].ts = 0 => i = f
    BY DEF TraceInv, FillingOK
  <1>4. Filling(c) = f
    BY <1>2, <1>3 DEF Filling
  <1>5. log[f] \in Entry
    BY <1>2, TraceTypes
  <1>6. /\ e \in Entry /\ e.cpu = c /\ e.n = log[f].n /\ e.ts = clock + 1
        /\ [log[f] EXCEPT !.ts = clock + 1] = e
    <2>1. clock + 1 \in Nat
      BY TraceTypes
    <2>2. log[f].n \in Nat
      BY <1>5 DEF Entry
    <2>3. e \in Entry
      BY <2>1, <2>2 DEF Entry
    <2>4. [log[f] EXCEPT !.ts = clock + 1] = e
      BY <1>2, <1>5 DEF Entry
    <2> QED
      BY <2>3, <2>4
  <1>7. log' = [log EXCEPT ![f] = e]
    BY <1>1, <1>4, <1>6
  <1> HIDE DEF f, e
  <1>8. /\ log' \in Seq(Entry) /\ Len(log') = Len(log)
        /\ \A i \in 1 .. Len(log) : log'[i] = IF i = f THEN e ELSE log[i]
    BY <1>2, <1>6, <1>7, TraceTypes, ExceptSeq
  <1>9. \A i \in 1 .. Len(log) :
           /\ log'[i].cpu = log[i].cpu /\ log'[i].n = log[i].n
           /\ log'[i].ts = IF i = f THEN clock + 1 ELSE log[i].ts
    BY <1>2, <1>6, <1>8
  <1> QED
    BY <1>1, <1>2, <1>3, <1>8, <1>9 DEF f

\* The stamp is the latest of all.
LEMMA FilledTrace ==
  ASSUME RingInv, TraceInv, NEW c \in Cpus, SwitchFilled(c)
  PROVE  TraceInv'
  <1> DEFINE f == Gap + slot[c]
  <1>1. /\ capture[c] = "reserved" /\ capture' = [capture EXCEPT ![c] = "filled"]
        /\ UNCHANGED <<switches, handed, csv, pc, ring, slot>> /\ clock' = clock + 1
    BY FilledLog
  <1>2. f \in 1 .. Len(log) /\ log[f].cpu = c /\ log[f].ts = 0
    BY FilledLog
  <1>3. \A i \in 1 .. Len(log) : log[i].cpu = c /\ log[i].ts = 0 => i = f
    BY FilledLog
  <1>4. /\ log' \in Seq(Entry) /\ Len(log') = Len(log)
        /\ \A i \in 1 .. Len(log) : log'[i].ts = IF i = f THEN clock + 1 ELSE log[i].ts
    BY FilledLog
  <1>5. \A i \in 1 .. Len(log) : log'[i].cpu = log[i].cpu /\ log'[i].n = log[i].n
    BY FilledLog
  <1>6. clock \in Nat /\ clock + 1 \in Nat /\ clock + 1 # 0
    BY TraceTypes
  <1>7. Gap' = Gap
    BY <1>1, <1>4 DEF Gap
  <1> HIDE DEF f
  <1>8. TraceTypeOK'
    <2>1. ASSUME NEW i \in 1 .. Len(ring) PROVE ring[i].cpu = log'[Gap + i].cpu
      <3>1. Gap + i \in 1 .. Len(log)
        BY TraceTypes DEF Gap
      <3> QED
        BY <3>1, <1>5 DEF TraceInv, TraceTypeOK, Gap
    <2> QED
      BY <2>1, <1>1, <1>4, <1>6, <1>7 DEF TraceInv, TraceTypeOK, Entry, Gap
  <1>9. FillingOK'
    <2> SUFFICES ASSUME NEW d \in Cpus, NEW i \in 1 .. Len(log)
                 PROVE  (log'[i].cpu = d /\ log'[i].ts = 0) <=>
                          (capture'[d] = "reserved" /\ i = Gap + slot[d])
      BY <1>1, <1>4, <1>7 DEF FillingOK
    <2>1. capture'[d] = IF d = c THEN "filled" ELSE capture[d]
      BY <1>1, TraceTypes
    <2>2. CASE i = f
      BY <2>1, <2>2, <1>2, <1>4, <1>6 DEF TraceInv, FillingOK
    <2>3. CASE i # f /\ d = c
      BY <2>1, <2>3, <1>3, <1>4, <1>5
    <2>4. CASE i # f /\ d # c
      BY <2>1, <2>4, <1>4, <1>5 DEF TraceInv, FillingOK
    <2> QED
      BY <2>2, <2>3, <2>4
  <1>10. BoundsOK'
    <2> SUFFICES ASSUME NEW i \in 1 .. Len(log)
                 PROVE  log'[i].ts <= clock + 1 /\ log'[i].n <= switches[log'[i].cpu]
      BY <1>1, <1>4 DEF BoundsOK
    <2>1. log[i].ts \in Nat /\ log[i].ts <= clock /\ log[i].n <= switches[log[i].cpu]
      BY TraceTypes DEF TraceInv, BoundsOK, Entry
    <2> QED
      BY <2>1, <1>4, <1>5, <1>6
  <1>11. LogOrder'
    <2> SUFFICES ASSUME NEW i \in 1 .. Len(log), NEW j \in 1 .. Len(log),
                        i < j, log'[i].cpu = log'[j].cpu
                 PROVE  /\ log'[i].n < log'[j].n
                        /\ log'[i].ts # 0
                        /\ log'[j].ts = 0 \/ log'[i].ts < log'[j].ts
      BY <1>4 DEF LogOrder
    <2>1. /\ log[i].n < log[j].n /\ log[i].ts # 0
          /\ log[j].ts = 0 \/ log[i].ts < log[j].ts
      BY <1>5 DEF TraceInv, LogOrder
    <2>2. i # f
      BY <2>1, <1>2
    <2>3. log[i].ts \in Nat /\ log[i].ts <= clock
      BY TraceTypes DEF TraceInv, BoundsOK, Entry
    <2>4. log'[i].n < log'[j].n /\ log'[i].ts = log[i].ts
      BY <2>1, <2>2, <1>4, <1>5
    <2>5. CASE j = f
      BY <2>1, <2>3, <2>4, <2>5, <1>4, <1>6
    <2>6. CASE j # f
      BY <2>1, <2>4, <2>6, <1>4
    <2> QED
      BY <2>5, <2>6
  <1>12. RowsOK'
    <2> SUFFICES ASSUME NEW k \in 1 .. Len(csv)
                 PROVE  /\ csv[k].ts <= clock + 1
                        /\ csv[k].n <= switches[csv[k].cpu]
                        /\ \A i \in handed + 1 .. Len(log) :
                             log'[i].cpu = csv[k].cpu =>
                               csv[k].n < log'[i].n /\ (log'[i].ts = 0 \/ csv[k].ts < log'[i].ts)
      BY <1>1, <1>4, TraceTypes DEF RowsOK
    <2>1. csv[k].ts \in Nat /\ csv[k].ts <= clock /\ csv[k].n <= switches[csv[k].cpu]
      BY TraceTypes DEF TraceInv, RowsOK, Entry
    <2>2. ASSUME NEW i \in handed + 1 .. Len(log), log'[i].cpu = csv[k].cpu
          PROVE  csv[k].n < log'[i].n /\ (log'[i].ts = 0 \/ csv[k].ts < log'[i].ts)
      <3>1. i \in 1 .. Len(log)
        BY TraceTypes
      <3>2. csv[k].n < log[i].n /\ (log[i].ts = 0 \/ csv[k].ts < log[i].ts)
        BY <2>2, <3>1, <1>5 DEF TraceInv, RowsOK
      <3>3. CASE i = f
        BY <2>1, <3>1, <3>2, <3>3, <1>4, <1>5, <1>6
      <3>4. CASE i # f
        BY <3>1, <3>2, <3>4, <1>4, <1>5
      <3> QED
        BY <3>3, <3>4
    <2> QED
      BY <2>1, <2>2, <1>6
  <1>13. PerCpuOrder'
    BY <1>1 DEF TraceInv, PerCpuOrder
  <1> QED
    BY <1>8, <1>9, <1>10, <1>11, <1>12, <1>13 DEF TraceInv

-----------------------------------------------------------------------------
\* The record at consumer_pos is the next of the log, and it has its stamp: the
\* CPU it is of is through with it.
LEMMA AtHeadIsNext ==
  ASSUME RingInv, TraceInv, Deliver
  PROVE  /\ Gap = handed /\ handed + 1 \in 1 .. Len(log) /\ AtHead = log[handed + 1]
         /\ log[handed + 1].ts # 0
  <1>1. Gap = handed /\ Len(ring) \in Nat \ {0} /\ ~ ring[1].busy
    BY TraceTypes, RingAtRecord DEF Deliver, RingInv, NoTornRecord
  <1>2. handed + 1 \in 1 .. Len(log) /\ AtHead = log[handed + 1]
    BY <1>1, TraceTypes DEF Gap, AtHead
  <1>3. ASSUME log[handed + 1].ts = 0 PROVE FALSE
    <2> DEFINE c == log[handed + 1].cpu
    <2>1. c \in Cpus
      BY <1>2, TraceTypes DEF Entry
    <2>2. capture[c] = "reserved" /\ handed + 1 = Gap + slot[c]
      BY <1>2, <1>3, <2>1 DEF TraceInv, FillingOK
    <2>3. slot[c] = 1
      BY <1>1, <2>1, <2>2, TraceTypes
    <2> QED
      BY <1>1, <2>1, <2>2, <2>3 DEF RingInv, OwnsRecord
  <1> QED
    BY <1>1, <1>2, <1>3

\* The row that is handed out is newer than those before it, older than what is
\* to come.
LEMMA DeliveredTrace ==
  ASSUME RingInv, TraceInv, RowWritten \/ RowLost
  PROVE  TraceInv'
  <1> DEFINE e == log[handed + 1]
  <1>1. /\ UNCHANGED <<switches, clock, log, capture, slot, ring>> /\ handed' = handed + 1
        /\ pc = "deliver" /\ pc' = "release" /\ Deliver
        /\ csv' = csv \/ csv' = Append(csv, e)
    BY AtHeadIsNext DEF RowWritten, RowLost, Deliver, Row
  <1>2. /\ Gap = handed /\ handed + 1 \in 1 .. Len(log) /\ e.ts # 0
        /\ e \in Entry
    BY <1>1, AtHeadIsNext, TraceTypes
  <1>3. e.cpu \in Cpus /\ e.n \in Nat /\ e.ts \in Nat /\ e.ts <= clock /\ e.n <= switches[e.cpu]
    BY <1>2 DEF TraceInv, BoundsOK, Entry
  <1>4. TraceTypeOK'
    <2>1. handed + 1 \in 0 .. Len(log) /\ Gap' = Gap
      BY <1>1, <1>2, TraceTypes DEF Gap
    <2> QED
      BY <2>1, <1>1, <1>2 DEF TraceInv, TraceTypeOK, Gap
  <1>5. FillingOK' /\ BoundsOK' /\ LogOrder'
    BY <1>1 DEF TraceInv, FillingOK, BoundsOK, LogOrder, Gap
  <1>6. \A i \in handed + 2 .. Len(log) :
          log[i].cpu = e.cpu => e.n < log[i].n /\ (log[i].ts = 0 \/ e.ts < log[i].ts)
    <2> SUFFICES ASSUME NEW i \in handed + 2 .. Len(log), log[i].cpu = e.cpu
                 PROVE  e.n < log[i].n /\ (log[i].ts = 0 \/ e.ts < log[i].ts)
      OBVIOUS
    <2>1. i \in 1 .. Len(log) /\ handed + 1 < i
      BY TraceTypes
    <2> QED
      BY <1>2, <2>1 DEF TraceInv, LogOrder
  <1>7. \A k \in 1 .. Len(csv) :
          e.cpu = csv[k].cpu => csv[k].n < e.n /\ csv[k].ts < e.ts
    BY <1>2, TraceTypes DEF TraceInv, RowsOK
  <1> HIDE DEF e
  <1>8. /\ csv' \in Seq(Entry) /\ Len(csv') \in Len(csv) .. Len(csv) + 1
        /\ \A k \in 1 .. Len(csv) : csv'[k] = csv[k]
        /\ Len(csv') = Len(csv) + 1 => csv'[Len(csv) + 1] = e
    <2>1. CASE csv' = csv
      <3>1. Len(csv) \in Nat /\ csv \in Seq(Entry)
        BY TraceTypes
      <3>2. Len(csv') \in Len(csv) .. Len(csv) + 1 /\ Len(csv') # Len(csv) + 1
        BY <2>1, <3>1
      <3> QED
        BY <2>1, <3>1, <3>2
    <2>2. CASE csv' = Append(csv, e)
      <3>1. /\ csv' \in Seq(Entry) /\ Len(csv') = Len(csv) + 1 /\ csv'[Len(csv) + 1] = e
            /\ \A k \in 1 .. Len(csv) : csv'[k] = csv[k]
        BY <2>2, <1>2, TraceTypes, AppendProperties
      <3> QED
        BY <3>1, TraceTypes
    <2> QED
      BY <1>1, <2>1, <2>2
  <1>9. RowsOK'
    <2> SUFFICES ASSUME NEW k \in 1 .. Len(csv')
                 PROVE  /\ csv'[k].ts <= clock
                        /\ csv'[k].n <= switches[csv'[k].cpu]
                        /\ \A i \in handed + 2 .. Len(log) :
                             log[i].cpu = csv'[k].cpu =>
                               csv'[k].n < log[i].n /\ (log[i].ts = 0 \/ csv'[k].ts < log[i].ts)
      BY <1>1, <1>8, TraceTypes DEF RowsOK
    <2>1. CASE k \in 1 .. Len(csv)
      <3>1. csv'[k] = csv[k]
        BY <2>1, <1>8
      <3>2. \A i \in handed + 2 .. Len(log) : i \in handed + 1 .. Len(log)
        BY TraceTypes
      <3> QED
        BY <2>1, <3>1, <3>2 DEF TraceInv, RowsOK
    <2>2. CASE k = Len(csv) + 1
      <3>1. Len(csv) \in Nat /\ Len(csv') = Len(csv) + 1
        BY <2>2, <1>8, TraceTypes
      <3>2. csv'[k] = e
        BY <2>2, <1>8, <3>1
      <3> QED
        BY <1>3, <1>6, <3>2
    <2> QED
      BY <2>1, <2>2, <1>8, TraceTypes
  <1>10. PerCpuOrder'
    <2> SUFFICES ASSUME NEW i \in 1 .. Len(csv'), NEW j \in 1 .. Len(csv'),
                        i < j, csv'[i].cpu = csv'[j].cpu
                 PROVE  csv'[i].n < csv'[j].n /\ csv'[i].ts < csv'[j].ts
      BY DEF PerCpuOrder
    <2>1. i \in 1 .. Len(csv)
      BY <1>8, TraceTypes
    <2>2. CASE j \in 1 .. Len(csv)
      BY <2>1, <2>2, <1>8 DEF TraceInv, PerCpuOrder
    <2>3. CASE j = Len(csv) + 1
      BY <2>1, <2>3, <1>7, <1>8
    <2> QED
      BY <2>2, <2>3, <1>8, TraceTypes
  <1> QED
    BY <1>4, <1>5, <1>9, <1>10 DEF TraceInv

\* A release moves the beginning of the ring and every slot with it.
LEMMA ReleasedTrace ==
  ASSUME RingInv, TraceInv, Release, UNCHANGED history
  PROVE  TraceInv'
  <1>1. /\ ring # <<>> /\ ring' = Tail(ring) /\ pc = "release" /\ pc' # "release"
        /\ slot' = [c \in Cpus |-> IF slot[c] > 0 THEN slot[c] - 1 ELSE 0] /\ capture' = capture
    BY RingAtRecord DEF Release, Consumed
  <1>2. /\ Len(ring') = Len(ring) - 1 /\ Len(ring') \in Nat
        /\ \A i \in 1 .. Len(ring') : ring'[i] = ring[i + 1]
    BY <1>1, TraceTypes, HeadTailProperties, LenProperties
  <1>3. Gap' = Gap + 1 /\ UNCHANGED <<switches, clock, log, handed, csv>>
    BY <1>2, TraceTypes DEF Gap, history
  <1>4. TraceTypeOK'
    <2>1. ASSUME NEW i \in 1 .. Len(ring') PROVE ring'[i].cpu = log[Gap' + i].cpu
      <3>1. i + 1 \in 1 .. Len(ring) /\ Gap' + i = Gap + (i + 1)
        BY <1>2, <1>3, TraceTypes
      <3> QED
        BY <3>1, <1>2 DEF TraceInv, TraceTypeOK, Gap
    <2>2. Len(ring') <= Len(log) /\ Gap' = handed
      BY <1>1, <1>2, <1>3, TraceTypes DEF Gap
    <2> QED
      BY <2>1, <2>2, <1>1, <1>3 DEF TraceInv, TraceTypeOK, Gap
  <1>5. FillingOK'
    <2> SUFFICES ASSUME NEW c \in Cpus, capture[c] = "reserved" PROVE Gap' + slot'[c] = Gap + slot[c]
      BY <1>1, <1>3 DEF TraceInv, FillingOK
    <2>1. slot[c] \in Nat /\ slot[c] > 0
      BY TraceTypes DEF RingInv, OwnsRecord
    <2> QED
      BY <2>1, <1>1, <1>3, TraceTypes
  <1>6. BoundsOK' /\ LogOrder' /\ RowsOK' /\ PerCpuOrder'
    BY <1>3 DEF TraceInv, BoundsOK, LogOrder, RowsOK, PerCpuOrder
  <1> QED
    BY <1>4, <1>5, <1>6 DEF TraceInv

\* What the CPUs do after bpf_ktime_get_ns changes no place of a record.
LEMMA SubmittedTrace ==
  ASSUME RingInv, TraceInv, UNCHANGED history, NEW c \in Cpus, Submit(c) \/ Notify(c)
  PROVE  TraceInv'
  <1>1. CASE Submit(c)
    <2> DEFINE r == [ring[slot[c]] EXCEPT !.busy = FALSE]
    <2>1. slot[c] \in 1 .. Len(ring)
      BY <1>1, TraceTypes DEF RingInv, OwnsRecord, Submit
    <2>2. ring[slot[c]] \in Record
      BY <2>1, TraceTypes, ElementOfSeq
    <2>3. r \in Record /\ r.cpu = ring[slot[c]].cpu
      BY <2>2 DEF Record
    <2>4. ring' = [ring EXCEPT ![slot[c]] = r]
      BY <1>1 DEF Submit
    <2> HIDE DEF r
    <2>5. Len(ring') = Len(ring) /\ \A i \in 1 .. Len(ring) : ring'[i].cpu = ring[i].cpu
      BY <2>1, <2>3, <2>4, TraceTypes, ExceptSeq
    <2> QED
      BY <1>1, <2>5, TraceTypes, HistoryUntouched DEF Submit, reader
  <1>2. CASE Notify(c)
    BY <1>2, TraceTypes, HistoryUntouched DEF Notify, reader
  <1> QED
    BY <1>1, <1>2

\* The other steps of the reader.
LEMMA ReaderTrace ==
  ASSUME RingInv, TraceInv, UNCHANGED history,
         ReaderOther \/ PollFails \/ Signal, ~ Release
  PROVE  TraceInv'
  <1>1. UNCHANGED <<capture, slot, ring>> /\ (pc' = "release" <=> pc = "release")
    BY DEF ReaderOther, Attach, Create, CreateFails, Arm, Leave, PollReady, PollTimeout,
           PollFails, Signal, Load, ScanBusy, ScanRecord, ScanEnd, reader
  <1> QED
    BY <1>1, HistoryUntouched

\* No step of the ring or of the collector breaks TraceInv.
LEMMA TraceNextInv == RingInv /\ TraceInv /\ [TraceNext]_traceVars => TraceInv'
  <1> SUFFICES ASSUME RingInv, TraceInv, [TraceNext]_traceVars PROVE TraceInv'
    OBVIOUS
  <1>1. CASE UNCHANGED traceVars
    BY <1>1, HistoryUntouched DEF traceVars, history
  <1>2. ASSUME NEW c \in Cpus, SwitchReserved(c) \/ SwitchDropped(c) \/ SwitchFilled(c)
        PROVE  TraceInv'
    BY <1>2, ReservedTrace, DroppedTrace, FilledTrace
  <1>3. ASSUME NEW c \in Cpus, Submit(c) \/ Notify(c), UNCHANGED history PROVE TraceInv'
    BY <1>3, SubmittedTrace
  <1>4. CASE RowWritten \/ RowLost
    BY <1>4, DeliveredTrace
  <1>5. CASE (ReaderOther \/ PollFails \/ Signal) /\ UNCHANGED history
    BY <1>5, ReleasedTrace, ReaderTrace
  <1> QED
    BY <1>1, <1>2, <1>3, <1>4, <1>5 DEF TraceNext, TraceReader

\* TraceInv holds in every state of every execution.
THEOREM TraceInvariant == TraceSpec => []TraceInv
  BY TraceInitInv, TraceNextInv, TraceRefinesRing, RingInvariant, PTL DEF TraceSpec

\* Type correctness: the ring is the end of the log that has not been released.
THEOREM TraceTypeCorrect == TraceSpec => []TraceTypeOK
  <1>1. TraceInv => TraceTypeOK
    BY DEF TraceInv
  <1> QED
    BY <1>1, TraceInvariant, PTL

\* The rows of a CPU in sched.csv are in the order of its switches and of their
\* time stamps, whichever way the CPUs and the reader are interleaved.
THEOREM RowsInOrder == TraceSpec => []PerCpuOrder
  <1>1. TraceInv => PerCpuOrder
    BY DEF TraceInv
  <1> QED
    BY <1>1, TraceInvariant, PTL

-----------------------------------------------------------------------------
(* The refinement of SwitchLog. *)

Entries(s) == [i \in 1 .. Len(s) |-> EntryOf(s[i])]

\* The entries of a longer log are those of the log and the new one.
LEMMA EntriesAppend ==
  ASSUME NEW s \in Seq(Entry), NEW e \in Entry
  PROVE  /\ Entries(s) \in Seq(Cpus \X Nat)
         /\ Len(Entries(s)) = Len(s)
         /\ Entries(Append(s, e)) = Append(Entries(s), EntryOf(e))
  <1>1. Len(s) \in Nat /\ s \in [1 .. Len(s) -> Entry]
    BY LenProperties
  <1>2. \A i \in 1 .. Len(s) : EntryOf(s[i]) \in Cpus \X Nat
    BY <1>1 DEF Entry, EntryOf
  <1>3. Entries(s) \in [1 .. Len(s) -> Cpus \X Nat]
    BY <1>1, <1>2 DEF Entries
  <1>4. Entries(s) \in Seq(Cpus \X Nat) /\ Len(Entries(s)) = Len(s)
    BY <1>1, <1>3
  <1>5. /\ Len(Append(s, e)) = Len(s) + 1 /\ Append(s, e)[Len(s) + 1] = e
        /\ \A i \in 1 .. Len(s) : Append(s, e)[i] = s[i]
    BY AppendProperties
  <1>6. EntryOf(e) \in Cpus \X Nat
    BY DEF EntryOf, Entry
  <1>7. /\ Append(Entries(s), EntryOf(e)) \in Seq(Cpus \X Nat)
        /\ Len(Append(Entries(s), EntryOf(e))) = Len(s) + 1
        /\ \A i \in 1 .. Len(s) : Append(Entries(s), EntryOf(e))[i] = Entries(s)[i]
        /\ Append(Entries(s), EntryOf(e))[Len(s) + 1] = EntryOf(e)
    BY <1>4, <1>6, AppendProperties
  <1>8. Append(Entries(s), EntryOf(e)) = [i \in 1 .. Len(s) + 1 |-> EntryOf(Append(s, e)[i])]
    <2> DEFINE t == Append(Entries(s), EntryOf(e))
    <2>1. t = [i \in 1 .. Len(t) |-> t[i]]
      BY <1>7, LenProperties
    <2>2. \A i \in 1 .. Len(s) + 1 : t[i] = EntryOf(Append(s, e)[i])
      BY <1>1, <1>5, <1>7 DEF Entries
    <2> QED
      BY <1>7, <2>1, <2>2
  <1> QED
    BY <1>4, <1>5, <1>8 DEF Entries

\* Nothing is in the log to begin with.
LEMMA LogInit == TraceInit => Log!Init
  BY DEF TraceInit, Log!Init

\* A reservation accepts an entry, a delivery reads one out, and every other
\* step is a stutter of SwitchLog.
LEMMA LogStep == RingInv /\ TraceInv /\ [TraceNext]_traceVars => [Log!Next]_(Log!vars)
  <1> SUFFICES ASSUME RingInv, TraceInv, [TraceNext]_traceVars PROVE [Log!Next]_(Log!vars)
    OBVIOUS
  <1>1. ASSUME NEW c \in Cpus, SwitchReserved(c) PROVE Log!Next
    <2> DEFINE e == [cpu |-> c, n |-> switches[c] + 1, ts |-> 0]
               L == Entries(log)
               M == Entries(log')
    <2>1. log' = Append(log, e) /\ e \in Entry /\ UNCHANGED <<handed, csv>>
      <3>1. switches[c] + 1 \in Nat
        BY TraceTypes
      <3> QED
        BY <1>1, <3>1 DEF SwitchReserved, Entry
    <2>2. EntryOf(e) = <<c, switches[c] + 1>>
      BY DEF EntryOf
    <2> HIDE DEF e
    <2>3. /\ L \in Seq(Cpus \X Nat) /\ Len(L) = Len(log)
          /\ M = Append(L, <<c, switches[c] + 1>>)
      BY <2>1, <2>2, EntriesAppend, TraceTypes
    <2>4. <<c, switches[c] + 1>> \in Cpus \X Nat
      BY TraceTypes
    <2>5. Len(M) = Len(L) + 1 /\ M[Len(M)] = <<c, switches[c] + 1>>
      BY <2>3, <2>4, AppendProperties
    <2>6. \A i \in 1 .. Len(L) : L[i][1] = c => L[i][2] < switches[c] + 1
      <3> SUFFICES ASSUME NEW i \in 1 .. Len(log), log[i].cpu = c PROVE log[i].n < switches[c] + 1
        BY <2>3 DEF Entries, EntryOf
      <3>1. log[i].n \in Nat /\ log[i].n <= switches[c]
        BY TraceTypes DEF TraceInv, BoundsOK, Entry
      <3> QED
        BY <3>1, TraceTypes
    <2>7. Log!Accept(c, switches[c] + 1)
      BY <2>1, <2>3, <2>6 DEF Log!Accept, Entries
    <2>8. M[Len(M)][1] = c /\ M[Len(M)][2] = switches[c] + 1
      BY <2>5
    <2> QED
      BY <2>5, <2>7, <2>8 DEF Log!Next, Entries
  <1>2. CASE RowWritten \/ RowLost
    <2> DEFINE e == log[handed + 1]
    <2>1. /\ handed' = handed + 1 /\ log' = log /\ (csv' = csv \/ csv' = Append(csv, e))
          /\ handed + 1 \in 1 .. Len(log)
      BY <1>2, AtHeadIsNext DEF RowWritten, RowLost, Row
    <2>2. e \in Entry /\ EntryOf(e) = Entries(log)[handed + 1]
      BY <2>1, TraceTypes DEF Entries
    <2> HIDE DEF e
    <2>3. Entries(csv') \in {Entries(csv), Append(Entries(csv), Entries(log)[handed + 1])}
      BY <2>1, <2>2, TraceTypes, EntriesAppend
    <2>4. handed < Len(Entries(log))
      BY <2>1, <2>2, TraceTypes, EntriesAppend
    <2> QED
      BY <2>1, <2>3, <2>4 DEF Log!Next, Log!ReadOut, Entries
  <1>3. ASSUME NEW c \in Cpus, SwitchFilled(c) PROVE UNCHANGED Log!vars
    <2>1. UNCHANGED <<handed, csv>>
      BY <1>3 DEF SwitchFilled
    <2>2. Len(log') = Len(log) /\ \A i \in 1 .. Len(log) : EntryOf(log'[i]) = EntryOf(log[i])
      BY <1>3, FilledLog DEF EntryOf
    <2> QED
      BY <2>1, <2>2 DEF Log!vars
  <1>4. CASE UNCHANGED <<log, handed, csv>>
    BY <1>4 DEF Log!vars
  <1>5. \/ \E c \in Cpus : SwitchReserved(c) \/ SwitchFilled(c)
        \/ RowWritten \/ RowLost
        \/ UNCHANGED <<log, handed, csv>>
    BY DEF TraceNext, TraceReader, SwitchDropped, history, traceVars
  <1> QED
    BY <1>1, <1>2, <1>3, <1>4, <1>5

\* The collector implements SwitchLog: the switches of a CPU enter sched.csv in
\* their order, each at most once, and the log is read out from its beginning.
THEOREM CollectorKeepsLog == TraceSpec => LogSpec
  BY LogInit, LogStep, TraceInvariant, TraceRefinesRing, RingInvariant, PTL
  DEF TraceSpec, LogSpec, Log!Spec
=============================================================================
