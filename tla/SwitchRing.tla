---------------------------- MODULE SwitchRing ----------------------------
(***************************************************************************)
(* The sched_switch collector: the BPF program Data/thread/data_thread.bpf.c*)
(* on every CPU, the ring buffer between kernel and user space, and the    *)
(* reader Data/thread/data_thread.c with libbpf's ringbuf.c under it.      *)
(*                                                                         *)
(* ring is what lies between consumer_pos and producer_pos.  A CPU         *)
(* reserves a record at its end (bpf_ringbuf_reserve, under the kernel's   *)
(* lock), fills it and submits it; the records of different CPUs are       *)
(* submitted in any order.  The reader is woken through epoll and walks    *)
(* the ring from its head as far as the records are submitted.             *)
(*                                                                         *)
(* This module counts nothing, so that it is finite without any bound on   *)
(* the number of switches; SwitchTrace adds what the records say.          *)
(***************************************************************************)
EXTENDS Integers, Sequences

CONSTANTS
  Cpus,
  Size,         \* records the ring holds (1 << 24 bytes in the code)
  Batch         \* records one ring_buffer__poll may consume (INT_MAX in libbpf)

ASSUME SwitchRingAssumption ==
  /\ Size \in Nat \ {0}
  /\ Batch \in Nat \ {0}

VARIABLES
  capture,      \* what on_switch does on each CPU
  slot,         \* the place in ring of the record of each CPU (0: none, or read)
  ring,         \* the records between consumer_pos and producer_pos
  ready,        \* the ring is on the ready list of the epoll instance
  attached,     \* the tracepoint program is attached
  pc,           \* where main and ringbuf_process_ring are
  ahead,        \* prod_pos - cons_pos, as last loaded by the reader
  gotNew,       \* got_new_data
  count,        \* cnt
  signalled,    \* SIGINT has been sent
  exiting       \* the flag of sig_handler

reader == <<pc, ahead, gotNew, count>>
ringVars == <<capture, slot, ring, ready, attached, pc, ahead, gotNew, count, signalled, exiting>>

Init ==
  /\ capture = [c \in Cpus |-> "idle"]
  /\ slot = [c \in Cpus |-> 0]
  /\ ring = <<>>
  /\ ready = FALSE
  /\ attached = FALSE
  /\ pc = "attach"
  /\ ahead = 0
  /\ gotNew = FALSE
  /\ count = 0
  /\ signalled = FALSE
  /\ exiting = FALSE

-----------------------------------------------------------------------------
(* on_switch, on each CPU. *)

\* Mutant of HasRoom: room for one record too many.
HasRoomOffByOne == Len(ring) <= Size

\* The kernel's test of the positions in bpf_ringbuf_reserve.
HasRoom == Len(ring) < Size

Reserve(c) ==
  /\ attached
  /\ capture[c] = "idle"
  /\ HasRoom
  /\ ring' = Append(ring, [cpu |-> c, busy |-> TRUE])
  /\ slot' = [slot EXCEPT ![c] = Len(ring) + 1]
  /\ capture' = [capture EXCEPT ![c] = "reserved"]
  /\ UNCHANGED <<ready, attached, reader, signalled, exiting>>

\* if (!e) return 0: the switch leaves no record and no trace.
Drop(c) ==
  /\ attached
  /\ capture[c] = "idle"
  /\ ~ HasRoom
  /\ UNCHANGED ringVars

\* bpf_ktime_get_ns, and the other fields with it.
Fill(c) ==
  /\ capture[c] = "reserved"
  /\ capture' = [capture EXCEPT ![c] = "filled"]
  /\ UNCHANGED <<slot, ring, ready, attached, reader, signalled, exiting>>

\* bpf_ringbuf_submit(e, 0) clears BUSY ...
Submit(c) ==
  /\ capture[c] = "filled"
  /\ capture' = [capture EXCEPT ![c] = "submitted"]
  /\ ring' = [ring EXCEPT ![slot[c]].busy = FALSE]
  /\ UNCHANGED <<slot, ready, attached, reader, signalled, exiting>>

\* Mutant of Wakes: bpf_ringbuf_submit(e, BPF_RB_NO_WAKEUP).
WakesNever(c) == FALSE

\* The flags of bpf_ringbuf_submit are 0, which leaves the wakeup to the kernel:
\* it wakes the reader if consumer_pos is at the record.
Wakes(c) == slot[c] = 1

\* ... and then wakes the reader if it would read this record next.
Notify(c) ==
  /\ capture[c] = "submitted"
  /\ capture' = [capture EXCEPT ![c] = "idle"]
  /\ slot' = [slot EXCEPT ![c] = 0]
  /\ ready' = (ready \/ (Wakes(c) /\ pc \notin {"attach", "create"}))
  /\ UNCHANGED <<ring, attached, reader, signalled, exiting>>

-----------------------------------------------------------------------------
(* main. *)

Attach ==
  /\ pc = "attach"
  /\ \/ pc' = "create" /\ attached' = TRUE
     \/ pc' = "gone" /\ attached' = FALSE       \* the skeleton does not load
  /\ UNCHANGED <<capture, slot, ring, ready, ahead, gotNew, count, signalled, exiting>>

\* ring_buffer__new: epoll_ctl finds what the ring already holds.
Create ==
  /\ pc = "create"
  /\ pc' = "arm"
  /\ ready' = (ring # <<>>)
  /\ UNCHANGED <<capture, slot, ring, attached, ahead, gotNew, count, signalled, exiting>>

CreateFails ==
  /\ pc = "create"
  /\ pc' = "gone"
  /\ attached' = FALSE
  /\ UNCHANGED <<capture, slot, ring, ready, ahead, gotNew, count, signalled, exiting>>

Arm ==
  /\ pc = "arm"
  /\ pc' = "poll"
  /\ UNCHANGED <<capture, slot, ring, ready, attached, ahead, gotNew, count, signalled, exiting>>

\* while (!exiting): ring_buffer__free and destroy.
Leave ==
  /\ pc = "poll"
  /\ exiting
  /\ pc' = "gone"
  /\ attached' = FALSE
  /\ UNCHANGED <<capture, slot, ring, ready, ahead, gotNew, count, signalled, exiting>>

\* epoll_wait reports the ring if it is ready and holds anything, be it a
\* record still busy, and keeps it ready (level-triggered).
PollReady ==
  /\ pc = "poll"
  /\ ~ exiting
  /\ ready /\ ring # <<>>
  /\ pc' = "load"
  /\ count' = 0
  /\ UNCHANGED <<capture, slot, ring, ready, attached, ahead, gotNew, signalled, exiting>>

\* Nothing to report: the empty ring leaves the ready list, and after 100 ms
\* poll returns without having looked at the ring.
PollTimeout ==
  /\ pc = "poll"
  /\ ~ exiting
  /\ ~ (ready /\ ring # <<>>)
  /\ ready' = FALSE
  /\ UNCHANGED <<capture, slot, ring, attached, reader, signalled, exiting>>

\* epoll_wait fails, not with EINTR: break.
PollFails ==
  /\ pc = "poll"
  /\ ~ exiting
  /\ pc' = "gone"
  /\ attached' = FALSE
  /\ UNCHANGED <<capture, slot, ring, ready, ahead, gotNew, count, signalled, exiting>>

\* Ctrl+C: before signal() it ends the process.
Signal ==
  /\ pc # "gone"
  /\ ~ signalled
  /\ signalled' = TRUE
  /\ IF pc \in {"attach", "create", "arm"}
       THEN pc' = "gone" /\ attached' = FALSE /\ exiting' = exiting
       ELSE exiting' = TRUE /\ UNCHANGED <<pc, attached>>
  /\ UNCHANGED <<capture, slot, ring, ready, ahead, gotNew, count>>

-----------------------------------------------------------------------------
(* ringbuf_process_ring. *)

\* The head of the do loop: load producer_pos.
Load ==
  /\ pc = "load"
  /\ ahead' = Len(ring)
  /\ gotNew' = FALSE
  /\ pc' = "scan"
  /\ UNCHANGED <<capture, slot, ring, ready, attached, count, signalled, exiting>>

\* Mutant of Submitted: the busy bit is not looked at.
Reserved(r) == TRUE

Submitted(r) == ~ r.busy

\* A record not yet submitted ends the walk.
ScanBusy ==
  /\ pc = "scan" /\ ahead > 0
  /\ ~ Submitted(Head(ring))
  /\ pc' = "poll"
  /\ UNCHANGED <<capture, slot, ring, ready, attached, ahead, gotNew, count, signalled, exiting>>

ScanRecord ==
  /\ pc = "scan" /\ ahead > 0
  /\ Submitted(Head(ring))
  /\ gotNew' = TRUE
  /\ pc' = "deliver"
  /\ UNCHANGED <<capture, slot, ring, ready, attached, ahead, count, signalled, exiting>>

\* while (got_new_data).
ScanEnd ==
  /\ pc = "scan" /\ ahead = 0
  /\ pc' = IF gotNew THEN "load" ELSE "poll"
  /\ UNCHANGED <<capture, slot, ring, ready, attached, ahead, gotNew, count, signalled, exiting>>

\* handle_event appends a row to sched.csv.
Deliver ==
  /\ pc = "deliver"
  /\ pc' = "release"
  /\ UNCHANGED <<capture, slot, ring, ready, attached, ahead, gotNew, count, signalled, exiting>>

\* Mutant of BatchDone: no limit on what one call consumes.
BatchEndless(n) == FALSE

\* cnt >= n.
BatchDone(n) == n >= Batch

\* cnt++, as far as its comparison with n needs it.
Counted == IF count < Batch THEN count + 1 ELSE Batch

\* Mutant of Consumed: consumer_pos is not stored.
NotConsumed == ring

Consumed == Tail(ring)

\* smp_store_release(consumer_pos).
Release ==
  /\ pc = "release"
  /\ ring' = Consumed
  /\ slot' = [c \in Cpus |-> IF slot[c] > 0 THEN slot[c] - 1 ELSE 0]
  /\ ahead' = ahead - 1
  /\ count' = Counted
  /\ pc' = IF BatchDone(count + 1) THEN "poll" ELSE "scan"
  /\ UNCHANGED <<capture, ready, attached, gotNew, signalled, exiting>>

-----------------------------------------------------------------------------
Reader ==
  \/ Attach \/ Create \/ CreateFails \/ Arm \/ Leave \/ PollReady \/ PollTimeout
  \/ Load \/ ScanBusy \/ ScanRecord \/ ScanEnd \/ Deliver \/ Release

Next ==
  \/ \E c \in Cpus : Reserve(c) \/ Drop(c) \/ Fill(c) \/ Submit(c) \/ Notify(c)
  \/ Reader
  \/ PollFails
  \/ Signal

Spec == Init /\ [][Next]_ringVars

\* The reader is a process that keeps running (epoll_wait waits 100 ms at
\* most), and on_switch runs to its end once it has begun.  No CPU has to
\* switch, epoll_wait does not have to fail and nobody has to send the signal.
FairSpec ==
  /\ Spec
  /\ WF_ringVars(Reader)
  /\ \A c \in Cpus : WF_ringVars(Fill(c) \/ Submit(c) \/ Notify(c))

-----------------------------------------------------------------------------
\* The reader never walks past the end of the ring.
WalkOK ==
  /\ ahead \in Nat
  /\ pc \in {"scan", "deliver", "release"} => ahead <= Len(ring)
  /\ pc \in {"deliver", "release"} => ahead > 0

\* A CPU inside on_switch owns exactly the busy record at its slot, until it
\* submits it.
OwnsRecord(c) ==
  /\ slot[c] <= Len(ring)
  /\ capture[c] \in {"reserved", "filled"} => slot[c] > 0
  /\ \A i \in 1 .. Len(ring) :
       (ring[i].cpu = c /\ ring[i].busy) <=>
         (capture[c] \in {"reserved", "filled"} /\ slot[c] = i)

\* Every variable keeps to its type, the ring never holds more records than
\* fit, and its busy records are those of the CPUs inside on_switch.
RingTypeOK ==
  /\ capture \in [Cpus -> {"idle", "reserved", "filled", "submitted"}]
  /\ ring \in Seq([cpu : Cpus, busy : BOOLEAN])
  /\ Len(ring) <= Size
  /\ slot \in [Cpus -> 0 .. Size]
  /\ {ready, attached, gotNew, signalled, exiting} \subseteq BOOLEAN
  /\ pc \in {"attach", "create", "arm", "poll", "load", "scan", "deliver", "release", "gone"}
  /\ count \in 0 .. Batch
  /\ WalkOK
  /\ \A c \in Cpus : OwnsRecord(c)

\* handle_event only ever sees a record its CPU has submitted.
NoTornRecord == pc \in {"deliver", "release"} => ~ Head(ring).busy

\* Ctrl+C stops the collector (data_thread.c:76) although ringbuf_process_ring
\* never looks at exiting and goes on as long as records keep coming: only the
\* limit on one call brings it back to the loop of main.
SignalStops == signalled ~> pc = "gone"

\* As long as the reader runs no submitted head of the ring stays unread: a
\* submit that wakes nobody is one that the reader is about to see.
HeadDelivered ==
  [](ring # <<>> /\ ~ Head(ring).busy => <>(pc \in {"release", "gone"}))
=============================================================================
