------------------------- MODULE MCOfflinePipeline -------------------------
(***************************************************************************)
(* Four threads of one load type and one of another.  Two of the four are  *)
(* one task before and after a change of name.  Two moments share a        *)
(* window; at ts 5 a sample counts nothing.                                *)
(***************************************************************************)
EXTENDS OfflinePipeline, SequencesExt

MCKey(load, tid, comm) == [load |-> load, tid |-> tid, comm |-> comm]

Renaming == MCKey("cpu", 1, "stress-ng")
Renamed == MCKey("cpu", 1, "stress-ng-cpu")
Peer == MCKey("cpu", 2, "sysbench")
Third == MCKey("cpu", 3, "java")
Other == MCKey("mixed", 4, "fio")

MCKeys == {Renaming, Renamed, Peer, Third, Other}

MCRows(k, moments) == {[key |-> k, ts |-> t, busy |-> t # 5] : t \in moments}

\* Histories of two can be trained on with four windows of a thread: the last
\* one is tested, the one before it trained on.  At window 3 or 4 two or more
\* threads of the load type cpu are predicted together: up to three after a
\* training, when it is the last window of each, up to four otherwise.
MCDatasets ==
  {MCRows(Renaming, r) \cup MCRows(Renamed, {6, 8, 12}) \cup MCRows(Peer, p) \cup MCRows(Third, t)
     \cup MCRows(Other, {0, 4, 8}) \cup MCRows(NoThread, {2}) :
     r \in {{0, 1, 2, 5, 6, 8}, {0, 2, 4, 6}, {0, 6}},
     p \in {{0, 2, 4, 8}, {2, 6}},
     t \in {{0, 4, 8}, {}}}

\* One core of two CPUs, given out in the order of the TIDs: two threads share
\* it, one is alone on it, and of three one is left over.
MCDecide(group) ==
  LET before(k, l) == k.tid < l.tid \/ (k.tid = l.tid /\ Len(k.comm) < Len(l.comm))
      order == SetToSortSeq(group, before)
  IN {[key |-> order[i], cpu |-> i - 1] : i \in 1 .. Min({2, Len(order)})}
=============================================================================
