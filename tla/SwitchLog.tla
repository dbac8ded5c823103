----------------------------- MODULE SwitchLog -----------------------------
(***************************************************************************)
(* What the collector promises of sched.csv: the switches of a CPU enter   *)
(* the log in their order, some of them not at all, and the log is read    *)
(* out from its beginning, each entry once; an entry read out becomes a    *)
(* row of the file or is lost.                                             *)
(*                                                                         *)
(* SwitchTrace implements this specification.                              *)
(***************************************************************************)
EXTENDS Integers, Sequences

CONSTANT Cpus

VARIABLES
  log,          \* the entries <<cpu, n>>: the n-th switch of the CPU
  handed,       \* how many of them have been read out
  csv           \* the rows of the file

vars == <<log, handed, csv>>

Init == log = <<>> /\ handed = 0 /\ csv = <<>>

Accept(c, n) ==
  /\ \A i \in 1 .. Len(log) : log[i][1] = c => log[i][2] < n
  /\ log' = Append(log, <<c, n>>)
  /\ UNCHANGED <<handed, csv>>

ReadOut ==
  /\ handed < Len(log)
  /\ handed' = handed + 1
  /\ csv' \in {csv, Append(csv, log[handed + 1])}
  /\ UNCHANGED log

\* Only the entry that has just come can be the one accepted.
Next ==
  \/ /\ Len(log') = Len(log) + 1
     /\ \E c \in Cpus : log'[Len(log')][1] = c /\ Accept(c, log'[Len(log')][2])
  \/ ReadOut

Spec == Init /\ [][Next]_vars
=============================================================================
