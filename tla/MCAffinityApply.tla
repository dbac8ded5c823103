-------------------------- MODULE MCAffinityApply --------------------------
(***************************************************************************)
(* Two TIDs, two names, two CPUs and the plans of at most three rows out   *)
(* of two windows of one load type and one window of another.  CPU 2 is    *)
(* one the machine has not.                                                *)
(***************************************************************************)
EXTENDS AffinityApply, FiniteSetsExt

MCNames == {"worker", "stress-ng-cpu"}

\* The names of a plan were recorded from the comm of a sched_switch event, so
\* that they have at most 15 bytes and the cut leaves them as they are.
MCShown == [name \in MCNames |-> name]

MCRow(load, window, tid, comm, cpu) ==
  [load |-> load, window |-> window, tid |-> tid, comm |-> comm, cpu |-> cpu]

MCRows ==
  {MCRow(1, 1, 1, "worker", 0), MCRow(1, 1, 2, "stress-ng-cpu", 1),
   MCRow(1, 2, 1, "stress-ng-cpu", 1), MCRow(1, 2, 2, "worker", 0),
   MCRow(1, 2, 1, "worker", 2), MCRow(1, 2, 0, "swapper", 1),
   MCRow(2, 1, 2, "worker", 1), MCRow(2, 1, 1, "worker", 0)}

OneThreadOnACpu(p) ==
  \A r, s \in p : r.load = s.load /\ r.window = s.window /\ r.cpu = s.cpu => r = s

MCPlans == {p \in UNION {kSubset(k, MCRows) : k \in 1 .. 3} : OneThreadOnACpu(p)}

MCOptions ==
  [load : {NotGiven, 1, 2}, window : {NotGiven, 1}, apply : BOOLEAN, strict : BOOLEAN]
=============================================================================
