--------------------------- MODULE MCLiveAffinity ---------------------------
(***************************************************************************)
(* Four TIDs: the workload in the middle, a process of somebody else, two  *)
(* births.  Plans of two windows, one of them with a CPU the machine has   *)
(* not; a load type without rows.                                          *)
(***************************************************************************)
EXTENDS LiveAffinity

MCRow(load, window, cpu) == [load |-> load, window |-> window, cpu |-> cpu]

MCPlans == {{MCRow(1, 1, 2), MCRow(1, 2, 1), MCRow(1, 2, 0), MCRow(2, 1, 1)}}

MCOptions == [load : {1, 2, 3}, window : {1, Latest}]
=============================================================================
