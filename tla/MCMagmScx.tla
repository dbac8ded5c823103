----------------------------- MODULE MCMagmScx -----------------------------
(***************************************************************************)
(* MagmScx on plans as the pipeline writes them: the decisions of one or   *)
(* two windows, as export_cpu_selection.py orders them (by window, then by *)
(* physical core and slot, which is the order of the CPUs).                *)
(***************************************************************************)
EXTENDS MagmScx

Line(w, t, cpu) == [window |-> w, tid |-> t, cpu |-> cpu, cut |-> FALSE]

\* The line of a thread whose command name holds a comma.
CutLine(w, t, cpu) == [window |-> w, tid |-> t, cpu |-> cpu, cut |-> TRUE]

\* A CE window puts its threads on the first slots, an SP window a pair on the
\* two slots of core 0.
Alone(w, a) == <<Line(w, a, 0)>>
Spread(w, a, b) == <<Line(w, a, 0), Line(w, b, 2)>>
Pair(w, a, b) == <<Line(w, a, 0), Line(w, b, 1)>>

\* Threads 1 to 3 are live, 4 is gone, 0 is the idle thread.
MCPlans ==
  { Alone(1, 1) \o Pair(2, 2, 1),       \* thread 1 moves
    Pair(1, 1, 2) \o Alone(2, 3),       \* every live thread, 3 on the CPU of 1
    Pair(1, 4, 1) \o Pair(2, 3, 2),     \* a thread gone, no room for thread 2
    Pair(1, 4, 0),                      \* no live thread
    Spread(1, 1, 2),                    \* a core the host does not have
    Pair(1, 1, 1),                      \* one thread that changed its name
    <<CutLine(1, 2, 0), Line(1, 1, 1)>> \o Alone(2, 1) }
=============================================================================
