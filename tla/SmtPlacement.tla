--------------------------- MODULE SmtPlacement ---------------------------
(***************************************************************************)
(* What a MAGM decision promises for one window, whatever rule makes it:   *)
(* the threads it binds are put, one by one or two by two, on physical     *)
(* cores that nothing has been put on yet, a lone thread on the first SMT  *)
(* slot, a pair on the two siblings, and the decision is then final.       *)
(*                                                                         *)
(* MagmSchedule implements this specification.                             *)
(***************************************************************************)
EXTENDS Integers

CONSTANT Threads            \* the thread_key values of the window

VARIABLES
  cores,                    \* number of physical cores, fixed at the start
  placement,                \* the pairs <<thread, logical CPU>> decided so far
  final                     \* TRUE once the decision is handed over

vars == <<cores, placement, final>>

\* The two logical CPUs of a physical core.
Siblings(core) == {2 * core, 2 * core + 1}

Placed(t) == \E p \in placement : p[1] = t

Idle(core) == \A p \in placement : p[2] \notin Siblings(core)

Init ==
  /\ cores \in Nat
  /\ placement = {}
  /\ final = FALSE

PlaceAlone(t, core) ==
  /\ ~ Placed(t) /\ Idle(core)
  /\ placement' = placement \cup {<<t, 2 * core>>}

PlacePair(t, u, core) ==
  /\ t # u /\ ~ Placed(t) /\ ~ Placed(u) /\ Idle(core)
  /\ placement' = placement \cup {<<t, 2 * core>>, <<u, 2 * core + 1>>}

Place ==
  /\ ~ final
  /\ \E core \in 0 .. cores - 1 :
       \/ \E t \in Threads : PlaceAlone(t, core)
       \/ \E t, u \in Threads : PlacePair(t, u, core)
  /\ UNCHANGED <<cores, final>>

HandOver ==
  /\ ~ final
  /\ final' = TRUE
  /\ UNCHANGED <<cores, placement>>

Next == Place \/ HandOver

Spec == Init /\ [][Next]_vars
=============================================================================
