---------------------------- MODULE MagmDecision ----------------------------
(***************************************************************************)
(* schedule_window with the scoring rules of the code: MagmSchedule leaves *)
(* them open, MagmScore defines them.                                      *)
(***************************************************************************)
EXTENDS MagmSchedule, MagmScore

CodeRules ==
  /\ Theta \in Int
  /\ Profiles \subseteq Profile
  /\ \A p, q \in Profiles :
       /\ Intensity(p) = PredictedIntensity(p)
       /\ Score(p, q) = ComplementarityScore(p, q)

\* Two threads that would overload the same resource are never paired: only
\* a difference can make up for a load both predictions put above theta
\* (README 5.1: difference is benefit, sameness is penalty).
NoContendingTwins ==
  \A d \in decisions :
    d.peer # NoPeer =>
      \/ pred[d.thread] # pred[d.peer]
      \/ \A f \in Features : pred[d.thread][f] <= Theta
=============================================================================
