----------------------------- MODULE MagmScore -----------------------------
(***************************************************************************)
(* The scoring rules of scripts/offline_magm_scheduler.py.                 *)
(*                                                                         *)
(* A profile is the seven predicted features of a thread for the next      *)
(* window.  The code computes with floats in [0, 1]; here a feature is an  *)
(* integer number of tenths, the complementarity score is in twentieths    *)
(* (the mean of two features is not halved) and the intensity in           *)
(* two-hundredths (its weights are multiples of one twentieth), so that    *)
(* both are exact and keep the order of the code's values.                 *)
(***************************************************************************)
EXTENDS Integers, FiniteSets, FiniteSetsExt

CONSTANT Theta      \* --theta, in tenths

One == 10           \* the value 1.0 of a feature

Features ==
  {"IPC", "MPKI_L1I", "MPKI_L1D", "MPKI_L2", "MPKI_LLC", "BrMPKI", "MPKI_TLB"}

Profile == [Features -> 0 .. One]

DiffWeights ==
  [IPC |-> 2, MPKI_L1I |-> 1, MPKI_L1D |-> 1, MPKI_L2 |-> 0,
   MPKI_LLC |-> 0, BrMPKI |-> 1, MPKI_TLB |-> 0]

SumWeights ==
  [IPC |-> 1, MPKI_L1I |-> 2, MPKI_L1D |-> 1, MPKI_L2 |-> 2,
   MPKI_LLC |-> 3, BrMPKI |-> 2, MPKI_TLB |-> 3]

Abs(x) == IF x < 0 THEN -x ELSE x

Positive(x) == IF x > 0 THEN x ELSE 0

Gain(a, b, f) == 2 * DiffWeights[f] * Abs(a[f] - b[f])

Penalty(a, b, f) == SumWeights[f] * Positive(a[f] + b[f] - 2 * Theta)

\* The loop over FEATURE_COLS.
OverFeatures(term(_)) ==
  term("IPC") + term("MPKI_L1I") + term("MPKI_L1D") + term("MPKI_L2")
    + term("MPKI_LLC") + term("BrMPKI") + term("MPKI_TLB")

\* Mutant of ComplementarityScore: the penalty is left out.
BenefitOnly(a, b) == OverFeatures(LAMBDA f : Gain(a, b, f))

\* complementarity_score: a difference is a gain, a shared load above theta a
\* penalty.
ComplementarityScore(a, b) == OverFeatures(LAMBDA f : Gain(a, b, f) - Penalty(a, b, f))

\* predicted_intensity: the strongest of the front-end, core and memory bounds.
PredictedIntensity(p) ==
  Max({15 * p["BrMPKI"] + 5 * p["MPKI_L1I"],
       16 * p["IPC"] + 4 * (One - p["MPKI_LLC"]),
       16 * p["MPKI_LLC"] + 4 * p["MPKI_TLB"]})
=============================================================================
