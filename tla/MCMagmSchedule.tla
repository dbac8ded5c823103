-------------------------- MODULE MCMagmSchedule --------------------------
(***************************************************************************)
(* MagmDecision on every window of at most four threads drawn from the     *)
(* profiles below, with too few, just enough and enough cores and with     *)
(* top_k below and above the number of threads.                            *)
(***************************************************************************)
EXTENDS MagmDecision

Predicted(ipc, l1i, l1d, l2, llc, br, tlb) ==
  [IPC |-> ipc, MPKI_L1I |-> l1i, MPKI_L1D |-> l1d, MPKI_L2 |-> l2,
   MPKI_LLC |-> llc, BrMPKI |-> br, MPKI_TLB |-> tlb]

ComputeBound == Predicted(9, 1, 2, 1, 0, 1, 0)
Compute2 == Predicted(7, 1, 1, 1, 1, 2, 0)
MemoryBound == Predicted(1, 1, 4, 8, 9, 1, 9)
FrontEndBound == Predicted(3, 8, 1, 1, 1, 9, 1)
Quiet == Predicted(2, 0, 0, 0, 0, 0, 0)

MCProfiles == {ComputeBound, Compute2, MemoryBound, FrontEndBound, Quiet}

ASSUME RulesAreTheCodes == CodeRules
=============================================================================
