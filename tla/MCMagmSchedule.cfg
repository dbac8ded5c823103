\* Four threads of five profiles on zero, one or two cores.
CONSTANTS
  Threads = {t1, t2, t3, t4}
  NoPeer = NoPeer
  Profiles <- MCProfiles
  CoreCounts = {0, 1, 2}
  TopKs = {2, 4}
  Theta = 6
  Intensity <- PredictedIntensity
  Score <- ComplementarityScore

SPECIFICATION Spec

INVARIANTS
  TypeOK
  NoDoubleBooking
  SiblingPairs
  StableMatching
  HalfOfBest
  SpreadWhenLight
  NoContendingTwins

PROPERTIES
  PlacementSpec

CHECK_DEADLOCK FALSE
