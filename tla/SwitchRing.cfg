\* Three CPUs, a ring of two records, any number of switches.
CONSTANTS
  Cpus = {c1, c2, c3}
  Size = 2
  Batch = 3

SPECIFICATION FairSpec

INVARIANTS
  RingTypeOK
  NoTornRecord

PROPERTIES
  SignalStops
  HeadDelivered

CHECK_DEADLOCK FALSE
