\* Two CPUs of two switches each, a ring of two records.
CONSTANTS
  Cpus = {c1, c2}
  Size = 2
  Batch = 2
  MaxSwitches = 2

SPECIFICATION TraceFairSpec

INVARIANTS
  TraceTypeOK
  PerCpuOrder

PROPERTIES
  LogSpec
  AllHandedOut

CHECK_DEADLOCK FALSE
