\* The workload and another process, two births, two CPUs.
CONSTANTS
  MaxTid = 4
  Leader = 2
  Others = {1}
  CpuCount = 2
  Plans <- MCPlans
  Options <- MCOptions
  Latest = Latest
  NoTask = NoTask
  MaxBirths = 2

SPECIFICATION FairSpec

INVARIANTS
  LiveTypeOK
  BoundUnlessLoose

PROPERTY EndsWithWorkload

\* The script ends.
CHECK_DEADLOCK FALSE
