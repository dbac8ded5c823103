\* Three live tasks, two CPUs, a map of three entries, three wakeups.
CONSTANTS
  Tids = {1, 2, 3}
  Cpus = {0, 1}
  Plans <- MCPlans
  MapCapacity = 3
  MaxSelects = 3
  NoCpu = NoCpu
  NoTask = NoTask

SPECIFICATION Spec

INVARIANT PlacementUsed


\* The loader may have gone and no task may be scheduled by it any more.
CHECK_DEADLOCK FALSE
