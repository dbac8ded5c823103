\* Two changes of threads during the run: one TID can be reused.
CONSTANTS
  NotGiven = NotGiven
  NoTask = NoTask
  Tids = {1, 2}
  CpuCount = 2
  MaxChanges = 2
  Names <- MCNames
  Shown <- MCShown
  Plans <- MCPlans
  Options <- MCOptions

SPECIFICATION Spec

INVARIANTS
  ApplyTypeOK
  BoundAsPlanned
  OneThreadPerCpu

CHECK_DEADLOCK FALSE
