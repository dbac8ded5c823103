\* A thread with the recorded name that got the TID of the recorded one.
CONSTANTS
  NotGiven = NotGiven
  NoTask = NoTask
  Tids = {1, 2}
  CpuCount = 2
  MaxChanges = 2
  Names <- MCNames
  Shown <- MCShown
  Plans <- MCPlans
  Options <- MCOptions

SPECIFICATION Spec

INVARIANT NoReusedTidBound

CHECK_DEADLOCK FALSE
