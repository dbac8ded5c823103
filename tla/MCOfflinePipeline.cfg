\* Twelve data sets, histories of one or two windows, two runs of a driver.
CONSTANTS
  Keys <- MCKeys
  NoThread = NoThread
  WindowNs = 2
  HistLens = {1, 2}
  Datasets <- MCDatasets
  Decide <- MCDecide
  NoKey = NoKey
  MaxRuns = 2

SPECIFICATION Spec

INVARIANTS
  PipelineTypeOK
  HistoryIsPast
  PlanFromData

\* Nothing is left to do after the last run.
CHECK_DEADLOCK FALSE
