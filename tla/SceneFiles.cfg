\* Two scenes, two runs, two rows of each collector.
CONSTANTS
  Scenes = {cpu, mixed}
  Absent = Absent
  MaxRuns = 2
  MaxRows = 2

SPECIFICATION Spec

INVARIANTS
  FilesTypeOK
  FreshRows
  ExactRows

\* Nothing is left to do after the last run.
CHECK_DEADLOCK FALSE
