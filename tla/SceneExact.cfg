\* run_mixed.py, one CPU and a ring large enough for every switch: nothing is
\* dropped, and the property asks for rows of all that was seen.
CONSTANTS
  Scripts = {"mixed"}
  NCpus = 1
  Threads = {t1, t2}
  Idle = Idle
  NoThread = NoThread
  RingSize = 3
  MaxSwitches = 3
  MaxRounds = 1

SPECIFICATION Spec

INVARIANT ExactAttribution

\* The runner has done when the machine may have stopped switching.
CHECK_DEADLOCK FALSE
