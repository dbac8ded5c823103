\* Two CPUs, a ring that overflows, two rounds of the sampler.
CONSTANTS
  Scripts = {"cpu", "mixed"}
  NCpus = 2
  Threads = {t1, t2}
  Idle = Idle
  NoThread = NoThread
  RingSize = 1
  MaxSwitches = 2
  MaxRounds = 2

SPECIFICATION FairSpec

INVARIANTS
  SceneTypeOK
  AttributedToRunning
  RowCountsItsRound

PROPERTY RunEnds

\* The runner has done when the machine may have stopped switching.
CHECK_DEADLOCK FALSE
