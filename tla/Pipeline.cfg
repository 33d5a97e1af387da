SPECIFICATION LiveSpec
CONSTANTS
  r1 = r1
  r2 = r2
  p1 = p1
  Relays = {r1}
  RelayBatch = 2
  RelayFaults = 1
  Procs = {p1}
  WorkerBatch = 1
  ReclaimCount = 4
  WorkerFaults = 1
  Sales = {1}
  Pairs = {1}
  Others = {}
  Poison = {2}
PROPERTIES ImplementsEffects EventuallyProcessed
INVARIANT NothingDropped
CHECK_DEADLOCK FALSE
