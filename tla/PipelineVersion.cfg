SPECIFICATION LiveSpec
CONSTANTS
  r1 = r1
  r2 = r2
  p1 = p1
  Relays = {r1}
  RelayBatch = 2
  RelayFaults = 0
  Procs = {p1}
  WorkerBatch = 2
  ReclaimCount = 4
  WorkerFaults = 0
  Sales = {}
  Pairs = {}
  Others = {}
  Poison = {1}
PROPERTY EveryEventProcessed
CHECK_DEADLOCK FALSE
