SPECIFICATION LiveSpec
CONSTANTS
  p1 = p1
  sale = sale
  single = single
  other = other
  poison = poison
  Procs = {p1}
  Sales = {sale, single}
  Pairs = {sale}
  Others = {other}
  Poison = {poison}
  BatchSize = 2
  ReclaimCount = 2
  MaxStream = 2
  MaxFaults = 2
INVARIANTS TypeOK AckedIsProcessed ProcessedIsComplete SaleMovesStock
PROPERTIES ImplementsEffects EventuallyAcked
CHECK_DEADLOCK FALSE
