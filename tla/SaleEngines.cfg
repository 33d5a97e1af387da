SPECIFICATION LiveSpec
CONSTANTS
  t1 = t1
  t2 = t2
  Sessions = {t1, t2}
  Lines <- Opposite
  Fragile = {1}
  MaxAborts = 1
INVARIANTS TypeOK SoldIsAlerted BookedAndCounted
PROPERTY EventuallyBooked
CHECK_DEADLOCK FALSE
