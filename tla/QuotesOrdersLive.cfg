SPECIFICATION LiveSpec
CONSTANTS
  s1 = s1
  s2 = s2
  s3 = s3
  q1 = q1
  q2 = q2
  Sessions = {s1, s2}
  Quotes = {q1, q2}
  Underway = {}
  MaxConversions = 2
  MaxSales = 0
PROPERTY EveryRequestEnds
CHECK_DEADLOCK FALSE
