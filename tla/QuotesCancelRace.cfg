SPECIFICATION Spec
CONSTANTS
  s1 = s1
  s2 = s2
  s3 = s3
  q1 = q1
  q2 = q2
  Sessions = {s1, s2}
  Quotes = {q1}
  Underway = {"saiu_entrega"}
  MaxConversions = 1
  MaxSales = 1
PROPERTY ConvertedStays
CHECK_DEADLOCK FALSE
