---------------------------- MODULE MCQuotesOrders ----------------------------
EXTENDS QuotesOrders, TLC

CONSTANTS s1, s2, s3, q1, q2

RowSymmetry == Permutations(Sessions) \cup Permutations(Quotes)
===============================================================================
