---------------------------- MODULE MCSaleEngines ----------------------------
EXTENDS SaleEngines

CONSTANTS t1, t2

(* Orders of the same products, one of them the other way round. *)
Opposite == << << [product |-> "a", quantity |-> 1], [product |-> "b", quantity |-> 2] >>,
               << [product |-> "b", quantity |-> 1], [product |-> "a", quantity |-> 1] >>,
               << [product |-> "a", quantity |-> 3], [product |-> "b", quantity |-> 1] >> >>
==============================================================================
