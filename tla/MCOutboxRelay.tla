---------------------------- MODULE MCOutboxRelay ----------------------------
EXTENDS OutboxRelay, TLC

CONSTANTS r1, r2

RelaySymmetry == Permutations(Relays)
==============================================================================
