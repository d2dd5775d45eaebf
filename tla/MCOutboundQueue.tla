--------------------------- MODULE MCOutboundQueue ---------------------------
EXTENDS OutboundQueue, TLC

CONSTANTS w1, w2, n1, n2, o1, p1, attendee

Symmetry == Permutations({w1, w2})
=============================================================================
