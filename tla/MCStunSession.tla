--------------------------- MODULE MCStunSession ---------------------------
EXTENDS StunSession
TwoSlots == 1..2
OnePoller == {"p1"}
TwoNonces == {"n1", "n2"}
Credentials == {"short", "long"}
AnyPeer == {"final", "any"}
Refusals == {"request", "retransmission", "response"}
=============================================================================
