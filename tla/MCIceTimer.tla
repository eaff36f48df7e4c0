----------------------------- MODULE MCIceTimer -----------------------------
EXTENDS IceTimer
One == {"w1"}
=============================================================================
