---------------------------- MODULE MCNatClient ----------------------------
EXTENDS NatClient

Config(stun, host, turn, ignore) ==
    [stun |-> stun, host |-> host, turn |-> turn, ignore_stun_error |-> ignore]
AllConfigs == {Config(TRUE, TRUE, TRUE, FALSE), Config(TRUE, TRUE, TRUE, TRUE),
               Config(TRUE, FALSE, TRUE, TRUE), Config(FALSE, FALSE, TRUE, FALSE)}
=============================================================================
