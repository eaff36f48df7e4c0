SPECIFICATION FairSpec
CONSTANTS
    Slot <- TwoSlots
    Pollers <- OnePoller
    MaxTransmit = 3
    MaxAuthRetry = 1
    Nonce <- TwoNonces
    AuthTypes <- Credentials
    Peers <- AnyPeer
    SendFails <- Refusals
    None = None
CHECK_DEADLOCK FALSE
INVARIANTS TypeOK NotifiedOnce NothingDangles HandleValid Watched
PROPERTIES  EverythingFreed
