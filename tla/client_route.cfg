SPECIFICATION CSpec
CONSTANTS
    Configs <- AllConfigs
    Mapped = {"host", "nat1"}
    MaxClosing = 2
    Adversity = {}
    Peers = {"p1"}
    Menu = {}
CHECK_DEADLOCK FALSE
INVARIANTS SuccessIsUsed
