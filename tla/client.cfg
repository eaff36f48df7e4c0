SPECIFICATION CFairSpec
CONSTANTS
    Configs <- AllConfigs
    Mapped = {"host", "nat1"}
    MaxClosing = 2
    Adversity = {"send", "create", "relay", "dns"}
    Peers = {"p1"}
    Menu = {"create", "init", "stop", "destroy"}
CHECK_DEADLOCK FALSE
INVARIANTS TypeOK RefsBalanced  DefaultExists RouteIsUsable
PROPERTIES GatheringTold EverythingFreed
