SPECIFICATION FairSpec
CONSTANT Workers <- One
CHECK_DEADLOCK FALSE
INVARIANTS  RefsBalanced
PROPERTIES KeepsPromise  KeepsAlive
