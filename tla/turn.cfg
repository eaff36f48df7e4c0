SPECIFICATION FairSpec
CONSTANT Servers = 2
CHECK_DEADLOCK FALSE
INVARIANTS TypeOK KeptAlive 
PROPERTIES KeepsPromise
