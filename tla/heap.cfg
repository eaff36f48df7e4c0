SPECIFICATION Spec
CONSTANTS
    main = main
    worker = worker
    e1 = e1
    e2 = e2
    e3 = e3
    Threads <- Two
    Entries <- Three
    NoEntry = NoEntry
    Size = 0
    MaxPerPoll = 2
    Locked = TRUE
    Delays <- Short
    Horizon = 1
SYMMETRY Interchangeable
INVARIANTS SlotsMatch HeapOrdered FreshId
PROPERTIES KeepsTime
