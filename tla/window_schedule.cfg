SPECIFICATION Spec
CONSTANTS
  Agents <- Two
  Peer <- TwoPeer
  CompCnt = 1
  Addr <- DirectAddr
  Owner <- DirectOwner
  CompOf <- DirectComp
  Tp <- DirectTp
  Fnd <- DirectFnd
  Prio <- DirectPrio
  Base <- DirectBase
  LCand <- DirectCand
  SeenAs <- DirectSeen
  Reach <- DirectReach
  SendErr = {}
  InitRoles <- AIsControlling
  Tie <- LowHigh
  Aggressive <- Regular
  WaitNom = TRUE
  MayDestroy = {}
  Lossy = {}
  MaxCand = 16
  MaxChecks = 32
  MaxEarly = 1
  PrioScale = 32
CHECK_DEADLOCK FALSE
INVARIANTS ScheduledOnce
