SPECIFICATION ReliableSpec
CONSTANTS
  Agents <- Two
  Peer <- TwoPeer
  CompCnt = 1
  Addr <- PathsAddr
  Owner <- PathsOwner
  CompOf <- PathsComp
  Tp <- PathsTp
  Fnd <- PathsFnd
  Prio <- PathsPrio
  Base <- PathsBase
  LCand <- PathsCand
  SeenAs <- PathsSeen
  Reach <- PathsReach
  SendErr = {}
  InitRoles <- AIsControlling
  Tie <- LowHigh
  Aggressive <- Regular
  WaitNom = FALSE
  MayDestroy = {}
  Lossy = {}
  MaxCand = 16
  MaxChecks = 32
  MaxEarly = 1
  PrioScale = 32
CHECK_DEADLOCK FALSE
INVARIANTS BestSelected
PROPERTIES Connects
