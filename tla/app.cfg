SPECIFICATION FairSpec
CONSTANTS
  Agents <- Two
  Peer <- TwoPeer
  CompCnt = 1
  Addr <- NatAddr
  Owner <- NatOwner
  CompOf <- NatComp
  Tp <- NatTp
  Fnd <- NatFnd
  Prio <- NatPrio
  Base <- NatBase
  LCand <- NatCand
  SeenAs <- NatSeen
  Reach <- NatReach
  SendErr = {}
  InitRoles <- AnyRoles
  Tie <- LowHigh
  Aggressive <- Either
  WaitNom = TRUE
  MayDestroy = {"A"}
  Lossy <- NatAll
  MaxCand = 16
  MaxChecks = 32
  MaxEarly = 1
  PrioScale = 32
CHECK_DEADLOCK FALSE
INVARIANTS TypeOK  PendingIsInProgress NominatedByPeer DataPairWorks
PROPERTIES  KeepsPromise RoleSettles NegotiationEnds
