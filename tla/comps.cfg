SPECIFICATION Spec
CONSTANTS
  Agents <- Two
  Peer <- TwoPeer
  CompCnt = 2
  Addr <- CompsAddr
  Owner <- CompsOwner
  CompOf <- CompsComp
  Tp <- CompsTp
  Fnd <- CompsFnd
  Prio <- CompsPrio
  Base <- CompsBase
  LCand <- CompsCand
  SeenAs <- CompsSeen
  Reach <- CompsReach
  SendErr = {}
  InitRoles <- AnyRoles
  Tie <- LowHigh
  Aggressive <- Either
  WaitNom = FALSE
  MayDestroy = {}
  Lossy <- CompsAll
  MaxCand = 16
  MaxChecks = 32
  MaxEarly = 1
  PrioScale = 32
CHECK_DEADLOCK FALSE
INVARIANTS SuccessCoversComponents CompletedRolesDiffer
 
