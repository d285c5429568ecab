CONSTANTS
  s1 = s1
  s2 = s2
  s3 = s3
  Sym <- OneSymbol
  MaxOrders = 3
  OrderQty = 2
  MinLot = 1
  PNum = 1
  PDen = 2
  StopPx = 1
  Tp1Px = 4
  Tp2Px = 3
  CancelPx = 0
  ChaseSkipPx = 9
  ChaseEntry = FALSE
  MaxWait = 2
  MaxHolding = 0
  TimeStop = 0
  Cooldown = 0
  KeepTop = 1
  MaxNew = 1
  CapAmt = 9
  PosAmt = 2
  Faults = {"crash", "reject", "refuse", "calendar"}
  Prices = {1, 2, 3, 4}
  MaxDay = 2
  MaxCrashes = 1
SPECIFICATION Spec
INVARIANT TypeOK
INVARIANT SellsCovered
INVARIANT OneEntry
INVARIANT BookWithinAccount
INVARIANT NoForgottenOrder
INVARIANT HeldIsWatched
INVARIANT SellInv
PROPERTY SellsLikeADesk
CHECK_DEADLOCK FALSE
