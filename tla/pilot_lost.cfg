CONSTANTS
  s1 = s1
  s2 = s2
  s3 = s3
  Sym <- OneSymbol
  MaxOrders = 3
  OrderQty = 2
  MinLot = 1
  PNum = 1
  PDen = 2
  StopPx = 1
  Tp1Px = 3
  Tp2Px = 4
  CancelPx = 0
  ChaseSkipPx = 9
  ChaseEntry = TRUE
  MaxWait = 1
  MaxHolding = 2
  TimeStop = 0
  Cooldown = 0
  KeepTop = 1
  MaxNew = 1
  CapAmt = 9
  PosAmt = 2
  Faults = {"lost", "query", "overnight", "reject", "cancel", "flag", "subscribe"}
  Prices = {4}
  MaxDay = 2
  MaxCrashes = 1
SPECIFICATION Spec
PROPERTY PreOpenSparesToday
INVARIANT MarkedIsScanned
CHECK_DEADLOCK FALSE
