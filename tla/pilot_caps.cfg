CONSTANTS
  s1 = s1
  s2 = s2
  s3 = s3
  Sym <- ThreeSymbols
  MaxOrders = 3
  OrderQty = 1
  MinLot = 1
  PNum = 1
  PDen = 2
  StopPx = 1
  Tp1Px = 5
  Tp2Px = 4
  CancelPx = 0
  ChaseSkipPx = 9
  ChaseEntry = FALSE
  MaxWait = 2
  MaxHolding = 0
  TimeStop = 0
  Cooldown = 0
  KeepTop = 2
  MaxNew = 1
  CapAmt = 2
  PosAmt = 2
  Faults = {"lag", "query", "calendar", "subscribe"}
  Prices = {3}
  MaxDay = 3
  MaxCrashes = 1
SPECIFICATION Spec
INVARIANT OneWorkingBuy
INVARIANT DailyLimit
INVARIANT ExposureCapped
CHECK_DEADLOCK FALSE
