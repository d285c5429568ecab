CONSTANTS
  t1 = t1
  t2 = t2
  p1 = p1
  p2 = p2
  Task <- OneTask
  Proc <- TwoProcs
  Faults = {"slow", "death", "down", "orphan"}
  Weekly = FALSE
  MaxDowns = 1
SPECIFICATION FairSpec
INVARIANT OneHand
PROPERTY EveryTaskEnds
CHECK_DEADLOCK FALSE
