CONSTANTS
  t1 = t1
  t2 = t2
  p1 = p1
  p2 = p2
  Task <- TwoTasks
  Proc <- OneProc
  Faults = {"death", "down"}
  Weekly = FALSE
  MaxDowns = 1
SPECIFICATION Spec
INVARIANT TypeOK
INVARIANT Cancellable
PROPERTY LivesOnce
CHECK_DEADLOCK FALSE
