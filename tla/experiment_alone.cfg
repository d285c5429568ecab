CONSTANTS
  v1 = v1
  v2 = v2
  v3 = v3
  c1 = c1
  c2 = c2
  Ver <- TwoVersions
  Writer <- OneWriter
  Whole = 2
  Weights = {0, 1, 2}
  MaxRuns = 5
  Crashes = TRUE
SPECIFICATION Spec
INVARIANT TypeOK
INVARIANT BudgetConserved
INVARIANT AuditTells
PROPERTY LastActiveStays
CHECK_DEADLOCK FALSE
