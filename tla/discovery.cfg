CONSTANTS
  Who = {"cron", "catchup"}
  Faults = {"eval"}
  Metric <- ThreeMetrics
  K = 2
  MaxSeeds = 4
SPECIFICATION Spec
INVARIANT TypeOK
INVARIANT StagnationIsReal
INVARIANT NotOverBefore
PROPERTY ConvergedStays
