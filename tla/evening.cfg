CONSTANTS
  share = share
  firm = firm
  Sym <- ShareAndFirm
  Firm <- TheFirm
  MaxDay = 4
  MaxCuts = 1
  Faults = {"page", "recompute", "halt", "down"}
SPECIFICATION FairSpec
INVARIANT TypeOK
INVARIANT OneBasis
INVARIANT ReadyIsTrue
INVARIANT UnfillableIsEmpty
PROPERTY RepairKeepsRows
PROPERTY EveryChainEnds
CHECK_DEADLOCK FALSE
