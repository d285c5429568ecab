CONSTANTS
  share = share
  firm = firm
  Sym <- ShareAndFirm
  Firm <- TheFirm
  MaxDay = 3
  MaxCuts = 1
  Faults = {"page", "down", "overlap"}
SPECIFICATION Spec
INVARIANT OneBasis
INVARIANT UnfillableIsEmpty
CHECK_DEADLOCK FALSE
