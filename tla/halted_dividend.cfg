CONSTANTS
  share = share
  firm = firm
  Sym <- ShareAndFirm
  Firm <- TheFirm
  MaxDay = 4
  MaxCuts = 0
  Faults = {"halt", "exlost"}
SPECIFICATION Spec
INVARIANT OneBasis
CHECK_DEADLOCK FALSE
