CONSTANTS
  v1 = v1
  v2 = v2
  Ver <- Champions
  Leg <- ExpLeg
  MaxCommits = 3
  Faults = {"pack", "probe", "git", "torn", "checkout"}
SPECIFICATION Spec
INVARIANT StampTells
