CONSTANTS
  v1 = v1
  v2 = v2
  Ver <- Champions
  Leg <- BothLegs
  MaxCommits = 3
  Faults = {"export", "commit", "build", "keep", "replace", "write"}
SPECIFICATION FairSpec
INVARIANT TypeOK
INVARIANT OldKept
PROPERTY PlanTells
PROPERTY ChampionIsPrepared
