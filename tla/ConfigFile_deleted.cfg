SPECIFICATION FairSpec
CONSTANTS
  MaxEdits = 2
  MaxPicks = 2
  MaxCrashes = 1
  MaxLocks = 1
  MaxLoads = 2
INVARIANT NextSaveRecreates
