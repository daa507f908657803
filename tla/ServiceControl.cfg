SPECIFICATION FairSpec
CONSTANTS
  c1 = c1
  c2 = c2
  p1 = p1
  p2 = p2
  ChangeSets = {c1, c2}
  Paths = {p1, p2}
  Footprint <- MCOverlapping
  Original = original
  ThirdParty = {}
  None = none
  Damaged = damaged
  MaxControl = 2
  MaxCrashes = 1
  MaxFaults = 1
  JournalFaults = FALSE
  SaveFaults = FALSE
  HostFaults = TRUE
  Races = FALSE
INVARIANTS PausedIsDrained
PROPERTIES Progress
