SPECIFICATION Spec
CONSTANTS
  c1 = c1
  c2 = c2
  p1 = p1
  p2 = p2
  ChangeSets = {c1, c2}
  Paths = {p1, p2}
  Footprint <- MCOverlapping
  Original = original
  ThirdParty = {x}
  None = none
  Damaged = damaged
  MaxControl = 1
  MaxCrashes = 0
  MaxFaults = 1
  JournalFaults = FALSE
  SaveFaults = TRUE
  HostFaults = FALSE
  Races = FALSE
SYMMETRY Symmetry
INVARIANTS NotAppliedLeavesNothing
