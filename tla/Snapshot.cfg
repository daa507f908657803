SPECIFICATION FairSpec
CONSTANTS
  Notes = {n1}
  Barriers = {b1}
  None = none
  MaxContent = 3
  MaxExtras = 1
  MayUnload = TRUE
CHECK_DEADLOCK FALSE
INVARIANTS ReadyIsCurrent
PROPERTIES SnapshotsAreSuccessors Progress
