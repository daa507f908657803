CONSTANTS
  MaxSaves = 3
  MaxPurgeFaults = 1
  MaxPurgeCrashes = 2
SPECIFICATION PurgeSpec
INVARIANTS StateIsConsistent
PROPERTIES DeletionIsSafe
CHECK_DEADLOCK FALSE
