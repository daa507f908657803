CONSTANTS
  Clients = {c1, c2}
  Results <- MCResults
  Sizes = {3}
  PageItems = 1
  Limit = 9
  ChunkCost = 2
  WholeCost = 1
  TokenCost = 2
  MaxChains = 2
  MaxBytes = 12
  MaxNotes = 4
  Lifetime = 2
  MaxTime = 2
  MaxCalls = 4
  VaultPaths = {"p", "q"}
  ReadLimit = 32
  MaxEdits = 1
  MaxMoves = 2
SPECIFICATION ReadsSpec
SYMMETRY MCSymmetry
INVARIANTS Consistent ReadsAreExact
PROPERTIES ReferencesFollow
CHECK_DEADLOCK FALSE
