SPECIFICATION VaultSpec
CONSTANTS
  c1 = c1
  c2 = c2
  p1 = p1
  p2 = p2
  ChangeSets = {c1, c2}
  Paths = {p1, p2}
  Footprint <- MCOverlapping
  Original = original
  ThirdParty = {x}
  None = none
  Damaged = damaged
  MaxControl = 1
  MaxCrashes = 2
  MaxFaults = 2
  JournalFaults = FALSE
  SaveFaults = FALSE
  HostFaults = TRUE
  Races = FALSE
  MaxSubmitted = 2
  MaxControls = 2
  MaxHealthFaults = 2
  MaxRestarts = 1
  MaxHealthEvents = 3
  Vaults = {"/a", "/b"}
  Ports = {1, 2}
  MaxIds = 2
  MaxTasks = 2
  MaxLoads = 2
  MaxWriteFaults = 1
  MaxCopies = 1
  Requests = {1, 2, 3}
CHECK_DEADLOCK FALSE
SYMMETRY Symmetry
INVARIANTS HealthIsTrue IdentityIsKept SessionsEndWithStop OutcomesStand NoOrphanEffects AppliedWasWhole
PROPERTIES OthersBytesSurvive CommitInOrder IsAtomic
