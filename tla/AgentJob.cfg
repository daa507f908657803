CONSTANTS
  Members = {leader, child, stray}
  Leader = leader
  MaxFaults = 3
  Roles = {"read", "review", "feedback", "update"}
  Attempts = 3
  StructuredAttempts = 3
  Reads = 3
  MaxCommits = 2
  MaxOthers = 1
  MaxCommandFaults = 2
  Operations = {"implement-issue", "implement-feedback", "review", "architecture-review"}
  Revisions = {r1, r2}
  Private = {r2}
  Branches = {"main", "next"}
  MaxEdits = 2
  MaxTroubles = 2
SPECIFICATION JobSpec
INVARIANTS Consistent JobsAreAccountedFor
PROPERTIES RunReturns ResultsAreProven
CHECK_DEADLOCK FALSE
