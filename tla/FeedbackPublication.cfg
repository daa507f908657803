CONSTANTS
  Roots = {r1, r2}
  Attempts = 2
  MaxCommits = 1
  MaxInvocations = 3
  MaxOthers = 1
  MaxFaults = 1
SPECIFICATION Spec
INVARIANTS Consistent
PROPERTIES PublicationIsTrue InvocationEnds
CHECK_DEADLOCK FALSE
