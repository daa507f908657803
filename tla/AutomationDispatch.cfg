CONSTANTS
  s1 = s1
  p1 = p1
  Issues <- MCIssues
  PullRequests <- MCPullRequests
  SharedPR <- MCSharedPR
  Starts <- MCStarts
  Wishes <- MCWishes
  Limit = 2
  Children = 2
  MaxCrashes = 1
  MaxTroubles = 1
SPECIFICATION Spec
INVARIANTS Consistent
PROPERTIES DrainIsClean Progress
CHECK_DEADLOCK FALSE
