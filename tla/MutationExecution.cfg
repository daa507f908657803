SPECIFICATION Spec
CONSTANTS
  n1 = n1 n2 = n2 n3 = n3 a1 = a1 a2 = a2 a3 = a3 d = d
  b1 = b1 b2 = b2 b3 = b3 b4 = b4 c1 = c1 t = t
  Notes = {n1, n2, n3} Attachments = {a1, a2, a3} Directories = {d}
  Above <- MCAbove Bytes = {b1, b2, b3, b4, c1, t} Start <- MCStart Requests <- MCRequests
  Theirs = t Absent = Absent Dir = Dir None = None
  MaxCrashes = 2 MaxFaults = 1 MaxWrites = 1
INVARIANTS Consistent OutcomesAreTrue
PROPERTIES OthersAreSpared Decided
CHECK_DEADLOCK FALSE
