CONSTANTS
  Files = {manifest, main}
  Manifest = manifest
  MaxCommands = 2
  MaxFaults = 2
  MaxCrashes = 1
SPECIFICATION Spec
INVARIANTS Consistent NextCommandCanGoOn
PROPERTIES ClaimsAreTrue CommandEnds
CHECK_DEADLOCK FALSE
