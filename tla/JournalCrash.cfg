SPECIFICATION FairSpec
CONSTANTS
  prepared = prepared
  committed = committed
  oversized = oversized
  NoFrame = NoFrame
  Nothing = Nothing
  Damaged = Damaged
  Frames <- MCFrames
  Fits <- MCFits
  MaxSequence = 4
  MaxQueued = 2
  MaxOverlap = 1
  PowerLoss = FALSE
  SyncFails = TRUE
INVARIANTS AckedRecoverable
PROPERTIES ImplementsRegister RecoverServed
