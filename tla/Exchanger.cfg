SPECIFICATION ExFairSpec
CONSTANTS
  Slots = 3
  Frames <- MCFrames
  NULL = NULL
  MayRunOut = TRUE
  f1 = f1
  f2 = f2
  f3 = f3
  f4 = f4
  f5 = f5
INVARIANTS NeverDropped BytesAnnounceFrames
PROPERTIES StarvationIsPermanent CaptureNeverStarves
CHECK_DEADLOCK FALSE
