SPECIFICATION FairSpec
CONSTANTS
  Frames <- FiveFrames
  NULL = NULL
  MaxRef = 2
  MayRunOut = TRUE
  Slots = 1
  QueueLen = 1
  f1 = f1
  f2 = f2
  f3 = f3
  f4 = f4
  f5 = f5
INVARIANT HeapSuffices
PROPERTY VideoKeepsFlowing
