SPECIFICATION Spec
CONSTANTS
  Frames <- FourFrames
  NULL = NULL
  MaxRef = 2
  MayRunOut = TRUE
  Slots = 2
  QueueLen = 3
  f1 = f1
  f2 = f2
  f3 = f3
  f4 = f4
  f5 = f5
SYMMETRY Sym4
INVARIANTS RefCountsExact OutOnlyBehindBacklog
           FramePlaces NeverStuck FailsOnlyWhenAllOut
PROPERTY ImplementsExchanger
CHECK_DEADLOCK FALSE
