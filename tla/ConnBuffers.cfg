SPECIFICATION MCSpec
CONSTANTS
  Size = 6
  Byte = {0, 1, 2, 3, 4}
  Messages <- MCMessages
  BufSize = 9
  Requested <- MCRequested
  MaxSent = 3
PROPERTY ImplementsByteStream
INVARIANT RequestsSurviveCuts
CHECK_DEADLOCK FALSE
