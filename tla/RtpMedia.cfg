SPECIFICATION MediaSpec
CONSTANTS
  Frames <- MCFrames
  MaxPkt = 2
  SeqNums = 4
  MaxLost = 2
  NULL = NULL
  FrameLen = 2
  RateLen = 7
  InLens = {3}
  Rates <- MCRates
  QueueCells = 3
  MaxData = {1, 2}
  MaxIn = 9
  NoFrame = NoFrame
INVARIANTS UnitsRebuilt LossIsVisible
INVARIANTS BlocksInOrder StaleOnlyBehindBacklog TimestampsCountSamples
INVARIANT SamplesSurvive
CHECK_DEADLOCK FALSE
