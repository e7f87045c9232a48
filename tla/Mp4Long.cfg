\* Four frames that make a run of two samples of 540000 ticks, with U32 small
\* enough for their sum not to fit it: in the code 2^32, and 13 hours.
CONSTANTS
  U32 = 700000
  U64 = 100000000
  Frames <- MCSlices
  Times <- MCLongTimes
  AacSizes = {7}
  FrameRate = 25
  SampleRate = 2048
  BitsPerSample = 16
  ShortTimes = {}
  MaxTurns = 4
  MaxVideo = 4
  MaxAudio = 0
  Seeks <- MCSeeks
SPECIFICATION Spec
INVARIANT SampleTimeIsStart
