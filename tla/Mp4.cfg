\* The recorder and the player on one file of at most 3 video frames (up to
\* 6 samples) and 2 audio frames; two audio samples fill a chunk.  U32 and
\* U64 stand for 2^32 and 2^64: above every duration, and above U32.
CONSTANTS
  U32 = 10000000
  U64 = 100000000
  Frames <- MCFrames
  Times <- MCTimes
  AacSizes = {7, 9}
  FrameRate = 25
  SampleRate = 2048
  BitsPerSample = 16
  ShortTimes = {700000}
  MaxTurns = 4
  MaxVideo = 3
  MaxAudio = 2
  Seeks <- MCSeeks
SPECIFICATION Spec
INVARIANTS
  SamplesReadBack
  FramesKeepTheirTime
