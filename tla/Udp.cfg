SPECIFICATION FairSpec
CONSTANTS
  Eps = {1, 2}
  Fds = {1, 2, 3, 4, 5}
  Pairs = 2
  Ival = 1
  MaxLate = 1
  NULL = NULL
  Free = Free
  Other = Other
INVARIANTS FreePairFound SocketsAccounted CallbacksFindTheirEndpoint
PROPERTY GoneClientRemoved
