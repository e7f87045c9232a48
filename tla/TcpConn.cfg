SPECIFICATION Spec
CONSTANTS
  Conns = {c1, c2}
  Fds = {d1, d2, d3}
  ListenFd = ListenFd
  Events <- MCEvents
  Cookies = {k1}
  NoCookie = NoCookie
  Names = {0, 1, 2}
  NULL = NULL
SYMMETRY Sym
INVARIANTS CallbacksFindTheirConn DescriptorsOwned PendingWritesWatched
