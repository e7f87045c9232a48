SPECIFICATION Spec
CONSTANTS
  Conns <- MCConns
  Sessions <- MCSessions
  Tracks <- MCTracks
  MaxChan = 4
  MaxLeaked = 1
  NULL = NULL
  c1 = c1
  c2 = c2
  s1 = s1
  s2 = s2
  video = video
  audio = audio
SYMMETRY Sym
INVARIANTS EndpointsConnected SessionsHaveEndpoints PlayedTracksFlow
  UnreadyTracksWait
