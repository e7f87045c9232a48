---------------------------- MODULE MCRtspLive -----------------------------
EXTENDS RtspLive, TLC
CONSTANTS c1, c2, s1, s2, video, audio
MCConns == {c1, c2}
MCSessions == {s1, s2}
MCTracks == {video, audio}
Sym == Permutations(MCConns) \cup Permutations(MCSessions) \cup Permutations(MCTracks)
=============================================================================
