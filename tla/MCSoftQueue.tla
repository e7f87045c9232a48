---------------------------- MODULE MCSoftQueue ----------------------------
(* Small instances of SoftQueue for TLC.  Producer threads are              *)
(* interchangeable in the safety runs.                                      *)
EXTENDS SoftQueue, TLC

CONSTANTS p1, p2, d1, d2, l1, l2

MCProducers == {p1, p2}
MCData == {d1, d2}
MCListeners == {l1, l2}
MCOneshot == {l2}
Sym == Permutations(MCProducers) \cup Permutations(MCData)

=============================================================================
