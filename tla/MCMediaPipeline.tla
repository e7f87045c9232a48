-------------------------- MODULE MCMediaPipeline --------------------------
EXTENDS MediaPipeline, TLC
CONSTANTS f1, f2, f3, f4, f5
FiveFrames == {f1, f2, f3, f4, f5}
FourFrames == {f1, f2, f3, f4}
Sym4 == Permutations(FourFrames)
=============================================================================
