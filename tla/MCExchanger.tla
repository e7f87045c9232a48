---------------------------- MODULE MCExchanger ----------------------------
EXTENDS Exchanger
CONSTANTS f1, f2, f3, f4, f5
MCFrames == {f1, f2, f3, f4, f5}
=============================================================================
