--------------------------- MODULE MCMp4Recorder ---------------------------
(***************************************************************************)
(* The recorder with frames of one to four NAL units, of which the loop    *)
(* takes three: key frames whose slice has a start code of four or of      *)
(* three bytes, single slices of two sizes, and a frame of two slices.     *)
(***************************************************************************)
EXTENDS Mp4Recorder

Nalu(type, code, size) == [type |-> type, code |-> code, size |-> size]

MCFrames ==
  { <<Nalu("SPS", 4, 5), Nalu("PPS", 4, 5), Nalu("I", 4, 6), Nalu("P", 4, 5)>>,
    <<Nalu("SPS", 4, 5), Nalu("PPS", 4, 5), Nalu("I", 3, 5)>>,
    <<Nalu("SEI", 3, 4), Nalu("P", 4, 5)>>,
    <<Nalu("P", 4, 6), Nalu("P", 4, 6)>> }

\* 0.7 s apart, which loses a whole tick, 6.8 s, and 7.5 s, which is too long
MCTimes == {0, 500005, 1200005, 8000020}

MCSeeks == {<<2, 0>>, <<2, 1>>, <<2, 2>>}

\* A recording that is long for its 32 bits: one slice a frame, mostly every
\* six seconds, which is 540000 ticks
MCSlices ==
  { <<Nalu("SPS", 4, 5), Nalu("PPS", 4, 5), Nalu("I", 4, 6)>>,
    <<Nalu("P", 4, 5)>> }

MCLongTimes == {6000000, 12000000, 18000000, 18500000}
=============================================================================
