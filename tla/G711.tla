-------------------------------- MODULE G711 --------------------------------
(***************************************************************************)
(* The sample conversions of src/spook/encoder-alaw.c: 16-bit linear PCM   *)
(* to and from 8-bit A-law and u-law.  Shifts of negative numbers are      *)
(* arithmetic, as the compilers of the server's targets do them: >> n is   *)
(* \div 2^n and & (2^n - 1) is % 2^n.                                      *)
(***************************************************************************)
EXTENDS Integers, Bitwise

Int16 == -32768..32767
Byte == 0..255

seg_end == <<255, 511, 1023, 2047, 4095, 8191, 16383, 32767>>
BIAS == 132

(* The segment val lies in, counted from 0; 8 when it lies in none. *)
search(val) ==
    IF \A i \in 1..8 : val > seg_end[i] THEN 8
    ELSE CHOOSE i \in 0..7 : /\ val <= seg_end[i + 1]
                             /\ i > 0 => val > seg_end[i]

Sign(byte) == byte \div 128
Seg(byte) == (byte \div 16) % 8
Quant(byte) == byte % 16

-----------------------------------------------------------------------------
(* Slip: the sign bit is set for the negative samples. *)
linear2alaw_signs(pcm) ==
    LET mask == IF pcm >= 0 THEN 85 ELSE 213
        val == IF pcm >= 0 THEN pcm ELSE -pcm - 8
        seg == search(val)
        shift == IF seg < 2 THEN 4 ELSE seg + 3
    IN  IF seg >= 8 THEN 127 ^^ mask
        ELSE (seg * 16 + ((val \div 2^shift) % 16)) ^^ mask

(* Sign and magnitude, the segment of the magnitude and the four bits      *)
(* below its leading one; every other bit inverted.                        *)
linear2alaw(pcm) ==
    LET mask == IF pcm >= 0 THEN 213 ELSE 85      \* 0xD5, 0x55
        val == IF pcm >= 0 THEN pcm ELSE -pcm - 8
        seg == search(val)
        shift == IF seg < 2 THEN 4 ELSE seg + 3
    IN  IF seg >= 8 THEN 127 ^^ mask
        ELSE (seg * 16 + ((val \div 2^shift) % 16)) ^^ mask

alaw2linear(code) ==
    LET a == code ^^ 85
        t == Quant(a) * 16 + (IF Seg(a) = 0 THEN 8 ELSE 264)
        scaled == IF Seg(a) < 2 THEN t ELSE t * 2^(Seg(a) - 1)
    IN  IF Sign(a) = 1 THEN scaled ELSE -scaled

linear2ulaw(pcm) ==
    LET mask == IF pcm < 0 THEN 127 ELSE 255
        val == IF pcm < 0 THEN BIAS - pcm ELSE pcm + BIAS
        seg == search(val)
    IN  IF seg >= 8 THEN 127 ^^ mask
        ELSE (seg * 16 + ((val \div 2^(seg + 3)) % 16)) ^^ mask

ulaw2linear(code) ==
    LET u == 255 - code
        t == (Quant(u) * 8 + BIAS) * 2^Seg(u)
    IN  IF Sign(u) = 1 THEN BIAS - t ELSE t - BIAS

-----------------------------------------------------------------------------
Abs(n) == IF n < 0 THEN -n ELSE n

(* Half the distance of two codes of segment seg. *)
HalfStep(seg) == 2^(IF seg < 2 THEN 3 ELSE seg + 2)

(* What a receiver decodes is at most half a quantization step away from   *)
(* the sample (A-law: a whole step below zero, where the encoder rounds    *)
(* the other way), and what a decoder made of a code gives the code again. *)
(* The exception are the seven samples just below zero: -pcm_val - 8 is    *)
(* then negative, its bits are taken for a magnitude, and silence with a   *)
(* little noise comes out of linear2alaw as -248.                          *)
RoundTrip(pcm) ==
    LET alaw == linear2alaw(pcm)
        a == alaw2linear(alaw)
        ulaw == linear2ulaw(pcm)
        u == ulaw2linear(ulaw)
    IN  /\ alaw \in Byte /\ ulaw \in Byte
        /\ linear2alaw(a) = alaw
        /\ IF pcm \in -7..-1 THEN a = -248
           ELSE Abs(a - pcm) <= (IF pcm < 0 THEN 2 ELSE 1) * HalfStep(search(Abs(a)))
        /\ Abs(u - pcm) <= 2^(search(Abs(pcm) + BIAS) + 2)

=============================================================================
