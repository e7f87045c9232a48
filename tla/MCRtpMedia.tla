----------------------------- MODULE MCRtpMedia -----------------------------
(* An RTP endpoint carries a video track or an audio track: one behaviour   *)
(* is of H264Packets or of AudioPath.  The third kind goes through the      *)
(* samples of the A-law encoder, one state for each.                        *)
EXTENDS H264Packets, AudioPath

VARIABLES track, amp

\* What an encoder may put behind the first byte of a unit.
Payload(n) == {s \in UNION {[1..k -> {0, 1, 3}] : k \in 1..n} :
                 /\ s[Len(s)] # 0
                 /\ \A i \in 1..(Len(s) - 2) : s[i] = 0 /\ s[i + 1] = 0 => s[i + 2] = 3}

\* Frames of a slice alone (first byte 0x41) or of parameter sets, SEI and an
\* intra slice (0x67, 0x68, 0x06, 0x65).  The longest slices have zeros on
\* both sides of the border between two fragments.
MCFrames ==
    {<< <<65>> \o s >> : s \in {p \in Payload(5) : Len(p) = 5 => p[2] = 0 /\ p[3] = 0}} \cup
    {<< <<103>> \o p, <<104, 3>>, <<6, 0, 3>>, <<101>> \o s >> :
        p \in Payload(2), s \in {<<1>>, <<0, 0, 3, 1>>}}

\* A sample left out now and then, none, or every one put in twice.
MCRates == {-2, 0, 1}

Codec == INSTANCE G711

MediaInit ==
    \/ track = "video" /\ amp = 0 /\ Init /\ AudioInit /\ max_data_size = Min(MaxData)
    \/ track = "audio" /\ amp = 0 /\ Init /\ seqnum = 0 /\ AudioInit
    \/ /\ track = "codec" /\ amp \in Codec!Int16
       /\ Init /\ seqnum = 0 /\ AudioInit /\ max_data_size = Min(MaxData)

VideoStep == track = "video" /\ Next /\ UNCHANGED <<audioVars, track, amp>>
AudioStep == track = "audio" /\ AudioNext /\ UNCHANGED <<vars, track, amp>>

MediaSpec == MediaInit /\ [][VideoStep \/ AudioStep]_<<vars, audioVars, track, amp>>

(* For every 16-bit sample, what g711a_encode and g711u_encode make of it   *)
(* decodes to a value within the precision of its segment; the seven        *)
(* samples just below zero are the exception RoundTrip describes.           *)
SamplesSurvive == track = "codec" => Codec!RoundTrip(amp)

=============================================================================
