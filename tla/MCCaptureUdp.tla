---------------------------- MODULE MCCaptureUdp ----------------------------
\* CaptureUdp on two flows with the same SSRC between the same hosts.  The
\* first starts twice, once across the wrap of the sequence numbers and once
\* in the middle of the sequence space.
EXTENDS CaptureUdp

Port(p, ssrc) == [path |-> "lan", source |-> p, destination |-> p + 10,
                  tcp |-> None, channel |-> None, ssrc |-> ssrc]

Camera  == Port(10, 1)
Doorway == Port(12, 1)

MCFlows == {Camera, Doorway}
MCBases == Camera :> <<30, 14>> @@ Doorway :> <<7>>

\* Two slices of a frame in fragments, then two small units in one packet.
Fragment(start, end) ==
    [kind |-> "fragment", start |-> start, end |-> end, nals |-> <<"slice">>,
     fitting |-> 1, frame |-> 1]
MCPayloads ==
    <<Fragment(TRUE, FALSE), Fragment(FALSE, TRUE), Fragment(TRUE, FALSE),
      Fragment(FALSE, TRUE), [Fragment(TRUE, TRUE) EXCEPT !.kind = "aggregate",
                                  !.nals = <<"slice", "slice">>, !.fitting = 2]>>

\* The second offer negotiates RTCP where the doorway sends its media.
MCOffers ==
    {[path |-> "lan", source |-> 10, destination |-> 20, codecs |-> 96 :> "h264",
      rtcp_source |-> 11, rtcp_destination |-> 21, session |-> "s1"],
     [path |-> "lan", source |-> None, destination |-> 20, codecs |-> 96 :> "h265",
      rtcp_source |-> 12, rtcp_destination |-> 22, session |-> "s2"]}
=============================================================================
