---------------------------- MODULE MCCaptureTcp ----------------------------
\* CaptureTcp on two pairs of endpoints, the first of which connects twice.
EXTENDS CaptureTcp

\* Both tracks use the first dynamic payload type.
Video == [control |-> "video", codecs |-> 96 :> "h264"]
Audio == [control |-> "audio", codecs |-> 96 :> "aac"]

Request(cseq, method, uri, port, needs) ==
    [kind |-> "request", cseq |-> cseq, method |-> method, uri |-> uri,
     client_port |-> port, authorization |-> FALSE, body |-> None, needs |-> needs]

Response(cseq, session, body, channel, needs) ==
    [kind |-> "response", cseq |-> cseq, status |-> 200, session |-> session,
     body |-> body, channel |-> channel, server_port |-> None, needs |-> needs]

Rtp(instance, n, channel, needs) ==
    [kind |-> "rtp", instance |-> instance, n |-> n, seq |-> 5 + n, extended |-> 0,
     size |-> 1, pt |-> 96, codec |-> "aac", channel |-> channel, ssrc |-> 1,
     needs |-> needs]

Rtcp(instance, channel, needs) ==
    [kind |-> "report", instance |-> instance, n |-> 0, pt |-> 200,
     channel |-> channel, ssrc |-> 1, needs |-> needs]

MCStringOrder == <<1, 2>>
MCBegun == {{}, {"a"}}
MCKeys == {"a", "b"}

MCScript ==
    [a |-> << [client |-> <<Request(1, "DESCRIBE", "*", None, 0),
                            Request(2, "SETUP", "audio", None, 1)>>,
               server |-> <<Response(1, "a1", <<Video, Audio>>, None, 1),
                            Response(2, "a1", None, 2, 2),
                            Rtp(1, 1, 2, 2), Rtp(1, 2, 2, 2), Rtp(1, 3, 2, 2),
                            Rtcp(1, 3, 2)>>],
              [client |-> <<Request(1, "PLAY", "audio", None, 0)>>,
               server |-> <<Response(1, "a2", None, None, 1), Rtp(2, 1, 2, 1)>>] >>,
     b |-> << [client |-> <<Request(1, "SETUP", "video", 8, 0)>>,
               server |-> <<>>] >>]
=============================================================================
