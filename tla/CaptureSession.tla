--------------------------- MODULE CaptureSession ---------------------------
(***************************************************************************)
(* What a capture learns from the RTSP messages of one TCP connection      *)
(* (crates/capture/src/sdp.rs, struct Session): requests are paired with   *)
(* responses by CSeq, a DESCRIBE body names the tracks, and an answered    *)
(* SETUP maps a track to channels of the connection or to UDP ports.       *)
(*                                                                         *)
(* A message is a record of the fields observe reads; header text, URIs    *)
(* and SDP bodies are the values they stand for: a URI is the control name *)
(* it ends in, and a body is the sequence of its tracks.                   *)
(***************************************************************************)
EXTENDS CaptureStreams, SequencesExt

CONSTANTS
    MaxRequests,  \* 128 requests waiting for an answer
    MaxMappings,  \* 128 UDP mappings of a session
    StringOrder   \* the CSeq values in the order of BTreeMap<String, _>

ASSUME SessionAssumption ==
    MaxRequests \in Nat \ {0} /\ MaxMappings \in Nat

NewSession ==
    [tracks |-> <<>>, requests |-> [q \in {} |-> None],
     channels |-> [x \in {} |-> None], rtcp |-> [x \in {} |-> 0],
     udp |-> <<>>, id |-> None, changed |-> FALSE, connected |-> FALSE,
     authenticated |-> FALSE, media |-> <<>>, transactions |-> <<>>, sdp |-> None]

Put(f, k, v)   == [x \in DOMAIN f \cup {k} |-> IF x = k THEN v ELSE f[x]]
Without(f, k)  == [x \in DOMAIN f \ {k} |-> f[x]]

\* requests.pop_first: the first CSeq in the order of strings, not of numbers.
Oldest(requests) ==
    LET I == {i \in DOMAIN StringOrder : StringOrder[i] \in DOMAIN requests}
    IN  StringOrder[CHOOSE i \in I : \A j \in I : i <= j]

\* read_sdp: the last body is kept; a body without tracks keeps the old ones.
ReadSdp(s, body) ==
    LET kept == [s EXCEPT !.sdp = body]
    IN  IF body = <<>> THEN kept ELSE [kept EXCEPT !.tracks = body, !.media = body]

\* observe for a request.
Requested(s, m) ==
    LET room == IF Cardinality(DOMAIN s.requests) >= MaxRequests
                THEN Without(s.requests, Oldest(s.requests)) ELSE s.requests
        t    == [s EXCEPT !.requests = IF m.cseq = None THEN @
                                       ELSE Put(room, m.cseq, m),
                          !.authenticated = @ \/ m.authorization]
    IN  IF m.method = "ANNOUNCE" THEN ReadSdp(t, m.body) ELSE t

\* Mutant of TrackOf: tracks are set up in the order of the SDP.
TrackOfFirst(s, uri) == IF s.tracks = <<>> THEN None ELSE s.tracks[1]

\* The track a SETUP names, or the only one there is.
TrackOf(s, uri) ==
    LET named == {i \in DOMAIN s.tracks : s.tracks[i].control = uri}
    IN  IF named # {} THEN s.tracks[CHOOSE i \in named : \A j \in named : i <= j]
        ELSE IF Len(s.tracks) = 1 THEN s.tracks[1] ELSE None

\* SETUP answered with an interleaved transport.
OnChannel(s, track, channel) ==
    [s EXCEPT !.channels = Put(@, channel, track.codecs),
              !.changed  = @ \/ (channel \in DOMAIN s.channels
                                 /\ s.channels[channel] # track.codecs),
              !.rtcp     = Put(@, channel + 1, channel)]

\* SETUP answered with ports: the RTCP ports are the ones above.
Map(s, track, m, request) ==
    IF Len(s.udp) >= MaxMappings THEN s
    ELSE [s EXCEPT !.udp = Append(@,
             [source |-> m.server_port, destination |-> request.client_port,
              rtcp_source |-> IF m.server_port = None THEN 0 ELSE m.server_port + 1,
              rtcp_destination |-> request.client_port + 1,
              codecs |-> track.codecs, session |-> s.id, control |-> track.control])]

SetUp(s, m, request) ==
    LET track == TrackOf(s, request.uri)
    IN  IF track = None THEN s
        ELSE IF m.channel # None THEN OnChannel(s, track, m.channel)
        ELSE IF request.client_port # None THEN Map(s, track, m, request)
        ELSE s

\* The request a response answers, if it is still waiting.
Answered(s, m) ==
    IF m.cseq \notin DOMAIN s.requests THEN s
    ELSE LET request == s.requests[m.cseq]
             paired  == [s EXCEPT
                 !.requests = Without(@, m.cseq),
                 !.transactions = Append(@,
                     [method |-> request.method, uri |-> request.uri,
                      cseq |-> m.cseq, status |-> m.status])]
         IN  IF m.status = 200 /\ request.method = "SETUP"
             THEN SetUp(paired, m, request) ELSE paired

\* observe for a response.
Responded(s, m) ==
    LET known == [s EXCEPT !.connected = TRUE]
        told  == IF m.status = 200 /\ m.body # None THEN ReadSdp(known, m.body)
                 ELSE known
    IN  Answered([told EXCEPT !.id = IF m.status < 300 /\ m.session # None
                                     THEN m.session ELSE @], m)

observe(s, m) == IF m.kind = "request" THEN Requested(s, m) ELSE Responded(s, m)

\* finish_pending_transactions: what was never answered has status 0.
FinishPending(s) ==
    LET Unanswered(q) == [method |-> s.requests[q].method, uri |-> s.requests[q].uri,
                          cseq |-> q, status |-> 0]
        all == s.transactions
               \o SetToSeq({Unanswered(q) : q \in DOMAIN s.requests})
    IN  [s EXCEPT !.requests = [q \in {} |-> None],
                  !.transactions = SortSeq(all, LAMBDA a, b : a.cseq < b.cseq)]

CodecIn(codecs, pt) == IF pt \in DOMAIN codecs THEN codecs[pt] ELSE None

\* codec: the channel's own mapping, else the one that all tracks with this
\* payload type agree on.
CodecOf(s, channel, pt) ==
    LET codecs == {CodecIn(s.tracks[i].codecs, pt) : i \in DOMAIN s.tracks} \ {None}
    IN  IF channel \in DOMAIN s.channels THEN CodecIn(s.channels[channel], pt)
        ELSE IF Cardinality(codecs) = 1 THEN CHOOSE c \in codecs : TRUE
        ELSE None

\* Whether the session is worth keeping.
Speaks(s) == s.connected \/ s.transactions # <<>> \/ s.media # <<>>
=============================================================================
