----------------------------- MODULE CaptureTcp -----------------------------
(***************************************************************************)
(* The TCP half of Capture::frame (crates/capture/src/lib.rs): the table   *)
(* of connections, their RTSP sessions and interleaved media, and the end  *)
(* of the analysis.  Every data segment is read twice, by a loose decoder  *)
(* that takes RTSP messages from each segment as it is captured, and by    *)
(* the strict one behind the reassembly.                                   *)
(*                                                                         *)
(* A segment is its position in its direction and carries one message, so  *)
(* the decoders hold nothing back; TcpDirection puts the segments in order.*)
(***************************************************************************)
EXTENDS CaptureSession

INSTANCE TcpDirection

CONSTANTS
    Keys,          \* the ConnectionKeys: two endpoints and an interface
    Script,        \* Script[k][n][d]: messages of the n-th connection of k,
                   \* each with the number of segments of the peer it needs
    Begun,         \* the sets of keys connected before the capture began
    MaxConnections,\* MAX_TCP_CONNECTIONS, 256
    MaxTrouble     \* bound: segments captured late, never or twice

\* Media messages are marked with the connection they are sent on.
ASSUME ScriptAssumption ==
    /\ IsFiniteSet(Keys) /\ None \notin Nat
    /\ \A k \in Keys :
          /\ Len(Script[k]) \in Nat /\ DOMAIN Script[k] = 1..Len(Script[k])
          /\ \A n \in DOMAIN Script[k] : \A d \in {"client", "server"} :
                LET ms == Script[k][n][d]
                IN  /\ Len(ms) \in Nat /\ DOMAIN ms = 1..Len(ms)
                    /\ \A p \in DOMAIN ms :
                          /\ ms[p].kind \in {"request", "response", "report", "rtp"}
                          /\ ms[p].kind = "rtp" => "instance" \in DOMAIN ms[p]
                                                    /\ ms[p].instance = n
    /\ \A begun \in Begun : \A k \in begun : k \in Keys /\ 1 \in DOMAIN Script[k]

Client     == "client"
Server     == "server"
Directions == {Client, Server}
Peer(d)    == IF d = Client THEN Server ELSE Client

VARIABLES
    capture,     \* struct Capture
    net,         \* per key: the connection in progress and what was captured
    trouble,     \* segments captured late, never or twice
    heard,       \* history: the requests captured, and the responses captured
                 \* after their request
    evicted,     \* history: closed connections dropped to make room
    result       \* CaptureAnalysis, None while frames are read

tcp_vars == <<capture, net, trouble, heard, evicted, result>>

-----------------------------------------------------------------------------
\* instance says which of the connections of its key this is.
NewConnection(id, n) ==
    [id |-> id, instance |-> n, syn |-> None, closed |-> FALSE, observed_payload |-> FALSE,
     directions |-> [d \in Directions |-> NewReassembly], session |-> NewSession]

IsRtsp(m) == m.kind \in {"request", "response"}

\* The session as a message left it: the UDP mappings it made go to the table
\* that frame reads.
Observed(c, k, after) ==
    LET before == c.connections[k].session
        fresh  == SubSeq(after.udp, Len(before.udp) + 1, Len(after.udp))
        d      == [c EXCEPT !.connections[k].session = after]
        mapped == IF Len(c.bindings) + Len(fresh) <= MaxStreams
                  THEN [d EXCEPT !.bindings = @ \o fresh]
                  ELSE Warn(d, "binding_limit")
    IN  IF after.changed THEN Warn(mapped, "codec_changed") ELSE mapped

\* message for an RTSP message.
RtspMessage(c, k, m) == Observed(c, k, observe(c.connections[k].session, m))

FlowKey(k, conn, d, channel, m) ==
    [path |-> k, source |-> d, destination |-> Peer(d), tcp |-> conn.id,
     channel |-> channel, ssrc |-> m.ssrc]

\* RTCP is attributed to the RTP channel it was negotiated with.
ChannelOf(session, m) ==
    IF m.kind = "report" /\ m.channel \in DOMAIN session.rtcp
    THEN session.rtcp[m.channel] ELSE m.channel

\* message for an interleaved one.
MediaMessage(c, k, d, m) ==
    LET conn == c.connections[k]
        key  == FlowKey(k, conn, d, ChannelOf(conn.session, m), m)
    IN  IF m.kind = "report" THEN Report(c, key, m)
        ELSE Media(c, key, m, CodecOf(conn.session, m.channel, m.pt),
                   conn.session.id)

Message(c, k, d, m) ==
    IF IsRtsp(m) THEN RtspMessage(c, k, m) ELSE MediaMessage(c, k, d, m)

\* The strict decoder: the segments the reassembly gave out, in order.
Decoded(c, k, d, segments) ==
    LET read[i \in 0..Len(segments)] ==
            IF i = 0 THEN c ELSE Message(read[i - 1], k, d, segments[i])
    IN  read[Len(segments)]

\* Holes of a direction are marked on every stage it fed.
Marked(c, k, d) ==
    LET conn == c.connections[k]
        Fed(i) == c.states[i].key.tcp = conn.id /\ c.states[i].key.source = d
    IN  IF conn.directions[d].gaps = 0 THEN c
        ELSE [Warn(c, "tcp_gap") EXCEPT
                 !.states = [i \in DOMAIN @ |->
                     IF Fed(i) THEN [@[i] EXCEPT !.truncated = TRUE] ELSE @[i]]]

\* The messages of the segments at positions out.
Segments(k, n, d, out) == [i \in DOMAIN out |-> Script[k][n][d][out[i]]]

FinishOne(c, k, d) ==
    LET conn == c.connections[k]
        f    == FinishDirection(conn.directions[d])
    IN  Marked(Decoded([c EXCEPT !.connections[k].directions[d] = f.dir], k, d,
                       Segments(k, conn.instance, d, f.out)), k, d)

finish_connection(c, k) == FinishOne(FinishOne(c, k, Client), k, Server)

archive_session(c, k) ==
    LET s == FinishPending(c.connections[k].session)
    IN  IF Speaks(s) THEN [c EXCEPT !.completed = Append(@, s)] ELSE c

\* A connection is over: what it still holds is read, its session is kept.
Ended(c, k) == archive_session(finish_connection(c, k), k)

\* The connection of a frame: connections closed long ago make room when the
\* table is full, their sessions with them.
Evict(c) ==
    IF Cardinality(DOMAIN c.connections) < MaxConnections THEN c
    ELSE [c EXCEPT !.connections =
              [k \in {x \in DOMAIN @ : ~@[x].closed} |-> @[k]]]

TableFull(c, k) ==
    k \notin DOMAIN c.connections /\ Cardinality(DOMAIN c.connections) >= MaxConnections

\* Mutant of Opening: the number of the connection is used again.
OpeningAgain(c, k, n) ==
    [c EXCEPT !.connections = Put(@, k, NewConnection(c.next_connection + 1, n))]

Opening(c, k, n) ==
    [c EXCEPT !.next_connection = @ + 1,
              !.connections = Put(@, k, NewConnection(c.next_connection + 1, n))]

\* Mutant of IsNewConnection: a SYN begins a connection whenever one is known.
IsNewConnectionAlways(conn, isn) == conn.syn # None \/ conn.closed

\* A SYN that cannot be a repetition of the one the connection began with.
IsNewConnection(conn, isn) ==
    \/ conn.closed
    \/ (conn.observed_payload \/ conn.syn # None) /\ conn.syn # isn

\* frame up to the SYN: the connection that the segment belongs to.
Admitted(c, k, n) == IF k \in DOMAIN c.connections THEN c ELSE Opening(c, k, n)

\* A SYN without ACK: the connection before it on these endpoints has ended.
Begin(c, k, n) ==
    [IF IsNewConnection(c.connections[k], n)
     THEN Opening(Ended(c, k), k, n) ELSE c
        EXCEPT !.connections[k].syn = n]

\* A SYN of either direction anchors the reassembly.
SynFrame(c, k, n, d) ==
    [IF d = Client THEN Begin(Admitted(c, k, n), k, n) ELSE Admitted(c, k, n)
        EXCEPT !.connections[k].directions[d].next = IF @ = None THEN 1 ELSE @]

\* The strict decoder's turn with a data segment.
Pushed(c, k, n, d, p, guess, skip) ==
    LET pushed == PushSegment(c.connections[k].directions[d], p, guess, skip)
    IN  Decoded([c EXCEPT !.connections[k].directions[d] = pushed.dir],
                k, d, Segments(k, n, d, pushed.out))

\* A data segment: the loose decoder reads it first, then the strict one.
DataFrame(c, k, n, d, p, guess, skip) ==
    LET m    == Script[k][n][d][p]
        open == [Admitted(c, k, n) EXCEPT !.connections[k].observed_payload = TRUE]
    IN  Pushed(IF IsRtsp(m) THEN RtspMessage(open, k, m) ELSE open,
               k, n, d, p, guess, skip)

\* FIN or RST.
FinFrame(c, k, n) ==
    finish_connection([Admitted(c, k, n) EXCEPT !.connections[k].closed = TRUE], k)

\* The capture that frame reads a segment into.
Roomy == Evict(capture)

\* frame: nothing is read of a connection that finds no room.
Frame(handled, k) ==
    /\ result = None
    /\ capture' = IF TableFull(Roomy, k) THEN Warn(Roomy, "connection_limit") ELSE handled
    /\ evicted' = (evicted \/ DOMAIN Roomy.connections # DOMAIN capture.connections)
    /\ UNCHANGED result

-----------------------------------------------------------------------------
\* The hosts and the capture point: a connection of a key follows another, the
\* segments of a direction are captured as they are sent, late or never, and
\* the peer answers what was sent whether or not it was captured.
NewNet(n) == [instance |-> n, open |-> n = 1, opened |-> FALSE, front |-> [d \in Directions |-> 0],
              missed |-> [d \in Directions |-> {}]]

InitTcp ==
    /\ capture = [states |-> <<>>, routes |-> [k \in {} |-> 0], bindings |-> <<>>,
                  sample |-> 0, warnings |-> {}, connections |-> [k \in {} |-> None],
                  completed |-> <<>>, next_connection |-> 0]
    /\ \E begun \in Begun : net = [k \in Keys |-> NewNet(IF k \in begun THEN 1 ELSE 0)]
    /\ trouble = 0 /\ heard = {} /\ evicted = FALSE /\ result = None

\* A connection is opened; its SYN is captured, and the answer to it perhaps.
\* The capture may also have begun in the middle of the first one (NewNet(1)).
Open(k, answered) ==
    LET n == net[k].instance + 1
    IN  /\ ~net[k].open /\ n <= Len(Script[k])
        /\ net' = [net EXCEPT ![k] = [NewNet(n) EXCEPT !.open = TRUE,
                                                         !.opened = TRUE]]
        /\ LET begun == SynFrame(Roomy, k, n, Client)
           IN  Frame(IF answered THEN SynFrame(begun, k, n, Server) ELSE begun, k)
        /\ UNCHANGED <<trouble, heard>>

\* The SYN of the connection is captured again, perhaps behind its data.
RepeatSyn(k) ==
    /\ net[k].open /\ net[k].opened /\ trouble < MaxTrouble
    /\ trouble' = trouble + 1
    /\ Frame(SynFrame(Roomy, k, net[k].instance, Client), k)
    /\ UNCHANGED <<net, heard>>

Anchored(k, d) ==
    /\ k \in DOMAIN capture.connections
    /\ capture.connections[k].directions[d].next # None

Segment(k, d, p, guess, skip) ==
    LET n == net[k].instance
        m == Script[k][n][d][p]
    IN  /\ guess => ~Anchored(k, d)
        /\ Frame(DataFrame(Roomy, k, n, d, p, guess, skip), k)
        /\ heard' = IF \/ TableFull(Evict(capture), k)
                       \/ m.kind = "response" /\ <<k, n, "request", m.cseq>> \notin heard
                       \/ ~IsRtsp(m)
                    THEN heard ELSE heard \cup {<<k, n, m.kind, m.cseq>>}

Sendable(k, d) ==
    LET p == net[k].front[d] + 1
    IN  /\ net[k].open /\ p <= Len(Script[k][net[k].instance][d])
        /\ net[k].front[Peer(d)] >= Script[k][net[k].instance][d][p].needs

Transmit(k, d, guess, skip) ==
    LET p == net[k].front[d] + 1
    IN  /\ Sendable(k, d)
        /\ net' = [net EXCEPT ![k].front[d] = p]
        /\ Segment(k, d, p, guess, skip)
        /\ UNCHANGED trouble

Miss(k, d) ==
    LET p == net[k].front[d] + 1
    IN  /\ result = None /\ Sendable(k, d)
        /\ trouble < MaxTrouble
        /\ trouble' = trouble + 1
        /\ net' = [net EXCEPT ![k].front[d] = p, ![k].missed[d] = @ \cup {p}]
        /\ UNCHANGED <<capture, heard, evicted, result>>

Late(k, d, p, guess, skip) ==
    /\ net[k].open /\ p \in net[k].missed[d]
    /\ net' = [net EXCEPT ![k].missed[d] = @ \ {p}]
    /\ Segment(k, d, p, guess, skip)
    /\ UNCHANGED trouble

RepeatSegment(k, d, p, guess, skip) ==
    /\ net[k].open /\ trouble < MaxTrouble
    /\ p \in (1..net[k].front[d]) \ net[k].missed[d]
    /\ trouble' = trouble + 1
    /\ Segment(k, d, p, guess, skip)
    /\ UNCHANGED net

\* The connection ends, and its FIN is captured or not.
Close(k) ==
    /\ net[k].open
    /\ net' = [net EXCEPT ![k].open = FALSE]
    /\ \/ Frame(FinFrame(Roomy, k, net[k].instance), k)
       \/ result = None /\ UNCHANGED <<capture, evicted, result>>
    /\ UNCHANGED <<trouble, heard>>

-----------------------------------------------------------------------------
\* matching_session_protocol: the session of the stream's own id, else the
\* only one there is.
SessionOf(s, sessions) ==
    LET own == {i \in DOMAIN sessions : s.session # None /\ sessions[i].id = s.session}
    IN  IF own # {} THEN sessions[Lowest(own)]
        ELSE IF Len(sessions) = 1 THEN sessions[1] ELSE None

Archived(c) ==
    LET keys == SetToSeq(DOMAIN c.connections)
        done[i \in 0..Len(keys)] ==
            IF i = 0 THEN c ELSE Ended(done[i - 1], keys[i])
    IN  done[Len(keys)]

\* The end of the file: the connections still in the table are finished, in
\* the order of the HashMap.
EndOfFile ==
    /\ result = None
    /\ capture' = Archived(capture)
    /\ result' = [sessions |-> capture'.completed,
                  of |-> [i \in DOMAIN capture'.states |->
                             SessionOf(capture'.states[i], capture'.completed)]]
    /\ UNCHANGED <<net, trouble, heard, evicted>>

NextTcp ==
    \/ \E k \in Keys :
         \/ \E answered \in BOOLEAN : Open(k, answered)
         \/ RepeatSyn(k) \/ Close(k)
         \/ \E d \in Directions :
              \/ Miss(k, d)
              \/ \E guess, skip \in BOOLEAN :
                   \/ Transmit(k, d, guess, skip)
                   \/ \E p \in 1..net[k].front[d] :
                        Late(k, d, p, guess, skip) \/ RepeatSegment(k, d, p, guess, skip)
    \/ EndOfFile

SpecTcp == InitTcp /\ [][NextTcp]_tcp_vars

-----------------------------------------------------------------------------
\* However the capture missed, delayed or repeated segments, and however often
\* the same two endpoints connect, a stage keeps the media of one connection.
ConnectionsDoNotMix ==
    \A i \in DOMAIN capture.states :
        LET spool == capture.states[i].spool
        IN  \A a, b \in DOMAIN spool : spool[a].instance = spool[b].instance

\* Evidence with a hole says so: where the capture lacks a media message
\* between two that a stage kept, the stage ends as truncated, also when the
\* hole was given up long before or only as the file ended.
HolesReachTheStages ==
    result # None =>
        \A i \in DOMAIN capture.states :
            LET s == capture.states[i]
                kept == {s.spool[a].n : a \in DOMAIN s.spool}
            IN  ~s.truncated =>
                    \A x, y \in kept : \A z \in x..y : z \in kept

MessageOf(k, n, d, cseq) ==
    LET ms == Script[k][n][d]
    IN  ms[CHOOSE p \in DOMAIN ms : IsRtsp(ms[p]) /\ ms[p].cseq = cseq]

\* Every exchange of which the capture holds the request and then the response
\* is in the result, under the session the response named, whatever became of
\* the other segments of the connection; connections evicted from the table
\* are the exception.
ExchangesAreReported ==
    result # None /\ ~evicted =>
        \A q \in heard : q[3] = "response" =>
            LET asked    == MessageOf(q[1], q[2], Client, q[4])
                answered == MessageOf(q[1], q[2], Server, q[4])
            IN  \E i \in DOMAIN result.sessions :
                    /\ result.sessions[i].id = answered.session
                    /\ [method |-> asked.method, uri |-> asked.uri,
                        cseq |-> q[4], status |-> answered.status]
                           \in Range(result.sessions[i].transactions)

\* Media is never given the codec of another track: a stage has the codec its
\* channel was set up for, or none when the capture does not hold the answers.
MediaIsNamedRight ==
    \A i \in DOMAIN capture.states :
        \A a \in DOMAIN capture.states[i].spool :
            capture.states[i].codec \in {None, capture.states[i].spool[a].codec}
=============================================================================
