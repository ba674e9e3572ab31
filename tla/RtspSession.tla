---------------------------- MODULE RtspSession -----------------------------
(***************************************************************************)
(* The RTSP client of crates/rtsp/src/client.rs over an interleaved TCP    *)
(* connection: OPTIONS, DESCRIBE, one SETUP per media track, PLAY, a       *)
(* sample of the media, TEARDOWN (analyze_rtsp_capture_with_progress).     *)
(* Answers and media frames share one byte stream.                         *)
(*                                                                         *)
(* The server and the network are the environment: the server answers      *)
(* requests in order, when it likes or never, may demand authentication,   *)
(* refuse a track, leave out the Session or Transport header, choose its   *)
(* own channels, start the media before the answer to PLAY, or close.      *)
(* `wire` is what has reached the client's socket.  The unit of the stream *)
(* is one whole answer or frame; a part of one is as good as none, since   *)
(* both readers wait for the rest.                                         *)
(***************************************************************************)
EXTENDS Integers, Sequences

CONSTANTS
    Tracks,       \* number of media tracks in the SDP
    Channels,     \* RTP channels a server may choose (RTCP is the next one)
    MaxFrames,    \* bound on the frames the server sends
    MaxWire,      \* bound on the items waiting in the client's socket
    MaxPending,   \* bound on pending_frames kept (it has none in the code)
    Endless       \* TRUE: frames are not counted, the media never ends

ASSUME SessionAssumption ==
    /\ Tracks \in Nat \ {0}
    /\ \A c \in Channels : c \in Nat /\ c % 2 = 0
    /\ {MaxFrames, MaxWire, MaxPending} \subseteq Nat
    /\ Endless \in BOOLEAN

None == -1        \* no session, channel or outstanding request

Position == 1..Tracks

Methods == {"OPTIONS", "DESCRIBE", "SETUP", "PLAY", "TEARDOWN"}

VARIABLES
    phase,      \* the method being asked, "receive", "done" or "failed"
    position,   \* track whose SETUP is next
    cseq,       \* number of the next request
    asked,      \* number of the request whose answer is awaited
    retried,    \* TRUE: this request answers a 401
    session,    \* session_id
    runtimes,   \* the tracks set up: their rtp_channel
    errors,     \* tracks whose SETUP failed; 0 stands for TEARDOWN
    buffer, pending,   \* Connection::buffer and pending_frames
    taken,      \* answers used: the number asked and the number answered
    observed,   \* frames handed over: the frame and the track that got it
    late        \* TRUE once a read has timed out

client == <<phase, position, cseq, asked, retried, session, runtimes, errors,
            buffer, pending, taken, observed, late>>

VARIABLES
    login,      \* "open", or the server wants a password that is good or not
    inbox,      \* requests the server has not answered
    wire,       \* items sent and not yet read
    route,      \* channel the server sends each track on
    member,     \* session the server has each track in
    playing,    \* sessions being played
    sent,       \* the frames sent so far
    closed      \* the server has closed the connection

server == <<login, inbox, route, member, playing, sent, closed>>

vars == <<client, server, wire>>

Init ==
    /\ phase = "OPTIONS" /\ position = 1 /\ cseq = 1 /\ asked = None
    /\ retried = FALSE /\ session = None
    /\ runtimes = [t \in Position |-> None] /\ errors = {}
    /\ buffer = <<>> /\ pending = <<>>
    /\ taken = <<>> /\ observed = <<>> /\ late = FALSE
    /\ login \in {"open", "good", "bad"}
    /\ inbox = <<>> /\ wire = <<>> /\ sent = <<>>
    /\ route = [t \in Position |-> None] /\ member = [t \in Position |-> None]
    /\ playing = {} /\ closed = FALSE

-----------------------------------------------------------------------------
(* What is in a stretch of the stream.                                      *)

IsFrame(item) == item.kind # "answer"

\* How many frames the stream begins with.
Lead(items) ==
    CHOOSE n \in 0..Len(items) :
        /\ \A i \in 1..n : IsFrame(items[i])
        /\ n = Len(items) \/ ~IsFrame(items[n + 1])

HasAnswer(items) == Lead(items) < Len(items)

AfterAnswer(items) == SubSeq(items, Lead(items) + 2, Len(items))

\* Mutant of Queued: frames found while an answer is awaited are dropped.
QueuedNever(items) == pending

Queued(items) ==
    LET queue == pending \o SubSeq(items, 1, Lead(items))
    IN  IF Len(queue) <= MaxPending THEN queue ELSE SubSeq(queue, 1, MaxPending)

-----------------------------------------------------------------------------
(* Requests and their answers.                                              *)

requested == 2 * (position - 1)     \* requested_rtp_channel

SessionHeader == session

\* send_once.  (Writing to a closed connection may also fail: Disconnected.)
send_once ==
    /\ phase \in Methods /\ asked = None
    /\ cseq' = cseq + 1 /\ asked' = cseq
    /\ inbox' = Append(inbox,
                    [cseq |-> cseq, method |-> phase, track |-> position, auth |-> retried,
                     session |-> SessionHeader, channel |-> requested])
    /\ UNCHANGED <<phase, position, retried, session, runtimes, errors, buffer, pending, taken,
                   observed, late, login, route, member, playing, sent, closed, wire>>

\* To the next track; PLAY if any was set up.
NextTrack ==
    IF position < Tracks
    THEN phase' = "SETUP" /\ position' = position + 1
    ELSE /\ phase' = IF \E t \in Position : runtimes'[t] # None THEN "PLAY" ELSE "failed"
         /\ UNCHANGED position

\* A request that ends in an error: only SETUP and TEARDOWN survive it.
Fail ==
    /\ asked' = None /\ retried' = FALSE
    /\ UNCHANGED <<runtimes, session>>
    /\ CASE phase = "SETUP" -> errors' = errors \cup {position} /\ NextTrack
         [] phase = "TEARDOWN" -> errors' = errors \cup {0} /\ phase' = "done" /\ UNCHANGED position
         [] OTHER -> phase' = "failed" /\ UNCHANGED <<errors, position>>

\* Mutant of Enrol: the channel the server chose is not looked at.
EnrolRequested(r) ==
    /\ session' = IF session = None THEN r.session ELSE session
    /\ IF session' = None
       THEN errors' = errors \cup {position} /\ UNCHANGED runtimes
       ELSE runtimes' = [runtimes EXCEPT ![position] = requested] /\ UNCHANGED errors

\* A successful SETUP; without a Session header anywhere the track is left out.
Enrol(r) ==
    /\ session' = IF session = None THEN r.session ELSE session
    /\ IF session' = None
       THEN errors' = errors \cup {position} /\ UNCHANGED runtimes
       ELSE /\ runtimes' = [runtimes EXCEPT ![position] =
                                IF r.channel = None THEN requested ELSE r.channel]
            /\ UNCHANGED errors

\* A 2xx answer, and any answer to TEARDOWN: nobody looks at its status.
Succeed(r) ==
    /\ asked' = None /\ retried' = FALSE
    /\ CASE phase = "SETUP" -> Enrol(r) /\ NextTrack
         [] phase = "OPTIONS" -> phase' = "DESCRIBE" /\ UNCHANGED <<position, session, runtimes, errors>>
         [] phase = "DESCRIBE" -> phase' = "SETUP" /\ UNCHANGED <<position, session, runtimes, errors>>
         [] phase = "PLAY" -> phase' = "receive" /\ UNCHANGED <<position, session, runtimes, errors>>
         [] phase = "TEARDOWN" -> phase' = "done" /\ UNCHANGED <<position, session, runtimes, errors>>

\* A 401: the request is sent again with the password, once.
Challenge ==
    /\ asked' = None /\ retried' = TRUE
    /\ UNCHANGED <<phase, position, session, runtimes, errors>>

Answered(r) ==
    /\ taken' = Append(taken, [asked |-> asked, answered |-> r.cseq])
    /\ CASE r.status = "unauthorized" /\ ~retried -> Challenge
         [] r.status = "unauthorized" /\ retried  -> Fail
         [] r.status = "refused" /\ phase # "TEARDOWN" -> Fail
         [] OTHER -> Succeed(r)

\* One turn of read_response: k items are read (none if the buffer already
\* holds an answer), frames are queued, an answer ends the request.
read_response(k) ==
    LET items == buffer \o SubSeq(wire, 1, k)
    IN  /\ asked # None
        /\ k = 0 <=> HasAnswer(buffer)
        /\ wire' = SubSeq(wire, k + 1, Len(wire))
        /\ pending' = Queued(items)
        /\ IF HasAnswer(items)
           THEN buffer' = AfterAnswer(items) /\ Answered(items[Lead(items) + 1])
           ELSE /\ buffer' = <<>>
                /\ UNCHANGED <<phase, position, asked, retried, session, runtimes, errors, taken>>
        /\ UNCHANGED <<cseq, observed, late, server>>

Waiting == asked # None /\ wire = <<>> /\ ~HasAnswer(buffer)

\* Mutant of TimeOut: no read timeout is set on the socket.
TimeOutNever == FALSE /\ UNCHANGED vars

\* Nothing has come for the length of the read timeout; the request is given
\* up but its answer may still be on its way.
TimeOut ==
    /\ Waiting /\ ~closed
    /\ Fail /\ late' = TRUE
    /\ UNCHANGED <<cseq, buffer, pending, taken, observed, server, wire>>

\* The connection has ended: read returns 0, or the write already failed.
Disconnected ==
    /\ closed /\ (Waiting \/ (phase \in Methods /\ asked = None))
    /\ Fail
    /\ UNCHANGED <<cseq, buffer, pending, taken, observed, late, server, wire>>

-----------------------------------------------------------------------------
(* The sample.                                                              *)

\* observe_interleaved_track: the first track with that channel, or nobody.
Receiver(channel) ==
    LET claims(offset) == {t \in Position : runtimes[t] # None /\ runtimes[t] + offset = channel}
        first(set) == CHOOSE t \in set : \A u \in set : t <= u
    IN  IF claims(0) # {} THEN [track |-> first(claims(0)), kind |-> "rtp"]
        ELSE IF claims(1) # {} THEN [track |-> first(claims(1)), kind |-> "rtcp"]
        ELSE [track |-> None, kind |-> "none"]

\* The history of what was handed over; it is not kept of endless media.
Handed(frames) ==
    IF Endless THEN <<>>
    ELSE [i \in 1..Len(frames) |-> [frame |-> frames[i], to |-> Receiver(frames[i].channel)]]

\* next_interleaved_frame until it returns None: the queue first, then the
\* buffer as far as it begins with frames.
Drained ==
    /\ observed' = observed \o Handed(pending \o SubSeq(buffer, 1, Lead(buffer)))
    /\ pending' = <<>>
    /\ buffer' = SubSeq(buffer, Lead(buffer) + 1, Len(buffer))

\* A turn of receive_interleaved_tracks that reads more, ...
Receive(k) ==
    /\ phase = "receive" /\ k > 0
    /\ observed' = observed \o Handed(pending \o SubSeq(buffer, 1, Lead(buffer)))
    /\ pending' = <<>>
    /\ buffer' = SubSeq(buffer, Lead(buffer) + 1, Len(buffer)) \o SubSeq(wire, 1, k)
    /\ wire' = SubSeq(wire, k + 1, Len(wire))
    /\ UNCHANGED <<phase, position, cseq, asked, retried, session, runtimes, errors, taken, late, server>>

\* ... the end of the loop, at the deadline or the end of the connection, ...
EndReceive ==
    /\ phase = "receive" /\ phase' = "TEARDOWN"
    /\ Drained
    /\ UNCHANGED <<position, cseq, asked, retried, session, runtimes, errors, taken, late, server, wire>>

\* ... and a cancellation, which returns without TEARDOWN.
Cancel ==
    /\ phase = "receive" /\ phase' = "failed"
    /\ UNCHANGED <<position, cseq, asked, retried, session, runtimes, errors, buffer, pending,
                   taken, observed, late, server, wire>>

-----------------------------------------------------------------------------
(* The server.                                                              *)

Reply(request, status, s, channel) ==
    /\ Len(wire) < MaxWire
    /\ inbox' = Tail(inbox)
    /\ wire' = Append(wire, [kind |-> "answer", cseq |-> request.cseq, status |-> status,
                             session |-> s, channel |-> channel])

Unauthorized(request) == login # "open" /\ ~(request.auth /\ login = "good")

\* SETUP: a session of its own unless the request names one, and any channel
\* that no other track uses.  The Session header may be left out, and so may
\* Transport if the channel is the requested one.
Accept(request) ==
    LET t == request.track
        s == IF request.session = None THEN request.cseq ELSE request.session
    IN  /\ request.method = "SETUP" /\ ~Unauthorized(request)
        /\ \E channel \in Channels, named \in {s, None}, told \in Channels \cup {None} :
             /\ channel \notin {route[u] : u \in Position \ {t}}
             /\ told = channel \/ (told = None /\ channel = request.channel)
             /\ route' = [route EXCEPT ![t] = channel]
             /\ member' = [member EXCEPT ![t] = s]
             /\ Reply(request, "ok", named, told)
        /\ UNCHANGED playing

\* Anything else it answers in the affirmative.
Agree(request) ==
    /\ request.method # "SETUP" /\ ~Unauthorized(request)
    /\ playing' = CASE request.method = "PLAY"     -> playing \cup {request.session}
                    [] request.method = "TEARDOWN" -> playing \ {request.session}
                    [] OTHER -> playing
    /\ Reply(request, "ok", None, None)
    /\ UNCHANGED <<route, member>>

\* Or it does not; some devices refuse a track.
Refuse(request) ==
    /\ \/ Unauthorized(request) /\ Reply(request, "unauthorized", None, None)
       \/ request.method \in {"SETUP", "TEARDOWN"} /\ Reply(request, "refused", None, None)
    /\ UNCHANGED <<route, member, playing>>

Answer ==
    /\ inbox # <<>> /\ ~closed
    /\ Accept(Head(inbox)) \/ Agree(Head(inbox)) \/ Refuse(Head(inbox))
    /\ UNCHANGED <<client, login, sent, closed>>

\* The media may start before the answer to PLAY is sent.
StartEarly ==
    /\ inbox # <<>> /\ ~closed
    /\ Head(inbox).method = "PLAY" /\ ~Unauthorized(Head(inbox))
    /\ playing' = playing \cup {Head(inbox).session}
    /\ UNCHANGED <<client, login, inbox, route, member, sent, closed, wire>>

\* One frame of RTP or RTCP of a track of a session that plays.
Stream(t, kind) ==
    LET frame == [kind |-> kind, track |-> t, n |-> IF Endless THEN 0 ELSE Len(sent) + 1,
                  channel |-> IF kind = "rtp" THEN route[t] ELSE route[t] + 1]
    IN  /\ member[t] \in playing /\ ~closed
        /\ Len(wire) < MaxWire /\ Len(sent) < MaxFrames
        /\ wire' = Append(wire, frame)
        /\ sent' = IF Endless THEN sent ELSE Append(sent, frame)
        /\ UNCHANGED <<client, login, inbox, route, member, playing, closed>>

Close ==
    /\ ~closed /\ closed' = TRUE
    /\ UNCHANGED <<client, login, inbox, route, member, playing, sent, wire>>

-----------------------------------------------------------------------------
\* What the client does as long as something happens on the connection.
Proceed ==
    \/ send_once
    \/ \E k \in 0..Len(wire) : read_response(k)
    \/ TimeOut
    \/ Disconnected

Next ==
    \/ Proceed
    \/ \E k \in 1..Len(wire) : Receive(k)
    \/ EndReceive
    \/ Cancel
    \/ Answer \/ StartEarly \/ Close
    \/ \E t \in Position, kind \in {"rtp", "rtcp"} : Stream(t, kind)

Spec == Init /\ [][Next]_vars

\* The client's thread runs, a blocking read returns or times out, and the
\* clock passes the end of the sample.  Nothing is assumed of the server.
FairSpec == Spec /\ WF_vars(Proceed) /\ WF_vars(EndReceive)

-----------------------------------------------------------------------------
\* Types; PLAY and what follows it are only reached with a session and a track.
TypeOK ==
    /\ phase \in Methods \cup {"receive", "done", "failed"}
    /\ position \in Position /\ cseq \in Nat /\ asked \in 0..cseq \cup {None}
    /\ \A t \in Position : runtimes[t] \in Channels \cup {2 * (t - 1), None}
    /\ errors \subseteq Position \cup {0}
    /\ \A i \in 1..Len(pending) : IsFrame(pending[i])
    /\ phase \in {"PLAY", "receive", "TEARDOWN", "done"} =>
           session # None /\ \E t \in Position : runtimes[t] # None

\* The frames the client has taken from the stream, and what it has not.
Collected == [i \in 1..Len(observed) |-> observed[i].frame] \o pending

Way == buffer \o wire

\* Whatever is read together, before PLAY is answered, between two answers or
\* with a late one: every frame sent is handed over, queued, buffered or still
\* to be read, once and in the order it was sent.
FramesKept ==
    ~Endless /\ Len(sent) <= MaxPending =>
        /\ Len(Collected) <= Len(sent)
        /\ \A i \in 1..Len(Collected) : Collected[i] = sent[i]
        /\ \A i \in 1..Len(Way) : IsFrame(Way[i]) =>
              /\ Way[i].n \in Len(Collected) + 1..Len(sent) /\ Way[i] = sent[Way[i].n]
              /\ \A j \in 1..i - 1 : IsFrame(Way[j]) => Way[j].n < Way[i].n
        /\ \A n \in Len(Collected) + 1..Len(sent) :
              \E i \in 1..Len(Way) : IsFrame(Way[i]) /\ Way[i].n = n

\* Answers are used in the order they were sent and each at most once, never
\* one to a request that has not been made; and unless a request was given up
\* each is the answer to the request it was taken for.
AnswersMatch ==
    /\ \A i \in 1..Len(taken) :
          /\ taken[i].answered <= taken[i].asked
          /\ ~late => taken[i].answered = taken[i].asked
    /\ \A i \in 2..Len(taken) : taken[i - 1].answered < taken[i].answered

\* The frames handed over go to the track they carry, as what they are, or to
\* nobody if that track was not set up, whatever channels the server chose.
MediaReachesItsTrack ==
    ~late => \A i \in 1..Len(observed) :
        LET o == observed[i]
        IN  IF runtimes[o.frame.track] = None THEN o.to.track = None
            ELSE o.to = [track |-> o.frame.track, kind |-> o.frame.kind]

\* However late, refused or renumbered, each answer is used for its own request
\* and each frame for its own track.
NothingIsMixedUp == AnswersMatch /\ MediaReachesItsTrack

\* docs/audio-av-sync-plan.md:105: when a single track fails, the other usable
\* tracks continue.  When the sample ends, all the media of the tracks that
\* were set up has been handed over as far as it has arrived.
OtherTracksContinue ==
    phase = "TEARDOWN" /\ asked = None /\ ~retried =>
        \A i \in 1..Len(buffer) :
            IsFrame(buffer[i]) => runtimes[buffer[i].track] = None

\* No frame is lost between the network and the tracks, and the sample has all
\* that arrived, as long as a track fails by an answer and not by a timeout.
MediaIsKept == TypeOK /\ FramesKept /\ (late \/ OtherTracksContinue)

\* README.md:16: network connections have timeouts, so that no task hangs.
AnalysisReturns == <>(phase \in {"done", "failed"})
=============================================================================
