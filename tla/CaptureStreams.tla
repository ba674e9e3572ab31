--------------------------- MODULE CaptureStreams ---------------------------
(***************************************************************************)
(* The media streams of one capture file (crates/capture/src/lib.rs):      *)
(* payload, new_stream, observe and push_event of struct Capture.  Every   *)
(* media packet, from a UDP datagram or from a TCP channel, ends in        *)
(* payload, which finds or opens the stage of its flow, splits a flow      *)
(* whose sequence numbers jump, and writes what is kept to the stage's     *)
(* spool file.                                                             *)
(*                                                                         *)
(* The functions take &mut self and run to their end, so they are written  *)
(* here as operators from a capture to a capture; CaptureUdp and           *)
(* CaptureTcp are the state machines that apply them frame by frame.  A    *)
(* payload is its identity; addresses, clocks and wording are left out,    *)
(* and a warning is a member of a small set.                               *)
(***************************************************************************)
EXTENDS Integers, Sequences, FiniteSets

CONSTANTS
    SequenceMod,      \* 65536: sequence numbers are u16
    JumpFrom,    \* 3001: the smallest forward step that is a jump ...
    JumpTo,      \* 65436: ... and the first that is a late packet instead
    MaxStreams,  \* MAX_STREAMS, 4096 stages
    MaxSample,   \* MAX_TOTAL_SAMPLE_BYTES, here in packets
    MaxEvents,   \* MAX_EVENTS, 256 timeline entries per stage
    None         \* Option::None

ASSUME StreamsAssumption ==
    /\ SequenceMod \in Nat \ {0} /\ SequenceMod % 2 = 0
    /\ {JumpFrom, JumpTo} \subseteq Nat
    /\ 1 < JumpFrom /\ JumpFrom < JumpTo /\ JumpTo < SequenceMod
    /\ JumpFrom <= SequenceMod \div 2 /\ SequenceMod \div 2 < JumpTo
    /\ MaxStreams \in Nat \ {0} /\ MaxSample \in Nat /\ MaxEvents \in Nat

NewCapture == [states |-> <<>>, routes |-> [k \in {} |-> 0], bindings |-> <<>>,
               sample |-> 0, warnings |-> {}]

Warn(c, w)         == [c EXCEPT !.warnings = @ \cup {w}]
WarnStage(c, i, w) == [c EXCEPT !.states[i].warnings = @ \cup {w}]

\* The number nearest to h that is congruent to seq: wrapping_sub as i16.
Extend(h, seq) ==
    LET d == (seq - h) % SequenceMod
    IN  h + (IF d < SequenceMod \div 2 THEN d ELSE d - SequenceMod)

\* last_sequence of the tracker: the highest number it accepted.
LastSequence(s) == IF s.numbers = {} THEN None
           ELSE (CHOOSE h \in s.numbers : \A x \in s.numbers : x <= h) % SequenceMod

\* How far the packet is ahead of the stage's highest, modulo 2^16.
Step(s, r) == (r.seq - LastSequence(s)) % SequenceMod

Jumps(s, r) ==
    LastSequence(s) # None /\ JumpFrom <= Step(s, r) /\ Step(s, r) < JumpTo

NewStage(key, r, codec) ==
    [key |-> key, numbers |-> {}, extended |-> r.seq, pending |-> None,
     codec |-> codec, mixed |-> FALSE, session |-> None, duplicates |-> 0,
     events |-> 0, spool |-> <<>>, limited |-> FALSE, truncated |-> FALSE,
     rtcp |-> <<>>, warnings |-> {}]

Full(c) == Len(c.states) >= MaxStreams

\* new_stream where there is room: the flow is routed to the new stage.
Opened(c, key, r, codec) ==
    [c EXCEPT !.states = Append(@, NewStage(key, r, codec)),
              !.routes = [k \in DOMAIN @ \cup {key} |->
                              IF k = key THEN Len(c.states) + 1 ELSE @[k]]]

Recoded(s, codec) ==
    IF codec = None THEN s
    ELSE IF s.codec # None /\ s.codec # codec
         THEN [s EXCEPT !.codec = codec, !.mixed = TRUE,
                        !.warnings = @ \cup {"mixed_codec"}]
    ELSE IF s.codec = None
         THEN [s EXCEPT !.codec = codec, !.warnings = @ \cup {"late_codec"}]
    ELSE s

\* push_event for a gap that opens with this packet.
Timeline(s, r) ==
    IF LastSequence(s) # None /\ 1 < Step(s, r) /\ Step(s, r) < JumpFrom
    THEN IF s.events < MaxEvents THEN [s EXCEPT !.events = @ + 1]
         ELSE [s EXCEPT !.warnings = @ \cup {"timeline_cut"}]
    ELSE s

\* Mutant of Spooled: a packet that fits is stored after one that did not.
SpooledAgain(c, i, r) ==
    IF c.sample + r.size > MaxSample
    THEN [c EXCEPT !.states[i].limited = TRUE, !.states[i].truncated = TRUE]
    ELSE [c EXCEPT !.states[i].spool = Append(@, r), !.sample = @ + r.size]

\* The sample is written until the first record that does not fit.
Spooled(c, i, r) ==
    IF c.states[i].limited THEN c
    ELSE IF c.sample + r.size > MaxSample
         THEN [c EXCEPT !.states[i].limited = TRUE, !.states[i].truncated = TRUE,
                        !.states[i].warnings = @ \cup {"sample_limit"}]
    ELSE [c EXCEPT !.states[i].spool = Append(@, r), !.sample = @ + r.size]

\* observe: the stage's tracker refuses a number it has already counted.
Observe(c, i, packet, codec) ==
    LET r == [packet EXCEPT !.extended = Extend(c.states[i].extended, packet.seq)]
        s == [Recoded(c.states[i], codec) EXCEPT
                  !.extended = IF r.extended > @ THEN r.extended ELSE @]
        t == [Timeline(s, r) EXCEPT !.numbers = @ \cup {r.extended}]
    IN  IF r.extended \in s.numbers
        THEN [c EXCEPT !.states[i] = [s EXCEPT !.duplicates = @ + 1]]
        ELSE Spooled([c EXCEPT !.states[i] = t], i, r)

\* A jump is believed when the next packet continues it.
Confirms(previous, r) == r.seq = (previous.seq + 1) % SequenceMod

\* Mutant of Restarted: the packet that announced the jump is not counted.
RestartedSecondOnly(c, i, key, r, codec, session) ==
    LET split  == [WarnStage(c, i, "restart") EXCEPT !.states[i].pending = None]
        opened == Opened(split, key, c.states[i].pending, codec)
        j      == Len(opened.states)
    IN  IF Full(c) THEN Warn(split, "stream_limit")
        ELSE Observe([WarnStage(opened, j, "stage") EXCEPT
                          !.states[j].session = session], j, r, codec)

\* The stage behind a confirmed jump, with both packets of it.  Without room
\* for a stage neither packet is counted.
Restarted(c, i, key, r, codec, session) ==
    LET previous == c.states[i].pending
        split    == [WarnStage(c, i, "restart") EXCEPT !.states[i].pending = None]
        opened   == Opened(split, key, previous, codec)
        j        == Len(opened.states)
        marked   == [WarnStage(opened, j, "stage") EXCEPT
                         !.states[j].session = session]
    IN  IF Full(c) THEN Warn(split, "stream_limit")
        ELSE Observe(Observe(marked, j, previous, codec), j, r, codec)

\* A jump: wait for its continuation, or drop the one that was not continued.
Jumped(c, i, key, r, codec, session) ==
    LET previous == c.states[i].pending
        waiting  == [c EXCEPT !.states[i].pending = r]
    IN  IF previous = None THEN waiting
        ELSE IF Confirms(previous, r)
             THEN Restarted(c, i, key, r, codec, session)
        ELSE WarnStage(waiting, i, "unconfirmed")

\* The flow goes on where it was: a jump waiting for its continuation was noise.
Continued(c, i, r, codec) ==
    IF c.states[i].pending = None THEN Observe(c, i, r, codec)
    ELSE Observe([WarnStage(c, i, "isolated") EXCEPT !.states[i].pending = None],
                 i, r, codec)

\* payload for an RTP packet of the flow key.
Media(c, key, packet, codec, session) ==
    LET known  == key \in DOMAIN c.routes
        opened == IF known THEN c ELSE Opened(c, key, packet, codec)
        i      == opened.routes[key]
        d      == IF session = None THEN opened
                  ELSE [opened EXCEPT !.states[i].session = session]
    IN  IF ~known /\ Full(c) THEN Warn(c, "stream_limit")
        ELSE IF Jumps(d.states[i], packet)
             THEN Jumped(d, i, key, packet, codec, session)
        ELSE Continued(d, i, packet, codec)

\* An RTCP packet belongs to the stages of its SSRC on the same connection and
\* channel, or on the same UDP ports or the even ones below them.
SameSource(s, key) ==
    /\ s.key.ssrc = key.ssrc /\ s.key.path = key.path
    /\ s.key.tcp = key.tcp /\ s.key.channel = key.channel
    /\ key.tcp # None \/ /\ key.source - s.key.source \in {0, 1}
                         /\ key.destination - s.key.destination \in {0, 1}

\* payload for a sender report: counted only where it belongs to one stage.
Report(c, key, report) ==
    LET candidates == {i \in DOMAIN c.states : SameSource(c.states[i], key)}
    IN  IF Cardinality(candidates) = 1
        THEN LET i == CHOOSE x \in candidates : TRUE
             IN  [c EXCEPT !.states[i].rtcp = Append(@, report)]
        ELSE Warn(c, "rtcp_unattributed")
=============================================================================
