----------------------------- MODULE CaptureUdp -----------------------------
(***************************************************************************)
(* The UDP half of Capture::frame and the end of the analysis              *)
(* (analyze_capture_file_with_progress, finish_stream), with the senders   *)
(* and the network in front of the capture point: packets are captured in  *)
(* order, late, twice or never, a sender starts again elsewhere in the     *)
(* sequence space, sessions negotiate ports while media is already         *)
(* running, and RTP arrives on a port negotiated for RTCP.                 *)
(*                                                                         *)
(* A flow is a FlowKey: path stands for the interface and the two          *)
(* addresses, source and destination for the ports.                        *)
(***************************************************************************)
EXTENDS CaptureStreams, TLC

CONSTANTS
    Flows,         \* the FlowKeys that carry media
    Bases,         \* Bases[f][e]: first sequence number of the e-th start of f
    Payloads,      \* Payloads[n + 1]: what the n-th packet after a start carries
    Offers,        \* the UdpBindings sessions may negotiate
    MaxWindow,     \* MAX_SAMPLE_PACKETS, 200000 records analysed per stage
    MaxSent,       \* bound: packets sent by all flows
    MaxDelayed,    \* bound: packets on their way at a time
    MaxCopies,     \* bound: packets captured twice
    MaxReports,    \* bound: sender reports
    MaxBindings    \* bound: negotiations

\* The n-th packet after the e-th start of the sender of f.
PacketOf(f, e, n) ==
    [seq |-> (Bases[f][e] + n) % SequenceMod, extended |-> 0, pt |-> 96,
     size |-> 1 + (n % 2), flow |-> f, epoch |-> e, n |-> n,
     marker |-> n = Len(Payloads) - 1, timestamp |-> Payloads[n + 1].frame,
     payload |-> Payloads[n + 1]]

Packets == UNION {{PacketOf(f, e, n) : e \in DOMAIN Bases[f], n \in 0..(Len(Payloads) - 1)} :
                     f \in Flows}

ASSUME UdpAssumption ==
    /\ Flows \subseteq [path : {f.path : f \in Flows}, source : Nat, destination : Nat,
                        tcp : {None}, channel : {None}, ssrc : {f.ssrc : f \in Flows}]
    /\ \A f \in Flows : Bases[f] \in Seq(Nat) /\ Bases[f] # <<>>
    /\ {Len(Payloads), MaxWindow, MaxSent, MaxDelayed, MaxCopies, MaxReports, MaxBindings}
           \subseteq Nat
    /\ None \notin Nat /\ None \notin Packets

\* What no receiver can tell from sequence numbers is left out: a packet that
\* is overtaken by half the sequence space, and a sender that starts again so
\* near to where it was that it seems to go on or to repeat itself.
ASSUME StartsAssumption ==
    /\ 2 * Len(Payloads) <= SequenceMod
    /\ \A f \in Flows : \A e, d \in DOMAIN Bases[f] :
          \A n, m \in 0..(Len(Payloads) - 1) : e # d =>
              (Bases[f][d] + m - (Bases[f][e] + n)) % SequenceMod \in JumpFrom..(JumpTo - 1)

\* RTP has even ports: no flow has the ports of another one's reports.
ASSUME PortsAssumption ==
    \A f, g \in Flows :
        f.path = g.path /\ f.ssrc = g.ssrc
            /\ f.source + 1 - g.source \in {0, 1}
            /\ f.destination + 1 - g.destination \in {0, 1} => f = g

\* The H.264 and H.265 depacketizers.
Video == INSTANCE Depacketizer

VARIABLES
    capture,     \* struct Capture
    sender,      \* per flow: which start it is in, packets sent since
    sent,        \* packets sent by all flows
    delayed,     \* sent, not captured yet
    copies,      \* packets captured a second time
    reports,     \* sender reports sent
    fed,         \* history: media packets of each flow that were captured
    result       \* CaptureAnalysis.streams, None while frames are read

vars == <<capture, sender, sent, delayed, copies, reports, fed, result>>

InitUdp ==
    /\ capture = NewCapture
    /\ sender = [f \in Flows |-> [epoch |-> 1, next |-> 0]]
    /\ sent = 0 /\ delayed = {} /\ copies = 0 /\ reports = 0
    /\ fed = [f \in Flows |-> 0]
    /\ result = None

RtpPorts(b, key) ==
    /\ b.path = key.path /\ b.destination = key.destination
    /\ b.source \in {None, key.source}

RtcpPorts(b, key) ==
    b.path = key.path /\ b.rtcp_source = key.source
                      /\ b.rtcp_destination = key.destination

\* udp_bindings.iter().rev().find(..): the latest of the bindings at indices I.
Newest(c, I) == IF I = {} THEN None
                ELSE c.bindings[CHOOSE i \in I : \A j \in I : j <= i]

\* frame for a UDP datagram.
Datagram(c, key, kind, packet) ==
    LET all     == DOMAIN c.bindings
        control == Newest(c, {i \in all : RtcpPorts(c.bindings[i], key)})
        media   == Newest(c, {i \in all : RtpPorts(c.bindings[i], key)})
        codec   == IF media = None \/ packet.pt \notin DOMAIN media.codecs THEN None
                   ELSE media.codecs[packet.pt]
        session == IF media # None THEN media.session
                   ELSE IF control # None THEN control.session ELSE None
    IN  IF kind = "report" THEN Report(c, key, packet)
        ELSE IF control # None THEN Warn(c, "rtcp_unparsed")
        ELSE Media(c, key, packet, codec, session)

\* The next packet of a flow.
Packet(f) == PacketOf(f, sender[f].epoch, sender[f].next)

Advance(f) ==
    /\ sent < MaxSent /\ sender[f].next < Len(Payloads)
    /\ sender' = [sender EXCEPT ![f].next = @ + 1]
    /\ sent' = sent + 1

Captured(p) ==
    /\ capture' = Datagram(capture, p.flow, "rtp", p)
    /\ fed' = [fed EXCEPT ![p.flow] = @ + 1]

\* A packet is captured as it is sent,
Send(f) ==
    /\ result = None
    /\ Advance(f)
    /\ Captured(Packet(f))
    /\ UNCHANGED <<delayed, copies, reports, result>>

\* or takes longer, perhaps for ever,
Delay(f) ==
    /\ result = None
    /\ Cardinality(delayed) < MaxDelayed
    /\ Advance(f)
    /\ delayed' = delayed \cup {Packet(f)}
    /\ UNCHANGED <<capture, copies, reports, fed, result>>

\* so that later ones overtake it,
Arrive(p) ==
    /\ result = None
    /\ Captured(p)
    /\ delayed' = delayed \ {p}
    /\ UNCHANGED <<sender, sent, copies, reports, result>>

\* or is captured and still has a copy on its way.
Repeat(f) ==
    /\ result = None
    /\ copies < MaxCopies
    /\ Advance(f)
    /\ Captured(Packet(f))
    /\ delayed' = delayed \cup {Packet(f)}
    /\ copies' = copies + 1
    /\ UNCHANGED <<reports, result>>

\* The sender of a flow starts again.
Restart(f) ==
    /\ result = None
    /\ sender[f].next > 0 /\ sender[f].epoch < Len(Bases[f])
    /\ sender' = [sender EXCEPT ![f].epoch = @ + 1, ![f].next = 0]
    /\ UNCHANGED <<capture, sent, delayed, copies, reports, fed, result>>

\* A sender report, on the port above the one of the media.
SendReport(f) ==
    /\ result = None
    /\ reports < MaxReports
    /\ reports' = reports + 1
    /\ capture' = Datagram(capture, [f EXCEPT !.source = @ + 1, !.destination = @ + 1],
                           "report", [flow |-> f, pt |-> 200])
    /\ UNCHANGED <<sender, sent, delayed, copies, fed, result>>

\* message: a session's new UDP mapping, kept while there is room for it.
Negotiate(b) ==
    /\ result = None
    /\ Len(capture.bindings) < MaxBindings
    /\ capture' = IF Len(capture.bindings) < MaxStreams
                  THEN [capture EXCEPT !.bindings = Append(@, b)]
                  ELSE Warn(capture, "binding_limit")
    /\ UNCHANGED <<sender, sent, delayed, copies, reports, fed, result>>

\* finish_stream reads the first records of the spool and sorts them.
Window(s) ==
    LET read == SubSeq(s.spool, 1, IF Len(s.spool) < MaxWindow
                                   THEN Len(s.spool) ELSE MaxWindow)
    IN  SortSeq(read, LAMBDA a, b : a.extended < b.extended)

\* The CapturedStream of a stage; a jump still waiting is left out of it.
CapturedStream(s) ==
    [key       |-> s.key,
     records   |-> Window(s),
     analysis  |-> IF s.mixed THEN None ELSE s.codec,
     units     |-> IF s.mixed THEN None ELSE Video!Depacketized(Window(s)).units,
     truncated |-> s.truncated \/ Len(s.spool) > MaxWindow,
     warnings  |-> s.warnings
                   \cup (IF s.pending # None THEN {"tail_jump"} ELSE {})
                   \cup (IF s.codec = None THEN {"no_codec"} ELSE {})
                   \cup (IF Len(s.spool) > MaxWindow THEN {"window"} ELSE {})]

\* The capture file ends: every stage becomes a stream of the result.
Finish ==
    /\ result = None
    /\ result' = [i \in DOMAIN capture.states |-> CapturedStream(capture.states[i])]
    /\ UNCHANGED <<capture, sender, sent, delayed, copies, reports, fed>>

NextUdp ==
    \/ \E f \in Flows : Send(f) \/ Delay(f) \/ Repeat(f) \/ Restart(f) \/ SendReport(f)
    \/ \E p \in delayed : Arrive(p)
    \/ \E b \in Offers : Negotiate(b)
    \/ Finish

SpecUdp == InitUdp /\ [][NextUdp]_vars

-----------------------------------------------------------------------------
Stages(f) == {i \in DOMAIN capture.states : capture.states[i].key = f}

\* However packets are lost, repeated, overtaken or dropped as noise, and
\* wherever the sender starts again, the records a stage keeps come from one
\* start of one sender, and their unwrapped numbers order and space them as
\* they were sent, so that a jump is never counted as loss; nor does a stage
\* count a sender report of another flow, whatever stages exist when it comes.
StagesAreFaithful ==
    \A i \in DOMAIN capture.states :
        LET s == capture.states[i]
        IN  /\ \A a, b \in DOMAIN s.spool :
                  LET p == s.spool[a]  q == s.spool[b]
                  IN  /\ p.flow = s.key /\ p.epoch = q.epoch
                      /\ p.extended - q.extended = p.n - q.n
                      /\ a # b => p.n # q.n
            /\ \A k \in DOMAIN s.rtcp : s.rtcp[k].flow = s.key

\* Packets of f that its stages have counted, found twice or still hold.
Copies(i, s) ==
    {<<i, "counted", x>> : x \in s.numbers} \cup {<<i, "twice", k>> : k \in 1..s.duplicates}
        \cup (IF s.pending = None THEN {} ELSE {<<i, "held", 0>>})

Accounted(f) == Cardinality(UNION {Copies(i, capture.states[i]) : i \in Stages(f)})

\* No packet disappears in silence: every captured packet of a flow is in the
\* statistics of one of its stages, once, or a warning says some are missing.
NothingVanishes ==
    \A f \in Flows :
        /\ Accounted(f) <= fed[f]
        /\ Accounted(f) < fed[f] =>
               \/ capture.warnings \cap {"stream_limit", "rtcp_unparsed"} # {}
               \/ \E i \in Stages(f) :
                      capture.states[i].warnings \cap {"unconfirmed", "isolated"} # {}

\* Each captured packet is in one stage, of its own sender and its own start, or
\* a warning says that some are not.
PacketsAreAccounted == StagesAreFaithful /\ NothingVanishes

SampleStep ==
    \A i \in DOMAIN capture.states :
        LET s == capture.states[i]
            t == capture'.states[i]
        IN  /\ Len(t.spool) > Len(s.spool) =>
                   Len(s.spool) = Cardinality(s.numbers)
            /\ t.truncated <=> Len(t.spool) < Cardinality(t.numbers)

\* The spool of a stage is the first of its packets without a hole: once the
\* limit shared by all stages has kept one packet out, no later one is stored
\* behind it, and a stage whose spool lacks a packet says that it does.
SampleIsPrefix == [][SampleStep]_vars

\* The units of the sender whose packets are all among ns, as what the
\* depacketizer should make of them: fragments run from a start to an end.
WholeUnits(ns) ==
    LET Kind(n)  == Payloads[n + 1].kind
        EndOf(n) == CHOOSE m \in n..MaxSent :
                        /\ Payloads[m + 1].end
                        /\ \A x \in n..(m - 1) : ~Payloads[x + 1].end
        Pieces(n, m) == [i \in 1..(m - n + 1) |-> <<n + i - 1, 1>>]
    IN  {Pieces(n, n) : n \in {x \in ns : Kind(x) = "single"}}
        \cup {<<<<n, k>>>> : n \in {x \in ns : Kind(x) = "aggregate"}, k \in 1..2}
        \cup {Pieces(n, EndOf(n)) :
                  n \in {x \in ns : /\ Kind(x) = "fragment" /\ Payloads[x + 1].start
                                    /\ x..EndOf(x) \subseteq ns}}

\* The units called complete, which go to the decoder, are exactly those of
\* which every packet was kept, in the order they were sent: a unit is never
\* made of the pieces of two, whatever was lost between them or captured late.
UnitsAreWhole ==
    result # None =>
        \A i \in DOMAIN result :
            LET w     == result[i]
                units == SelectSeq(w.units, LAMBDA u : u.complete)
                First(u) == u.data[1][1]
            IN  w.units # None =>
                /\ {units[j].data : j \in DOMAIN units}
                       = WholeUnits({w.records[j].n : j \in DOMAIN w.records})
                /\ \A j, k \in DOMAIN units :
                       j < k => First(units[j]) <= First(units[k])
=============================================================================
