---------------------------- MODULE StreamDiagnosis ----------------------------
(***************************************************************************)
(* A captured video stream from its sender to its report.  The packets of  *)
(* RtpDelivery carry the units of a video; each that the tracker accepts   *)
(* becomes a record of the capture, and StreamReport makes a result, its   *)
(* findings and its timeline of them.  The capture may end at any moment,  *)
(* so every state has a report.                                            *)
(*                                                                         *)
(* The diagnosis sees records; the properties compare what it says with    *)
(* what was sent and what of that was captured.                            *)
(***************************************************************************)
EXTENDS RtpDelivery, Sequences

CONSTANTS
    Nothing,      \* Option::None where None would be compared with a record
    Sent,         \* for each codec what the sender's packets carry
    Views,        \* what is sent, declared and decoded in one capture
    Milliseconds, \* of one tick of the arrival clock
    LateIdr, LongGop, LongWaitFrames, LongWaitMs, MaxDigits, HrdClock,
    MaxNalus, MaxFrames, MaxEvents, Tolerated, MinDuration, MinPackets, MinFrames

ASSUME DiagnosisAssumption ==
    /\ \A v \in Views : v.sent \in DOMAIN Sent
    /\ \A c \in DOMAIN Sent : DOMAIN Sent[c] = 0..MaxIndex
    /\ Milliseconds \in Nat /\ Tolerated \in Nat \ {0}

VARIABLES
    view,        \* of Views
    captured     \* the accepted packets in the order of their capture

diagnosisVars == <<vars, netVars, view, captured>>

Diagnosis == INSTANCE StreamReport WITH None <- Nothing, SequenceMod <- SeqMod

InitS == InitD /\ view \in Views /\ captured = <<>>

\* observe of the capture: what the tracker refuses is no part of the sample.
Capture(n, size) ==
    /\ Deliver(n, size)
    /\ captured' = IF accepted' = accepted THEN captured
                   ELSE Append(captured, [n |-> n, number |-> Observed + 1, at |-> clock])
    /\ UNCHANGED view

NextS ==
    \/ \E n \in 0..MaxIndex, size \in Sizes : Capture(n, size)
    \/ captured # <<>> /\ Tick /\ UNCHANGED <<view, captured>>

SpecS == InitS /\ [][NextS]_diagnosisVars

-----------------------------------------------------------------------------
SentIn(n) == Sent[view.sent][n]

Record(c) ==
    LET p == SentIn(c.n)
        w == Wire(c.n, 0)
    IN  [n |-> c.n, number |-> c.number, seq |-> w.sequence, timestamp |-> w.timestamp,
         marker |-> p.marker, offset |-> (c.at - captured[1].at) * Milliseconds,
         payloads |-> p.payloads, invalid |-> p.invalid]

\* The sample in the order of the unwrapped numbers, which are the sender's.
Records ==
    [k \in DOMAIN captured |->
        Record(captured[CHOOSE i \in DOMAIN captured :
            Cardinality({j \in DOMAIN captured : captured[j].n <= captured[i].n}) = k])]

\* push_event: a packet opens a gap if it is more than one number ahead.
Gaps ==
    LET Highest(k) == CHOOSE n \in {captured[j].n : j \in 1..k} :
                          \A j \in 1..k : captured[j].n <= n
        Opens(k)   == k > 1 /\ captured[k].n > Highest(k - 1) + 1
        f[k \in 0..Len(captured)] ==
            IF k = 0 THEN <<>>
            ELSE IF ~Opens(k) THEN f[k - 1]
            ELSE LET r == Record(captured[k])
                 IN  Append(f[k - 1], [kind |-> "sequence_gap", codec |-> "rtp",
                                       number |-> r.number, offset |-> r.offset,
                                       sequence |-> r.seq, timestamp |-> r.timestamp])
    IN  SubSeq(f[Len(captured)], 1, IF Len(f[Len(captured)]) <= MaxEvents
                                    THEN Len(f[Len(captured)]) ELSE MaxEvents)

Duration == IF captured = <<>> THEN 0
            ELSE (captured[Len(captured)].at - captured[1].at) * Milliseconds

Protocol ==
    [rtp |-> stats, transactions |-> <<>>, media |-> <<>>, duration |-> Duration,
     bit_rate |-> IF Duration = 0 THEN Nothing
                  ELSE (stats.packet_count * 8000) \div Duration]

\* The report of the capture if it ends here.
Found(records) == Diagnosis!finish_stream(records, Gaps, view.declared)
Result(found)  == Diagnosis!CapturedResult(found, Protocol, view.decode, view.probed, FALSE)

-----------------------------------------------------------------------------
Sampled == {captured[k].n : k \in DOMAIN captured}

\* What a packet carries, as its sender meant it.
Payload(n) == SentIn(n).payloads[view.sent]
Nals(n)    == Payload(n).nals
Carries(n, types) == \E k \in DOMAIN Nals(n) : Nals(n)[k].type \in types
Slices == {"idr", "cra", "bla", "slice"}
Random == {"idr", "cra", "bla"}

\* The packets of the units sent in fragments, from the first to the last.
FragmentedIn ==
    [c \in DOMAIN Sent |->
        LET P(n) == Sent[c][n].payloads[c]
        IN  {s..e : <<s, e>> \in {<<a, b>> \in (0..MaxIndex) \X (0..MaxIndex) :
                /\ a < b
                /\ \A n \in a..b : /\ P(n).kind = "fragment"
                                   /\ P(n).start <=> n = a
                                   /\ P(n).end <=> n = b}}]

Fragmented == FragmentedIn[view.sent]

FirstOf(s) == CHOOSE n \in s : \A m \in s : n <= m

\* Something is missing between the packets of the sample.
Torn == ~(FirstOf(Sampled)..newest \subseteq Sampled)

\* The packets of the same frame.
FrameOfPacket(n) == {m \in 0..MaxIndex : FrameOf[m] = FrameOf[n]}

\* A set of parameters is captured twice and differently in these fields.
Varied(field) ==
    \E n, m \in Sampled : \E i \in DOMAIN Nals(n), j \in DOMAIN Nals(m) :
        /\ Nals(n)[i].type = "sps" /\ Nals(m)[j].type = "sps"
        /\ Nals(n)[i].fields[field] # Nals(m)[j].fields[field]

\* The findings on transport: loss behind the packet that was captured first,
\* order, repetition and the clock.
TransportIsTrue(rules) ==
    /\ "RTP_015" \in rules <=> captured # <<>> /\ ~(begin..newest \subseteq Sampled)
    /\ "RTP_017" \in rules <=> \E i, j \in DOMAIN captured :
                                   i < j /\ captured[i].n > captured[j].n
    /\ "RTP_018" \in rules <=> Observed > Cardinality(delivered)
    /\ "RTP_019" \notin rules

\* The findings on units: a fragmented unit is reported if it was cut, for
\* H.264 only if its beginning was captured, and parameter sets if they are
\* missing or if they changed.  The code looks for most of this in the issues,
\* of which it has dropped the last if there are too many (whole is false).
UnitsAreTrue(rules, codec, whole) ==
    LET cut(u) == ~(u \subseteq Sampled) /\
                  IF codec = "h264" THEN FirstOf(u) \in Sampled ELSE u \cap Sampled # {}
        sets   == IF codec = "h264" THEN {"sps", "pps"} ELSE {"vps", "sps", "pps"}
        lacks  == \E t \in sets : ~\E n \in Sampled : Carries(n, {t})
        broken == \E u \in Fragmented : cut(u)
    IN  /\ rules \cap {"H264_022", "H265_037"} # {} => broken
        /\ "H264_012" \in rules => codec = "h264" /\ lacks
        /\ rules \cap {"H264_027", "H265_040"} # {} => Varied("resolution")
        /\ broken /\ (whole \/ codec = "h264") => rules \cap {"H264_022", "H265_037"} # {}
        /\ whole /\ lacks => rules \cap {"H264_012", "H265_036"} # {}
        /\ whole /\ Varied("resolution") => rules \cap {"H264_027", "H265_040"} # {}

\* The findings on frames: a missing marker is one that was not captured, a
\* stream that does not begin with a random access frame was not captured from
\* one, a random access frame without parameter sets has lost some, and the
\* decoder's buffer is not blamed where nothing is lost.
FramesAreTrue(rules) ==
    /\ "RTP_021" \in rules =>
           \E n \in Sampled : /\ Carries(n, Slices)
                              /\ \E m \in FrameOfPacket(n) \ Sampled : SentIn(m).marker
    /\ rules \cap {"H264_023", "H265_038"} # {} =>
           LET start == FirstOf({n \in Sampled : Carries(n, Slices)})
           IN  ~Carries(start, Random)
               \/ \E u \in Fragmented : start \in u /\ ~(u \subseteq Sampled)
    /\ rules \cap {"H264_026", "H265_036"} # {} =>
           \E n \in 0..MaxIndex : Carries(n, {"sps", "pps", "vps"}) /\ n \notin Sampled
    /\ "H264_055" \in rules => Torn

\* A capture that lacks nothing from the first packet on and has every packet
\* once and in order gives rise to no other findings than those that follow
\* from what the sender did, from the decoder, and from where the capture ends.
CleanIsClean(rules) ==
    captured # <<>> /\ (\A k \in DOMAIN captured : captured[k].n = k - 1)
        /\ Observed = Len(captured) =>
    rules \subseteq {"H264_022", "H265_037", "H264_027", "H265_040", "H264_049",
                     "H265_050", "VID_035", "DEC_028", "REC_031", "VIS_033"}

\* A complete unit names the packets it came in and a complete frame the place
\* of its first packet, and of its last unless it took in what was left of
\* the next.
EvidenceIsLocated(found) ==
    LET a == found.analysis
    IN  /\ \A k \in DOMAIN a.nalus :
               LET u == a.nalus[k]
               IN  u.complete =>
                       {u.packets[j].number : j \in DOMAIN u.packets}
                         = {captured[i].number : i \in {i \in DOMAIN captured :
                               \E d \in DOMAIN found.units[u.nalu_number].data :
                                   found.units[u.nalu_number].data[d][1] = captured[i].n}}
        /\ \A k \in DOMAIN a.frames :
               LET f == a.frames[k]
               IN  f.complete => /\ f.first_packet # Nothing /\ f.offset # Nothing
                                 /\ f.sample # Nothing
                                 /\ f.last_packet = Nothing => Torn

\* Every issue is in the timeline as often as it was found, and whatever is told
\* of a packet is told of one that was captured.
TimelineTellsOnce(found, t, records) ==
    LET a == found.analysis
        Times(i) == Cardinality({k \in DOMAIN a.issues : a.issues[k] = i})
        Told(i)  == Cardinality({k \in DOMAIN t :
                        /\ t[k].source = found.codec /\ t[k].type = i.kind
                        /\ t[k].sequence = i.sequence /\ t[k].timestamp = i.timestamp})
    IN  /\ \A k \in DOMAIN a.issues : Told(a.issues[k]) = Times(a.issues[k])
        /\ \A k \in DOMAIN t : t[k].sequence # Nothing /\ t[k].offset # Nothing =>
               \E j \in DOMAIN records : /\ records[j].seq = t[k].sequence
                                         /\ records[j].offset = t[k].offset

RulesAreTrue(rules, found) ==
    /\ TransportIsTrue(rules)
    /\ CleanIsClean(rules)
    /\ found.codec # Nothing =>
           /\ found.codec = view.sent
           /\ UnitsAreTrue(rules, found.codec, "issues_cut" \notin found.warnings)
           /\ FramesAreTrue(rules)

Justified(found, result, records) ==
    /\ RulesAreTrue({x.rule : x \in Diagnosis!evaluate(result)}, found)
    /\ found.codec # Nothing =>
           /\ EvidenceIsLocated(found)
           /\ TimelineTellsOnce(found, Diagnosis!build_timeline(result), records)

FoundIsJustified(found, records) == Justified(found, Result(found), records)

\* What a report says of a captured stream is true of what was sent and what of
\* it was captured, whatever was lost, late or repeated and wherever the capture
\* begins and ends; it says where it knows, and it says it once.
DiagnosisIsJustified ==
    LET records == Records IN FoundIsJustified(Found(records), records)
=============================================================================
