----------------------------- MODULE StreamReport -----------------------------
(***************************************************************************)
(* How the packets of one captured video stream become a report: the end   *)
(* of finish_stream in crates/capture/src/lib.rs, which depacketizes and   *)
(* analyses the sample and ties what it finds to packets of the capture,   *)
(* and analyze_captured_stream of crates/analyzer/src/lib.rs, which adds   *)
(* the decoder's result, weighs the data and asks the diagnosis for        *)
(* findings and a timeline.                                                *)
(*                                                                         *)
(* A record is [number, seq, timestamp, marker, offset, n, payloads,       *)
(* invalid]: its place in the capture, its header and, for each codec,     *)
(* what the depacketizer of that codec reads in its payload and whether    *)
(* the payload's header is impossible in it.  A position in the sample     *)
(* file is counted in units.                                               *)
(***************************************************************************)
EXTENDS DiagnosticTimeline

CONSTANTS
    SequenceMod,  \* 65536
    HrdClock,     \* 90000
    MaxNalus,     \* MAX_NALU_EVIDENCE
    MaxFrames,    \* MAX_FRAME_EVIDENCE
    MaxEvents,    \* MAX_EVENTS, 256
    Tolerated,    \* 20: one payload in so many may be impossible
    MinDuration,  \* 3000 ms of media ...
    MinPackets,   \* ... 10 packets ...
    MinFrames     \* ... and 10 frames are enough to judge

Units == INSTANCE Depacketizer
H264  == INSTANCE H264Analysis
H265  == INSTANCE H265Analysis

-----------------------------------------------------------------------------
Packet(record, codec) ==
    [n |-> record.n, seq |-> record.seq, timestamp |-> record.timestamp,
     marker |-> record.marker, payload |-> record.payloads[codec]]

\* The units and their analysis.
Reading(d, codec) ==
    LET a == IF codec = "h264" THEN H264!Analyzed(d.units, d.issues)
             ELSE H265!Analyzed(d.units, d.issues)
    IN  [units |-> d.units,
         analysis |-> [a EXCEPT !.issues = SubSeq(@, 1, Least(Len(@), MaxEvents))],
         cut |-> Len(a.issues) > MaxEvents]

\* The sample as a stream of the codec.
Candidate(records, codec) ==
    Reading(Units!Depacketized([k \in DOMAIN records |-> Packet(records[k], codec)]),
            codec)

\* An undeclared stream is of a codec if its parameter sets and frames are
\* there and almost no payload is impossible.
Inferred(records, candidate, codec) ==
    LET a == candidate.analysis
    IN  /\ records # <<>>
        /\ Cardinality({k \in DOMAIN records : records[k].invalid[codec]}) * Tolerated
               <= Len(records)
        /\ a.sps # <<>> /\ a.pps # <<>> /\ a.frame > 0
        /\ codec = "h265" => a.vps_count > 0

\* locations: the record of a time stamp and a sequence number, the last one
\* if there are several.
At(records, timestamp, sequence) ==
    LET there == {k \in DOMAIN records : /\ records[k].timestamp = timestamp
                                         /\ records[k].seq = sequence}
    IN  IF there = {} THEN None
        ELSE records[CHOOSE k \in there : \A j \in there : j <= k]

\* The complete units up to the k-th, which are what the sample file has.
Written(units, k) == Cardinality({j \in 1..k : units[j].complete})

\* sample_ranges of the units from..to, together.
SampleRange(units, from, to) ==
    IF Written(units, to) = Written(units, from - 1) THEN None
    ELSE <<Written(units, from - 1), Written(units, to)>>

annotate_frames(frames, units, records) ==
    [k \in DOMAIN frames |->
        LET f     == frames[k]
            first == At(records, f.timestamp, f.first)
            last  == At(records, f.timestamp, f.last)
        IN  f @@ [first_packet |-> IF first = None THEN None ELSE first.number,
                  last_packet |-> IF last = None THEN None ELSE last.number,
                  offset |-> IF first = None THEN None ELSE first.offset,
                  sample |-> SampleRange(units, f.first_nalu, f.last_nalu)]]

\* The numbers from first to last, perhaps across the wrap.
Within(sequence, first, last) ==
    IF first <= last THEN sequence \in first..last
    ELSE sequence >= first \/ sequence <= last

annotate_nalus(nalus, units, records) ==
    [k \in DOMAIN nalus |->
        LET u    == nalus[k]
            mine == SelectSeq(records, LAMBDA r :
                        r.timestamp = u.timestamp /\ Within(r.seq, u.first, u.last))
        IN  u @@ [sample |-> IF u.complete THEN SampleRange(units, u.nalu_number,
                                                            u.nalu_number)
                             ELSE None,
                  packets |-> [j \in DOMAIN mine |->
                      [number |-> mine[j].number, sequence |-> mine[j].seq,
                       offset |-> mine[j].offset]]]]

\* The issues become events of the capture, at the packets they belong to.
ListIssues(events, issues, codec, records) ==
    LET Add(s, i) ==
            LET r == At(records, i.timestamp, i.sequence)
            IN  IF r = None \/ Len(s) >= MaxEvents THEN s
                ELSE Append(s, [kind |-> i.kind, codec |-> codec, number |-> r.number,
                                offset |-> r.offset, sequence |-> i.sequence,
                                timestamp |-> i.timestamp])
        f[k \in 0..Len(issues)] == IF k = 0 THEN events ELSE Add(f[k - 1], issues[k])
    IN  f[Len(issues)]

\* What the stream is, if it is this codec.
Identified(records, events, codec, candidate, declared) ==
    LET a == [candidate.analysis EXCEPT
                  !.frames = annotate_frames(@, candidate.units, records),
                  !.nalus  = annotate_nalus(@, candidate.units, records)]
    IN  [codec |-> codec, confirmed |-> declared = codec, units |-> candidate.units,
         analysis |-> a, events |-> ListIssues(events, a.issues, codec, records),
         warnings |-> IF candidate.cut THEN {"issues_cut"} ELSE {}]

Unknown(events, warnings) ==
    [codec |-> None, confirmed |-> FALSE, units |-> <<>>, analysis |-> None,
     events |-> events, warnings |-> warnings]

\* H.264 is tried before H.265, and a declared codec is not questioned.
Chosen(records, events, declared, h264, h265) ==
    IF declared = "h264" \/ (declared = None /\ Inferred(records, h264, "h264"))
    THEN Identified(records, events, "h264", h264, declared)
    ELSE IF declared = "h265" \/ (declared = None /\ Inferred(records, h265, "h265"))
    THEN Identified(records, events, "h265", h265, declared)
    ELSE Unknown(events, {"unidentified"})

\* finish_stream for a stream that is not sound.
finish_stream(records, events, declared) ==
    Chosen(records, events, declared, Candidate(records, "h264"), Candidate(records, "h265"))

-----------------------------------------------------------------------------
\* sources of recovery_windows_for: the frames of the decoder's own errors and
\* the frames with pieces missing.
Broken(frames, decode) ==
    LET located == IF decode = None THEN {}
                   ELSE UNION {{decode.issues[k].locations[j].frame :
                                   j \in DOMAIN decode.issues[k].locations} :
                               k \in {k \in DOMAIN decode.issues :
                                          decode.issues[k].kind \notin Pictorial}}
    IN  located \cup {frames[k].frame_number : k \in {k \in DOMAIN frames :
                                                         ~frames[k].complete}}

\* From each of them to the next random access frame.  Two errors of one frame
\* make two windows in the code; they tell the timeline the same.
recovery_windows_for(frames, decode) ==
    LET sources == SelectSeq(frames, LAMBDA f : f.frame_number \in Broken(frames, decode))
        Next(number) ==
            LET later == {k \in DOMAIN frames : /\ frames[k].idr
                                                /\ frames[k].frame_number > number}
            IN  IF later = {} THEN None
                ELSE frames[CHOOSE k \in later : \A j \in later : k <= j]
    IN  [k \in DOMAIN sources |->
            [source |-> sources[k].frame_number, next |-> Next(sources[k].frame_number)]]

Recovering(analysis, decode) ==
    IF analysis = None THEN None
    ELSE analysis @@ [windows |-> recovery_windows_for(analysis.frames, decode)]

\* assess_data_quality: the reasons why the sample is not enough.  The counts
\* differ if the spool reached its limit, which is itself a reason.
Reasons(found, protocol, decode, errors, truncated) ==
    LET frames == IF found.analysis = None THEN 0 ELSE found.analysis.frame
    IN  errors
        \cup (IF decode = None THEN {"not_decoded"} ELSE {})
        \cup (IF protocol.duration < MinDuration THEN {"short"} ELSE {})
        \cup (IF protocol.rtp.packet_count < MinPackets THEN {"few_packets"} ELSE {})
        \cup (IF frames < MinFrames THEN {"few_frames"} ELSE {})
        \cup (IF truncated THEN {"truncated"} ELSE {})
        \cup (IF found.analysis = None THEN {"no_units"} ELSE {})
        \cup (IF decode # None /\ frames > 0 /\ decode.frames # None
                 /\ decode.frames # frames THEN {"frame_counts_differ"} ELSE {})

\* reconcile_frame_rates, in thousandths: two of the rates differ by more than
\* half a frame and by more than 5 %.
Conflicting(rates) ==
    \E a, b \in rates : a - b > 500 /\ (a - b) * 100 > a * 5

FrameRates(found, protocol, probed) ==
    LET a == found.analysis
    IN  {probed} \cup (IF a = None THEN {}
          ELSE (IF found.codec # "h264" \/ a.sps = <<>> THEN {} ELSE {a.sps[1].fields.fps})
               \cup (IF protocol.duration > 0 /\ a.frame > 0
                     THEN {(a.frame * 1000000) \div protocol.duration} ELSE {}))

\* analyze_captured_stream: the result, which evaluate and build_timeline read.
\* decode is what the decoder made of the sample, None if it was not asked.
CapturedResult(found, protocol, decode, probed, truncated) ==
    LET As(codec) == IF found.codec = codec THEN Recovering(found.analysis, decode)
                     ELSE None
        reasons   == Reasons(found, protocol, decode, found.warnings, truncated)
    IN  [source |-> "pcap", summary |-> FALSE, errors |-> found.warnings,
         protocol |-> protocol, h264 |-> As("h264"), h265 |-> As("h265"),
         audio |-> None, av_sync |-> <<>>, decode |-> decode,
         frame_rate_conflict |->
             Conflicting(FrameRates(found, protocol, probed) \ {None}),
         quality |-> [assessed |-> TRUE, sufficient |-> reasons = {},
                      capture_truncated |-> truncated],
         capture_events |-> found.events]
=============================================================================
