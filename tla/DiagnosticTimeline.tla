-------------------------- MODULE DiagnosticTimeline --------------------------
(***************************************************************************)
(* build_timeline of crates/diagnostics/src/lib.rs: everything a result    *)
(* says happened, in the order of its time.  An event keeps what places it *)
(* and what other events are compared with; its wording is left out, but   *)
(* for the frame numbers a later step looks for in it (numbers).           *)
(*                                                                         *)
(* Issues that the capture already lists as events, at their packets, are  *)
(* not listed a second time.                                               *)
(***************************************************************************)
EXTENDS DiagnosticRules

CONSTANT MaxDigits   \* decimal digits of the largest frame number

Event(offset, source, type, severity) ==
    [offset |-> offset, source |-> source, type |-> type, severity |-> severity,
     sequence |-> None, timestamp |-> None, frame |-> None, numbers |-> {}]

Elapsed(transactions, k) ==
    LET f[i \in 0..k] == IF i = 0 THEN 0 ELSE f[i - 1] + transactions[i].elapsed
    IN  f[k]

\* A 401 is no failure if the request succeeded later.
Challenged(transactions, k) ==
    /\ transactions[k].status = 401
    /\ \E j \in (k + 1)..Len(transactions) :
           /\ transactions[j].method = transactions[k].method
           /\ transactions[j].status < 300

TransactionEvents(r) ==
    IF r.protocol = None THEN <<>>
    ELSE LET ts == r.protocol.transactions
         IN  [k \in DOMAIN ts |->
                 Event(Elapsed(ts, k), "rtsp", ts[k].method,
                       IF ts[k].status >= 400 /\ ~Challenged(ts, k) THEN High ELSE Info)]

\* The names the table gives to lost fragments of H.264 are not those the
\* depacketizer uses, so these are no more than Medium.
severity_for_h264_issue(kind) ==
    CASE kind \in {"invalid_sps", "invalid_pps", "missing_sps", "missing_pps"} -> Critical
      [] kind \in {"resolution_changed", "slice_missing_pps", "forbidden_zero_bit"} -> High
      [] OTHER -> Medium

severity_for_h265_issue(kind) ==
    CASE kind \in {"invalid_sps", "invalid_pps", "missing_vps", "missing_sps",
                   "missing_pps", "sequence_gap", "missing_end"} -> Critical
      [] kind \in {"resolution_changed", "slice_missing_pps"} -> High
      [] OTHER -> Medium

SeverityFor(codec, kind) == IF codec = "h265" THEN severity_for_h265_issue(kind)
                            ELSE severity_for_h264_issue(kind)

severity_for_decode_issue(kind) ==
    CASE kind \in {"corrupt_frame", "missing_reference", "invalid_nal_unit",
                   "bitstream_syntax_error", "visual_corruption_candidate"} -> High
      [] kind \in {"macroblock_error", "concealment", "slice_header_error",
                   "missing_pps"} -> Medium
      [] OTHER -> Low

severity_for_audio_issue(kind) ==
    CASE kind \in {"timestamp_gap", "timestamp_overlap", "clipping"} -> High
      [] kind = "near_silence" -> Medium
      [] OTHER -> Low

\* Mutant of Captured: the kind of an issue does not count.
CapturedSomewhere(r, codec, issue) ==
    /\ r.capture_events # None
    /\ \E k \in DOMAIN r.capture_events :
           LET e == r.capture_events[k]
           IN  e.sequence = issue.sequence /\ e.timestamp = issue.timestamp

\* The capture lists the issue at its packet.
Captured(r, codec, issue) ==
    /\ r.capture_events # None
    /\ \E k \in DOMAIN r.capture_events :
           LET e == r.capture_events[k]
           IN  /\ e.kind = issue.kind /\ e.codec = codec
               /\ e.sequence = issue.sequence /\ e.timestamp = issue.timestamp

IssueEvents(r, codec, analysis) ==
    LET others == SelectSeq(analysis.issues, LAMBDA i : ~Captured(r, codec, i))
    IN  [k \in DOMAIN others |->
            [Event(None, codec, others[k].kind, SeverityFor(codec, others[k].kind))
                EXCEPT !.sequence = others[k].sequence,
                       !.timestamp = others[k].timestamp]]

\* The change of a parameter set, at the first packet of its unit.
ChangeEvents(codec, analysis) ==
    [k \in DOMAIN analysis.changes |->
        LET change == analysis.changes[k]
            named  == {j \in DOMAIN analysis.nalus :
                           analysis.nalus[j].nalu_number = change.nalu}
            nalu   == analysis.nalus[CHOOSE j \in named : TRUE]
            offset == IF named = {} THEN None
                      ELSE IF nalu.packets = <<>> THEN None ELSE nalu.packets[1].offset
        IN  [Event(offset, codec, "parameter_set_changed", Medium) EXCEPT
                 !.sequence  = IF named = {} THEN None ELSE nalu.first,
                 !.timestamp = IF named = {} THEN None ELSE nalu.timestamp,
                 !.frame     = change.from]]

\* Every access unit at which the decoder's buffer overflows or runs empty.
HrdEvents(r) ==
    LET At(point, type) ==
            LET frame == frame_evidence(r, point.access_unit)
            IN  [Event(IF frame = None THEN None ELSE frame.offset, "hrd", type, High)
                    EXCEPT !.sequence  = IF frame = None THEN None ELSE frame.first,
                           !.timestamp = IF frame = None THEN None ELSE frame.timestamp,
                           !.frame     = point.access_unit]
        f[k \in 0..Len(r.h264.hrd.points)] ==
            IF k = 0 THEN <<>>
            ELSE LET point == r.h264.hrd.points[k]
                 IN  f[k - 1]
                     \o (IF point.overflow THEN <<At(point, "cpb_overflow")>> ELSE <<>>)
                     \o (IF point.underflow THEN <<At(point, "cpb_underflow")>> ELSE <<>>)
    IN  f[Len(r.h264.hrd.points)]

VideoEvents(r) ==
    (IF r.h264 = None THEN <<>>
     ELSE IssueEvents(r, "h264", r.h264) \o ChangeEvents("h264", r.h264) \o HrdEvents(r))
    \o (IF r.h265 = None THEN <<>>
        ELSE IssueEvents(r, "h265", r.h265) \o ChangeEvents("h265", r.h265))

\* What only says that sound could not be judged is no event.
AudioEvents(r) ==
    LET told == SelectSeq(r.audio.issues, LAMBDA i :
                    i.kind \notin {"insufficient_sample", "decode_not_supported"})
        Weight(i) == IF ~r.audio.conclusion_reliable THEN Low
                     ELSE IF i.kind = "clipping_candidate" THEN High ELSE Medium
    IN  IF r.audio = None THEN <<>>
        ELSE [k \in DOMAIN told |->
                 [Event(told[k].offset, "audio", told[k].kind,
                        severity_for_audio_issue(told[k].kind))
                     EXCEPT !.sequence = told[k].sequence,
                            !.timestamp = told[k].timestamp]]
             \o [k \in DOMAIN r.audio.intervals |->
                 Event(r.audio.intervals[k].start, "pcm", r.audio.intervals[k].kind,
                       Weight(r.audio.intervals[k]))]

\* The events of the capture, at their packets and at most Medium.
CapturedEvents(r) ==
    IF r.capture_events = None THEN <<>>
    ELSE [k \in DOMAIN r.capture_events |->
             LET e == r.capture_events[k]
             IN  [Event(e.offset, e.codec, e.kind,
                        IF e.codec = "rtp" THEN Medium
                        ELSE Least(SeverityFor(e.codec, e.kind), Medium))
                     EXCEPT !.sequence = e.sequence, !.timestamp = e.timestamp]]

-----------------------------------------------------------------------------
\* The digits of n begin the digits of m: "#m" contains "#n".
Begins(n, m) == \E d \in 0..MaxDigits : m \div 10^d = n

Opportunity == "next_random_access_opportunity"

\* An event in s tells of the frame and names the source.
Told(s, frame, number) ==
    \E k \in DOMAIN s : /\ s[k].type = Opportunity /\ s[k].frame = frame
                        /\ \E m \in s[k].numbers : Begins(number, m)

\* One place of an error the decoder reported, and what follows from it.
Placed(r, s, issue, place) ==
    LET frame  == IF place.visual THEN None ELSE frame_evidence(r, place.frame)
        offset == IF frame # None /\ frame.offset # None THEN frame.offset
                  ELSE place.time
        placed == [Event(offset, "ffmpeg", issue.kind, severity_for_decode_issue(issue.kind))
                      EXCEPT !.frame = place.frame,
                             !.sequence  = IF frame = None THEN None ELSE frame.first,
                             !.timestamp = IF frame = None THEN None ELSE frame.timestamp]
        next   == next_random_access_frame(r, place.frame)
        chance == [Event(next.offset, "random_access", Opportunity, Info)
                      EXCEPT !.sequence = next.first, !.timestamp = next.timestamp,
                             !.frame = next.frame_number, !.numbers = {place.frame}]
        t      == Append(s, placed)
    IN  IF \/ place.visual \/ issue.kind \in {"black_segment", "freeze_segment"}
           \/ next = None
        THEN t
        ELSE IF Told(t, next.frame_number, place.frame) THEN t ELSE Append(t, chance)

\* The errors of the decoder behind the events s.
DecodeEvents(r, s) ==
    LET Places(t, issue) ==
            LET g[j \in 0..Len(issue.locations)] ==
                    IF j = 0 THEN t ELSE Placed(r, g[j - 1], issue, issue.locations[j])
            IN  g[Len(issue.locations)]
        f[k \in 0..Len(r.decode.issues)] ==
            IF k = 0 THEN s
            ELSE LET issue == r.decode.issues[k]
                 IN  IF issue.locations = <<>>
                     THEN Append(f[k - 1], Event(None, "ffmpeg", issue.kind,
                                                 severity_for_decode_issue(issue.kind)))
                     ELSE Places(f[k - 1], issue)
    IN  IF r.decode = None THEN s ELSE f[Len(r.decode.issues)]

\* The recovery windows that no event behind s tells of yet.
WindowEvents(r, s) ==
    LET windows == IF r.h264 # None THEN r.h264.windows
                   ELSE IF r.h265 # None THEN r.h265.windows ELSE <<>>
        Add(t, w) ==
            IF w.next = None THEN t
            ELSE IF Told(t, w.next.frame_number, w.source) THEN t
            ELSE Append(t, [Event(w.next.offset, "random_access", Opportunity, Info)
                               EXCEPT !.frame = w.next.frame_number,
                                      !.numbers = {w.source, w.next.frame_number}])
        f[k \in 0..Len(windows)] == IF k = 0 THEN s ELSE Add(f[k - 1], windows[k])
    IN  f[Len(windows)]

Failures(r) == [k \in 1..Cardinality(r.errors) |->
                    Event(None, "runtime", "execution_error", High)]

\* sort_by_key is stable and puts what has no time at the end.
NotAfter(a, b) == b.offset = None \/ (a.offset # None /\ a.offset <= b.offset)

Sorted(s) ==
    LET Insert(t, e) ==
            LET k == Cardinality({j \in DOMAIN t : NotAfter(t[j], e)})
            IN  SubSeq(t, 1, k) \o <<e>> \o SubSeq(t, k + 1, Len(t))
        f[k \in 0..Len(s)] == IF k = 0 THEN <<>> ELSE Insert(f[k - 1], s[k])
    IN  f[Len(s)]

build_timeline(r) ==
    LET placed  == TransactionEvents(r) \o VideoEvents(r) \o AudioEvents(r)
                       \o CapturedEvents(r)
        decoded == DecodeEvents(r, placed)
    IN  Sorted(WindowEvents(r, decoded) \o Failures(r))
=============================================================================
