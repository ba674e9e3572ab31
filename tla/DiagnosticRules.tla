--------------------------- MODULE DiagnosticRules ----------------------------
(***************************************************************************)
(* evaluate of crates/diagnostics/src/lib.rs: which of the 55 rules a      *)
(* result satisfies and how severe each finding is.  A rule's name has an  *)
(* underscore for its dash; wording, confidence and evidence are left out. *)
(*                                                                         *)
(* A result is a record with the fields of AnalysisResult the rules read.  *)
(* Text is what the rules look for in it: errors is the set of the words   *)
(* found in the errors, mentions the set of those found in a decoder's     *)
(* message, a frame size is None, <<width, height>> or, if it cannot be    *)
(* read, <<>>, and a frame rate None, a number or, if it cannot, 0.        *)
(***************************************************************************)
EXTENDS Integers, Sequences, FiniteSets, TLC

CONSTANTS
    LateIdr,          \* 30: the latest frame for the first IDR
    LongGop,          \* 100 frames
    LongWaitFrames,   \* 100
    LongWaitMs,       \* 3000
    None              \* Option::None

Info == 0   Low == 1   Medium == 2   High == 3   Critical == 4

\* RULES, in the order of the table.
SessionSeverity ==
    [RTSP_001 |-> Critical, RTSP_002 |-> High, RTSP_003 |-> Critical,
     RTSP_004 |-> High, RTSP_005 |-> High, RTSP_006 |-> Critical,
     RTSP_007 |-> Critical, RTSP_008 |-> High, RTSP_009 |-> Medium,
     SDP_010 |-> High, SDP_011 |-> Medium]

StreamSeverity ==
    [H264_012 |-> Critical, H264_013 |-> Critical, H264_014 |-> High,
     RTP_015 |-> High, RTP_016 |-> Critical, RTP_017 |-> Medium, RTP_018 |-> Low,
     RTP_019 |-> High, RTP_020 |-> Medium, RTP_021 |-> Medium,
     H264_022 |-> Critical, H264_023 |-> High, H264_024 |-> Medium,
     H264_025 |-> Medium, H264_026 |-> Critical, H264_027 |-> High]

PictureSeverity ==
    [DEC_028 |-> High, DEC_029 |-> High, CMP_030 |-> High, REC_031 |-> Medium,
     CMP_032 |-> Medium, VIS_033 |-> Medium, VIS_034 |-> Medium,
     VID_035 |-> Medium, H265_036 |-> Critical, H265_037 |-> Critical,
     H265_038 |-> Medium, H265_039 |-> Medium, H265_040 |-> High,
     H264_049 |-> Medium, H265_050 |-> Medium]

BufferSeverity ==
    [H264_051 |-> High, H265_052 |-> High, H264_053 |-> High, H264_054 |-> High,
     H264_055 |-> High, VIS_041 |-> High, AUD_042 |-> High, AUD_043 |-> Medium,
     AUD_044 |-> High, AUD_046 |-> Medium, AUD_047 |-> Medium, AUD_048 |-> High,
     AVS_045 |-> High]

Severity == SessionSeverity @@ StreamSeverity @@ PictureSeverity @@ BufferSeverity

-----------------------------------------------------------------------------
Mentioned(r, words) == r.errors \cap words # {}

SetUps(p) == SelectSeq(p.transactions, LAMBDA t : t.method = "SETUP")

InvalidSize(size) == size = <<>> \/ (size # <<>> /\ 0 \in {size[1], size[2]})

WrongSize(r) ==
    /\ r.protocol # None
    /\ \E k \in DOMAIN r.protocol.media :
           /\ r.protocol.media[k].frame_size # None
           /\ InvalidSize(r.protocol.media[k].frame_size)

\* The rules on the session: errors, answers and the description.
SessionEvidence(r) ==
    [RTSP_001 |-> r.protocol = None /\ Mentioned(r, {"connect", "refused"}),
     RTSP_002 |-> Mentioned(r, {"timeout"}),
     RTSP_003 |-> Mentioned(r, {"401", "unauthorized"}),
     RTSP_004 |-> Mentioned(r, {"sdp"}),
     RTSP_005 |-> Mentioned(r, {"control uri"}),
     RTSP_006 |-> \/ Mentioned(r, {"setup"})
                  \/ /\ r.protocol # None /\ SetUps(r.protocol) # <<>>
                     /\ LET s == SetUps(r.protocol) IN s[Len(s)].status >= 400,
     RTSP_007 |-> /\ r.protocol # None /\ r.protocol.rtp.packet_count = 0
                  /\ \E k \in DOMAIN r.protocol.transactions :
                         LET t == r.protocol.transactions[k]
                         IN  t.method = "PLAY" /\ t.status < 300,
     SDP_010  |-> WrongSize(r),
     SDP_011  |-> /\ r.protocol # None
                  /\ \E k \in DOMAIN r.protocol.media :
                         /\ r.protocol.media[k].frame_rate # None
                         /\ r.protocol.media[k].frame_rate <= 0]

-----------------------------------------------------------------------------
\* An issue of one of these kinds was found.
Has(analysis, kinds) ==
    analysis # None /\ \E k \in DOMAIN analysis.issues : analysis.issues[k].kind \in kinds

Reception(r, P(_)) == r.protocol # None /\ P(r.protocol.rtp)

\* The rules on the RTP statistics.
RtpEvidence(r) ==
    [RTP_015 |-> Reception(r, LAMBDA s : s.lost_packets > 0),
     RTP_016 |-> Reception(r, LAMBDA s : s.maximum_sequence_gap > 1 /\ s.lost_packets > 0),
     RTP_017 |-> Reception(r, LAMBDA s : s.out_of_order_packets > 0),
     RTP_018 |-> Reception(r, LAMBDA s : s.duplicate_packets > 0),
     RTP_019 |-> Reception(r, LAMBDA s : s.timestamp_rollbacks > 0),
     RTP_020 |-> Reception(r, LAMBDA s : s.ssrc_changes > 0),
     RTP_021 |-> Has(r.h264, {"missing_marker"})]

\* The first size the description declares and that can be read.
DeclaredSizes(p) == SelectSeq([k \in DOMAIN p.media |-> p.media[k].frame_size],
                              LAMBDA x : x \notin {None, <<>>})

resolution_mismatch(r) ==
    /\ r.protocol # None /\ r.h264 # None /\ r.h264.sps # <<>>
    /\ DeclaredSizes(r.protocol) # <<>>
    /\ DeclaredSizes(r.protocol)[1] # r.h264.sps[1].fields.resolution

\* The rules on an H.264 sample.
H264Evidence(r) ==
    LET h == r.h264
    IN  [H264_012 |-> Has(h, {"missing_sps", "missing_pps"}),
         H264_013 |-> Has(h, {"invalid_sps", "invalid_pps"}),
         H264_014 |-> resolution_mismatch(r),
         H264_022 |-> h # None /\ h.incomplete_nalus > 0,
         H264_023 |-> h # None /\ h.first_frame_is_idr = FALSE,
         H264_024 |-> h # None /\ h.first_idr_frame # None /\ h.first_idr_frame > LateIdr,
         H264_025 |-> h # None /\ h.maximum_gop # None /\ h.maximum_gop > LongGop,
         H264_026 |-> /\ h # None /\ h.idr_positions # <<>>
                      /\ ~h.sps_before_first_idr \/ ~h.pps_before_first_idr,
         H264_027 |-> Has(h, {"resolution_changed"})]

\* A set changed in more than its resolution.
Redefined(analysis) ==
    /\ analysis # None
    /\ \E k \in DOMAIN analysis.changes :
           analysis.changes[k].fields \ {"resolution"} # {}

\* The rules on an H.265 sample.
H265Evidence(r) ==
    LET h == r.h265
    IN  [H265_036 |-> \/ Has(h, {"missing_vps", "missing_sps", "missing_pps"})
                      \/ /\ h # None /\ h.irap_positions # <<>>
                         /\ ~(/\ h.vps_before_first_irap
                              /\ h.sps_before_first_irap
                              /\ h.pps_before_first_irap),
         H265_037 |-> \/ h # None /\ h.incomplete_nalus > 0
                      \/ Has(h, {"fu_header", "missing_start", "missing_end",
                                 "timestamp_changed", "sequence_gap", "length"}),
         H265_038 |-> h # None /\ h.first_frame_is_irap = FALSE,
         H265_039 |-> h # None /\ h.maximum_gop # None /\ h.maximum_gop > LongGop,
         H265_040 |-> Has(h, {"resolution_changed"})]

ChangeEvidence(r) ==
    [H264_049 |-> Redefined(r.h264), H265_050 |-> Redefined(r.h265)]

-----------------------------------------------------------------------------
\* MaxDpbMbs of an H.264 level; level 11 has the buffer of 10 with its flag.
DpbMbs(level, flag) ==
    CASE level = 10 \/ (level = 11 /\ flag) -> 396
      [] level = 11 /\ ~flag                -> 900
      [] level \in {12, 13, 20}             -> 2376
      [] level = 21                         -> 4752
      [] level \in {22, 30}                 -> 8100
      [] level = 31                         -> 18000
      [] level = 32                         -> 20480
      [] level \in {40, 41}                 -> 32768
      [] level = 42                         -> 34816
      [] level = 50                         -> 110400
      [] level \in {51, 52}                 -> 184320
      [] level \in 60..62                   -> 696320
      [] OTHER                              -> None

Least(a, b) == IF a <= b THEN a ELSE b
Blocks(size) == ((size[1] + 15) \div 16) * ((size[2] + 15) \div 16)

\* The declared frames do not fit the level.
h264_level_max_reference_frames(f) ==
    LET mbs     == DpbMbs(f.level_idc, f.constraint_set3_flag)
        maximum == Least(mbs \div Blocks(f.resolution), 16)
        buffers == IF f.max_dec_frame_buffering = None THEN f.max_num_ref_frames
                   ELSE f.max_dec_frame_buffering
    IN  /\ mbs # None /\ Blocks(f.resolution) > 0
        /\ f.max_num_ref_frames > maximum \/ buffers > maximum

LumaSamples(level) ==
    CASE level = 30                         -> 36864
      [] level = 60                         -> 122880
      [] level = 63                         -> 245760
      [] level = 90                         -> 552960
      [] level = 93                         -> 983040
      [] level \in {120, 123}               -> 2228224
      [] level \in {150, 153, 156}          -> 8912896
      [] level \in {180, 183, 186}          -> 35651584
      [] OTHER                              -> None

h265_level_max_dpb_frames(f) ==
    LET luma    == LumaSamples(f.level_idc)
        samples == f.resolution[1] * f.resolution[2]
        maximum == IF samples <= luma \div 4 THEN 16
                   ELSE IF samples <= luma \div 2 THEN 12
                   ELSE IF samples <= (luma * 3) \div 4 THEN 8 ELSE 6
    IN  /\ luma # None /\ samples > 0 /\ samples <= luma
        /\ f.max_dec_pic_buffering # None /\ f.max_dec_pic_buffering > maximum

SomeSps(analysis, P(_)) ==
    analysis # None /\ \E k \in DOMAIN analysis.sps : P(analysis.sps[k].fields)

Contradictory(f) ==
    /\ f.max_dec_frame_buffering # None
    /\ \/ f.max_dec_frame_buffering < f.max_num_ref_frames
       \/ /\ f.max_num_reorder_frames # None
          /\ f.max_num_reorder_frames > f.max_dec_frame_buffering

\* The mean bit rate is more than 5 % above the highest the set declares.
AboveDeclared(f, observed) ==
    LET hrds == {f.nal_hrd, f.vcl_hrd} \ {None}
    IN  /\ hrds # {}
        /\ \A h \in hrds : observed > (h.maximum_bit_rate * 105) \div 100

\* The rules on what a sample declares of the decoder's buffers.
BufferEvidence(r) ==
    LET p == r.protocol
    IN  [H264_051 |-> SomeSps(r.h264, h264_level_max_reference_frames),
         H265_052 |-> SomeSps(r.h265, h265_level_max_dpb_frames),
         H264_053 |-> SomeSps(r.h264, Contradictory),
         H264_054 |-> /\ p # None /\ p.duration # None /\ p.duration >= 1000
                      /\ ~r.quality.capture_truncated /\ p.bit_rate # None
                      /\ SomeSps(r.h264, LAMBDA f : AboveDeclared(f, p.bit_rate)),
         H264_055 |-> /\ r.h264 # None
                      /\ r.h264.hrd.status = "simulated_cbr_single_cpb"
                      /\ \E k \in DOMAIN r.h264.hrd.points :
                             \/ r.h264.hrd.points[k].overflow
                             \/ r.h264.hrd.points[k].underflow]

-----------------------------------------------------------------------------
\* The frames of the result, those of H.264 first.
Frames(r) == IF r.h264 # None THEN r.h264.frames
             ELSE IF r.h265 # None THEN r.h265.frames ELSE <<>>

frame_evidence(r, number) ==
    LET named == {k \in DOMAIN Frames(r) : Frames(r)[k].frame_number = number}
    IN  IF named = {} THEN None
        ELSE Frames(r)[CHOOSE k \in named : \A j \in named : k <= j]

next_random_access_frame(r, number) ==
    LET later == {k \in DOMAIN Frames(r) : /\ Frames(r)[k].idr
                                           /\ Frames(r)[k].frame_number > number}
    IN  IF later = {} THEN None
        ELSE Frames(r)[CHOOSE k \in later : \A j \in later : k <= j]

decode_has(r, words) ==
    /\ r.decode # None
    /\ \E k \in DOMAIN r.decode.issues : r.decode.issues[k].mentions \cap words # {}

Pictorial == {"black_segment", "freeze_segment", "visual_corruption_candidate"}

\* The places of the decoder's own errors behind which there is a random
\* access frame, the first of them in front.
Recoverable(r) ==
    LET f[k \in 0..Len(r.decode.issues)] ==
            IF k = 0 THEN <<>>
            ELSE IF r.decode.issues[k].kind \in Pictorial THEN f[k - 1]
            ELSE f[k - 1] \o r.decode.issues[k].locations
    IN  SelectSeq(f[Len(r.decode.issues)],
                  LAMBDA l : next_random_access_frame(r, l.frame) # None)

\* Until the next random access frame it takes long, in frames or in time.
LongWait(r) ==
    /\ r.decode # None /\ Recoverable(r) # <<>>
    /\ LET number == Recoverable(r)[1].frame
           source == frame_evidence(r, number)
           target == next_random_access_frame(r, number)
       IN  /\ source # None
           /\ \/ target.frame_number - number > LongWaitFrames
              \/ /\ source.offset # None /\ target.offset # None
                 /\ target.offset - source.offset > LongWaitMs

\* The rules on what the decoder and the picture scan say.
PictureEvidence(r) ==
    [DEC_028 |-> decode_has(r, {"reference", "ref pic"}),
     DEC_029 |-> decode_has(r, {"macroblock", "concealment", "mb_type"}),
     REC_031 |-> LongWait(r),
     CMP_032 |-> WrongSize(r) /\ r.decode # None /\ r.decode.success,
     VIS_033 |-> decode_has(r, {"black_segment"}),
     VIS_034 |-> decode_has(r, {"freeze_segment"}),
     VIS_041 |-> decode_has(r, {"visual_corruption_candidate"}),
     VID_035 |-> r.frame_rate_conflict]

\* A reliable statement on sound.
Heard(r, P(_)) == r.audio # None /\ r.audio.conclusion_reliable /\ P(r.audio)
Interval(a, kind) == \E k \in DOMAIN a.intervals : a.intervals[k].kind = kind

\* Sound is early or late by content, or by the clocks of one source.
OutOfSync(sync) ==
    \/ /\ sync.content_confidence # None /\ sync.content_confidence >= 75
       /\ sync.content_offset # None /\ sync.content_offset \notin -80..80
    \/ /\ sync.confidence >= 80
       /\ sync.status \in {"audio_clock_late", "audio_clock_early"}
       /\ sync.offset # None /\ sync.offset \notin -80..80

\* The rules on sound; differences are in thousandths.
AudioEvidence(r) ==
    [AUD_042 |-> r.audio # None /\ (r.audio.gaps > 0 \/ r.audio.overlaps > 0),
     AUD_043 |-> Heard(r, LAMBDA a : Has(a, {"near_silence"})),
     AUD_044 |-> Heard(r, LAMBDA a : Has(a, {"clipping"})),
     AUD_046 |-> Heard(r, LAMBDA a : Interval(a, "level_jump_candidate")),
     AUD_047 |-> Heard(r, LAMBDA a : a.level_difference # None
                                     /\ a.level_difference >= 6000),
     AUD_048 |-> Heard(r, LAMBDA a : a.correlation # None /\ a.correlation <= -800),
     AVS_045 |-> \E k \in DOMAIN r.av_sync : OutOfSync(r.av_sync[k])]

-----------------------------------------------------------------------------
\* evidence_for; RTSP_008, RTSP_009 and CMP_030 are in the table only.
Evidence(r) ==
    SessionEvidence(r) @@ RtpEvidence(r) @@ H264Evidence(r) @@ H265Evidence(r)
        @@ ChangeEvidence(r) @@ BufferEvidence(r) @@ PictureEvidence(r)
        @@ AudioEvidence(r)

\* The rules a small sample can only hint at: all but those on the session,
\* on the picture and on frame rates.
Uncertain ==
    DOMAIN Severity \ ((DOMAIN SessionSeverity \ {"RTSP_007"}) \cup
        {"REC_031", "VIS_033", "VIS_034", "VID_035", "VIS_041"})

Weighed(r, id) ==
    IF r.quality.assessed /\ ~r.quality.sufficient /\ id \in Uncertain
    THEN Least(Severity[id], Medium) ELSE Severity[id]

\* evaluate: the findings with their severities; a summary has none, and a
\* capture none on a live session.
evaluate(r) ==
    IF r.summary THEN {}
    ELSE LET evidence == Evidence(r)
         IN  {[rule |-> id, severity |-> Weighed(r, id)] :
                  id \in {x \in DOMAIN evidence :
                              /\ evidence[x]
                              /\ r.source = "rtsp" \/ x \notin DOMAIN SessionSeverity
                                                          \ {"SDP_010", "SDP_011"}}}
=============================================================================
