---------------------------- MODULE MCRtpDelivery ---------------------------
(* StreamDiagnosis, with RtpDelivery and RtpTracker below it, on eleven    *)
(* packets of six frames in an 8-number space, reordered by up to 3: two   *)
(* groups of pictures, of which the second has another size.               *)
EXTENDS StreamDiagnosis, TLC

\* NextS sends Wire packets; the plain packet set of RtpTracker is unused.
NoPackets == {}

MCFrameOf == 0 :> 0 @@ <<0, 0, 1, 2, 2, 3, 3, 3, 4, 5>>

-----------------------------------------------------------------------------
Nal(type) == [type |-> type, forbidden |-> FALSE, parses |-> TRUE, bits |-> 10]
Set(type, fields) == Nal(type) @@ [id |-> 0, fields |-> fields]

\* A buffer of one and a half frames that is filled at a constant rate.
Hrd == [cpb_count |-> 1, cbr |-> TRUE, bit_rate |-> 100, maximum_bit_rate |-> 100000,
        cpb_size |-> 150, delay_mod |-> 64]

Sps264(width) ==
    Set("sps", [resolution |-> <<width, 48>>, level_idc |-> 10,
                constraint_set3_flag |-> FALSE, max_num_ref_frames |-> 1,
                max_dec_frame_buffering |-> Nothing, max_num_reorder_frames |-> Nothing,
                nal_hrd |-> Hrd, vcl_hrd |-> Nothing,
                clock |-> [units |-> 1, scale |-> 10], fps |-> 3000])
Sps265(width) ==
    Set("sps", [resolution |-> <<width, 48>>, level_idc |-> 30,
                max_dec_pic_buffering |-> 2])
Pps == Set("pps", [sps |-> 0])

\* Supplemental information: a new buffering period, or only the time.
Timing(delay) == [kind |-> "pic_timing", sps |-> 0, delay |-> delay]
Period(delay) == Nal("sei") @@ [messages |->
    <<[kind |-> "buffering_period", sps |-> 0, delay |-> 10], Timing(delay)>>]
Time(delay) == Nal("sei") @@ [messages |-> <<Timing(delay)>>]

Slice(type, begins, bits) ==
    [Nal(type) EXCEPT !.bits = bits] @@ [first_slice |-> begins, pps |-> 0]

Aggregate(nals) == [kind |-> "aggregate", nals |-> nals, fitting |-> Len(nals)]
Fragment(start, end, nal) ==
    [kind |-> "fragment", start |-> start, end |-> end, nals |-> <<nal>>]

\* What the depacketizer of the other codec makes of a payload.
Foreign(codec) == IF codec = "h264" THEN [kind |-> "refused", reason |-> "payload_type"]
                  ELSE [kind |-> "single", nals |-> <<Nal("other")>>]

Sender(codec, payload, marker) ==
    LET other == IF codec = "h264" THEN "h265" ELSE "h264"
    IN  [marker |-> marker,
         payloads |-> (codec :> payload) @@ (other :> Foreign(other)),
         invalid |-> (codec :> FALSE) @@ (other :> (other = "h264"))]

Sent264(n) ==
    CASE n = 0 -> Aggregate(<<Sps264(64), Pps, Period(0)>>)
      [] n = 1 -> Fragment(TRUE, FALSE, Slice("idr", TRUE, 70))
      [] n = 2 -> Fragment(FALSE, TRUE, Slice("idr", TRUE, 70))
      [] n = 3 -> Aggregate(<<Time(10), Slice("slice", TRUE, 90)>>)
      [] n = 4 -> Aggregate(<<Time(20), Slice("slice", TRUE, 40)>>)
      [] n = 5 -> [kind |-> "single", nals |-> <<Slice("slice", FALSE, 50)>>]
      [] n = 6 -> Aggregate(<<Sps264(32), Pps, Period(0)>>)
      [] n = 7 -> Fragment(TRUE, FALSE, Slice("idr", TRUE, 70))
      [] n = 8 -> Fragment(FALSE, TRUE, Slice("idr", TRUE, 70))
      [] n > 8 -> Aggregate(<<Time(10 * (n - 8)), Slice("slice", TRUE, 90)>>)

Sent265(n) ==
    CASE n = 0 -> Aggregate(<<Nal("vps"), Sps265(64), Pps>>)
      [] n = 1 -> Fragment(TRUE, FALSE, Slice("cra", TRUE, 70))
      [] n = 2 -> Fragment(FALSE, TRUE, Slice("cra", TRUE, 70))
      [] n = 5 -> [kind |-> "single", nals |-> <<Slice("slice", FALSE, 50)>>]
      [] n \in {3, 4} \/ n > 8 -> [kind |-> "single", nals |-> <<Slice("slice", TRUE, 90)>>]
      [] n = 6 -> Aggregate(<<Nal("vps"), Sps265(32), Pps>>)
      [] n = 7 -> Fragment(TRUE, FALSE, Slice("idr", TRUE, 70))
      [] n = 8 -> Fragment(FALSE, TRUE, Slice("idr", TRUE, 70))

Ends == {2, 3, 5, 8, 9, 10}

MCSent ==
    "h264" :> [n \in 0..MaxIndex |-> Sender("h264", Sent264(n), n \in Ends)]
    @@ "h265" :> [n \in 0..MaxIndex |-> Sender("h265", Sent265(n), n \in Ends)]

\* The decoder misses a reference in the first frame and shows it black.
Error(kind, word) ==
    [kind |-> kind, mentions |-> {word},
     locations |-> <<[frame |-> 1, visual |-> kind = "black_segment", time |-> 0]>>]
Decoded ==
    [success |-> TRUE, frames |-> 3,
     issues |-> <<Error("missing_reference", "reference"),
                  Error("black_segment", "black_segment")>>]

MCViews ==
    {[sent |-> "h264", declared |-> "h264", probed |-> 3000, decode |-> Decoded],
     [sent |-> "h265", declared |-> Nothing, probed |-> Nothing, decode |-> Nothing]}
=============================================================================
