-------------------------- MODULE AnalysisProgram --------------------------
(***************************************************************************)
(* What each built-in analysis does, in order (crates/analyzer/src/lib.rs  *)
(* and the functions of crates/ffmpeg/src/lib.rs it calls): a sequence of  *)
(* steps, of which most start a helper process.                            *)
(*                                                                         *)
(* A step has an id <<operation, index, other index>>, where the indices   *)
(* name the stream, the track or the pair it is about, and the ids of the  *)
(* steps it needs: where one of those brought nothing it is passed over.   *)
(* What the helpers find, and the rules that make a diagnosis of it, are   *)
(* left out.                                                               *)
(***************************************************************************)
EXTENDS Naturals, Sequences, SequencesExt

Step(op, i, needs) == <<[id |-> <<op, i, 0>>, needs |-> needs]>>

Plain(op) == Step(op, 0, {})

If(condition, steps) == IF condition THEN steps ELSE <<>>

Probes == {"probe_file", "frames"}

Conversions == {"decode", "scan", "preview", "pcm", "loudness", "preview_audio",
                "flash", "beep"}

Helpers == Probes \cup Conversions

\* The tool a helper step runs.
ToolOf(op) == IF op \in Probes THEN "ffprobe" ELSE "ffmpeg"

-----------------------------------------------------------------------------
\* The helpers, each one call of run_with_timeout.
probe_file(i) == Step("probe_file", i, {})
probe_video_frames(i) == Step("frames", i, {})
scan_visual_artifacts(i) == Step("scan", i, {<<"decode", i, 0>>})
create_preview_video(i) == Step("preview", i, {})
create_analysis_audio(i) == Step("pcm", i, {})
measure_audio_loudness(i, needs) == Step("loudness", i, needs)
create_preview_audio(i) == Step("preview_audio", i, {})

\* decode_file scans the picture once ffmpeg has run to its end, whatever it
\* has returned.
decode_file(i) == Step("decode", i, {}) \o scan_visual_artifacts(i)

\* The loudness is that of the analysis file; the preview is made anyway.
analyze_audio_source(i) ==
    create_analysis_audio(i) \o measure_audio_loudness(i, {<<"pcm", i, 0>>})
        \o create_preview_audio(i)

apply_loudness_measurement(i) == measure_audio_loudness(i, {})

\* measure_content_av_sync, for a video v and an audio a: flashes, then beeps.
measure_content_av_sync(v, a, needs) ==
    <<[id |-> <<"flash", v, a>>, needs |-> needs],
      [id |-> <<"beep", v, a>>, needs |-> {<<"flash", v, a>>}]>>

-----------------------------------------------------------------------------
\* analyze_h264_file and analyze_h265_file; the preview belongs to
\* finish_reports, behind the last look at the flag.
analyze_video_file(tools) ==
    Plain("check") \o Plain("open") \o Plain("nalus") \o Plain("check")
        \o If("ffprobe" \in tools,
              probe_file(1) \o probe_video_frames(1))
        \o Plain("check") \o If("ffmpeg" \in tools, decode_file(1))
        \o Plain("check") \o If("ffmpeg" \in tools, create_preview_video(1))
        \o Plain("report")

analyze_audio_file(tools) ==
    Plain("check") \o Plain("open") \o Plain("check")
        \o If("ffmpeg" \in tools, analyze_audio_source(1))
        \o Plain("check") \o Plain("report")

-----------------------------------------------------------------------------
\* A selected stream of a capture: a video sample, an audio sample to convert,
\* one that is a WAV file already (measured without asking whether ffmpeg is
\* there), or nothing to decode.
analyze_captured_stream(kind, i, tools) ==
    CASE kind = "video" ->
            If("ffprobe" \in tools,
               probe_file(i) \o probe_video_frames(i))
            \o If("ffmpeg" \in tools, decode_file(i) \o create_preview_video(i))
      [] kind = "audio" -> If("ffmpeg" \in tools, analyze_audio_source(i))
      [] kind = "wav" -> apply_loudness_measurement(i)
      [] OTHER -> <<>>

\* The pairs of a video and an audio stream that both have a preview; a WAV
\* sample is its own.
enrich_pcap_content_sync(streams, tools) ==
    LET has(i, kinds) == i \in DOMAIN streams /\ streams[i] \in kinds
        made(a) == IF streams[a] = "audio" THEN {<<"preview_audio", a, 0>>} ELSE {}
        pair(v, a) ==
            If(has(v, {"video"}) /\ has(a, {"audio", "wav"}) /\ "ffmpeg" \in tools,
               measure_content_av_sync(v, a, {<<"preview", v, 0>>} \cup made(a)))
        pairs(v) == FlattenSeq([a \in DOMAIN streams |-> pair(v, a)])
    IN FlattenSeq([v \in DOMAIN streams |-> pairs(v)])

\* analyze_pcap_file_with_progress: what follows once the capture is read.  It
\* looks at the flag before each stream and not behind the last one.
AnalyzePcap == Plain("check") \o Plain("open") \o Plain("capture")

PcapRest(streams, tools) ==
    FlattenSeq([i \in DOMAIN streams |->
            Plain("check") \o analyze_captured_stream(streams[i], i, tools)])
        \o enrich_pcap_content_sync(streams, tools)
        \o Plain("report")

-----------------------------------------------------------------------------
\* A track of a session: G.711, whose WAV file is written while the packets
\* are unpacked; a codec that is packed into a file first; or nothing usable.
analyze_rtsp_audio_track(kind, i, tools) ==
    CASE "ffmpeg" \notin tools -> <<>>
      [] kind = "g711" -> apply_loudness_measurement(i)
      [] kind = "packed" -> analyze_audio_source(i)
      [] OTHER -> <<>>

enrich_rtsp_content_sync(tracks) ==
    LET made(a) == IF tracks[a] = "packed" THEN {<<"preview_audio", a, 0>>} ELSE {}
        pair(a) == If(tracks[a] \in {"g711", "packed"},
                      measure_content_av_sync(0, a, made(a)))
    IN FlattenSeq([a \in DOMAIN tracks |-> pair(a)])

\* analyze_rtsp_with_progress, and what follows in it once the session is
\* over; `sample` says whether that brought a video sample.
AnalyzeRtsp == Plain("check") \o Plain("open") \o Plain("session")

RtspRest(tracks, sample, tools) ==
    FlattenSeq([i \in DOMAIN tracks |->
            analyze_rtsp_audio_track(tracks[i], i, tools)])
        \o Plain("check")
        \o If(sample /\ "ffprobe" \in tools,
              probe_video_frames(0) \o probe_file(0))
        \o Plain("check")
        \o If(sample /\ "ffmpeg" \in tools,
              decode_file(0) \o create_preview_video(0)
                  \o enrich_rtsp_content_sync(tracks))
        \o Plain("check") \o Plain("report")

\* compare_rtsp: over TCP, over UDP, and a comparison of the two results.
CompareRtsp == AnalyzeRtsp \o AnalyzeRtsp \o Plain("comparison")

-----------------------------------------------------------------------------
Program(kind, tools) ==
    CASE kind = "video" -> analyze_video_file(tools)
      [] kind = "audio" -> analyze_audio_file(tools)
      [] kind = "pcap" -> AnalyzePcap
      [] kind = "rtsp" -> AnalyzeRtsp
      [] kind = "compare" -> CompareRtsp
=============================================================================
