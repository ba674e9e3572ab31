---------------------------- MODULE AnalysisTask ----------------------------
(***************************************************************************)
(* The built-in analyses of the desktop application: the front end that    *)
(* starts and cancels them (apps/desktop/src/App.tsx), the commands (apps/ *)
(* desktop/src-tauri/src/lib.rs), the analysis they run on a thread (the   *)
(* steps of AnalysisProgram), the helper processes it waits for (crates/   *)
(* ffmpeg/src/lib.rs, run_with_timeout), and export_media, which the user  *)
(* may start at any time and which waits for a helper in the same way.     *)
(*                                                                         *)
(* All share one process-wide flag, ANALYSIS_CANCELLATION_REQUESTED: a     *)
(* command resets it when it begins, cancel_analysis sets it, and nothing  *)
(* else touches it.                                                        *)
(***************************************************************************)
EXTENDS AnalysisProgram, FiniteSets

CONSTANTS
    Kinds,      \* the kinds of analysis the user asks for
    Captures,   \* what a capture file may hold: sequences of kinds of streams
    Sessions,   \* what a session may bring: [tracks, sample]
    MaxTasks,   \* bound on the analyses started
    MaxExports  \* bound on the exports started

ASSUME TaskAssumption ==
    /\ Kinds \subseteq {"video", "audio", "pcap", "rtsp", "compare"}
    /\ Captures \subseteq Seq({"video", "audio", "wav", "plain"})
    /\ Sessions \subseteq [tracks : Seq({"g711", "packed", "plain"}), sample : BOOLEAN]
    /\ MaxTasks \in Nat /\ MaxExports \in Nat

VARIABLES
    flag,      \* ANALYSIS_CANCELLATION_REQUESTED
    ui,        \* App.tsx: [running, cancelling]
    tools,     \* the tools that are installed
    task,      \* the analysis: [phase, kind, deep, streams, rest, blamed, missing]
    alive,     \* who has a running helper process
    code,      \* how the last helper of each ended, "none" if it has not
    waits,     \* who is in run_with_timeout
    export,    \* export_media: [phase, had, dest, temp]
    pressed,   \* history: the user has cancelled the analysis that runs
    reports,   \* history: the reports of the last analysis
    tasks, exports

work == <<task, reports>>
screen == <<ui, tasks>>
saving == <<export, exports>>
helpers == <<alive, code, waits>>
vars == <<flag, tools, pressed, work, screen, saving, helpers>>

Owners == {"task", "export"}
Head0 == task.rest[1]
Op == Head0.id[1]
Busy == task.phase = "busy"

Idle == [phase |-> "idle", kind |-> "none", deep |-> FALSE, streams |-> 0,
         rest |-> <<>>, blamed |-> {}, missing |-> {}]

NoExport == [phase |-> "idle", had |-> FALSE, dest |-> "none", temp |-> "none"]

Init ==
    /\ flag = FALSE /\ ui = [running |-> FALSE, cancelling |-> FALSE]
    /\ tools \in SUBSET {"ffmpeg", "ffprobe"}
    /\ task = Idle /\ alive = {}
    /\ code = [w \in Owners |-> "none"] /\ waits = {}
    /\ export = NoExport
    /\ pressed = FALSE /\ reports = {} /\ tasks = 0 /\ exports = 0

-----------------------------------------------------------------------------
\* submit and analyzeCaptureStreams (`deep`): the buttons are disabled while
\* `running`.  The second leaves `cancelling` as it is, here and at its end.
Submit(kind, deep) ==
    /\ ~ui.running /\ tasks < MaxTasks
    /\ deep => kind = "pcap"
    /\ tasks' = tasks + 1
    /\ ui' = [ui EXCEPT !.running = TRUE]
    /\ task' = [Idle EXCEPT !.phase = "called", !.kind = kind, !.deep = deep]
    /\ pressed' = FALSE /\ reports' = {}
    /\ UNCHANGED <<flag, tools, saving, helpers>>

\* The command begins, on a thread of its own: a cancel that was quicker than
\* it is lost.
Called ==
    /\ task.phase = "called"
    /\ flag' = FALSE /\ pressed' = FALSE
    /\ task' = [task EXCEPT !.phase = "busy", !.rest = Program(task.kind, tools)]
    /\ UNCHANGED <<tools, reports, screen, saving, helpers>>

\* cancelCurrentAnalysis and cancel_analysis.
Cancel ==
    /\ ui.running /\ ~ui.cancelling
    /\ ui' = [ui EXCEPT !.cancelling = TRUE]
    /\ flag' = TRUE /\ pressed' = TRUE
    /\ UNCHANGED <<tools, work, tasks, saving, helpers>>

\* The front end learns that the command is over.
Return ==
    /\ task.phase \in {"written", "failed", "cancelled"}
    /\ task' = Idle
    /\ ui' = [running |-> FALSE, cancelling |-> ui.cancelling /\ task.deep]
    /\ UNCHANGED <<flag, tools, pressed, reports, tasks, saving, helpers>>

-----------------------------------------------------------------------------
\* run_with_timeout.  It looks at the flag, then at the clock, then waits a
\* tenth of a second for the process to exit, and starts over.
Run(who) ==
    /\ alive' = alive \cup {who} /\ waits' = waits \cup {who}
    /\ code' = [code EXCEPT ![who] = "none"]

\* The process ends by itself, with success or without.
Exit(who) ==
    /\ who \in alive
    /\ alive' = alive \ {who}
    /\ code' \in {[code EXCEPT ![who] = c] : c \in {"ok", "exit"}}
    /\ UNCHANGED <<flag, tools, pressed, work, screen, saving, waits>>

\* Mutant of Kill: the process is left alone.
KillNot(who) == alive' = alive \cup ({who} \cap alive)

\* The process is killed and waited for.
Kill(who) == alive' = alive \ {who}

\* Mutant of Ran: the loop does not look at the flag.
RanDeaf(who, result) ==
    /\ who \in waits /\ waits' = waits \ {who}
    /\ code' = [code EXCEPT ![who] = "none"]
    /\ \/ result = "timeout" /\ Kill(who)
       \/ result \in {"ok", "exit"} /\ code[who] = result /\ UNCHANGED alive

\* Mutant of Ran: the helper has no deadline.
RanEndless(who, result) ==
    /\ who \in waits /\ waits' = waits \ {who}
    /\ code' = [code EXCEPT ![who] = "none"]
    /\ \/ result = "cancel" /\ flag /\ Kill(who)
       \/ result \in {"ok", "exit"} /\ code[who] = result /\ UNCHANGED alive

\* run_with_timeout returns to `who`: a status, or the error of a cancelled or
\* overdue process.
Ran(who, result) ==
    /\ who \in waits /\ waits' = waits \ {who}
    /\ code' = [code EXCEPT ![who] = "none"]
    /\ \/ result = "cancel" /\ flag /\ Kill(who)
       \/ result = "timeout" /\ Kill(who)
       \/ result \in {"ok", "exit"} /\ code[who] = result /\ UNCHANGED alive

-----------------------------------------------------------------------------
\* The analysis goes on with `rest`; of what is missing it keeps what a later
\* step needs.
Onward(rest, missing, blamed) ==
    task' = [task EXCEPT
        !.rest = rest,
        !.missing = {m \in missing : \E i \in DOMAIN rest : m \in rest[i].needs},
        !.blamed = blamed]

Ends(phase) ==
    task' = [task EXCEPT !.phase = phase, !.rest = <<>>, !.missing = {},
                         !.blamed = {}]

Go == Onward(Tail(task.rest), task.missing, task.blamed)

At(op) == Busy /\ task.rest # <<>> /\ Op = op

\* Mutant of Check: the last one of an analysis is left out.
CheckNotLast ==
    /\ At("check")
    /\ IF flag /\ \E i \in 2..Len(task.rest) : task.rest[i].id[1] = "check"
       THEN Ends("cancelled") ELSE Go
    /\ UNCHANGED <<flag, tools, pressed, reports, screen, saving, helpers>>

\* ensure_not_cancelled.
Check ==
    /\ At("check")
    /\ IF flag THEN Ends("cancelled") ELSE Go
    /\ UNCHANGED <<flag, tools, pressed, reports, screen, saving, helpers>>

\* The options, the input file and the report directory; any may be at fault.
Open ==
    /\ At("open")
    /\ Go \/ Ends("failed")
    /\ UNCHANGED <<flag, tools, pressed, reports, screen, saving, helpers>>

\* AnnexBNalus reads the file and looks at the flag before each block.
Nalus ==
    /\ At("nalus")
    /\ \/ flag /\ Ends("cancelled")
       \/ Go
       \/ Ends("failed")
    /\ UNCHANGED <<flag, tools, pressed, reports, screen, saving, helpers>>

\* The capture is read, which the flag also ends; any error that comes while
\* the flag is set counts as a cancel.  Streams nobody selected are not decoded.
Capture ==
    /\ At("capture")
    /\ \/ Ends(IF flag THEN "cancelled" ELSE "failed")
       \/ \E found \in Captures :
             LET streams == IF task.deep THEN found ELSE [i \in DOMAIN found |-> "plain"]
             IN task' = [task EXCEPT !.streams = Len(found),
                                     !.rest = PcapRest(streams, tools) \o Tail(task.rest)]
    /\ UNCHANGED <<flag, tools, pressed, reports, screen, saving, helpers>>

\* The session, which reads the flag between packets, fails or is cancelled ...
SessionFails ==
    /\ At("session")
    /\ IF flag THEN Ends("cancelled")
       ELSE Onward(RtspRest(<<>>, FALSE, tools) \o Tail(task.rest), {}, task.blamed)
    /\ UNCHANGED <<flag, tools, pressed, reports, screen, saving, helpers>>

\* ... or comes to its end, after a duration the user has chosen.
SessionEnds ==
    /\ At("session")
    /\ \E s \in Sessions :
          Onward(RtspRest(s.tracks, s.sample, tools) \o Tail(task.rest), {}, task.blamed)
    /\ UNCHANGED <<flag, tools, pressed, reports, screen, saving, helpers>>

-----------------------------------------------------------------------------
Needless == Head0.needs \cap task.missing # {}

AtHelper == Busy /\ task.rest # <<>> /\ Op \in Helpers /\ "task" \notin waits

Skip ==
    /\ AtHelper /\ Needless
    /\ Onward(Tail(task.rest), task.missing \cup {Head0.id}, task.blamed)
    /\ UNCHANGED <<flag, tools, pressed, reports, screen, saving, helpers>>

\* A step starts its helper, unless that cannot be started.
Spawn ==
    /\ AtHelper /\ ~Needless
    /\ \/ ToolOf(Op) \in tools /\ Run("task") /\ UNCHANGED task
       \/ /\ Onward(Tail(task.rest), task.missing \cup {Head0.id}, task.blamed)
          /\ UNCHANGED helpers
    /\ UNCHANGED <<flag, tools, pressed, reports, screen, saving>>

\* Every failure goes into the errors or the notes of the result, and the
\* analysis goes on.  decode_file passes a bad status on as a result.
Wait(result) ==
    /\ Busy /\ Ran("task", result)
    /\ LET lost == IF result = "ok" \/ (result = "exit" /\ Op = "decode")
                   THEN {} ELSE {Head0.id}
           cut == IF result = "cancel" THEN {Head0.id} ELSE {}
       IN Onward(Tail(task.rest), task.missing \cup lost, task.blamed \cup cut)
    /\ UNCHANGED <<flag, tools, pressed, reports, screen, saving>>

\* write_reports; a comparison is written behind two reports.
Write ==
    /\ Busy /\ task.rest # <<>> /\ Op \in {"report", "comparison"}
    /\ \/ Ends("failed") /\ UNCHANGED reports
       \/ /\ reports' = IF Op = "report"
                        THEN reports \cup {[kind |-> task.kind, streams |-> task.streams,
                                            blamed |-> task.blamed]}
                        ELSE reports
          /\ IF Len(task.rest) = 1 THEN Ends("written")
             ELSE Onward(Tail(task.rest), {}, {})
    /\ UNCHANGED <<flag, tools, pressed, screen, saving, helpers>>

-----------------------------------------------------------------------------
\* export_media: the sample is converted into a temporary file beside the
\* destination (a video is copied, "copying", an audio converted by a helper),
\* the old file is removed, and the temporary one renamed.
ExportBegins ==
    /\ export.phase = "idle" /\ exports < MaxExports
    /\ exports' = exports + 1
    /\ \E had \in BOOLEAN, phase \in {"copying", "converting"} :
          /\ export' = [phase |-> phase, had |-> had, temp |-> "part",
                        dest |-> IF had THEN "old" ELSE "none"]
          /\ IF phase = "copying" THEN UNCHANGED helpers
             ELSE "ffmpeg" \in tools /\ Run("export")
    /\ UNCHANGED <<flag, tools, pressed, work, screen>>

Copied ==
    /\ export.phase = "copying"
    /\ \/ export' = [export EXCEPT !.phase = "made", !.temp = "whole"]
       \/ export' = [export EXCEPT !.phase = "over", !.temp = "none"]
    /\ UNCHANGED <<flag, tools, pressed, work, screen, exports, helpers>>

\* Mutant of Converted: any status is as good as success.
ConvertedAnyhow(result) ==
    /\ export.phase = "converting" /\ Ran("export", result)
    /\ IF result \in {"ok", "exit"}
       THEN export' = [export EXCEPT !.phase = "made",
                                     !.temp = IF result = "ok" THEN "whole" ELSE "part"]
       ELSE export' = [export EXCEPT !.phase = "over", !.temp = "none"]
    /\ UNCHANGED <<flag, tools, pressed, work, screen, exports>>

\* export_audio_segment looks at the status, the size and the duration.
Converted(result) ==
    /\ export.phase = "converting" /\ Ran("export", result)
    /\ export' = IF result = "ok"
                 THEN [export EXCEPT !.phase = "made", !.temp = "whole"]
                 ELSE [export EXCEPT !.phase = "over", !.temp = "none"]
    /\ UNCHANGED <<flag, tools, pressed, work, screen, exports>>

\* The old file is removed, or cannot be, which leaves the temporary one.
RemoveOld ==
    /\ export.phase = "made"
    /\ \/ export' = [export EXCEPT !.phase = "bare", !.dest = "none"]
       \/ export.had /\ export' = [export EXCEPT !.phase = "over"]
    /\ UNCHANGED <<flag, tools, pressed, work, screen, exports, helpers>>

\* The rename; where it fails the temporary file is removed too.
Rename ==
    /\ export.phase = "bare"
    /\ \/ export' = [export EXCEPT !.phase = "over", !.dest = export.temp, !.temp = "none"]
       \/ export' = [export EXCEPT !.phase = "lost", !.temp = "none"]
    /\ UNCHANGED <<flag, tools, pressed, work, screen, exports, helpers>>

\* The user has seen the answer.
ExportSeen ==
    /\ export.phase \in {"over", "lost"}
    /\ export' = NoExport
    /\ UNCHANGED <<flag, tools, pressed, work, screen, exports, helpers>>

-----------------------------------------------------------------------------
\* What the analysis does without waiting for the session's end, for a helper
\* to exit or for the clock.
Proceed ==
    \/ Called \/ Check \/ Open \/ Nalus \/ Capture \/ Skip \/ Spawn \/ Write \/ Return
    \/ Wait("ok") \/ Wait("exit") \/ Wait("cancel")

\* And what it does because time passes.
Overdue == Wait("timeout") \/ SessionEnds

Saves ==
    \/ ExportBegins \/ Copied \/ RemoveOld \/ Rename \/ ExportSeen
    \/ \E result \in {"ok", "exit", "timeout", "cancel"} : Converted(result)

Next ==
    \/ \E kind \in Kinds, deep \in BOOLEAN : Submit(kind, deep)
    \/ Cancel \/ Proceed \/ SessionFails \/ Overdue \/ Saves
    \/ \E who \in Owners : Exit(who)

\* The thread runs, and the session looks at the flag.  Nothing is assumed of
\* the helpers or of the user.
Fairness == WF_vars(Proceed) /\ WF_vars(SessionFails /\ flag)

Spec == Init /\ [][Next]_vars /\ Fairness

-----------------------------------------------------------------------------
\* The outcome tells who ended the analysis.  It is cancelled only if the user
\* has cancelled this one, and a report blames no helper for an end the user
\* has brought about: a cancel is noticed before the report is written.  Only
\* where the analysis looks at the flag no more may one be cut: the preview of
\* a video file, and the last stream and the pairs of a capture.
OutcomeIsHonest ==
    /\ task.phase = "cancelled" => pressed
    /\ \A r \in reports :
          /\ r.kind \in {"audio", "rtsp", "compare"} => r.blamed = {}
          /\ r.kind = "video" => r.blamed \subseteq {<<"preview", 1, 0>>}
          /\ r.kind = "pcap" => \A b \in r.blamed :
                b[1] \in {"flash", "beep"} \/ b[2] = r.streams

\* The analysis has no helper but the one it waits for, so none when it is
\* over; nor has an export.
HelpersEnd ==
    /\ alive \subseteq waits
    /\ "task" \in waits => Busy /\ Op \in Helpers
    /\ "export" \in waits => export.phase = "converting"

\* Whatever fails, the file the user has chosen is the old one, a complete
\* new one, or absent; and an old one is absent only while the complete new
\* one is in the temporary file, or where the rename has failed.
ExportIsWhole ==
    /\ export.dest # "part"
    /\ export.had /\ export.dest = "none" =>
          export.temp = "whole" \/ export.phase = "lost"

\* Once the flag is set the analysis ends, without waiting for a helper to
\* exit, for a deadline or for the end of the session.
CancelStops == flag /\ Busy ~> ~Busy

\* Every analysis ends, cancelled or not, whatever its helpers do: because
\* each has a deadline.
EveryTaskEnds == WF_vars(Overdue) => (ui.running ~> ~ui.running)
=============================================================================
