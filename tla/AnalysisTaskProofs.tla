------------------------- MODULE AnalysisTaskProofs -------------------------
(***************************************************************************)
(* However many analyses and exports there are, whatever the captures and  *)
(* sessions bring, the helpers do and the user presses: no helper process  *)
(* is left behind, an export never leaves less than the user had, and an   *)
(* analysis is cancelled only by its own user, and does not report what    *)
(* its user has cut as a failure.                                          *)
(*                                                                         *)
(* IInv adds what connects the parts: an analysis that is under way keeps  *)
(* the buttons disabled, a helper has a status only when it is over, and a *)
(* temporary file is complete before the old one is touched.               *)
(*                                                                         *)
(* OInv is about what is ahead of an analysis.  In every program, whatever *)
(* streams a capture or a session brings, a helper has a look at the flag  *)
(* behind it and before the report (Guarded), but for the few MayBeCut     *)
(* names; a program keeps that while it is worked off and extended, so     *)
(* whatever has been cut is answered for before the report is written.     *)
(***************************************************************************)
EXTENDS AnalysisTask, FiniteSetTheorems, WellFoundedInduction, TLAPS

Exports ==
    [phase : {"idle", "copying", "converting", "made", "bare", "over", "lost"},
     had : BOOLEAN, dest : {"none", "old", "whole", "part"},
     temp : {"none", "part", "whole"}]

TypeOK ==
    /\ flag \in BOOLEAN /\ pressed \in BOOLEAN
    /\ ui \in [running : BOOLEAN, cancelling : BOOLEAN]
    /\ code \in [Owners -> {"none", "ok", "exit"}]
    /\ alive \subseteq Owners /\ waits \subseteq Owners
    /\ export \in Exports

\* The fields of a task; what is in them does not matter here.
TaskShape ==
    task = [phase |-> task.phase, kind |-> task.kind, deep |-> task.deep,
            streams |-> task.streams, rest |-> task.rest,
            blamed |-> task.blamed, missing |-> task.missing]

\* The front end waits for the command it has called.
Shown == task.phase # "idle" => ui.running

\* A process that has a status is over.
Reaped == \A who \in Owners : code[who] # "none" => who \notin alive

\* The temporary file is complete before the old one is removed.
MadeFirst ==
    /\ export.phase \in {"made", "bare"} => export.temp = "whole"
    /\ export.phase \in {"copying", "converting", "made"} /\ export.had =>
          export.dest = "old"

\* The flag is reset as the command begins, so one that is seen by it was set
\* for it.
FlagIsOwn ==
    /\ task.phase \notin {"idle", "called"} /\ flag => pressed
    /\ task.phase = "cancelled" => pressed

IInv == TypeOK /\ TaskShape /\ Shown /\ Reaped /\ MadeFirst /\ FlagIsOwn
        /\ HelpersEnd /\ ExportIsWhole

-----------------------------------------------------------------------------
\* The steps that are no helper's.
LEMMA NoHelpers ==
    Helpers \cap {"check", "open", "nalus", "capture", "session", "report",
                  "comparison"} = {}
BY DEF Helpers, Probes, Conversions

\* Nothing runs and nothing is waited for at the start.
LEMMA InitInvariant == Init => IInv
<1> SUFFICES ASSUME Init PROVE IInv
  OBVIOUS
<1>1. TypeOK /\ Reaped /\ MadeFirst /\ ExportIsWhole
  BY DEF Init, TypeOK, Exports, Reaped, MadeFirst, ExportIsWhole, NoExport, Owners
<1>2. TaskShape /\ Shown /\ FlagIsOwn /\ HelpersEnd
  BY DEF Init, TaskShape, Shown, FlagIsOwn, HelpersEnd, Idle
<1> QED
  BY <1>1, <1>2 DEF IInv

\* The analysis goes on, or comes to an end.
Moves ==
    /\ TaskShape'
    /\ task'.phase \in {"busy", "failed", "written"} \/ (flag /\ task'.phase = "cancelled")

\* The first of the two ways a step changes the task.
LEMMA OnwardMoves ==
    ASSUME TaskShape, Busy, NEW rest, NEW missing, NEW blamed, Onward(rest, missing, blamed)
    PROVE  Moves
<1> DEFINE kept == {m \in missing : \E i \in DOMAIN rest : m \in rest[i].needs}
<1>1. task' = [task EXCEPT !.rest = rest, !.missing = kept, !.blamed = blamed]
  BY DEF Onward
<1> HIDE DEF kept
<1>2. task' = [phase |-> task.phase, kind |-> task.kind, deep |-> task.deep,
               streams |-> task.streams, rest |-> rest,
               blamed |-> blamed, missing |-> kept]
  BY <1>1 DEF TaskShape
<1> QED
  BY <1>2 DEF Moves, TaskShape, Busy

\* The other of them.
LEMMA EndsMoves ==
    ASSUME TaskShape, NEW phase, Ends(phase),
           phase \in {"failed", "written"} \/ (flag /\ phase = "cancelled")
    PROVE  Moves
<1>1. task' = [phase |-> phase, kind |-> task.kind, deep |-> task.deep,
               streams |-> task.streams, rest |-> <<>>,
               blamed |-> {}, missing |-> {}]
  BY DEF Ends, TaskShape
<1> QED
  BY <1>1 DEF Moves, TaskShape

\* A step of the analysis that starts no helper and waits for none.
LEMMA PlainStep ==
    ASSUME IInv, Busy, "task" \notin waits, Moves,
           UNCHANGED <<flag, pressed, ui, export, helpers>>
    PROVE  IInv'
<1>1. TypeOK' /\ TaskShape' /\ Reaped' /\ MadeFirst' /\ ExportIsWhole'
  BY DEF IInv, Moves, helpers, TypeOK, Reaped, MadeFirst, ExportIsWhole
<1>2. Shown' /\ FlagIsOwn'
  BY DEF IInv, Moves, Shown, FlagIsOwn, Busy
<1>3. HelpersEnd'
  BY DEF IInv, HelpersEnd, helpers
<1> QED
  BY <1>1, <1>2, <1>3 DEF IInv

\* Where a step is no helper's nobody waits for one.
LEMMA NotWaiting ==
    ASSUME IInv, NEW op, At(op), op \notin Helpers
    PROVE  "task" \notin waits
BY DEF IInv, HelpersEnd, At, Busy, Op

\* A step that leaves the task and what waits for it alone.
LEMMA ApartStep ==
    ASSUME IInv, UNCHANGED <<flag, pressed, ui, work>>
    PROVE  TaskShape' /\ Shown' /\ FlagIsOwn'
BY DEF IInv, work, TaskShape, Shown, FlagIsOwn

-----------------------------------------------------------------------------
\* The buttons.
LEMMA UserSteps ==
    ASSUME IInv, (\E kind \in Kinds, deep \in BOOLEAN : Submit(kind, deep)) \/ Cancel
    PROVE  IInv'
<1>1. CASE \E kind \in Kinds, deep \in BOOLEAN : Submit(kind, deep)
  <2>1. PICK kind \in Kinds, deep \in BOOLEAN : Submit(kind, deep)
    BY <1>1
  <2>2. /\ ~ui.running /\ ui' = [running |-> TRUE, cancelling |-> ui.cancelling]
        /\ task' = [phase |-> "called", kind |-> kind, deep |-> deep, streams |-> 0,
                    rest |-> <<>>, blamed |-> {}, missing |-> {}]
        /\ pressed' = FALSE
        /\ UNCHANGED <<flag, export, alive, code, waits>>
    BY <2>1 DEF Submit, Idle, IInv, TypeOK, saving, helpers
  <2>3. "task" \notin waits
    BY <2>2 DEF IInv, Shown, HelpersEnd, Busy
  <2>4. TypeOK' /\ TaskShape' /\ Reaped' /\ MadeFirst' /\ ExportIsWhole'
    BY <2>2 DEF IInv, TypeOK, TaskShape, Reaped, MadeFirst, ExportIsWhole
  <2>5. Shown' /\ FlagIsOwn'
    BY <2>2 DEF Shown, FlagIsOwn
  <2>6. HelpersEnd'
    BY <2>2, <2>3 DEF IInv, HelpersEnd
  <2> QED
    BY <2>4, <2>5, <2>6 DEF IInv
<1>2. CASE Cancel
  <2>1. /\ ui.running /\ ui' = [running |-> TRUE, cancelling |-> TRUE]
        /\ flag' = TRUE /\ pressed' = TRUE
        /\ UNCHANGED <<task, export, alive, code, waits>>
    BY <1>2 DEF Cancel, IInv, TypeOK, work, saving, helpers
  <2>2. TypeOK' /\ TaskShape' /\ Reaped' /\ MadeFirst' /\ ExportIsWhole'
    BY <2>1 DEF IInv, TypeOK, TaskShape, Reaped, MadeFirst, ExportIsWhole
  <2>3. Shown' /\ FlagIsOwn' /\ HelpersEnd'
    BY <2>1 DEF IInv, Shown, FlagIsOwn, HelpersEnd, Busy, Op, Head0
  <2> QED
    BY <2>2, <2>3 DEF IInv
<1> QED
  BY <1>1, <1>2

\* The command begins with a flag that is down, and ends without a helper.
LEMMA CommandSteps ==
    ASSUME IInv, Called \/ Return
    PROVE  IInv'
<1>1. "task" \notin waits
  BY DEF IInv, HelpersEnd, Busy, Called, Return
<1>2. CASE Called
  <2>1. task' = [task EXCEPT !.phase = "busy", !.rest = Program(task.kind, tools)]
    BY <1>2 DEF Called
  <2>2. TaskShape' /\ task'.phase = "busy"
    BY <2>1 DEF IInv, TaskShape
  <2>3. /\ task.phase = "called" /\ flag' = FALSE /\ pressed' = FALSE
        /\ UNCHANGED <<ui, export, alive, code, waits>>
    BY <1>2 DEF Called, screen, saving, helpers
  <2>4. TypeOK' /\ Reaped' /\ MadeFirst' /\ ExportIsWhole'
    BY <2>3 DEF IInv, TypeOK, Reaped, MadeFirst, ExportIsWhole
  <2>5. Shown' /\ FlagIsOwn' /\ HelpersEnd'
    BY <1>1, <2>2, <2>3 DEF IInv, Shown, FlagIsOwn, HelpersEnd
  <2> QED
    BY <2>2, <2>4, <2>5 DEF IInv
<1>3. CASE Return
  <2>1. /\ task' = Idle
        /\ ui' \in [running : BOOLEAN, cancelling : BOOLEAN]
        /\ UNCHANGED <<flag, pressed, export, alive, code, waits>>
    <3>1. ui' = [running |-> FALSE, cancelling |-> ui.cancelling /\ task.deep]
      BY <1>3 DEF Return
    <3>2. (ui.cancelling /\ task.deep) \in BOOLEAN
      OBVIOUS
    <3> QED
      BY <1>3, <3>1, <3>2 DEF Return, saving, helpers
  <2>2. TypeOK' /\ Reaped' /\ MadeFirst' /\ ExportIsWhole'
    BY <2>1 DEF IInv, TypeOK, Reaped, MadeFirst, ExportIsWhole
  <2>3. TaskShape' /\ Shown' /\ FlagIsOwn' /\ HelpersEnd'
    BY <1>1, <2>1 DEF IInv, Idle, TaskShape, Shown, FlagIsOwn, HelpersEnd
  <2> QED
    BY <2>2, <2>3 DEF IInv
<1> QED
  BY <1>2, <1>3

\* Steps without a helper, the capture and the session.
LEMMA TaskSteps ==
    ASSUME IInv, Check \/ Open \/ Nalus \/ Capture \/ SessionFails \/ SessionEnds
    PROVE  IInv'
<1>1. Busy /\ "task" \notin waits
  BY NoHelpers, NotWaiting DEF Check, Open, Nalus, Capture, SessionFails, SessionEnds, At
<1>2. UNCHANGED <<flag, pressed, ui, export, helpers>>
  BY DEF Check, Open, Nalus, Capture, SessionFails, SessionEnds, screen, saving
<1>3. CASE Check
  BY <1>1, <1>3, OnwardMoves, EndsMoves, <1>2, PlainStep DEF Check, Go, IInv
<1>4. CASE Open
  BY <1>1, <1>4, OnwardMoves, EndsMoves, <1>2, PlainStep DEF Open, Go, IInv
<1>5. CASE Nalus
  BY <1>1, <1>5, OnwardMoves, EndsMoves, <1>2, PlainStep DEF Nalus, Go, IInv
<1>6. CASE Capture
  <2>1. CASE Ends(IF flag THEN "cancelled" ELSE "failed")
    BY <2>1, <1>1, EndsMoves, <1>2, PlainStep DEF IInv
  <2>2. CASE \E found \in Captures :
               LET streams == IF task.deep THEN found ELSE [i \in DOMAIN found |-> "plain"]
               IN task' = [task EXCEPT !.streams = Len(found),
                                       !.rest = PcapRest(streams, tools) \o Tail(task.rest)]
    <3>1. PICK length, rest : task' = [task EXCEPT !.streams = length, !.rest = rest]
      BY <2>2
    <3>2. task' = [phase |-> task.phase, kind |-> task.kind, deep |-> task.deep,
                   streams |-> length, rest |-> rest,
                   blamed |-> task.blamed, missing |-> task.missing]
      BY <3>1 DEF IInv, TaskShape
    <3>3. Moves
      BY <1>1, <3>2 DEF Moves, TaskShape, Busy
    <3> QED
      BY <1>1, <1>2, <3>3, PlainStep
  <2> QED
    BY <1>6, <2>1, <2>2 DEF Capture
<1>7. CASE SessionFails
  BY <1>1, <1>7, OnwardMoves, EndsMoves, <1>2, PlainStep DEF SessionFails, IInv
<1>8. CASE SessionEnds
  <2>1. PICK rest, missing, blamed : Onward(rest, missing, blamed)
    BY <1>8 DEF SessionEnds
  <2> QED
    BY <1>1, <1>2, <2>1, OnwardMoves, PlainStep DEF IInv
<1> QED
  BY <1>3, <1>4, <1>5, <1>6, <1>7, <1>8

\* A step of the analysis that is passed over, or whose helper is started.
LEMMA HelperSteps ==
    ASSUME IInv, Skip \/ Spawn
    PROVE  IInv'
<1>1. Busy /\ "task" \notin waits /\ Op \in Helpers
  BY DEF Skip, Spawn, AtHelper
<1>2. UNCHANGED <<flag, pressed, ui, export>>
  BY DEF Skip, Spawn, screen, saving
<1>3. ASSUME Onward(Tail(task.rest), task.missing \cup {Head0.id}, task.blamed),
             UNCHANGED helpers
      PROVE  IInv'
  BY <1>1, <1>2, <1>3, OnwardMoves, PlainStep DEF IInv
<1>4. ASSUME Run("task"), UNCHANGED task
      PROVE  IInv'
  <2>1. /\ alive' = alive \cup {"task"} /\ waits' = waits \cup {"task"}
        /\ code' = [code EXCEPT !["task"] = "none"]
    BY <1>4 DEF Run
  <2>2. TypeOK' /\ MadeFirst' /\ ExportIsWhole'
    BY <1>2, <2>1 DEF IInv, TypeOK, MadeFirst, ExportIsWhole, Owners
  <2>3. Reaped'
    BY <2>1 DEF IInv, TypeOK, Reaped, Owners
  <2>4. TaskShape' /\ Shown' /\ FlagIsOwn'
    BY <1>2, <1>4 DEF IInv, TaskShape, Shown, FlagIsOwn
  <2>5. HelpersEnd'
    BY <1>1, <1>2, <1>4, <2>1 DEF IInv, HelpersEnd, Busy, Op, Head0
  <2> QED
    BY <2>2, <2>3, <2>4, <2>5 DEF IInv
<1> QED
  BY <1>3, <1>4 DEF Skip, Spawn

\* What run_with_timeout leaves behind when it returns.
LEMMA RanEnds ==
    ASSUME TypeOK, Reaped, alive \subseteq waits, NEW who \in Owners, NEW result,
           Ran(who, result)
    PROVE  /\ who \in waits /\ waits' = waits \ {who} /\ alive' \subseteq waits'
           /\ alive' \subseteq alive /\ Reaped'
           /\ code' \in [Owners -> {"none", "ok", "exit"}]
<1>1. /\ who \in waits /\ waits' = waits \ {who}
      /\ code' = [code EXCEPT ![who] = "none"]
      /\ alive' = alive \ {who} \/ (result \in {"ok", "exit"} /\ code[who] = result /\ alive' = alive)
  BY DEF Ran, Kill
<1>2. alive' = alive \ {who}
  BY <1>1 DEF Reaped
<1>3. \A w \in Owners : w # who => code'[w] = code[w]
  BY <1>1 DEF TypeOK
<1>4. Reaped'
  BY <1>2, <1>3 DEF Reaped
<1>5. code' \in [Owners -> {"none", "ok", "exit"}]
  BY <1>1 DEF TypeOK
<1> QED
  BY <1>1, <1>2, <1>4, <1>5

\* The analysis gets what run_with_timeout returns and goes on.
LEMMA WaitSteps ==
    ASSUME IInv, NEW result, Wait(result)
    PROVE  IInv'
<1>1. Busy /\ Ran("task", result) /\ UNCHANGED <<flag, pressed, ui, export>>
  BY DEF Wait, screen, saving
<1>2. PICK rest, missing, blamed : Onward(rest, missing, blamed)
  BY DEF Wait
<1>3. Moves
  BY <1>1, <1>2, OnwardMoves DEF IInv
<1>4. /\ waits' = waits \ {"task"} /\ alive' \subseteq waits' /\ alive' \subseteq alive
      /\ Reaped' /\ code' \in [Owners -> {"none", "ok", "exit"}]
  BY <1>1, RanEnds DEF IInv, HelpersEnd, Owners
<1>5. TypeOK' /\ MadeFirst' /\ ExportIsWhole'
  BY <1>1, <1>4 DEF IInv, TypeOK, MadeFirst, ExportIsWhole
<1>6. TaskShape' /\ Shown' /\ FlagIsOwn'
  BY <1>1, <1>3 DEF IInv, Moves, Shown, FlagIsOwn, Busy
<1>7. HelpersEnd'
  BY <1>1, <1>4 DEF IInv, HelpersEnd
<1> QED
  BY <1>4, <1>5, <1>6, <1>7 DEF IInv

\* A report is written when no helper is waited for.
LEMMA WriteStep ==
    ASSUME IInv, Write
    PROVE  IInv'
<1>1. Busy /\ Op \notin Helpers /\ UNCHANGED <<flag, pressed, ui, export, helpers>>
  BY NoHelpers DEF Write, screen, saving
<1>2. "task" \notin waits
  BY <1>1 DEF IInv, HelpersEnd
<1>3. (\E phase \in {"failed", "written"} : Ends(phase)) \/ Onward(Tail(task.rest), {}, {})
  BY DEF Write
<1>4. Moves
  BY <1>1, <1>3, OnwardMoves, EndsMoves DEF IInv
<1> QED
  BY <1>1, <1>2, <1>4, PlainStep

\* A process ends by itself.
LEMMA ExitStep ==
    ASSUME IInv, NEW who \in Owners, Exit(who)
    PROVE  IInv'
<1>1. /\ alive' = alive \ {who}
      /\ UNCHANGED <<flag, pressed, ui, work, export, waits>>
  BY DEF Exit, screen, saving
<1>2. PICK c \in {"ok", "exit"} : code' = [code EXCEPT ![who] = c]
  BY DEF Exit
<1>3. TypeOK' /\ MadeFirst' /\ ExportIsWhole'
  BY <1>1, <1>2 DEF IInv, TypeOK, MadeFirst, ExportIsWhole
<1>4. Reaped'
  BY <1>1, <1>2 DEF IInv, TypeOK, Reaped
<1>5. HelpersEnd'
  BY <1>1 DEF IInv, HelpersEnd, work, Busy, Op, Head0
<1> QED
  BY <1>1, <1>3, <1>4, <1>5, ApartStep DEF IInv

-----------------------------------------------------------------------------
\* The steps of export_media.
LEMMA SaveSteps ==
    ASSUME IInv, Saves
    PROVE  IInv'
<1>1. UNCHANGED <<flag, pressed, ui, work>>
  BY DEF Saves, ExportBegins, Copied, RemoveOld, Rename, ExportSeen, Converted, screen
<1>2. TaskShape' /\ Shown' /\ FlagIsOwn'
  BY <1>1, ApartStep
<1>3. CASE ExportBegins
  <2>1. PICK had \in BOOLEAN, phase \in {"copying", "converting"} :
          /\ export' = [phase |-> phase, had |-> had, temp |-> "part",
                        dest |-> IF had THEN "old" ELSE "none"]
          /\ IF phase = "copying" THEN UNCHANGED helpers ELSE Run("export")
    BY <1>3 DEF ExportBegins
  <2>2. /\ export'.phase = phase /\ export'.had = had /\ export'.temp = "part"
        /\ export'.dest = (IF had THEN "old" ELSE "none")
        /\ export' \in Exports
    BY <2>1 DEF Exports
  <2>3. MadeFirst' /\ ExportIsWhole'
    BY <2>2 DEF MadeFirst, ExportIsWhole
  <2>4. export.phase = "idle" /\ "export" \notin waits
    BY <1>3 DEF ExportBegins, IInv, HelpersEnd
  <2>5. \/ UNCHANGED <<alive, waits, code>>
        \/ /\ phase = "converting"
           /\ alive' = alive \cup {"export"} /\ waits' = waits \cup {"export"}
           /\ code' = [code EXCEPT !["export"] = "none"]
    BY <2>1 DEF helpers, Run
  <2>6. TypeOK'
    <3>1. "export" \in Owners
      BY DEF Owners
    <3>2. /\ code' \in [Owners -> {"none", "ok", "exit"}]
          /\ alive' \subseteq Owners /\ waits' \subseteq Owners
      BY <2>5, <3>1 DEF IInv, TypeOK
    <3> QED
      BY <1>1, <2>2, <3>2 DEF IInv, TypeOK
  <2>7. Reaped'
    <3>1. CASE UNCHANGED <<alive, waits, code>>
      BY <3>1 DEF IInv, Reaped
    <3>2. CASE alive' = alive \cup {"export"} /\ code' = [code EXCEPT !["export"] = "none"]
      BY <3>2 DEF IInv, TypeOK, Reaped, Owners
    <3> QED
      BY <2>5, <3>1, <3>2
  <2>8. HelpersEnd'
    <3>1. alive' \subseteq waits' /\ ("export" \in waits' => export'.phase = "converting")
      BY <2>2, <2>4, <2>5 DEF IInv, HelpersEnd
    <3>2. "task" \in waits' => "task" \in waits
      BY <2>5
    <3>3. task' = task
      BY <1>1 DEF work
    <3> QED
      BY <3>1, <3>2, <3>3 DEF IInv, HelpersEnd, Busy, Op, Head0
  <2> QED
    BY <1>2, <2>3, <2>6, <2>7, <2>8 DEF IInv
<1>4. CASE Copied \/ RemoveOld \/ Rename \/ ExportSeen
  <2>1. UNCHANGED <<alive, waits, code>> /\ export.phase # "converting"
    BY <1>4 DEF Copied, RemoveOld, Rename, ExportSeen, helpers
  <2>2. HelpersEnd'
    BY <1>1, <2>1 DEF IInv, HelpersEnd, work, Busy, Op, Head0
  <2>3. Reaped'
    BY <2>1 DEF IInv, Reaped
  <2>4. TypeOK' /\ MadeFirst' /\ ExportIsWhole'
    <3>1. CASE Copied
      BY <1>1, <2>1, <3>1 DEF IInv, TypeOK, Exports, MadeFirst, ExportIsWhole, Copied
    <3>2. CASE RemoveOld
      <4>1. export.phase = "made" /\ export.temp = "whole" /\ export.dest # "part"
            /\ (export.had => export.dest = "old")
        BY <3>2 DEF RemoveOld, IInv, MadeFirst, ExportIsWhole
      <4>2. /\ export'.had = export.had /\ export'.temp = "whole"
            /\ \/ export'.phase = "bare" /\ export'.dest = "none"
               \/ export'.phase = "over" /\ export'.dest = export.dest
            /\ export' \in Exports
        BY <3>2, <4>1 DEF RemoveOld, IInv, TypeOK, Exports
      <4>3. MadeFirst' /\ ExportIsWhole'
        BY <4>1, <4>2 DEF MadeFirst, ExportIsWhole
      <4> QED
        BY <1>1, <2>1, <4>2, <4>3 DEF IInv, TypeOK
    <3>3. CASE Rename
      <4>1. export.phase = "bare" /\ export.temp = "whole" /\ export.dest # "part"
        BY <3>3 DEF Rename, IInv, MadeFirst, ExportIsWhole
      <4>2. /\ export'.had = export.had /\ export'.temp = "none"
            /\ \/ export'.phase = "over" /\ export'.dest = "whole"
               \/ export'.phase = "lost" /\ export'.dest = export.dest
            /\ export' \in Exports
        BY <3>3, <4>1 DEF Rename, IInv, TypeOK, Exports
      <4>3. MadeFirst' /\ ExportIsWhole'
        BY <4>1, <4>2 DEF MadeFirst, ExportIsWhole
      <4> QED
        BY <1>1, <2>1, <4>2, <4>3 DEF IInv, TypeOK
    <3>4. CASE ExportSeen
      BY <1>1, <2>1, <3>4 DEF IInv, TypeOK, Exports, MadeFirst, ExportIsWhole, ExportSeen, NoExport
    <3> QED
      BY <1>4, <3>1, <3>2, <3>3, <3>4
  <2> QED
    BY <1>2, <2>2, <2>3, <2>4 DEF IInv
<1>5. ASSUME NEW result, Converted(result)
      PROVE  IInv'
  <2>1. /\ export.phase = "converting" /\ Ran("export", result)
        /\ \/ export' = [export EXCEPT !.phase = "made", !.temp = "whole"]
           \/ export' = [export EXCEPT !.phase = "over", !.temp = "none"]
    BY <1>5 DEF Converted
  <2>2. /\ waits' = waits \ {"export"} /\ alive' \subseteq waits' /\ alive' \subseteq alive
        /\ Reaped' /\ code' \in [Owners -> {"none", "ok", "exit"}]
    BY <2>1, RanEnds DEF IInv, HelpersEnd, Owners
  <2>3. TypeOK'
    BY <1>1, <2>1, <2>2 DEF IInv, TypeOK, Exports
  <2>4. MadeFirst' /\ ExportIsWhole'
    BY <2>1 DEF IInv, TypeOK, Exports, MadeFirst, ExportIsWhole
  <2>5. HelpersEnd'
    BY <1>1, <2>2 DEF IInv, HelpersEnd, work, Busy, Op, Head0
  <2> QED
    BY <1>2, <2>2, <2>3, <2>4, <2>5 DEF IInv
<1> QED
  BY <1>3, <1>4, <1>5 DEF Saves

\* Every step preserves the invariant.
LEMMA NextInvariant == IInv /\ [Next]_vars => IInv'
<1> SUFFICES ASSUME IInv, [Next]_vars PROVE IInv'
  OBVIOUS
<1>1. CASE UNCHANGED vars
  BY <1>1 DEF vars, work, screen, saving, helpers, IInv, TypeOK, TaskShape, Shown, Reaped,
              MadeFirst, FlagIsOwn, HelpersEnd, ExportIsWhole, Busy, Op, Head0
<1>2. CASE (\E kind \in Kinds, deep \in BOOLEAN : Submit(kind, deep)) \/ Cancel
  BY <1>2, UserSteps
<1>3. CASE Proceed
  BY <1>3, CommandSteps, TaskSteps, HelperSteps, WriteStep, WaitSteps DEF Proceed
<1>4. CASE SessionFails \/ Overdue
  BY <1>4, TaskSteps, WaitSteps DEF Overdue
<1>5. CASE Saves
  BY <1>5, SaveSteps
<1>6. CASE \E who \in Owners : Exit(who)
  BY <1>6, ExitStep
<1> QED
  BY <1>1, <1>2, <1>3, <1>4, <1>5, <1>6 DEF Next

\* The invariant behind the theorems below.
THEOREM TaskInvariant == Spec => []IInv
BY InitInvariant, NextInvariant, PTL DEF Spec

\* run_with_timeout: whatever helpers do, none runs that nobody waits for, and
\* so none when its analysis or its export is over.
THEOREM TaskHelpersEnd == Spec => []HelpersEnd
<1>1. IInv => HelpersEnd
  BY DEF IInv
<1> QED
  BY <1>1, TaskInvariant, PTL

\* export_media: whatever fails or is cut, the chosen file is the old one, a
\* complete new one, or absent, and never absent without a cause.
THEOREM TaskExportIsWhole == Spec => []ExportIsWhole
<1>1. IInv => ExportIsWhole
  BY DEF IInv
<1> QED
  BY <1>1, TaskInvariant, PTL

-----------------------------------------------------------------------------
\* A set of numbers that is not empty has a least one.
LEMMA Least ==
    ASSUME NEW T \in SUBSET Nat, T # {}
    PROVE  \E n \in T : \A m \in T : n <= m
<1> DEFINE intervals == {0..n : n \in T}
           smaller == StrictSubsetOrdering(Nat)
<1>1. intervals # {}
  OBVIOUS
<1>2. intervals \subseteq FiniteSubsetsOf(Nat)
  <2> SUFFICES ASSUME NEW n \in T PROVE 0..n \in FiniteSubsetsOf(Nat)
    OBVIOUS
  <2>1. IsFiniteSet(0..n) /\ 0..n \in SUBSET Nat
    BY FS_Interval
  <2> QED
    BY <2>1 DEF FiniteSubsetsOf
<1>3. PICK x \in intervals : \A y \in intervals : <<y, x>> \notin smaller
  <2>1. IsWellFoundedOn(smaller, FiniteSubsetsOf(Nat))
    BY FS_StrictSubsetOrderingWellFounded
  <2> HIDE DEF intervals, smaller
  <2> QED
    BY <1>1, <1>2, <2>1, WFMin
<1>4. PICK n \in T : x = 0..n
  OBVIOUS
<1>5. ASSUME NEW m \in T, m < n PROVE FALSE
  <2>1. <<0..m, 0..n>> \notin smaller
    BY <1>3, <1>4
  <2>2. 0..m \subseteq 0..n /\ n \in 0..n /\ n \notin 0..m
    BY <1>5
  <2> QED
    BY <2>1, <2>2 DEF StrictSubsetOrdering
<1> QED
  BY <1>4, <1>5


\* Sequences over T that are flattened make one, which ends with the last.
LEMMA Flattened ==
    ASSUME NEW T, NEW ss \in Seq(Seq(T))
    PROVE  /\ FlattenSeq(ss) \in Seq(T)
           /\ ss = <<>> => FlattenSeq(ss) = <<>>
           /\ ss # <<>> => \E front \in Seq(T) : FlattenSeq(ss) = front \o ss[Len(ss)]
<1>1. CASE ss = <<>>
  BY <1>1 DEF FlattenSeq
<1>2. CASE ss # <<>>
  <2> DEFINE n == Len(ss)
             Next1(g, i) == IF i = 1 THEN ss[i] ELSE g[i - 1] \o ss[i]
  <2>1. n \in Nat \ {0} /\ \A i \in 1..n : ss[i] \in Seq(T)
    BY <1>2
  <2> DEFINE Built(g, m) == g \in [1..m -> Seq(T)] /\ \A i \in 1..m : g[i] = Next1(g, i)
             Bad == {m \in Nat : m \in 1..n /\ ~\E g : Built(g, m)}
  <2>2. \E g : Built(g, n)
    <3>1. SUFFICES ASSUME Bad # {} PROVE FALSE
      <4>1. n \in Nat /\ n \in 1..n
        BY <2>1
      <4> HIDE DEF Built, n
      <4> QED
        BY <4>1
    <3>2. PICK m \in Bad : \A k \in Bad : m <= k
      <4>1. Bad \in SUBSET Nat
        OBVIOUS
      <4> HIDE DEF Bad
      <4> QED
        BY <3>1, <4>1, Least
    <3>3. CASE m = 1
      <4> DEFINE g == [i \in 1..1 |-> ss[1]]
      <4>1. Built(g, 1)
        BY <2>1
      <4> QED
        BY <3>2, <3>3, <4>1
    <3>4. CASE m # 1
      <4>1. m \in Nat /\ m - 1 \in 1..n /\ m \in 2..n
        BY <3>2, <3>4, <2>1
      <4>2. \E g : Built(g, m - 1)
        <5>1. m - 1 \notin Bad /\ m - 1 \in Nat
          <6> HIDE DEF Built, n
          <6> QED
            BY <3>2, <4>1
        <5> HIDE DEF Built, n
        <5> QED
          BY <4>1, <5>1
      <4>3. PICK g : Built(g, m - 1)
        BY <4>2
      <4> DEFINE h == [i \in 1..m |-> IF i = m THEN g[m - 1] \o ss[m] ELSE g[i]]
      <4>4. \A i \in 1..m : h[i] \in Seq(T)
        BY <2>1, <4>1, <4>3
      <4>5. \A i \in 1..m : h[i] = Next1(h, i)
        <5> SUFFICES ASSUME NEW i \in 1..m PROVE h[i] = Next1(h, i)
          OBVIOUS
        <5>1. CASE i = m
          <6>1. m - 1 \in 1..m /\ m - 1 # m
            BY <4>1
          <6> QED
            BY <3>4, <5>1, <6>1
        <5>2. CASE i # m
          <6>1. i \in 1..(m - 1) /\ i - 1 # m /\ (i # 1 => i - 1 \in 1..m)
            BY <4>1, <5>2
          <6> QED
            BY <4>3, <5>2, <6>1
        <5> QED
          BY <5>1, <5>2
      <4>6. Built(h, m)
        BY <4>4, <4>5
      <4> HIDE DEF h, Built
      <4> QED
        BY <3>2, <4>6
    <3> QED
      BY <3>3, <3>4
  <2> DEFINE f == CHOOSE g : g = [i \in 1..n |-> Next1(g, i)]
  <2>3. f = [i \in 1..n |-> Next1(f, i)]
    <3>1. PICK g : Built(g, n)
      BY <2>2
    <3>2. g = [i \in 1..n |-> Next1(g, i)]
      BY <3>1
    <3> QED
      BY <3>2
  <2>4. FlattenSeq(ss) = f[n]
    BY <2>1 DEF FlattenSeq
  <2> HIDE DEF f
  <2>5. \A i \in 1..n : f[i] = Next1(f, i)
    BY <2>3
  <2>6. \A i \in 1..n : f[i] \in Seq(T)
    <3> DEFINE Wrong == {i \in Nat : i \in 1..n /\ f[i] \notin Seq(T)}
    <3>1. SUFFICES ASSUME Wrong # {} PROVE FALSE
      OBVIOUS
    <3>2. PICK m \in Wrong : \A k \in Wrong : m <= k
      <4>1. Wrong \in SUBSET Nat
        OBVIOUS
      <4> HIDE DEF Wrong
      <4> QED
        BY <3>1, <4>1, Least
    <3>3. f[m] \in Seq(T)
      <4>1. CASE m = 1
        BY <2>1, <2>5, <3>2, <4>1
      <4>2. CASE m # 1
        <5>1. m - 1 \in 1..n /\ m - 1 \in Nat /\ m - 1 \notin Wrong
          BY <3>2, <4>2, <2>1
        <5>2. f[m] = f[m - 1] \o ss[m] /\ m \in 1..n
          BY <2>5, <3>2, <4>2
        <5> QED
          BY <2>1, <5>1, <5>2
      <4> QED
        BY <4>1, <4>2
    <3> QED
      BY <3>2, <3>3
  <2>7. \E front \in Seq(T) : f[n] = front \o ss[n]
    <3>1. CASE n = 1
      <4>1. f[n] = <<>> \o ss[n]
        BY <2>1, <2>5, <3>1
      <4>2. <<>> \in Seq(T)
        OBVIOUS
      <4> QED
        BY <4>1, <4>2
    <3>2. CASE n # 1
      <4>1. n - 1 \in 1..n /\ n \in 1..n
        <5> HIDE DEF n
        <5> QED
          BY <2>1, <3>2
      <4> QED
        BY <2>5, <2>6, <3>2, <4>1
    <3> QED
      BY <3>1, <3>2
  <2>8. f[n] \in Seq(T)
    <3>1. n \in 1..n
      BY <2>1
    <3> QED
      BY <2>6, <3>1
  <2> QED
    BY <1>2, <2>4, <2>7, <2>8
<1> QED
  BY <1>1, <1>2

\* What a step is; only its operation and its index matter here.
Ops == Helpers \cup {"check", "open", "nalus", "capture", "session", "report", "comparison"}
Ids == Ops \X Nat \X Nat
Steps == [id : Ids, needs : SUBSET Ids]

\* The steps that may be cut by a cancel nobody looks for before the report.
MayBeCut(id, kind, streams) ==
    \/ kind = "video" /\ id = <<"preview", 1, 0>>
    \/ kind = "pcap" /\ (id[1] \in {"flash", "beep"} \/ id[2] = streams)

\* The flag is looked at before the next report.
Covers(s) ==
    \E j \in DOMAIN s : s[j].id[1] = "check" /\ \A k \in 1..(j - 1) : s[k].id[1] # "report"

\* And so it is behind every helper, but for those.
Guarded(s, kind, streams) ==
    \A i \in DOMAIN s : s[i].id[1] \in Helpers =>
        \/ MayBeCut(s[i].id, kind, streams)
        \/ \E j \in (i + 1)..Len(s) :
              s[j].id[1] = "check" /\ \A k \in i..(j - 1) : s[k].id[1] # "report"

\* No helper is run for a report before its capture is read or its session over.
Fresh(s, blamed) ==
    \A j \in DOMAIN s : s[j].id[1] \in {"capture", "session"} =>
        \E k \in 0..(j - 1) :
            /\ IF k = 0 THEN blamed = {} ELSE s[k].id[1] = "report"
            /\ \A m \in (k + 1)..(j - 1) : s[m].id[1] \notin Helpers

\* Of what a capture or a session is read.
Sources(s, kind) ==
    \A j \in DOMAIN s :
        /\ s[j].id[1] = "capture" => kind = "pcap" /\ j = Len(s)
        /\ s[j].id[1] = "session" => kind \in {"rtsp", "compare"}

Ahead(s, kind, streams, blamed) ==
    /\ s \in Seq(Steps)
    /\ Guarded(s, kind, streams) /\ Fresh(s, blamed) /\ Sources(s, kind)

\* Every helper that was cut will be answered for by a look at the flag.
Answered ==
    \A b \in task.blamed : flag /\ (MayBeCut(b, task.kind, task.streams) \/ Covers(task.rest))

ReportIsHonest(r) == \A b \in r.blamed : MayBeCut(b, r.kind, r.streams)

OInv ==
    /\ Ahead(task.rest, task.kind, task.streams, task.blamed)
    /\ Answered
    /\ "task" \in waits => task.rest # <<>>
    /\ ~Busy => task.rest = <<>> /\ task.blamed = {}
    /\ task.phase # "idle" => task.kind \in Kinds
    /\ \A r \in reports : r.kind \in Kinds /\ ReportIsHonest(r)

\* The steps that are neither a report nor a source.
Quiet == {s \in Steps : s.id[1] \notin {"report", "comparison", "capture", "session"}}

\* The helpers of the stream i, and those of the pairs.
Own(i) == {s \in Quiet : s.id[1] \in Helpers /\ s.id[2] = i}
Pairs  == {s \in Quiet : s.id[1] \in {"flash", "beep"}}

\* One step, and in which set it is.
LEMMA StepIs ==
    ASSUME NEW op \in Ops, NEW i \in Nat, NEW needs \in SUBSET Ids
    PROVE  /\ Step(op, i, needs) \in Seq(Steps) /\ Len(Step(op, i, needs)) = 1
           /\ Step(op, i, needs)[1].id = <<op, i, 0>>
           /\ op \notin {"report", "comparison", "capture", "session"} =>
                 /\ Step(op, i, needs) \in Seq(Quiet)
                 /\ op \in Helpers => Step(op, i, needs) \in Seq(Own(i))
<1> DEFINE s == [id |-> <<op, i, 0>>, needs |-> needs]
<1>1. s \in Steps
  BY DEF Steps, Ids
<1>2. s.id[1] = op /\ s.id[2] = i
  OBVIOUS
<1> HIDE DEF s
<1>3. Step(op, i, needs) = <<s>>
  BY DEF Step, s
<1>4. op \notin {"report", "comparison", "capture", "session"} => s \in Quiet
  BY <1>1, <1>2 DEF Quiet
<1>5. s \in Quiet /\ op \in Helpers => s \in Own(i)
  BY <1>2 DEF Own
<1>6. s.id = <<op, i, 0>>
  BY DEF s
<1> QED
  BY <1>1, <1>3, <1>4, <1>5, <1>6

\* The sets of steps, one inside the other.
LEMMA QuietSteps == Quiet \subseteq Steps /\ Pairs \subseteq Quiet /\ \A i : Own(i) \subseteq Quiet
BY DEF Quiet, Pairs, Own

\* The steps of two sequences.
LEMMA Joined ==
    ASSUME NEW a \in Seq(Steps), NEW b \in Seq(Steps)
    PROVE  /\ Len(a) \in Nat /\ Len(b) \in Nat /\ Len(a \o b) = Len(a) + Len(b)
           /\ DOMAIN (a \o b) = 1..(Len(a) + Len(b))
           /\ DOMAIN a = 1..Len(a) /\ DOMAIN b = 1..Len(b)
           /\ \A i \in 1..Len(a) : (a \o b)[i] = a[i]
           /\ \A i \in 1..Len(b) : (a \o b)[i + Len(a)] = b[i]
OBVIOUS

\* The steps of the second are guarded as they were.
LEMMA GuardedBehind ==
    ASSUME NEW a \in Seq(Steps), NEW b \in Seq(Steps), NEW kind, NEW streams,
           Guarded(b, kind, streams), NEW i \in (Len(a) + 1)..(Len(a) + Len(b)),
           (a \o b)[i].id[1] \in Helpers, ~MayBeCut((a \o b)[i].id, kind, streams)
    PROVE  \E j \in (i + 1)..Len(a \o b) :
              (a \o b)[j].id[1] = "check" /\ \A k \in i..(j - 1) : (a \o b)[k].id[1] # "report"
<1> DEFINE c == a \o b
           m == i - Len(a)
<1>0. /\ Len(a) \in Nat /\ Len(b) \in Nat /\ Len(c) = Len(a) + Len(b)
      /\ DOMAIN b = 1..Len(b) /\ \A k \in 1..Len(b) : c[k + Len(a)] = b[k]
  BY Joined
<1> HIDE DEF c
<1>1. m \in 1..Len(b) /\ c[i] = b[m] /\ i = m + Len(a)
  BY <1>0
<1> HIDE DEF m
<1>2. PICK j \in (m + 1)..Len(b) :
         b[j].id[1] = "check" /\ \A k \in m..(j - 1) : b[k].id[1] # "report"
  BY <1>0, <1>1 DEF Guarded, c
<1> DEFINE l == j + Len(a)
<1>3. l \in (i + 1)..Len(c) /\ c[l] = b[j]
  BY <1>0, <1>1, <1>2
<1>4. \A k \in i..(l - 1) : k - Len(a) \in m..(j - 1) /\ c[k] = b[k - Len(a)]
  <2> SUFFICES ASSUME NEW k \in i..(l - 1)
               PROVE  k - Len(a) \in m..(j - 1) /\ c[k] = b[k - Len(a)]
    OBVIOUS
  <2>1. k - Len(a) \in m..(j - 1) /\ k - Len(a) \in 1..Len(b)
    BY <1>0, <1>1, <1>2
  <2>2. c[(k - Len(a)) + Len(a)] = b[k - Len(a)]
    BY <1>0, <2>1
  <2> QED
    BY <1>0, <2>1, <2>2
<1>5. l \in (i + 1)..Len(c) /\ c[l].id[1] = "check" /\ \A k \in i..(l - 1) : c[k].id[1] # "report"
  BY <1>2, <1>3, <1>4
<1> HIDE DEF l
<1> QED
  BY <1>5 DEF c

\* What is guarded by itself is so together.
LEMMA GuardedTogether ==
    ASSUME NEW a \in Seq(Steps), NEW b \in Seq(Steps), NEW kind, NEW streams,
           Guarded(a, kind, streams), Guarded(b, kind, streams)
    PROVE  Guarded(a \o b, kind, streams)
<1> DEFINE c == a \o b
<1>1. /\ Len(a) \in Nat /\ Len(b) \in Nat /\ Len(c) = Len(a) + Len(b)
      /\ DOMAIN c = 1..(Len(a) + Len(b)) /\ DOMAIN a = 1..Len(a)
      /\ \A i \in 1..Len(a) : c[i] = a[i]
  BY Joined
<1> HIDE DEF c
<1> SUFFICES ASSUME NEW i \in DOMAIN c, c[i].id[1] \in Helpers, ~MayBeCut(c[i].id, kind, streams)
             PROVE  \E j \in (i + 1)..Len(c) :
                       c[j].id[1] = "check" /\ \A k \in i..(j - 1) : c[k].id[1] # "report"
  BY DEF Guarded, c
<1>2. CASE i <= Len(a)
  <2>1. i \in 1..Len(a) /\ c[i] = a[i]
    BY <1>1, <1>2
  <2>2. PICK j \in (i + 1)..Len(a) :
           a[j].id[1] = "check" /\ \A k \in i..(j - 1) : a[k].id[1] # "report"
    BY <1>1, <2>1 DEF Guarded
  <2>3. j \in (i + 1)..Len(c) /\ c[j] = a[j] /\ \A k \in i..(j - 1) : c[k] = a[k]
    BY <1>1, <2>1, <2>2
  <2> QED
    BY <2>2, <2>3
<1>3. CASE i > Len(a)
  <2>1. i \in (Len(a) + 1)..(Len(a) + Len(b))
    BY <1>1, <1>3
  <2> QED
    BY <2>1, GuardedBehind DEF c
<1>4. i <= Len(a) \/ i > Len(a)
  <2>1. Len(a) \in Int /\ i \in Int
    BY <1>1
  <2> QED
    BY <2>1
<1> QED
  BY <1>2, <1>3, <1>4

\* A look at the flag covers what is before it, up to a report ...
LEMMA CoversLeft ==
    ASSUME NEW a \in Seq(Steps), NEW b \in Seq(Steps), Covers(a)
    PROVE  Covers(a \o b)
<1>1. PICK j \in DOMAIN a : a[j].id[1] = "check" /\ \A k \in 1..(j - 1) : a[k].id[1] # "report"
  BY DEF Covers
<1>2. j \in DOMAIN (a \o b) /\ (a \o b)[j] = a[j] /\ \A k \in 1..(j - 1) : (a \o b)[k] = a[k]
  OBVIOUS
<1> QED
  BY <1>1, <1>2 DEF Covers

\* ... and so all the steps before it among which there is none.
LEMMA CoversRight ==
    ASSUME NEW a \in Seq(Quiet), NEW b \in Seq(Steps), Covers(b),
           NEW kind, NEW streams, Guarded(b, kind, streams)
    PROVE  Covers(a \o b) /\ Guarded(a \o b, kind, streams)
<1> DEFINE c == a \o b
<1>0. a \in Seq(Steps) /\ \A i \in 1..Len(a) : a[i] \in Quiet
  BY QuietSteps
<1>1. /\ Len(a) \in Nat /\ Len(b) \in Nat /\ Len(c) = Len(a) + Len(b)
      /\ DOMAIN c = 1..(Len(a) + Len(b)) /\ DOMAIN b = 1..Len(b)
      /\ \A i \in 1..Len(a) : c[i] = a[i]
      /\ \A i \in 1..Len(b) : c[i + Len(a)] = b[i]
  BY <1>0, Joined
<1> HIDE DEF c
<1>2. PICK j \in 1..Len(b) : b[j].id[1] = "check" /\ \A k \in 1..(j - 1) : b[k].id[1] # "report"
  BY <1>1 DEF Covers
<1> DEFINE l == j + Len(a)
<1>3. l \in 1..Len(c) /\ l \in DOMAIN c /\ c[l].id[1] = "check" /\ l > Len(a)
  BY <1>1, <1>2
<1>4. \A k \in 1..(l - 1) : c[k].id[1] # "report"
  <2> SUFFICES ASSUME NEW k \in 1..(l - 1) PROVE c[k].id[1] # "report"
    OBVIOUS
  <2>1. CASE k <= Len(a)
    <3>1. k \in 1..Len(a)
      BY <1>1, <2>1
    <3>2. c[k] = a[k] /\ a[k] \in Quiet
      BY <1>0, <1>1, <3>1
    <3> QED
      BY <3>2 DEF Quiet
  <2>2. CASE k > Len(a)
    <3>1. k - Len(a) \in 1..(j - 1) /\ k - Len(a) \in 1..Len(b)
      BY <1>1, <1>2, <2>2
    <3>2. c[(k - Len(a)) + Len(a)] = b[k - Len(a)]
      BY <1>1, <3>1
    <3> QED
      BY <1>1, <1>2, <3>1, <3>2
  <2> QED
    BY <1>1, <2>1, <2>2
<1>5. Covers(c)
  BY <1>3, <1>4 DEF Covers
<1>6. Guarded(c, kind, streams)
  <2> SUFFICES ASSUME NEW i \in DOMAIN c, c[i].id[1] \in Helpers, ~MayBeCut(c[i].id, kind, streams)
               PROVE  \E m \in (i + 1)..Len(c) :
                         c[m].id[1] = "check" /\ \A k \in i..(m - 1) : c[k].id[1] # "report"
    BY DEF Guarded
  <2>1. CASE i <= Len(a)
    <3>1. l \in (i + 1)..Len(c) /\ \A k \in i..(l - 1) : k \in 1..(l - 1)
      BY <1>1, <1>3, <2>1
    <3> HIDE DEF l
    <3> QED
      BY <1>3, <1>4, <3>1
  <2>2. CASE i > Len(a)
    <3>1. i \in (Len(a) + 1)..(Len(a) + Len(b))
      BY <1>1, <2>2
    <3> QED
      BY <1>0, <3>1, GuardedBehind DEF c
  <2> QED
    BY <1>1, <2>1, <2>2
<1> QED
  BY <1>5, <1>6 DEF c

-----------------------------------------------------------------------------
\* The parts of the programs.
Sourceless == {s \in Steps : s.id[1] \notin {"capture", "session"}}

\* The step of an operation that is no helper's.
LEMMA PlainIs ==
    ASSUME NEW op \in Ops, NEW T, {s \in Steps : s.id[1] = op} \subseteq T
    PROVE  Plain(op) \in Seq(T)
<1> DEFINE x == [id |-> <<op, 0, 0>>, needs |-> {}]
<1>1. x \in Steps /\ x.id[1] = op
  BY DEF Steps, Ids
<1>2. Plain(op) = <<x>>
  BY DEF Plain, Step
<1> HIDE DEF x
<1>3. <<x>> \in Seq(T)
  BY <1>1
<1> QED
  BY <1>2, <1>3

\* The same for each of those operations.
LEMMA QuietPlain ==
    /\ \A op \in {"check", "open", "nalus"} : Plain(op) \in Seq(Quiet)
    /\ Plain("report") \in Seq(Sourceless)
    /\ Plain("report") \in Seq(Steps)
    /\ Covers(Plain("check"))
    /\ Quiet \subseteq Sourceless
    /\ \A op \in {"check", "open", "nalus", "report", "capture", "session", "comparison"} :
          /\ Plain(op) \in Seq(Steps) /\ Len(Plain(op)) = 1 /\ Plain(op)[1].id[1] = op
          /\ \A kind, streams : Guarded(Plain(op), kind, streams)
<1>1. ASSUME NEW op \in {"check", "open", "nalus", "report", "capture", "session", "comparison"}
      PROVE  /\ Plain(op) \in Seq(Steps) /\ Len(Plain(op)) = 1 /\ Plain(op)[1].id[1] = op
             /\ op \in {"check", "open", "nalus"} => Plain(op) \in Seq(Quiet)
             /\ \A kind, streams : Guarded(Plain(op), kind, streams)
  <2>1. op \in Ops /\ 0 \in Nat /\ {} \in SUBSET Ids
    BY DEF Ops
  <2>2. /\ Plain(op) \in Seq(Steps) /\ Len(Plain(op)) = 1 /\ Plain(op)[1].id = <<op, 0, 0>>
        /\ op \notin {"report", "comparison", "capture", "session"} => Plain(op) \in Seq(Quiet)
    BY <2>1, StepIs DEF Plain
  <2>3. Plain(op)[1].id[1] = op
    BY <2>2
  <2>4. op \notin Helpers
    BY NoHelpers
  <2> DEFINE s == Plain(op)
  <2>5. s \in Seq(Steps) /\ Len(s) = 1 /\ s[1].id[1] \notin Helpers
    BY <2>2, <2>3, <2>4
  <2> HIDE DEF s
  <2>6. \A kind, streams : Guarded(s, kind, streams)
    BY <2>5 DEF Guarded
  <2> QED
    BY <2>2, <2>3, <2>6 DEF s
<1>2. Covers(Plain("check"))
  <2> DEFINE s == Plain("check")
  <2>1. s \in Seq(Steps) /\ Len(s) = 1 /\ s[1].id[1] = "check"
    BY <1>1
  <2> HIDE DEF s
  <2>2. Covers(s)
    BY <2>1 DEF Covers
  <2> QED
    BY <2>2 DEF s
<1>3. Plain("report") \in Seq(Sourceless)
  <2>1. "report" \in Ops /\ {s \in Steps : s.id[1] = "report"} \subseteq Sourceless
    BY DEF Ops, Sourceless
  <2> QED
    BY <2>1, PlainIs
<1>4. Quiet \subseteq Sourceless
  BY DEF Quiet, Sourceless
<1> QED
  BY <1>1, <1>2, <1>3, <1>4

\* The helpers of one stream, file, track or session.
LEMMA OwnHelpers ==
    ASSUME NEW i \in Nat
    PROVE  /\ probe_file(i) \in Seq(Own(i)) /\ probe_video_frames(i) \in Seq(Own(i))
           /\ decode_file(i) \in Seq(Own(i)) /\ create_preview_video(i) \in Seq(Own(i))
           /\ analyze_audio_source(i) \in Seq(Own(i))
           /\ apply_loudness_measurement(i) \in Seq(Own(i))
           /\ create_preview_video(i) \in Seq(Steps) /\ Len(create_preview_video(i)) = 1
           /\ create_preview_video(i)[1].id = <<"preview", i, 0>>
<1>1. \A op \in Helpers : op \in Ops /\ op \notin {"report", "comparison", "capture", "session"}
  BY NoHelpers DEF Ops
<1>2. {} \in SUBSET Ids /\ \A op \in Ops : {<<op, i, 0>>} \in SUBSET Ids
  BY DEF Ids
<1>3. \A op \in Helpers : \A needs \in SUBSET Ids : Step(op, i, needs) \in Seq(Own(i))
  BY <1>1, StepIs
<1>4. {"probe_file", "frames", "decode", "scan", "preview", "pcm", "loudness", "preview_audio"}
         \subseteq Helpers
  BY DEF Helpers, Probes, Conversions
<1>5. probe_file(i) \in Seq(Own(i)) /\ probe_video_frames(i) \in Seq(Own(i))
  BY <1>2, <1>3, <1>4 DEF probe_file, probe_video_frames
<1>6. Step("decode", i, {}) \in Seq(Own(i)) /\ scan_visual_artifacts(i) \in Seq(Own(i))
  BY <1>1, <1>2, <1>3, <1>4 DEF scan_visual_artifacts
<1>7. decode_file(i) \in Seq(Own(i))
  BY <1>6 DEF decode_file
<1>8. create_preview_video(i) \in Seq(Own(i))
  BY <1>2, <1>3, <1>4 DEF create_preview_video
<1>9. /\ create_analysis_audio(i) \in Seq(Own(i)) /\ create_preview_audio(i) \in Seq(Own(i))
      /\ measure_audio_loudness(i, {}) \in Seq(Own(i))
      /\ measure_audio_loudness(i, {<<"pcm", i, 0>>}) \in Seq(Own(i))
  BY <1>1, <1>2, <1>3, <1>4 DEF create_analysis_audio, create_preview_audio, measure_audio_loudness
<1>10. analyze_audio_source(i) \in Seq(Own(i)) /\ apply_loudness_measurement(i) \in Seq(Own(i))
  BY <1>9 DEF analyze_audio_source, apply_loudness_measurement
<1>11. /\ create_preview_video(i) \in Seq(Steps) /\ Len(create_preview_video(i)) = 1
       /\ create_preview_video(i)[1].id = <<"preview", i, 0>>
  BY <1>1, <1>2, <1>4, StepIs DEF create_preview_video
<1> QED
  BY <1>5, <1>7, <1>8, <1>10, <1>11

\* The helpers of a pair.
LEMMA PairHelpers ==
    ASSUME NEW v \in Nat, NEW a \in Nat, NEW needs \in SUBSET Ids
    PROVE  measure_content_av_sync(v, a, needs) \in Seq(Pairs)
<1> DEFINE s == [id |-> <<"flash", v, a>>, needs |-> needs]
           t == [id |-> <<"beep", v, a>>, needs |-> {<<"flash", v, a>>}]
<1>1. s \in Steps /\ t \in Steps
  <2>1. "flash" \in Ops /\ "beep" \in Ops
    BY DEF Ops, Helpers, Conversions
  <2> QED
    BY <2>1 DEF Steps, Ids
<1>2. s.id[1] = "flash" /\ t.id[1] = "beep"
  OBVIOUS
<1>3. measure_content_av_sync(v, a, needs) = <<s, t>>
  BY DEF measure_content_av_sync
<1> HIDE DEF s, t
<1>4. s \in Pairs /\ t \in Pairs
  BY <1>1, <1>2 DEF Pairs, Quiet
<1> QED
  BY <1>3, <1>4

\* Where the stream is the last of a capture, all its helpers may be cut, as
\* may those of the pairs.
LEMMA OwnGuarded ==
    ASSUME NEW n \in Nat, NEW a \in Seq(Own(n) \cup Pairs)
    PROVE  Guarded(a, "pcap", n)
<1>1. \A i \in DOMAIN a : a[i] \in Own(n) \cup Pairs
  OBVIOUS
<1>2. \A s \in Own(n) \cup Pairs : MayBeCut(s.id, "pcap", n)
  BY DEF Own, Pairs, MayBeCut
<1> QED
  BY <1>1, <1>2 DEF Guarded

\* No source, nothing to be fresh.
LEMMA NoSource ==
    ASSUME NEW a \in Seq(Sourceless)
    PROVE  \A kind, blamed : a \in Seq(Steps) /\ Fresh(a, blamed) /\ Sources(a, kind)
<1>1. \A i \in DOMAIN a : a[i] \in Steps /\ a[i].id[1] \notin {"capture", "session"}
  BY DEF Sourceless
<1>2. a \in Seq(Steps)
  BY DEF Sourceless
<1> QED
  BY <1>1, <1>2 DEF Fresh, Sources

\* A look at the flag before the report guards all.
LEMMA CheckedReport ==
    ASSUME NEW front \in Seq(Quiet)
    PROVE  /\ front \o Plain("check") \o Plain("report") \in Seq(Sourceless)
           /\ \A kind, streams : Guarded(front \o Plain("check") \o Plain("report"), kind, streams)
<1>1. Plain("check") \in Seq(Sourceless) /\ front \in Seq(Sourceless)
      /\ front \in Seq(Steps) /\ Plain("report") \in Seq(Sourceless)
      /\ Plain("report") \in Seq(Steps) /\ Plain("check") \in Seq(Steps)
  BY QuietPlain, QuietSteps
<1>2. front \o Plain("check") \in Seq(Steps)
  BY <1>1
<1>3. \A kind, streams : Guarded(front \o Plain("check"), kind, streams)
  BY <1>1, CoversRight, QuietPlain
<1>4. \A kind, streams : Guarded(front \o Plain("check") \o Plain("report"), kind, streams)
  BY <1>1, <1>2, <1>3, GuardedTogether, QuietPlain
<1> QED
  BY <1>1, <1>4

Ready(s, kind, streams) == s \in Seq(Sourceless) /\ Guarded(s, kind, streams)

\* analyze_h264_file and analyze_h265_file: all but the preview are guarded.
LEMMA VideoProgram ==
    ASSUME NEW t, NEW n
    PROVE  Ready(analyze_video_file(t), "video", n)
<1> DEFINE probes  == If("ffprobe" \in t, probe_file(1) \o probe_video_frames(1))
           decodes == If("ffmpeg" \in t, decode_file(1))
           shows   == If("ffmpeg" \in t, create_preview_video(1))
           front   == Plain("check") \o Plain("open") \o Plain("nalus") \o Plain("check")
                         \o probes \o Plain("check") \o decodes
<1>1. probes \in Seq(Quiet) /\ decodes \in Seq(Quiet) /\ shows \in Seq(Quiet)
  <2>1. /\ probe_file(1) \in Seq(Quiet) /\ probe_video_frames(1) \in Seq(Quiet)
        /\ decode_file(1) \in Seq(Quiet) /\ create_preview_video(1) \in Seq(Quiet)
    <3>1. Own(1) \subseteq Quiet /\ 1 \in Nat
      BY QuietSteps
    <3>2. \A a \in Seq(Own(1)) : a \in Seq(Quiet)
      BY <3>1
    <3> QED
      BY <3>1, <3>2, OwnHelpers
  <2> QED
    BY <2>1 DEF If
<1>2. /\ Plain("check") \in Seq(Quiet) /\ Plain("open") \in Seq(Quiet)
      /\ Plain("nalus") \in Seq(Quiet) /\ Plain("report") \in Seq(Sourceless)
  BY QuietPlain
<1>3. Guarded(shows, "video", n)
  <2>1. CASE "ffmpeg" \in t
    <3>1. Len(shows) = 1 /\ shows[1].id = <<"preview", 1, 0>> /\ shows \in Seq(Steps)
      BY <2>1, OwnHelpers DEF If
    <3> HIDE DEF shows
    <3> QED
      BY <3>1 DEF Guarded, MayBeCut
  <2>2. CASE ~("ffmpeg" \in t)
    BY <2>2 DEF If, Guarded
  <2> QED
    BY <2>1, <2>2
<1>4. analyze_video_file(t) = front \o Plain("check") \o shows \o Plain("report")
  BY DEF analyze_video_file
<1> HIDE DEF probes, decodes, shows
<1>5. front \in Seq(Quiet)
  BY <1>1, <1>2
<1> HIDE DEF front
<1>6. front \o Plain("check") \in Seq(Quiet)
  BY <1>2, <1>5
<1>7. Guarded(front \o Plain("check"), "video", n)
  BY <1>5, QuietPlain, CoversRight
<1>8. front \o Plain("check") \o shows \in Seq(Quiet)
  BY <1>1, <1>6
<1>9. Guarded(front \o Plain("check") \o shows, "video", n)
  <2>1. front \o Plain("check") \in Seq(Steps) /\ shows \in Seq(Steps)
    BY <1>1, <1>6, QuietSteps
  <2> QED
    BY <1>3, <1>7, <2>1, GuardedTogether
<1>10. Guarded(front \o Plain("check") \o shows \o Plain("report"), "video", n)
  <2>1. front \o Plain("check") \o shows \in Seq(Steps) /\ Plain("report") \in Seq(Steps)
        /\ Guarded(Plain("report"), "video", n)
    BY <1>8, QuietSteps, QuietPlain
  <2> QED
    BY <1>9, <2>1, GuardedTogether
<1>11. front \o Plain("check") \o shows \o Plain("report") \in Seq(Sourceless)
  BY <1>2, <1>8, QuietPlain
<1> QED
  BY <1>4, <1>10, <1>11 DEF Ready

\* analyze_audio_file: all are.
LEMMA AudioProgram ==
    ASSUME NEW t, NEW kind, NEW streams
    PROVE  Ready(analyze_audio_file(t), kind, streams)
<1> DEFINE converts == If("ffmpeg" \in t, analyze_audio_source(1))
           front    == Plain("check") \o Plain("open") \o Plain("check") \o converts
<1>1. converts \in Seq(Quiet)
  BY OwnHelpers, QuietSteps DEF If
<1>2. front \in Seq(Quiet)
  <2> HIDE DEF converts
  <2> QED
    BY <1>1, QuietPlain
<1>3. analyze_audio_file(t) = front \o Plain("check") \o Plain("report")
  BY DEF analyze_audio_file
<1> HIDE DEF front
<1> QED
  BY <1>2, <1>3, CheckedReport DEF Ready

\* All that a capture brings is guarded, but for its last stream and its pairs.
LEMMA CaptureProgram ==
    ASSUME NEW streams \in Seq({"video", "audio", "wav", "plain"}), NEW t
    PROVE  Ready(PcapRest(streams, t), "pcap", Len(streams))
<1> DEFINE n == Len(streams)
           of(i) == analyze_captured_stream(streams[i], i, t)
           ss == [i \in DOMAIN streams |-> Plain("check") \o of(i)]
           ee == enrich_pcap_content_sync(streams, t)
<1>1. n \in Nat /\ DOMAIN streams = 1..n
  OBVIOUS
<1>2. ASSUME NEW i \in 1..n PROVE of(i) \in Seq(Own(i))
  <2>1. i \in Nat
    BY <1>1
  <2> QED
    BY <2>1, OwnHelpers DEF analyze_captured_stream, If
<1>3. \A i \in 1..n : Plain("check") \o of(i) \in Seq(Quiet)
  <2> SUFFICES ASSUME NEW i \in 1..n PROVE Plain("check") \o of(i) \in Seq(Quiet)
    OBVIOUS
  <2>1. of(i) \in Seq(Quiet)
    BY <1>2, QuietSteps
  <2> HIDE DEF of
  <2> QED
    BY <2>1, QuietPlain
<1>4. ss \in Seq(Seq(Quiet)) /\ Len(ss) = n
  <2> HIDE DEF of, n
  <2> QED
    BY <1>1, <1>3
<1>5. ee \in Seq(Pairs)
  <2> DEFINE has(i, kinds) == i \in DOMAIN streams /\ streams[i] \in kinds
             made(a) == IF streams[a] = "audio" THEN {<<"preview_audio", a, 0>>} ELSE {}
             pair(v, a) ==
               If(has(v, {"video"}) /\ has(a, {"audio", "wav"}) /\ "ffmpeg" \in t,
                  measure_content_av_sync(v, a, {<<"preview", v, 0>>} \cup made(a)))
             pairs(v) == FlattenSeq([a \in DOMAIN streams |-> pair(v, a)])
  <2>1. ASSUME NEW v \in 1..n, NEW a \in 1..n PROVE pair(v, a) \in Seq(Pairs)
    <3>1. v \in Nat /\ a \in Nat
      BY <1>1
    <3>2. {<<"preview", v, 0>>} \cup made(a) \in SUBSET Ids
      <4>1. "preview" \in Ops /\ "preview_audio" \in Ops
        BY DEF Ops, Helpers, Conversions
      <4> QED
        BY <3>1, <4>1 DEF Ids
    <3> HIDE DEF made
    <3>3. measure_content_av_sync(v, a, {<<"preview", v, 0>>} \cup made(a)) \in Seq(Pairs)
      BY <3>1, <3>2, PairHelpers
    <3> HIDE DEF has
    <3> QED
      BY <3>3 DEF If
  <2>2. ASSUME NEW v \in 1..n PROVE pairs(v) \in Seq(Pairs)
    <3> HIDE DEF pair, n
    <3>1. [a \in DOMAIN streams |-> pair(v, a)] \in Seq(Seq(Pairs))
      BY <1>1, <2>1
    <3> QED
      BY <3>1, Flattened
  <2>3. ee = FlattenSeq([v \in DOMAIN streams |-> pairs(v)])
    BY DEF enrich_pcap_content_sync
  <2> HIDE DEF pairs, n, ee
  <2>4. [v \in DOMAIN streams |-> pairs(v)] \in Seq(Seq(Pairs))
    BY <1>1, <2>2
  <2> QED
    BY <2>3, <2>4, Flattened
<1>6. PcapRest(streams, t) = FlattenSeq(ss) \o ee \o Plain("report")
  BY DEF PcapRest
<1>7. FlattenSeq(ss) \in Seq(Quiet) /\ ee \in Seq(Quiet)
  <2> HIDE DEF ss, ee, n
  <2> QED
    BY <1>4, <1>5, Flattened, QuietSteps
<1>8. Guarded(FlattenSeq(ss), "pcap", n)
  <2>1. CASE n = 0
    <3>1. FlattenSeq(ss) = <<>>
      <4> HIDE DEF ss, n
      <4>1. ss = <<>>
        BY <1>4, <2>1
      <4> QED
        BY <1>4, <4>1, Flattened
    <3> QED
      BY <3>1 DEF Guarded
  <2>2. CASE n # 0
    <3> DEFINE s == Plain("check") \o of(n)
    <3>1. n \in 1..n /\ n \in Nat /\ ss[n] = s
      BY <1>1, <2>2
    <3>2. of(n) \in Seq(Own(n)) /\ of(n) \in Seq(Own(n) \cup Pairs) /\ of(n) \in Seq(Steps)
      <4>1. of(n) \in Seq(Own(n))
        BY <1>2, <3>1
      <4> HIDE DEF of, n
      <4> QED
        BY <4>1, QuietSteps
    <3>3. Guarded(of(n), "pcap", n)
      <4> HIDE DEF of, n
      <4> QED
        BY <3>1, <3>2, OwnGuarded
    <3>4. s \in Seq(Steps) /\ Covers(s) /\ Guarded(s, "pcap", n)
      <4> HIDE DEF of, n
      <4> QED
        BY <3>2, <3>3, QuietPlain, CoversLeft, GuardedTogether
    <3> HIDE DEF s, of
    <3>5. PICK front \in Seq(Quiet) : FlattenSeq(ss) = front \o ss[n]
      <4> HIDE DEF ss, n
      <4>1. ss # <<>>
        BY <1>4, <2>2
      <4> QED
        BY <1>4, <4>1, Flattened
    <3>6. Guarded(front \o s, "pcap", n)
      <4> HIDE DEF n
      <4> QED
        BY <3>4, CoversRight
    <3> QED
      BY <3>1, <3>5, <3>6
  <2> QED
    BY <2>1, <2>2
<1>9. Guarded(ee, "pcap", n)
  <2> HIDE DEF ee, n
  <2>1. ee \in Seq(Own(n) \cup Pairs)
    BY <1>5
  <2> QED
    BY <1>1, <2>1, OwnGuarded
<1> DEFINE ff == FlattenSeq(ss)
<1>10. ff \in Seq(Quiet) /\ Guarded(ff, "pcap", n)
  BY <1>7, <1>8
<1> HIDE DEF ee, ff, n, ss
<1>11. ff \o ee \in Seq(Quiet) /\ Guarded(ff \o ee, "pcap", n)
  <2>1. ff \in Seq(Steps) /\ ee \in Seq(Steps) /\ ff \o ee \in Seq(Quiet)
    BY <1>7, <1>10, QuietSteps
  <2> QED
    BY <1>9, <1>10, <2>1, GuardedTogether
<1>12. ff \o ee \o Plain("report") \in Seq(Sourceless)
       /\ Guarded(ff \o ee \o Plain("report"), "pcap", n)
  <2>1. /\ ff \o ee \in Seq(Steps) /\ ff \o ee \in Seq(Sourceless)
        /\ Plain("report") \in Seq(Steps) /\ Plain("report") \in Seq(Sourceless)
        /\ Guarded(Plain("report"), "pcap", n)
    BY <1>11, QuietSteps, QuietPlain
  <2> HIDE DEF Guarded
  <2>2. Guarded(ff \o ee \o Plain("report"), "pcap", n)
    BY <1>11, <2>1, GuardedTogether
  <2> QED
    BY <2>1, <2>2
<1> QED
  BY <1>6, <1>12 DEF Ready, ff, n

\* What a session brings is guarded whatever follows it.
\* All that a session brings is guarded, and the report is its last step.
LEMMA SessionProgram ==
    ASSUME NEW tracks \in Seq({"g711", "packed", "plain"}), NEW sample \in BOOLEAN, NEW t
    PROVE  /\ \A kind, streams : Ready(RtspRest(tracks, sample, t), kind, streams)
           /\ RtspRest(tracks, sample, t)[Len(RtspRest(tracks, sample, t))].id[1] = "report"
           /\ RtspRest(tracks, sample, t) # <<>>
<1> DEFINE n == Len(tracks)
           of(i) == analyze_rtsp_audio_track(tracks[i], i, t)
           ss == [i \in DOMAIN tracks |-> of(i)]
           ee == enrich_rtsp_content_sync(tracks)
           probes == If(sample /\ "ffprobe" \in t, probe_video_frames(0) \o probe_file(0))
           shows  == If(sample /\ "ffmpeg" \in t, decode_file(0) \o create_preview_video(0) \o ee)
           front  == FlattenSeq(ss) \o Plain("check") \o probes \o Plain("check") \o shows
           all    == front \o Plain("check") \o Plain("report")
<1>1. n \in Nat /\ DOMAIN tracks = 1..n
  OBVIOUS
<1>2. \A i \in Nat : \A a \in Seq(Own(i)) : a \in Seq(Quiet)
  BY QuietSteps
<1>3. ASSUME NEW i \in 1..n PROVE of(i) \in Seq(Quiet)
  <2>1. i \in Nat
    BY <1>1
  <2>2. of(i) \in Seq(Own(i))
    BY <2>1, OwnHelpers DEF analyze_rtsp_audio_track
  <2> HIDE DEF of
  <2> QED
    BY <1>2, <2>1, <2>2
<1>4. ss \in Seq(Seq(Quiet))
  <2> HIDE DEF of, n
  <2> QED
    BY <1>1, <1>3
<1>5. ee \in Seq(Quiet)
  <2> DEFINE made(a) == IF tracks[a] = "packed" THEN {<<"preview_audio", a, 0>>} ELSE {}
             pair(a) == If(tracks[a] \in {"g711", "packed"},
                           measure_content_av_sync(0, a, made(a)))
  <2>1. ASSUME NEW a \in 1..n PROVE pair(a) \in Seq(Pairs)
    <3>1. a \in Nat /\ 0 \in Nat
      BY <1>1
    <3>2. made(a) \in SUBSET Ids
      <4>1. "preview_audio" \in Ops
        BY DEF Ops, Helpers, Conversions
      <4> QED
        BY <3>1, <4>1 DEF Ids
    <3> HIDE DEF made
    <3>3. measure_content_av_sync(0, a, made(a)) \in Seq(Pairs)
      BY <3>1, <3>2, PairHelpers
    <3> QED
      BY <3>3 DEF If
  <2>2. ee = FlattenSeq([a \in DOMAIN tracks |-> pair(a)])
    BY DEF enrich_rtsp_content_sync
  <2> HIDE DEF pair, n, ee
  <2>3. [a \in DOMAIN tracks |-> pair(a)] \in Seq(Seq(Pairs))
    BY <1>1, <2>1
  <2>4. ee \in Seq(Pairs)
    BY <2>2, <2>3, Flattened
  <2> QED
    BY <2>4, QuietSteps
<1>6. FlattenSeq(ss) \in Seq(Quiet)
  <2> HIDE DEF ss
  <2> QED
    BY <1>4, Flattened
<1>7. /\ probe_file(0) \in Seq(Quiet) /\ probe_video_frames(0) \in Seq(Quiet)
      /\ decode_file(0) \in Seq(Quiet) /\ create_preview_video(0) \in Seq(Quiet)
  <2>1. 0 \in Nat
    OBVIOUS
  <2> QED
    BY <1>2, <2>1, OwnHelpers
<1>8. probes \in Seq(Quiet) /\ shows \in Seq(Quiet)
  <2> HIDE DEF ee
  <2> QED
    BY <1>5, <1>7 DEF If
<1>9. RtspRest(tracks, sample, t) = all
  BY DEF RtspRest
<1> DEFINE ff == FlattenSeq(ss)
<1>10. ff \in Seq(Quiet)
  BY <1>6
<1> HIDE DEF ff, probes, shows
<1>11. front \in Seq(Quiet)
  <2>1. front = ff \o Plain("check") \o probes \o Plain("check") \o shows
    BY DEF ff
  <2> HIDE DEF front
  <2>2. ff \o Plain("check") \o probes \o Plain("check") \o shows \in Seq(Quiet)
    BY <1>8, <1>10, QuietPlain
  <2> QED
    BY <2>1, <2>2
<1> HIDE DEF front
<1>12. \A kind, streams : Ready(all, kind, streams)
  BY <1>11, CheckedReport DEF Ready
<1>13. all[Len(all)].id[1] = "report" /\ all # <<>>
  <2> DEFINE a == front \o Plain("check")
             b == Plain("report")
             x == a \o b
  <2>1. a \in Seq(Steps) /\ b \in Seq(Steps) /\ Len(b) = 1 /\ b[1].id[1] = "report"
    BY <1>11, QuietSteps, QuietPlain
  <2> HIDE DEF a, b
  <2>2. /\ Len(x) = Len(a) + Len(b) /\ Len(a) \in Nat
        /\ \A i \in 1..Len(b) : x[i + Len(a)] = b[i]
    BY <2>1, Joined
  <2> HIDE DEF x
  <2>3. x[1 + Len(a)] = b[1] /\ Len(x) = 1 + Len(a) /\ x # <<>>
    BY <2>1, <2>2
  <2> QED
    BY <2>1, <2>3 DEF a, b, x
<1> HIDE DEF all
<1> QED
  BY <1>9, <1>12, <1>13

\* The steps that are no helper's, and the programs of them.
Bare == {s \in Steps : s.id[1] \in {"check", "open", "session", "comparison"}}

\* Such a program needs no guard, and is fresh where nothing was cut.
LEMMA BareSteps ==
    /\ \A op \in {"check", "open", "session", "comparison"} : Plain(op) \in Seq(Bare)
    /\ \A a \in Seq(Bare) : /\ a \in Seq(Steps)
                            /\ \A kind, n : Guarded(a, kind, n)
                            /\ Fresh(a, {})
                            /\ \A kind \in {"rtsp", "compare"} : Sources(a, kind)
<1>1. ASSUME NEW op \in {"check", "open", "session", "comparison"}
      PROVE  Plain(op) \in Seq(Bare)
  <2>1. op \in Ops /\ {s \in Steps : s.id[1] = op} \subseteq Bare
    BY DEF Ops, Bare
  <2> QED
    BY <2>1, PlainIs
<1>2. ASSUME NEW a \in Seq(Bare)
      PROVE  /\ a \in Seq(Steps)
             /\ \A i \in DOMAIN a : a[i].id[1] \notin Helpers /\ a[i].id[1] # "capture"
  <2>1. Bare \subseteq Steps
    BY DEF Bare
  <2>2. \A i \in DOMAIN a : a[i] \in Bare
    OBVIOUS
  <2>3. \A i \in DOMAIN a : a[i].id[1] \notin Helpers /\ a[i].id[1] # "capture"
    BY <2>2, NoHelpers DEF Bare
  <2> QED
    BY <2>1, <2>3
<1>3. ASSUME NEW a \in Seq(Bare)
      PROVE  /\ \A kind, n : Guarded(a, kind, n)
             /\ Fresh(a, {})
             /\ \A kind \in {"rtsp", "compare"} : Sources(a, kind)
  <2>1. \A j \in DOMAIN a : 0 \in 0..(j - 1) /\ \A k \in (0 + 1)..(j - 1) : k \in DOMAIN a
    OBVIOUS
  <2>2. Fresh(a, {})
    BY <1>2, <2>1 DEF Fresh
  <2> QED
    BY <1>2, <2>2 DEF Guarded, Sources
<1> QED
  BY <1>1, <1>2, <1>3

\* The program an analysis begins with.
LEMMA ProgramStart ==
    ASSUME NEW kind \in {"video", "audio", "pcap", "rtsp", "compare"}, NEW t
    PROVE  \A n : Ahead(Program(kind, t), kind, n, {})
<1>1. CASE kind = "video"
  BY <1>1, VideoProgram, NoSource DEF Program, Ahead, Ready
<1>2. CASE kind = "audio"
  BY <1>2, AudioProgram, NoSource DEF Program, Ahead, Ready
<1>3. CASE kind \in {"rtsp", "compare"}
  <2>1. /\ Plain("check") \in Seq(Bare) /\ Plain("open") \in Seq(Bare)
        /\ Plain("session") \in Seq(Bare) /\ Plain("comparison") \in Seq(Bare)
    BY BareSteps
  <2>2. AnalyzeRtsp \in Seq(Bare)
    BY <2>1 DEF AnalyzeRtsp
  <2>3. CompareRtsp \in Seq(Bare)
    BY <2>1, <2>2 DEF CompareRtsp
  <2>4. Program(kind, t) \in Seq(Bare)
    BY <1>3, <2>2, <2>3 DEF Program
  <2> QED
    BY <1>3, <2>4, BareSteps DEF Ahead
<1>4. CASE kind = "pcap"
  <2> DEFINE a == Plain("check") \o Plain("open")
             b == Plain("capture")
             c == a \o b
  <2>1. Program(kind, t) = c
    BY <1>4 DEF Program, AnalyzePcap
  <2> DEFINE D == {s \in Steps : s.id[1] \in {"check", "open"}}
  <2>2. a \in Seq(D) /\ a \in Seq(Steps)
    <3>1. "check" \in Ops /\ {s \in Steps : s.id[1] = "check"} \subseteq D
          /\ "open" \in Ops /\ {s \in Steps : s.id[1] = "open"} \subseteq D
      BY DEF Ops
    <3> HIDE DEF D
    <3>2. Plain("check") \in Seq(D) /\ Plain("open") \in Seq(D)
      BY <3>1, PlainIs
    <3> QED
      BY <3>2, QuietPlain
  <2>3. /\ b \in Seq(Steps) /\ Len(b) = 1 /\ b[1].id[1] = "capture"
    BY QuietPlain
  <2> HIDE DEF a, b
  <2>4. /\ Len(c) = Len(a) + Len(b) /\ DOMAIN c = 1..(Len(a) + Len(b)) /\ Len(a) \in Nat
        /\ (\A i \in 1..Len(a) : c[i] = a[i]) /\ \A i \in 1..Len(b) : c[i + Len(a)] = b[i]
    BY <2>2, <2>3, Joined
  <2>5. c \in Seq(Steps)
    BY <2>2, <2>3
  <2>6. \A i \in 1..Len(a) : a[i] \in D
    BY <2>2
  <2> HIDE DEF c
  <2>7. c[1 + Len(a)] = b[1] /\ Len(c) = Len(a) + 1 /\ DOMAIN c = 1..(Len(a) + 1)
    BY <2>3, <2>4
  <2>8. \A i \in DOMAIN c : c[i].id[1] \notin Helpers /\ c[i].id[1] # "session"
                             /\ (c[i].id[1] = "capture" => i = Len(c))
    <3> SUFFICES ASSUME NEW i \in DOMAIN c
                 PROVE  c[i].id[1] \notin Helpers /\ c[i].id[1] # "session"
                           /\ (c[i].id[1] = "capture" => i = Len(c))
      OBVIOUS
    <3>1. CASE i <= Len(a)
      <4>1. i \in 1..Len(a) /\ i # Len(c)
        BY <2>4, <2>7, <3>1
      <4>2. c[i] \in D
        BY <2>4, <2>6, <4>1
      <4> QED
        BY <4>1, <4>2, NoHelpers
    <3>2. CASE i = 1 + Len(a)
      BY <2>3, <2>4, <2>7, <3>2, NoHelpers
    <3> QED
      BY <2>4, <2>7, <3>1, <3>2
  <2>9. (\A n : Guarded(c, kind, n)) /\ Sources(c, kind)
    BY <1>4, <2>8 DEF Guarded, Sources
  <2>10. Fresh(c, {})
    <3>1. \A j \in DOMAIN c : 0 \in 0..(j - 1) /\ \A k \in (0 + 1)..(j - 1) : k \in DOMAIN c
      BY <2>4, <2>7
    <3> QED
      BY <2>8, <3>1 DEF Fresh
  <2> QED
    BY <2>1, <2>5, <2>9, <2>10 DEF Ahead
<1> QED
  BY <1>1, <1>2, <1>3, <1>4

-----------------------------------------------------------------------------
\* What is ahead when the first step is done: a report answers for all that
\* was cut, and only a helper can be cut.
LEMMA TailAhead ==
    ASSUME NEW s, s # <<>>, NEW kind, NEW streams, NEW blamed, NEW cut,
           Ahead(s, kind, streams, blamed),
           \/ cut = {}
           \/ s[1].id[1] # "report" /\ (cut = blamed \/ s[1].id[1] \in Helpers)
    PROVE  Ahead(Tail(s), kind, streams, cut)
<1> DEFINE u == Tail(s)
<1>1. /\ s \in Seq(Steps) /\ u \in Seq(Steps) /\ Len(s) \in Nat \ {0} /\ Len(u) = Len(s) - 1
      /\ DOMAIN s = 1..Len(s) /\ DOMAIN u = 1..(Len(s) - 1)
      /\ \A i \in 1..(Len(s) - 1) : u[i] = s[i + 1]
  BY DEF Ahead
<1> HIDE DEF u
<1>2. Guarded(u, kind, streams)
  <2> SUFFICES ASSUME NEW i \in DOMAIN u, u[i].id[1] \in Helpers, ~MayBeCut(u[i].id, kind, streams)
               PROVE  \E j \in (i + 1)..Len(u) :
                         u[j].id[1] = "check" /\ \A k \in i..(j - 1) : u[k].id[1] # "report"
    BY DEF Guarded
  <2>1. i + 1 \in DOMAIN s /\ u[i] = s[i + 1]
    BY <1>1
  <2>2. PICK j \in ((i + 1) + 1)..Len(s) :
           s[j].id[1] = "check" /\ \A k \in (i + 1)..(j - 1) : s[k].id[1] # "report"
    BY <2>1 DEF Ahead, Guarded
  <2> DEFINE l == j - 1
  <2>3. l \in (i + 1)..Len(u) /\ u[l] = s[l + 1] /\ l + 1 = j
    BY <1>1, <2>1, <2>2
  <2>4. \A k \in i..(l - 1) : k + 1 \in (i + 1)..(j - 1) /\ u[k] = s[k + 1]
    BY <1>1, <2>1, <2>2
  <2> HIDE DEF l
  <2> QED
    BY <2>2, <2>3, <2>4
<1>3. Sources(u, kind)
  <2> SUFFICES ASSUME NEW j \in DOMAIN u
               PROVE  /\ u[j].id[1] = "capture" => kind = "pcap" /\ j = Len(u)
                      /\ u[j].id[1] = "session" => kind \in {"rtsp", "compare"}
    BY DEF Sources
  <2>1. j + 1 \in DOMAIN s /\ u[j] = s[j + 1] /\ (j + 1 = Len(s) => j = Len(u))
    BY <1>1
  <2> QED
    BY <2>1 DEF Ahead, Sources
<1>4. Fresh(u, cut)
  <2> SUFFICES ASSUME NEW j \in DOMAIN u, u[j].id[1] \in {"capture", "session"}
               PROVE  \E k \in 0..(j - 1) :
                         /\ IF k = 0 THEN cut = {} ELSE u[k].id[1] = "report"
                         /\ \A m \in (k + 1)..(j - 1) : u[m].id[1] \notin Helpers
    BY DEF Fresh
  <2>1. j + 1 \in DOMAIN s /\ u[j] = s[j + 1] /\ j \in 1..(Len(s) - 1)
    BY <1>1
  <2>2. PICK k \in 0..((j + 1) - 1) :
           /\ IF k = 0 THEN blamed = {} ELSE s[k].id[1] = "report"
           /\ \A m \in (k + 1)..((j + 1) - 1) : s[m].id[1] \notin Helpers
    BY <2>1 DEF Ahead, Fresh
  <2> DEFINE l == IF k = 0 THEN 0 ELSE k - 1
  <2>3. l \in 0..(j - 1) /\ \A m \in (l + 1)..(j - 1) : m + 1 \in (k + 1)..((j + 1) - 1) /\ u[m] = s[m + 1]
    BY <1>1, <2>1, <2>2
  <2>4. IF l = 0 THEN cut = {} ELSE u[l].id[1] = "report"
    <3>1. CASE k = 0
      <4>1. s[1].id[1] \notin Helpers
        <5>1. 1 \in (0 + 1)..((j + 1) - 1)
          BY <1>1
        <5> QED
          BY <2>2, <3>1, <5>1
      <4> QED
        BY <2>2, <3>1, <4>1
    <3>2. CASE k = 1
      BY <2>2, <3>2
    <3>3. CASE k \notin {0, 1}
      <4>1. l = k - 1 /\ l \in 1..(Len(s) - 1) /\ l + 1 = k
        BY <1>1, <2>1, <2>2, <3>3
      <4> HIDE DEF l
      <4> QED
        BY <1>1, <2>2, <3>3, <4>1
    <3> QED
      BY <3>1, <3>2, <3>3
  <2> HIDE DEF l
  <2>5. \A m \in (l + 1)..(j - 1) : u[m].id[1] \notin Helpers
    BY <2>2, <2>3
  <2> QED
    BY <2>3, <2>4, <2>5
<1> QED
  BY <1>1, <1>2, <1>3, <1>4 DEF Ahead, u

\* A look at the flag that is ahead is so behind a step that is neither one nor
\* a report.
LEMMA TailCovers ==
    ASSUME NEW s \in Seq(Steps), s # <<>>, Covers(s), s[1].id[1] # "check"
    PROVE  s[1].id[1] # "report" /\ Covers(Tail(s))
<1> DEFINE u == Tail(s)
<1>1. /\ Len(s) \in Nat \ {0} /\ DOMAIN s = 1..Len(s) /\ DOMAIN u = 1..(Len(s) - 1)
      /\ \A i \in 1..(Len(s) - 1) : u[i] = s[i + 1]
  OBVIOUS
<1> HIDE DEF u
<1>2. PICK j \in DOMAIN s : s[j].id[1] = "check" /\ \A k \in 1..(j - 1) : s[k].id[1] # "report"
  BY DEF Covers
<1>3. j \in 2..Len(s) /\ 1 \in 1..(j - 1)
  BY <1>1, <1>2
<1> DEFINE l == j - 1
<1>4. l \in DOMAIN u /\ u[l] = s[l + 1] /\ l + 1 = j
      /\ \A k \in 1..(l - 1) : k + 1 \in 1..(j - 1) /\ u[k] = s[k + 1]
  BY <1>1, <1>3
<1> HIDE DEF l
<1>5. Covers(u)
  BY <1>2, <1>4 DEF Covers
<1> QED
  BY <1>2, <1>3, <1>5 DEF u

\* The first step is guarded by what follows.
LEMMA HeadCovers ==
    ASSUME NEW s \in Seq(Steps), s # <<>>, NEW kind, NEW streams,
           Guarded(s, kind, streams), s[1].id[1] \in Helpers
    PROVE  MayBeCut(s[1].id, kind, streams) \/ Covers(Tail(s))
<1>1. 1 \in DOMAIN s /\ Len(s) \in Nat \ {0}
  OBVIOUS
<1>2. CASE ~MayBeCut(s[1].id, kind, streams)
  <2>1. PICK j \in (1 + 1)..Len(s) :
           s[j].id[1] = "check" /\ \A k \in 1..(j - 1) : s[k].id[1] # "report"
    BY <1>1, <1>2 DEF Guarded
  <2>2. Covers(s)
    BY <2>1 DEF Covers
  <2>3. s[1].id[1] # "check"
    BY NoHelpers
  <2> QED
    BY <2>2, <2>3, TailCovers
<1> QED
  BY <1>2

\* What a session brings comes before what was ahead.
LEMMA SessionAhead ==
    ASSUME NEW r \in Seq(Sourceless), NEW s, NEW kind, NEW streams, NEW blamed, NEW cut,
           Guarded(r, kind, streams), r # <<>>, r[Len(r)].id[1] = "report",
           Ahead(s, kind, streams, blamed)
    PROVE  Ahead(r \o s, kind, streams, cut)
<1> DEFINE u == r \o s
<1>0. r \in Seq(Steps) /\ s \in Seq(Steps) /\ u \in Seq(Steps)
  BY NoSource DEF Ahead
<1>1. /\ Len(r) \in Nat \ {0} /\ Len(s) \in Nat /\ Len(u) = Len(r) + Len(s)
      /\ DOMAIN u = 1..(Len(r) + Len(s)) /\ DOMAIN s = 1..Len(s)
      /\ \A i \in 1..Len(r) : u[i] = r[i]
      /\ \A i \in 1..Len(s) : u[i + Len(r)] = s[i]
  BY <1>0, Joined
<1>2. Guarded(u, kind, streams)
  BY <1>0, GuardedTogether DEF Ahead
<1> HIDE DEF u
<1>3. \A i \in 1..Len(r) : u[i].id[1] \notin {"capture", "session"}
  <2>1. \A i \in 1..Len(r) : r[i] \in Sourceless
    OBVIOUS
  <2> QED
    BY <1>1, <2>1 DEF Sourceless
<1>4. ASSUME NEW j \in DOMAIN u, u[j].id[1] \in {"capture", "session"}
      PROVE  j - Len(r) \in DOMAIN s /\ u[j] = s[j - Len(r)]
  <2>1. j > Len(r)
    BY <1>1, <1>3, <1>4
  <2>2. j - Len(r) \in 1..Len(s) /\ u[(j - Len(r)) + Len(r)] = s[j - Len(r)]
    BY <1>1, <2>1
  <2> QED
    BY <1>1, <2>2
<1>5. Sources(u, kind)
  <2> SUFFICES ASSUME NEW j \in DOMAIN u
               PROVE  /\ u[j].id[1] = "capture" => kind = "pcap" /\ j = Len(u)
                      /\ u[j].id[1] = "session" => kind \in {"rtsp", "compare"}
    BY DEF Sources
  <2>1. Len(r) \in Nat /\ Len(s) \in Nat /\ j \in 1..(Len(r) + Len(s))
    BY <1>1
  <2>2. ASSUME j - Len(r) = Len(s) PROVE j = Len(u)
    <3>1. j = Len(r) + Len(s)
      BY <2>1, <2>2
    <3> QED
      BY <1>1, <3>1
  <2> QED
    BY <1>4, <2>2 DEF Sources, Ahead
<1>6. Fresh(u, cut)
  <2> SUFFICES ASSUME NEW j \in DOMAIN u, u[j].id[1] \in {"capture", "session"}
               PROVE  \E k \in 0..(j - 1) :
                         /\ IF k = 0 THEN cut = {} ELSE u[k].id[1] = "report"
                         /\ \A m \in (k + 1)..(j - 1) : u[m].id[1] \notin Helpers
    BY DEF Fresh
  <2> DEFINE i == j - Len(r)
  <2>1. i \in 1..Len(s) /\ s[i].id[1] \in {"capture", "session"}
    BY <1>1, <1>4
  <2>2. i + Len(r) = j
    BY <1>1
  <2> HIDE DEF i
  <2>3. PICK k \in 0..(i - 1) :
           /\ IF k = 0 THEN blamed = {} ELSE s[k].id[1] = "report"
           /\ \A m \in (k + 1)..(i - 1) : s[m].id[1] \notin Helpers
    BY <1>1, <2>1 DEF Ahead, Fresh
  <2> DEFINE l == k + Len(r)
  <2>4. l \in 0..(j - 1) /\ l # 0
    BY <1>1, <2>1, <2>2, <2>3
  <2>5. u[l].id[1] = "report"
    <3>1. CASE k = 0
      BY <1>1, <3>1
    <3>2. CASE k # 0
      <4>1. k \in 1..Len(s)
        BY <1>1, <2>1, <2>3, <3>2
      <4> QED
        BY <1>1, <2>3, <3>2, <4>1
    <3> QED
      BY <3>1, <3>2
  <2>6. ASSUME NEW m \in (l + 1)..(j - 1) PROVE u[m].id[1] \notin Helpers
    <3>1. m - Len(r) \in (k + 1)..(i - 1) /\ m - Len(r) \in 1..Len(s)
      BY <1>1, <2>1, <2>2, <2>3
    <3>2. u[(m - Len(r)) + Len(r)] = s[m - Len(r)]
      BY <1>1, <3>1
    <3>3. (m - Len(r)) + Len(r) = m
      BY <1>1
    <3> QED
      BY <2>3, <3>1, <3>2, <3>3
  <2> HIDE DEF l
  <2> QED
    BY <2>4, <2>5, <2>6
<1> QED
  BY <1>0, <1>2, <1>5, <1>6 DEF Ahead, u

-----------------------------------------------------------------------------
\* No programs are ahead of an analysis that is over.
LEMMA NothingAhead == \A kind, streams, blamed : Ahead(<<>>, kind, streams, blamed)
<1>1. <<>> \in Seq(Steps) /\ DOMAIN <<>> = {}
  OBVIOUS
<1> QED
  BY <1>1 DEF Ahead, Guarded, Fresh, Sources

\* The fields of a task that goes on.
LEMMA OnwardFields ==
    ASSUME TaskShape, NEW rest, NEW missing, NEW blamed, Onward(rest, missing, blamed)
    PROVE  /\ task'.phase = task.phase /\ task'.kind = task.kind
           /\ task'.streams = task.streams /\ task'.rest = rest /\ task'.blamed = blamed
<1> DEFINE kept == {m \in missing : \E i \in DOMAIN rest : m \in rest[i].needs}
<1>1. task' = [task EXCEPT !.rest = rest, !.missing = kept, !.blamed = blamed]
  BY DEF Onward
<1> HIDE DEF kept
<1>2. task' = [phase |-> task.phase, kind |-> task.kind, deep |-> task.deep,
               streams |-> task.streams, rest |-> rest,
               blamed |-> blamed, missing |-> kept]
  BY <1>1 DEF TaskShape
<1> QED
  BY <1>2

\* The other one.
LEMMA EndsFields ==
    ASSUME TaskShape, NEW phase, Ends(phase)
    PROVE  /\ task'.phase = phase /\ task'.kind = task.kind
           /\ task'.streams = task.streams /\ task'.rest = <<>> /\ task'.blamed = {}
<1>1. task' = [phase |-> phase, kind |-> task.kind, deep |-> task.deep,
               streams |-> task.streams, rest |-> <<>>,
               blamed |-> {}, missing |-> {}]
  BY DEF Ends, TaskShape
<1> QED
  BY <1>1

\* An analysis that goes on keeps the invariant, if what is ahead is as it
\* should be.
LEMMA OnwardHonest ==
    ASSUME TaskShape, OInv, Busy, NEW rest, NEW missing, NEW blamed,
           Onward(rest, missing, blamed), Ahead(rest, task.kind, task.streams, blamed),
           \A b \in blamed : flag' /\ (MayBeCut(b, task.kind, task.streams) \/ Covers(rest)),
           "task" \notin waits',
           \A r \in reports' : r.kind \in Kinds /\ ReportIsHonest(r)
    PROVE  OInv'
<1>1. /\ task'.phase = "busy" /\ task'.kind = task.kind /\ task.kind \in Kinds
      /\ task'.streams = task.streams /\ task'.rest = rest /\ task'.blamed = blamed
  BY OnwardFields DEF Busy, OInv
<1>2. Ahead(task'.rest, task'.kind, task'.streams, task'.blamed)
  BY <1>1
<1>3. Answered'
  BY <1>1 DEF Answered, MayBeCut, Covers
<1> QED
  BY <1>1, <1>2, <1>3 DEF OInv, Busy, ReportIsHonest, MayBeCut

\* An analysis that ends has nothing to answer for.
LEMMA EndsHonest ==
    ASSUME TaskShape, OInv, Busy, NEW phase, phase # "busy", Ends(phase),
           "task" \notin waits',
           \A r \in reports' : r.kind \in Kinds /\ ReportIsHonest(r)
    PROVE  OInv'
<1>1. /\ task'.phase = phase /\ task'.kind = task.kind /\ task.kind \in Kinds
      /\ task'.streams = task.streams /\ task'.rest = <<>> /\ task'.blamed = {}
  BY EndsFields DEF Busy, OInv
<1>2. Ahead(task'.rest, task'.kind, task'.streams, task'.blamed)
  BY <1>1, NothingAhead
<1>3. Answered'
  BY <1>1 DEF Answered
<1> QED
  BY <1>1, <1>2, <1>3 DEF OInv, Busy, ReportIsHonest, MayBeCut

\* Where nothing is cut nothing has to be answered for; what was answered for
\* still is behind a step that is no look at the flag.
LEMMA GoHonest ==
    ASSUME TaskShape, OInv, Busy, task.rest # <<>>, NEW missing, NEW cut,
           Op \notin {"check", "report"}, flag' = flag,
           Onward(Tail(task.rest), missing, task.blamed \cup cut),
           cut = {} \/ (flag /\ Op \in Helpers /\ cut = {Head0.id}),
           "task" \notin waits', reports' = reports
    PROVE  OInv'
<1> DEFINE s == task.rest
           k == task.kind
           n == task.streams
<1>1. /\ s # <<>> /\ s \in Seq(Steps) /\ Ahead(s, k, n, task.blamed)
      /\ Guarded(s, k, n) /\ s[1].id[1] = Op /\ s[1].id = Head0.id
  BY DEF OInv, Ahead, Op, Head0
<1>2. Ahead(Tail(s), k, n, task.blamed \cup cut)
  <2>1. task.blamed \cup cut = task.blamed \/ s[1].id[1] \in Helpers
    BY <1>1
  <2> HIDE DEF s, k, n
  <2> QED
    BY <1>1, <2>1, TailAhead
<1>3. \A b \in task.blamed : flag /\ (MayBeCut(b, k, n) \/ Covers(Tail(s)))
  <2> SUFFICES ASSUME NEW b \in task.blamed PROVE flag /\ (MayBeCut(b, k, n) \/ Covers(Tail(s)))
    OBVIOUS
  <2>1. flag /\ (MayBeCut(b, k, n) \/ Covers(s))
    BY DEF OInv, Answered
  <2> HIDE DEF s, k, n
  <2> QED
    BY <1>1, <2>1, TailCovers
<1>4. \A b \in cut : flag /\ (MayBeCut(b, k, n) \/ Covers(Tail(s)))
  <2> SUFFICES ASSUME NEW b \in cut PROVE flag /\ (MayBeCut(b, k, n) \/ Covers(Tail(s)))
    OBVIOUS
  <2>1. flag /\ s[1].id[1] \in Helpers /\ b = s[1].id
    BY <1>1
  <2> HIDE DEF s, k, n
  <2> QED
    BY <1>1, <2>1, HeadCovers
<1>5. \A r \in reports' : r.kind \in Kinds /\ ReportIsHonest(r)
  BY DEF OInv
<1> HIDE DEF s, k, n
<1>6. \A b \in task.blamed \cup cut : flag' /\ (MayBeCut(b, k, n) \/ Covers(Tail(s)))
  BY <1>3, <1>4
<1> QED
  BY <1>2, <1>5, <1>6, OnwardHonest DEF s, k, n

\* Nothing is ahead and nothing was reported at the start.
LEMMA InitHonest == Init => OInv
<1> SUFFICES ASSUME Init PROVE OInv
  OBVIOUS
<1>1. task.rest = <<>> /\ task.blamed = {} /\ task.phase = "idle" /\ waits = {} /\ reports = {}
  BY DEF Init, Idle
<1>2. Ahead(task.rest, task.kind, task.streams, task.blamed)
  BY <1>1, NothingAhead
<1> QED
  BY <1>1, <1>2 DEF OInv, Answered

\* A step that leaves the analysis alone, and at most sets the flag.
LEMMA ApartHonest ==
    ASSUME OInv, UNCHANGED work, flag => flag', "task" \in waits' => "task" \in waits
    PROVE  OInv'
<1>1. task' = task /\ reports' = reports
  BY DEF work
<1>2. Answered'
  BY <1>1 DEF OInv, Answered, MayBeCut, Covers
<1>3. Ahead(task'.rest, task'.kind, task'.streams, task'.blamed)
  BY <1>1 DEF OInv
<1> QED
  BY <1>1, <1>2, <1>3 DEF OInv, Busy, ReportIsHonest, MayBeCut

\* An analysis that is asked for, and one whose answer has come.
LEMMA IdleHonest ==
    ASSUME OInv, task'.rest = <<>>, task'.blamed = {}, task'.phase # "busy",
           task'.phase # "idle" => task'.kind \in Kinds,
           "task" \notin waits', reports' \subseteq reports
    PROVE  OInv'
<1>1. Ahead(task'.rest, task'.kind, task'.streams, task'.blamed)
  BY NothingAhead
<1>2. Answered'
  BY DEF Answered
<1> QED
  BY <1>1, <1>2 DEF OInv, Busy, ReportIsHonest, MayBeCut

\* The buttons.
LEMMA UserHonest ==
    ASSUME IInv, OInv, (\E kind \in Kinds, deep \in BOOLEAN : Submit(kind, deep)) \/ Cancel
    PROVE  OInv'
<1>1. CASE \E kind \in Kinds, deep \in BOOLEAN : Submit(kind, deep)
  <2>1. PICK kind \in Kinds, deep \in BOOLEAN : Submit(kind, deep)
    BY <1>1
  <2>2. /\ task'.phase = "called" /\ task'.kind = kind /\ task'.rest = <<>> /\ task'.blamed = {}
        /\ reports' = {} /\ waits' = waits /\ ~ui.running
    BY <2>1 DEF Submit, Idle, helpers
  <2>3. "task" \notin waits'
    BY <2>2 DEF IInv, Shown, HelpersEnd, Busy
  <2> QED
    BY <2>2, <2>3, IdleHonest
<1>2. CASE Cancel
  BY <1>2, ApartHonest DEF Cancel, helpers
<1> QED
  BY <1>1, <1>2

\* The command begins with its program, and ends.
LEMMA CommandHonest ==
    ASSUME IInv, OInv, Called \/ Return
    PROVE  OInv'
<1>1. "task" \notin waits
  BY DEF IInv, HelpersEnd, Busy, Called, Return
<1>2. CASE Called
  <2>1. /\ task' = [task EXCEPT !.phase = "busy", !.rest = Program(task.kind, tools)]
        /\ task.phase = "called" /\ waits' = waits /\ reports' = reports
    BY <1>2 DEF Called, helpers
  <2>2. /\ task'.phase = "busy" /\ task'.rest = Program(task.kind, tools)
        /\ task'.kind = task.kind /\ task'.streams = task.streams /\ task'.blamed = task.blamed
    BY <2>1 DEF IInv, TaskShape
  <2>3. task.blamed = {} /\ task.kind \in Kinds
        /\ task.kind \in {"video", "audio", "pcap", "rtsp", "compare"}
    BY <2>1, TaskAssumption DEF OInv, Busy
  <2>4. Ahead(task'.rest, task'.kind, task'.streams, task'.blamed)
    BY <2>2, <2>3, ProgramStart
  <2>5. Answered'
    BY <2>2, <2>3 DEF Answered
  <2> QED
    BY <1>1, <2>1, <2>2, <2>3, <2>4, <2>5 DEF OInv, Busy, ReportIsHonest, MayBeCut
<1>3. CASE Return
  <2>1. task' = Idle /\ waits' = waits /\ reports' = reports
    BY <1>3 DEF Return, helpers
  <2> QED
    BY <1>1, <2>1, IdleHonest DEF Idle
<1> QED
  BY <1>2, <1>3

\* The looks at the flag: behind one that finds it down nothing was cut.
LEMMA CheckHonest ==
    ASSUME IInv, OInv, Check
    PROVE  OInv'
<1>1. /\ Busy /\ task.rest # <<>> /\ Op = "check" /\ "task" \notin waits'
      /\ reports' = reports /\ waits' = waits /\ flag' = flag
  BY NoHelpers, NotWaiting DEF Check, At, helpers
<1>2. \A r \in reports' : r.kind \in Kinds /\ ReportIsHonest(r)
  BY <1>1 DEF OInv
<1>3. CASE flag
  BY <1>1, <1>2, <1>3, EndsHonest DEF Check, IInv
<1>4. CASE ~flag
  <2>1. task.blamed = {} /\ Onward(Tail(task.rest), task.missing, {})
    BY <1>4 DEF Check, Go, OInv, Answered
  <2>2. Ahead(Tail(task.rest), task.kind, task.streams, {})
    BY <1>1, <2>1, TailAhead DEF OInv
  <2> QED
    BY <1>1, <1>2, <2>1, <2>2, OnwardHonest DEF IInv
<1> QED
  BY <1>3, <1>4

\* The options, the file and its units.
LEMMA InputHonest ==
    ASSUME IInv, OInv, Open \/ Nalus
    PROVE  OInv'
<1>1. /\ Busy /\ task.rest # <<>> /\ Op \in {"open", "nalus"} /\ "task" \notin waits'
      /\ reports' = reports /\ waits' = waits /\ flag' = flag
  BY NoHelpers, NotWaiting DEF Open, Nalus, At, helpers
<1>2. \A r \in reports' : r.kind \in Kinds /\ ReportIsHonest(r)
  BY <1>1 DEF OInv
<1>3. Go \/ Ends("failed") \/ Ends("cancelled")
  BY DEF Open, Nalus
<1>4. CASE Go
  <2>1. Onward(Tail(task.rest), task.missing, task.blamed \cup {})
    <3>1. task.blamed \cup {} = task.blamed
      OBVIOUS
    <3> QED
      BY <1>4, <3>1 DEF Go
  <2> QED
    BY <1>1, <2>1, GoHonest DEF IInv
<1> QED
  BY <1>1, <1>2, <1>3, <1>4, EndsHonest DEF IInv

\* Before the capture is read, or the session over, no helper was cut.
LEMMA SourceFirst ==
    ASSUME OInv, task.rest # <<>>, Op \in {"capture", "session"}
    PROVE  /\ task.rest \in Seq(Steps) /\ task.blamed = {}
           /\ Op = "capture" => task.kind = "pcap" /\ Tail(task.rest) = <<>>
<1> DEFINE s == task.rest
<1>1. s \in Seq(Steps) /\ Fresh(s, task.blamed) /\ Sources(s, task.kind)
      /\ s[1].id[1] = Op
  BY DEF OInv, Ahead, Op, Head0
<1>2. s # <<>>
  OBVIOUS
<1> HIDE DEF s
<1>3. 1 \in DOMAIN s /\ Len(s) \in Nat
  BY <1>1, <1>2
<1>4. task.blamed = {}
  <2>1. \E k \in 0..(1 - 1) : IF k = 0 THEN task.blamed = {} ELSE s[k].id[1] = "report"
    BY <1>1, <1>3 DEF Fresh
  <2> QED
    BY <2>1
<1>5. Op = "capture" => task.kind = "pcap" /\ 1 = Len(s)
  BY <1>1, <1>3 DEF Sources
<1>6. ASSUME 1 = Len(s) PROVE Tail(s) = <<>>
  <2> DEFINE t == Tail(s)
  <2>1. t \in Seq(Steps) /\ Len(t) = 0
    BY <1>1, <1>2, <1>6
  <2> HIDE DEF t
  <2>2. t # <<>> => Len(t) # 0
    BY <2>1
  <2> QED
    BY <2>1, <2>2 DEF t
<1> QED
  BY <1>1, <1>4, <1>5, <1>6 DEF s

\* What is read of a capture.
LEMMA CaptureHonest ==
    ASSUME IInv, OInv, Capture
    PROVE  OInv'
<1>1. /\ Busy /\ task.rest # <<>> /\ Op = "capture" /\ "task" \notin waits'
      /\ reports' = reports /\ waits' = waits /\ flag' = flag
  BY NoHelpers, NotWaiting DEF Capture, At, helpers
<1>2. \A r \in reports' : r.kind \in Kinds /\ ReportIsHonest(r)
  BY <1>1 DEF OInv
<1>3. CASE Ends(IF flag THEN "cancelled" ELSE "failed")
  BY <1>1, <1>2, <1>3, EndsHonest DEF IInv
<1>4. CASE \E found \in Captures :
             LET streams == IF task.deep THEN found ELSE [i \in DOMAIN found |-> "plain"]
             IN task' = [task EXCEPT !.streams = Len(found),
                                     !.rest = PcapRest(streams, tools) \o Tail(task.rest)]
  <2>1. PICK found \in Captures :
             LET streams == IF task.deep THEN found ELSE [i \in DOMAIN found |-> "plain"]
             IN task' = [task EXCEPT !.streams = Len(found),
                                     !.rest = PcapRest(streams, tools) \o Tail(task.rest)]
    BY <1>4
  <2> DEFINE streams == IF task.deep THEN found ELSE [i \in DOMAIN found |-> "plain"]
             rest == PcapRest(streams, tools) \o Tail(task.rest)
  <2>2. task.kind = "pcap" /\ task.blamed = {} /\ Tail(task.rest) = <<>>
    BY <1>1, SourceFirst
  <2>3. streams \in Seq({"video", "audio", "wav", "plain"}) /\ Len(streams) = Len(found)
    BY TaskAssumption
  <2>4. task' = [task EXCEPT !.streams = Len(found), !.rest = rest]
    BY <2>1
  <2> HIDE DEF streams
  <2>5. Ready(PcapRest(streams, tools), "pcap", Len(found))
    BY <2>3, CaptureProgram
  <2>6. rest = PcapRest(streams, tools)
    <3> DEFINE p == PcapRest(streams, tools)
    <3>1. p \in Seq(Sourceless)
      BY <2>5 DEF Ready
    <3> HIDE DEF p
    <3>2. p \o <<>> = p
      BY <3>1
    <3> QED
      BY <2>2, <3>2 DEF p
  <2>7. Ahead(rest, "pcap", Len(found), {})
    BY <2>5, <2>6, NoSource DEF Ready, Ahead
  <2> HIDE DEF rest
  <2>8. /\ task'.phase = "busy" /\ task'.kind = "pcap" /\ task'.streams = Len(found)
        /\ task'.rest = rest /\ task'.blamed = {}
    BY <1>1, <2>2, <2>4 DEF IInv, TaskShape, Busy
  <2>9. Ahead(task'.rest, task'.kind, task'.streams, task'.blamed) /\ Answered'
    BY <2>7, <2>8 DEF Answered
  <2> QED
    BY <1>1, <1>2, <2>2, <2>8, <2>9 DEF OInv, Busy, ReportIsHonest, MayBeCut
<1> QED
  BY <1>3, <1>4 DEF Capture

\* What a session has brought.
LEMMA SessionHonest ==
    ASSUME IInv, OInv, SessionFails \/ SessionEnds
    PROVE  OInv'
<1>1. /\ Busy /\ task.rest # <<>> /\ Op = "session" /\ "task" \notin waits'
      /\ reports' = reports /\ waits' = waits /\ flag' = flag
  BY NoHelpers, NotWaiting DEF SessionFails, SessionEnds, At, helpers
<1>2. \A r \in reports' : r.kind \in Kinds /\ ReportIsHonest(r)
  BY <1>1 DEF OInv
<1>3. task.rest \in Seq(Steps) /\ task.blamed = {}
  BY <1>1, SourceFirst
<1>4. ASSUME NEW tracks \in Seq({"g711", "packed", "plain"}), NEW sample \in BOOLEAN,
             Onward(RtspRest(tracks, sample, tools) \o Tail(task.rest), {}, task.blamed)
      PROVE  OInv'
  <2> DEFINE r == RtspRest(tracks, sample, tools)
             t == Tail(task.rest)
             k == task.kind
             n == task.streams
  <2>1. r \in Seq(Sourceless) /\ Guarded(r, k, n) /\ r # <<>> /\ r[Len(r)].id[1] = "report"
    BY SessionProgram DEF Ready
  <2>2. Ahead(t, k, n, {})
    BY <1>1, TailAhead DEF OInv
  <2>3. Onward(r \o t, {}, {})
    BY <1>3, <1>4
  <2> HIDE DEF r, t, k, n
  <2>4. Ahead(r \o t, k, n, {})
    BY <2>1, <2>2, SessionAhead
  <2> QED
    BY <1>1, <1>2, <2>3, <2>4, OnwardHonest DEF IInv, k, n
<1>5. CASE SessionFails
  <2>1. <<>> \in Seq({"g711", "packed", "plain"}) /\ FALSE \in BOOLEAN
    OBVIOUS
  <2> QED
    BY <1>1, <1>2, <1>4, <1>5, <2>1, EndsHonest DEF SessionFails, IInv
<1>6. CASE SessionEnds
  <2>1. PICK s \in Sessions :
          Onward(RtspRest(s.tracks, s.sample, tools) \o Tail(task.rest), {}, task.blamed)
    BY <1>6 DEF SessionEnds
  <2>2. s.tracks \in Seq({"g711", "packed", "plain"}) /\ s.sample \in BOOLEAN
    BY TaskAssumption
  <2> QED
    BY <1>4, <2>1, <2>2
<1> QED
  BY <1>5, <1>6

\* The helpers: one is passed over, started, or waited for and perhaps cut.
LEMMA HelperHonest ==
    ASSUME IInv, OInv, Skip \/ Spawn
    PROVE  OInv'
<1>1. /\ Busy /\ task.rest # <<>> /\ Op \in Helpers /\ "task" \notin waits
      /\ reports' = reports /\ flag' = flag
  BY DEF Skip, Spawn, AtHelper
<1>2. Op \notin {"check", "report"}
  BY <1>1, NoHelpers
<1>3. CASE Onward(Tail(task.rest), task.missing \cup {Head0.id}, task.blamed)
           /\ UNCHANGED helpers
  <2>1. task.blamed \cup {} = task.blamed
    OBVIOUS
  <2>2. "task" \notin waits'
    BY <1>1, <1>3 DEF helpers
  <2>3. Onward(Tail(task.rest), task.missing \cup {Head0.id}, task.blamed \cup {})
    BY <1>3, <2>1
  <2> QED
    BY <1>1, <1>2, <2>2, <2>3, GoHonest DEF IInv
<1>4. CASE UNCHANGED task
  <2>1. Answered'
    BY <1>1, <1>4 DEF OInv, Answered, MayBeCut, Covers
  <2>2. Ahead(task'.rest, task'.kind, task'.streams, task'.blamed)
    BY <1>4 DEF OInv
  <2> QED
    BY <1>1, <1>4, <2>1, <2>2 DEF OInv, Busy, ReportIsHonest, MayBeCut
<1> QED
  BY <1>3, <1>4 DEF Skip, Spawn

\* A helper that is cut is answered for by what guards it.
LEMMA WaitHonest ==
    ASSUME IInv, OInv, NEW result, Wait(result)
    PROVE  OInv'
<1> DEFINE cut == IF result = "cancel" THEN {Head0.id} ELSE {}
<1>1. /\ Busy /\ "task" \in waits /\ waits' = waits \ {"task"}
      /\ reports' = reports /\ flag' = flag /\ (result = "cancel" => flag)
  BY DEF Wait, Ran
<1>2. Op \in Helpers /\ task.rest # <<>> /\ Op \notin {"check", "report"}
  BY <1>1, NoHelpers DEF IInv, HelpersEnd, OInv
<1>3. PICK missing : Onward(Tail(task.rest), missing, task.blamed \cup cut)
  BY DEF Wait
<1>4. cut = {} \/ (flag /\ Op \in Helpers /\ cut = {Head0.id})
  BY <1>1, <1>2
<1>5. "task" \notin waits'
  BY <1>1
<1> HIDE DEF cut
<1> QED
  BY <1>1, <1>2, <1>3, <1>4, <1>5, GoHonest DEF IInv

\* A report is written behind the last look at the flag: what was cut then may
\* be.
LEMMA WriteHonest ==
    ASSUME IInv, OInv, Write
    PROVE  OInv'
<1>1. /\ Busy /\ task.rest # <<>> /\ Op \in {"report", "comparison"} /\ Op \notin Helpers
      /\ waits' = waits /\ flag' = flag
  BY NoHelpers DEF Write, helpers
<1>2. "task" \notin waits'
  BY <1>1 DEF IInv, HelpersEnd
<1>3. task.kind \in Kinds /\ \A r \in reports : r.kind \in Kinds /\ ReportIsHonest(r)
  BY <1>1 DEF OInv, Busy
<1>4. ASSUME Op = "report", NEW b \in task.blamed
      PROVE  MayBeCut(b, task.kind, task.streams)
  <2>1. task.rest \in Seq(Steps) /\ task.rest[1].id[1] = "report"
    BY <1>4 DEF OInv, Ahead, Op, Head0
  <2>2. ~Covers(task.rest)
    BY <1>1, <2>1, TailCovers
  <2> QED
    BY <1>4, <2>2 DEF OInv, Answered
<1>5. \A r \in reports' : r.kind \in Kinds /\ ReportIsHonest(r)
  <2> DEFINE new == [kind |-> task.kind, streams |-> task.streams, blamed |-> task.blamed]
  <2>1. reports' = reports \/ (Op = "report" /\ reports' = reports \cup {new})
    BY DEF Write
  <2>2. new.kind = task.kind /\ new.streams = task.streams /\ new.blamed = task.blamed
    OBVIOUS
  <2> HIDE DEF new
  <2>3. Op = "report" => new.kind \in Kinds /\ ReportIsHonest(new)
    BY <1>3, <1>4, <2>2 DEF ReportIsHonest
  <2> QED
    BY <1>3, <2>1, <2>3
<1>6. Ends("failed") \/ Ends("written") \/ Onward(Tail(task.rest), {}, {})
  BY DEF Write
<1>7. Ahead(Tail(task.rest), task.kind, task.streams, {})
  BY <1>1, TailAhead DEF OInv
<1> QED
  BY <1>1, <1>2, <1>5, <1>6, <1>7, OnwardHonest, EndsHonest DEF IInv

\* Every step keeps it.
LEMMA NextHonest == IInv /\ OInv /\ [Next]_vars => OInv'
<1> SUFFICES ASSUME IInv, OInv, [Next]_vars PROVE OInv'
  OBVIOUS
<1>1. CASE UNCHANGED vars
  BY <1>1, ApartHonest DEF vars, helpers
<1>2. CASE (\E kind \in Kinds, deep \in BOOLEAN : Submit(kind, deep)) \/ Cancel
  BY <1>2, UserHonest
<1>3. CASE Proceed
  BY <1>3, CommandHonest, CheckHonest, InputHonest, CaptureHonest, HelperHonest, WriteHonest,
     WaitHonest DEF Proceed
<1>4. CASE SessionFails \/ Overdue
  BY <1>4, SessionHonest, WaitHonest DEF Overdue
<1>5. CASE Saves \/ \E who \in Owners : Exit(who)
  <2>1. UNCHANGED <<flag, work>>
    BY <1>5 DEF Saves, ExportBegins, Copied, RemoveOld, Rename, ExportSeen, Converted, Exit
  <2>2. "task" \in waits' => "task" \in waits
    BY <1>5 DEF Saves, ExportBegins, Copied, RemoveOld, Rename, ExportSeen, Converted, Ran, Run,
                Exit, helpers
  <2> QED
    BY <2>1, <2>2, ApartHonest
<1> QED
  BY <1>1, <1>2, <1>3, <1>4, <1>5 DEF Next

\* The invariant of both parts.
THEOREM TaskOutcomeInvariant == Spec => [](IInv /\ OInv)
<1>1. Init => IInv /\ OInv
  BY InitInvariant, InitHonest
<1>2. IInv /\ OInv /\ [Next]_vars => (IInv /\ OInv)'
  BY NextInvariant, NextHonest
<1> QED
  BY <1>1, <1>2, PTL DEF Spec

\* Although one flag serves all analyses of the process, one ends as cancelled
\* only if its user has cancelled this one; and no report, written after all
\* looks at the flag, takes the end of a helper the user has cut for a failure
\* of that helper, but for the helpers behind the last look.
THEOREM TaskOutcomeIsHonest == Spec => []OutcomeIsHonest
<1>1. IInv /\ OInv => OutcomeIsHonest
  BY DEF IInv, FlagIsOwn, OInv, ReportIsHonest, MayBeCut, OutcomeIsHonest
<1> QED
  BY <1>1, TaskOutcomeInvariant, PTL
=============================================================================
