----------------------------- MODULE PluginHost -----------------------------
(***************************************************************************)
(* The desktop's plugin commands (apps/desktop/src-tauri/src/lib.rs) and   *)
(* the plugin processes they drive (crates/plugin-host/src/ipc.rs).        *)
(*                                                                         *)
(* Commands run on threads of one process and share PluginRuntimeState     *)
(* behind a mutex: the table of active tasks and the table of downloads    *)
(* waiting for consent.  execute_plugin holds the mutex while it starts    *)
(* the plugin process and exchanges hello, and releases it for the long    *)
(* part.  The store is changed under the mutex and only while no task is   *)
(* active.  PluginStore models what happens inside a change; here it is    *)
(* the installed version of one plugin and the time a change takes.        *)
(***************************************************************************)
EXTENDS Naturals

CONSTANTS
    Execs,        \* calls of execute_plugin
    TaskIds,      \* task ids the front end may choose
    Tokens,       \* downloads
    Cancellers,   \* calls of cancel_plugin
    MaxVersion,   \* bound on the versions installed
    MaxChanges,   \* bound on the changes of the store
    MaxBacklog,   \* bound on the progress events queued for one call
    MaxProgress,  \* progress events a plugin sends per call
    Endless       \* TRUE: it sends them without end

ASSUME HostAssumption ==
    /\ MaxVersion \in Nat \ {0} /\ MaxChanges \in Nat
    /\ MaxBacklog \in Nat /\ MaxProgress \in Nat /\ Endless \in BOOLEAN
    /\ Execs \cap {"free", "store", "none"} = {}
    /\ Tokens \cap {"plain", "none"} = {}

VARIABLES
    lock,        \* the mutex: "free", "store", or the call that holds it
    active,      \* PluginRuntimeState.active: task id -> call
    prepared,    \* PluginRuntimeState.prepared
    thread,      \* where each call of execute_plugin is
    task,        \* its task id
    version,     \* the version of the plugin it verified and started
    process,     \* its plugin process: "none", "alive" or "dead"
    pipe,        \* the request in flight: "none", "asked" or the answer
    backlog,     \* progress events not yet read, which precede the answer
    sent,        \* progress events sent
    flagged,     \* calls whose `cancelled` flag is set
    handle,      \* cancel_plugin: the handle each canceller took
    looked,      \* history: the calls a canceller has meant
    killed,      \* history: the calls whose process a canceller killed
    doomed,      \* history: of those, the ones killed before they answered
    reports,     \* calls that saved a report
    installed,   \* version of the plugin in the store, 0 if there is none
    changing,    \* the download being installed, "plain" or "none"
    download,    \* where each download is
    files,       \* downloaded packages on disk
    changes

chatter == <<backlog, sent>>
calls == <<thread, task, version, process, pipe, chatter>>
cancels == <<flagged, handle, looked, killed, doomed>>
store == <<installed, changing, changes>>
loads == <<prepared, download, files>>
hostVars == <<lock, active, calls, cancels, store, loads, reports>>

None == "none"
Answers == {"result", "error", "invalid"}
Phases == {"new", "want", "verified", "hello", "staging", "request", "saving",
           "closing", "dropping", "done"}

\* The part of a call in which its task is registered and uses the plugin.
Registered == {"staging", "request", "saving", "closing"}

InitHost ==
    /\ lock = "free"
    /\ active = [t \in TaskIds |-> None] /\ prepared = {}
    /\ thread = [e \in Execs |-> "new"] /\ task = [e \in Execs |-> None]
    /\ version = [e \in Execs |-> 0]
    /\ process = [e \in Execs |-> None] /\ pipe = [e \in Execs |-> None]
    /\ backlog = [e \in Execs |-> 0] /\ sent = [e \in Execs |-> 0]
    /\ flagged = {} /\ handle = [c \in Cancellers |-> None]
    /\ looked = {} /\ killed = {} /\ doomed = {}
    /\ reports = {}
    /\ installed = 1 /\ changing = None /\ changes = 0
    /\ download = [k \in Tokens |-> "new"] /\ files = {}

-----------------------------------------------------------------------------
\* execute_plugin, the part under the mutex.
execute_plugin(e) ==
    /\ thread[e] = "new"
    /\ \E t \in TaskIds : task' = [task EXCEPT ![e] = t]
    /\ thread' = [thread EXCEPT ![e] = "want"]
    /\ UNCHANGED <<lock, active, version, process, pipe, chatter, cancels, store, loads, reports>>

\* A task id in use or a plugin that is not installed ends the call.
Enter(e) ==
    /\ thread[e] = "want" /\ lock = "free"
    /\ IF active[task[e]] = None /\ installed # 0
       THEN /\ lock' = e
            /\ version' = [version EXCEPT ![e] = installed]
            /\ thread' = [thread EXCEPT ![e] = "verified"]
       ELSE /\ thread' = [thread EXCEPT ![e] = "done"]
            /\ UNCHANGED <<lock, version>>
    /\ UNCHANGED <<active, task, process, pipe, chatter, cancels, store, loads, reports>>

\* spawn_with_runtime: the process is started and sent its hello.
Spawn(e) ==
    /\ thread[e] = "verified"
    /\ \/ /\ thread' = [thread EXCEPT ![e] = "hello"]
          /\ process' = [process EXCEPT ![e] = "alive"]
          /\ pipe' = [pipe EXCEPT ![e] = "asked"]
          /\ UNCHANGED lock
       \/ /\ thread' = [thread EXCEPT ![e] = "done"] /\ lock' = "free"
          /\ UNCHANGED <<process, pipe>>
    /\ UNCHANGED <<active, task, version, chatter, cancels, store, loads, reports>>

\* The process, which is not to be trusted: it answers well, with an error,
\* or with a frame that breaks the protocol; or it ends.  It need do neither.
Answer(e) ==
    /\ process[e] = "alive" /\ pipe[e] = "asked"
    /\ \E a \in Answers : pipe' = [pipe EXCEPT ![e] = a]
    /\ UNCHANGED <<lock, active, thread, task, version, process, chatter, cancels, store, loads, reports>>

Exit(e) ==
    /\ process[e] = "alive"
    /\ process' = [process EXCEPT ![e] = "dead"]
    /\ UNCHANGED <<lock, active, thread, task, version, pipe, chatter, cancels, store, loads, reports>>

\* The plugin reports progress while it works.
Progress(e) ==
    /\ process[e] = "alive" /\ pipe[e] = "asked"
    /\ backlog[e] < MaxBacklog /\ sent[e] < MaxProgress
    /\ backlog' = [backlog EXCEPT ![e] = @ + 1]
    /\ sent' = [sent EXCEPT ![e] = IF Endless THEN @ ELSE @ + 1]
    /\ UNCHANGED <<lock, active, thread, task, version, process, pipe, cancels, store, loads, reports>>

-----------------------------------------------------------------------------
\* request reads a progress event, and goes on to wait for the rest of its
\* time.  recv_timeout looks at the queue first: an event that is there is
\* read even when no time is left.
ReadProgress(e) ==
    /\ thread[e] \in {"hello", "request"} /\ backlog[e] > 0
    /\ backlog' = [backlog EXCEPT ![e] = @ - 1]
    /\ UNCHANGED <<lock, active, thread, task, version, process, pipe, sent, cancels, store, loads, reports>>

\* request, waiting for the answer: the first event decides.  The end of the
\* process and a broken frame also kill it; an error answer leaves it running.
Succeeded(e) == backlog[e] = 0 /\ pipe[e] = "result"

Failed(e) ==
    /\ backlog[e] = 0
    /\ \/ pipe[e] \in {"error", "invalid"}
       \/ pipe[e] = "asked" /\ process[e] = "dead"            \* end of file

\* Nothing to read, and the time is up.
Overdue(e) == backlog[e] = 0 /\ pipe[e] = "asked"

AfterFailure(e) == IF pipe[e] = "error" THEN process[e] ELSE "dead"

\* Mutant of HelloDone: the mutex is released before the task is registered.
HelloDoneUnregistered(e) ==
    /\ thread[e] = "hello" /\ Succeeded(e)
    /\ thread' = [thread EXCEPT ![e] = "staging"]
    /\ pipe' = [pipe EXCEPT ![e] = None]
    /\ lock' = "free"
    /\ UNCHANGED <<active, task, version, process, chatter, cancels, store, loads, reports>>

HelloDone(e) ==
    /\ thread[e] = "hello" /\ Succeeded(e)
    /\ thread' = [thread EXCEPT ![e] = "staging"]
    /\ pipe' = [pipe EXCEPT ![e] = None]
    /\ active' = [active EXCEPT ![task[e]] = e]
    /\ lock' = "free"
    /\ UNCHANGED <<task, version, process, chatter, cancels, store, loads, reports>>

\* Without a hello the process is dropped (killed, waited for) and forgotten.
HelloFailed(e) ==
    /\ thread[e] = "hello" /\ Failed(e)
    /\ thread' = [thread EXCEPT ![e] = "done"]
    /\ process' = [process EXCEPT ![e] = "dead"]
    /\ lock' = "free"
    /\ UNCHANGED <<active, task, version, pipe, chatter, cancels, store, loads, reports>>

\* No hello for five seconds.
HelloOverdue(e) ==
    /\ thread[e] = "hello" /\ Overdue(e)
    /\ thread' = [thread EXCEPT ![e] = "done"]
    /\ process' = [process EXCEPT ![e] = "dead"]
    /\ lock' = "free"
    /\ UNCHANGED <<active, task, version, pipe, chatter, cancels, store, loads, reports>>

\* Input files are copied to the artifact store unless the call is cancelled;
\* then execute is sent, which may fail if the process is gone.
Stage(e) ==
    /\ thread[e] = "staging"
    /\ \/ /\ e \notin flagged
          /\ thread' = [thread EXCEPT ![e] = "request"]
          /\ pipe' = [pipe EXCEPT ![e] = "asked"]
       \/ /\ thread' = [thread EXCEPT ![e] = "closing"]
          /\ UNCHANGED pipe
    /\ UNCHANGED <<lock, active, task, version, process, chatter, cancels, store, loads, reports>>

RequestDone(e) ==
    /\ thread[e] = "request" /\ Succeeded(e)
    /\ thread' = [thread EXCEPT ![e] = "saving"]
    /\ UNCHANGED <<lock, active, task, version, process, pipe, chatter, cancels, store, loads, reports>>

RequestFailed(e) ==
    /\ thread[e] = "request" /\ Failed(e)
    /\ thread' = [thread EXCEPT ![e] = "closing"]
    /\ process' = [process EXCEPT ![e] = AfterFailure(e)]
    /\ UNCHANGED <<lock, active, task, version, pipe, chatter, cancels, store, loads, reports>>

\* Mutant of RequestOverdue: recv instead of recv_timeout.
RequestOverdueNever(e) == FALSE

\* No answer for ten minutes.
RequestOverdue(e) ==
    /\ thread[e] = "request" /\ Overdue(e)
    /\ thread' = [thread EXCEPT ![e] = "closing"]
    /\ process' = [process EXCEPT ![e] = "dead"]
    /\ UNCHANGED <<lock, active, task, version, pipe, chatter, cancels, store, loads, reports>>

\* Outputs are staged and the report is saved; either may fail.
Save(e) ==
    /\ thread[e] = "saving"
    /\ thread' = [thread EXCEPT ![e] = "closing"]
    /\ reports' \in {reports, reports \cup {e}}
    /\ UNCHANGED <<lock, active, task, version, process, pipe, chatter, cancels, store, loads>>

\* The task is removed from the table, then the process is dropped.
Close(e) ==
    /\ thread[e] = "closing" /\ lock = "free"
    /\ active' = [active EXCEPT ![task[e]] = None]
    /\ thread' = [thread EXCEPT ![e] = "dropping"]
    /\ UNCHANGED <<lock, task, version, process, pipe, chatter, cancels, store, loads, reports>>

Drop(e) ==
    /\ thread[e] = "dropping"
    /\ thread' = [thread EXCEPT ![e] = "done"]
    /\ process' = [process EXCEPT ![e] = "dead"]
    /\ UNCHANGED <<lock, active, task, version, pipe, chatter, cancels, store, loads, reports>>

-----------------------------------------------------------------------------
\* cancel_plugin: the handle is taken under the mutex ...
LookUp(c) ==
    /\ handle[c] = None /\ lock = "free"
    /\ \E t \in TaskIds :
          /\ active[t] # None
          /\ handle' = [handle EXCEPT ![c] = active[t]]
          /\ looked' = looked \cup {active[t]}
    /\ UNCHANGED <<lock, active, calls, flagged, killed, doomed, store, loads, reports>>

\* Mutant of Target: the task id is looked up again when the kill is due.
TargetAgain(c) == active[task[handle[c]]]

Target(c) == handle[c]

\* Mutant of Victim: cancelling only sets the flag.
VictimSpared(e) == process[e]

\* The process after the kill.
Victim(e) == IF process[e] = "alive" THEN "dead" ELSE process[e]

\* ... and used after it is released: the flag is set, the process killed.
cancel_plugin(c) ==
    LET e == Target(c)
    IN  /\ handle[c] # None /\ e # None
        /\ flagged' = flagged \cup {e}
        /\ killed' = killed \cup {e}
        /\ doomed' = IF thread[e] \in {"staging", "request"} /\ pipe[e] \notin Answers
                     THEN doomed \cup {e} ELSE doomed
        /\ process' = [process EXCEPT ![e] = Victim(e)]
        /\ handle' = [handle EXCEPT ![c] = None]
        /\ UNCHANGED <<lock, active, thread, task, version, pipe, chatter, looked, store, loads, reports>>

-----------------------------------------------------------------------------
Idle == \A t \in TaskIds : active[t] = None     \* ensure_plugins_idle

\* install_plugin, enable_plugin, uninstall_plugin, install_prepared_plugin
\* (k is a token): refused unless idle; the mutex is kept for the change.
Change(k) ==
    /\ lock = "free" /\ Idle /\ changes < MaxChanges
    /\ k \in Tokens => k \in prepared
    /\ lock' = "store" /\ changing' = k /\ changes' = changes + 1
    /\ UNCHANGED <<active, calls, cancels, installed, loads, reports>>

\* The change is done or has failed; only a package whose installation
\* succeeded leaves the table and the disk.
Changed ==
    /\ lock = "store" /\ lock' = "free"
    /\ changing' = None
    /\ \/ /\ installed' \in 0..MaxVersion
          /\ changing \in Tokens => installed' > installed
          /\ prepared' = prepared \ {changing}
          /\ files' = files \ {changing}
       \/ UNCHANGED <<installed, prepared, files>>
    /\ UNCHANGED <<active, calls, cancels, changes, download, reports>>

\* prepare_catalog_entry: download, preview, then offer for consent.
Download(k) ==
    /\ download[k] = "new"
    /\ \/ download' = [download EXCEPT ![k] = "downloaded"] /\ files' = files \cup {k}
       \/ download' = [download EXCEPT ![k] = "done"] /\ UNCHANGED files
    /\ UNCHANGED <<lock, active, calls, cancels, store, prepared, reports>>

\* Mutant of Offer: a download that cannot be previewed stays on disk.
OfferKeep(k) ==
    /\ download[k] = "downloaded" /\ lock = "free"
    /\ download' = [download EXCEPT ![k] = "done"]
    /\ prepared' \in {prepared, prepared \cup {k}}
    /\ UNCHANGED <<lock, active, calls, cancels, store, files, reports>>

Offer(k) ==
    /\ download[k] = "downloaded"
    /\ download' = [download EXCEPT ![k] = "done"]
    /\ \/ lock = "free" /\ prepared' = prepared \cup {k} /\ UNCHANGED files
       \/ files' = files \ {k} /\ UNCHANGED prepared
    /\ UNCHANGED <<lock, active, calls, cancels, store, reports>>

discard_prepared_plugin(k) ==
    /\ lock = "free" /\ k \in prepared
    /\ prepared' = prepared \ {k} /\ files' = files \ {k}
    /\ UNCHANGED <<lock, active, calls, cancels, store, download, reports>>

-----------------------------------------------------------------------------
\* What a call does by itself once it has begun.
Proceed(e) ==
    \/ Enter(e) \/ Spawn(e) \/ HelloDone(e) \/ HelloFailed(e) \/ HelloOverdue(e)
    \/ ReadProgress(e) \/ Stage(e) \/ RequestDone(e) \/ RequestFailed(e) \/ Save(e) \/ Close(e) \/ Drop(e)

NextHost ==
    \/ \E e \in Execs : execute_plugin(e) \/ Proceed(e) \/ RequestOverdue(e)
                          \/ Answer(e) \/ Exit(e) \/ Progress(e)
    \/ \E c \in Cancellers : LookUp(c) \/ cancel_plugin(c)
    \/ \E k \in Tokens \cup {"plain"} : Change(k)
    \/ Changed
    \/ \E k \in Tokens : Download(k) \/ Offer(k) \/ discard_prepared_plugin(k)

\* Threads that can run do run, a system call ends, and recv_timeout returns
\* within the five seconds of a hello: nothing is assumed of the plugin, the
\* user or the network.
PromptFairness ==
    /\ \A e \in Execs : WF_hostVars(Proceed(e))
    /\ \A c \in Cancellers : WF_hostVars(cancel_plugin(c))
    /\ WF_hostVars(Changed)

\* And it returns within the ten minutes of an execute.
DeadlineFairness == \A e \in Execs : WF_hostVars(RequestOverdue(e))

SpecHost == InitHost /\ [][NextHost]_hostVars

FairSpecHost == SpecHost /\ PromptFairness /\ DeadlineFairness

PromptSpec == SpecHost /\ PromptFairness

-----------------------------------------------------------------------------
\* Every variable has its type, and the mutex is held by who says so.
HostTypeOK ==
    /\ lock \in Execs \cup {"free", "store"}
    /\ \A e \in Execs : lock = e <=> thread[e] \in {"verified", "hello"}
    /\ lock = "store" <=> changing # None
    /\ active \in [TaskIds -> Execs \cup {None}]
    /\ thread \in [Execs -> Phases]
    /\ task \in [Execs -> TaskIds \cup {None}]
    /\ version \in [Execs -> 0..MaxVersion]
    /\ process \in [Execs -> {None, "alive", "dead"}]
    /\ pipe \in [Execs -> {None, "asked"} \cup Answers]
    /\ backlog \in [Execs -> 0..MaxBacklog] /\ sent \in [Execs -> 0..MaxProgress]
    /\ handle \in [Cancellers -> Execs \cup {None}]
    /\ flagged \cup looked \cup killed \cup doomed \cup reports \subseteq Execs
    /\ installed \in 0..MaxVersion /\ changes \in 0..MaxChanges
    /\ changing \in Tokens \cup {"plain", None}
    /\ download \in [Tokens -> {"new", "downloaded", "done"}]
    /\ prepared \cup files \subseteq Tokens

\* From the moment its executable is verified until its report is saved, a
\* call works with one installed version, which nobody is changing.
PluginIsStable ==
    \A e \in Execs : thread[e] \in Registered \cup {"verified", "hello"} =>
        installed = version[e] /\ changing = None

\* No call, however it ends, leaves a plugin process behind.  And although
\* docs/plugin-implementation-status.md:18 says changes are refused while tasks
\* run, one may be alive while the store is changed, since the task leaves the
\* table before its process is killed; but only of a call about to kill it.
NoProcessLeft ==
    \A e \in Execs : process[e] = "alive" =>
        /\ thread[e] \notin {"new", "want", "verified", "done"}
        /\ changing # None => thread[e] = "dropping"

\* A downloaded package is on disk as long as it can be installed, and no
\* longer, whatever fails.
DownloadsAreOwned ==
    files = prepared \cup {k \in Tokens : download[k] = "downloaded"}

\* Neither processes nor files nor the mutex outlive what they are held for.
NothingIsLeft == HostTypeOK /\ NoProcessLeft /\ DownloadsAreOwned

\* cancel_plugin kills the call it looked up and no later one, although it
\* kills after releasing the mutex and task ids may be used again; and a call
\* killed before its plugin answered saves no report.
CancelIsPrecise == killed \subseteq looked /\ doomed \cap reports = {}

\* Every call of execute_plugin returns, whatever the plugin does, and leaves
\* the table.
EveryCallReturns ==
    \A e \in Execs : thread[e] = "want" ~> thread[e] = "done"

\* The same where the deadline is a hypothesis: beside CancelEnds, which must
\* not need it, in one run.
DeadlineEndsCalls == DeadlineFairness => EveryCallReturns

\* A cancelled call ends with its process dead, without waiting for the ten
\* minutes of its deadline (checked under PromptFairness).
CancelEnds ==
    \A e \in Execs : e \in looked ~> thread[e] = "done" /\ process[e] # "alive"
=============================================================================
