---------------------------- MODULE PluginStore -----------------------------
(***************************************************************************)
(* crates/plugin-host/src/store.rs (PluginStore), one system call per step.*)
(*                                                                         *)
(* A writer is a desktop process: PluginState's mutex lets it run one of   *)
(* install, set_enabled and uninstall at a time.  A reader is a call of    *)
(* list outside that mutex: list_plugins, preview, a dependency lookup, or *)
(* the command-line program.  All of them share the directory on disk and  *)
(* nothing else.  A writer may crash between two steps, and a system call  *)
(* of it may fail, at most MaxFaults times per operation.                  *)
(*                                                                         *)
(* Files with unique names (.stage-*, .registry-*.tmp) are read by nobody  *)
(* else and are part of their writer's job.  A crash is the end of the     *)
(* process, not of the machine: completed system calls last.               *)
(***************************************************************************)
EXTENDS PluginRules, FiniteSets

CONSTANTS
    Writers,         \* processes that change the store
    Readers,         \* processes or threads that only list it
    Platforms,       \* TRUE: the Windows build, FALSE: any other
    RenameReplaces,  \* TRUE: a Windows rename replaces an existing file
    MaxOps,          \* bound on the number of operations
    MaxFaults,       \* failing system calls per operation
    MaxCrashes       \* bound on crashes

ASSUME StoreAssumption ==
    /\ Writers \cap Readers = {}
    /\ Platforms \subseteq BOOLEAN /\ RenameReplaces \in BOOLEAN
    /\ MaxOps \in Nat /\ MaxFaults \in Nat /\ MaxCrashes \in Nat

Procs == Writers \cup Readers

VARIABLES
    windows,   \* whether the program is the Windows build
    index,     \* registry.json
    backup,    \* registry.backup.json
    dirs,      \* version directories: <<id, version>>
    homes,     \* plugin directories, which hold the version directories
    pc,        \* the next system call of each process
    job,       \* the operation each process is in
    acked,     \* history: the last content whose save returned Ok
    ops, crashes,
    fresh      \* history: contents in force since a reader's call began

disk == <<index, backup, dirs, homes>>
vars == <<windows, disk, pc, job, acked, ops, crashes, fresh>>

\* A file is present or not, and has a content.
File     == [here : BOOLEAN, list : Content]
NoFile   == [here |-> FALSE, list |-> Empty]
Of(list) == [here |-> TRUE, list |-> list]

\* got is what list returned, new what save writes, grave the version
\* directories in uninstall's tombstone.
NoJob == [op |-> "none", id |-> "none", pkg |-> "none",
          got |-> Empty, new |-> Empty, grave |-> {}, faults |-> 0]

\* What the next undisturbed call of list returns.
Recovered == IF index.here THEN index.list
             ELSE IF backup.here THEN backup.list ELSE Empty

ListSteps == {"exists", "backup", "restore", "again", "read"}
SaveSteps == {"temp", "unback", "retire", "replace", "switch", "unretire",
              "drop"}
Steps     == ListSteps \cup SaveSteps \cup
             {"idle", "check", "place", "entomb", "unplace", "exhume"}

Init ==
    /\ windows \in Platforms
    /\ index = NoFile /\ backup = NoFile
    /\ dirs = {} /\ homes = {}
    /\ pc = [p \in Procs |-> "idle"]
    /\ job = [p \in Procs |-> NoJob]
    /\ acked = Empty
    /\ ops = 0 /\ crashes = 0
    /\ fresh = [r \in Readers |-> {}]

-----------------------------------------------------------------------------
\* Process p goes on to another step, with job j.
Goto(p, step, j) ==
    /\ pc' = [pc EXCEPT ![p] = step]
    /\ job' = [job EXCEPT ![p] = j]

To(p, step) == Goto(p, step, job[p])

\* The operation of a writer is over; its tombstone and temporary files go.
Return(p) == Goto(p, "idle", NoJob)

\* A system call of writer p fails, and the code goes on at `step`.
Fault(p, step) ==
    /\ job[p].faults < MaxFaults
    /\ IF step = "idle" THEN Return(p)
       ELSE Goto(p, step, [job[p] EXCEPT !.faults = @ + 1])
    /\ UNCHANGED disk

Begin(p, j) ==
    /\ pc[p] = "idle" /\ ops < MaxOps
    /\ ops' = ops + 1
    /\ Goto(p, "exists", j)
    /\ UNCHANGED <<disk, acked, crashes>>

install(p) == \E pkg \in Packages :
    Begin(p, [NoJob EXCEPT !.op = "install", !.id = pkg.id, !.pkg = pkg])

set_enabled(p) == \E i \in Ids, op \in {"enable", "disable"} :
    Begin(p, [NoJob EXCEPT !.op = op, !.id = i])

uninstall(p) == \E i \in Ids :
    Begin(p, [NoJob EXCEPT !.op = "uninstall", !.id = i])

ListCall(r) == Begin(r, [NoJob EXCEPT !.op = "list"])

-----------------------------------------------------------------------------
\* list: recover an interrupted switch, then read the index.  What a reader
\* got stays in its job; a writer goes on to its checks.
Listed(p, content) ==
    IF p \in Readers
    THEN Goto(p, "idle", [NoJob EXCEPT !.op = "listed", !.got = content])
    ELSE Goto(p, "check", [job[p] EXCEPT !.got = content])

ListExists(p) ==
    /\ pc[p] = "exists"
    /\ To(p, IF index.here THEN "again" ELSE "backup")
    /\ UNCHANGED disk

ListBackup(p) ==
    /\ pc[p] = "backup"
    /\ To(p, IF backup.here THEN "restore" ELSE "again")
    /\ UNCHANGED disk

\* A rename to `target`: it may replace a file, except on Windows as the code
\* assumes it.
CanRenameTo(target) == ~target.here \/ ~windows \/ RenameReplaces

ListRestore(p) ==
    /\ pc[p] = "restore"
    /\ IF backup.here /\ CanRenameTo(index)
       THEN index' = backup /\ backup' = NoFile /\ To(p, "again")
       ELSE UNCHANGED <<index, backup>> /\ Return(p)
    /\ UNCHANGED <<dirs, homes>>

ListAgain(p) ==
    /\ pc[p] = "again"
    /\ IF index.here THEN To(p, "read") ELSE Listed(p, Empty)
    /\ UNCHANGED disk

ListRead(p) ==
    /\ pc[p] = "read"
    /\ IF index.here THEN Listed(p, index.list) ELSE Return(p)
    /\ UNCHANGED disk

ListStep(p) ==
    /\ ListExists(p) \/ ListBackup(p) \/ ListRestore(p) \/ ListAgain(p) \/ ListRead(p)
    /\ UNCHANGED <<acked, ops, crashes>>

-----------------------------------------------------------------------------
\* Where a failed and a successful save lead.
SaveFailed(p) == CASE job[p].op = "install"   -> "unplace"
                   [] job[p].op = "uninstall" -> "exhume"
                   [] OTHER                   -> "idle"

SaveOk(p) == acked' = job[p].new /\ Return(p)

Fails(p, step) == Fault(p, step) /\ acked' = acked

\* The checks of install, set_enabled and uninstall on what list returned;
\* uninstall also looks for the plugin directory.
Allowed(j) ==
    \/ j.op = "install"   /\ MayInstall(j.pkg, j.got)
    \/ j.op = "enable"    /\ MayEnable(j.id, TRUE, j.got)
    \/ j.op = "disable"   /\ MayEnable(j.id, FALSE, j.got)
    \/ j.op = "uninstall" /\ MayUninstall(j.id, j.got) /\ j.id \in homes

Planned(j) ==
    CASE j.op = "install"   -> Installed(j.pkg, j.got)
      [] j.op = "uninstall" -> Removed(j.id, j.got)
      [] OTHER              -> Switched(j.id, j.op = "enable", j.got)

Check(p) ==
    LET j == job[p]
    IN  /\ pc[p] = "check"
        /\ IF Allowed(j)
           THEN Goto(p, CASE j.op = "install"   -> "place"
                          [] j.op = "uninstall" -> "entomb"
                          [] OTHER              -> "temp",
                     [j EXCEPT !.got = Empty, !.new = Planned(j)])
           ELSE Return(p)
        /\ UNCHANGED <<disk, acked>>

\* install_staged: unpack into the stage, then rename it to the version
\* directory, whose parent is created first.
Place(p) ==
    LET v == <<job[p].id, job[p].pkg.version>>
    IN  /\ pc[p] = "place"
        /\ \/ Fails(p, "idle")
           \/ v \in dirs /\ Return(p) /\ UNCHANGED <<disk, acked>>
           \/ /\ v \notin dirs
              /\ homes' = homes \cup {job[p].id}
              /\ \/ dirs' = dirs \cup {v} /\ To(p, "temp")
                 \/ dirs' = dirs /\ job[p].faults < MaxFaults /\ Return(p)
              /\ UNCHANGED <<index, backup, acked>>

\* The save of an install failed: the version directory is removed again.
Unplace(p) ==
    /\ pc[p] = "unplace"
    /\ \/ Fails(p, "idle")
       \/ /\ dirs' = dirs \ {<<job[p].id, job[p].pkg.version>>}
          /\ Return(p)
          /\ UNCHANGED <<index, backup, homes, acked>>

\* uninstall renames the plugin directory to its tombstone.
Entomb(p) ==
    LET grave == {d \in dirs : d[1] = job[p].id}
    IN  /\ pc[p] = "entomb"
        /\ \/ Fails(p, "idle")
           \/ job[p].id \notin homes /\ Return(p) /\ UNCHANGED <<disk, acked>>
           \/ /\ job[p].id \in homes
              /\ homes' = homes \ {job[p].id}
              /\ dirs' = dirs \ grave
              /\ Goto(p, "temp", [job[p] EXCEPT !.grave = grave])
              /\ UNCHANGED <<index, backup, acked>>

\* The save of an uninstall failed: the plugin directory is renamed back.
Exhume(p) ==
    /\ pc[p] = "exhume"
    /\ \/ Fails(p, "idle")
       \/ /\ homes' = homes \cup {job[p].id}
          /\ dirs' = IF job[p].id \in homes THEN dirs ELSE dirs \cup job[p].grave
          /\ Return(p)
          /\ UNCHANGED <<index, backup, acked>>

-----------------------------------------------------------------------------
\* Mutant of SaveTemp: the switch over a backup is used on every system.
SaveTempTwoStep(p) ==
    /\ pc[p] = "temp"
    /\ To(p, IF index.here THEN "unback" ELSE "replace")
    /\ UNCHANGED <<disk, acked>>

\* save.  The new content is written to a temporary file and made durable;
\* then the index is switched to it.
SaveTemp(p) ==
    /\ pc[p] = "temp"
    /\ \/ Fails(p, SaveFailed(p))
       \/ /\ To(p, IF windows /\ index.here THEN "unback" ELSE "replace")
          /\ UNCHANGED <<disk, acked>>

\* Anywhere but on Windows, and there for the first index: one rename.
SaveReplace(p) ==
    /\ pc[p] = "replace"
    /\ \/ Fails(p, SaveFailed(p))
       \/ CanRenameTo(index) /\ index' = Of(job[p].new) /\ SaveOk(p)
          /\ UNCHANGED <<backup, dirs, homes>>
       \/ ~CanRenameTo(index) /\ To(p, SaveFailed(p)) /\ UNCHANGED <<disk, acked>>

\* Windows: a backup left over from an earlier switch is removed ...
SaveUnback(p) ==
    /\ pc[p] = "unback"
    /\ \/ Fails(p, SaveFailed(p))
       \/ /\ backup' = NoFile /\ To(p, "retire")
          /\ UNCHANGED <<index, dirs, homes, acked>>

\* Mutant of SaveRetire: the old index is removed, not kept as a backup.
SaveRetireDelete(p) ==
    /\ pc[p] = "retire"
    /\ index' = NoFile /\ To(p, "switch")
    /\ UNCHANGED <<backup, dirs, homes, acked>>

\* ... the index becomes the backup ...
SaveRetire(p) ==
    /\ pc[p] = "retire"
    /\ \/ Fails(p, SaveFailed(p))
       \/ /\ index.here /\ CanRenameTo(backup)
          /\ backup' = index /\ index' = NoFile /\ To(p, "switch")
          /\ UNCHANGED <<dirs, homes, acked>>
       \/ /\ ~(index.here /\ CanRenameTo(backup))
          /\ To(p, SaveFailed(p)) /\ UNCHANGED <<disk, acked>>

\* ... the temporary file becomes the index ...
SaveSwitch(p) ==
    /\ pc[p] = "switch"
    /\ \/ Fails(p, "unretire")
       \/ CanRenameTo(index) /\ index' = Of(job[p].new) /\ To(p, "drop")
          /\ UNCHANGED <<backup, dirs, homes, acked>>
       \/ ~CanRenameTo(index) /\ To(p, "unretire") /\ UNCHANGED <<disk, acked>>

\* Mutant of SaveUnretire: the backup is removed when the switch has failed.
SaveUnretireDrop(p) ==
    /\ pc[p] = "unretire"
    /\ backup' = NoFile /\ To(p, SaveFailed(p))
    /\ UNCHANGED <<index, dirs, homes, acked>>

\* ... or, if that fails, the backup becomes the index again ...
SaveUnretire(p) ==
    /\ pc[p] = "unretire"
    /\ \/ Fails(p, SaveFailed(p))
       \/ /\ To(p, SaveFailed(p))
          /\ IF backup.here /\ CanRenameTo(index)
             THEN index' = backup /\ backup' = NoFile
             ELSE UNCHANGED <<index, backup>>
          /\ UNCHANGED <<dirs, homes, acked>>

\* ... and the backup is removed, which may fail and is not reported.
SaveDrop(p) ==
    /\ pc[p] = "drop"
    /\ SaveOk(p)
    /\ \/ backup' = NoFile
       \/ backup' = backup /\ job[p].faults < MaxFaults
    /\ UNCHANGED <<index, dirs, homes>>

SaveStep(p) ==
    \/ SaveTemp(p) \/ SaveReplace(p) \/ SaveUnback(p) \/ SaveRetire(p)
    \/ SaveSwitch(p) \/ SaveUnretire(p) \/ SaveDrop(p)

WriteStep(p) ==
    /\ Check(p) \/ Place(p) \/ Unplace(p) \/ Entomb(p) \/ Exhume(p) \/ SaveStep(p)
    /\ UNCHANGED <<ops, crashes>>

\* The writer's process ends between two system calls.  The content it was
\* about to save counts as acknowledged if it is already in force.
Crash(p) ==
    /\ pc[p] # "idle" /\ crashes < MaxCrashes
    /\ crashes' = crashes + 1
    /\ Return(p)
    /\ acked' = IF pc[p] = "drop" /\ Recovered = job[p].new THEN Recovered ELSE acked
    /\ UNCHANGED <<disk, ops>>

Step ==
    \/ \E p \in Writers : install(p) \/ set_enabled(p) \/ uninstall(p) \/ Crash(p)
    \/ \E p \in Writers : WriteStep(p)
    \/ \E r \in Readers : ListCall(r)
    \/ \E p \in Procs : ListStep(p)

\* `fresh` follows what is in force while a reader is in its call.
Next ==
    /\ Step /\ UNCHANGED windows
    /\ fresh' = [r \in Readers |->
          IF pc[r] = "idle" THEN IF pc'[r] = "idle" THEN fresh[r] ELSE {Recovered'}
          ELSE fresh[r] \cup {Recovered'}]

Spec == Init /\ [][Next]_vars

\* On Windows an unlocked list may undo an update (see the README), so there
\* nobody but the writers uses the store.
Alone == windows => \A r \in Readers : pc'[r] = "idle"

AloneSpec == Init /\ [][Next /\ Alone]_vars

-----------------------------------------------------------------------------
\* Files, processes and jobs have their types, and an absent file has no
\* content.
TypeOK ==
    /\ windows \in Platforms
    /\ index \in File /\ backup \in File
    /\ dirs \subseteq Ids \X Nat /\ homes \subseteq Ids
    /\ \A d \in dirs : d[1] \in homes
    /\ pc \in [Procs -> Steps]
    /\ \A p \in Procs : job[p].got \in Content /\ job[p].new \in Content
    /\ \A p \in Procs : pc[p] = "place" => job[p].pkg \in Packages
    /\ ops \in 0..MaxOps /\ crashes \in 0..MaxCrashes

\* Whatever crashes, fails or runs at the same time, the index, the backup
\* and any content about to be saved satisfy the dependency rules: no plugin
\* is enabled over a missing, disabled or out-of-range dependency, and no
\* upgrade closes a cycle.
IndexWellFormed ==
    /\ WellFormed(index.list) /\ WellFormed(backup.list)
    /\ \A p \in Procs : WellFormed(job[p].new)

\* When no operation is running, list returns exactly what the last
\* successful operation saved: a failed operation has left no trace in it, a
\* crash loses nothing and an interrupted switch is recovered.  And as long as
\* no process crashed, every registered plugin has the directory of its
\* version, and every version directory belongs to a registered plugin of at
\* least that version: a failed operation undoes what it did to directories.
UpdateIsKept ==
    (\A p \in Writers : pc[p] = "idle") =>
        /\ Recovered = acked
        /\ crashes = 0 =>
              /\ \A i \in DOMAIN Recovered : <<i, Recovered[i].pkg.version>> \in dirs
              /\ \A d \in dirs : d[1] \in DOMAIN Recovered
                                    /\ d[2] <= Recovered[d[1]].pkg.version

\* What list returns was in force at some moment during the call.
ReadsCommitted ==
    \A r \in Readers : pc[r] = "idle" /\ job[r].op = "listed"
                          => job[r].got \in fresh[r]

\* The store implements the atomic registry.
Registry == INSTANCE PluginRegistry WITH content <- Recovered
ImplementsRegistry == Registry!Spec
=============================================================================
