---------------------------- MODULE PluginProofs ----------------------------
(***************************************************************************)
(* However many processes share a plugin directory, whatever crashes and   *)
(* whatever fails, every content of the index obeys the dependency rules;  *)
(* list returns what was in force; and with one writer the store is the    *)
(* atomic registry and keeps its directories in line with its index.       *)
(*                                                                         *)
(* The rules are checked on what list returned, which another process may  *)
(* have replaced since.  The index is well formed all the same because an  *)
(* operation writes a whole content, derived from one well-formed content, *)
(* and the switch and the recovery only move whole contents.  Sound makes  *)
(* that inductive: it covers every place that holds a content.  With one   *)
(* writer the content it read is still in force when it saves (InForce),   *)
(* because the readers move no file where a rename replaces the index in   *)
(* one step, and on Windows nobody else runs.                              *)
(*                                                                         *)
(* The first part is about PluginRules: every operation that passes its    *)
(* checks turns a content that obeys the rules into one that does.         *)
(***************************************************************************)
EXTENDS PluginStore, PluginHost, TLAPS

\* A content of the right type that obeys the rules.
Good(list) == list \in Content /\ WellFormed(list)

-----------------------------------------------------------------------------
\* A content is a function on some of the ids.
LEMMA ContentShape ==
    ASSUME NEW list \in Content
    PROVE  /\ DOMAIN list \subseteq Ids
           /\ \A i \in DOMAIN list : list[i] \in Entry
BY DEF Content

\* And every function from some ids to entries is a content.
LEMMA ContentBuilt ==
    ASSUME NEW S \in SUBSET Ids, NEW f, f \in [S -> Entry]
    PROVE  f \in Content
BY DEF Content

\* The empty content is good.
LEMMA EmptyGood == Good(Empty)
<1>1. Empty \in [{} -> Entry]
  BY DEF Empty
<1>2. DOMAIN Empty = {}
  BY DEF Empty
<1>3. Empty \in Content
  BY <1>1, ContentBuilt
<1>4. WellFormed(Empty)
  BY <1>2 DEF WellFormed, Filed, Satisfied, Acyclic, Circular
<1>5. QED
  BY <1>3, <1>4 DEF Good

\* An install that passes its checks keeps the content good.
LEMMA InstallGood ==
    ASSUME NEW list, Good(list), NEW p \in Packages, MayInstall(p, list)
    PROVE  Good(Installed(p, list))
<1> DEFINE new == Installed(p, list)
           D   == DOMAIN list \cup {p.id}
<1>1. /\ p.id \in Ids /\ p.deps \in SUBSET [id : Ids, range : SUBSET Nat]
      /\ \A i \in DOMAIN list : list[i] \in Entry
      /\ DOMAIN list \subseteq Ids
  BY RulesAssumption, ContentShape DEF Package, Good
<1>2. /\ DOMAIN new = D
      /\ new[p.id] = [pkg |-> p, enabled |-> TRUE]
      /\ \A i \in DOMAIN list \ {p.id} : new[i] = list[i]
  BY DEF Installed
<1>3. new \in Content
  <2>1. \A i \in D : new[i] \in Entry
    <3>1. new[p.id] \in Entry
      BY <1>2 DEF Entry
    <3>2. \A i \in DOMAIN list \ {p.id} : new[i] \in Entry
      BY <1>1, <1>2, Zenon
    <3>3. QED
      BY <3>1, <3>2
  <2>2. new = [i \in D |-> new[i]]
    BY DEF Installed
  <2>3. new \in [D -> Entry]
    BY <2>1, <2>2, Zenon
  <2>4. D \in SUBSET Ids
    BY <1>1
  <2>5. QED
    BY <2>3, <2>4, ContentBuilt
<1>4. Filed(new)
  BY <1>2 DEF Filed, Good, WellFormed
<1> DEFINE deps == [i \in Ids |-> IF i = p.id THEN p.deps
                                  ELSE IF i \in DOMAIN list THEN list[i].pkg.deps
                                  ELSE {}]
           closed(S) == \A i \in S : \A d \in deps[i] : d.id \in S
           reached == {j \in Ids : \A S \in SUBSET Ids :
                                       p.id \in S /\ closed(S) => j \in S}
<1>5. ~Circular(reached, deps)
  BY DEF MayInstall, check_cycles
<1>6. p.id \in reached
  BY <1>1
<1>7. \A i \in D : deps[i] = new[i].pkg.deps
  BY <1>1, <1>2
<1>8. \A i \in reached : \A d \in deps[i] : d.id \in reached
  <2>1. SUFFICES ASSUME NEW i \in reached, NEW d \in deps[i]
                 PROVE  d.id \in reached
    OBVIOUS
  <2>2. d.id \in Ids
    <3>1. i \in Ids
      OBVIOUS
    <3>2. deps[i] \in SUBSET [id : Ids, range : SUBSET Nat]
      <4>1. \A j \in DOMAIN list : list[j].pkg \in Package
        BY <1>1, RulesAssumption DEF Entry
      <4>2. \A j \in DOMAIN list :
               list[j].pkg.deps \in SUBSET [id : Ids, range : SUBSET Nat]
        BY <4>1 DEF Package
      <4>3. deps[i] = IF i = p.id THEN p.deps
                      ELSE IF i \in DOMAIN list THEN list[i].pkg.deps ELSE {}
        BY <3>1, Zenon
      <4>4. QED
        BY <1>1, <4>2, <4>3
    <3>3. QED
      BY <3>2
  <2>3. \A S \in SUBSET Ids : p.id \in S /\ closed(S) => d.id \in S
    OBVIOUS
  <2>4. QED
    BY <2>2, <2>3
<1>9. Acyclic(new)
  <2>1. SUFFICES ASSUME NEW C \in SUBSET D, C # {},
                        \A i \in C : \E d \in new[i].pkg.deps : d.id \in C
                 PROVE  FALSE
    BY <1>2 DEF Acyclic, Circular
  <2>2. CASE p.id \in C
    <3> DEFINE B == C \cap reached
    <3>1. B \in SUBSET reached /\ B # {}
      BY <1>6, <2>2
    <3>2. \A i \in B : \E d \in deps[i] : d.id \in B
      BY <1>7, <1>8, <2>1
    <3>3. QED
      BY <1>5, <3>1, <3>2 DEF Circular
  <2>3. CASE p.id \notin C
    <3>1. C \in SUBSET DOMAIN list
      BY <2>3
    <3>2. \A i \in C : \E d \in list[i].pkg.deps : d.id \in C
      BY <1>2, <2>1, <2>3, <3>1
    <3>3. Circular(DOMAIN list, [i \in DOMAIN list |-> list[i].pkg.deps])
      BY <2>1, <3>1, <3>2 DEF Circular
    <3>4. QED
      BY <3>3 DEF Good, WellFormed, Acyclic
  <2>4. QED
    BY <2>2, <2>3
<1>10. \A d \in p.deps : d.id # p.id
  <2>1. SUFFICES ASSUME NEW d \in p.deps, d.id = p.id
                 PROVE  FALSE
    OBVIOUS
  <2>2. {p.id} \in SUBSET reached /\ {p.id} # {}
    BY <1>6
  <2>3. deps[p.id] = p.deps
    BY <1>1
  <2>4. \A i \in {p.id} : \E e \in deps[i] : e.id \in {p.id}
    BY <2>1, <2>3
  <2>5. QED
    BY <1>5, <2>2, <2>4 DEF Circular
<1>11. Satisfied(new)
  <2>1. SUFFICES ASSUME NEW i \in D, NEW d \in new[i].pkg.deps
                 PROVE  /\ d.id \in D
                        /\ new[d.id].pkg.version \in d.range
                        /\ new[i].enabled => new[d.id].enabled
    BY <1>2 DEF Satisfied
  <2>2. CASE i = p.id
    <3>1. d \in p.deps /\ d.id # p.id
      BY <1>2, <1>10, <2>1, <2>2
    <3>2. d.id \in DOMAIN list /\ list[d.id].enabled
          /\ list[d.id].pkg.version \in d.range
      BY <3>1 DEF MayInstall, check_dependencies
    <3>3. QED
      BY <1>2, <3>1, <3>2
  <2>3. CASE i # p.id
    <3>1. i \in DOMAIN list \ {p.id} /\ d \in list[i].pkg.deps
      BY <1>2, <2>1, <2>3
    <3>2. d.id \in DOMAIN list /\ list[d.id].pkg.version \in d.range
          /\ (list[i].enabled => list[d.id].enabled)
      BY <3>1 DEF Good, WellFormed, Satisfied
    <3>3. d.id = p.id => p.version \in d.range
      BY <3>1 DEF MayInstall, check_upgrade, check_dependents
    <3>4. QED
      BY <1>2, <3>1, <3>2, <3>3
  <2>4. QED
    BY <2>2, <2>3
<1>12. QED
  BY <1>3, <1>4, <1>9, <1>11 DEF Good, WellFormed

\* Enabling a plugin whose dependencies are enabled, or disabling one that no
\* enabled plugin needs, keeps the content good.
LEMMA SwitchGood ==
    ASSUME NEW list, Good(list), NEW i \in Ids, NEW enabled \in BOOLEAN,
           MayEnable(i, enabled, list)
    PROVE  Good(Switched(i, enabled, list))
<1> DEFINE new == Switched(i, enabled, list)
<1>1. /\ i \in DOMAIN list
      /\ \A j \in DOMAIN list : list[j] \in Entry
      /\ DOMAIN list \subseteq Ids
  BY ContentShape DEF Good, MayEnable
<1>2. /\ DOMAIN new = DOMAIN list
      /\ \A j \in DOMAIN list : new[j].pkg = list[j].pkg
      /\ new[i].enabled = enabled
      /\ \A j \in DOMAIN list \ {i} : new[j] = list[j]
  BY <1>1 DEF Switched
<1>3. new \in Content
  <2>1. \A j \in DOMAIN list : new[j] \in Entry
    <3>1. new[i] = [pkg |-> list[i].pkg, enabled |-> enabled]
      BY <1>1 DEF Switched
    <3>2. new[i] \in Entry
      BY <1>1, <3>1 DEF Entry
    <3>3. \A j \in DOMAIN list \ {i} : new[j] \in Entry
      BY <1>1, <1>2, Zenon
    <3>4. QED
      BY <3>2, <3>3
  <2>2. new = [j \in DOMAIN list |-> new[j]]
    BY DEF Switched
  <2>3. new \in [DOMAIN list -> Entry]
    BY <2>1, <2>2, Zenon
  <2>4. DOMAIN list \in SUBSET Ids
    BY <1>1
  <2>5. QED
    BY <2>3, <2>4, ContentBuilt
<1>4. Filed(new)
  BY <1>2 DEF Filed, Good, WellFormed
<1>5. Acyclic(new)
  <2>1. SUFFICES ASSUME NEW C \in SUBSET DOMAIN list, C # {},
                        \A j \in C : \E d \in new[j].pkg.deps : d.id \in C
                 PROVE  FALSE
    BY <1>2 DEF Acyclic, Circular
  <2>2. \A j \in C : \E d \in list[j].pkg.deps : d.id \in C
    BY <1>2, <2>1
  <2>3. Circular(DOMAIN list, [j \in DOMAIN list |-> list[j].pkg.deps])
    BY <2>1, <2>2 DEF Circular
  <2>4. QED
    BY <2>3 DEF Good, WellFormed, Acyclic
<1>6. Satisfied(new)
  <2>1. SUFFICES ASSUME NEW j \in DOMAIN list, NEW d \in list[j].pkg.deps
                 PROVE  /\ d.id \in DOMAIN list
                        /\ list[d.id].pkg.version \in d.range
                        /\ new[j].enabled => new[d.id].enabled
    BY <1>2 DEF Satisfied
  <2>2. /\ d.id \in DOMAIN list /\ list[d.id].pkg.version \in d.range
        /\ list[j].enabled => list[d.id].enabled
    BY DEF Good, WellFormed, Satisfied
  <2>3. CASE enabled
    <3>1. check_dependencies(list[i].pkg, list)
      BY <2>3 DEF MayEnable
    <3>2. CASE j = i
      BY <1>2, <2>2, <2>3, <3>1, <3>2 DEF check_dependencies
    <3>3. CASE j # i
      BY <1>2, <2>2, <2>3, <3>3
    <3>4. QED
      BY <3>2, <3>3
  <2>4. CASE ~enabled
    <3>1. d.id = i => ~list[j].enabled
      BY <2>4 DEF MayEnable
    <3>2. CASE j = i
      BY <1>2, <2>2, <2>4, <3>2
    <3>3. CASE j # i
      BY <1>2, <2>2, <3>1, <3>3
    <3>4. QED
      BY <3>2, <3>3
  <2>5. QED
    BY <2>2, <2>3, <2>4
<1>7. QED
  BY <1>3, <1>4, <1>5, <1>6 DEF Good, WellFormed

\* Removing a plugin that no other needs keeps the content good.
LEMMA RemoveGood ==
    ASSUME NEW list, Good(list), NEW i \in Ids, MayUninstall(i, list)
    PROVE  Good(Removed(i, list))
<1> DEFINE new == Removed(i, list)
           D   == DOMAIN list \ {i}
<1>1. /\ \A j \in DOMAIN list : list[j] \in Entry
      /\ DOMAIN list \subseteq Ids
  BY ContentShape DEF Good
<1>2. /\ DOMAIN new = D
      /\ \A j \in D : new[j] = list[j]
  BY DEF Removed
<1>3. new \in Content
  <2>1. \A j \in D : new[j] \in Entry
    BY <1>1, <1>2, Zenon
  <2>2. new = [j \in D |-> new[j]]
    BY DEF Removed
  <2>3. new \in [D -> Entry]
    BY <2>1, <2>2, Zenon
  <2>4. D \in SUBSET Ids
    BY <1>1
  <2>5. QED
    BY <2>3, <2>4, ContentBuilt
<1>4. Filed(new)
  BY <1>2 DEF Filed, Good, WellFormed
<1>5. Acyclic(new)
  <2>1. SUFFICES ASSUME NEW C \in SUBSET D, C # {},
                        \A j \in C : \E d \in new[j].pkg.deps : d.id \in C
                 PROVE  FALSE
    BY <1>2 DEF Acyclic, Circular
  <2>2. C \in SUBSET DOMAIN list /\ \A j \in C : \E d \in list[j].pkg.deps : d.id \in C
    BY <1>2, <2>1
  <2>3. Circular(DOMAIN list, [j \in DOMAIN list |-> list[j].pkg.deps])
    BY <2>1, <2>2 DEF Circular
  <2>4. QED
    BY <2>3 DEF Good, WellFormed, Acyclic
<1>6. Satisfied(new)
  <2>1. SUFFICES ASSUME NEW j \in D, NEW d \in list[j].pkg.deps
                 PROVE  /\ d.id \in D
                        /\ list[d.id].pkg.version \in d.range
                        /\ list[j].enabled => list[d.id].enabled
    BY <1>2 DEF Satisfied
  <2>2. d.id # i
    BY DEF MayUninstall
  <2>3. QED
    BY <2>2 DEF Good, WellFormed, Satisfied
<1>7. QED
  BY <1>3, <1>4, <1>5, <1>6 DEF Good, WellFormed

-----------------------------------------------------------------------------
Ops == {"none", "list", "listed", "install", "enable", "disable", "uninstall"}

Job == [op : Ops, id : Ids \cup {"none"}, pkg : Packages \cup {"none"},
        got : Content, new : Content, grave : SUBSET (Ids \X Nat), faults : Nat]

GoodFile(f) == f \in File /\ Good(f.list)

GoodJob(j) ==
    /\ j \in Job /\ Good(j.got) /\ Good(j.new)
    /\ j.op = "install" => j.pkg \in Packages /\ j.id = j.pkg.id

\* The steps a process can be at while it is in no install.
Others == Steps \ {"place"}

\* The inductive invariant: every place that holds a content holds a good one.
Sound ==
    /\ GoodFile(index) /\ GoodFile(backup)
    /\ dirs \in SUBSET (Ids \X Nat)
    /\ pc \in [Procs -> Steps]
    /\ job \in [Procs -> Job]
    /\ \A p \in Procs : GoodJob(job[p])
    /\ \A p \in Procs : pc[p] = "place" => job[p].op = "install"

-----------------------------------------------------------------------------
\* An absent file, a new file and an empty job hold good contents.
LEMMA NoFileGood == GoodFile(NoFile)
BY EmptyGood DEF NoFile, GoodFile, File, Good

\* A file written with a good content is good.
LEMMA OfGood ==
    ASSUME NEW list, Good(list)
    PROVE  GoodFile(Of(list))
BY DEF Of, GoodFile, File, Good

\* An idle process holds nothing bad.
LEMMA NoJobGood == GoodJob(NoJob)
BY EmptyGood DEF NoJob, GoodJob, Job, Ops, Good

\* A failed system call is counted and leaves the contents of the job alone.
LEMMA FaultGood ==
    ASSUME NEW j, GoodJob(j)
    PROVE  GoodJob([j EXCEPT !.faults = @ + 1])
<1> DEFINE k == [j EXCEPT !.faults = @ + 1]
<1>1. j \in Job
  BY DEF GoodJob
<1>2. k \in Job
  BY <1>1 DEF Job
<1>3. k.got = j.got /\ k.new = j.new /\ k.op = j.op /\ k.pkg = j.pkg /\ k.id = j.id
  BY <1>1 DEF Job
<1>4. QED
  BY <1>2, <1>3 DEF GoodJob

\* A step of one process that leaves good files and a good job is sound.
LEMMA GotoSound ==
    ASSUME Sound, NEW p \in Procs, NEW step \in Steps, NEW j, GoodJob(j),
           step = "place" => j.op = "install",
           Goto(p, step, j),
           GoodFile(index'), GoodFile(backup'), dirs' \in SUBSET (Ids \X Nat)
    PROVE  Sound'
<1>1. j \in Job
  BY DEF GoodJob
<1>2. pc' \in [Procs -> Steps] /\ job' \in [Procs -> Job]
  BY <1>1 DEF Sound, Goto
<1>3. \A q \in Procs : GoodJob(job'[q])
  <2>1. job' = [job EXCEPT ![p] = j] /\ job \in [Procs -> Job]
    BY DEF Goto, Sound
  <2>2. \A q \in Procs : job'[q] = j \/ job'[q] = job[q]
    BY <2>1
  <2>3. QED
    BY <2>2 DEF Sound
<1>4. \A q \in Procs : pc'[q] = "place" => job'[q].op = "install"
  <2>1. /\ pc' = [pc EXCEPT ![p] = step] /\ pc \in [Procs -> Steps]
        /\ job' = [job EXCEPT ![p] = j] /\ job \in [Procs -> Job]
    BY DEF Goto, Sound
  <2>2. pc'[p] = step /\ job'[p] = j
    BY <2>1
  <2>3. \A q \in Procs \ {p} : pc'[q] = pc[q] /\ job'[q] = job[q]
    BY <2>1
  <2>4. QED
    BY <2>2, <2>3 DEF Sound
<1>5. QED
  BY <1>2, <1>3, <1>4 DEF Sound

\* The same where the process only moves on, or returns.
LEMMA ToSound ==
    ASSUME Sound, NEW p \in Procs, NEW step \in Others, To(p, step),
           GoodFile(index'), GoodFile(backup'), dirs' \in SUBSET (Ids \X Nat)
    PROVE  Sound'
<1>1. GoodJob(job[p]) /\ Goto(p, step, job[p])
  BY DEF Sound, To
<1>2. QED
  BY <1>1, GotoSound DEF Others

\* So does the end of an operation, which drops the job.
LEMMA ReturnSound ==
    ASSUME Sound, NEW p \in Procs, Return(p),
           GoodFile(index'), GoodFile(backup'), dirs' \in SUBSET (Ids \X Nat)
    PROVE  Sound'
<1>1. "idle" \in Steps
  BY DEF Steps
<1>2. QED
  BY <1>1, NoJobGood, GotoSound DEF Return

\* A failing system call changes nothing on disk.
LEMMA FailsSound ==
    ASSUME Sound, NEW p \in Procs, NEW step \in Others, Fails(p, step)
    PROVE  Sound'
<1>1. GoodFile(index') /\ GoodFile(backup') /\ dirs' \in SUBSET (Ids \X Nat)
  BY DEF Fails, Fault, disk, Sound
<1>2. CASE step = "idle"
  <2>1. Return(p)
    BY <1>2 DEF Fails, Fault
  <2>2. QED
    BY <1>1, <2>1, ReturnSound
<1>3. CASE step # "idle"
  <2>1. Goto(p, step, [job[p] EXCEPT !.faults = @ + 1])
    BY <1>3 DEF Fails, Fault
  <2>2. GoodJob([job[p] EXCEPT !.faults = @ + 1])
    BY FaultGood DEF Sound
  <2>3. QED
    BY <1>1, <2>1, <2>2, GotoSound DEF Others
<1>4. QED
  BY <1>2, <1>3

\* A failed save leads to a step of the store.
LEMMA SaveFailedStep ==
    ASSUME NEW p \in Procs
    PROVE  SaveFailed(p) \in Others
BY DEF SaveFailed, Others, Steps

-----------------------------------------------------------------------------
\* An operation begins with a good job and the disk as it is.
LEMMA BeginSound ==
    ASSUME Sound, NEW p \in Procs, NEW j, GoodJob(j), Begin(p, j)
    PROVE  Sound'
<1>1. GoodFile(index') /\ GoodFile(backup') /\ dirs' \in SUBSET (Ids \X Nat)
  BY DEF Begin, disk, Sound
<1>2. Goto(p, "exists", j) /\ "exists" \in Steps
  BY DEF Begin, Steps, ListSteps
<1>3. QED
  BY <1>1, <1>2, GotoSound

\* A new operation starts from an empty job.
LEMMA StartSound ==
    ASSUME Sound, NEW p \in Procs,
           install(p) \/ set_enabled(p) \/ uninstall(p) \/ ListCall(p)
    PROVE  Sound'
<1>1. /\ NoJob.got = Empty /\ NoJob.new = Empty /\ NoJob \in Job
      /\ Good(Empty)
  BY NoJobGood, EmptyGood DEF NoJob, GoodJob
<1>2. CASE install(p)
  <2>1. PICK pkg \in Packages :
          Begin(p, [NoJob EXCEPT !.op = "install", !.id = pkg.id, !.pkg = pkg])
    BY <1>2 DEF install
  <2>2. pkg.id \in Ids
    BY RulesAssumption DEF Package
  <2>3. GoodJob([NoJob EXCEPT !.op = "install", !.id = pkg.id, !.pkg = pkg])
    BY <1>1, <2>2 DEF GoodJob, Job, Ops, NoJob
  <2>4. QED
    BY <2>1, <2>3, BeginSound
<1>3. CASE set_enabled(p)
  <2>1. PICK i \in Ids, op \in {"enable", "disable"} :
          Begin(p, [NoJob EXCEPT !.op = op, !.id = i])
    BY <1>3 DEF set_enabled
  <2>2. GoodJob([NoJob EXCEPT !.op = op, !.id = i])
    BY <1>1, <2>1 DEF GoodJob, Job, Ops, NoJob
  <2>3. QED
    BY <2>1, <2>2, BeginSound
<1>4. CASE uninstall(p)
  <2>1. PICK i \in Ids : Begin(p, [NoJob EXCEPT !.op = "uninstall", !.id = i])
    BY <1>4 DEF uninstall
  <2>2. GoodJob([NoJob EXCEPT !.op = "uninstall", !.id = i])
    BY <1>1 DEF GoodJob, Job, Ops, NoJob
  <2>3. QED
    BY <2>1, <2>2, BeginSound
<1>5. CASE ListCall(p)
  <2>1. GoodJob([NoJob EXCEPT !.op = "list"])
    BY <1>1 DEF GoodJob, Job, Ops, NoJob
  <2>2. QED
    BY <1>5, <2>1, BeginSound DEF ListCall
<1>6. QED
  BY <1>2, <1>3, <1>4, <1>5

\* What list returns is good if what it read is.
LEMMA ListedSound ==
    ASSUME Sound, NEW p \in Procs, NEW content, Good(content),
           Listed(p, content),
           GoodFile(index'), GoodFile(backup'), dirs' \in SUBSET (Ids \X Nat)
    PROVE  Sound'
<1>1. "idle" \in Steps /\ "check" \in Steps
  BY DEF Steps
<1>2. CASE p \in Readers
  <2>1. GoodJob([NoJob EXCEPT !.op = "listed", !.got = content])
    BY EmptyGood DEF GoodJob, Job, Ops, NoJob, Good
  <2>2. QED
    BY <1>1, <1>2, <2>1, GotoSound DEF Listed
<1>3. CASE p \notin Readers
  <2> DEFINE j == [job[p] EXCEPT !.got = content]
  <2>1. GoodJob(job[p]) /\ job[p] \in Job /\ content \in Content
    BY DEF Sound, GoodJob, Good
  <2>2. j \in Job
    BY <2>1 DEF Job
  <2>3. j.got = content /\ j.new = job[p].new /\ j.op = job[p].op /\ j.pkg = job[p].pkg /\ j.id = job[p].id
    BY <2>1 DEF Job
  <2>4. GoodJob(j)
    BY <2>1, <2>2, <2>3 DEF GoodJob
  <2>5. QED
    BY <1>1, <1>3, <2>4, GotoSound DEF Listed
<1>4. QED
  BY <1>2, <1>3

\* Each step of list preserves Sound: the index and the backup are only
\* renamed, and what is read from them is good.
LEMMA ListStepSound ==
    ASSUME Sound, NEW p \in Procs, ListStep(p)
    PROVE  Sound'
<1>1. /\ GoodFile(index) /\ GoodFile(backup) /\ dirs \in SUBSET (Ids \X Nat)
      /\ Good(index.list) /\ Good(Empty)
  BY EmptyGood DEF Sound, GoodFile
<1>2. {"exists", "backup", "restore", "again", "read"} \subseteq Others
  BY DEF Others, Steps, ListSteps
<1>3. CASE ListExists(p)
  <2>1. PICK step \in Others : To(p, step)
    BY <1>2, <1>3 DEF ListExists
  <2>2. QED
    BY <1>1, <1>3, <2>1, ToSound DEF ListExists, disk
<1>4. CASE ListBackup(p)
  <2>1. PICK step \in Others : To(p, step)
    BY <1>2, <1>4 DEF ListBackup
  <2>2. QED
    BY <1>1, <1>4, <2>1, ToSound DEF ListBackup, disk
<1>5. CASE ListRestore(p)
  <2>1. GoodFile(index') /\ GoodFile(backup') /\ dirs' \in SUBSET (Ids \X Nat)
    BY <1>1, <1>5, NoFileGood DEF ListRestore
  <2>2. To(p, "again") \/ Return(p)
    BY <1>5 DEF ListRestore
  <2>3. QED
    BY <1>2, <2>1, <2>2, ToSound, ReturnSound
<1>6. CASE ListAgain(p)
  <2>1. GoodFile(index') /\ GoodFile(backup') /\ dirs' \in SUBSET (Ids \X Nat)
    BY <1>1, <1>6 DEF ListAgain, disk
  <2>2. To(p, "read") \/ Listed(p, Empty)
    BY <1>6 DEF ListAgain
  <2>3. QED
    BY <1>1, <1>2, <2>1, <2>2, ToSound, ListedSound
<1>7. CASE ListRead(p)
  <2>1. GoodFile(index') /\ GoodFile(backup') /\ dirs' \in SUBSET (Ids \X Nat)
    BY <1>1, <1>7 DEF ListRead, disk
  <2>2. Listed(p, index.list) \/ Return(p)
    BY <1>7 DEF ListRead
  <2>3. QED
    BY <1>1, <2>1, <2>2, ListedSound, ReturnSound
<1>8. QED
  BY <1>3, <1>4, <1>5, <1>6, <1>7 DEF ListStep

\* The content a writer plans to save is good: the rules allow the operation
\* on the content it read.
LEMMA PlannedGood ==
    ASSUME NEW j, GoodJob(j), Allowed(j)
    PROVE  Good(Planned(j))
<1>1. CASE j.op = "install"
  BY <1>1, InstallGood DEF Allowed, Planned, GoodJob
<1>2. CASE j.op = "uninstall"
  <2>1. MayUninstall(j.id, j.got)
    BY <1>2 DEF Allowed
  <2>2. j.id \in Ids
    BY <2>1, ContentShape DEF MayUninstall, GoodJob, Good
  <2>3. QED
    BY <1>2, <2>1, <2>2, RemoveGood DEF Planned, GoodJob
<1>3. CASE j.op \in {"enable", "disable"}
  <2>1. MayEnable(j.id, j.op = "enable", j.got)
    <3>1. CASE j.op = "enable"
      BY <3>1 DEF Allowed
    <3>2. CASE j.op = "disable"
      BY <3>2 DEF Allowed
    <3>3. QED
      BY <1>3, <3>1, <3>2
  <2>2. j.id \in Ids
    BY <2>1, ContentShape DEF MayEnable, GoodJob, Good
  <2>3. Good(Switched(j.id, j.op = "enable", j.got))
    BY <2>1, <2>2, SwitchGood DEF GoodJob
  <2>4. QED
    BY <1>3, <2>3 DEF Planned
<1>4. QED
  BY <1>1, <1>2, <1>3 DEF Allowed

\* The checks of an operation preserve Sound: what they plan is good.
LEMMA CheckSound ==
    ASSUME Sound, NEW p \in Procs, Check(p)
    PROVE  Sound'
<1>1. GoodFile(index') /\ GoodFile(backup') /\ dirs' \in SUBSET (Ids \X Nat)
  BY DEF Check, disk, Sound
<1>2. CASE Allowed(job[p])
  <2> DEFINE j == [job[p] EXCEPT !.got = Empty, !.new = Planned(job[p])]
  <2>1. GoodJob(job[p]) /\ job[p] \in Job /\ Good(Planned(job[p])) /\ Good(Empty)
    BY <1>2, PlannedGood, EmptyGood DEF Sound, GoodJob
  <2>2. Planned(job[p]) \in Content /\ Empty \in Content
    BY <2>1 DEF Good
  <2>3. j \in Job /\ j.got = Empty /\ j.new = Planned(job[p])
        /\ j.op = job[p].op /\ j.pkg = job[p].pkg /\ j.id = job[p].id
    BY <2>1, <2>2 DEF Job
  <2>4. GoodJob(j)
    BY <2>1, <2>3 DEF GoodJob
  <2>5. PICK step \in {"place", "entomb", "temp"} : Goto(p, step, j)
    BY <1>2 DEF Check
  <2>6. step \in Steps /\ (step = "place" => j.op = "install")
    BY <1>2, <2>3, <2>5 DEF Steps, SaveSteps, Check, Goto, Sound, Allowed
  <2>7. QED
    BY <1>1, <2>4, <2>5, <2>6, GotoSound
<1>3. CASE ~Allowed(job[p])
  BY <1>1, <1>3, ReturnSound DEF Check
<1>4. QED
  BY <1>2, <1>3

\* The steps on the version directories touch no content.
LEMMA DirectoryStepSound ==
    ASSUME Sound, NEW p \in Procs,
           Place(p) \/ Unplace(p) \/ Entomb(p) \/ Exhume(p)
    PROVE  Sound'
<1>1. /\ GoodFile(index) /\ GoodFile(backup) /\ dirs \in SUBSET (Ids \X Nat)
      /\ GoodJob(job[p]) /\ job[p] \in Job
  BY DEF Sound, GoodJob
<1>2. {"idle", "temp"} \subseteq Others /\ {"idle", "temp"} \subseteq Steps
  BY DEF Others, Steps, SaveSteps
<1>3. CASE Fails(p, "idle")
  BY <1>2, <1>3, FailsSound
<1>4. CASE Place(p) /\ ~Fails(p, "idle")
  <2> DEFINE v == <<job[p].id, job[p].pkg.version>>
  <2>1. GoodFile(index') /\ GoodFile(backup') /\ (Return(p) \/ To(p, "temp"))
    BY <1>1, <1>4 DEF Place, disk
  <2>2. dirs' = dirs \/ dirs' = dirs \cup {v}
    BY <1>4 DEF Place, disk
  <2>3. job[p].pkg \in Packages /\ job[p].id = job[p].pkg.id
    BY <1>4 DEF Place, Sound, GoodJob
  <2>4. v \in Ids \X Nat
    BY <2>3, RulesAssumption DEF Package
  <2>5. dirs' \in SUBSET (Ids \X Nat)
    BY <1>1, <2>2, <2>4
  <2>6. QED
    BY <1>2, <2>1, <2>5, ToSound, ReturnSound
<1>5. CASE Unplace(p) /\ ~Fails(p, "idle")
  <2>1. GoodFile(index') /\ GoodFile(backup') /\ Return(p)
        /\ dirs' \in SUBSET (Ids \X Nat)
    BY <1>1, <1>5 DEF Unplace
  <2>2. QED
    BY <2>1, ReturnSound
<1>6. CASE Entomb(p) /\ ~Fails(p, "idle")
  <2> DEFINE grave == {d \in dirs : d[1] = job[p].id}
             j == [job[p] EXCEPT !.grave = grave]
  <2>1. GoodFile(index') /\ GoodFile(backup') /\ dirs' \in SUBSET (Ids \X Nat)
        /\ (Return(p) \/ Goto(p, "temp", j))
    BY <1>1, <1>6 DEF Entomb, disk
  <2>2. grave \in SUBSET (Ids \X Nat)
    BY <1>1
  <2>3. j \in Job /\ j.got = job[p].got /\ j.new = job[p].new
        /\ j.op = job[p].op /\ j.pkg = job[p].pkg /\ j.id = job[p].id
    BY <1>1, <2>2 DEF Job
  <2>4. GoodJob(j)
    BY <1>1, <2>3 DEF GoodJob
  <2>5. QED
    BY <1>2, <2>1, <2>4, GotoSound, ReturnSound
<1>7. CASE Exhume(p) /\ ~Fails(p, "idle")
  <2>1. job[p].grave \in SUBSET (Ids \X Nat)
    BY <1>1 DEF Job
  <2>2. GoodFile(index') /\ GoodFile(backup') /\ Return(p)
        /\ dirs' \in SUBSET (Ids \X Nat)
    BY <1>1, <1>7, <2>1 DEF Exhume
  <2>3. QED
    BY <2>2, ReturnSound
<1>8. QED
  BY <1>3, <1>4, <1>5, <1>6, <1>7

\* save writes the planned content and moves whole files.
LEMMA SaveStepSound ==
    ASSUME Sound, NEW p \in Procs, SaveStep(p)
    PROVE  Sound'
<1>1. /\ GoodFile(index) /\ GoodFile(backup) /\ dirs \in SUBSET (Ids \X Nat)
      /\ GoodFile(Of(job[p].new)) /\ GoodFile(NoFile)
  BY OfGood, NoFileGood DEF Sound, GoodJob
<1>2. /\ {"unback", "retire", "replace", "switch", "unretire", "drop"} \subseteq Others
      /\ SaveFailed(p) \in Others
  BY SaveFailedStep DEF Others, Steps, SaveSteps
<1>3. CASE \E step \in Others : Fails(p, step)
  BY <1>3, FailsSound
<1>4. CASE SaveStep(p) /\ ~\E step \in Others : Fails(p, step)
  <2>1. dirs' = dirs
    BY <1>2, <1>4 DEF SaveStep, SaveTemp, SaveReplace, SaveUnback, SaveRetire,
                      SaveSwitch, SaveUnretire, SaveDrop, disk
  <2>2. index' \in {index, backup, NoFile, Of(job[p].new)}
    BY <1>2, <1>4 DEF SaveStep, SaveTemp, SaveReplace, SaveUnback, SaveRetire,
                      SaveSwitch, SaveUnretire, SaveDrop, disk
  <2>3. backup' \in {index, backup, NoFile}
    BY <1>2, <1>4 DEF SaveStep, SaveTemp, SaveReplace, SaveUnback, SaveRetire,
                      SaveSwitch, SaveUnretire, SaveDrop, disk
  <2>4. Return(p) \/ \E step \in Others : To(p, step)
    BY <1>2, <1>4 DEF SaveStep, SaveTemp, SaveReplace, SaveUnback, SaveRetire,
                      SaveSwitch, SaveUnretire, SaveDrop, SaveOk
  <2>5. GoodFile(index') /\ GoodFile(backup')
    BY <1>1, <2>2, <2>3
  <2>6. QED
    BY <1>1, <2>1, <2>4, <2>5, ToSound, ReturnSound
<1>5. QED
  BY <1>3, <1>4

-----------------------------------------------------------------------------
\* Every content the program can come to hold, in the index, its backup or a
\* running operation, is well formed (store.rs, the checks before each save).
THEOREM StoreSound == Spec => []Sound
<1>1. Init => Sound
  <2> SUFFICES ASSUME Init PROVE Sound
    OBVIOUS
  <2>1. "idle" \in Steps
    BY DEF Steps
  <2>2. \A p \in Procs : job[p] = NoJob
    BY DEF Init
  <2>3. NoJob \in Job
    BY NoJobGood DEF GoodJob
  <2>4. QED
    BY <2>1, <2>2, <2>3, NoFileGood, NoJobGood DEF Init, Sound
<1>2. Sound /\ [Next]_vars => Sound'
  <2> SUFFICES ASSUME Sound, [Next]_vars PROVE Sound'
    OBVIOUS
  <2>1. CASE UNCHANGED vars
    BY <2>1 DEF vars, disk, Sound
  <2>2. ASSUME NEW p \in Writers, install(p) \/ set_enabled(p) \/ uninstall(p)
        PROVE  Sound'
    BY <2>2, StartSound DEF Procs
  <2>3. ASSUME NEW p \in Writers, Crash(p)
        PROVE  Sound'
    <3>1. GoodFile(index') /\ GoodFile(backup') /\ dirs' \in SUBSET (Ids \X Nat)
      BY <2>3 DEF Crash, disk, Sound
    <3>2. Return(p) /\ p \in Procs
      BY <2>3 DEF Crash, Procs
    <3>3. QED
      BY <3>1, <3>2, ReturnSound
  <2>4. ASSUME NEW p \in Writers, WriteStep(p)
        PROVE  Sound'
    BY <2>4, CheckSound, DirectoryStepSound, SaveStepSound DEF WriteStep, Procs
  <2>5. ASSUME NEW r \in Readers, ListCall(r)
        PROVE  Sound'
    BY <2>5, StartSound DEF Procs
  <2>6. ASSUME NEW p \in Procs, ListStep(p)
        PROVE  Sound'
    BY <2>6, ListStepSound
  <2>7. QED
    BY <2>1, <2>2, <2>3, <2>4, <2>5, <2>6 DEF Next, Step
<1>3. QED
  BY <1>1, <1>2, PTL DEF Spec

\* The dependency rules hold of the index whoever else works on the directory
\* and wherever a process stops.
THEOREM StoreIndexWellFormed == Spec => []IndexWellFormed
<1>1. Sound => IndexWellFormed
  BY DEF Sound, GoodFile, GoodJob, Good, IndexWellFormed
<1>2. QED
  BY <1>1, StoreSound, PTL
-----------------------------------------------------------------------------
(* What is in force.                                                        *)

\* The steps only the Windows build takes.
Switching == {"restore", "unback", "retire", "switch", "unretire", "drop"}

\* An absent file is empty, and without Windows there is never a backup.
Files ==
    /\ ~index.here => index = NoFile
    /\ ~backup.here => backup = NoFile
    /\ ~windows => backup = NoFile /\ \A p \in Procs : pc[p] \notin Switching

\* While a reader is in its call `fresh` holds what is in force.
Reading == \A r \in Readers :
    /\ windows => pc[r] = "idle" /\ job[r].op # "listed"
    /\ pc[r] # "idle" => Recovered \in fresh[r]
    /\ pc[r] = "idle" /\ job[r].op = "listed" => job[r].got \in fresh[r]

\* A process only moves itself.
LEMMA Mover ==
    ASSUME Sound, NEW p \in Procs, NEW step, NEW j, Goto(p, step, j)
    PROVE  /\ pc'[p] = step /\ job'[p] = j
           /\ \A q \in Procs : q # p => pc'[q] = pc[q] /\ job'[q] = job[q]
BY DEF Sound, Goto

\* So every step of a process leaves the others as they are.
LEMMA OthersStay ==
    ASSUME Sound, NEW p \in Procs, NEW q \in Procs, q # p,
           \/ install(p) \/ set_enabled(p) \/ uninstall(p) \/ ListCall(p)
           \/ Crash(p) \/ WriteStep(p) \/ ListStep(p)
    PROVE  pc'[q] = pc[q] /\ job'[q] = job[q]
<1>1. \E step, j : Goto(p, step, j)
  <2>1. CASE install(p) \/ set_enabled(p) \/ uninstall(p) \/ ListCall(p)
    BY <2>1 DEF install, set_enabled, uninstall, ListCall, Begin
  <2>2. CASE Crash(p)
    BY <2>2 DEF Crash, Return
  <2>3. CASE ListStep(p)
    BY <2>3 DEF ListStep, ListExists, ListBackup, ListRestore, ListAgain, ListRead, Listed, To, Return
  <2>4. CASE Check(p) \/ Place(p) \/ Unplace(p) \/ Entomb(p) \/ Exhume(p)
    BY <2>4 DEF Check, Place, Unplace, Entomb, Exhume, Fails, Fault, To, Return
  <2>5. CASE SaveStep(p)
    BY <2>5 DEF SaveStep, SaveTemp, SaveReplace, SaveUnback, SaveRetire, SaveSwitch,
                SaveUnretire, SaveDrop, SaveOk, Fails, Fault, To, Return
  <2> QED BY <2>1, <2>2, <2>3, <2>4, <2>5 DEF WriteStep
<1> QED BY <1>1, Mover

\* No step of a process breaks Files.
LEMMA FilesStep ==
    ASSUME Sound, Files, NEW p \in Procs, UNCHANGED windows,
           \/ install(p) \/ set_enabled(p) \/ uninstall(p) \/ ListCall(p)
           \/ Crash(p) \/ WriteStep(p) \/ ListStep(p)
    PROVE  Files'
<1>1. \A q \in Procs : q # p => pc'[q] = pc[q]
  BY OthersStay
<1> SUFFICES /\ ~index'.here => index' = NoFile
             /\ ~backup'.here => backup' = NoFile
             /\ ~windows => backup' = NoFile /\ pc'[p] \notin Switching
  BY <1>1 DEF Files
<1>2. CASE install(p) \/ set_enabled(p) \/ uninstall(p) \/ ListCall(p)
  <2>1. PICK j : Begin(p, j)
    BY <1>2 DEF install, set_enabled, uninstall, ListCall
  <2>2. pc'[p] = "exists"
    BY <2>1, Mover DEF Begin
  <2> QED BY <2>1, <2>2 DEF Begin, disk, Files, Switching
<1>3. CASE Crash(p)
  <2>1. pc'[p] = "idle"
    BY <1>3, Mover DEF Crash, Return
  <2> QED BY <1>3, <2>1 DEF Crash, disk, Files, Switching
<1>4. CASE ListStep(p)
  <2>1. CASE ListRestore(p)
    BY <2>1 DEF ListRestore, Files, Switching, NoFile
  <2>2. CASE ~ListRestore(p)
    <3>1. UNCHANGED disk /\ pc[p] \in Steps
      BY <1>4, <2>2 DEF ListStep, ListExists, ListBackup, ListAgain, ListRead, Sound
    <3>2. pc'[p] \in {"again", "backup", "read", "idle", "check"} \/ (pc'[p] = "restore" /\ backup.here)
      <4>1. \/ \E step \in {"again", "backup", "read"} : To(p, step)
            \/ Return(p)
            \/ \E content : Listed(p, content)
            \/ To(p, "restore") /\ backup.here
        BY <1>4, <2>2 DEF ListStep, ListExists, ListBackup, ListAgain, ListRead
      <4> QED BY <4>1, Mover DEF To, Return, Listed
    <3> QED BY <3>1, <3>2 DEF disk, Files, Switching, NoFile
  <2> QED BY <2>1, <2>2
<1>5. CASE Check(p) \/ Place(p) \/ Unplace(p) \/ Entomb(p) \/ Exhume(p)
  <2>1. UNCHANGED <<index, backup>>
    BY <1>5 DEF Check, Place, Unplace, Entomb, Exhume, Fails, Fault, disk
  <2>2. pc'[p] \notin Switching
    <3>1. \E step, j : Goto(p, step, j) /\ step \notin Switching
      BY <1>5 DEF Check, Place, Unplace, Entomb, Exhume, Fails, Fault, To, Return, Switching
    <3> QED BY <3>1, Mover
  <2> QED BY <2>1, <2>2 DEF Files
<1>6. CASE SaveStep(p)
  <2>1. SaveFailed(p) \notin Switching
    BY DEF SaveFailed, Switching
  <2>2. ASSUME ~windows, pc[p] \notin {"temp", "replace"} PROVE FALSE
    BY <1>6, <2>2 DEF SaveStep, SaveTemp, SaveReplace, SaveUnback, SaveRetire, SaveSwitch,
                      SaveUnretire, SaveDrop, Files, Switching
  <2>3. CASE ~windows
    <3>1. SaveTemp(p) \/ SaveReplace(p)
      BY <1>6, <2>2, <2>3 DEF SaveStep, SaveUnback, SaveRetire, SaveSwitch, SaveUnretire, SaveDrop
    <3>2. \E step, j : Goto(p, step, j) /\ step \notin Switching
      BY <2>1, <2>3, <3>1 DEF SaveTemp, SaveReplace, SaveOk, Fails, Fault, To, Return, Switching
    <3>3. pc'[p] \notin Switching
      BY <3>2, Mover
    <3>4. UNCHANGED backup /\ (index' = index \/ index' = Of(job[p].new))
      BY <3>1 DEF SaveTemp, SaveReplace, Fails, Fault, disk
    <3> QED BY <3>3, <3>4 DEF Files, Of
  <2>4. CASE windows
    <3>1. index' \in {index, backup, NoFile, Of(job[p].new)} /\ backup' \in {index, backup, NoFile}
      BY <1>6 DEF SaveStep, SaveTemp, SaveReplace, SaveUnback, SaveRetire,
                  SaveSwitch, SaveUnretire, SaveDrop, disk, Fails, Fault
    <3> QED BY <3>1, <2>4 DEF Files, Of, NoFile
  <2> QED BY <2>3, <2>4
<1> QED BY <1>2, <1>3, <1>4, <1>5, <1>6 DEF WriteStep

\* What list returns is in force when it returns.
LEMMA ListedInForce ==
    ASSUME Files, ~windows, NEW p \in Procs, ListStep(p)
    PROVE  /\ Recovered' = Recovered
           /\ \/ \E step \in ListSteps : To(p, step)
              \/ Return(p)
              \/ Listed(p, Recovered)
<1>1. ~ListRestore(p)
  BY DEF ListRestore, Files, Switching
<1>2. UNCHANGED disk
  BY <1>1 DEF ListStep, ListExists, ListBackup, ListAgain, ListRead
<1>3. Recovered' = Recovered
  BY <1>2 DEF disk, Recovered
<1>4. CASE ListAgain(p)
  BY <1>3, <1>4 DEF ListAgain, Recovered, Files, NoFile, ListSteps
<1>5. CASE ListRead(p)
  BY <1>3, <1>5 DEF ListRead, Recovered
<1>6. CASE ListExists(p) \/ ListBackup(p)
  BY <1>3, <1>6 DEF ListExists, ListBackup, ListSteps, Files, NoFile
<1> QED BY <1>1, <1>3, <1>4, <1>5, <1>6 DEF ListStep

\* A step of any process keeps Reading, if no reader runs on Windows.
LEMMA ReadingStep ==
    ASSUME Sound, Files, Reading, Next, Alone
    PROVE  Reading'
<1>1. UNCHANGED windows
  BY DEF Next
<1> SUFFICES ASSUME NEW r \in Readers
    PROVE /\ windows => pc'[r] = "idle" /\ job'[r].op # "listed"
          /\ pc'[r] # "idle" => Recovered' \in fresh'[r]
          /\ pc'[r] = "idle" /\ job'[r].op = "listed" => job'[r].got \in fresh'[r]
  BY <1>1 DEF Reading
<1>2. fresh'[r] = IF pc[r] = "idle" THEN IF pc'[r] = "idle" THEN fresh[r] ELSE {Recovered'}
                  ELSE fresh[r] \cup {Recovered'}
  BY DEF Next
<1>3. /\ windows => pc[r] = "idle" /\ job[r].op # "listed" /\ pc'[r] = "idle"
      /\ pc[r] # "idle" => Recovered \in fresh[r]
      /\ pc[r] = "idle" /\ job[r].op = "listed" => job[r].got \in fresh[r]
  BY DEF Reading, Alone
<1>4. r \in Procs /\ r \notin Writers
  BY StoreAssumption DEF Procs
<1>5. CASE pc'[r] = pc[r] /\ job'[r] = job[r]
  BY <1>2, <1>3, <1>5
<1>6. CASE ListCall(r)
  <2>1. pc'[r] = "exists"
    BY <1>4, <1>6, Mover DEF ListCall, Begin
  <2>2. pc[r] = "idle"
    BY <1>6 DEF ListCall, Begin
  <2> QED BY <2>1, <2>2, <1>2, <1>3
<1>7. CASE ListStep(r)
  <2>1. pc[r] # "idle"
    BY <1>7 DEF ListStep, ListExists, ListBackup, ListRestore, ListAgain, ListRead
  <2>2. ~windows /\ fresh'[r] = fresh[r] \cup {Recovered'} /\ Recovered' \in fresh'[r]
    BY <2>1, <1>2, <1>3
  <2>3. ASSUME pc'[r] = "idle", job'[r].op = "listed" PROVE job'[r].got \in fresh'[r]
    <3>1. CASE \E step \in ListSteps : To(r, step)
      <4>1. PICK step \in ListSteps : To(r, step)
        BY <3>1
      <4>2. pc'[r] = step
        BY <4>1, <1>4, Mover DEF To
      <4> QED BY <4>1, <4>2, <2>3 DEF ListSteps
    <3>2. CASE Return(r)
      <4>1. job'[r] = NoJob
        BY <3>2, <1>4, Mover DEF Return
      <4> QED BY <4>1, <2>3 DEF NoJob
    <3>3. CASE Listed(r, Recovered)
      <4>1. job'[r] = [NoJob EXCEPT !.op = "listed", !.got = Recovered]
        BY <3>3, <1>4, Mover DEF Listed
      <4>2. job'[r].got = Recovered
        BY <4>1 DEF NoJob
      <4> QED BY <4>2, <2>1, <2>2, <1>3
    <3> QED BY <3>1, <3>2, <3>3, <2>2, <1>4, <1>7, ListedInForce
  <2> QED BY <2>2, <2>3
<1>8. CASE \E p \in Procs : p # r /\ \/ install(p) \/ set_enabled(p) \/ uninstall(p) \/ ListCall(p)
                                     \/ Crash(p) \/ WriteStep(p) \/ ListStep(p)
  BY <1>4, <1>5, <1>8, OthersStay
<1> QED BY <1>4, <1>6, <1>7, <1>8 DEF Next, Step, Procs

\* What any number of readers and writers keep.
LEMMA SharedInvariant == AloneSpec => [](Sound /\ Files /\ Reading)
<1>1. Init => Files /\ Reading
  <2> SUFFICES ASSUME Init PROVE Files /\ Reading
    OBVIOUS
  <2>1. \A p \in Procs : pc[p] = "idle" /\ job[p] = NoJob
    BY DEF Init
  <2>2. \A r \in Readers : pc[r] = "idle" /\ job[r].op = "none"
    BY <2>1 DEF Procs, NoJob
  <2> QED BY <2>1, <2>2 DEF Init, Files, Reading, NoFile, Switching
<1>2. Sound /\ Files /\ Reading /\ [Next /\ Alone]_vars => Files' /\ Reading'
  <2> SUFFICES ASSUME Sound, Files, Reading, [Next /\ Alone]_vars PROVE Files' /\ Reading'
    OBVIOUS
  <2>1. CASE UNCHANGED vars
    BY <2>1 DEF vars, disk, Files, Reading, Recovered
  <2>2. CASE Next /\ Alone
    <3>1. UNCHANGED windows
      BY <2>2 DEF Next
    <3>2. \E p \in Procs : \/ install(p) \/ set_enabled(p) \/ uninstall(p) \/ ListCall(p)
                           \/ Crash(p) \/ WriteStep(p) \/ ListStep(p)
      BY <2>2 DEF Next, Step, Procs
    <3> QED BY <3>1, <3>2, <2>2, FilesStep, ReadingStep
  <2> QED BY <2>1, <2>2
<1>3. [Next /\ Alone]_vars => [Next]_vars
  OBVIOUS
<1> QED BY <1>1, <1>2, <1>3, StoreSound, PTL DEF Spec, AloneSpec

\* Whatever writers do in between and wherever they stop, list returns a content
\* that was in force at some moment of the call.
THEOREM StoreReadsCommitted == AloneSpec => []ReadsCommitted
<1>1. Reading => ReadsCommitted
  BY DEF Reading, ReadsCommitted
<1> QED BY <1>1, SharedInvariant, PTL

-----------------------------------------------------------------------------
(* A single writer.                                                         *)

\* The steps at which a change is planned and not yet in force.
Committing == {"place", "entomb", "temp", "replace", "unback", "retire", "switch"}

\* The job plans to replace a content by the result of its operation on it.
Plans(j, content) ==
    \/ /\ j.op = "install" /\ MayInstall(j.pkg, content)
       /\ j.new = Installed(j.pkg, content)
    \/ /\ j.op \in {"enable", "disable"} /\ MayEnable(j.id, j.op = "enable", content)
       /\ j.new = Switched(j.id, j.op = "enable", content)
    \/ /\ j.op = "uninstall" /\ MayUninstall(j.id, content)
       /\ j.new = Removed(j.id, content)

\* Which files are there at the writer's step.
Where(w) ==
    /\ pc[w] = "backup" => ~index.here
    /\ pc[w] = "restore" => ~index.here /\ backup.here
    /\ pc[w] = "again" => index.here \/ ~backup.here
    /\ pc[w] \in {"read", "unback", "retire", "drop"} => index.here
    /\ pc[w] = "retire" => ~backup.here
    /\ pc[w] \in {"switch", "unretire"} => ~index.here /\ backup.here
    /\ pc[w] = "replace" => ~windows \/ ~index.here

\* What is in force is acknowledged, but between the switch and the end of save.
InForce(w) ==
    /\ Recovered = IF pc[w] = "drop" THEN job[w].new ELSE acked
    /\ pc[w] = "check" => job[w].got = Recovered
    /\ pc[w] \in Committing => Plans(job[w], Recovered)

\* A step that only moves the writer.
LEMMA Moves ==
    ASSUME Sound, NEW w \in Procs, Where(w), InForce(w), Recovered' = Recovered,
           NEW step, NEW j, Goto(w, step, j), acked' = acked, pc[w] # "drop", step # "drop",
           step \notin Committing \cup {"check"}
           \/ (pc[w] \in Committing /\ step # "check" /\ j.op = job[w].op /\ j.id = job[w].id /\ j.pkg = job[w].pkg
                  /\ j.new = job[w].new)
    PROVE  InForce(w)'
<1>1. pc'[w] = step /\ job'[w] = j
  BY Mover
<1>2. CASE step \notin Committing \cup {"check"}
  BY <1>1, <1>2 DEF InForce
<1>3. CASE pc[w] \in Committing /\ step # "check" /\ j.op = job[w].op /\ j.id = job[w].id
           /\ j.pkg = job[w].pkg /\ j.new = job[w].new
  <2>1. Plans(job'[w], Recovered')
    BY <1>1, <1>3 DEF InForce, Plans
  <2> QED BY <2>1, <1>1, <1>3 DEF InForce
<1> QED BY <1>2, <1>3

\* list by the writer, which nobody disturbs: it returns what is in force.
LEMMA OwnList ==
    ASSUME Sound, Files, NEW w \in Procs, w \notin Readers, Where(w), InForce(w),
           ListStep(w), UNCHANGED windows
    PROVE  Where(w)' /\ InForce(w)' /\ Recovered' = Recovered
<1>1. acked' = acked /\ pc[w] \in ListSteps
  BY DEF ListStep, ListExists, ListBackup, ListRestore, ListAgain, ListRead, ListSteps
<1>2. CASE ListExists(w)
  <2>1. UNCHANGED disk /\ pc'[w] = IF index.here THEN "again" ELSE "backup"
    BY <1>2, Mover DEF ListExists, To
  <2>2. Recovered' = Recovered
    BY <2>1 DEF disk, Recovered
  <2>3. InForce(w)'
    BY <1>1, <1>2, <2>2, Moves DEF ListExists, To, Committing
  <2> QED BY <2>1, <2>2, <2>3 DEF Where, disk
<1>3. CASE ListBackup(w)
  <2>1. UNCHANGED disk /\ pc'[w] = IF backup.here THEN "restore" ELSE "again"
    BY <1>3, Mover DEF ListBackup, To
  <2>2. Recovered' = Recovered
    BY <2>1 DEF disk, Recovered
  <2>3. InForce(w)'
    BY <1>1, <1>3, <2>2, Moves DEF ListBackup, To, Committing
  <2> QED BY <1>3, <2>1, <2>2, <2>3 DEF Where, disk, ListBackup
<1>4. CASE ListRestore(w)
  <2>1. index' = backup /\ backup' = NoFile /\ ~index.here /\ backup.here
    BY <1>4 DEF ListRestore, CanRenameTo, Where
  <2>2. pc'[w] = "again"
    BY <1>4, <2>1, Mover DEF ListRestore, To, CanRenameTo
  <2>3. Recovered' = Recovered
    BY <2>1 DEF Recovered
  <2>4. InForce(w)'
    BY <1>1, <1>4, <2>1, <2>3, Moves DEF ListRestore, To, Committing, CanRenameTo
  <2> QED BY <2>1, <2>2, <2>3, <2>4 DEF Where, NoFile
<1>5. ASSUME Listed(w, Recovered), UNCHANGED disk
      PROVE  Where(w)' /\ InForce(w)' /\ Recovered' = Recovered
  <2>1. pc'[w] = "check" /\ job'[w] = [job[w] EXCEPT !.got = Recovered]
    BY <1>5, Mover DEF Listed
  <2>2. job'[w].got = Recovered
    BY <2>1 DEF Sound, Job
  <2>3. Recovered' = Recovered
    BY <1>5 DEF disk, Recovered
  <2> QED BY <1>1, <2>1, <2>2, <2>3 DEF Where, InForce, Committing, ListSteps
<1>6. CASE ListAgain(w)
  <2>1. UNCHANGED disk
    BY <1>6 DEF ListAgain
  <2>2. Recovered' = Recovered
    BY <2>1 DEF disk, Recovered
  <2>3. CASE index.here
    <3>1. pc'[w] = "read"
      BY <1>6, <2>3, Mover DEF ListAgain, To
    <3>2. InForce(w)'
      BY <1>1, <1>6, <2>2, <2>3, Moves DEF ListAgain, To, Committing
    <3> QED BY <2>1, <2>2, <2>3, <3>1, <3>2 DEF Where, disk
  <2>4. CASE ~index.here
    <3>1. Recovered = Empty
      BY <1>6, <2>4 DEF Where, ListAgain, Recovered
    <3> QED BY <1>5, <1>6, <2>1, <2>4, <3>1 DEF ListAgain
  <2> QED BY <2>3, <2>4
<1>7. CASE ListRead(w)
  <2>1. index.here /\ pc[w] = "read"
    BY <1>7 DEF Where, ListRead
  <2> QED BY <1>5, <1>7, <2>1 DEF ListRead, Recovered
<1> QED BY <1>2, <1>3, <1>4, <1>6, <1>7 DEF ListStep

\* The checks plan a change of what is in force.
LEMMA OwnCheck ==
    ASSUME Sound, NEW w \in Procs, Where(w), InForce(w), Check(w), UNCHANGED windows
    PROVE  Where(w)' /\ InForce(w)' /\ Recovered' = Recovered
<1> DEFINE k == job[w]
<1>1. pc[w] = "check" /\ UNCHANGED <<disk, acked>> /\ k.got = Recovered /\ Recovered = acked
  BY DEF Check, InForce
<1>2. Recovered' = Recovered
  BY <1>1 DEF disk, Recovered
<1>3. CASE Allowed(k)
  <2> DEFINE j == [k EXCEPT !.got = Empty, !.new = Planned(k)]
  <2>1. \E step \in {"place", "entomb", "temp"} : Goto(w, step, j)
    BY <1>3 DEF Check
  <2>2. pc'[w] \in {"place", "entomb", "temp"} /\ job'[w] = j
    BY <2>1, Mover
  <2>3. j.new = Planned(k) /\ j.op = k.op /\ j.id = k.id /\ j.pkg = k.pkg
    BY DEF Sound, Job
  <2> HIDE DEF j
  <2>4. Plans(j, Recovered)
    <3>1. CASE k.op = "install"
      BY <3>1, <2>3, <1>1, <1>3 DEF Plans, Planned, Allowed
    <3>2. CASE k.op = "uninstall"
      BY <3>2, <2>3, <1>1, <1>3 DEF Plans, Planned, Allowed
    <3>3. CASE k.op = "enable"
      BY <3>3, <2>3, <1>1, <1>3 DEF Plans, Planned, Allowed
    <3>4. CASE k.op = "disable"
      BY <3>4, <2>3, <1>1, <1>3 DEF Plans, Planned, Allowed
    <3> QED BY <3>1, <3>2, <3>3, <3>4, <1>3 DEF Allowed
  <2> QED BY <2>2, <2>4, <1>1, <1>2 DEF Where, InForce, disk
<1>4. CASE ~Allowed(k)
  <2>1. pc'[w] = "idle"
    BY <1>4, Mover DEF Check, Return
  <2> QED BY <2>1, <1>1, <1>2 DEF Where, InForce, disk, Committing
<1> QED BY <1>3, <1>4

\* The steps on directories change nothing that is in force.
LEMMA OwnDirectory ==
    ASSUME Sound, NEW w \in Procs, Where(w), InForce(w), UNCHANGED windows,
           Place(w) \/ Unplace(w) \/ Entomb(w) \/ Exhume(w)
    PROVE  Where(w)' /\ InForce(w)' /\ Recovered' = Recovered
<1>1. /\ UNCHANGED <<index, backup, acked>>
      /\ pc[w] \in {"place", "unplace", "entomb", "exhume"}
      /\ pc[w] \in {"unplace", "exhume"} \/ pc[w] \in Committing
  BY DEF Place, Unplace, Entomb, Exhume, Fails, Fault, disk, Committing
<1>2. Recovered' = Recovered
  BY <1>1 DEF Recovered
<1>3. PICK step, j : /\ Goto(w, step, j)
                     /\ \/ step = "idle"
                        \/ /\ step = "temp" /\ pc[w] \in Committing
                           /\ j = job[w] \/ \E grave : j = [job[w] EXCEPT !.grave = grave]
  BY <1>1 DEF Place, Unplace, Entomb, Exhume, Fails, Fault, To, Return
<1>4. step \in {"idle", "temp"} /\ pc'[w] = step
  BY <1>3, Mover
<1>5. step = "idle" \/ (/\ pc[w] \in Committing /\ j.op = job[w].op /\ j.id = job[w].id
                        /\ j.pkg = job[w].pkg /\ j.new = job[w].new)
  BY <1>3 DEF Sound, Job
<1>6. InForce(w)'
  BY <1>1, <1>2, <1>3, <1>4, <1>5, Moves DEF Committing
<1> QED BY <1>1, <1>2, <1>4, <1>6 DEF Where

\* save puts the planned content in force at one of two steps, and no other
\* step of it shows.
LEMMA OwnSave ==
    ASSUME Sound, Files, NEW w \in Procs, Where(w), InForce(w), SaveStep(w), UNCHANGED windows
    PROVE  /\ Where(w)' /\ InForce(w)'
           /\ \/ Recovered' = Recovered
              \/ pc[w] \in {"replace", "switch"} /\ Recovered' = job[w].new
<1>0. /\ SaveFailed(w) \in {"unplace", "exhume", "idle"}
      /\ pc[w] \in {"temp", "replace", "unback", "retire", "switch", "unretire", "drop"}
  BY DEF SaveFailed, SaveStep, SaveTemp, SaveReplace, SaveUnback, SaveRetire, SaveSwitch,
         SaveUnretire, SaveDrop
<1>1. ASSUME NEW step \in {"unplace", "exhume", "idle"}, NEW j, Goto(w, step, j), pc[w] # "drop",
             UNCHANGED <<disk, acked>>
      PROVE  Where(w)' /\ InForce(w)' /\ Recovered' = Recovered
  <2>1. Recovered' = Recovered /\ pc'[w] = step
    BY <1>1, Mover DEF disk, Recovered
  <2> QED BY <1>1, <2>1, Moves DEF Where, Committing, disk
<1>2. ASSUME Fails(w, SaveFailed(w)), pc[w] # "drop"
      PROVE  Where(w)' /\ InForce(w)' /\ Recovered' = Recovered
  <2>1. \E step \in {"unplace", "exhume", "idle"} : \E j : Goto(w, step, j)
    BY <1>0, <1>2 DEF Fails, Fault, Return
  <2> QED BY <1>1, <1>2, <2>1 DEF Fails, Fault
<1>3. ASSUME NEW step \in Committing \ {"place", "entomb"}, To(w, step), pc[w] \in Committing,
             Recovered' = Recovered, acked' = acked
      PROVE  InForce(w)' /\ pc'[w] = step
  BY <1>3, Mover, Moves DEF To, Committing
<1>4. CASE SaveTemp(w)
  <2>1. CASE Fails(w, SaveFailed(w))
    BY <1>2, <1>4, <2>1 DEF SaveTemp
  <2>2. CASE To(w, IF windows /\ index.here THEN "unback" ELSE "replace") /\ UNCHANGED <<disk, acked>>
    <3>1. Recovered' = Recovered /\ pc[w] = "temp"
      BY <1>4, <2>2 DEF disk, Recovered, SaveTemp
    <3>2. InForce(w)' /\ pc'[w] = IF windows /\ index.here THEN "unback" ELSE "replace"
      BY <1>3, <2>2, <3>1 DEF Committing
    <3> QED BY <2>2, <3>1, <3>2 DEF Where, disk
  <2> QED BY <1>4, <2>1, <2>2 DEF SaveTemp
<1>5. CASE SaveReplace(w)
  <2>1. pc[w] = "replace" /\ CanRenameTo(index)
    BY <1>5 DEF SaveReplace, Where, CanRenameTo
  <2>2. CASE Fails(w, SaveFailed(w))
    BY <1>2, <2>1, <2>2
  <2>3. CASE index' = Of(job[w].new) /\ SaveOk(w) /\ UNCHANGED <<backup, dirs, homes>>
    <3>1. Recovered' = job[w].new /\ acked' = job[w].new
      BY <2>3 DEF Of, Recovered, SaveOk
    <3>2. pc'[w] = "idle"
      BY <2>3, Mover DEF SaveOk, Return
    <3> QED BY <2>1, <3>1, <3>2 DEF Where, InForce, Committing
  <2> QED BY <1>5, <2>1, <2>2, <2>3 DEF SaveReplace
<1>6. CASE SaveUnback(w)
  <2>1. CASE Fails(w, SaveFailed(w))
    BY <1>2, <1>6, <2>1 DEF SaveUnback
  <2>2. CASE backup' = NoFile /\ To(w, "retire") /\ UNCHANGED <<index, dirs, homes, acked>>
    <3>1. pc[w] = "unback" /\ index.here
      BY <1>6 DEF Where, SaveUnback
    <3>2. Recovered' = Recovered
      BY <2>2, <3>1 DEF Recovered
    <3>3. InForce(w)' /\ pc'[w] = "retire"
      BY <1>3, <2>2, <3>1, <3>2 DEF Committing
    <3> QED BY <2>2, <3>1, <3>2, <3>3 DEF Where, NoFile
  <2> QED BY <1>6, <2>1, <2>2 DEF SaveUnback
<1>7. CASE SaveRetire(w)
  <2>1. pc[w] = "retire" /\ index.here /\ CanRenameTo(backup)
    BY <1>7 DEF SaveRetire, Where, CanRenameTo
  <2>2. CASE Fails(w, SaveFailed(w))
    BY <1>2, <2>1, <2>2
  <2>3. CASE backup' = index /\ index' = NoFile /\ To(w, "switch") /\ UNCHANGED <<dirs, homes, acked>>
    <3>1. Recovered' = Recovered
      BY <2>1, <2>3 DEF Recovered, NoFile
    <3>2. InForce(w)' /\ pc'[w] = "switch"
      BY <1>3, <2>1, <2>3, <3>1 DEF Committing
    <3> QED BY <2>1, <2>3, <3>1, <3>2 DEF Where, NoFile
  <2> QED BY <1>7, <2>1, <2>2, <2>3 DEF SaveRetire
<1>8. CASE SaveSwitch(w)
  <2>1. pc[w] = "switch" /\ ~index.here /\ CanRenameTo(index) /\ backup.here
    BY <1>8 DEF SaveSwitch, Where, CanRenameTo
  <2>2. CASE Fails(w, "unretire")
    <3>1. UNCHANGED <<disk, acked>> /\ \E j : Goto(w, "unretire", j)
      BY <2>2 DEF Fails, Fault
    <3>2. Recovered' = Recovered /\ pc'[w] = "unretire"
      BY <3>1, Mover DEF disk, Recovered
    <3>3. InForce(w)'
      BY <2>1, <3>1, <3>2, Moves DEF Committing
    <3> QED BY <2>1, <3>1, <3>2, <3>3 DEF Where, disk
  <2>3. CASE index' = Of(job[w].new) /\ To(w, "drop") /\ UNCHANGED <<backup, dirs, homes, acked>>
    <3>1. Recovered' = job[w].new /\ index'.here
      BY <2>3 DEF Of, Recovered
    <3>2. pc'[w] = "drop" /\ job'[w] = job[w]
      BY <2>3, Mover DEF To
    <3> QED BY <2>1, <3>1, <3>2 DEF Where, InForce, Committing
  <2> QED BY <1>8, <2>1, <2>2, <2>3 DEF SaveSwitch
<1>9. CASE SaveUnretire(w)
  <2>1. pc[w] = "unretire" /\ ~index.here /\ CanRenameTo(index) /\ backup.here
    BY <1>9 DEF SaveUnretire, Where, CanRenameTo
  <2>2. CASE Fails(w, SaveFailed(w))
    BY <1>2, <2>1, <2>2
  <2>3. CASE To(w, SaveFailed(w)) /\ index' = backup /\ backup' = NoFile /\ UNCHANGED <<dirs, homes, acked>>
    <3>1. Recovered' = Recovered
      BY <2>1, <2>3 DEF Recovered
    <3>2. pc'[w] \in {"unplace", "exhume", "idle"}
      BY <1>0, <2>3, Mover DEF To
    <3>3. InForce(w)'
      BY <1>0, <2>1, <2>3, <3>1, Moves DEF To, Committing
    <3> QED BY <3>1, <3>2, <3>3 DEF Where
  <2> QED BY <1>9, <2>1, <2>2, <2>3 DEF SaveUnretire
<1>10. CASE SaveDrop(w)
  <2>1. pc[w] = "drop" /\ index.here /\ index' = index /\ acked' = job[w].new
    BY <1>10 DEF SaveDrop, Where, SaveOk
  <2>2. Recovered' = Recovered /\ Recovered = job[w].new
    BY <2>1 DEF Recovered, InForce
  <2>3. pc'[w] = "idle"
    BY <1>10, Mover DEF SaveDrop, SaveOk, Return
  <2> QED BY <2>1, <2>2, <2>3 DEF Where, InForce, Committing
<1> QED BY <1>4, <1>5, <1>6, <1>7, <1>8, <1>9, <1>10 DEF SaveStep

\* Nobody else touches the files.
LEMMA ReaderStep ==
    ASSUME Sound, Files, Reading, Alone, NEW r \in Readers, ListCall(r) \/ ListStep(r),
           UNCHANGED windows, NEW w \in Procs, w \notin Readers
    PROVE  UNCHANGED <<disk, acked, crashes>> /\ pc'[w] = pc[w] /\ job'[w] = job[w]
<1>1. r \in Procs /\ r # w
  BY DEF Procs
<1>2. pc'[w] = pc[w] /\ job'[w] = job[w]
  BY <1>1, OthersStay
<1>3. CASE ListCall(r)
  BY <1>2, <1>3 DEF ListCall, Begin
<1>4. CASE ListStep(r)
  <2>1. pc[r] # "idle"
    BY <1>4 DEF ListStep, ListExists, ListBackup, ListRestore, ListAgain, ListRead
  <2>2. ~windows
    BY <2>1 DEF Reading
  <2>3. ~ListRestore(r)
    BY <2>2, <1>1 DEF ListRestore, Files, Switching
  <2> QED BY <1>2, <1>4, <2>3 DEF ListStep, ListExists, ListBackup, ListAgain, ListRead
<1> QED BY <1>3, <1>4

\* The writer begins an operation, or its process ends.
LEMMA OwnEnds ==
    ASSUME Sound, NEW w \in Procs, Where(w), InForce(w), UNCHANGED windows,
           install(w) \/ set_enabled(w) \/ uninstall(w) \/ Crash(w)
    PROVE  Where(w)' /\ InForce(w)' /\ Recovered' = Recovered
<1>1. UNCHANGED disk /\ Recovered' = Recovered
  BY DEF install, set_enabled, uninstall, Crash, Begin, disk, Recovered
<1>2. CASE Crash(w)
  <2>1. pc'[w] = "idle"
    BY <1>2, Mover DEF Crash, Return
  <2>2. acked' = Recovered
    BY <1>2 DEF Crash, InForce
  <2> QED BY <1>1, <2>1, <2>2 DEF Where, InForce, Committing
<1>3. CASE install(w) \/ set_enabled(w) \/ uninstall(w)
  <2>1. pc[w] = "idle" /\ acked' = acked /\ \E j : Goto(w, "exists", j)
    BY <1>3 DEF install, set_enabled, uninstall, Begin
  <2>2. pc'[w] = "exists"
    BY <2>1, Mover
  <2>3. InForce(w)'
    BY <1>1, <2>1, Moves DEF Committing
  <2> QED BY <1>1, <2>2, <2>3 DEF Where
<1> QED BY <1>2, <1>3

\* The steps of a writer.
OwnStep(w) ==
    \/ install(w) \/ set_enabled(w) \/ uninstall(w) \/ Crash(w)
    \/ WriteStep(w) \/ ListStep(w)

\* Every step keeps what is in force or puts the planned content in its place.
LEMMA OwnStepInForce ==
    ASSUME Sound, Files, NEW w \in Procs, w \notin Readers, Where(w), InForce(w), OwnStep(w),
           UNCHANGED windows
    PROVE  /\ Where(w)' /\ InForce(w)'
           /\ \/ Recovered' = Recovered
              \/ pc[w] \in Committing /\ Recovered' = job[w].new
BY OwnEnds, OwnList, OwnCheck, OwnDirectory, OwnSave DEF OwnStep, WriteStep, Committing

\* One writer, any number of readers.
LEMMA NextInForce ==
    ASSUME NEW w, Writers = {w}, Sound, Files, Reading, Where(w), InForce(w), [Next /\ Alone]_vars
    PROVE  /\ Where(w)' /\ InForce(w)'
           /\ \/ Recovered' = Recovered
              \/ pc[w] \in Committing /\ Recovered' = job[w].new
<1>1. w \in Procs /\ w \notin Readers
  BY StoreAssumption DEF Procs
<1>2. ASSUME UNCHANGED <<windows, disk, acked>>, pc'[w] = pc[w], job'[w] = job[w]
      PROVE  Where(w)' /\ InForce(w)' /\ Recovered' = Recovered
  BY <1>2 DEF Where, InForce, Recovered, disk
<1>3. CASE UNCHANGED vars
  BY <1>2, <1>3 DEF vars
<1>4. CASE Next /\ Alone
  <2>1. UNCHANGED windows
    BY <1>4 DEF Next
  <2>2. CASE OwnStep(w)
    BY <1>1, <2>1, <2>2, OwnStepInForce
  <2>3. CASE \E r \in Readers : ListCall(r) \/ ListStep(r)
    BY <1>1, <1>2, <1>4, <2>1, <2>3, ReaderStep
  <2> QED BY <1>4, <2>2, <2>3 DEF Next, Step, OwnStep, Procs
<1> QED BY <1>3, <1>4

\* At first the store is empty.
LEMMA InitInForce ==
    ASSUME NEW w, Writers = {w}, Init
    PROVE  Where(w) /\ InForce(w) /\ Recovered = Empty
<1>1. pc[w] = "idle"
  BY DEF Init, Procs
<1> QED BY <1>1 DEF Init, Where, InForce, Recovered, NoFile, Committing

\* The registry's rules are those of the store.
LEMMA SameRules ==
    /\ Registry!Empty = Empty
    /\ \A p, c : /\ Registry!MayInstall(p, c) <=> MayInstall(p, c)
                 /\ Registry!Installed(p, c) = Installed(p, c)
    /\ \A i, e, c : /\ Registry!MayEnable(i, e, c) <=> MayEnable(i, e, c)
                    /\ Registry!Switched(i, e, c) = Switched(i, e, c)
    /\ \A i, c : /\ Registry!MayUninstall(i, c) <=> MayUninstall(i, c)
                 /\ Registry!Removed(i, c) = Removed(i, c)
<1>1. \A p, c : Registry!check_dependencies(p, c) <=> check_dependencies(p, c)
  BY DEF Registry!check_dependencies, check_dependencies
<1>2. \A p, c : Registry!check_upgrade(p, c) <=> check_upgrade(p, c)
  BY DEF Registry!check_upgrade, check_upgrade, Registry!check_dependents, check_dependents
<1>3. \A p, c : Registry!check_cycles(p, c) <=> check_cycles(p, c)
  BY DEF Registry!check_cycles, check_cycles, Registry!Circular, Circular
<1>4. \A p, c : Registry!MayInstall(p, c) <=> MayInstall(p, c)
  BY <1>1, <1>2, <1>3 DEF Registry!MayInstall, MayInstall
<1>5. \A i, e, c : Registry!MayEnable(i, e, c) <=> MayEnable(i, e, c)
  BY <1>1 DEF Registry!MayEnable, MayEnable
<1>6. \A i, c : Registry!MayUninstall(i, c) <=> MayUninstall(i, c)
  BY DEF Registry!MayUninstall, MayUninstall
<1>7. /\ \A p, c : Registry!Installed(p, c) = Installed(p, c)
      /\ \A i, e, c : Registry!Switched(i, e, c) = Switched(i, e, c)
      /\ \A i, c : Registry!Removed(i, c) = Removed(i, c)
      /\ Registry!Empty = Empty
  BY DEF Registry!Installed, Installed, Registry!Switched, Switched, Registry!Removed, Removed,
         Registry!Empty, Empty
<1> QED BY <1>4, <1>5, <1>6, <1>7

\* The result of an operation is a step of the registry.
LEMMA RegistryStep ==
    ASSUME Sound, NEW w \in Procs, Plans(job[w], Recovered), Recovered' = job[w].new
    PROVE  Registry!Next
<1> DEFINE j == job[w]
<1>1. GoodJob(j)
  BY DEF Sound
<1>2. Good(Recovered)
  BY EmptyGood DEF Sound, GoodFile, Recovered
<1>3. CASE j.op = "install" /\ MayInstall(j.pkg, Recovered) /\ j.new = Installed(j.pkg, Recovered)
  <2>1. j.pkg \in Packages
    BY <1>1, <1>3 DEF GoodJob
  <2> QED BY <1>3, <2>1, SameRules DEF Registry!Next, Registry!Install
<1>4. CASE /\ j.op \in {"enable", "disable"} /\ MayEnable(j.id, j.op = "enable", Recovered)
           /\ j.new = Switched(j.id, j.op = "enable", Recovered)
  <2>1. j.id \in Ids
    BY <1>2, <1>4, ContentShape DEF MayEnable, Good
  <2>2. \/ MayEnable(j.id, TRUE, Recovered) /\ j.new = Switched(j.id, TRUE, Recovered)
        \/ MayEnable(j.id, FALSE, Recovered) /\ j.new = Switched(j.id, FALSE, Recovered)
    <3>1. CASE j.op = "enable"
      BY <1>4, <3>1
    <3>2. CASE j.op = "disable"
      BY <1>4, <3>2
    <3> QED BY <1>4, <3>1, <3>2
  <2>3. \E enabled \in BOOLEAN : MayEnable(j.id, enabled, Recovered) /\ j.new = Switched(j.id, enabled, Recovered)
    BY <2>2
  <2> QED BY <2>1, <2>3, SameRules DEF Registry!Next, Registry!SetEnabled
<1>5. CASE j.op = "uninstall" /\ MayUninstall(j.id, Recovered) /\ j.new = Removed(j.id, Recovered)
  <2>1. j.id \in Ids
    BY <1>2, <1>5, ContentShape DEF MayUninstall, Good
  <2> QED BY <1>5, <2>1, SameRules DEF Registry!Next, Registry!Uninstall
<1> QED BY <1>3, <1>4, <1>5 DEF Plans

\* One desktop process, with any number of readers elsewhere than on Windows,
\* any number of failing calls and crashes: what list returns changes only by
\* whole operations, each allowed for the content it replaces.
THEOREM StoreImplementsRegistry ==
    ASSUME NEW w, Writers = {w}
    PROVE  AloneSpec => ImplementsRegistry
<1>1. Init => Where(w) /\ InForce(w) /\ Registry!Init
  BY InitInForce, SameRules DEF Registry!Init
<1>2. Sound /\ Files /\ Reading /\ Where(w) /\ InForce(w) /\ [Next /\ Alone]_vars
          => Where(w)' /\ InForce(w)'
  BY NextInForce
<1>3. Sound /\ Files /\ Reading /\ Where(w) /\ InForce(w) /\ [Next /\ Alone]_vars
          => [Registry!Next]_Recovered
  <2> SUFFICES ASSUME Sound, Files, Reading, Where(w), InForce(w), [Next /\ Alone]_vars,
                      Recovered' # Recovered
               PROVE  Registry!Next
    OBVIOUS
  <2>1. pc[w] \in Committing /\ Recovered' = job[w].new
    BY NextInForce
  <2>2. Plans(job[w], Recovered) /\ w \in Procs
    BY <2>1 DEF InForce, Procs
  <2> QED BY <2>1, <2>2, RegistryStep
<1> QED BY <1>1, <1>2, <1>3, SharedInvariant, PTL DEF AloneSpec, ImplementsRegistry, Registry!Spec

-----------------------------------------------------------------------------
(* The version directories.                                                 *)

\* Every plugin of a content has its directory in D, and D holds no others
\* than older versions of those.
Match(content, D) ==
    /\ \A i \in DOMAIN content : <<i, content[i].pkg.version>> \in D
    /\ \A d \in D : d[1] \in DOMAIN content /\ d[2] <= content[d[1]].pkg.version

\* The directories as they are if the operation is undone.
Undone(j) == CASE j.op = "install"   -> dirs \ {<<j.id, j.pkg.version>>}
               [] j.op = "uninstall" -> dirs \cup j.grave
               [] OTHER              -> dirs

\* save, until the planned content is in force; and what follows its failure.
Saving == {"temp", "replace", "unback", "retire", "switch"}
Undoing == {"unretire", "unplace", "exhume"}

\* If there was no crash, the directories match what is in force, or what is
\* planned and, undone, what is in force.
Directories(w) ==
    /\ crashes \in Nat
    /\ pc[w] = "entomb" => job[w].op = "uninstall"
    /\ pc[w] = "unplace" => job[w].op = "install"
    /\ pc[w] = "exhume" => job[w].op = "uninstall"
    /\ pc[w] \in Undoing => job[w].faults > 0
    /\ pc[w] \in Saving \cup Undoing /\ job[w].op = "uninstall" => job[w].id \notin homes
    /\ crashes = 0 =>
         IF pc[w] \in Saving \cup Undoing
         THEN /\ Match(Recovered, Undone(job[w]))
              /\ pc[w] \in Saving => Match(job[w].new, dirs)
         ELSE Match(Recovered, dirs)

\* An upgrade adds the directory of a newer version, ...
LEMMA InstallMatches ==
    ASSUME NEW c \in Content, NEW D, D \subseteq Ids \X Nat, Match(c, D),
           NEW p \in Packages, MayInstall(p, c)
    PROVE  Match(Installed(p, c), D \cup {<<p.id, p.version>>})
<1> DEFINE new == Installed(p, c)
           v == <<p.id, p.version>>
<1>1. /\ DOMAIN new = DOMAIN c \cup {p.id} /\ new[p.id].pkg = p
      /\ \A i \in DOMAIN c : i # p.id => new[i] = c[i]
  BY DEF Installed
<1>2. p.version \in Nat /\ \A i \in DOMAIN c : c[i].pkg.version \in Nat
  BY RulesAssumption, ContentShape DEF Entry, Package
<1>3. p.id \in DOMAIN c => p.version > c[p.id].pkg.version
  BY DEF MayInstall, check_upgrade
<1> HIDE DEF new
<1>4. \A i \in DOMAIN new : <<i, new[i].pkg.version>> \in D \cup {v}
  <2> SUFFICES ASSUME NEW i \in DOMAIN new PROVE <<i, new[i].pkg.version>> \in D \cup {v}
    OBVIOUS
  <2>1. CASE i = p.id
    BY <2>1, <1>1
  <2>2. CASE i # p.id
    BY <2>2, <1>1 DEF Match
  <2> QED BY <2>1, <2>2
<1>5. ASSUME NEW d \in D \cup {v} PROVE d[1] \in DOMAIN new /\ d[2] <= new[d[1]].pkg.version
  <2>1. CASE d = v
    BY <2>1, <1>1, <1>2
  <2>2. CASE d \in D
    <3>1. d[1] \in DOMAIN c /\ d[2] <= c[d[1]].pkg.version /\ d[2] \in Nat
      BY <2>2 DEF Match
    <3>2. CASE d[1] = p.id
      BY <3>1, <3>2, <1>1, <1>2, <1>3
    <3>3. CASE d[1] # p.id
      BY <3>1, <3>3, <1>1
    <3> QED BY <3>2, <3>3
  <2> QED BY <2>1, <2>2
<1> QED BY <1>4, <1>5 DEF Match, new

\* ... switching changes no version, ...
LEMMA SwitchMatches ==
    ASSUME NEW c, NEW D, Match(c, D), NEW i, NEW e
    PROVE  Match(Switched(i, e, c), D)
<1>1. /\ DOMAIN Switched(i, e, c) = DOMAIN c
      /\ \A j \in DOMAIN c : Switched(i, e, c)[j].pkg = c[j].pkg
  BY DEF Switched
<1> QED BY <1>1 DEF Match

\* ... and removing takes all versions away.
LEMMA RemoveMatches ==
    ASSUME NEW c, NEW D, Match(c, D), NEW i
    PROVE  Match(Removed(i, c), D \ {d \in D : d[1] = i})
<1>1. /\ DOMAIN Removed(i, c) = DOMAIN c \ {i}
      /\ \A j \in DOMAIN c \ {i} : Removed(i, c)[j] = c[j]
  BY DEF Removed
<1>2. \A j \in DOMAIN c \ {i} : <<j, c[j].pkg.version>>[1] # i
  OBVIOUS
<1> QED BY <1>1, <1>2 DEF Match

\* A step that touches no directory and nothing in force.
LEMMA DirectoriesStay ==
    ASSUME Sound, NEW w \in Procs, Directories(w), UNCHANGED <<dirs, crashes>>,
           Recovered' = Recovered, pc[w] \notin Saving \cup Undoing,
           pc'[w] \notin Saving \cup Undoing \cup {"entomb"}
    PROVE  Directories(w)'
<1>1. Directories(w)' <=>
        /\ crashes' \in Nat
        /\ pc'[w] = "entomb" => job'[w].op = "uninstall"
        /\ pc'[w] = "unplace" => job'[w].op = "install"
        /\ pc'[w] = "exhume" => job'[w].op = "uninstall"
        /\ pc'[w] \in Undoing => job'[w].faults > 0
        /\ pc'[w] \in Saving \cup Undoing /\ job'[w].op = "uninstall" => job'[w].id \notin homes'
        /\ crashes' = 0 =>
             IF pc'[w] \in Saving \cup Undoing
             THEN /\ Match(Recovered', Undone(job[w])')
                  /\ pc'[w] \in Saving => Match(job'[w].new, dirs')
             ELSE Match(Recovered', dirs')
  BY DEF Directories, Match
<1> QED BY <1>1 DEF Directories, Undoing

\* The writer begins an operation, or its process ends.
LEMMA DirectoriesEnds ==
    ASSUME Sound, NEW w \in Procs, Directories(w), Recovered' = Recovered,
           install(w) \/ set_enabled(w) \/ uninstall(w) \/ Crash(w)
    PROVE  Directories(w)'
<1>1. CASE install(w) \/ set_enabled(w) \/ uninstall(w)
  <2>1. pc[w] = "idle" /\ UNCHANGED <<dirs, crashes>> /\ \E j : Goto(w, "exists", j)
    BY <1>1 DEF install, set_enabled, uninstall, Begin, disk
  <2>2. pc'[w] = "exists"
    BY <2>1, Mover
  <2> QED BY <2>1, <2>2, DirectoriesStay DEF Saving, Undoing
<1>2. CASE Crash(w)
  <2>1. pc'[w] = "idle" /\ crashes' = crashes + 1
    BY <1>2, Mover DEF Crash, Return
  <2>2. crashes' \in Nat /\ crashes' # 0
    BY <2>1 DEF Directories
  <2> QED BY <2>1, <2>2 DEF Directories, Saving, Undoing
<1> QED BY <1>1, <1>2

\* A list of its own touches no directory.
LEMMA DirectoriesList ==
    ASSUME Sound, NEW w \in Procs, w \notin Readers, Directories(w), Recovered' = Recovered, ListStep(w)
    PROVE  Directories(w)'
<1>1. pc[w] \in ListSteps /\ UNCHANGED <<dirs, crashes>>
  BY DEF ListStep, ListExists, ListBackup, ListRestore, ListAgain, ListRead, ListSteps, disk
<1>2. \E step, j : Goto(w, step, j) /\ step \in ListSteps \cup {"idle", "check"}
  BY DEF ListStep, ListExists, ListBackup, ListRestore, ListAgain, ListRead, ListSteps, Listed, To, Return
<1>3. pc'[w] \in ListSteps \cup {"idle", "check"}
  BY <1>2, Mover
<1> QED BY <1>1, <1>3, DirectoriesStay DEF Saving, Undoing, ListSteps

\* The checks touch none either; what switching plans matches them as they are.
LEMMA DirectoriesCheck ==
    ASSUME Sound, NEW w \in Procs, InForce(w), Directories(w), Recovered' = Recovered, Check(w),
           UNCHANGED crashes
    PROVE  Directories(w)'
<1> DEFINE k == job[w]
<1>1. pc[w] = "check" /\ UNCHANGED disk /\ k.got = Recovered
  BY DEF Check, InForce
<1>2. CASE ~Allowed(k)
  <2>1. pc'[w] = "idle"
    BY <1>2, Mover DEF Check, Return
  <2> QED BY <1>1, <2>1, DirectoriesStay DEF Saving, Undoing, disk
<1>3. CASE Allowed(k)
  <2> DEFINE j == [k EXCEPT !.got = Empty, !.new = Planned(k)]
             step == CASE k.op = "install" -> "place" [] k.op = "uninstall" -> "entomb" [] OTHER -> "temp"
  <2>1. Goto(w, step, j)
    BY <1>3 DEF Check
  <2>2. pc'[w] = step /\ job'[w] = j
    BY <2>1, Mover
  <2>3. j.new = Planned(k) /\ j.op = k.op /\ j.id = k.id
    BY DEF Sound, Job
  <2> HIDE DEF j
  <2>4. CASE k.op \in {"install", "uninstall"}
    <3>1. pc'[w] = IF k.op = "install" THEN "place" ELSE "entomb"
      BY <2>2, <2>4
    <3> QED BY <1>1, <2>2, <2>3, <2>4, <3>1 DEF Directories, Match, Saving, Undoing, disk
  <2>5. CASE k.op \notin {"install", "uninstall"}
    <3>1. pc'[w] = "temp" /\ j.op \notin {"install", "uninstall"}
      BY <2>2, <2>3, <2>5
    <3>2. crashes = 0 => Match(Recovered, dirs)
      BY <1>1 DEF Directories, Saving, Undoing
    <3>3. crashes = 0 => Match(j.new, dirs)
      BY <3>2, <2>3, <2>5, <1>1, SwitchMatches DEF Planned
    <3>4. Undone(job[w])' = dirs
      BY <1>1, <2>2, <3>1 DEF Undone, disk
    <3> QED BY <1>1, <2>2, <3>1, <3>2, <3>3, <3>4 DEF Directories, Match, Saving, Undoing, disk
  <2> QED BY <2>4, <2>5
<1> QED BY <1>2, <1>3

\* A failing call of an undoing is the second one of the operation.
LEMMA OneFault ==
    ASSUME Sound, MaxFaults <= 1, NEW w \in Procs, NEW step, Directories(w), pc[w] \in Undoing
    PROVE  ~Fails(w, step)
<1>1. job[w].faults \in Nat /\ job[w].faults > 0
  BY DEF Sound, Job, Directories
<1>2. MaxFaults \in Nat
  BY StoreAssumption
<1> QED BY <1>1, <1>2 DEF Fails, Fault

\* Placing a version or burying a plugin makes the directories match the plan.
LEMMA DirectoriesMade ==
    ASSUME Sound, NEW w \in Procs, InForce(w), Directories(w), Recovered' = Recovered,
           Place(w) \/ Entomb(w), UNCHANGED crashes
    PROVE  Directories(w)'
<1> DEFINE k == job[w]
<1>0. /\ k \in Job /\ GoodJob(k) /\ crashes \in Nat /\ Plans(k, Recovered)
      /\ crashes = 0 => Match(Recovered, dirs)
      /\ dirs \subseteq Ids \X Nat /\ Good(Recovered)
  <2>1. pc[w] \in {"place", "entomb"}
    BY DEF Place, Entomb
  <2>2. Good(Recovered)
    BY EmptyGood DEF Sound, GoodFile, Recovered
  <2> QED BY <2>1, <2>2 DEF Sound, Directories, InForce, Committing, Saving, Undoing
<1>1. ASSUME Return(w), UNCHANGED dirs PROVE Directories(w)'
  <2>1. pc'[w] = "idle"
    BY <1>1, Mover DEF Return
  <2> QED BY <1>0, <1>1, <2>1 DEF Directories, Saving, Undoing
<1>2. CASE Place(w)
  <2> DEFINE v == <<k.id, k.pkg.version>>
  <2>1. pc[w] = "place" /\ k.op = "install" /\ k.pkg \in Packages /\ k.id = k.pkg.id
    BY <1>0, <1>2 DEF Place, Sound, GoodJob
  <2>2. CASE Fails(w, "idle")
    BY <1>1, <2>2 DEF Fails, Fault, disk
  <2>3. CASE UNCHANGED dirs /\ Return(w)
    BY <1>1, <2>3
  <2>4. CASE v \notin dirs /\ dirs' = dirs \cup {v} /\ To(w, "temp")
    <3>1. pc'[w] = "temp" /\ job'[w] = k
      BY <2>4, Mover DEF To
    <3>2. Undone(job[w])' = dirs
      BY <2>1, <2>4, <3>1 DEF Undone
    <3>3. MayInstall(k.pkg, Recovered) /\ k.new = Installed(k.pkg, Recovered)
      BY <1>0, <2>1 DEF Plans
    <3>4. crashes = 0 => Match(k.new, dirs')
      BY <1>0, <2>1, <2>4, <3>3, InstallMatches DEF Good
    <3> QED BY <1>0, <2>1, <3>1, <3>2, <3>4 DEF Directories, Match, Saving, Undoing
  <2> QED BY <1>2, <2>2, <2>3, <2>4 DEF Place, disk
<1>3. CASE Entomb(w)
  <2> DEFINE grave == {d \in dirs : d[1] = k.id}
             j == [k EXCEPT !.grave = grave]
  <2>1. pc[w] = "entomb" /\ k.op = "uninstall"
    BY <1>3 DEF Entomb, Directories
  <2>2. CASE Fails(w, "idle")
    BY <1>1, <2>2 DEF Fails, Fault, disk
  <2>3. CASE Return(w) /\ UNCHANGED <<disk, acked>>
    BY <1>1, <2>3 DEF disk
  <2>4. CASE homes' = homes \ {k.id} /\ dirs' = dirs \ grave /\ Goto(w, "temp", j)
    <3>1. pc'[w] = "temp" /\ job'[w] = j
      BY <2>4, Mover
    <3>2. j.op = "uninstall" /\ j.id = k.id /\ j.new = k.new /\ j.grave = grave
      BY <1>0, <2>1 DEF Job
    <3> HIDE DEF j
    <3>3. Undone(job[w])' = dirs
      BY <2>4, <3>1, <3>2 DEF Undone
    <3>4. crashes = 0 => Match(k.new, dirs')
      BY <1>0, <2>1, <2>4, RemoveMatches DEF Plans
    <3> QED BY <1>0, <2>4, <3>1, <3>2, <3>3, <3>4 DEF Directories, Match, Saving, Undoing
  <2> QED BY <1>3, <2>2, <2>3, <2>4 DEF Entomb
<1> QED BY <1>2, <1>3

\* Taking it back makes them match what is in force again.
LEMMA DirectoriesUndone ==
    ASSUME Sound, MaxFaults <= 1, NEW w \in Procs, Directories(w), Recovered' = Recovered,
           Unplace(w) \/ Exhume(w), UNCHANGED crashes
    PROVE  Directories(w)'
<1>1. Return(w) /\ pc'[w] = "idle"
  <2>1. pc[w] \in Undoing
    BY DEF Unplace, Exhume, Undoing
  <2>2. Return(w)
    BY <2>1, OneFault DEF Unplace, Exhume
  <2> QED BY <2>2, Mover DEF Return
<1>2. dirs' = Undone(job[w])
  <2>1. CASE Unplace(w)
    <3>1. pc[w] = "unplace" /\ job[w].op = "install"
      BY <2>1 DEF Unplace, Directories
    <3> QED BY <2>1, <3>1, OneFault DEF Unplace, Undone, Undoing
  <2>2. CASE Exhume(w)
    <3>1. pc[w] = "exhume" /\ job[w].op = "uninstall" /\ job[w].id \notin homes
      BY <2>2 DEF Exhume, Directories, Undoing
    <3> QED BY <2>2, <3>1, OneFault DEF Exhume, Undone, Undoing
  <2> QED BY <2>1, <2>2
<1>3. crashes = 0 => Match(Recovered, Undone(job[w]))
  BY DEF Directories, Unplace, Exhume, Undoing
<1> QED BY <1>1, <1>2, <1>3 DEF Directories, Saving, Undoing

\* save touches none, so they match from the moment the plan is in force.
LEMMA DirectoriesSaved ==
    ASSUME Sound, Files, MaxFaults <= 1, NEW w \in Procs, Where(w), InForce(w), Directories(w),
           SaveStep(w), UNCHANGED <<windows, crashes>>
    PROVE  Directories(w)'
<1> DEFINE k == job[w]
<1>0. /\ k \in Job /\ crashes \in Nat /\ k.faults \in Nat
      /\ UNCHANGED <<dirs, homes>>
      /\ pc[w] \in {"temp", "replace", "unback", "retire", "switch", "unretire", "drop"}
      /\ Recovered' = Recovered \/ (pc[w] \in {"replace", "switch"} /\ Recovered' = k.new)
  <2>1. k \in Job /\ k.faults \in Nat
    BY DEF Sound, Job
  <2>2. UNCHANGED <<dirs, homes>>
    BY DEF SaveStep, SaveTemp, SaveReplace, SaveUnback, SaveRetire, SaveSwitch, SaveUnretire, SaveDrop,
           Fails, Fault, disk
  <2> QED BY <2>1, <2>2, OwnSave DEF Directories, SaveStep, SaveTemp, SaveReplace, SaveUnback, SaveRetire,
          SaveSwitch, SaveUnretire, SaveDrop
<1>1. \* What a save that goes on, fails or is undone needs.
      ASSUME NEW step, NEW j, Goto(w, step, j), Recovered' = Recovered,
             j.op = k.op, j.id = k.id, j.pkg = k.pkg, j.grave = k.grave, j.new = k.new,
             pc[w] # "drop",
             \/ step \in Saving /\ pc[w] \in Saving
             \/ step = "unretire" /\ j.faults > 0
             \/ step = SaveFailed(w) /\ step # "idle" /\ j.faults > 0
      PROVE  Directories(w)'
  <2>1. pc'[w] = step /\ job'[w] = j
    BY <1>1, Mover
  <2>2. Undone(job[w])' = Undone(k)
    BY <1>0, <1>1, <2>1 DEF Undone
  <2>3. crashes = 0 => Match(Recovered, Undone(k)) /\ (pc[w] \in Saving => Match(k.new, dirs))
    BY <1>0, <1>1 DEF Directories, Saving, Undoing
  <2>4. k.op = "uninstall" => k.id \notin homes
    BY <1>0, <1>1 DEF Directories, Saving, Undoing
  <2>5. /\ step \in Saving \cup Undoing /\ step # "entomb"
        /\ step = "unplace" => k.op = "install"
        /\ step = "exhume" => k.op = "uninstall"
        /\ step \in Undoing => j.faults > 0
    BY <1>1 DEF SaveFailed, Saving, Undoing
  <2>6. step \in Saving => pc[w] \in Saving
    BY <1>1 DEF SaveFailed, Saving
  <2> QED BY <1>0, <1>1, <2>1, <2>2, <2>3, <2>4, <2>5, <2>6 DEF Directories, Match
<1>2. \* The end of an operation that has touched no directory.
      ASSUME SaveFailed(w) = "idle", pc'[w] = "idle", Recovered' = Recovered, pc[w] # "drop"
      PROVE  Directories(w)'
  <2>1. k.op \notin {"install", "uninstall"}
    BY <1>2 DEF SaveFailed
  <2>2. crashes = 0 => Match(Recovered, dirs)
    BY <1>0, <1>2, <2>1 DEF Directories, Undone, Saving, Undoing
  <2> QED BY <1>0, <1>2, <2>2 DEF Directories, Saving, Undoing
<1>3. ASSUME NEW step, Fails(w, step), step \in {"unretire", SaveFailed(w)}, pc[w] # "drop",
             Recovered' = Recovered
      PROVE  Directories(w)'
  <2>1. CASE step = "idle"
    <3>1. pc'[w] = "idle"
      BY <1>3, <2>1, Mover DEF Fails, Fault, Return
    <3> QED BY <1>2, <1>3, <2>1, <3>1
  <2>2. CASE step # "idle"
    <3> DEFINE j == [k EXCEPT !.faults = @ + 1]
    <3>1. Goto(w, step, j)
      BY <1>3, <2>2 DEF Fails, Fault
    <3>2. /\ j.op = k.op /\ j.id = k.id /\ j.pkg = k.pkg /\ j.grave = k.grave /\ j.new = k.new
          /\ j.faults = k.faults + 1
      BY <1>0 DEF Job
    <3>3. j.faults > 0
      BY <1>0, <3>2
    <3> HIDE DEF j
    <3> QED BY <1>1, <1>3, <2>2, <3>1, <3>2, <3>3
  <2> QED BY <2>1, <2>2
<1>4. \* The planned content gets in force.
      ASSUME Recovered' = k.new, pc[w] \in {"replace", "switch"}, pc'[w] \in {"idle", "drop"}
      PROVE  Directories(w)'
  BY <1>0, <1>4 DEF Directories, Match, Saving, Undoing
<1>5. ASSUME NEW step, To(w, step), step \in Saving, pc[w] \in Saving, Recovered' = Recovered
      PROVE  Directories(w)'
  BY <1>1, <1>5 DEF To, Saving
<1>6. CASE SaveTemp(w)
  <2>1. pc[w] = "temp" /\ Recovered' = Recovered
    BY <1>0, <1>6 DEF SaveTemp
  <2> QED BY <1>3, <1>5, <1>6, <2>1 DEF SaveTemp, Saving
<1>7. CASE SaveReplace(w)
  <2>1. pc[w] = "replace" /\ CanRenameTo(index)
    BY <1>7 DEF SaveReplace, Where, CanRenameTo
  <2>2. CASE Fails(w, SaveFailed(w))
    <3>1. Recovered' = Recovered
      BY <2>2 DEF Fails, Fault, disk, Recovered
    <3> QED BY <1>3, <2>1, <2>2, <3>1
  <2>3. CASE index' = Of(k.new) /\ SaveOk(w)
    <3>1. Recovered' = k.new /\ pc'[w] = "idle"
      BY <2>3, Mover DEF Of, Recovered, SaveOk, Return
    <3> QED BY <1>4, <2>1, <3>1
  <2> QED BY <1>7, <2>1, <2>2, <2>3 DEF SaveReplace
<1>8. CASE SaveUnback(w)
  <2>1. pc[w] = "unback" /\ Recovered' = Recovered
    BY <1>0, <1>8 DEF SaveUnback
  <2> QED BY <1>3, <1>5, <1>8, <2>1 DEF SaveUnback, Saving
<1>9. CASE SaveRetire(w)
  <2>1. pc[w] = "retire" /\ index.here /\ CanRenameTo(backup)
    BY <1>9 DEF SaveRetire, Where, CanRenameTo
  <2>2. Recovered' = Recovered
    BY <1>0, <2>1
  <2> QED BY <1>3, <1>5, <1>9, <2>1, <2>2 DEF SaveRetire, Saving
<1>10. CASE SaveSwitch(w)
  <2>1. pc[w] = "switch" /\ CanRenameTo(index)
    BY <1>10 DEF SaveSwitch, Where, CanRenameTo
  <2>2. CASE Fails(w, "unretire")
    <3>1. Recovered' = Recovered
      BY <2>2 DEF Fails, Fault, disk, Recovered
    <3> QED BY <1>3, <2>1, <2>2, <3>1
  <2>3. CASE index' = Of(k.new) /\ To(w, "drop")
    <3>1. Recovered' = k.new /\ pc'[w] = "drop"
      BY <2>3, Mover DEF Of, Recovered, To
    <3> QED BY <1>4, <2>1, <3>1
  <2> QED BY <1>10, <2>1, <2>2, <2>3 DEF SaveSwitch
<1>11. CASE SaveUnretire(w)
  <2>1. pc[w] = "unretire" /\ Recovered' = Recovered
    BY <1>0, <1>11 DEF SaveUnretire
  <2>2. k.faults > 0
    BY <2>1 DEF Directories, Undoing
  <2>3. To(w, SaveFailed(w))
    BY <1>11, <2>1, OneFault DEF SaveUnretire, Undoing
  <2>4. CASE SaveFailed(w) = "idle"
    <3>1. pc'[w] = "idle"
      BY <2>3, <2>4, Mover DEF To
    <3> QED BY <1>2, <2>1, <2>4, <3>1
  <2>5. CASE SaveFailed(w) # "idle"
    BY <1>1, <2>1, <2>2, <2>3, <2>5 DEF To
  <2> QED BY <2>4, <2>5
<1>12. CASE SaveDrop(w)
  <2>1. pc[w] = "drop" /\ Recovered' = Recovered
    BY <1>0, <1>12 DEF SaveDrop
  <2>2. pc'[w] = "idle"
    BY <1>12, Mover DEF SaveDrop, SaveOk, Return
  <2> QED BY <1>0, <2>1, <2>2 DEF Directories, Saving, Undoing
<1> QED BY <1>6, <1>7, <1>8, <1>9, <1>10, <1>11, <1>12 DEF SaveStep

\* Every step keeps the directories in line, if at most one system call of an
\* operation fails.
LEMMA NextDirectories ==
    ASSUME MaxFaults <= 1, NEW w, Writers = {w}, Sound, Files, Reading, Where(w), InForce(w),
           Directories(w), [Next /\ Alone]_vars
    PROVE  Directories(w)'
<1>1. w \in Procs /\ w \notin Readers
  BY StoreAssumption DEF Procs
<1>2. ASSUME UNCHANGED <<disk, crashes>>, pc'[w] = pc[w], job'[w] = job[w]
      PROVE  Directories(w)'
  <2>1. UNCHANGED <<dirs, homes, crashes>> /\ Recovered' = Recovered
    BY <1>2 DEF disk, Recovered
  <2>2. Undone(job[w])' = Undone(job[w])
    BY <1>2, <2>1 DEF Undone
  <2> QED BY <1>2, <2>1, <2>2 DEF Directories, Match
<1>3. CASE UNCHANGED vars
  BY <1>2, <1>3 DEF vars
<1>4. CASE Next /\ Alone
  <2>1. UNCHANGED windows
    BY <1>4 DEF Next
  <2>2. CASE install(w) \/ set_enabled(w) \/ uninstall(w) \/ Crash(w)
    BY <1>1, <2>1, <2>2, OwnEnds, DirectoriesEnds
  <2>3. CASE ListStep(w)
    BY <1>1, <2>1, <2>3, OwnList, DirectoriesList
  <2>4. CASE WriteStep(w)
    <3>1. UNCHANGED crashes
      BY <2>4 DEF WriteStep
    <3>2. CASE Check(w)
      BY <1>1, <2>1, <3>1, <3>2, OwnCheck, DirectoriesCheck
    <3>3. CASE Place(w) \/ Entomb(w)
      BY <1>1, <2>1, <3>1, <3>3, OwnDirectory, DirectoriesMade
    <3>4. CASE Unplace(w) \/ Exhume(w)
      BY <1>1, <2>1, <3>1, <3>4, OwnDirectory, DirectoriesUndone
    <3>5. CASE SaveStep(w)
      BY <1>1, <2>1, <3>1, <3>5, DirectoriesSaved
    <3> QED BY <2>4, <3>2, <3>3, <3>4, <3>5 DEF WriteStep
  <2>5. CASE \E r \in Readers : ListCall(r) \/ ListStep(r)
    BY <1>1, <1>2, <1>4, <2>1, <2>5, ReaderStep
  <2> QED BY <1>4, <2>2, <2>3, <2>4, <2>5 DEF Next, Step, Procs
<1> QED BY <1>3, <1>4

\* One desktop process, at most one failing system call in an operation and any
\* number of crashes: what is in force is what was acknowledged, and without a
\* crash the version directories are those of the index.
THEOREM StoreUpdateIsKept ==
    ASSUME NEW w, Writers = {w}, MaxFaults <= 1
    PROVE  AloneSpec => []UpdateIsKept
<1>1. Init => Where(w) /\ InForce(w) /\ Directories(w)
  <2> SUFFICES ASSUME Init PROVE Where(w) /\ InForce(w) /\ Directories(w)
    OBVIOUS
  <2>1. Where(w) /\ InForce(w) /\ Recovered = Empty
    BY InitInForce
  <2>2. pc[w] = "idle" /\ dirs = {} /\ crashes = 0 /\ DOMAIN Empty = {}
    BY DEF Init, Procs, Empty
  <2> QED BY <2>1, <2>2 DEF Directories, Match, Saving, Undoing
<1>2. Sound /\ Files /\ Reading /\ Where(w) /\ InForce(w) /\ Directories(w) /\ [Next /\ Alone]_vars
          => Where(w)' /\ InForce(w)' /\ Directories(w)'
  BY NextInForce, NextDirectories
<1>3. Where(w) /\ InForce(w) /\ Directories(w) => UpdateIsKept
  BY DEF InForce, Directories, UpdateIsKept, Match, Saving, Undoing
<1> QED BY <1>1, <1>2, <1>3, SharedInvariant, PTL DEF AloneSpec

-----------------------------------------------------------------------------
(***************************************************************************)
(* However many calls, cancellers and downloads there are, whatever the    *)
(* plugins do and in whatever order the threads run: a running plugin is   *)
(* not changed, no process, file or lock is left behind, and a cancel      *)
(* concerns the call it looked up.                                         *)
(*                                                                         *)
(* The table of tasks is the key: a registered call is found in it under   *)
(* its task, so the store, which is changed only when the table is empty,  *)
(* is not changed while it runs; and the call that holds the mutex is the  *)
(* only one that has read the store and is not registered yet.             *)
(***************************************************************************)

\* A registered call is in the table; one that is about to be has its place
\* kept free by the mutex.
CallsListed ==
    \A e \in Execs :
        /\ thread[e] # "new" => task[e] \in TaskIds
        /\ thread[e] \in Registered => active[task[e]] = e
        /\ thread[e] \in {"verified", "hello"} => active[task[e]] = None

\* What can be installed was offered, so it is no download any more.
Offered ==
    /\ \A k \in prepared : download[k] = "done"
    /\ changing \in Tokens => download[changing] = "done"

Downloads == DownloadsAreOwned /\ Offered

\* A call that was killed before its answer has none, and gets none.
Doomed ==
    \A e \in doomed :
        /\ e \in flagged /\ process[e] # "alive"
        /\ thread[e] \in {"staging", "request", "closing", "dropping", "done"}
        /\ thread[e] = "request" => pipe[e] = "asked"

Reported == \A e \in reports : thread[e] \in {"closing", "dropping", "done"}

Asked == \A e \in Execs : thread[e] = "request" => pipe[e] # None

Cancels ==
    /\ CancelIsPrecise /\ Doomed /\ Reported /\ Asked
    /\ \A c \in Cancellers : handle[c] # None => handle[c] \in looked

\* The inductive invariant.
HostSound ==
    /\ HostTypeOK /\ CallsListed /\ PluginIsStable /\ NoProcessLeft /\ Downloads /\ Cancels

-----------------------------------------------------------------------------
\* The types, and who holds the mutex.
LEMMA TypeKept ==
    ASSUME HostTypeOK, NextHost
    PROVE  HostTypeOK'
<1>1. ASSUME NEW e \in Execs, execute_plugin(e) PROVE HostTypeOK'
  BY <1>1, HostAssumption DEF HostTypeOK, Phases, Answers, None, execute_plugin, calls,
     chatter, cancels, store, loads
<1>2. ASSUME NEW e \in Execs, Enter(e) PROVE HostTypeOK'
  BY <1>2, HostAssumption DEF HostTypeOK, Phases, Answers, None, Enter, calls, chatter,
     cancels, store, loads
<1>3. ASSUME NEW e \in Execs, Spawn(e) PROVE HostTypeOK'
  BY <1>3, HostAssumption DEF HostTypeOK, Phases, Answers, None, Spawn, calls, chatter,
     cancels, store, loads
<1>4. ASSUME NEW e \in Execs, HelloDone(e) PROVE HostTypeOK'
  <2>1. active' \in [TaskIds -> Execs \cup {None}]
    BY <1>4 DEF HostTypeOK, HelloDone
  <2>2. /\ thread' \in [Execs -> Phases] /\ pipe' \in [Execs -> {None, "asked"} \cup Answers]
        /\ lock' = "free" /\ changing' = changing
    BY <1>4 DEF HostTypeOK, HelloDone, Phases, store
  <2>3. lock' \in Execs \cup {"free", "store"} /\ (lock' = "store" <=> changing' # None)
    BY <1>4, <2>2, HostAssumption DEF HostTypeOK, HelloDone, None
  <2>4. \A d \in Execs : lock' = d <=> thread'[d] \in {"verified", "hello"}
    BY <1>4, <2>2, HostAssumption DEF HostTypeOK, HelloDone
  <2>5. QED
    BY <1>4, <2>1, <2>2, <2>3, <2>4 DEF HostTypeOK, HelloDone, chatter, cancels, store, loads
<1>5. ASSUME NEW e \in Execs, HelloFailed(e) PROVE HostTypeOK'
  BY <1>5, HostAssumption DEF HostTypeOK, Phases, Answers, None, HelloFailed, Failed,
     calls, chatter, cancels, store, loads
<1>6. ASSUME NEW e \in Execs, HelloOverdue(e) PROVE HostTypeOK'
  BY <1>6, HostAssumption DEF HostTypeOK, Phases, Answers, None, HelloOverdue, Overdue,
     calls, chatter, cancels, store, loads
<1>7. ASSUME NEW e \in Execs, ReadProgress(e) PROVE HostTypeOK'
  BY <1>7, HostAssumption DEF HostTypeOK, Phases, Answers, None, ReadProgress, calls,
     chatter, cancels, store, loads
<1>8. ASSUME NEW e \in Execs, Stage(e) PROVE HostTypeOK'
  BY <1>8, HostAssumption DEF HostTypeOK, Phases, Answers, None, Stage, calls, chatter,
     cancels, store, loads
<1>9. ASSUME NEW e \in Execs, RequestDone(e) PROVE HostTypeOK'
  BY <1>9, HostAssumption DEF HostTypeOK, Phases, Answers, None, RequestDone, Succeeded,
     calls, chatter, cancels, store, loads
<1>10. ASSUME NEW e \in Execs, RequestFailed(e) PROVE HostTypeOK'
  BY <1>10, HostAssumption DEF HostTypeOK, Phases, Answers, None, RequestFailed, Failed,
     AfterFailure, calls, chatter, cancels, store, loads
<1>11. ASSUME NEW e \in Execs, RequestOverdue(e) PROVE HostTypeOK'
  BY <1>11, HostAssumption DEF HostTypeOK, Phases, Answers, None, RequestOverdue, Overdue,
     calls, chatter, cancels, store, loads
<1>12. ASSUME NEW e \in Execs, Save(e) PROVE HostTypeOK'
  BY <1>12, HostAssumption DEF HostTypeOK, Phases, Answers, None, Save, calls, chatter,
     cancels, store, loads
<1>13. ASSUME NEW e \in Execs, Close(e) PROVE HostTypeOK'
  <2>1. active' \in [TaskIds -> Execs \cup {None}]
    BY <1>13 DEF HostTypeOK, Close
  <2>2. thread' \in [Execs -> Phases]
    BY <1>13 DEF HostTypeOK, Close, Phases
  <2>3. \A d \in Execs : lock' = d <=> thread'[d] \in {"verified", "hello"}
    BY <1>13, HostAssumption DEF HostTypeOK, Close
  <2>4. QED
    BY <1>13, <2>1, <2>2, <2>3 DEF HostTypeOK, Close, chatter, cancels, store, loads
<1>14. ASSUME NEW e \in Execs, Drop(e) PROVE HostTypeOK'
  BY <1>14, HostAssumption DEF HostTypeOK, Phases, Answers, None, Drop, calls, chatter,
     cancels, store, loads
<1>15. ASSUME NEW e \in Execs, Answer(e) PROVE HostTypeOK'
  BY <1>15, HostAssumption DEF HostTypeOK, Phases, Answers, None, Answer, calls, chatter,
     cancels, store, loads
<1>16. ASSUME NEW e \in Execs, Exit(e) PROVE HostTypeOK'
  BY <1>16, HostAssumption DEF HostTypeOK, Phases, Answers, None, Exit, calls, chatter,
     cancels, store, loads
<1>17. ASSUME NEW e \in Execs, Progress(e) PROVE HostTypeOK'
  BY <1>17, HostAssumption DEF HostTypeOK, Phases, Answers, None, Progress, calls, chatter,
     cancels, store, loads
<1>18. ASSUME NEW c \in Cancellers, LookUp(c) PROVE HostTypeOK'
  BY <1>18, HostAssumption DEF HostTypeOK, Phases, Answers, None, LookUp, calls, chatter,
     cancels, store, loads
<1>19. ASSUME NEW c \in Cancellers, cancel_plugin(c) PROVE HostTypeOK'
  BY <1>19, HostAssumption DEF HostTypeOK, Phases, Answers, None, cancel_plugin, Target,
     Victim, calls, chatter, cancels, store, loads
<1>20. ASSUME NEW k \in Tokens \cup {"plain"}, Change(k) PROVE HostTypeOK'
  BY <1>20, HostAssumption DEF HostTypeOK, Phases, Answers, None, Change, Idle, calls,
     chatter, cancels, store, loads
<1>21. ASSUME Changed PROVE HostTypeOK'
  BY <1>21, HostAssumption DEF HostTypeOK, Phases, Answers, None, Changed, calls, chatter,
     cancels, store, loads
<1>22. ASSUME NEW k \in Tokens, Download(k) PROVE HostTypeOK'
  BY <1>22, HostAssumption DEF HostTypeOK, Phases, Answers, None, Download, calls, chatter,
     cancels, store, loads
<1>23. ASSUME NEW k \in Tokens, Offer(k) PROVE HostTypeOK'
  BY <1>23, HostAssumption DEF HostTypeOK, Phases, Answers, None, Offer, calls, chatter,
     cancels, store, loads
<1>24. ASSUME NEW k \in Tokens, discard_prepared_plugin(k) PROVE HostTypeOK'
  BY <1>24, HostAssumption DEF HostTypeOK, Phases, Answers, None, discard_prepared_plugin,
     calls, chatter, cancels, store, loads
<1>25. QED
  BY <1>1, <1>2, <1>3, <1>4, <1>5, <1>6, <1>7, <1>8, <1>9, <1>10, <1>11, <1>12, <1>13,
     <1>14, <1>15, <1>16, <1>17, <1>18, <1>19, <1>20, <1>21, <1>22, <1>23, <1>24
     DEF NextHost, Proceed

\* The table: a task is entered under the mutex and leaves with its call.
LEMMA ListedKept ==
    ASSUME HostTypeOK, CallsListed, NextHost
    PROVE  CallsListed'
<1>1. ASSUME NEW e \in Execs, execute_plugin(e) PROVE CallsListed'
  BY <1>1, HostAssumption DEF CallsListed, Registered, HostTypeOK, Phases, Answers, None,
     execute_plugin, calls, chatter, cancels, store, loads
<1>2. ASSUME NEW e \in Execs, Enter(e) PROVE CallsListed'
  BY <1>2, HostAssumption DEF CallsListed, Registered, HostTypeOK, Phases, Answers, None, Enter,
     calls, chatter, cancels, store, loads
<1>3. ASSUME NEW e \in Execs, Spawn(e) PROVE CallsListed'
  BY <1>3, HostAssumption DEF CallsListed, Registered, HostTypeOK, Phases, Answers, None, Spawn,
     calls, chatter, cancels, store, loads
<1>4. ASSUME NEW e \in Execs, HelloDone(e) PROVE CallsListed'
  BY <1>4, HostAssumption DEF CallsListed, Registered, HostTypeOK, Phases, Answers, None,
     HelloDone, Succeeded, calls, chatter, cancels, store, loads
<1>5. ASSUME NEW e \in Execs, HelloFailed(e) PROVE CallsListed'
  BY <1>5, HostAssumption DEF CallsListed, Registered, HostTypeOK, Phases, Answers, None,
     HelloFailed, Failed, calls, chatter, cancels, store, loads
<1>6. ASSUME NEW e \in Execs, HelloOverdue(e) PROVE CallsListed'
  BY <1>6, HostAssumption DEF CallsListed, Registered, HostTypeOK, Phases, Answers, None,
     HelloOverdue, Overdue, calls, chatter, cancels, store, loads
<1>7. ASSUME NEW e \in Execs, ReadProgress(e) PROVE CallsListed'
  BY <1>7, HostAssumption DEF CallsListed, Registered, HostTypeOK, Phases, Answers, None,
     ReadProgress, calls, chatter, cancels, store, loads
<1>8. ASSUME NEW e \in Execs, Stage(e) PROVE CallsListed'
  BY <1>8, HostAssumption DEF CallsListed, Registered, HostTypeOK, Phases, Answers, None, Stage,
     calls, chatter, cancels, store, loads
<1>9. ASSUME NEW e \in Execs, RequestDone(e) PROVE CallsListed'
  BY <1>9, HostAssumption DEF CallsListed, Registered, HostTypeOK, Phases, Answers, None,
     RequestDone, Succeeded, calls, chatter, cancels, store, loads
<1>10. ASSUME NEW e \in Execs, RequestFailed(e) PROVE CallsListed'
  BY <1>10, HostAssumption DEF CallsListed, Registered, HostTypeOK, Phases, Answers, None,
     RequestFailed, Failed, AfterFailure, calls, chatter, cancels, store, loads
<1>11. ASSUME NEW e \in Execs, RequestOverdue(e) PROVE CallsListed'
  BY <1>11, HostAssumption DEF CallsListed, Registered, HostTypeOK, Phases, Answers, None,
     RequestOverdue, Overdue, calls, chatter, cancels, store, loads
<1>12. ASSUME NEW e \in Execs, Save(e) PROVE CallsListed'
  BY <1>12, HostAssumption DEF CallsListed, Registered, HostTypeOK, Phases, Answers, None, Save,
     calls, chatter, cancels, store, loads
<1>13. ASSUME NEW e \in Execs, Close(e) PROVE CallsListed'
  BY <1>13, HostAssumption DEF CallsListed, Registered, HostTypeOK, Phases, Answers, None,
     Close, calls, chatter, cancels, store, loads
<1>14. ASSUME NEW e \in Execs, Drop(e) PROVE CallsListed'
  BY <1>14, HostAssumption DEF CallsListed, Registered, HostTypeOK, Phases, Answers, None, Drop,
     calls, chatter, cancels, store, loads
<1>15. ASSUME NEW e \in Execs, Answer(e) PROVE CallsListed'
  BY <1>15, HostAssumption DEF CallsListed, Registered, HostTypeOK, Phases, Answers, None,
     Answer, calls, chatter, cancels, store, loads
<1>16. ASSUME NEW e \in Execs, Exit(e) PROVE CallsListed'
  BY <1>16, HostAssumption DEF CallsListed, Registered, HostTypeOK, Phases, Answers, None, Exit,
     calls, chatter, cancels, store, loads
<1>17. ASSUME NEW e \in Execs, Progress(e) PROVE CallsListed'
  BY <1>17, HostAssumption DEF CallsListed, Registered, HostTypeOK, Phases, Answers, None,
     Progress, calls, chatter, cancels, store, loads
<1>18. ASSUME NEW c \in Cancellers, LookUp(c) PROVE CallsListed'
  BY <1>18, HostAssumption DEF CallsListed, Registered, HostTypeOK, Phases, Answers, None,
     LookUp, calls, chatter, cancels, store, loads
<1>19. ASSUME NEW c \in Cancellers, cancel_plugin(c) PROVE CallsListed'
  BY <1>19, HostAssumption DEF CallsListed, Registered, HostTypeOK, Phases, Answers, None,
     cancel_plugin, Target, Victim, calls, chatter, cancels, store, loads
<1>20. ASSUME NEW k \in Tokens \cup {"plain"}, Change(k) PROVE CallsListed'
  BY <1>20, HostAssumption DEF CallsListed, Registered, HostTypeOK, Phases, Answers, None,
     Change, Idle, calls, chatter, cancels, store, loads
<1>21. ASSUME Changed PROVE CallsListed'
  BY <1>21, HostAssumption DEF CallsListed, Registered, HostTypeOK, Phases, Answers, None,
     Changed, calls, chatter, cancels, store, loads
<1>22. ASSUME NEW k \in Tokens, Download(k) PROVE CallsListed'
  BY <1>22, HostAssumption DEF CallsListed, Registered, HostTypeOK, Phases, Answers, None,
     Download, calls, chatter, cancels, store, loads
<1>23. ASSUME NEW k \in Tokens, Offer(k) PROVE CallsListed'
  BY <1>23, HostAssumption DEF CallsListed, Registered, HostTypeOK, Phases, Answers, None,
     Offer, calls, chatter, cancels, store, loads
<1>24. ASSUME NEW k \in Tokens, discard_prepared_plugin(k) PROVE CallsListed'
  BY <1>24, HostAssumption DEF CallsListed, Registered, HostTypeOK, Phases, Answers, None,
     discard_prepared_plugin, calls, chatter, cancels, store, loads
<1>25. QED
  BY <1>1, <1>2, <1>3, <1>4, <1>5, <1>6, <1>7, <1>8, <1>9, <1>10, <1>11, <1>12, <1>13,
     <1>14, <1>15, <1>16, <1>17, <1>18, <1>19, <1>20, <1>21, <1>22, <1>23, <1>24
     DEF NextHost, Proceed

\* A change of the store waits for the mutex and for an empty table.
LEMMA StableKept ==
    ASSUME HostTypeOK, CallsListed, PluginIsStable, NextHost
    PROVE  PluginIsStable'
<1>1. ASSUME NEW e \in Execs, execute_plugin(e) PROVE PluginIsStable'
  BY <1>1, HostAssumption DEF PluginIsStable, CallsListed, Registered, HostTypeOK, Phases,
     Answers, None, execute_plugin, calls, chatter, cancels, store, loads
<1>2. ASSUME NEW e \in Execs, Enter(e) PROVE PluginIsStable'
  BY <1>2, HostAssumption DEF PluginIsStable, CallsListed, Registered, HostTypeOK, Phases,
     Answers, None, Enter, calls, chatter, cancels, store, loads
<1>3. ASSUME NEW e \in Execs, Spawn(e) PROVE PluginIsStable'
  BY <1>3, HostAssumption DEF PluginIsStable, CallsListed, Registered, HostTypeOK, Phases,
     Answers, None, Spawn, calls, chatter, cancels, store, loads
<1>4. ASSUME NEW e \in Execs, HelloDone(e) PROVE PluginIsStable'
  BY <1>4, HostAssumption DEF PluginIsStable, CallsListed, Registered, HostTypeOK, Phases,
     Answers, None, HelloDone, Succeeded, calls, chatter, cancels, store, loads
<1>5. ASSUME NEW e \in Execs, HelloFailed(e) PROVE PluginIsStable'
  BY <1>5, HostAssumption DEF PluginIsStable, CallsListed, Registered, HostTypeOK, Phases,
     Answers, None, HelloFailed, Failed, calls, chatter, cancels, store, loads
<1>6. ASSUME NEW e \in Execs, HelloOverdue(e) PROVE PluginIsStable'
  BY <1>6, HostAssumption DEF PluginIsStable, CallsListed, Registered, HostTypeOK, Phases,
     Answers, None, HelloOverdue, Overdue, calls, chatter, cancels, store, loads
<1>7. ASSUME NEW e \in Execs, ReadProgress(e) PROVE PluginIsStable'
  BY <1>7, HostAssumption DEF PluginIsStable, CallsListed, Registered, HostTypeOK, Phases,
     Answers, None, ReadProgress, calls, chatter, cancels, store, loads
<1>8. ASSUME NEW e \in Execs, Stage(e) PROVE PluginIsStable'
  BY <1>8, HostAssumption DEF PluginIsStable, CallsListed, Registered, HostTypeOK, Phases,
     Answers, None, Stage, calls, chatter, cancels, store, loads
<1>9. ASSUME NEW e \in Execs, RequestDone(e) PROVE PluginIsStable'
  BY <1>9, HostAssumption DEF PluginIsStable, CallsListed, Registered, HostTypeOK, Phases,
     Answers, None, RequestDone, Succeeded, calls, chatter, cancels, store, loads
<1>10. ASSUME NEW e \in Execs, RequestFailed(e) PROVE PluginIsStable'
  BY <1>10, HostAssumption DEF PluginIsStable, CallsListed, Registered, HostTypeOK, Phases,
     Answers, None, RequestFailed, Failed, AfterFailure, calls, chatter, cancels, store,
     loads
<1>11. ASSUME NEW e \in Execs, RequestOverdue(e) PROVE PluginIsStable'
  BY <1>11, HostAssumption DEF PluginIsStable, CallsListed, Registered, HostTypeOK, Phases,
     Answers, None, RequestOverdue, Overdue, calls, chatter, cancels, store, loads
<1>12. ASSUME NEW e \in Execs, Save(e) PROVE PluginIsStable'
  BY <1>12, HostAssumption DEF PluginIsStable, CallsListed, Registered, HostTypeOK, Phases,
     Answers, None, Save, calls, chatter, cancels, store, loads
<1>13. ASSUME NEW e \in Execs, Close(e) PROVE PluginIsStable'
  BY <1>13, HostAssumption DEF PluginIsStable, CallsListed, Registered, HostTypeOK, Phases,
     Answers, None, Close, calls, chatter, cancels, store, loads
<1>14. ASSUME NEW e \in Execs, Drop(e) PROVE PluginIsStable'
  BY <1>14, HostAssumption DEF PluginIsStable, CallsListed, Registered, HostTypeOK, Phases,
     Answers, None, Drop, calls, chatter, cancels, store, loads
<1>15. ASSUME NEW e \in Execs, Answer(e) PROVE PluginIsStable'
  BY <1>15, HostAssumption DEF PluginIsStable, CallsListed, Registered, HostTypeOK, Phases,
     Answers, None, Answer, calls, chatter, cancels, store, loads
<1>16. ASSUME NEW e \in Execs, Exit(e) PROVE PluginIsStable'
  BY <1>16, HostAssumption DEF PluginIsStable, CallsListed, Registered, HostTypeOK, Phases,
     Answers, None, Exit, calls, chatter, cancels, store, loads
<1>17. ASSUME NEW e \in Execs, Progress(e) PROVE PluginIsStable'
  BY <1>17, HostAssumption DEF PluginIsStable, CallsListed, Registered, HostTypeOK, Phases,
     Answers, None, Progress, calls, chatter, cancels, store, loads
<1>18. ASSUME NEW c \in Cancellers, LookUp(c) PROVE PluginIsStable'
  BY <1>18, HostAssumption DEF PluginIsStable, CallsListed, Registered, HostTypeOK, Phases,
     Answers, None, LookUp, calls, chatter, cancels, store, loads
<1>19. ASSUME NEW c \in Cancellers, cancel_plugin(c) PROVE PluginIsStable'
  BY <1>19, HostAssumption DEF PluginIsStable, CallsListed, Registered, HostTypeOK, Phases,
     Answers, None, cancel_plugin, Target, Victim, calls, chatter, cancels, store, loads
<1>20. ASSUME NEW k \in Tokens \cup {"plain"}, Change(k) PROVE PluginIsStable'
  BY <1>20, HostAssumption DEF PluginIsStable, CallsListed, Registered, HostTypeOK, Phases,
     Answers, None, Change, Idle, calls, chatter, cancels, store, loads
<1>21. ASSUME Changed PROVE PluginIsStable'
  BY <1>21, HostAssumption DEF PluginIsStable, CallsListed, Registered, HostTypeOK, Phases,
     Answers, None, Changed, calls, chatter, cancels, store, loads
<1>22. ASSUME NEW k \in Tokens, Download(k) PROVE PluginIsStable'
  BY <1>22, HostAssumption DEF PluginIsStable, CallsListed, Registered, HostTypeOK, Phases,
     Answers, None, Download, calls, chatter, cancels, store, loads
<1>23. ASSUME NEW k \in Tokens, Offer(k) PROVE PluginIsStable'
  BY <1>23, HostAssumption DEF PluginIsStable, CallsListed, Registered, HostTypeOK, Phases,
     Answers, None, Offer, calls, chatter, cancels, store, loads
<1>24. ASSUME NEW k \in Tokens, discard_prepared_plugin(k) PROVE PluginIsStable'
  BY <1>24, HostAssumption DEF PluginIsStable, CallsListed, Registered, HostTypeOK, Phases,
     Answers, None, discard_prepared_plugin, calls, chatter, cancels, store, loads
<1>25. QED
  BY <1>1, <1>2, <1>3, <1>4, <1>5, <1>6, <1>7, <1>8, <1>9, <1>10, <1>11, <1>12, <1>13,
     <1>14, <1>15, <1>16, <1>17, <1>18, <1>19, <1>20, <1>21, <1>22, <1>23, <1>24
     DEF NextHost, Proceed

\* A process is started by a call that goes on to end it.
LEMMA ProcessesKept ==
    ASSUME HostTypeOK, CallsListed, PluginIsStable, NoProcessLeft, NextHost
    PROVE  NoProcessLeft'
<1>1. ASSUME NEW e \in Execs, execute_plugin(e) PROVE NoProcessLeft'
  BY <1>1, HostAssumption DEF NoProcessLeft, PluginIsStable, Registered, HostTypeOK,
     Phases, Answers, None, execute_plugin, calls, chatter, cancels, store, loads
<1>2. ASSUME NEW e \in Execs, Enter(e) PROVE NoProcessLeft'
  BY <1>2, HostAssumption DEF NoProcessLeft, PluginIsStable, Registered, HostTypeOK,
     Phases, Answers, None, Enter, calls, chatter, cancels, store, loads
<1>3. ASSUME NEW e \in Execs, Spawn(e) PROVE NoProcessLeft'
  BY <1>3, HostAssumption DEF NoProcessLeft, PluginIsStable, Registered, HostTypeOK,
     Phases, Answers, None, Spawn, calls, chatter, cancels, store, loads
<1>4. ASSUME NEW e \in Execs, HelloDone(e) PROVE NoProcessLeft'
  BY <1>4, HostAssumption DEF NoProcessLeft, PluginIsStable, Registered, HostTypeOK,
     Phases, Answers, None, HelloDone, Succeeded, calls, chatter, cancels, store, loads
<1>5. ASSUME NEW e \in Execs, HelloFailed(e) PROVE NoProcessLeft'
  BY <1>5, HostAssumption DEF NoProcessLeft, PluginIsStable, Registered, HostTypeOK,
     Phases, Answers, None, HelloFailed, Failed, calls, chatter, cancels, store, loads
<1>6. ASSUME NEW e \in Execs, HelloOverdue(e) PROVE NoProcessLeft'
  BY <1>6, HostAssumption DEF NoProcessLeft, PluginIsStable, Registered, HostTypeOK,
     Phases, Answers, None, HelloOverdue, Overdue, calls, chatter, cancels, store, loads
<1>7. ASSUME NEW e \in Execs, ReadProgress(e) PROVE NoProcessLeft'
  BY <1>7, HostAssumption DEF NoProcessLeft, PluginIsStable, Registered, HostTypeOK,
     Phases, Answers, None, ReadProgress, calls, chatter, cancels, store, loads
<1>8. ASSUME NEW e \in Execs, Stage(e) PROVE NoProcessLeft'
  BY <1>8, HostAssumption DEF NoProcessLeft, PluginIsStable, Registered, HostTypeOK,
     Phases, Answers, None, Stage, calls, chatter, cancels, store, loads
<1>9. ASSUME NEW e \in Execs, RequestDone(e) PROVE NoProcessLeft'
  BY <1>9, HostAssumption DEF NoProcessLeft, PluginIsStable, Registered, HostTypeOK,
     Phases, Answers, None, RequestDone, Succeeded, calls, chatter, cancels, store,
     loads
<1>10. ASSUME NEW e \in Execs, RequestFailed(e) PROVE NoProcessLeft'
  BY <1>10, HostAssumption DEF NoProcessLeft, PluginIsStable, Registered, HostTypeOK,
     Phases, Answers, None, RequestFailed, Failed, AfterFailure, calls, chatter,
     cancels, store, loads
<1>11. ASSUME NEW e \in Execs, RequestOverdue(e) PROVE NoProcessLeft'
  BY <1>11, HostAssumption DEF NoProcessLeft, PluginIsStable, Registered, HostTypeOK,
     Phases, Answers, None, RequestOverdue, Overdue, calls, chatter, cancels, store,
     loads
<1>12. ASSUME NEW e \in Execs, Save(e) PROVE NoProcessLeft'
  BY <1>12, HostAssumption DEF NoProcessLeft, PluginIsStable, Registered, HostTypeOK,
     Phases, Answers, None, Save, calls, chatter, cancels, store, loads
<1>13. ASSUME NEW e \in Execs, Close(e) PROVE NoProcessLeft'
  BY <1>13, HostAssumption DEF NoProcessLeft, PluginIsStable, Registered, HostTypeOK,
     Phases, Answers, None, Close, calls, chatter, cancels, store, loads
<1>14. ASSUME NEW e \in Execs, Drop(e) PROVE NoProcessLeft'
  BY <1>14, HostAssumption DEF NoProcessLeft, PluginIsStable, Registered, HostTypeOK,
     Phases, Answers, None, Drop, calls, chatter, cancels, store, loads
<1>15. ASSUME NEW e \in Execs, Answer(e) PROVE NoProcessLeft'
  BY <1>15, HostAssumption DEF NoProcessLeft, PluginIsStable, Registered, HostTypeOK,
     Phases, Answers, None, Answer, calls, chatter, cancels, store, loads
<1>16. ASSUME NEW e \in Execs, Exit(e) PROVE NoProcessLeft'
  BY <1>16, HostAssumption DEF NoProcessLeft, PluginIsStable, Registered, HostTypeOK,
     Phases, Answers, None, Exit, calls, chatter, cancels, store, loads
<1>17. ASSUME NEW e \in Execs, Progress(e) PROVE NoProcessLeft'
  BY <1>17, HostAssumption DEF NoProcessLeft, PluginIsStable, Registered, HostTypeOK,
     Phases, Answers, None, Progress, calls, chatter, cancels, store, loads
<1>18. ASSUME NEW c \in Cancellers, LookUp(c) PROVE NoProcessLeft'
  BY <1>18, HostAssumption DEF NoProcessLeft, PluginIsStable, Registered, HostTypeOK,
     Phases, Answers, None, LookUp, calls, chatter, cancels, store, loads
<1>19. ASSUME NEW c \in Cancellers, cancel_plugin(c) PROVE NoProcessLeft'
  BY <1>19, HostAssumption DEF NoProcessLeft, PluginIsStable, Registered, HostTypeOK,
     Phases, Answers, None, cancel_plugin, Target, Victim, calls, chatter, cancels,
     store, loads
<1>20. ASSUME NEW k \in Tokens \cup {"plain"}, Change(k) PROVE NoProcessLeft'
  <2>1. \A e \in Execs : thread[e] \notin Registered \cup {"verified", "hello"}
    BY <1>20, HostAssumption DEF Change, Idle, CallsListed, HostTypeOK, Registered, Phases, None
  <2>2. \A e \in Execs : process[e] = "alive" => thread[e] = "dropping"
    BY <2>1 DEF HostTypeOK, NoProcessLeft, Registered, Phases
  <2>3. QED
    BY <1>20, <2>2 DEF Change, NoProcessLeft, calls
<1>21. ASSUME Changed PROVE NoProcessLeft'
  BY <1>21, HostAssumption DEF NoProcessLeft, PluginIsStable, Registered, HostTypeOK,
     Phases, Answers, None, Changed, calls, chatter, cancels, store, loads
<1>22. ASSUME NEW k \in Tokens, Download(k) PROVE NoProcessLeft'
  BY <1>22, HostAssumption DEF NoProcessLeft, PluginIsStable, Registered, HostTypeOK,
     Phases, Answers, None, Download, calls, chatter, cancels, store, loads
<1>23. ASSUME NEW k \in Tokens, Offer(k) PROVE NoProcessLeft'
  BY <1>23, HostAssumption DEF NoProcessLeft, PluginIsStable, Registered, HostTypeOK,
     Phases, Answers, None, Offer, calls, chatter, cancels, store, loads
<1>24. ASSUME NEW k \in Tokens, discard_prepared_plugin(k) PROVE NoProcessLeft'
  BY <1>24, HostAssumption DEF NoProcessLeft, PluginIsStable, Registered, HostTypeOK,
     Phases, Answers, None, discard_prepared_plugin, calls, chatter, cancels, store,
     loads
<1>25. QED
  BY <1>1, <1>2, <1>3, <1>4, <1>5, <1>6, <1>7, <1>8, <1>9, <1>10, <1>11, <1>12, <1>13,
     <1>14, <1>15, <1>16, <1>17, <1>18, <1>19, <1>20, <1>21, <1>22, <1>23, <1>24
     DEF NextHost, Proceed

\* A package leaves the disk with its last owner.
LEMMA DownloadsKept ==
    ASSUME HostTypeOK, Downloads, NextHost
    PROVE  Downloads'
<1>1. ASSUME NEW e \in Execs, execute_plugin(e) PROVE Downloads'
  BY <1>1, HostAssumption DEF Downloads, DownloadsAreOwned, Offered, HostTypeOK, Phases,
     Answers, None, execute_plugin, calls, chatter, cancels, store, loads
<1>2. ASSUME NEW e \in Execs, Enter(e) PROVE Downloads'
  BY <1>2, HostAssumption DEF Downloads, DownloadsAreOwned, Offered, HostTypeOK, Phases,
     Answers, None, Enter, calls, chatter, cancels, store, loads
<1>3. ASSUME NEW e \in Execs, Spawn(e) PROVE Downloads'
  BY <1>3, HostAssumption DEF Downloads, DownloadsAreOwned, Offered, HostTypeOK, Phases,
     Answers, None, Spawn, calls, chatter, cancels, store, loads
<1>4. ASSUME NEW e \in Execs, HelloDone(e) PROVE Downloads'
  BY <1>4, HostAssumption DEF Downloads, DownloadsAreOwned, Offered, HostTypeOK, Phases,
     Answers, None, HelloDone, Succeeded, calls, chatter, cancels, store, loads
<1>5. ASSUME NEW e \in Execs, HelloFailed(e) PROVE Downloads'
  BY <1>5, HostAssumption DEF Downloads, DownloadsAreOwned, Offered, HostTypeOK, Phases,
     Answers, None, HelloFailed, Failed, calls, chatter, cancels, store, loads
<1>6. ASSUME NEW e \in Execs, HelloOverdue(e) PROVE Downloads'
  BY <1>6, HostAssumption DEF Downloads, DownloadsAreOwned, Offered, HostTypeOK, Phases,
     Answers, None, HelloOverdue, Overdue, calls, chatter, cancels, store, loads
<1>7. ASSUME NEW e \in Execs, ReadProgress(e) PROVE Downloads'
  BY <1>7, HostAssumption DEF Downloads, DownloadsAreOwned, Offered, HostTypeOK, Phases,
     Answers, None, ReadProgress, calls, chatter, cancels, store, loads
<1>8. ASSUME NEW e \in Execs, Stage(e) PROVE Downloads'
  BY <1>8, HostAssumption DEF Downloads, DownloadsAreOwned, Offered, HostTypeOK, Phases,
     Answers, None, Stage, calls, chatter, cancels, store, loads
<1>9. ASSUME NEW e \in Execs, RequestDone(e) PROVE Downloads'
  BY <1>9, HostAssumption DEF Downloads, DownloadsAreOwned, Offered, HostTypeOK, Phases,
     Answers, None, RequestDone, Succeeded, calls, chatter, cancels, store, loads
<1>10. ASSUME NEW e \in Execs, RequestFailed(e) PROVE Downloads'
  BY <1>10, HostAssumption DEF Downloads, DownloadsAreOwned, Offered, HostTypeOK, Phases,
     Answers, None, RequestFailed, Failed, AfterFailure, calls, chatter, cancels, store,
     loads
<1>11. ASSUME NEW e \in Execs, RequestOverdue(e) PROVE Downloads'
  BY <1>11, HostAssumption DEF Downloads, DownloadsAreOwned, Offered, HostTypeOK, Phases,
     Answers, None, RequestOverdue, Overdue, calls, chatter, cancels, store, loads
<1>12. ASSUME NEW e \in Execs, Save(e) PROVE Downloads'
  BY <1>12, HostAssumption DEF Downloads, DownloadsAreOwned, Offered, HostTypeOK, Phases,
     Answers, None, Save, calls, chatter, cancels, store, loads
<1>13. ASSUME NEW e \in Execs, Close(e) PROVE Downloads'
  BY <1>13, HostAssumption DEF Downloads, DownloadsAreOwned, Offered, HostTypeOK, Phases,
     Answers, None, Close, calls, chatter, cancels, store, loads
<1>14. ASSUME NEW e \in Execs, Drop(e) PROVE Downloads'
  BY <1>14, HostAssumption DEF Downloads, DownloadsAreOwned, Offered, HostTypeOK, Phases,
     Answers, None, Drop, calls, chatter, cancels, store, loads
<1>15. ASSUME NEW e \in Execs, Answer(e) PROVE Downloads'
  BY <1>15, HostAssumption DEF Downloads, DownloadsAreOwned, Offered, HostTypeOK, Phases,
     Answers, None, Answer, calls, chatter, cancels, store, loads
<1>16. ASSUME NEW e \in Execs, Exit(e) PROVE Downloads'
  BY <1>16, HostAssumption DEF Downloads, DownloadsAreOwned, Offered, HostTypeOK, Phases,
     Answers, None, Exit, calls, chatter, cancels, store, loads
<1>17. ASSUME NEW e \in Execs, Progress(e) PROVE Downloads'
  BY <1>17, HostAssumption DEF Downloads, DownloadsAreOwned, Offered, HostTypeOK, Phases,
     Answers, None, Progress, calls, chatter, cancels, store, loads
<1>18. ASSUME NEW c \in Cancellers, LookUp(c) PROVE Downloads'
  BY <1>18, HostAssumption DEF Downloads, DownloadsAreOwned, Offered, HostTypeOK, Phases,
     Answers, None, LookUp, calls, chatter, cancels, store, loads
<1>19. ASSUME NEW c \in Cancellers, cancel_plugin(c) PROVE Downloads'
  BY <1>19, HostAssumption DEF Downloads, DownloadsAreOwned, Offered, HostTypeOK, Phases,
     Answers, None, cancel_plugin, Target, Victim, calls, chatter, cancels, store, loads
<1>20. ASSUME NEW k \in Tokens \cup {"plain"}, Change(k) PROVE Downloads'
  BY <1>20, HostAssumption DEF Downloads, DownloadsAreOwned, Offered, HostTypeOK, Phases,
     Answers, None, Change, Idle, calls, chatter, cancels, store, loads
<1>21. ASSUME Changed PROVE Downloads'
  BY <1>21, HostAssumption DEF Downloads, DownloadsAreOwned, Offered, HostTypeOK, Phases,
     Answers, None, Changed, calls, chatter, cancels, store, loads
<1>22. ASSUME NEW k \in Tokens, Download(k) PROVE Downloads'
  BY <1>22, HostAssumption DEF Downloads, DownloadsAreOwned, Offered, HostTypeOK, Phases,
     Answers, None, Download, calls, chatter, cancels, store, loads
<1>23. ASSUME NEW k \in Tokens, Offer(k) PROVE Downloads'
  BY <1>23, HostAssumption DEF Downloads, DownloadsAreOwned, Offered, HostTypeOK, Phases,
     Answers, None, Offer, calls, chatter, cancels, store, loads
<1>24. ASSUME NEW k \in Tokens, discard_prepared_plugin(k) PROVE Downloads'
  BY <1>24, HostAssumption DEF Downloads, DownloadsAreOwned, Offered, HostTypeOK, Phases,
     Answers, None, discard_prepared_plugin, calls, chatter, cancels, store, loads
<1>25. QED
  BY <1>1, <1>2, <1>3, <1>4, <1>5, <1>6, <1>7, <1>8, <1>9, <1>10, <1>11, <1>12, <1>13,
     <1>14, <1>15, <1>16, <1>17, <1>18, <1>19, <1>20, <1>21, <1>22, <1>23, <1>24
     DEF NextHost, Proceed

\* A handle is kept as it was looked up, and a dead process does not answer.
LEMMA CancelsKept ==
    ASSUME HostTypeOK, Cancels, NextHost
    PROVE  Cancels'
<1>1. ASSUME NEW e \in Execs, execute_plugin(e) PROVE Cancels'
  BY <1>1, HostAssumption DEF Cancels, CancelIsPrecise, Doomed, Reported, Asked,
     HostTypeOK, Phases, Answers, None, execute_plugin, calls, chatter, cancels, store,
     loads
<1>2. ASSUME NEW e \in Execs, Enter(e) PROVE Cancels'
  <2>1. /\ \A d \in Execs : thread'[d] # thread[d] => thread[d] = "want" /\ thread'[d] # "request"
        /\ thread' \in [Execs -> Phases]
    BY <1>2 DEF Enter, HostTypeOK, Phases
  <2>2. UNCHANGED <<flagged, handle, looked, killed, doomed, reports, process, pipe>>
    BY <1>2 DEF Enter, cancels
  <2>3. doomed \cup reports \subseteq Execs
    BY DEF HostTypeOK
  <2>4. QED
    BY <2>1, <2>2, <2>3 DEF Cancels, CancelIsPrecise, Doomed, Reported, Asked
<1>3. ASSUME NEW e \in Execs, Spawn(e) PROVE Cancels'
  BY <1>3, HostAssumption DEF Cancels, CancelIsPrecise, Doomed, Reported, Asked,
     HostTypeOK, Phases, Answers, None, Spawn, calls, chatter, cancels, store, loads
<1>4. ASSUME NEW e \in Execs, HelloDone(e) PROVE Cancels'
  BY <1>4, HostAssumption DEF Cancels, CancelIsPrecise, Doomed, Reported, Asked,
     HostTypeOK, Phases, Answers, None, HelloDone, Succeeded, calls, chatter, cancels,
     store, loads
<1>5. ASSUME NEW e \in Execs, HelloFailed(e) PROVE Cancels'
  BY <1>5, HostAssumption DEF Cancels, CancelIsPrecise, Doomed, Reported, Asked,
     HostTypeOK, Phases, Answers, None, HelloFailed, Failed, calls, chatter, cancels, store,
     loads
<1>6. ASSUME NEW e \in Execs, HelloOverdue(e) PROVE Cancels'
  BY <1>6, HostAssumption DEF Cancels, CancelIsPrecise, Doomed, Reported, Asked,
     HostTypeOK, Phases, Answers, None, HelloOverdue, Overdue, calls, chatter, cancels,
     store, loads
<1>7. ASSUME NEW e \in Execs, ReadProgress(e) PROVE Cancels'
  BY <1>7, HostAssumption DEF Cancels, CancelIsPrecise, Doomed, Reported, Asked,
     HostTypeOK, Phases, Answers, None, ReadProgress, calls, chatter, cancels, store, loads
<1>8. ASSUME NEW e \in Execs, Stage(e) PROVE Cancels'
  BY <1>8, HostAssumption DEF Cancels, CancelIsPrecise, Doomed, Reported, Asked,
     HostTypeOK, Phases, Answers, None, Stage, calls, chatter, cancels, store, loads
<1>9. ASSUME NEW e \in Execs, RequestDone(e) PROVE Cancels'
  BY <1>9, HostAssumption DEF Cancels, CancelIsPrecise, Doomed, Reported, Asked,
     HostTypeOK, Phases, Answers, None, RequestDone, Succeeded, calls, chatter, cancels,
     store, loads
<1>10. ASSUME NEW e \in Execs, RequestFailed(e) PROVE Cancels'
  BY <1>10, HostAssumption DEF Cancels, CancelIsPrecise, Doomed, Reported, Asked,
     HostTypeOK, Phases, Answers, None, RequestFailed, Failed, AfterFailure, calls, chatter,
     cancels, store, loads
<1>11. ASSUME NEW e \in Execs, RequestOverdue(e) PROVE Cancels'
  BY <1>11, HostAssumption DEF Cancels, CancelIsPrecise, Doomed, Reported, Asked,
     HostTypeOK, Phases, Answers, None, RequestOverdue, Overdue, calls, chatter, cancels,
     store, loads
<1>12. ASSUME NEW e \in Execs, Save(e) PROVE Cancels'
  BY <1>12, HostAssumption DEF Cancels, CancelIsPrecise, Doomed, Reported, Asked,
     HostTypeOK, Phases, Answers, None, Save, calls, chatter, cancels, store, loads
<1>13. ASSUME NEW e \in Execs, Close(e) PROVE Cancels'
  BY <1>13, HostAssumption DEF Cancels, CancelIsPrecise, Doomed, Reported, Asked,
     HostTypeOK, Phases, Answers, None, Close, calls, chatter, cancels, store, loads
<1>14. ASSUME NEW e \in Execs, Drop(e) PROVE Cancels'
  BY <1>14, HostAssumption DEF Cancels, CancelIsPrecise, Doomed, Reported, Asked,
     HostTypeOK, Phases, Answers, None, Drop, calls, chatter, cancels, store, loads
<1>15. ASSUME NEW e \in Execs, Answer(e) PROVE Cancels'
  BY <1>15, HostAssumption DEF Cancels, CancelIsPrecise, Doomed, Reported, Asked,
     HostTypeOK, Phases, Answers, None, Answer, calls, chatter, cancels, store, loads
<1>16. ASSUME NEW e \in Execs, Exit(e) PROVE Cancels'
  BY <1>16, HostAssumption DEF Cancels, CancelIsPrecise, Doomed, Reported, Asked,
     HostTypeOK, Phases, Answers, None, Exit, calls, chatter, cancels, store, loads
<1>17. ASSUME NEW e \in Execs, Progress(e) PROVE Cancels'
  BY <1>17, HostAssumption DEF Cancels, CancelIsPrecise, Doomed, Reported, Asked,
     HostTypeOK, Phases, Answers, None, Progress, calls, chatter, cancels, store, loads
<1>18. ASSUME NEW c \in Cancellers, LookUp(c) PROVE Cancels'
  BY <1>18, HostAssumption DEF Cancels, CancelIsPrecise, Doomed, Reported, Asked,
     HostTypeOK, Phases, Answers, None, LookUp, calls, chatter, cancels, store, loads
<1>19. ASSUME NEW c \in Cancellers, cancel_plugin(c) PROVE Cancels'
  BY <1>19, HostAssumption DEF Cancels, CancelIsPrecise, Doomed, Reported, Asked,
     HostTypeOK, Phases, Answers, None, cancel_plugin, Target, Victim, calls, chatter,
     cancels, store, loads
<1>20. ASSUME NEW k \in Tokens \cup {"plain"}, Change(k) PROVE Cancels'
  BY <1>20, HostAssumption DEF Cancels, CancelIsPrecise, Doomed, Reported, Asked,
     HostTypeOK, Phases, Answers, None, Change, Idle, calls, chatter, cancels, store, loads
<1>21. ASSUME Changed PROVE Cancels'
  BY <1>21, HostAssumption DEF Cancels, CancelIsPrecise, Doomed, Reported, Asked,
     HostTypeOK, Phases, Answers, None, Changed, calls, chatter, cancels, store, loads
<1>22. ASSUME NEW k \in Tokens, Download(k) PROVE Cancels'
  BY <1>22, HostAssumption DEF Cancels, CancelIsPrecise, Doomed, Reported, Asked,
     HostTypeOK, Phases, Answers, None, Download, calls, chatter, cancels, store, loads
<1>23. ASSUME NEW k \in Tokens, Offer(k) PROVE Cancels'
  BY <1>23, HostAssumption DEF Cancels, CancelIsPrecise, Doomed, Reported, Asked,
     HostTypeOK, Phases, Answers, None, Offer, calls, chatter, cancels, store, loads
<1>24. ASSUME NEW k \in Tokens, discard_prepared_plugin(k) PROVE Cancels'
  BY <1>24, HostAssumption DEF Cancels, CancelIsPrecise, Doomed, Reported, Asked,
     HostTypeOK, Phases, Answers, None, discard_prepared_plugin, calls, chatter, cancels,
     store, loads
<1>25. QED
  BY <1>1, <1>2, <1>3, <1>4, <1>5, <1>6, <1>7, <1>8, <1>9, <1>10, <1>11, <1>12, <1>13,
     <1>14, <1>15, <1>16, <1>17, <1>18, <1>19, <1>20, <1>21, <1>22, <1>23, <1>24
     DEF NextHost, Proceed

-----------------------------------------------------------------------------
LEMMA SoundInit == InitHost => HostSound
<1> SUFFICES ASSUME InitHost PROVE HostSound
  OBVIOUS
<1>1. HostTypeOK
  BY HostAssumption DEF InitHost, HostTypeOK, Phases, Answers, None
<1>2. CallsListed /\ PluginIsStable /\ NoProcessLeft
  BY DEF InitHost, CallsListed, PluginIsStable, NoProcessLeft, Registered, None
<1>3. Downloads /\ Cancels
  BY HostAssumption DEF InitHost, Downloads, DownloadsAreOwned, Offered, Cancels, CancelIsPrecise,
     Doomed, Reported, Asked, None
<1>4. QED
  BY <1>1, <1>2, <1>3 DEF HostSound

LEMMA SoundNext == HostSound /\ [NextHost]_hostVars => HostSound'
<1> SUFFICES ASSUME HostSound, [NextHost]_hostVars PROVE HostSound'
  OBVIOUS
<1>1. CASE NextHost
  BY <1>1, TypeKept, ListedKept, StableKept, ProcessesKept, DownloadsKept, CancelsKept DEF HostSound
<1>2. CASE UNCHANGED hostVars
  <2>1. HostTypeOK' /\ CallsListed'
    BY <1>2 DEF HostSound, HostTypeOK, CallsListed, hostVars, calls, chatter, cancels, store, loads
  <2>2. PluginIsStable' /\ NoProcessLeft'
    BY <1>2 DEF HostSound, PluginIsStable, NoProcessLeft, hostVars, calls, chatter, cancels,
       store, loads
  <2>3. Downloads' /\ Cancels'
    BY <1>2 DEF HostSound, Downloads, DownloadsAreOwned, Offered, Cancels, CancelIsPrecise, Doomed,
       Reported, Asked, hostVars, calls, chatter, cancels, store, loads
  <2>4. QED
    BY <2>1, <2>2, <2>3 DEF HostSound
<1>3. QED
  BY <1>1, <1>2

\* The parts are kept together.
LEMMA AlwaysSound == SpecHost => []HostSound
BY SoundInit, SoundNext, PTL DEF SpecHost

-----------------------------------------------------------------------------
\* A running call works with one installed version, which nobody changes.
THEOREM HostPluginIsStable == SpecHost => []PluginIsStable
<1>1. HostSound => PluginIsStable
  BY DEF HostSound
<1>2. QED
  BY <1>1, AlwaysSound, PTL

\* No process, no file and no lock is left behind by any call or download.
THEOREM HostNothingIsLeft == SpecHost => []NothingIsLeft
<1>1. HostSound => NothingIsLeft
  BY DEF HostSound, NothingIsLeft, Downloads
<1>2. QED
  BY <1>1, AlwaysSound, PTL

\* A cancel kills the call it looked up, and a call that was killed before its
\* answer saves no report.
THEOREM HostCancelIsPrecise == SpecHost => []CancelIsPrecise
<1>1. HostSound => CancelIsPrecise
  BY DEF HostSound, Cancels
<1>2. QED
  BY <1>1, AlwaysSound, PTL
=============================================================================
