----------------------------- MODULE PluginRules ----------------------------
(***************************************************************************)
(* The rules of crates/plugin-host/src/store.rs on what may be installed,  *)
(* enabled, disabled and removed, as operators on the content of the       *)
(* plugin index.                                                           *)
(*                                                                         *)
(* An index content is a function from plugin ids to entries.  A package   *)
(* is what its verified manifest and signature say: id, version, publisher *)
(* key and dependencies.  A version range (VersionReq) is the set of       *)
(* versions that match it.                                                 *)
(***************************************************************************)
EXTENDS Integers

CONSTANTS Ids,        \* plugin ids
          Keys,       \* publisher key fingerprints
          Packages    \* the packages a user may try to install

Package == [id : Ids, version : Nat, key : Keys,
            deps : SUBSET [id : Ids, range : SUBSET Nat]]
Entry   == [pkg : Packages, enabled : BOOLEAN]
Content == UNION {[S -> Entry] : S \in SUBSET Ids}
Empty   == [i \in {} |-> {}]

ASSUME RulesAssumption == Packages \subseteq Package

\* Some set of plugins in S depends on itself: every member has a dependency
\* in the set.
Circular(S, deps) ==
    \E C \in SUBSET S :
        C # {} /\ \A i \in C : \E d \in deps[i] : d.id \in C

-----------------------------------------------------------------------------
\* An upgrade must stay within the range of every installed dependent.
check_dependents(p, list) ==
    \A i \in DOMAIN list \ {p.id} :
        \A d \in list[i].pkg.deps : d.id = p.id => p.version \in d.range

\* Only a newer version, signed with the same key, replaces a plugin.
check_upgrade(p, list) ==
    /\ p.id \in DOMAIN list =>
         /\ list[p.id].pkg.key = p.key
         /\ p.version > list[p.id].pkg.version
    /\ check_dependents(p, list)

\* Every dependency is installed, enabled and of a matching version.
check_dependencies(p, list) ==
    \A d \in p.deps :
        /\ d.id \in DOMAIN list
        /\ list[d.id].enabled
        /\ list[d.id].pkg.version \in d.range

\* Mutant of check_cycles: only direct two-plugin cycles through p are seen.
check_cycles_missing(p, list) == \A d \in p.deps : d.id # p.id

\* visit: depth-first from p, whose own dependencies replace those of the
\* installed version; fails on a cycle or on a plugin that is not installed.
check_cycles(p, list) ==
    LET deps == [i \in Ids |-> IF i = p.id THEN p.deps
                               ELSE IF i \in DOMAIN list THEN list[i].pkg.deps
                               ELSE {}]
        closed(S) == \A i \in S : \A d \in deps[i] : d.id \in S
        reached == {j \in Ids : \A S \in SUBSET Ids :
                                    p.id \in S /\ closed(S) => j \in S}
    IN  /\ \A j \in reached : j = p.id \/ j \in DOMAIN list
        /\ ~Circular(reached, deps)

\* What install requires of the index.
MayInstall(p, list) ==
    check_upgrade(p, list) /\ check_dependencies(p, list) /\ check_cycles(p, list)

\* What set_enabled requires of the index.
MayEnable(i, enabled, list) ==
    /\ i \in DOMAIN list
    /\ enabled => check_dependencies(list[i].pkg, list)
    /\ ~enabled => ~\E j \in DOMAIN list :
                        list[j].enabled /\ \E d \in list[j].pkg.deps : d.id = i

\* What uninstall requires of the index: no dependent, enabled or not.
MayUninstall(i, list) ==
    /\ i \in DOMAIN list
    /\ ~\E j \in DOMAIN list : \E d \in list[j].pkg.deps : d.id = i

\* The index content after install, set_enabled and uninstall.
Installed(p, list) ==
    [i \in DOMAIN list \cup {p.id} |->
        IF i = p.id THEN [pkg |-> p, enabled |-> TRUE] ELSE list[i]]

Switched(i, enabled, list) ==
    [j \in DOMAIN list |->
        IF j = i THEN [pkg |-> list[j].pkg, enabled |-> enabled] ELSE list[j]]

Removed(i, list) == [j \in DOMAIN list \ {i} |-> list[j]]

-----------------------------------------------------------------------------
\* Every plugin's dependencies are installed with a version in range, those
\* of an enabled plugin are enabled too, and no plugin depends on itself.
Satisfied(list) ==
    \A i \in DOMAIN list : \A d \in list[i].pkg.deps :
        /\ d.id \in DOMAIN list
        /\ list[d.id].pkg.version \in d.range
        /\ list[i].enabled => list[d.id].enabled

Acyclic(list) ==
    ~Circular(DOMAIN list, [i \in DOMAIN list |-> list[i].pkg.deps])

\* An entry is filed under its own id.
Filed(list) == \A i \in DOMAIN list : list[i].pkg.id = i

WellFormed(list) == Filed(list) /\ Satisfied(list) /\ Acyclic(list)
=============================================================================
