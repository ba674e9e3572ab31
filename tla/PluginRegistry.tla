--------------------------- MODULE PluginRegistry ---------------------------
(***************************************************************************)
(* What a plugin store promises its users: the set of installed plugins    *)
(* changes only by whole operations, each of them allowed by the rules for *)
(* the content it is applied to.  No crash, failed system call or other    *)
(* process shows in between.  PluginStore implements it.                   *)
(***************************************************************************)
EXTENDS PluginRules

VARIABLE content

Init == content = Empty

Install == \E p \in Packages :
    MayInstall(p, content) /\ content' = Installed(p, content)

SetEnabled == \E i \in Ids, enabled \in BOOLEAN :
    /\ MayEnable(i, enabled, content)
    /\ content' = Switched(i, enabled, content)

Uninstall == \E i \in Ids :
    MayUninstall(i, content) /\ content' = Removed(i, content)

Next == Install \/ SetEnabled \/ Uninstall

Spec == Init /\ [][Next]_content
=============================================================================
