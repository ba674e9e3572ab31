--------------------------- MODULE MCPluginStore ----------------------------
(* PluginStore with a runtime, an application that needs it, and the        *)
(* upgrades that the rules must accept or refuse.                           *)
EXTENDS PluginStore

Pkg(id, version, key, deps) ==
    [id |-> id, version |-> version, key |-> key, deps |-> deps]
Needs(id, range) == [id |-> id, range |-> range]

\* The runtime, an upgrade that breaks app 1, one signed with another key, one
\* that would close a cycle; the application for runtime 1, then for 1 and 2.
MCPackages ==
    {Pkg("rt", 1, "k1", {}), Pkg("rt", 2, "k1", {}),
     Pkg("rt", 3, "k1", {Needs("app", {1, 2})}),
     Pkg("app", 1, "k1", {Needs("rt", {1})}),
     Pkg("app", 2, "k1", {Needs("rt", {1, 3})})}

\* Without the dependency rules: one plugin in two versions.
PlainPackages == {Pkg("rt", 1, "k1", {}), Pkg("rt", 2, "k1", {})}
=============================================================================
