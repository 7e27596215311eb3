-------------------------- MODULE MCModuleLifecycle --------------------------
(* One module in three versions: the second brings a migration and a skill *)
(* that upgrade does not copy, the third installs without either.  And the *)
(* resolver, which a behaviour of its own calls on one of many inputs.     *)
EXTENDS ModuleLifecycle, ModuleResolver
CONSTANTS m, agent, skill, extra, svc, svc2, mig
MCModules == {m}
MCFiles == {agent, skill, extra}
MCServices == {svc, svc2}
MCMigrations == {mig}
V1 == [module |-> m, version |-> 1, requires |-> FALSE, migrations |-> {},
       services |-> {svc}, agents |-> {agent}, skills |-> {skill}]
V2 == [V1 EXCEPT !.version = 2, !.migrations = {mig}, !.skills = {skill, extra}]
V3 == [V1 EXCEPT !.version = 3, !.services = {svc2}, !.agents = {agent, extra},
                 !.skills = {}]
MCManifests == {V1, V2, V3}

Wants(name, version, requires) == [name |-> name, version |-> version, requires |-> requires]
Caret == [op |-> "^", base |-> <<1, 0, 0>>]

\* Three modules that require each other, themselves or one that is missing.
MCGraphs ==
    {[i \in 1..3 |-> Wants(i, <<1, 0, 0>>, [d \in needs[i] |-> Caret])] :
        needs \in [1..3 -> SUBSET (1..3)] \cup [1..3 -> {{}, {1}, {4}}]}

\* Two modules that require a third, or the same module given twice.
MCVersions == (0..1) \X (0..1) \X (0..1)
MCRanges == [op : {"^", "~", "="}, base : MCVersions] \cup {Unparsable}
MCPairs ==
    {<<Wants(1, <<1, 0, 0>>, [d \in {3} |-> a]), Wants(k, <<1, 0, 0>>, [d \in {3} |-> b]),
       Wants(3, v, << >>)>> :
        a \in MCRanges, b \in MCRanges, k \in {1, 2}, v \in MCVersions \cup {<<2, 0, 0>>}}
MCInputs == {<< >>} \cup MCGraphs \cup MCPairs

VARIABLE part
MCInit ==
    /\ part \in {"lifecycle", "resolver"}
    /\ LifecycleInit /\ ResolverInit
    /\ part = "lifecycle" => manifests = << >>
    /\ part = "resolver" => files = [f \in Files |-> None]
MCNext ==
    \/ part = "lifecycle" /\ LifecycleNext /\ UNCHANGED <<part, rsvars>>
    \/ part = "resolver" /\ ResolverNext /\ UNCHANGED <<part, lvars>>
MCSpec == MCInit /\ [][MCNext]_<<part, rsvars, lvars>>
=============================================================================
