--------------------------- MODULE ModuleResolver ---------------------------
(***************************************************************************)
(* The module resolver (src/services/module_resolver.py): from the         *)
(* manifests of the modules wanted to an order of installation, or to the  *)
(* conflicts, the missing modules and a cycle that forbid one.  Conflicts  *)
(* and missing modules are operators; the two loops over the graph,        *)
(* _detect_cycle and _topo_sort, are machines, whose every step is one     *)
(* round of a loop.  The stack of the recursive dfs is kept in the open.   *)
(*                                                                         *)
(* A module name is a number, so that names are ordered; a version is a    *)
(* triple of numbers, its pre-release and build parts stripped as          *)
(* _parse_version does; a range is an operator and a version, or Unparsable. *)
(***************************************************************************)
EXTENDS Naturals, Sequences, FiniteSets, Functions

CONSTANTS
    Inputs,         \* sequences of manifests
    Unparsable      \* a range that is none

Versions == Nat \X Nat \X Nat
Ranges == [op : {"^", "~", "="}, base : Versions]

ASSUME InputsAssumption ==
    /\ Unparsable \notin Ranges
    /\ \A ms \in Inputs :
          /\ ms = [i \in 1..Len(ms) |-> ms[i]] /\ Len(ms) \in Nat
          /\ \A i \in 1..Len(ms) :
                /\ ms[i].name \in Nat /\ ms[i].version \in Versions
                /\ DOMAIN ms[i].requires \subseteq Nat
                /\ \A d \in DOMAIN ms[i].requires : ms[i].requires[d] \in Ranges \cup {Unparsable}

VARIABLES
    manifests,  \* what resolve() is called with
    phase,      \* "cycle" (_detect_cycle), "order" (_topo_sort) or "done"
    path,       \* of _detect_cycle: the modules in progress, outermost first
    left,       \* for each of them, what it requires and dfs has still to follow
    visited,    \* modules dfs is done with
    cycle,      \* the cycle found, or NoCycle
    order       \* of _topo_sort: the result so far

rsvars == <<manifests, phase, path, left, visited, cycle, order>>

----------------------------------------------------------------------------
(* Versions and ranges.                                                    *)

Before(u, v) ==
    \E i \in 1..3 : u[i] < v[i] /\ \A j \in 1..(i - 1) : u[j] = v[j]

\* The versions from here, ...
Low(range) == range.base

\* Faulty variant: ^0.1.2 goes up to 1.0.0.
High_ZeroMajor(range) ==
    LET b == range.base
    IN  CASE range.op = "^" -> <<b[1] + 1, 0, 0>>
          [] range.op = "~" -> <<b[1], b[2] + 1, 0>>
          [] OTHER -> <<b[1], b[2], b[3] + 1>>

\* ... to before here.
High(range) ==
    LET b == range.base
    IN  CASE range.op = "^" /\ b[1] > 0 -> <<b[1] + 1, 0, 0>>
          [] range.op = "~" \/ (range.op = "^" /\ b[1] = 0) -> <<b[1], b[2] + 1, 0>>
          [] OTHER -> <<b[1], b[2], b[3] + 1>>

RangeContains(range, v) == ~ Before(v, Low(range)) /\ Before(v, High(range))

RangesOverlap(a, b) == Before(Low(a), High(b)) /\ Before(Low(b), High(a))

----------------------------------------------------------------------------
(* What resolve makes of the manifests.                                    *)

Names(ms) == {ms[i].name : i \in DOMAIN ms}

\* by_name: the first manifest of a name counts.
ByName(ms) ==
    [n \in Names(ms) |-> ms[CHOOSE i \in DOMAIN ms :
        ms[i].name = n /\ \A j \in DOMAIN ms : ms[j].name = n => i <= j]]

Required(ms) == UNION {DOMAIN ms[i].requires : i \in DOMAIN ms}
Absent(ms) == Required(ms) \ Names(ms)

\* What forbids the installation: a name given twice, two ranges for one
\* module that no version satisfies, a version out of a range.
Duplicated(ms) == \E i, j \in DOMAIN ms : i < j /\ ms[i].name = ms[j].name

Disjoint(ms) ==
    \E i, j \in DOMAIN ms : \E dep \in DOMAIN ms[i].requires \cap DOMAIN ms[j].requires :
        LET a == ms[i].requires[dep]
            b == ms[j].requires[dep]
        IN  i < j /\ (Unparsable \in {a, b} \/ ~ RangesOverlap(a, b))

Unsatisfied(ms) ==
    \E i \in DOMAIN ms : \E dep \in DOMAIN ms[i].requires \cap Names(ms) :
        LET a == ms[i].requires[dep]
        IN  a = Unparsable \/ ~ RangeContains(a, ByName(ms)[dep].version)

Clean(ms) == ~ Duplicated(ms) /\ ~ Disjoint(ms) /\ ~ Unsatisfied(ms) /\ Absent(ms) = {}

Graph(ms) == [n \in Names(ms) |-> DOMAIN ByName(ms)[n].requires \cap Names(ms)]
Requires(n) == Graph(manifests)[n]

NoCycle == << >>
Least(S) == CHOOSE n \in S : \A o \in S : n <= o

ResolverInit ==
    /\ manifests \in Inputs /\ phase = "cycle"
    /\ path = << >> /\ left = << >> /\ visited = {} /\ cycle = NoCycle /\ order = << >>

----------------------------------------------------------------------------
(* _detect_cycle                                                           *)

Searching == phase = "cycle" /\ UNCHANGED <<manifests, order>>
Top == Len(path)

\* The outer loop: dfs from the next module that was not visited.
Unvisited == Names(manifests) \ visited
Root ==
    /\ Searching /\ path = << >> /\ Unvisited # {}
    /\ path' = <<Least(Unvisited)>> /\ left' = <<Requires(Least(Unvisited))>>
    /\ UNCHANGED <<phase, visited, cycle>>

\* The inner loop: the innermost module has the least of what is left to follow.
Dependency == Least(left[Top])
Following == Searching /\ path # << >> /\ left[Top] # {}
Rest == [left EXCEPT ![Top] = @ \ {Dependency}]

Descend ==
    /\ Following /\ Dependency \notin Range(path) \cup visited
    /\ path' = Append(path, Dependency) /\ left' = Append(Rest, Requires(Dependency))
    /\ UNCHANGED <<phase, visited, cycle>>

Skip ==
    /\ Following /\ Dependency \in visited \ Range(path)
    /\ left' = Rest
    /\ UNCHANGED <<phase, path, visited, cycle>>

\* A module that is in progress: the path from it on, and back to it.
CloseCycle ==
    /\ Following /\ Dependency \in Range(path)
    /\ LET start == CHOOSE i \in DOMAIN path : path[i] = Dependency /\ \A j \in DOMAIN path : path[j] = Dependency => i <= j
       IN  cycle' = Append(SubSeq(path, start, Top), Dependency)
    /\ phase' = "done"
    /\ UNCHANGED <<path, left, visited>>

Return ==
    /\ Searching /\ path # << >> /\ left[Top] = {}
    /\ visited' = visited \cup {path[Top]}
    /\ path' = SubSeq(path, 1, Top - 1) /\ left' = SubSeq(left, 1, Top - 1)
    /\ UNCHANGED <<phase, cycle>>

\* No cycle.  The order is asked for when nothing else forbids it.
Exhausted ==
    /\ Searching /\ path = << >> /\ Unvisited = {}
    /\ phase' = IF Clean(manifests) THEN "order" ELSE "done"
    /\ UNCHANGED <<path, left, visited, cycle>>

----------------------------------------------------------------------------
(* _topo_sort: the least module whose prerequisites are all there is next. *)

Ready == {n \in Names(manifests) \ Range(order) : Requires(n) \subseteq Range(order)}

Pick ==
    /\ phase = "order" /\ Ready # {}
    /\ order' = Append(order, Least(Ready))
    /\ UNCHANGED <<manifests, phase, path, left, visited, cycle>>

\* Modules that never become ready are a cycle that the search has missed.
Sorted ==
    /\ phase = "order" /\ Ready = {}
    /\ phase' = "done"
    /\ cycle' = IF Len(order) = Cardinality(Names(manifests)) THEN cycle
                ELSE <<"cycle-detected-by-topo">>
    /\ UNCHANGED <<manifests, path, left, visited, order>>

ResolverNext == Root \/ Descend \/ Skip \/ CloseCycle \/ Return \/ Exhausted \/ Pick \/ Sorted

ResolverSpec == ResolverInit /\ [][ResolverNext]_rsvars

\* What resolve returns as ok.
Accepted == phase = "done" /\ Clean(manifests) /\ cycle = NoCycle

----------------------------------------------------------------------------
(* Properties.                                                             *)

\* The reference: no set of modules in which each one requires another.
HasCycle(g) == \E S \in SUBSET DOMAIN g : S # {} /\ \A n \in S : g[n] \cap S # {}

InRange(range, v) ==
    /\ range # Unparsable /\ ~ Before(v, range.base)
    /\ CASE range.op = "^" -> v[1] = range.base[1] /\ (v[1] = 0 => v[2] = range.base[2])
         [] range.op = "~" -> v[1] = range.base[1] /\ v[2] = range.base[2]
         [] OTHER -> v = range.base

Installable(ms) ==
    /\ Cardinality(Names(ms)) = Len(ms)
    /\ \A i \in DOMAIN ms : \A dep \in DOMAIN ms[i].requires :
          \E j \in DOMAIN ms : ms[j].name = dep /\ InRange(ms[i].requires[dep], ms[j].version)
    /\ ~ HasCycle(Graph(ms))

\* The resolver accepts exactly what can be installed, that is no pair of
\* ranges is called a conflict that the modules at hand satisfy; the order
\* holds every module once, after all it requires; and a cycle it reports
\* is one, and is reported whenever there is one.
ResolverExact ==
    phase = "done" =>
        /\ Accepted <=> Installable(manifests)
        /\ Accepted => /\ Len(order) = Len(manifests) /\ Range(order) = Names(manifests)
                       /\ \A i \in DOMAIN order :
                             Requires(order[i]) \subseteq {order[j] : j \in 1..(i - 1)}
        /\ cycle # NoCycle <=> HasCycle(Graph(manifests))
        /\ cycle # NoCycle => /\ Len(cycle) > 1 /\ cycle[1] = cycle[Len(cycle)]
                              /\ \A i \in 1..(Len(cycle) - 1) : cycle[i + 1] \in Requires(cycle[i])
=============================================================================
