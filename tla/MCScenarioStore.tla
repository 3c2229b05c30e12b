---------------------------- MODULE MCScenarioStore ----------------------------
(***************************************************************************)
(* Model-checking instance of ScenarioEditor.                              *)
(***************************************************************************)
EXTENDS ScenarioEditor, TLC

CONSTANTS
    MaxNodes,      \* bound: nodes in a scenario whose nodes vary
    MaxEdges       \* bound: edges in a scenario whose edges vary

\* The node ids; the last one names no node of the drafts whose edges vary.
Line == <<"s", "a", "b", "c", "x">>
MCIds == {Line[i] : i \in DOMAIN Line}

NodeOf(id, start) == [id |-> id, start |-> start]
EdgeOf(a, b) == [from_ |-> a, to |-> b]
ScenarioOf(nodes, edges, entry, fallback) ==
    [nodes |-> nodes, edges |-> edges, entry |-> entry, fallback_node |-> fallback]

\* Drafts whose edges vary over a fixed set of nodes, the last of which may be
\* the fallback, and drafts whose nodes vary.
EdgesOver(ends, n) ==
    UNION {[1..k -> {EdgeOf(a, b) : a, b \in ends}] : k \in 0..n}
MCDrafts ==
    {ScenarioOf([i \in 1..Len(Line) - 1 |-> NodeOf(Line[i], i = 1)], edges, Line[1], fallback) :
        edges \in EdgesOver(Ids, MaxEdges), fallback \in {NoId, Line[Len(Line) - 1]}}
    \cup
    {ScenarioOf(nodes, edges, entry, fallback) :
        nodes \in UNION {[1..k -> {NodeOf(id, b) : id \in {Line[1], Line[2]}, b \in BOOLEAN}] :
                         k \in 0..MaxNodes},
        edges \in EdgesOver({Line[1], Line[2]}, 1), entry \in {Line[1], Line[2]},
        fallback \in {NoId, Line[2], Line[Len(Line)]}}

Symmetry == Permutations(Editors)

===============================================================================
