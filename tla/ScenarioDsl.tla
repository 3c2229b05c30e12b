------------------------------ MODULE ScenarioDsl ------------------------------
(***************************************************************************)
(* The validation of a scenario's graph (agentic/scenario_dsl.py), as the  *)
(* scenario editor asks for it with POST /validate and as save_scenario    *)
(* applies it to what it stores.                                           *)
(***************************************************************************)
EXTENDS Naturals, Sequences, FiniteSets

CONSTANTS
    Ids,           \* node ids a scenario may use
    NoId           \* fallback_node is None

ASSUME DslAssumption == NoId \notin Ids

\* Of a node, the id and whether its type is "start"; of an edge, its ends.
Node == [id : Ids, start : BOOLEAN]
Edge == [from_ : Ids, to : Ids]
Scenario == [nodes : Seq(Node), edges : Seq(Edge), entry : Ids, fallback_node : Ids \cup {NoId}]

-------------------------------------------------------------------------------

ids(s) == {s.nodes[i].id : i \in DOMAIN s.nodes}

\* One turn of the while loop: the edges in their order.
Pass(s, reachable) ==
    LET upTo[k \in 0..Len(s.edges)] ==
            IF k = 0 THEN reachable
            ELSE LET r == upTo[k - 1]
                 IN  IF s.edges[k].from_ \in r THEN r \cup {s.edges[k].to} ELSE r
    IN  upTo[Len(s.edges)]

\* Mutant: the edges are gone through once.
Reachable_OnePass(s) == Pass(s, {s.entry})
\* The loop ends with the first turn that adds nothing.  Every turn before it has
\* reached the end of another edge, so there are no more of them than edges.
Reachable(s) ==
    LET after[n \in 0..Len(s.edges) + 1] ==
            IF n = 0 THEN {s.entry} ELSE Pass(s, after[n - 1])
    IN  after[CHOOSE n \in 0..Len(s.edges) : after[n + 1] = after[n]]

_validate_graph(s) ==
    LET start_nodes == {i \in DOMAIN s.nodes : s.nodes[i].start} IN
    /\ Cardinality(ids(s)) = Len(s.nodes)
    /\ Cardinality(start_nodes) = 1 /\ \A i \in start_nodes : s.entry = s.nodes[i].id
    /\ s.fallback_node \in ids(s) \cup {NoId}
    /\ \A k \in DOMAIN s.edges : s.edges[k].from_ \in ids(s) /\ s.edges[k].to \in ids(s)
    /\ ids(s) \ Reachable(s) \subseteq {s.fallback_node}

-------------------------------------------------------------------------------
(* What is to be validated.                                                 *)

\* A set of nodes that no edge leaves.
Closed(s, S) == \A k \in DOMAIN s.edges : s.edges[k].from_ \in S => s.edges[k].to \in S

\* A path leads from the entry to id: one cannot keep id out of a set of nodes
\* that has the entry and that no edge leaves.
Leads(s, id) == \A S \in SUBSET ids(s) : s.entry \in S /\ Closed(s, S) => id \in S

\* What a graph that is played needs: an id names one node, there is one start
\* node and it is the entry, edges and fallback lead to nodes, and a path leads
\* from the start to every node but the fallback.
Playable(s) ==
    LET Named(id) == {i \in DOMAIN s.nodes : s.nodes[i].id = id}
        Names(id) == \E i \in DOMAIN s.nodes : Named(id) = {i}
    IN  /\ \A id \in ids(s) : Names(id)
        /\ Names(s.entry) /\ {i \in DOMAIN s.nodes : s.nodes[i].start} = Named(s.entry)
        /\ s.fallback_node # NoId => Names(s.fallback_node)
        /\ \A k \in DOMAIN s.edges : Names(s.edges[k].from_) /\ Names(s.edges[k].to)
        /\ \A id \in ids(s) \ {s.entry, s.fallback_node} : Leads(s, id)

===============================================================================
