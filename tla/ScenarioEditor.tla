----------------------------- MODULE ScenarioEditor ----------------------------
(***************************************************************************)
(* The scenario store with the scenario editor in front of it: in a        *)
(* behaviour the admins' requests work on the store, or one draft is       *)
(* validated, which touches no store.                                      *)
(***************************************************************************)
EXTENDS ScenarioStore, ScenarioDsl

CONSTANT Drafts     \* the scenarios that POST /validate is asked about

ASSUME DraftsAssumption == Drafts \subseteq Scenario

VARIABLE answer     \* the draft that POST /validate was asked about, and the answer

EditorInit == Init /\ answer = << >>

validate_scenario ==
    /\ Init /\ answer = << >>
    /\ \E s \in Drafts : answer' = <<s, _validate_graph(s)>>
    /\ UNCHANGED vars

EditorNext ==
    \/ validate_scenario
    \/ answer = << >> /\ Next /\ UNCHANGED answer

EditorSpec == EditorInit /\ [][EditorNext]_<<vars, answer>>

-------------------------------------------------------------------------------

\* The validation of a scenario (_validate_graph, whose loop over the edges is to
\* follow paths of any length in whatever order the editor lists the edges) lets
\* through the scenarios that can be played, and no others.
DraftsJudged == answer # << >> => (answer[2] <=> Playable(answer[1]))

===============================================================================
