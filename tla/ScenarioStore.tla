----------------------------- MODULE ScenarioStore -----------------------------
(***************************************************************************)
(* ScenarioRepository and its router for ONE scenario_id of a tenant: the  *)
(* documents of the scenarios collection (no unique index is created) and  *)
(* the save, publish and delete requests of the admins, one MongoDB        *)
(* command per step.                                                       *)
(***************************************************************************)
EXTENDS Integers, FiniteSets

CONSTANTS
    Editors,      \* requests that may be in flight together
    MaxDocs      \* bound: documents inserted in a behaviour

ASSUME ConfigAssumption == MaxDocs \in Nat

VARIABLES
    docs,       \* documents: _id, version, published
    req,        \* what each admin's request is doing, and with which version
    inserted,   \* documents inserted so far (source of _id)
    released,   \* history: some publish has succeeded
    races       \* history: "save", "publish", two such requests overlapped;
                \* "delete", a delete and a publish of a version overlapped;
                \* "torn", a publish died between its two writes

vars == <<docs, req, inserted, released, races>>

Idle == [op |-> "idle", version |-> 0]
At(op, v) == [op |-> op, version |-> v]
Versions == 1..MaxDocs
Published == {d \in docs : d.published}
WithVersion(v) == {d \in docs : d.version = v}

Init ==
    /\ docs = {} /\ req = [a \in Editors |-> Idle]
    /\ inserted = 0 /\ released = FALSE /\ races = {}

GoTo(a, r) == req' = [req EXCEPT ![a] = r]
Doing(ops, v) == \E b \in Editors : req[b].op \in ops /\ req[b].version = v
Race(kind, overlap) == races' = races \cup (IF overlap THEN {kind} ELSE {})

-------------------------------------------------------------------------------
(* save: read the latest version, insert the next one as a draft.           *)

Taken == {0} \cup {d.version : d \in docs}
NextVersion == (CHOOSE latest \in Taken : \A v \in Taken : latest >= v) + 1

FindLatest(a) ==
    /\ req[a] = Idle /\ inserted < MaxDocs
    /\ GoTo(a, At("insert", NextVersion))
    /\ Race("save", \E b \in Editors : req[b].op = "insert")
    /\ UNCHANGED <<docs, inserted, released>>

Draft(v) == [id |-> inserted + 1, version |-> v, published |-> FALSE]

InsertOne(a) ==
    /\ req[a].op = "insert" /\ inserted < MaxDocs
    /\ docs' = docs \cup {Draft(req[a].version)}
    /\ inserted' = inserted + 1
    /\ GoTo(a, Idle) /\ UNCHANGED <<released, races>>

-------------------------------------------------------------------------------
(* publish: find the version, take down what is published, put it up.       *)

FindTarget(a) ==
    \E v \in Versions :
        /\ req[a] = Idle
        /\ WithVersion(v) # {}             \* otherwise 404
        /\ GoTo(a, At("takedown", v)) /\ Race("delete", Doing({"delete"}, v))
        /\ UNCHANGED <<docs, inserted, released>>

Down(d) == [d EXCEPT !.published = FALSE]
Up(d) == [d EXCEPT !.published = TRUE]

\* Mutant: nothing is taken down.
TakeDown_Nothing == docs' = docs
TakeDown == docs' = {Down(d) : d \in docs}

UpdateMany(a) ==
    /\ req[a].op = "takedown"
    /\ TakeDown
    /\ GoTo(a, At("putup", req[a].version))
    /\ Race("publish", \E b \in Editors : req[b].op = "putup")
    /\ UNCHANGED <<inserted, released>>

\* find_one_and_update takes one document of the version, or none (409).
FindOneAndUpdate(a) ==
    /\ req[a].op = "putup" /\ GoTo(a, Idle) /\ UNCHANGED <<inserted, races>>
    /\ \/ \E d \in WithVersion(req[a].version) :
             docs' = (docs \ {d}) \cup {Up(d)} /\ released' = TRUE
       \/ WithVersion(req[a].version) = {} /\ UNCHANGED <<docs, released>>

-------------------------------------------------------------------------------
(* delete_version: look whether it is published, then delete.               *)

\* Mutant: published versions may be deleted.
MayDelete_Any(d) == TRUE
MayDelete(d) == ~d.published               \* otherwise 409

FindForDelete(a) ==
    \E v \in Versions : \E d \in WithVersion(v) :
        /\ req[a] = Idle /\ MayDelete(d)
        /\ GoTo(a, At("delete", v)) /\ Race("delete", Doing({"takedown", "putup"}, v))
        /\ UNCHANGED <<docs, inserted, released>>

DeleteOne(a) ==
    /\ req[a].op = "delete" /\ GoTo(a, Idle)
    /\ \/ \E d \in WithVersion(req[a].version) : docs' = docs \ {d}
       \/ WithVersion(req[a].version) = {} /\ UNCHANGED docs
    /\ UNCHANGED <<inserted, released, races>>

\* The request dies (pod, MongoDB error) between two commands.
Dies(a) ==
    /\ req[a] # Idle /\ GoTo(a, Idle) /\ Race("torn", req[a].op = "putup")
    /\ UNCHANGED <<docs, inserted, released>>

Next ==
    \E a \in Editors :
        \/ FindLatest(a) \/ InsertOne(a)
        \/ FindTarget(a) \/ UpdateMany(a) \/ FindOneAndUpdate(a)
        \/ FindForDelete(a) \/ DeleteOne(a) \/ Dies(a)

Spec == Init /\ [][Next]_vars

-------------------------------------------------------------------------------

\* Types of the collection and of the requests: versions are at most the number
\* of documents ever inserted, since each is derived from the latest.
TypeOK ==
    /\ inserted \in 0..MaxDocs
    /\ docs \subseteq [id : 1..inserted, version : 1..inserted, published : BOOLEAN]
    /\ req \in [Editors -> [op : {"idle", "insert", "takedown", "putup", "delete"},
                           version : 0..inserted + 1]]
    /\ \A a \in Editors : req[a].op # "idle" => req[a].version # 0
    /\ released \in BOOLEAN /\ races \subseteq {"save", "publish", "delete", "torn"}

\* "published=True for 0 or 1 versions of a scenario_id": what get_published
\* loads is determined, unless two publishes both took down before either put up.
AtMostOnePublished == "publish" \notin races => Cardinality(Published) <= 1

\* "(tenant_id, scenario_id, version) is the unique key": a version names one
\* document, so publish and delete act on the document that was meant, unless
\* two saves read the same latest version.
VersionsUnique == "save" \notin races => \A d, e \in docs : d.version = e.version => d = e

\* Once a scenario was published the runtime always finds a published version,
\* outside a publish in flight: neither saves nor deletes take it away, nor do
\* overlapping publishes.
PublishedStays ==
    released /\ races \subseteq {"publish"} /\ (\A a \in Editors : req[a].op # "putup")
        => Published # {}

===============================================================================
