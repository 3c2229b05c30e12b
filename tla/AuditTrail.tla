------------------------------- MODULE AuditTrail ------------------------------
(***************************************************************************)
(* The changes that operators make through the admin API (tenants,         *)
(* connectors, configuration, silences, policies) and the audit events     *)
(* that follow them: AuditEmitter.emit writes a document to MongoDB and    *)
(* then publishes it to Redis, and neither failure fails the request.      *)
(* Every awaited command is a step; requests in flight interleave.         *)
(***************************************************************************)
EXTENDS Naturals, FiniteSets, Sequences

CONSTANTS
    Requests,      \* requests that may be in flight together
    MaxWrites,     \* bound: changes made to the resources
    MaxFaults      \* bound: faults in a behaviour

ASSUME AuditAssumption == MaxWrites \in Nat /\ MaxFaults \in Nat

VARIABLES
    docs,      \* the document watched in each collection: the number of the write
               \* that made it, 0 when there is none
    writes,    \* writes made so far
    req,       \* each request: what it is, how far it is and what it holds
    misled,    \* history: changes whose stored event names a wrong "before"
    silent,    \* history: kinds of request answered with no event stored or published
    faults,    \* history: kinds of fault met
    budget     \* faults that may still happen

auditVars == <<docs, writes, req, misled, silent, faults, budget>>
resources == <<docs, writes, misled, silent>>

Kinds == {"tenant", "connector", "config", "silence", "policy"}
None == MaxWrites + 1
\* before: the snapshot; replaced, raced (history): what the write replaced, and
\* whether another came between the two; stored: the document is in audit_events;
\* browser, token, count, oldest: of the session requests (PortalSession).
Idle == [op |-> "none", kind |-> "none", pc |-> "idle", before |-> None, replaced |-> None,
         raced |-> FALSE, stored |-> FALSE, browser |-> "none", token |-> 0, count |-> 0,
         oldest |-> {}]

Fault(kind) == budget > 0 /\ budget' = budget - 1 /\ faults' = faults \cup {kind}
NoFault == UNCHANGED <<faults, budget>>
Step(r, pc) == req' = [req EXCEPT ![r] = [@ EXCEPT !.pc = pc]]
Finish(r) == req' = [req EXCEPT ![r] = Idle]

AuditInit ==
    /\ docs = [k \in Kinds |-> 0] /\ writes = 0 /\ req = [r \in Requests |-> Idle]
    /\ misled = {} /\ silent = {} /\ faults = {} /\ budget = MaxFaults

-------------------------------------------------------------------------------
(* The endpoints of admin.py, connectors.py and policies.py: the commands   *)
(* each awaits, in order.                                                   *)

Endpoint(op, kind, steps) == [op |-> op, kind |-> kind, steps |-> steps]
create_tenant    == Endpoint("create", "tenant", <<"write", "log">>)
update_tenant    == Endpoint("update", "tenant", <<"snapshot", "write", "log">>)
delete_tenant    == Endpoint("delete", "tenant", <<"snapshot", "write", "log">>)
create_silence   == Endpoint("create", "silence", <<"write", "log">>)
delete_silence   == Endpoint("delete", "silence", <<"write", "log">>)
update_config    == Endpoint("update", "config", <<"snapshot", "write", "log">>)
create_connector == Endpoint("create", "connector", <<"write", "log">>)
update_connector == Endpoint("update", "connector", <<"write", "log">>)
delete_connector == Endpoint("delete", "connector", <<"write", "log">>)
test_connector   == Endpoint("test", "connector", <<"log">>)
create_policy    == Endpoint("create", "policy", <<"write">>)
update_policy    == Endpoint("update", "policy", <<"write">>)
delete_policy    == Endpoint("delete", "policy", <<"write">>)

Endpoints == {create_tenant, update_tenant, delete_tenant, create_silence, delete_silence,
              update_config, create_connector, update_connector, delete_connector, test_connector,
              create_policy, update_policy, delete_policy}

Emits(r) == \E e \in Endpoints :
    e.op = req[r].op /\ e.kind = req[r].kind /\ e.steps[Len(e.steps)] = "log"

\* A created resource is new (a uuid, or the name of a new tenant); test_connector
\* answers 404 when there is none.
AdminRequest(r, e) ==
    /\ req[r].pc = "idle" /\ writes < MaxWrites
    /\ e.op = "create" => /\ docs[e.kind] = 0
                          /\ \A q \in Requests : req[q].op # "create" \/ req[q].kind # e.kind
    /\ e.op = "test" => docs[e.kind] # 0
    /\ req' = [req EXCEPT ![r] = [Idle EXCEPT !.op = e.op, !.kind = e.kind, !.pc = Head(e.steps)]]
    /\ UNCHANGED <<resources, faults, budget>>

\* Mutant: find_one without the filter.
SnapshotOf_Latest(kind) == writes
SnapshotOf(kind) == IF docs[kind] = 0 THEN None ELSE docs[kind]

\* A failed read leaves None.
Snapshot(r) ==
    /\ req[r].pc = "snapshot"
    /\ \/ /\ req' = [req EXCEPT ![r] = [@ EXCEPT !.pc = "write", !.before = SnapshotOf(req[r].kind)]]
          /\ NoFault
       \/ Step(r, "write") /\ Fault("mongo")
    /\ UNCHANGED resources

\* create inserts, update_config upserts; the others answer 404 on no match.
Matches(r) == req[r].op = "create" \/ req[r].kind = "config" \/ docs[req[r].kind] # 0

Write(r) ==
    /\ req[r].pc = "write" /\ writes < MaxWrites /\ Matches(r)
    /\ docs' = [docs EXCEPT ![req[r].kind] = IF req[r].op = "delete" THEN 0 ELSE writes + 1]
    /\ writes' = writes + 1
    /\ req' = [q \in Requests |->
                  IF q = r THEN IF Emits(r) THEN [req[q] EXCEPT !.pc = "log", !.replaced = docs[req[r].kind]]
                                            ELSE Idle
                  ELSE IF req[q].pc = "write" /\ req[q].kind = req[r].kind
                       THEN [req[q] EXCEPT !.raced = TRUE] ELSE req[q]]
    /\ NoFault /\ UNCHANGED <<misled, silent>>

\* 404, or an error of MongoDB or Alertmanager: nothing is written, nothing audited.
Rejected(r) ==
    /\ req[r].pc = "write" /\ Finish(r)
    /\ IF Matches(r) THEN Fault("mongo") ELSE NoFault
    /\ UNCHANGED resources

-------------------------------------------------------------------------------
(* AuditEmitter.emit.                                                       *)

Misleads(q) == q.replaced # None /\ q.before \notin {None, q.replaced} /\ ~q.raced

\* log() answers None when the insert fails.
EmitLog(r) ==
    /\ req[r].pc = "log"
    /\ \/ /\ req' = [req EXCEPT ![r] = [@ EXCEPT !.pc = "publish", !.stored = TRUE]] /\ NoFault
          /\ misled' = IF Misleads(req[r]) THEN misled \cup {req[r].op} ELSE misled
       \/ Step(r, "publish") /\ Fault("mongo") /\ UNCHANGED misled
    /\ UNCHANGED <<docs, writes, silent>>

\* Mutant: emit returns when the insert failed.
PublishedAnyway_Not(r) == req[r].stored
PublishedAnyway(r) == TRUE

\* The publication; what the endpoint does then is next.
EmitPublish(r, next) ==
    /\ req[r].pc = "publish" /\ req' = [req EXCEPT ![r] = next]
    /\ \/ /\ NoFault
          /\ silent' = IF req[r].stored \/ PublishedAnyway(r) THEN silent
                                                              ELSE silent \cup {req[r].op}
       \/ /\ Fault("redis")
          /\ silent' = IF req[r].stored THEN silent ELSE silent \cup {req[r].op}
    /\ UNCHANGED <<docs, writes, misled>>

AdminSteps(r) == Snapshot(r) \/ Write(r) \/ Rejected(r) \/ EmitLog(r)

-------------------------------------------------------------------------------

\* Whichever of MongoDB and Redis is alive, an answered request left its event
\* there: it is in audit_events or went to the operators' stream, unless both failed.
Heard == silent # {} => {"mongo", "redis"} \subseteq faults

\* The event of a change says what the change replaced, when it has a snapshot at
\* all and no other request wrote between snapshot and write.
BeforeIsReplaced == misled = {}

===============================================================================
