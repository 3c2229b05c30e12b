------------------------------ MODULE Idempotency ------------------------------
(***************************************************************************)
(* Requests with ONE Idempotency-Key going through IdempotencyMiddleware   *)
(* (dispatch) on any pods, and the Redis record of core/idempotency.py,    *)
(* one Redis command per step.  The handler behind the middleware is       *)
(* abstract: it answers below 500, answers 5xx, raises, or is cancelled    *)
(* when the client goes away.                                              *)
(***************************************************************************)
EXTENDS Naturals, FiniteSets

CONSTANTS
    Requests,           \* requests carrying the key
    Bodies              \* request bodies, by their hash

VARIABLES
    body,     \* the body of each request
    pc,       \* where each request is
    rec,      \* the record: its status, body_hash and the request it answers
    reply,    \* what each client got: kind and request answered
    effects,  \* history: requests executed below 500 since the key was last absent
    faults    \* history: "redis", a command failed; "cancel", a client went away;
              \* "late", the record expired under a request that was using it;
              \* "foreign", the key held a record of another _RECORD_VERSION

keyVars == <<body, pc, rec, reply, effects, faults>>

Absent == [status |-> "absent"]
Foreign == [status |-> "foreign"]     \* what _deserialize turns into None
InProgress(r) == [status |-> "in_progress", body_hash |-> body[r]]
Done(r) == [status |-> "done", body_hash |-> body[r], of |-> r]
NoReply == [kind |-> "none"]

KeyInit ==
    /\ body \in [Requests -> Bodies]
    /\ pc = [r \in Requests |-> "set"]
    /\ \/ rec = Absent /\ faults = {}
       \/ rec = Foreign /\ faults = {"foreign"}
    /\ reply = [r \in Requests |-> NoReply]
    /\ effects = {}

Goto(r, label) == pc' = [pc EXCEPT ![r] = label]
Ok == UNCHANGED faults
RedisFails == faults' = faults \cup {"redis"}
Inside == {r \in Requests : pc[r] \in {"handler", "store", "release"}}
Answer(r, a) == reply' = [reply EXCEPT ![r] = a] /\ Goto(r, "end")

-------------------------------------------------------------------------------
(* acquire_slot: SET NX; if refused GET; if that finds nothing SET NX again, *)
(* and if it finds a record that cannot be read SET without NX.  A command   *)
(* that fails after Redis applied it leaves what its success leaves.         *)

\* Mutant: SET without NX.
SlotIsFree_Always == TRUE
SlotIsFree == rec = Absent

SetNx(r) ==
    /\ pc[r] = "set"
    /\ \/ SlotIsFree /\ rec' = InProgress(r) /\ Goto(r, "handler") /\ Ok
       \/ ~SlotIsFree /\ Goto(r, "get") /\ Ok /\ UNCHANGED rec
       \/ RedisFails /\ Goto(r, "handler") /\ UNCHANGED rec     \* fail-open
    /\ UNCHANGED <<body, reply, effects>>

SetNxAgain(r) ==
    /\ pc[r] = "retry"
    /\ \/ SlotIsFree /\ rec' = InProgress(r) /\ Goto(r, "handler") /\ Ok /\ UNCHANGED reply
       \/ ~SlotIsFree /\ Answer(r, [kind |-> "409"]) /\ Ok /\ UNCHANGED rec
       \/ RedisFails /\ Goto(r, "handler") /\ UNCHANGED <<rec, reply>>
    /\ UNCHANGED <<body, effects>>

\* Mutant: the body hashes are not compared.
SameBody_Unchecked(r) == TRUE
SameBody(r) == rec.body_hash = body[r]

\* dispatch answers from the record.
Compare(r) ==
    IF rec.status = "in_progress"
    THEN Answer(r, [kind |-> "409"])
    ELSE IF ~SameBody(r)
    THEN Answer(r, [kind |-> "422"])
    ELSE Answer(r, [kind |-> "replay", of |-> rec.of])

Get(r) ==
    /\ pc[r] = "get"
    /\ \/ rec = Absent /\ Goto(r, "retry") /\ Ok /\ UNCHANGED reply
       \/ rec = Foreign /\ Goto(r, "overwrite") /\ Ok /\ UNCHANGED reply
       \/ rec \notin {Absent, Foreign} /\ Compare(r) /\ Ok
       \/ RedisFails /\ Goto(r, "handler") /\ UNCHANGED reply
    /\ UNCHANGED <<body, rec, effects>>

Overwrite(r) ==
    /\ pc[r] = "overwrite" /\ Goto(r, "handler")
    /\ \/ rec' = InProgress(r) /\ Ok
       \/ RedisFails /\ UNCHANGED rec
    /\ UNCHANGED <<body, reply, effects>>

-------------------------------------------------------------------------------
(* call_next and what follows it.                                           *)

Executes(r) ==
    /\ pc[r] = "handler" /\ Goto(r, "store")
    /\ effects' = effects \cup {r}
    /\ UNCHANGED <<body, rec, reply, faults>>

\* A status of 500 and above, or an exception.
\* Mutant: the exception path keeps the slot.
AfterFailure_Kept == "end"
AfterFailure == "release"

Fails(r) ==
    /\ pc[r] = "handler" /\ Goto(r, AfterFailure)
    /\ UNCHANGED <<body, rec, reply, effects, faults>>

\* CancelledError is no Exception: neither store_response nor release_slot runs.
Cancelled(r) ==
    /\ pc[r] # "end" /\ Goto(r, "end")
    /\ faults' = faults \cup {"cancel"}
    /\ UNCHANGED <<body, rec, reply, effects>>

store_response(r) ==
    /\ pc[r] = "store"
    /\ Answer(r, [kind |-> "original", of |-> r])
    /\ \/ rec' = Done(r) /\ Ok
       \/ RedisFails /\ UNCHANGED rec
    /\ UNCHANGED <<body, effects>>

release_slot(r) ==
    /\ pc[r] = "release"
    /\ Answer(r, [kind |-> "5xx"])
    /\ \/ rec' = Absent /\ effects' = {} /\ Ok
       \/ RedisFails /\ UNCHANGED <<rec, effects>>
    /\ UNCHANGED body

\* The TTL of the record runs out, which a handler may outlive.
RecordExpires ==
    /\ rec # Absent
    /\ rec' = Absent /\ effects' = {}
    /\ faults' = IF Inside = {} THEN faults ELSE faults \cup {"late"}
    /\ UNCHANGED <<body, pc, reply>>

Step(r) == \/ SetNx(r) \/ Get(r) \/ SetNxAgain(r) \/ Overwrite(r)
           \/ Executes(r) \/ Fails(r) \/ Cancelled(r) \/ store_response(r) \/ release_slot(r)
KeyNext == RecordExpires \/ \E r \in Requests : Step(r)

KeySpec == KeyInit /\ [][KeyNext]_keyVars

-------------------------------------------------------------------------------

\* Types of the middleware's state.
KeyTypeOK ==
    /\ body \in [Requests -> Bodies]
    /\ pc \in [Requests -> {"set", "get", "retry", "overwrite", "handler", "store", "release", "end"}]
    /\ rec \in {Absent, Foreign} \cup [status : {"in_progress"}, body_hash : Bodies]
                        \cup [status : {"done"}, body_hash : Bodies, of : Requests]
    /\ reply \in [Requests -> [kind : {"none", "409", "422", "5xx"}]
                                \cup [kind : {"replay", "original"}, of : Requests]]
    /\ effects \subseteq Requests
    /\ faults \subseteq {"redis", "cancel", "late", "foreign"}

\* While Redis answers, the TTL outlives the handlers and every pod writes the
\* same record version, requests with the same key are executed one at a time,
\* and at most one of them takes effect before the record is gone, however their
\* SET, GET and second SET interleave and whichever clients go away.
ExecutedOnce ==
    faults \subseteq {"cancel"} => Cardinality(Inside) <= 1 /\ Cardinality(effects) <= 1

\* A replayed answer is the answer to a request that was executed with the very
\* same body, and the client that sent another body gets a 422 instead: with any
\* failure of Redis (fail-open), late expiry, cancellation or foreign record.
ReplayMatchesBody ==
    \A r \in Requests :
        reply[r].kind = "replay" => /\ body[reply[r].of] = body[r]
                                    /\ reply[reply[r].of].kind = "original"

\* A slot is "in progress" only while a request is in progress: a failed request
\* gives it back, so a client's retry is not answered 409, also when the record
\* expires under it.  Only a failing Redis or a cancelled request orphans it.
NoOrphanedSlot ==
    rec.status = "in_progress" /\ faults \subseteq {"late", "foreign"} => Inside # {}

===============================================================================
