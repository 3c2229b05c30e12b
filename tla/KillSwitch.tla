------------------------------- MODULE KillSwitch ------------------------------
(***************************************************************************)
(* The kill switches of ONE tenant: KillSwitchService over MongoDB and a   *)
(* Redis cache with a TTL, the admin endpoints that activate and           *)
(* deactivate, the middleware in front of REST requests and the check of   *)
(* the WebSocket endpoint in front of new calls.                           *)
(***************************************************************************)
EXTENDS Naturals, FiniteSets

CONSTANTS
    Admins,        \* admin requests that may be in flight together
    Attempts,      \* call attempts that may be in flight together
    MaxSwitches,   \* bound: switches activated in a behaviour
    Errors         \* TRUE: Redis and MongoDB commands may fail

ASSUME SwitchAssumption == MaxSwitches \in Nat /\ Errors \in BOOLEAN

VARIABLES
    switches,   \* the documents: "none", "inserted" (activate not finished), "on", "off"
    cache,      \* the Redis key: "none", "1" or "0"
    admin,      \* what each admin request is doing and to which switch
    call,       \* what each call attempt is doing; what it read; the switches
                \* that were on when it began
    answered,   \* history: deactivations that were answered 200, with their admin
    leaked,     \* history: kinds of request served although a switch was on
    causes      \* history: "error", a command failed; "stale", "0" was cached
                \* although a switch was in the database

switchVars == <<switches, cache, admin, call, answered, leaked, causes>>

Ids == 1..MaxSwitches
On == {k \in Ids : switches[k] = "on"}
InDb == {k \in Ids : switches[k] \in {"inserted", "on"}}      \* active: True
Unused == {k \in Ids : switches[k] = "none"}
IdleAdmin == [pc |-> "idle", id |-> 0]
IdleCall == [pc |-> "idle", found |-> "none", on |-> {}]

SwitchInit ==
    /\ switches = [k \in Ids |-> "none"] /\ cache = "none"
    /\ admin = [a \in Admins |-> IdleAdmin]
    /\ call = [c \in Attempts |-> IdleCall]
    /\ answered = {} /\ leaked = {} /\ causes = {}

\* cache_kill_switch swallows a Redis error; setex gives the key its TTL.
cache_kill_switch(v) ==
    \/ /\ cache' = v
       /\ causes' = causes \cup (IF v = "0" /\ InDb # {} THEN {"stale"} ELSE {})
    \/ Errors /\ causes' = causes \cup {"error"} /\ UNCHANGED cache

\* Mutant: set without an expiry.
CacheExpires_Never == FALSE /\ UNCHANGED switchVars
CacheExpires ==
    /\ cache # "none" /\ cache' = "none"
    /\ UNCHANGED <<switches, admin, call, answered, leaked, causes>>

-------------------------------------------------------------------------------
(* The admin endpoints.                                                     *)

ActivateInsert(a) ==
    /\ admin[a] = IdleAdmin
    /\ \E k \in Unused :
          /\ switches' = [switches EXCEPT ![k] = "inserted"]
          /\ admin' = [admin EXCEPT ![a] = [pc |-> "cache_on", id |-> k]]
    /\ UNCHANGED <<cache, call, answered, leaked, causes>>

\* The standard library's logger.warning raises TypeError on the keyword
\* arguments it is given, so the endpoint answers 500 and emits no audit event.
\* Mutant: activate leaves the cache to is_active.
CacheActivation_None == UNCHANGED <<cache, causes>>
CacheActivation == cache_kill_switch("1")

ActivateCache(a) ==
    /\ admin[a].pc = "cache_on" /\ CacheActivation
    /\ switches' = [switches EXCEPT ![admin[a].id] =
                        IF switches[admin[a].id] = "inserted" THEN "on" ELSE @]
    /\ admin' = [admin EXCEPT ![a] = IdleAdmin]
    /\ UNCHANGED <<call, answered, leaked>>

Deactivatable == InDb

DeactivateUpdate(a) ==
    /\ admin[a] = IdleAdmin
    /\ \E k \in Deactivatable :               \* otherwise 404
          /\ switches' = [switches EXCEPT ![k] = "off"]
          /\ admin' = [admin EXCEPT ![a] = [pc |-> "cache_off", id |-> k]]
    /\ UNCHANGED <<cache, call, answered, leaked, causes>>

DeactivateCache(a) ==
    /\ admin[a].pc = "cache_off" /\ cache_kill_switch("0")
    /\ admin' = [admin EXCEPT ![a] = IdleAdmin]
    /\ answered' = answered \cup {<<a, admin[a].id>>}
    /\ UNCHANGED <<switches, call, leaked>>

-------------------------------------------------------------------------------
(* KillSwitchMiddleware: one GET; a miss or a Redis error passes.           *)

RestRequest ==
    /\ cache # "1" \/ Errors
    /\ leaked' = leaked \cup (IF On # {} THEN {"rest"} ELSE {})
    /\ UNCHANGED <<switches, cache, admin, call, answered, causes>>

-------------------------------------------------------------------------------
(* is_active, called by the WebSocket endpoint, which lets the call through *)
(* when the check fails.                                                    *)

Decide(c, active, on) ==
    /\ call' = [call EXCEPT ![c] = IdleCall]
    /\ leaked' = leaked \cup (IF ~active /\ (on \cap On) # {} THEN {"call"} ELSE {})

CheckCache(c) ==
    /\ call[c] = IdleCall
    /\ \/ cache # "none" /\ Decide(c, cache = "1", On) /\ UNCHANGED causes
       \/ /\ cache = "none" \/ Errors
          /\ call' = [call EXCEPT ![c] = [pc |-> "find", found |-> "none", on |-> On]]
          /\ UNCHANGED <<leaked, causes>>
    /\ UNCHANGED <<switches, cache, admin, answered>>

Found == IF InDb # {} THEN "1" ELSE "0"

FindInDb(c) ==
    /\ call[c].pc = "find"
    /\ \/ /\ call' = [call EXCEPT ![c].pc = "fill", ![c].found = Found]
          /\ UNCHANGED <<leaked, causes>>
       \/ Errors /\ Decide(c, FALSE, call[c].on) /\ causes' = causes \cup {"error"}
    /\ UNCHANGED <<switches, cache, admin, answered>>

FillCache(c) ==
    /\ call[c].pc = "fill" /\ cache_kill_switch(call[c].found)
    /\ Decide(c, call[c].found = "1", call[c].on)
    /\ UNCHANGED <<switches, admin, answered>>

AdminStep(a) == ActivateInsert(a) \/ DeactivateUpdate(a)
AdminEnd(a) == ActivateCache(a) \/ DeactivateCache(a)
CallEnd(c) == FindInDb(c) \/ FillCache(c)
SwitchNext ==
    \/ CacheExpires \/ RestRequest
    \/ \E a \in Admins : AdminStep(a) \/ AdminEnd(a)
    \/ \E c \in Attempts : CheckCache(c) \/ CallEnd(c)

SwitchSpec == SwitchInit /\ [][SwitchNext]_switchVars

\* Requests that were begun are finished, and Redis expires keys.
FairSwitchSpec ==
    /\ SwitchSpec /\ WF_switchVars(CacheExpires)
    /\ \A a \in Admins : WF_switchVars(AdminEnd(a))
    /\ \A c \in Attempts : WF_switchVars(CallEnd(c))

-------------------------------------------------------------------------------

\* Types of the documents, the key and the requests; an admin at work has a
\* switch, a call about to fill the cache has found something.
SwitchTypeOK ==
    /\ switches \in [Ids -> {"none", "inserted", "on", "off"}]
    /\ cache \in {"none", "0", "1"}
    /\ admin \in [Admins -> [pc : {"idle", "cache_on", "cache_off"}, id : 0..MaxSwitches]]
    /\ \A a \in Admins : admin[a].pc # "idle" => admin[a].id \in Ids
    /\ call \in [Attempts -> [pc : {"idle", "find", "fill"}, found : {"none", "0", "1"},
                           on : SUBSET Ids]]
    /\ \A c \in Attempts : call[c].pc = "fill" => call[c].found # "none"
    /\ answered \subseteq Admins \X Ids
    /\ leaked \subseteq {"rest", "call"} /\ causes \subseteq {"error", "stale"}

\* A switch is deactivated once: of several admins that deactivate it together
\* one is answered 200 (and leaves the one audit event), the others 404.
DeactivatedOnce ==
    \A p, q \in answered : p[2] = q[2] => p = q

\* A call that is let in while a switch is on, from its check to its acceptance,
\* is explained: a command failed, or "0" was cached over an active switch (by a
\* check that read MongoDB before the activation, or by the deactivation of
\* another switch of the target).  An expired cache alone lets no call in.
CallsRefused == "call" \in leaked => causes # {}

\* Once the admins leave a tenant alone, the cache stops contradicting the
\* documents, whatever in-flight checks wrote into it and whichever of its
\* writes failed.
CacheConverges ==
    /\ <>[](InDb # {}) => <>[](cache # "0")
    /\ <>[](InDb = {}) => <>[](cache # "1")

\* While a switch is on, REST requests of the tenant are refused.
RestRefused == "rest" \notin leaked

===============================================================================
