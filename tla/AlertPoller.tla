------------------------------ MODULE AlertPoller ------------------------------
(***************************************************************************)
(* AmPoller: the worker of every pod that competes for the Redis leader    *)
(* lock, polls Alertmanager and publishes what changed since ITS previous  *)
(* poll.  The lock is a key with a TTL; the EX expiry, the renewal (GET,   *)
(* then EXPIRE) and the polls of the pods interleave freely.               *)
(***************************************************************************)
EXTENDS Naturals, Sequences, FiniteSets

CONSTANTS
    Pods,          \* replicas of the backend
    Alerts,        \* alert fingerprints
    MaxWire,       \* bound: messages on the way to the broadcaster
    MaxOutages     \* bound: faults in a behaviour

ASSUME PollerAssumption ==
    "none" \notin Pods /\ IsFiniteSet(Pods) /\ MaxWire \in Nat /\ MaxOutages \in Nat

VARIABLES
    firing,        \* the alerts Alertmanager holds
    lock,          \* agentoe:lock:am_poller: the pod it names, or "none"
    pod,           \* each pod's worker: where it is, _prev_fingerprints, what its
                   \* last fetch returned, what it has still to publish
    told,          \* history: the alerts that the events published so far leave firing
    redis_ready,   \* get_redis() returns a client
    wire,          \* messages Redis has sent to the broadcaster's connection
    listening,     \* that connection is subscribed
    outages,       \* history: the kinds of fault met
    outagesLeft    \* faults that may still happen

pollVars == <<firing, lock, pod, told, redis_ready, wire, listening, outages, outagesLeft>>

Event(e, a) == [event |-> e, alert |-> a]
Off == [pc |-> "off", prev |-> {}, got |-> {}, todo |-> {}]
PodAt(p, pc) == pod' = [pod EXCEPT ![p] = [@ EXCEPT !.pc = pc]]
Leading == {p \in Pods : pod[p].pc \in {"poll", "publish", "renew", "extend"}}

Outage(kind) == outagesLeft > 0 /\ outagesLeft' = outagesLeft - 1 /\ outages' = outages \cup {kind}
NoOutage == UNCHANGED <<outages, outagesLeft>>

PollInit ==
    /\ firing = {} /\ lock = "none" /\ told = {}
    /\ pod = [p \in Pods |-> Off]
    /\ redis_ready \in BOOLEAN /\ wire = <<>> /\ listening = FALSE
    /\ outages = {} /\ outagesLeft = MaxOutages

\* Alertmanager: an alert fires or is over.
AlertChanges ==
    \E a \in Alerts :
        /\ firing' = IF a \in firing THEN firing \ {a} ELSE firing \cup {a}
        /\ UNCHANGED <<lock, pod, told, redis_ready, wire, listening, outages, outagesLeft>>

-------------------------------------------------------------------------------
(* start, stop and the death of a process.  stop() cancels the task and     *)
(* leaves the lock to its TTL, as a crash does.                             *)

start(p) ==
    /\ pod[p].pc = "off"
    /\ pod' = [pod EXCEPT ![p] = [Off EXCEPT !.pc = "compete"]]
    /\ UNCHANGED <<firing, lock, told, redis_ready, wire, listening, outages, outagesLeft>>

stop(p) ==
    /\ pod[p].pc # "off" /\ Outage("restart")
    /\ pod' = [pod EXCEPT ![p] = Off]
    /\ UNCHANGED <<firing, lock, told, redis_ready, wire, listening>>

\* The TTL runs out: of a pod that no longer leads, or ("late") of a leader that
\* did not come to renew it in time.
Expires ==
    /\ lock # "none" /\ lock' = "none"
    /\ IF lock \in Leading THEN Outage("late") ELSE NoOutage
    /\ UNCHANGED <<firing, pod, told, redis_ready, wire, listening>>

-------------------------------------------------------------------------------
(* _run and _try_acquire_lock: SET NX EX; an error counts as not acquired,  *)
(* also when the SET was carried out; no Redis client counts as acquired.   *)

\* Mutant: SET without NX.
LockFree_Always == TRUE
LockFree == lock = "none"

_try_acquire_lock(p) ==
    /\ pod[p].pc = "compete"
    /\ IF redis_ready THEN LockFree /\ lock' = p ELSE UNCHANGED lock
    /\ \/ PodAt(p, "poll") /\ NoOutage
       \/ redis_ready /\ Outage("redis") /\ UNCHANGED pod
    /\ UNCHANGED <<firing, told, redis_ready, wire, listening>>

\* _leader_loop comes to its renewal: GET, then EXPIRE whatever the key names by
\* then (nothing, when it is gone).
RenewGet(p) ==
    /\ pod[p].pc = "renew"
    /\ \/ PodAt(p, IF redis_ready /\ lock # p THEN "compete" ELSE "extend") /\ NoOutage
       \/ redis_ready /\ PodAt(p, "compete") /\ Outage("redis")
    /\ UNCHANGED <<firing, lock, told, redis_ready, wire, listening>>

RenewExpire(p) ==
    /\ pod[p].pc = "extend"
    /\ \/ PodAt(p, "poll") /\ NoOutage
       \/ redis_ready /\ PodAt(p, "compete") /\ Outage("redis")
    /\ UNCHANGED <<firing, lock, told, redis_ready, wire, listening>>

-------------------------------------------------------------------------------
(* _poll_and_publish.                                                       *)

Resolved(p, current) == pod[p].prev \ current

Changes(p, current) ==
    {Event("alert.firing", a) : a \in current \ pod[p].prev}
        \cup {Event("alert.resolved", a) : a \in Resolved(p, current)}

\* [] when the request fails.
get_alerts == {firing, {}}

_poll_and_publish(p) ==
    /\ pod[p].pc = "poll"
    /\ \E current \in get_alerts :
          /\ IF current # firing THEN Outage("fetch") ELSE NoOutage
          /\ pod' = [pod EXCEPT ![p] = IF redis_ready
                        THEN [@ EXCEPT !.pc = "publish", !.got = current,
                                       !.todo = Changes(p, current)]
                        ELSE [@ EXCEPT !.pc = "renew"]]
    /\ UNCHANGED <<firing, lock, told, redis_ready, wire, listening>>

\* History: the alerts that are left firing by events which left S, and then e.
Leaves(S, e) == IF e.event = "alert.firing" THEN S \cup {e.alert} ELSE S \ {e.alert}

\* What is new is published before what is resolved.
NextEvents(p) ==
    {e \in pod[p].todo : e.event = "alert.resolved"
                            => \A f \in pod[p].todo : f.event = "alert.resolved"}

\* One PUBLISH: Redis hands it to the connections that are subscribed.  A failed
\* one is reported with two values for the logger's parameter event, a TypeError
\* that nothing catches: the task ends and only a restart brings it back.
_publish(p) ==
    \E e \in NextEvents(p) :
        /\ pod[p].pc = "publish" /\ Len(wire) < MaxWire
        /\ \/ /\ pod' = [pod EXCEPT ![p] = [@ EXCEPT !.todo = pod[p].todo \ {e}]]
              /\ told' = Leaves(told, e) /\ NoOutage
              /\ wire' = IF listening THEN Append(wire, e) ELSE wire
           \/ /\ pod' = [pod EXCEPT ![p] = [Off EXCEPT !.pc = "failed"]]
              /\ Outage("publish") /\ UNCHANGED <<told, wire>>
        /\ UNCHANGED <<firing, lock, redis_ready, listening>>

\* Mutant: an empty answer leaves _prev_fingerprints as it was.
Remember_NonEmpty(p) == IF pod[p].got = {} THEN pod[p].prev ELSE pod[p].got
Remember(p) == pod[p].got

\* The loop sleeps and polls again, or its renewal is due.
PollEnds(p) ==
    /\ pod[p].pc = "publish" /\ pod[p].todo = {}
    /\ \E pc \in {"poll", "renew"} :
          pod' = [pod EXCEPT ![p] = [pc |-> pc, prev |-> Remember(p), got |-> {}, todo |-> {}]]
    /\ NoOutage /\ UNCHANGED <<firing, lock, told, redis_ready, wire, listening>>

AmPoller(p) ==
    \/ start(p) \/ _try_acquire_lock(p) \/ RenewGet(p) \/ RenewExpire(p)
    \/ _poll_and_publish(p) \/ _publish(p) \/ PollEnds(p)

===============================================================================
