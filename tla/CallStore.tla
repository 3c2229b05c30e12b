------------------------------- MODULE CallStore -------------------------------
(***************************************************************************)
(* session.Store of the orchestrator nodes.  A node keeps its calls in     *)
(* RedisStore, with the capacity counter vbgw:active_calls and the session *)
(* keys that all such nodes share, or, when Redis did not answer as its    *)
(* process started, in a MemoryStore with a counter of its own.  Calls     *)
(* come from onChannelCreate and CreateCall; hang-up events, the           *)
(* reconciliation after an ESL reconnect, a failed originate and the       *)
(* shutdown drain release them, possibly together.  One Redis round trip   *)
(* per step; the Redis server (external) keeps what it was told.           *)
(***************************************************************************)
EXTENDS Integers, FiniteSets

CONSTANTS
    Calls,
    Nodes,
    Redis,         \* the shared store
    maxCalls,      \* MaxSessions
    MaxRepeats     \* bound: decrements repeated after a lost answer

ASSUME ConfigAssumption ==
    /\ IsFiniteSet(Calls)
    /\ Redis \notin Nodes
    /\ maxCalls \in Nat /\ MaxRepeats \in Nat

Stores == Nodes \cup {Redis}    \* a node stands for its MemoryStore

VARIABLES
    state,          \* progress of each call through its store
    owner,          \* the node that handles it
    store,          \* the store of each node
    active_calls,   \* vbgw:active_calls, and activeCount of every MemoryStore
    keys,           \* calls with vbgw:session / vbgw:fsuuid keys
    faults,         \* history: "redis", a round trip failed or the request's context
                    \* was cancelled; "crash", a node died
    repeats         \* history: decrements repeated although the first one was applied

vars == <<state, owner, store, active_calls, keys, faults, repeats>>

States == {"idle", "acquired", "saved", "live", "unlinked", "failed", "gone"}

Backends == {f \in [Nodes -> Stores] : \A n \in Nodes : f[n] \in {Redis, n}}

Init ==
    /\ state = [c \in Calls |-> "idle"]
    /\ owner \in [Calls -> Nodes]
    /\ store \in Backends
    /\ active_calls = [s \in Stores |-> 0]
    /\ keys = {} /\ faults = {} /\ repeats = 0

At(c) == store[owner[c]]
Goto(c, s) == state' = [state EXCEPT ![c] = s]
Add(s, k) == active_calls' = [active_calls EXCEPT ![s] = @ + k]
Ok == UNCHANGED faults
RedisFails == faults' = faults \cup {"redis"}

\* luaTryAcquire compares and increments in one script, MemoryStore with a
\* compare-and-swap.
UnderCapacity(s) == active_calls[s] < maxCalls

TryAcquire(c) ==
    /\ state[c] = "idle" /\ UNCHANGED <<owner, store, keys, repeats>>
    /\ \/ UnderCapacity(At(c)) /\ Add(At(c), 1) /\ Goto(c, "acquired") /\ Ok
       \/ ~UnderCapacity(At(c)) /\ Goto(c, "gone") /\ Ok /\ UNCHANGED active_calls
       \/ At(c) = Redis /\ RedisFails /\ Goto(c, "gone") /\ UNCHANGED active_calls
       \* The script ran and its answer was lost: the client runs it again or gives up.
       \/ /\ At(c) = Redis /\ RedisFails /\ UnderCapacity(Redis) /\ Add(Redis, 1)
          /\ UNCHANGED state \/ Goto(c, "gone")

KeysOf(c) == {c}

saveToRedis(c) ==
    /\ state[c] = "acquired" /\ At(c) = Redis /\ Goto(c, "saved")
    /\ keys' = keys \cup KeysOf(c)
    /\ UNCHANGED <<owner, store, active_calls, faults, repeats>>

\* The call is given up, although the save may have been applied.
SaveFails(c) ==
    /\ state[c] = "acquired" /\ At(c) = Redis /\ Goto(c, "failed") /\ RedisFails
    /\ keys' \in {keys, keys \cup KeysOf(c)}
    /\ UNCHANGED <<owner, store, active_calls, repeats>>

AddLocal(c) ==
    /\ state[c] = (IF At(c) = Redis THEN "saved" ELSE "acquired") /\ Goto(c, "live")
    /\ UNCHANGED <<owner, store, active_calls, keys, faults, repeats>>

\* Release: only the caller that takes the session out of the map goes on.
\* Mutant: Release goes on whether or not it found the session.
Loaded_Always(c) == state[c] \in {"live", "unlinked", "gone"}
Loaded(c) == state[c] = "live"

Unlink(c) ==
    /\ Loaded(c) /\ Goto(c, "unlinked")
    /\ UNCHANGED <<owner, store, active_calls, keys, faults, repeats>>

\* DECR on behalf of c is applied and answered; is not applied; is applied, and
\* with its answer lost the client gives up, or sends the commands once more.
DecrDone(c) == Goto(c, "gone") /\ Add(Redis, -1) /\ Ok /\ UNCHANGED repeats
DecrFails(c) == Goto(c, "gone") /\ UNCHANGED <<active_calls, repeats>> /\ RedisFails
DecrUnheard(c) ==
    /\ RedisFails /\ Add(Redis, -1)
    /\ \/ Goto(c, "gone") /\ UNCHANGED repeats
       \/ repeats < MaxRepeats /\ repeats' = repeats + 1 /\ UNCHANGED state

\* AddIfUnderCapacity gives back what it took before the save failed.
GiveBack(c) ==
    /\ state[c] = "failed" /\ UNCHANGED <<owner, store, keys>>
    /\ DecrDone(c) \/ DecrFails(c) \/ DecrUnheard(c)

\* The pipeline deletes the keys, then decrements.
ReleasePipeline(c) ==
    /\ state[c] = "unlinked" /\ At(c) = Redis /\ UNCHANGED <<owner, store>>
    /\ \/ keys' = keys \ KeysOf(c) /\ (DecrDone(c) \/ DecrUnheard(c))
       \/ keys' \in {keys, keys \ KeysOf(c)} /\ DecrFails(c)

ReleaseMemory(c) ==
    /\ state[c] = "unlinked" /\ At(c) # Redis /\ Goto(c, "gone") /\ Add(At(c), -1)
    /\ UNCHANGED <<owner, store, keys, faults, repeats>>

\* A node dies and starts again, with the store that it then finds.
Crash(n) ==
    /\ faults' = faults \cup {"crash"}
    /\ state' = [c \in Calls |-> IF owner[c] = n /\ state[c] # "idle" THEN "gone" ELSE state[c]]
    /\ \E s \in {Redis, n} : store' = [store EXCEPT ![n] = s]
    /\ active_calls' = [active_calls EXCEPT ![n] = 0]
    /\ UNCHANGED <<owner, keys, repeats>>

\* The caller rings again; the new session has keys of its own.
Redial(c) ==
    /\ state[c] = "gone" /\ c \notin keys /\ Goto(c, "idle")
    /\ \E n \in Nodes : owner' = [owner EXCEPT ![c] = n]
    /\ UNCHANGED <<store, active_calls, keys, faults, repeats>>

Next ==
    \/ \E n \in Nodes : Crash(n)
    \/ \E c \in Calls :
          \/ TryAcquire(c) \/ saveToRedis(c) \/ SaveFails(c) \/ GiveBack(c) \/ AddLocal(c)
          \/ Unlink(c) \/ ReleasePipeline(c) \/ ReleaseMemory(c) \/ Redial(c)

Spec == Init /\ [][Next]_vars

-------------------------------------------------------------------------------

\* Calls that hold a unit of a store's counter, and calls in its maps.
Holding == {"acquired", "saved", "live", "unlinked", "failed"}
Held(s) == {c \in Calls : state[c] \in Holding /\ At(c) = s}
Live(s) == {c \in Calls : state[c] = "live" /\ At(c) = s}

\* Decrements of a store's counter that stand for no call.
Undercount(s) == IF s = Redis THEN repeats ELSE 0

\* Types of the store.
TypeOK ==
    /\ state \in [Calls -> States]
    /\ owner \in [Calls -> Nodes]
    /\ store \in Backends
    /\ active_calls \in [Stores -> Int]
    /\ keys \in SUBSET Calls
    /\ faults \in SUBSET {"redis", "crash"}
    /\ repeats \in 0..MaxRepeats

\* Every call in progress is paid for in the counter: failed round trips and
\* crashes may waste capacity, no call is given back twice, and capacity is
\* created only by a decrement that the Redis client repeats after its answer
\* was lost, one unit each.
CounterCoversCalls ==
    \A s \in Stores : Cardinality(Held(s)) <= active_calls[s] + Undercount(s)

\* A store never serves more calls than MaxSessions, on all its nodes together,
\* beyond those repeated decrements.
CapacityHolds == \A s \in Stores : Cardinality(Live(s)) <= maxCalls + Undercount(s)

\* A MemoryStore's counter is exact, and that in Redis is while nothing fails:
\* it returns to zero with the last call.
CounterExact ==
    \A s \in Stores : s # Redis \/ faults = {} => active_calls[s] = Cardinality(Held(s))

\* Both: capacity is lost only to failures, and created by repeats alone.
CounterHonest == CounterCoversCalls /\ CounterExact

\* A call that a node serves from Redis can be found by the others, which route
\* commands through its keys, until the node has let go of it.
RoutableWhileLive == Live(Redis) \subseteq keys

===============================================================================
