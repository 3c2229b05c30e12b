----------------------------- MODULE SessionLease -----------------------------
(***************************************************************************)
(* Several connections of ONE session id, on any pods: the lease in Redis  *)
(* (core/redis_client.py), the restore/create, save_turn and end_session   *)
(* of SessionRepository one store access at a time, and the order in which *)
(* the WebSocket and the gRPC handlers call them.  What happens inside a   *)
(* turn is in CallSession; here the status is only LIVE or ENDED.  The     *)
(* REST endpoints create and end the session without the lease.            *)
(***************************************************************************)
EXTENDS Integers, Sequences

CONSTANTS
    Conns, NoConn,
    Transports,           \* "ws" (routers/vbgw.py), "grpc" (voicebot_service.py)
    REDIS_HISTORY_TURNS,  \* turns kept in the Redis copy
    MaxTurns,             \* bound: turns of the session
    MaxFaults             \* bound: process deaths and failing store accesses

ASSUME ConfigAssumption ==
    /\ NoConn \notin Conns
    /\ Transports \subseteq {"ws", "grpc"}
    /\ REDIS_HISTORY_TURNS \in Nat \ {0}
    /\ MaxTurns \in Nat /\ MaxFaults \in Nat

VARIABLES
    transport,  \* the transport of the session's connections
    pc,         \* per connection: the store access it is about to make
    read,       \* per connection: the Redis history it has read, or the index
                \* of the turn it is saving
    lease,      \* the connection whose SET NX created the key, or NoConn
    status,     \* Mongo: "NONE" (no document), "LIVE" or "ENDED"
    count,      \* Mongo: history_count
    history,    \* Mongo: the history collection, in the order of insertion
    hot,        \* Redis: the history list, or NoHot when the key is absent
    rest,       \* how far the DELETE request of sessions.py is
    faults,
    broken      \* history: "lease", one expired under its connection; "torn", only
                \* the first of the two writes of end_session was made; "rest",
                \* DELETE ended the session next to a connection

vars == <<transport, pc, read, lease, status, count, history, hot, rest, faults, broken>>

mode == <<transport, rest, faults, broken>>

NoHot == <<[conn |-> NoConn, index |-> MaxTurns]>>

NotRead == [hot |-> << >>, index |-> 0]
Turn(c) == [conn |-> c, index |-> read[c].index]

Init ==
    /\ pc = [c \in Conns |-> "idle"]
    /\ read = [c \in Conns |-> NotRead]
    /\ lease = NoConn
    /\ status = "NONE" /\ count = 0 /\ history = << >> /\ hot = NoHot
    /\ rest = "none" /\ faults = 0 /\ broken = {} /\ transport \in Transports

Goto(c, label) == pc' = [pc EXCEPT ![c] = label]
At(c, label) == pc[c] = label

\* The key expires.  It is never renewed, so a call longer than LEASE_TTL loses it.
LeaseExpires ==
    /\ lease # NoConn
    /\ pc[lease] \notin {"done", "failed"} => "lease" \notin broken   \* bound: once
    /\ broken' = IF pc[lease] \in {"done", "failed"} THEN broken ELSE broken \cup {"lease"}
    /\ lease' = NoConn
    /\ UNCHANGED <<transport, rest, faults, pc, read, status, count, history, hot>>

-------------------------------------------------------------------------------
(* Connecting: acquire_lease, restore_hot_state, create.                    *)

LeaseIsFree == lease = NoConn

acquire_lease(c) ==
    /\ At(c, "idle")
    /\ IF LeaseIsFree
       THEN lease' = c /\ Goto(c, "restore")
       ELSE Goto(c, "done") /\ UNCHANGED lease         \* 4002
    /\ broken' = IF LeaseIsFree /\ rest = "delete" THEN broken \cup {"rest"} ELSE broken
    /\ UNCHANGED <<transport, rest, faults, read, status, count, history, hot>>

RestoreHot(c) ==
    /\ At(c, "restore")
    /\ Goto(c, IF hot # NoHot THEN "serve" ELSE "restore_mongo")
    /\ UNCHANGED <<read, lease, status, count, history, hot, mode>>

\* A missing and an ENDED session both come back as None.
Restorable == status = "LIVE"

RestoreMongo(c) ==
    /\ At(c, "restore_mongo")
    /\ Goto(c, IF Restorable THEN "restore_history" ELSE "create")
    /\ UNCHANGED <<read, lease, status, count, history, hot, mode>>

LastTurns(s) == SubSeq(s, IF Len(s) > REDIS_HISTORY_TURNS
                          THEN Len(s) - REDIS_HISTORY_TURNS + 1 ELSE 1, Len(s))

\* The order in which a query sorted by turn_index returns the documents.
InOrder(s, p) ==
    \A i, j \in DOMAIN s : i < j => p[i] # p[j] /\ s[p[i]].index <= s[p[j]].index

ByTurnIndex(s) ==
    LET p == CHOOSE p \in [DOMAIN s -> DOMAIN s] : InOrder(s, p)
    IN  [i \in DOMAIN s |-> s[p[i]]]

\* The turns in Mongo by turn_index: the newest REDIS_HISTORY_TURNS of them.
RecentHistory == LastTurns(ByTurnIndex(history))

get_recent_history(c) ==
    /\ At(c, "restore_history") /\ Goto(c, "warm")
    /\ read' = [read EXCEPT ![c] = [@ EXCEPT !.hot = RecentHistory]]
    /\ UNCHANGED <<lease, status, count, history, hot, mode>>

Warm(c) ==
    /\ At(c, "warm") /\ Goto(c, "serve")
    /\ hot' = read[c].hot /\ read' = [read EXCEPT ![c] = NotRead]
    /\ UNCHANGED <<lease, status, count, history, mode>>

\* An exception leaves the WebSocket handler before its try block, lease and all;
\* gRPC goes to its finally block.
Raised == IF transport = "grpc" THEN "release_failed" ELSE "failed"

\* insert_one: the unique index refuses a second document.
\* Mutant: an upsert.
CanInsert_Upsert == TRUE
CanInsert == status = "NONE"

create(c) ==
    /\ At(c, "create")
    /\ IF CanInsert
       THEN status' = "LIVE" /\ Goto(c, "create_hot")
       ELSE Goto(c, Raised) /\ UNCHANGED status
    /\ UNCHANGED <<read, lease, count, history, hot, mode>>

CreateHot(c) ==
    /\ At(c, "create_hot") /\ Goto(c, "serve")
    /\ hot' = << >>
    /\ UNCHANGED <<read, lease, status, count, history, mode>>

-------------------------------------------------------------------------------
(* Serving: save_turn, one store access at a time.                          *)

\* find_one_and_update(BEFORE) on the session document: status, $inc and the
\* old count in one step, whatever the status was.
\* Mutant: the index is read, and the count written back, without $inc.
TurnIndex_Stale(c) == read[c].index
TurnIndex(c) == count

SaveSession(c) ==
    /\ At(c, "serve") /\ count < MaxTurns
    /\ Goto(c, "save_history")
    /\ read' = [read EXCEPT ![c] = [@ EXCEPT !.index = TurnIndex(c)]]
    /\ status' = "LIVE" /\ count' = count + 1
    /\ UNCHANGED <<lease, history, hot, mode>>

SaveHistory(c) ==
    /\ At(c, "save_history") /\ Goto(c, "save_get")
    /\ history' = Append(history, Turn(c))
    /\ UNCHANGED <<read, lease, status, count, hot, mode>>

SaveGet(c) ==
    /\ At(c, "save_get") /\ Goto(c, "save_set")
    /\ read' = [read EXCEPT ![c] = [@ EXCEPT !.hot = IF hot = NoHot THEN << >> ELSE hot]]
    /\ UNCHANGED <<lease, status, count, history, hot, mode>>

\* Mutant: the new turn is put in front of the list.
NewHot_Reversed(c) == LastTurns(<<Turn(c)>> \o read[c].hot)
NewHot(c) == LastTurns(Append(read[c].hot, Turn(c)))

SaveSet(c) ==
    /\ At(c, "save_set") /\ Goto(c, "serve")
    /\ hot' = NewHot(c) /\ read' = [read EXCEPT ![c] = NotRead]
    /\ UNCHANGED <<lease, status, count, history, mode>>

-------------------------------------------------------------------------------
(* Leaving.  The WebSocket handler ends the session and then releases the   *)
(* lease; the gRPC handler releases it first.                               *)

FirstOnLeaving == IF transport = "ws" THEN "end_mongo" ELSE "release"
AfterEnd == IF transport = "ws" THEN "release" ELSE "done"
AfterRelease == IF transport = "ws" THEN "done" ELSE "end_mongo"

Disconnect(c) ==
    /\ At(c, "serve") /\ Goto(c, FirstOnLeaving)
    /\ UNCHANGED <<read, lease, status, count, history, hot, mode>>

EndMongo(c) ==
    /\ At(c, "end_mongo") /\ Goto(c, "end_hot")
    /\ status' = "ENDED"
    /\ UNCHANGED <<read, lease, count, history, hot, mode>>

EndHot(c) ==
    /\ At(c, "end_hot") /\ Goto(c, AfterEnd)
    /\ hot' = NoHot
    /\ UNCHANGED <<read, lease, status, count, history, mode>>

\* DEL, whoever holds the key by now.
release_lease(c) ==
    /\ pc[c] \in {"release", "release_failed"}
    /\ Goto(c, IF At(c, "release") THEN AfterRelease ELSE "done")
    /\ lease' = NoConn
    /\ UNCHANGED <<read, status, count, history, hot, mode>>

\* Connections that still have store accesses of the session ahead of them.
Using == {c \in Conns : /\ pc[c] \notin {"idle", "done", "failed", "release_failed"}
                        /\ pc[c] = "release" => FirstOnLeaving = "release"}

-------------------------------------------------------------------------------
(* The REST endpoints of sessions.py.                                       *)

\* A client that was given the id connects afterwards.
create_session ==
    /\ status = "NONE" /\ \A c \in Conns : At(c, "idle")
    /\ status' = "LIVE" /\ hot' = << >>
    /\ UNCHANGED <<pc, read, lease, count, history, mode>>

\* DELETE: the two writes of end_session, whoever holds the lease.
end_session ==
    /\ rest = "none" /\ status # "NONE" /\ rest' = "delete"
    /\ status' = "ENDED"
    /\ broken' = IF Using # {} THEN broken \cup {"rest"} ELSE broken
    /\ UNCHANGED <<transport, faults, pc, read, lease, count, history, hot>>

delete_session_state ==
    /\ rest = "delete" /\ rest' = "done"
    /\ hot' = NoHot
    /\ UNCHANGED <<transport, faults, broken, pc, read, lease, status, count, history>>

-------------------------------------------------------------------------------
(* Faults.                                                                  *)

Fault == faults < MaxFaults /\ faults' = faults + 1
Torn(c) == broken' = IF At(c, "end_hot") THEN broken \cup {"torn"} ELSE broken

Crash(c) ==
    /\ pc[c] \notin {"idle", "done", "failed"} /\ Fault
    /\ Goto(c, "done") /\ Torn(c) /\ read' = [read EXCEPT ![c] = NotRead]
    /\ UNCHANGED <<transport, rest, lease, status, count, history, hot>>

\* Where a connection goes on when a store access fails: Redis errors are caught
\* in redis_client.py, those of MongoDB by _persist_turn and by end_session of the
\* orchestrator, or not at all.
AfterFailure ==
    [idle |-> "done", restore |-> "restore_mongo", restore_mongo |-> Raised,
     restore_history |-> Raised, warm |-> "serve", create |-> Raised, create_hot |-> "serve",
     save_history |-> "serve", save_get |-> "save_set", save_set |-> "serve",
     end_mongo |-> AfterEnd, end_hot |-> AfterEnd, release |-> AfterRelease,
     release_failed |-> "done"]

StoreFails(c) ==
    /\ pc[c] \in DOMAIN AfterFailure /\ Fault
    /\ Goto(c, AfterFailure[pc[c]]) /\ Torn(c)
    /\ read' = IF At(c, "save_get") THEN read ELSE [read EXCEPT ![c] = NotRead]
    /\ UNCHANGED <<transport, rest, lease, status, count, history, hot>>

HotExpires ==
    /\ hot # NoHot /\ hot' = NoHot
    /\ UNCHANGED <<pc, read, lease, status, count, history, mode>>

Step(c) ==
    \/ acquire_lease(c) \/ RestoreHot(c) \/ RestoreMongo(c)
    \/ get_recent_history(c) \/ Warm(c) \/ create(c) \/ CreateHot(c)
    \/ SaveSession(c) \/ SaveHistory(c) \/ SaveGet(c) \/ SaveSet(c)
    \/ Disconnect(c) \/ EndMongo(c) \/ EndHot(c) \/ release_lease(c)

Next ==
    \/ LeaseExpires \/ HotExpires \/ create_session \/ end_session \/ delete_session_state
    \/ \E c \in Conns : Step(c) \/ Crash(c) \/ StoreFails(c)

Spec == Init /\ [][Next]_vars

-------------------------------------------------------------------------------

\* The handler ends the session before it lets go of the lease (WebSocket), and
\* no call has lasted longer than LEASE_TTL.
Exclusive == transport = "ws" /\ "lease" \notin broken
Intact == Exclusive /\ broken = {}

\* No two turns are saved under the same turn_index, even by connections that
\* overlap: the index comes from the document update that increments the count.
TurnIndexUnique ==
    /\ \A i, j \in DOMAIN history : history[i].index = history[j].index => i = j
    /\ \A i \in DOMAIN history : history[i].index < count

\* The conversation in Redis, which the next LLM call and the next connection
\* use, has the turns in the order of their turn_index in Mongo, with restores,
\* expired keys and processes that die half-way through save_turn.
HotHistoryOrdered ==
    Exclusive /\ hot # NoHot =>
        \A i, j \in DOMAIN hot : i < j => hot[i].index < hot[j].index

Owner == IF Using = {} THEN NoConn ELSE CHOOSE c \in Using : TRUE

Log == INSTANCE SessionLog WITH
    owner <- Owner,
    log <- [i \in DOMAIN history |-> history[i].conn],
    closed <- IF status = "ENDED" THEN "closed" ELSE "open",
    void <- ~Intact

\* Lease and repository implement the single-writer log: a turn is appended only
\* by the connection that holds the session, and never after it was closed, as
\* long as the lease is exclusive, no end_session was torn and DELETE did not end
\* it next to a connection.
ImplementsSessionLog == Log!Spec

===============================================================================
