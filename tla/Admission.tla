------------------------------- MODULE Admission -------------------------------
(***************************************************************************)
(* The session counter of a tenant, which vbgw.py's endpoint increments    *)
(* once the session is up and decrements at the end of its finally block.  *)
(* The middleware that would compare it with MAX_SESSIONS_PER_TENANT is a  *)
(* BaseHTTPMiddleware: it is never called for a WebSocket, so no limit     *)
(* stands in the way of a connection here.                                 *)
(***************************************************************************)
EXTENDS Integers, FiniteSets

CONSTANTS
    Sessions,      \* WebSocket connections of the tenant
    MaxCount       \* bound on the counter, which failures let grow

ASSUME ConfigAssumption == IsFiniteSet(Sessions) /\ MaxCount \in Nat

VARIABLES
    pc,        \* where each connection is: "none" (or refused, or over), accepted by
               \* the endpoint, counted and served ("active")
    count,     \* admission:{tenant_id}; the ttl_guard key next to it is never read
    faults     \* history: "redis", a command failed or was repeated; "cut", a session
               \* was left by an exception or a cancellation that skipped the
               \* decrement, or with its process

vars == <<pc, count, faults>>

Goto(s, label) == pc' = [pc EXCEPT ![s] = label]
Ok == UNCHANGED faults
Fault(f) == faults' = faults \cup {f}

Init == pc = [s \in Sessions |-> "none"] /\ count = 0 /\ faults = {}

\* Past 4005 (origin), 4001 (token or tenant) and 4003 (kill switch, whose failing
\* check lets the call pass), the endpoint accepts the socket,
vbgw_websocket(s) ==
    /\ pc[s] = "none" /\ Goto(s, "accepted")
    /\ UNCHANGED <<count, faults>>

\* Mutant: a refused connection leaves through the finally block.
Refused_Decremented(s) ==
    /\ pc[s] = "accepted" /\ Goto(s, "none")
    /\ count' = (IF count = 0 THEN 0 ELSE count - 1) /\ UNCHANGED faults
\* and still closes it with 4002 (lease held) or 4004 (session ended), or fails
\* while it restores the session.
Refused(s) ==
    /\ pc[s] = "accepted" /\ Goto(s, "none")
    /\ UNCHANGED <<count, faults>>

\* INCR, then the guard key; the error of either is swallowed.  A command whose answer
\* is lost may have run, and twice if the client repeated it (retry_on_timeout).  A
\* cancellation here comes before the try block.
increment_session_count(s) ==
    /\ pc[s] = "accepted" /\ count + 2 <= MaxCount
    /\ \/ count' = count + 1 /\ Goto(s, "active") /\ Ok
       \/ count' \in count..count + 2 /\ Goto(s, "active") /\ Fault("redis")
       \/ count' = count + 1 /\ Goto(s, "none") /\ Fault("cut")

\* DECR, and SET to 0 below zero, in one script.
Down(c) == IF c = 0 THEN 0 ELSE c - 1

\* The finally block: end_session, the send queue, the last events and the lease
\* come first, and an exception of theirs skips the decrement.
decrement_session_count(s) ==
    /\ pc[s] = "active" /\ Goto(s, "none")
    /\ \/ count' = Down(count) /\ Ok
       \/ count' \in {count, Down(count), Down(Down(count))} /\ Fault("redis")
       \/ UNCHANGED count /\ Fault("cut")

\* The process dies with its session.
Crash(s) ==
    /\ pc[s] \in {"accepted", "active"} /\ Goto(s, "none")
    /\ UNCHANGED count /\ Fault("cut")

Next ==
    \E s \in Sessions :
        \/ vbgw_websocket(s) \/ Refused(s)
        \/ increment_session_count(s) \/ decrement_session_count(s) \/ Crash(s)

Spec == Init /\ [][Next]_vars

-------------------------------------------------------------------------------

Active == {s \in Sessions : pc[s] = "active"}

\* Types, and the counter never below zero although sessions whose INCR failed
\* are decremented like the others.
TypeOK ==
    /\ pc \in [Sessions -> {"none", "accepted", "active"}]
    /\ count \in 0..MaxCount
    /\ faults \subseteq {"redis", "cut"}

\* The counter never falls short of the sessions that are served, through
\* refusals, hang-ups, redials and sessions that were cut off, as long as Redis
\* answered every command: a session is counted before it is served and given
\* back once, by the connection that was counted.  It is exact if none was cut
\* off.
CountCoversSessions ==
    "redis" \notin faults => /\ count >= Cardinality(Active)
                             /\ "cut" \notin faults => count = Cardinality(Active)

===============================================================================
