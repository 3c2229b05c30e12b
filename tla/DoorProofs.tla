------------------------------ MODULE DoorProofs ------------------------------
(***************************************************************************)
(* What stands between a caller and the backend, for any number of         *)
(* connections, requests, keys, addresses and tenants: the invariant of each *)
(* component and that its steps keep it.                                   *)
(*                                                                         *)
(*   - the count of a tenant's sessions (Admission);                       *)
(*   - signing keys and their rotation (JwksCache);                        *)
(*   - the windows of the rate limits (RateLimit);                         *)
(*   - the send queue of a WebSocket session (WsSender).                   *)
(***************************************************************************)
EXTENDS Admission, JwksCache, RateLimit, WsSender, FiniteSetTheorems, TLAPS

\* The provers a step is given to in turn unless it names one, with their time limits.
USE SMTT(30), ZenonT(30)

-------------------------------------------------------------------------------
(* The session counter.  Sessions that were cut off only raise the counter *)
(* above the number of sessions, so the property is inductive with types.  *)

IInv == TypeOK /\ CountCoversSessions

\* The number of served connections is a number and follows the set.
LEMMA ActiveCount ==
    /\ Cardinality(Active) \in Nat /\ Cardinality(Active') \in Nat
    /\ Active' = Active => Cardinality(Active') = Cardinality(Active)
    /\ \A s : s \notin Active /\ Active' = Active \cup {s}
                => Cardinality(Active') = Cardinality(Active) + 1
    /\ \A s : s \in Active /\ Active' = Active \ {s}
                => Cardinality(Active') = Cardinality(Active) - 1
<1>1. Active \in SUBSET Sessions /\ Active' \in SUBSET Sessions BY DEF Active
<1>2. IsFiniteSet(Active) /\ IsFiniteSet(Active') BY <1>1, ConfigAssumption, FS_Subset
<1>3. \A s : s \notin Active => Cardinality(Active \cup {s}) = Cardinality(Active) + 1
    BY <1>2, FS_AddElement, ZenonT(30)
<1>4. \A s : s \in Active => Cardinality(Active \ {s}) = Cardinality(Active) - 1
    BY <1>2, FS_RemoveElement, ZenonT(30)
<1>5. Cardinality(Active) \in Nat /\ Cardinality(Active') \in Nat
    BY <1>2, FS_CardinalityType
<1> QED BY <1>3, <1>4, <1>5, ZenonT(30)

\* The tenant starts without connections.
LEMMA InitInv == Init => IInv
<1> SUFFICES ASSUME Init PROVE IInv OBVIOUS
<1>1. TypeOK BY ConfigAssumption DEF Init, TypeOK
<1>2. Active = {} BY DEF Init, Active
<1>3. Cardinality(Active) = 0 BY <1>2, FS_EmptySet, ZenonT(30)
<1> QED BY <1>1, <1>3 DEF Init, IInv, CountCoversSessions

\* Every step of every connection preserves the invariant.
LEMMA StepInv == IInv /\ [Next]_vars => IInv'
<1> SUFFICES ASSUME IInv, [Next]_vars PROVE IInv' OBVIOUS
<1>0. TypeOK /\ CountCoversSessions /\ count \in Nat /\ MaxCount \in Nat
    BY ConfigAssumption DEF IInv, TypeOK
<1>1. ASSUME NEW s \in Sessions, vbgw_websocket(s) \/ Refused(s) PROVE IInv'
    <2>1. TypeOK' BY <1>0, <1>1, ZenonT(30) DEF TypeOK, vbgw_websocket, Refused, Goto
    <2>2. Active' = Active BY <1>0, <1>1 DEF TypeOK, vbgw_websocket, Refused, Goto, Active
    <2>3. UNCHANGED <<count, faults>> BY <1>1 DEF vbgw_websocket, Refused
    <2> QED BY <1>0, <2>1, <2>2, <2>3, ActiveCount, ZenonT(30) DEF IInv, CountCoversSessions
<1>2. ASSUME NEW s \in Sessions, increment_session_count(s) PROVE IInv'
    <2>1. TypeOK'
        <3>1. pc' \in [Sessions -> {"none", "accepted", "active"}]
            BY <1>0, <1>2 DEF TypeOK, increment_session_count, Goto
        <3>2. count' \in 0..MaxCount BY <1>0, <1>2 DEF increment_session_count
        <3>3. faults' \in SUBSET {"redis", "cut"}
            BY <1>0, <1>2, ZenonT(30) DEF TypeOK, increment_session_count, Ok, Fault
        <3> QED BY <3>1, <3>2, <3>3 DEF TypeOK
    <2>2. s \notin Active BY <1>2 DEF increment_session_count, Active
    <2>3. CASE count' = count + 1 /\ Goto(s, "active") /\ Ok
        <3>1. Active' = Active \cup {s} BY <1>0, <2>3 DEF TypeOK, Goto, Active
        <3>2. Cardinality(Active') = Cardinality(Active) + 1
            BY <2>2, <3>1, ActiveCount, ZenonT(30)
        <3>3. CountCoversSessions'
            BY <1>0, <2>3, <3>2, ActiveCount DEF Ok, CountCoversSessions
        <3> QED BY <2>1, <3>3 DEF IInv
    <2>4. CASE Fault("redis") BY <2>1, <2>4, ZenonT(30) DEF IInv, CountCoversSessions, Fault
    <2>5. CASE count' = count + 1 /\ Goto(s, "none") /\ Fault("cut")
        <3>1. Active' = Active BY <1>0, <2>2, <2>5 DEF TypeOK, Goto, Active
        <3>2. Cardinality(Active') = Cardinality(Active) BY <3>1, ActiveCount, ZenonT(30)
        <3>3. CountCoversSessions'
            BY <1>0, <2>5, <3>2, ActiveCount DEF Fault, CountCoversSessions
        <3> QED BY <2>1, <3>3 DEF IInv
    <2> QED BY <1>2, <2>3, <2>4, <2>5 DEF increment_session_count
<1>3. ASSUME NEW s \in Sessions, decrement_session_count(s) \/ Crash(s) PROVE IInv'
    <2>0. Down(count) \in 0..count /\ Down(Down(count)) \in 0..count BY <1>0 DEF Down
    <2>1. TypeOK'
        <3>1. pc' \in [Sessions -> {"none", "accepted", "active"}]
            BY <1>0, <1>3 DEF TypeOK, decrement_session_count, Crash, Goto
        <3>2. count' \in 0..count BY <1>0, <1>3, <2>0 DEF decrement_session_count, Crash
        <3>3. count' \in 0..MaxCount BY <1>0, <3>2 DEF TypeOK
        <3>4. faults' \in SUBSET {"redis", "cut"}
            BY <1>0, <1>3, ZenonT(30) DEF TypeOK, decrement_session_count, Crash, Ok, Fault
        <3> QED BY <3>1, <3>3, <3>4 DEF TypeOK
    <2>2. Active' = Active \ {s}
        BY <1>0, <1>3 DEF TypeOK, decrement_session_count, Crash, Goto, Active
    <2>3. CASE s \in Active /\ count' = Down(count) /\ Ok
        <3>1. Cardinality(Active') = Cardinality(Active) - 1
            BY <2>2, <2>3, ActiveCount, ZenonT(30)
        <3>2. CountCoversSessions'
            BY <1>0, <2>3, <3>1, ActiveCount DEF Ok, Down, CountCoversSessions
        <3> QED BY <2>1, <3>2 DEF IInv
    <2>4. CASE Fault("redis") BY <2>1, <2>4, ZenonT(30) DEF IInv, CountCoversSessions, Fault
    <2>5. CASE UNCHANGED count /\ Fault("cut")
        <3>1. CASE s \in Active
            <4>1. Cardinality(Active') = Cardinality(Active) - 1
                BY <2>2, <3>1, ActiveCount, ZenonT(30)
            <4>2. CountCoversSessions'
                BY <1>0, <2>5, <4>1, ActiveCount DEF Fault, CountCoversSessions
            <4> QED BY <2>1, <4>2 DEF IInv
        <3>2. CASE s \notin Active
            <4>1. Active' = Active BY <2>2, <3>2
            <4>2. CountCoversSessions'
                BY <1>0, <2>5, <4>1, ActiveCount DEF Fault, CountCoversSessions
            <4> QED BY <2>1, <4>2 DEF IInv
        <3> QED BY <3>1, <3>2
    <2> QED BY <1>3, <2>3, <2>4, <2>5 DEF decrement_session_count, Crash, Active
<1>4. CASE UNCHANGED vars
    <2>1. Active' = Active BY <1>4 DEF vars, Active
    <2> QED BY <1>0, <1>4, <2>1, ActiveCount, ZenonT(30)
            DEF IInv, TypeOK, CountCoversSessions, vars
<1> QED BY <1>1, <1>2, <1>3, <1>4 DEF Next

\* Type correctness: the counter of a tenant (admission_middleware.py) never
\* goes below zero, whatever Redis commands fail and whichever processes die.
THEOREM TypeCorrect == Spec => []TypeOK
<1>1. IInv => TypeOK BY DEF IInv
<1> QED BY InitInv, StepInv, <1>1, PTL DEF Spec

\* As long as Redis answers, the counter that increment_session_count and
\* decrement_session_count keep is at least the number of sessions being served,
\* and exactly that number if no session was cut off.
THEOREM SessionsAreCounted == Spec => []CountCoversSessions
<1>1. IInv => CountCoversSessions BY DEF IInv
<1> QED BY InitInv, StepInv, <1>1, PTL DEF Spec

-------------------------------------------------------------------------------
(* Signing keys.  RotationFollowed needs that what a request knows is true  *)
(* (a steady key is published), that it comes to its second lookup only     *)
(* through a forced fetch, and that a fresh entry is one that was fetched.  *)

Request == [at : {"none", "lookup", "wait", "fetch", "accepted", "refused"},
            kid : Kids \cup {NoKid}, force : BOOLEAN, missed : BOOLEAN,
            failed : BOOLEAN, steady : BOOLEAN]

\* What holds of a request while the provider's keys are pub.
Sound(q, pub) ==
    /\ q.steady => q.kid \in pub
    /\ q.at = "lookup" => ~q.missed
    /\ q.at \in {"wait", "fetch"} /\ q.missed => q.force
    /\ q.at = "refused" /\ q.steady => q.failed

CacheType ==
    /\ request \in [Requests -> Request] /\ published \in SUBSET Kids
    /\ entry \in [keys : SUBSET Kids, fresh : BOOLEAN, there : BOOLEAN]

CacheInv ==
    /\ CacheType
    /\ entry.fresh => entry.there
    /\ \A r \in Requests : Sound(request[r], published)

\* A lookup that Has answers accepts; the first miss in a fetched key set asks for
\* a forced fetch; the rest are refused.  Nothing else about the request changes.
LEMMA LookedFacts ==
    ASSUME NEW q \in Request, NEW e
    PROVE  /\ Looked(q, e) \in Request
           /\ Looked(q, e).kid = q.kid /\ Looked(q, e).steady = q.steady
           /\ Looked(q, e).failed = q.failed
           /\ \/ Looked(q, e).at = "accepted"
              \/ Looked(q, e).at = "wait" /\ Looked(q, e).force
              \/ Looked(q, e).at = "refused" /\ ~Has(e, q.kid) /\ ~FirstMiss(q, e)
<1>1. CASE Has(e, q.kid) BY <1>1 DEF Looked, Request
<1>2. CASE ~Has(e, q.kid) /\ FirstMiss(q, e) BY <1>2, Zenon DEF Looked, Request
<1>3. CASE ~Has(e, q.kid) /\ ~FirstMiss(q, e) BY <1>3 DEF Looked, Request
<1> QED BY <1>1, <1>2, <1>3

\* A request whose lookup is not its second one in a key set without its key.
LEMMA LookedSound ==
    ASSUME NEW q \in Request, NEW e, NEW pub \in SUBSET Kids, Sound(q, pub),
           q.steady /\ ~q.failed => (e.there /\ ~q.missed) \/ Has(e, q.kid)
    PROVE  Sound(Looked(q, e), pub)
<1>1. q.steady => q.kid # NoKid BY JwksAssumption DEF Sound
<1>2. q.steady /\ ~q.failed => FirstMiss(q, e) \/ Has(e, q.kid) BY <1>1 DEF FirstMiss
<1> QED BY <1>2, LookedFacts DEF Sound

\* A steady key is in the key set that was just fetched.
LEMMA FetchFinds ==
    ASSUME NEW q \in Request, NEW pub \in SUBSET Kids, Sound(q, pub), q.steady
    PROVE  Has(Entry(pub), q.kid)
<1> QED BY JwksAssumption DEF Sound, Has, Entry

\* A step that changes one request, and leaves the provider and the cached
\* key set alone or replaces the latter.
LEMMA RequestMoves ==
    ASSUME CacheInv, NEW r \in Requests, NEW q \in Request, Sound(q, published),
           request' = [request EXCEPT ![r] = q], published' = published,
           entry' = entry \/ entry' = Entry(published)
    PROVE  CacheInv'
<1>1. request' \in [Requests -> Request] BY DEF CacheInv, CacheType
<1>2. \A t \in Requests : Sound(request'[t], published') BY DEF CacheInv, CacheType
<1>3. /\ entry' \in [keys : SUBSET Kids, fresh : BOOLEAN, there : BOOLEAN]
      /\ entry'.fresh => entry'.there
    <2>1. CASE entry' = entry BY <2>1 DEF CacheInv, CacheType
    <2>2. CASE entry' = Entry(published) BY <2>2 DEF CacheInv, CacheType, Entry
    <2> QED BY <2>1, <2>2
<1> QED BY <1>1, <1>2, <1>3 DEF CacheInv, CacheType

\* Before the first request nothing is cached.
LEMMA CacheInit == JwksInit => CacheInv
<1> QED BY DEF JwksInit, CacheInv, CacheType, NotYet, NoEntry, Request, Sound

\* Every step of a request, of the provider and of time keeps the invariant.
LEMMA CacheStep == CacheInv /\ [JwksNext]_jwksVars => CacheInv'
<1> SUFFICES ASSUME CacheInv, [JwksNext]_jwksVars PROVE CacheInv' OBVIOUS
<1>0. /\ \A r \in Requests : request[r] \in Request /\ Sound(request[r], published)
      /\ published \in SUBSET Kids /\ (entry.fresh => entry.there)
    BY DEF CacheInv, CacheType
<1>1. ASSUME NEW r \in Requests, _decode_with_jwks(r) PROVE CacheInv'
    <2>1. PICK kid \in Kids \cup {NoKid} : request' = [request EXCEPT ![r] = Asked(kid)]
        BY <1>1, ZenonT(30) DEF _decode_with_jwks
    <2> DEFINE known == kid \in published
    <2>2. /\ known \in BOOLEAN /\ (known => kid \in published)
          /\ Asked(kid) = [at |-> "lookup", kid |-> kid, force |-> FALSE, missed |-> FALSE,
                           failed |-> FALSE, steady |-> known]
        BY DEF Asked
    <2> HIDE DEF known
    <2>3. Asked(kid) \in Request /\ Sound(Asked(kid), published)
        BY <2>2 DEF Request, Sound
    <2> QED BY <1>1, <2>1, <2>3, RequestMoves, ZenonT(30) DEF _decode_with_jwks
<1>2. ASSUME NEW r \in Requests, get_key(r) PROVE CacheInv'
    <2>1. CASE entry.there /\ (entry.fresh \/ backoff)
        <3>1. request[r].at = "lookup" /\ ~request[r].missed BY <1>0, <1>2, ZenonT(30) DEF get_key, Sound
        <3>2. /\ Looked(request[r], entry) \in Request
              /\ Sound(Looked(request[r], entry), published)
            BY <1>0, <2>1, <3>1, LookedFacts, LookedSound
        <3>3. request' = [request EXCEPT ![r] = Looked(request[r], entry)]
            BY <1>2, <2>1, Zenon DEF get_key
        <3> QED BY <1>2, <3>2, <3>3, RequestMoves, Zenon DEF get_key
    <2>2. CASE ~(entry.there /\ (entry.fresh \/ backoff))
        <3> DEFINE q == [request[r] EXCEPT !.at = "wait", !.force = ~entry.there]
        <3>1. q \in Request /\ Sound(q, published)
            BY <1>0, <1>2, ZenonT(30) DEF get_key, Sound, Request
        <3>2. request' = [request EXCEPT ![r] = q] BY <1>2, <2>2, Zenon DEF get_key
        <3> QED BY <1>2, <3>1, <3>2, RequestMoves, ZenonT(30) DEF get_key
    <2> QED BY <2>1, <2>2
<1>3. ASSUME NEW r \in Requests, Locked(r) PROVE CacheInv'
    <2>1. CASE SpareFetch(request[r])
        <3>1. entry.there /\ ~request[r].missed BY <1>0, <1>3, <2>1, ZenonT(30) DEF Locked, Sound, SpareFetch
        <3>2. /\ Looked(request[r], entry) \in Request
              /\ Sound(Looked(request[r], entry), published)
            BY <1>0, <3>1, LookedFacts, LookedSound
        <3>3. request' = [request EXCEPT ![r] = Looked(request[r], entry)]
            BY <1>3, <2>1 DEF Locked
        <3> QED BY <1>3, <3>2, <3>3, RequestMoves, Zenon DEF Locked
    <2>2. CASE ~SpareFetch(request[r])
        <3> DEFINE q == [request[r] EXCEPT !.at = "fetch"]
        <3>1. q \in Request /\ Sound(q, published) BY <1>0, <1>3 DEF Locked, Sound, Request
        <3>2. request' = [request EXCEPT ![r] = q] BY <1>3, <2>2 DEF Locked
        <3> QED BY <1>3, <3>1, <3>2, RequestMoves, ZenonT(30) DEF Locked
    <2> QED BY <2>1, <2>2
<1>4. ASSUME NEW r \in Requests, _refresh(r) PROVE CacheInv'
    <2>1. request[r].steady => Has(Entry(published), request[r].kid) BY <1>0, FetchFinds, ZenonT(30)
    <2>2. /\ Looked(request[r], Entry(published)) \in Request
          /\ Sound(Looked(request[r], Entry(published)), published)
        BY <1>0, <2>1, LookedFacts, LookedSound
    <2> QED BY <1>4, <2>2, RequestMoves, Zenon DEF _refresh
<1>5. ASSUME NEW r \in Requests, RefreshFails(r) PROVE CacheInv'
    <2> DEFINE q0 == Looked(request[r], entry)
    <2> DEFINE q == [q0 EXCEPT !.failed = TRUE]
    <2>0. request' = [request EXCEPT ![r] = q] BY <1>5, ZenonT(30) DEF RefreshFails
    <2>1. /\ q0 \in Request /\ (q0.steady => q0.kid \in published)
          /\ q0.at # "lookup" /\ (q0.at = "wait" => q0.force) /\ q0.at # "fetch"
        BY <1>0, LookedFacts DEF Sound
    <2> HIDE DEF q0
    <2>2. q \in Request BY <2>1, Zenon DEF Request
    <2>3. Sound(q, published) BY <2>1 DEF Sound, Request
    <2> HIDE DEF q
    <2> QED BY <1>5, <2>0, <2>2, <2>3, RequestMoves, Zenon DEF RefreshFails
<1>6. ASSUME NEW r \in Requests, Again(r) PROVE CacheInv'
    <2>1. NotYet \in Request /\ Sound(NotYet, published) BY DEF NotYet, Request, Sound
    <2> QED BY <1>6, <2>1, RequestMoves, ZenonT(30) DEF Again
<1>7. CASE TtlPasses
    <2>1. entry \in [keys : SUBSET Kids, fresh : BOOLEAN, there : BOOLEAN]
        BY DEF CacheInv, CacheType
    <2>2. entry' = [entry EXCEPT !.fresh = FALSE] BY <1>7 DEF TtlPasses
    <2>3. /\ entry' \in [keys : SUBSET Kids, fresh : BOOLEAN, there : BOOLEAN]
          /\ entry'.fresh = FALSE
        BY <2>1, <2>2, ZenonT(30)
    <2> QED BY <1>7, <2>3, Zenon DEF CacheInv, CacheType, TtlPasses
<1>8. CASE Rotate
    <2>1. ASSUME NEW r \in Requests
          PROVE  request'[r] \in Request /\ Sound(request'[r], published')
        <3> DEFINE q == [request[r] EXCEPT
                            !.steady = request[r].steady /\ request[r].kid \in published']
        <3>1. request'[r] = q BY <1>8 DEF Rotate
        <3>2. q \in Request /\ Sound(q, published') BY <1>0, ZenonT(30) DEF Request, Sound
        <3> QED BY <3>1, <3>2
    <2>2. DOMAIN request' = Requests /\ request' = [r \in DOMAIN request' |-> request'[r]]
        BY <1>8 DEF Rotate
    <2>3. request' \in [Requests -> Request] BY <2>1, <2>2
    <2>4. published' \in SUBSET Kids /\ entry' = entry BY <1>8 DEF Rotate
    <2> QED BY <2>1, <2>3, <2>4 DEF CacheInv, CacheType
<1>9. CASE BackoffEnds \/ UNCHANGED jwksVars
    BY <1>9 DEF CacheInv, CacheType, BackoffEnds, jwksVars
<1> QED BY <1>1, <1>2, <1>3, <1>4, <1>5, <1>6, <1>7, <1>8, <1>9 DEF JwksNext, JwksStep

-------------------------------------------------------------------------------
(* The windows of the rate limits: a counter and its expiry come and go    *)
(* together.                                                               *)

RateInv ==
    /\ bucket \in [Buckets -> Nat] /\ ttl \in [Buckets -> Nat]
    /\ \A b \in Buckets : bucket[b] # 0 => ttl[b] # 0

\* A step gives a counter that exists no more time than it has.
WindowKept == \A b \in Buckets : bucket[b] # 0 => ttl'[b] <= ttl[b]

\* No counters yet.
LEMMA RateStart == RateInit => RateInv
BY DEF RateInit, RateInv

\* The script creates the expiry with the counter and leaves it alone afterwards.
LEMMA CountKeeps ==
    ASSUME RateInv, NEW b \in Buckets, NEW hits \in {1, 2}, Count(b, hits)
    PROVE  RateInv' /\ WindowKept
<1>1. Over(b) \in Nat \ {0}
    <2>1. b[1] \in {"ip", "tenant"} BY ZenonT(30) DEF Buckets
    <2> QED BY <2>1, RateAssumption DEF Over, limits
<1>2. TtlAfter(b) \in Nat \ {0} /\ (bucket[b] # 0 => TtlAfter(b) = ttl[b])
    BY RateAssumption DEF RateInv, TtlAfter
<1>3. bucket' \in [Buckets -> Nat] /\ ttl' \in [Buckets -> Nat]
    BY <1>1, <1>2 DEF RateInv, Count
<1>4. \A d \in Buckets \ {b} : bucket'[d] = bucket[d] /\ ttl'[d] = ttl[d]
    BY DEF RateInv, Count
<1>5. ttl'[b] = TtlAfter(b) BY DEF RateInv, Count
<1> QED BY <1>2, <1>3, <1>4, <1>5 DEF RateInv, WindowKept

\* Every step keeps the invariant and no step prolongs a window.
LEMMA RateStep == RateInv /\ [RateNext]_rateVars => RateInv' /\ [WindowKept]_rateVars
<1> SUFFICES ASSUME RateInv, [RateNext]_rateVars PROVE RateInv' /\ WindowKept OBVIOUS
<1>1. CASE UNCHANGED <<bucket, ttl>> BY <1>1 DEF RateInv, WindowKept
<1>2. ASSUME NEW c \in Clients, Arrive(c) \/ NoTenantToCheck(c) PROVE RateInv' /\ WindowKept
    BY <1>1, <1>2, ZenonT(30) DEF Arrive, NoTenantToCheck
<1>3. ASSUME NEW c \in Clients, rate_limit_check(c) PROVE RateInv' /\ WindowKept
    BY <1>3, CountKeeps, ZenonT(30) DEF rate_limit_check
<1>4. ASSUME NEW c \in Clients, CheckFails(c) PROVE RateInv' /\ WindowKept
    BY <1>1, <1>4, CountKeeps, ZenonT(30) DEF CheckFails
<1>5. CASE Tick BY <1>5 DEF Tick, RateInv, WindowKept
<1>6. CASE UNCHANGED rateVars BY <1>1, <1>6, ZenonT(30) DEF rateVars
<1> QED BY <1>2, <1>3, <1>4, <1>5, <1>6 DEF RateNext

-------------------------------------------------------------------------------
(* The send queue.  SentAsAccepted needs that serial numbers in use are     *)
(* not above the last one given, that the loop holds an event only while    *)
(* it sends, and that nothing is enqueued once the loop has ended.          *)

Ev == [name : Names, id : Nat]

SendType ==
    /\ queue \in Seq(Ev) /\ sending \in Seq(Ev) /\ sent \in Seq(Ev)
    /\ accepted \in SUBSET Ev /\ evicted \in SUBSET accepted
    /\ enqueued \in Nat /\ cut \in Nat
    /\ task \in {"none", "waiting", "sending", "ended", "cancelled"}

SendInv ==
    /\ SendType
    /\ \A e \in accepted : e.id <= enqueued
    /\ task # "sending" => sending = <<>>
    /\ close_pc # "open" \/ task \in {"ended", "cancelled"} => closed
    /\ SentAsAccepted

\* The places of a sequence and what it holds.
LEMMA PlacesOf ==
    ASSUME NEW f \in Seq(Ev)
    PROVE  /\ Len(f) \in Nat /\ DOMAIN f = 1..Len(f)
           /\ \A i \in 1..Len(f) : f[i] \in Ev /\ f[i] \in Range(f)
           /\ \A x \in Range(f) : \E i \in 1..Len(f) : f[i] = x
<1>1. Len(f) \in Nat /\ DOMAIN f = 1..Len(f) /\ \A i \in 1..Len(f) : f[i] \in Ev
    OBVIOUS
<1> QED BY <1>1 DEF Range

\* Events behind others, as the queue is behind what was sent.
LEMMA Behind ==
    ASSUME NEW f \in Seq(Ev), NEW g \in Seq(Ev)
    PROVE  /\ f \o g \in Seq(Ev) /\ Len(f \o g) = Len(f) + Len(g)
           /\ \A i \in 1..Len(f) + Len(g) :
                  (f \o g)[i] = IF i <= Len(f) THEN f[i] ELSE g[i - Len(f)]
<1> QED OBVIOUS

\* Nothing behind the events that were sent.
LEMMA NothingBehind == ASSUME NEW f \in Seq(Ev) PROVE f \o <<>> = f
<1> QED OBVIOUS

\* Two sequences with the same events in them.
LEMMA SameEvents ==
    ASSUME NEW f \in Seq(Ev), NEW g \in Seq(Ev),
           Len(f) = Len(g), \A i \in 1..Len(f) : f[i] = g[i]
    PROVE  f = g
<1> QED OBVIOUS

\* What is sent, in the hands of the loop and queued, in that order.
LEMMA BehindEachOther ==
    ASSUME NEW f \in Seq(Ev), NEW g \in Seq(Ev), NEW h \in Seq(Ev)
    PROVE  (f \o g) \o h = f \o (g \o h)
<1>1. Len(f) \in Nat /\ Len(g) \in Nat /\ Len(h) \in Nat OBVIOUS
<1> DEFINE a == f \o g  b == g \o h  n == Len(f) + Len(g) + Len(h)
<1>2. /\ a \in Seq(Ev) /\ Len(a) = Len(f) + Len(g)
      /\ \A i \in 1..Len(f) + Len(g) : a[i] = IF i <= Len(f) THEN f[i] ELSE g[i - Len(f)]
    BY Behind
<1>3. /\ b \in Seq(Ev) /\ Len(b) = Len(g) + Len(h)
      /\ \A i \in 1..Len(g) + Len(h) : b[i] = IF i <= Len(g) THEN g[i] ELSE h[i - Len(g)]
    BY Behind
<1> HIDE DEF a, b
<1>4. /\ a \o h \in Seq(Ev) /\ Len(a \o h) = n
      /\ \A i \in 1..n : (a \o h)[i] = IF i <= Len(a) THEN a[i] ELSE h[i - Len(a)]
    <2>1. Len(a) + Len(h) = n BY <1>1, <1>2
    <2> HIDE DEF n
    <2> QED BY <1>2, <2>1, Behind, ZenonT(30)
<1>5. /\ f \o b \in Seq(Ev) /\ Len(f \o b) = n
      /\ \A i \in 1..n : (f \o b)[i] = IF i <= Len(f) THEN f[i] ELSE b[i - Len(f)]
    <2>1. Len(f) + Len(b) = n BY <1>1, <1>3
    <2> HIDE DEF n
    <2> QED BY <1>3, <2>1, Behind, ZenonT(30)
<1>6. ASSUME NEW i \in 1..n PROVE (a \o h)[i] = (f \o b)[i]
    <2>1. CASE i <= Len(f)
        <3>1. i <= Len(a) /\ i \in 1..Len(f) + Len(g) BY <1>1, <1>2, <2>1
        <3> QED BY <1>2, <1>4, <1>5, <2>1, <3>1, ZenonT(30)
    <2>2. CASE ~(i <= Len(f)) /\ i <= Len(f) + Len(g)
        <3>1. /\ i <= Len(a) /\ i \in 1..Len(f) + Len(g)
              /\ i - Len(f) \in 1..Len(g) + Len(h) /\ i - Len(f) <= Len(g)
            BY <1>1, <1>2, <2>2
        <3> QED BY <1>2, <1>3, <1>4, <1>5, <2>2, <3>1, ZenonT(30)
    <2>3. CASE ~(i <= Len(f) + Len(g))
        <3>1. /\ ~(i <= Len(a)) /\ ~(i <= Len(f)) /\ ~(i - Len(f) <= Len(g))
              /\ i - Len(f) \in 1..Len(g) + Len(h) /\ i - Len(a) = i - Len(f) - Len(g)
            BY <1>1, <1>2, <2>3
        <3> QED BY <1>3, <1>4, <1>5, <3>1, ZenonT(30)
    <2> QED BY <2>1, <2>2, <2>3, ZenonT(30)
<1> HIDE DEF n
<1>7. a \o h = f \o b BY <1>4, <1>5, <1>6, SameEvents, ZenonT(30)
<1> QED BY <1>7 DEF a, b

\* One event behind the others (append of the deque).
LEMMA OneBehind ==
    ASSUME NEW f \in Seq(Ev), NEW e \in Ev
    PROVE  /\ Append(f, e) \in Seq(Ev) /\ Len(Append(f, e)) = Len(f) + 1
           /\ \A i \in 1..Len(f) : Append(f, e)[i] = f[i]
           /\ Append(f, e)[Len(f) + 1] = e
           /\ <<e>> \in Seq(Ev) /\ Append(f, e) = f \o <<e>>
<1>1. /\ Append(f, e) \in Seq(Ev) /\ Len(Append(f, e)) = Len(f) + 1
      /\ \A i \in 1..Len(f) : Append(f, e)[i] = f[i]
      /\ Append(f, e)[Len(f) + 1] = e
    OBVIOUS
<1>2. <<e>> \in Seq(Ev) /\ Len(<<e>>) = 1 /\ <<e>>[1] = e /\ Len(f) \in Nat OBVIOUS
<1>3. f \o <<e>> \in Seq(Ev) /\ Len(f \o <<e>>) = Len(f) + 1 BY <1>2, Behind, Zenon
<1>4. ASSUME NEW i \in 1..Len(f) + 1 PROVE Append(f, e)[i] = (f \o <<e>>)[i]
    <2>1. CASE i <= Len(f) BY <1>1, <1>2, <2>1, Behind
    <2>2. CASE i = Len(f) + 1
        <3>1. ~(i <= Len(f)) /\ i - Len(f) = 1 BY <1>2, <2>2
        <3>2. (f \o <<e>>)[i] = <<e>>[i - Len(f)] BY <1>2, <3>1, Behind, Zenon
        <3> QED BY <1>1, <1>2, <2>2, <3>1, <3>2, Zenon
    <2> QED BY <1>2, <2>1, <2>2
<1>5. Append(f, e) = f \o <<e>> BY <1>1, <1>3, <1>4, SameEvents, Zenon
<1> QED BY <1>1, <1>2, <1>5

\* The events of two sequences.
LEMMA EventsOfBoth ==
    ASSUME NEW f \in Seq(Ev), NEW g \in Seq(Ev)
    PROVE  Range(f \o g) = Range(f) \cup Range(g)
<1> DEFINE h == f \o g
<1>1. Len(f) \in Nat /\ Len(g) \in Nat OBVIOUS
<1>2. /\ h \in Seq(Ev) /\ Len(h) = Len(f) + Len(g)
      /\ \A i \in 1..Len(f) + Len(g) : h[i] = IF i <= Len(f) THEN f[i] ELSE g[i - Len(f)]
    BY Behind, Zenon
<1> HIDE DEF h
<1>3. ASSUME NEW x \in Range(h) PROVE x \in Range(f) \cup Range(g)
    <2>1. PICK i \in 1..Len(h) : h[i] = x BY <1>2, <1>3, PlacesOf, Zenon
    <2>2. i \in 1..Len(f) \/ (~(i <= Len(f)) /\ i - Len(f) \in 1..Len(g)) BY <1>1, <1>2
    <2> QED BY <1>1, <1>2, <2>1, <2>2, PlacesOf
<1>4. ASSUME NEW x \in Range(f) PROVE x \in Range(h)
    <2>1. PICK i \in 1..Len(f) : f[i] = x BY <1>4, PlacesOf, Zenon
    <2>2. i \in 1..Len(h) /\ h[i] = x BY <1>1, <1>2, <2>1
    <2> QED BY <1>2, <2>2, PlacesOf, ZenonT(30)
<1>5. ASSUME NEW x \in Range(g) PROVE x \in Range(h)
    <2>1. PICK i \in 1..Len(g) : g[i] = x BY <1>5, PlacesOf
    <2>2. /\ Len(f) + i \in 1..Len(h) /\ ~(Len(f) + i <= Len(f))
          /\ Len(f) + i - Len(f) = i
        BY <1>1, <1>2
    <2>3. h[Len(f) + i] = x BY <1>2, <2>1, <2>2
    <2> QED BY <1>2, <2>2, <2>3, PlacesOf, ZenonT(30)
<1>6. Range(h) = Range(f) \cup Range(g) BY <1>3, <1>4, <1>5, ZenonT(30)
<1> QED BY <1>6 DEF h

\* An event enqueued after all others keeps the order.
LEMMA AppendInOrder ==
    ASSUME NEW f \in Seq(Ev), NEW e \in Ev, InOrder(f), \A x \in Range(f) : x.id < e.id
    PROVE  InOrder(Append(f, e)) /\ Range(Append(f, e)) = Range(f) \cup {e}
<1> DEFINE g == Append(f, e)
<1>1. /\ g \in Seq(Ev) /\ Len(g) = Len(f) + 1 /\ g[Len(f) + 1] = e
      /\ \A i \in 1..Len(f) : g[i] = f[i]
    BY OneBehind
<1>2. DOMAIN g = 1..Len(f) + 1 /\ DOMAIN f = 1..Len(f) /\ Len(f) \in Nat
    BY <1>1, PlacesOf
<1> HIDE DEF g
<1>3. ASSUME NEW i \in DOMAIN g, NEW j \in DOMAIN g, i < j PROVE g[i].id < g[j].id
    <2>1. i \in 1..Len(f) /\ g[i] = f[i] BY <1>1, <1>2, <1>3
    <2>2. CASE j \in 1..Len(f) BY <1>1, <1>2, <1>3, <2>1, <2>2, ZenonT(30) DEF InOrder
    <2>3. CASE j = Len(f) + 1
        <3>1. f[i] \in Range(f) BY <2>1, PlacesOf
        <3> QED BY <1>1, <2>1, <2>3, <3>1, ZenonT(30)
    <2> QED BY <1>2, <2>2, <2>3
<1>4. Range(g) = Range(f) \cup {e}
    <2>1. ASSUME NEW x \in Range(g) PROVE x \in Range(f) \cup {e}
        <3>1. PICK i \in 1..Len(g) : g[i] = x BY <1>1, <2>1, PlacesOf, ZenonT(30)
        <3>2. CASE i \in 1..Len(f) BY <1>1, <3>1, <3>2, PlacesOf, ZenonT(30)
        <3>3. CASE i = Len(f) + 1 BY <1>1, <3>1, <3>3, ZenonT(30)
        <3> QED BY <1>1, <1>2, <3>2, <3>3
    <2>2. ASSUME NEW x \in Range(f) PROVE x \in Range(g)
        <3>1. PICK i \in 1..Len(f) : f[i] = x BY <2>2, PlacesOf
        <3>2. g[i] = x /\ i \in 1..Len(g) BY <1>1, <1>2, <3>1
        <3> QED BY <1>1, <3>2, PlacesOf
    <2>3. e \in Range(g)
        <3>1. Len(f) + 1 \in 1..Len(g) BY <1>1, <1>2
        <3> QED BY <1>1, <3>1, PlacesOf
    <2> QED BY <2>1, <2>2, <2>3, ZenonT(30)
<1> QED BY <1>3, <1>4, Zenon DEF InOrder, g

\* Where Without leaves the events of a queue.
LEMMA WithoutPlaces ==
    ASSUME NEW q \in Seq(Ev), NEW v \in 1..Len(q)
    PROVE  /\ Without(q, v) \in Seq(Ev) /\ Len(Without(q, v)) = Len(q) - 1
           /\ \A i \in 1..Len(q) - 1 :
                 Without(q, v)[i] = IF i < v THEN q[i] ELSE q[i + 1]
<1> DEFINE a == SubSeq(q, 1, v - 1)
           b == SubSeq(q, v + 1, Len(q))
<1>1. Len(q) \in Nat /\ \A i \in 1..Len(q) : q[i] \in Ev BY PlacesOf
<1>2. /\ a \in Seq(Ev) /\ Len(a) = v - 1
      /\ \A i \in 1..v - 1 : a[i] = q[i]
    <2>1. 1 \in Int /\ v - 1 \in Int /\ \A i \in 1..v - 1 : q[i] \in Ev BY <1>1
    <2>2. /\ SubSeq(q, 1, v - 1) \in Seq(Ev)
          /\ Len(SubSeq(q, 1, v - 1)) = IF 1 <= v - 1 THEN v - 1 - 1 + 1 ELSE 0
          /\ \A i \in 1..v - 1 - 1 + 1 : SubSeq(q, 1, v - 1)[i] = q[1 + i - 1]
        BY <2>1
    <2> HIDE DEF a
    <2>3. a = SubSeq(q, 1, v - 1) BY DEF a
    <2> QED BY <1>1, <2>2, <2>3
<1>3. /\ b \in Seq(Ev) /\ Len(b) = Len(q) - v
      /\ \A i \in 1..Len(q) - v : b[i] = q[v + i]
    <2>1. v + 1 \in Int /\ Len(q) \in Int /\ \A i \in v + 1..Len(q) : q[i] \in Ev BY <1>1
    <2>2. /\ SubSeq(q, v + 1, Len(q)) \in Seq(Ev)
          /\ Len(SubSeq(q, v + 1, Len(q))) = IF v + 1 <= Len(q) THEN Len(q) - (v + 1) + 1 ELSE 0
          /\ \A i \in 1..Len(q) - (v + 1) + 1 : SubSeq(q, v + 1, Len(q))[i] = q[v + 1 + i - 1]
        BY <2>1
    <2> HIDE DEF b
    <2>3. b = SubSeq(q, v + 1, Len(q)) BY DEF b
    <2> QED BY <1>1, <2>2, <2>3
<1>4. Without(q, v) = a \o b BY DEF Without
<1> HIDE DEF a, b
<1>5. /\ a \o b \in Seq(Ev) /\ Len(a \o b) = Len(a) + Len(b)
      /\ \A i \in 1..Len(a) + Len(b) : (a \o b)[i] = IF i <= Len(a) THEN a[i] ELSE b[i - Len(a)]
    BY <1>2, <1>3, Behind, ZenonT(30)
<1>6. ASSUME NEW i \in 1..Len(q) - 1
      PROVE  (a \o b)[i] = IF i < v THEN q[i] ELSE q[i + 1]
    <2>1. CASE i < v
        <3>1. i \in 1..Len(a) + Len(b) /\ i <= Len(a) /\ i \in 1..v - 1 BY <1>1, <1>2, <1>3, <2>1
        <3> QED BY <1>2, <1>5, <2>1, <3>1, ZenonT(30)
    <2>2. CASE ~(i < v)
        <3>1. i - (v - 1) \in 1..Len(q) - v /\ v + (i - (v - 1)) = i + 1 BY <1>1, <2>2
        <3>2. i \in 1..Len(a) + Len(b) /\ ~(i <= Len(a)) BY <1>1, <1>2, <1>3, <2>2
        <3>3. (a \o b)[i] = b[i - Len(a)] BY <1>5, <3>2, ZenonT(30)
        <3>4. (a \o b)[i] = b[i - (v - 1)] BY <1>2, <3>3, ZenonT(30)
        <3> QED BY <1>3, <2>2, <3>1, <3>4, ZenonT(30)
    <2> QED BY <2>1, <2>2, ZenonT(30)
<1> QED BY <1>1, <1>2, <1>3, <1>4, <1>5, <1>6

\* Evicting an event keeps the order of the others, and drops only that one.
LEMMA EvictInOrder ==
    ASSUME NEW p \in Seq(Ev), NEW q \in Seq(Ev), NEW v \in 1..Len(q), InOrder(p \o q)
    PROVE  /\ InOrder(p \o Without(q, v))
           /\ Range(p \o Without(q, v)) = Range(p \o q) \ {q[v]}
<1> DEFINE f == p \o q
           g == p \o Without(q, v)
           k == Len(p) + v
<1>1. Len(p) \in Nat /\ Len(q) \in Nat BY PlacesOf
<1>2. /\ f \in Seq(Ev) /\ Len(f) = Len(p) + Len(q)
      /\ \A i \in 1..Len(p) + Len(q) : f[i] = IF i <= Len(p) THEN p[i] ELSE q[i - Len(p)]
    BY Behind
<1>3. /\ g \in Seq(Ev) /\ Len(g) = Len(p) + Len(q) - 1
      /\ \A i \in 1..Len(p) + Len(q) - 1 :
            g[i] = IF i <= Len(p) THEN p[i] ELSE Without(q, v)[i - Len(p)]
    <2>1. Without(q, v) \in Seq(Ev) /\ Len(Without(q, v)) = Len(q) - 1 BY WithoutPlaces
    <2>2. /\ g \in Seq(Ev) /\ Len(g) = Len(p) + Len(Without(q, v))
          /\ \A i \in 1..Len(p) + Len(Without(q, v)) :
                g[i] = IF i <= Len(p) THEN p[i] ELSE Without(q, v)[i - Len(p)]
        BY <2>1, Behind, ZenonT(30)
    <2> HIDE DEF g
    <2>3. Len(p) + Len(Without(q, v)) = Len(p) + Len(q) - 1 BY <1>1, <2>1
    <2> QED BY <2>2, <2>3, ZenonT(30)
<1>4. k \in 1..Len(f) /\ f[k] = q[v] BY <1>1, <1>2
<1> HIDE DEF f, g
<1>5. ASSUME NEW i \in 1..Len(g) PROVE g[i] = IF i < k THEN f[i] ELSE f[i + 1]
    <2>1. CASE i <= Len(p)
        <3>1. i < k /\ i \in 1..Len(p) + Len(q) /\ i \in 1..Len(p) + Len(q) - 1
            BY <1>1, <1>3, <2>1
        <3>2. g[i] = p[i] BY <1>3, <2>1, <3>1, ZenonT(30)
        <3>3. f[i] = p[i] BY <1>2, <2>1, <3>1, ZenonT(30)
        <3> QED BY <3>1, <3>2, <3>3, ZenonT(30)
    <2>2. CASE ~(i <= Len(p))
        <3>1. i - Len(p) \in 1..Len(q) - 1 /\ i \in 1..Len(p) + Len(q) - 1
            BY <1>1, <1>3, <2>2
        <3>2. g[i] = IF i - Len(p) < v THEN q[i - Len(p)] ELSE q[i - Len(p) + 1]
            BY <1>3, <2>2, <3>1, WithoutPlaces, ZenonT(30)
        <3>3. f[i] = q[i - Len(p)] BY <1>1, <1>2, <2>2, <3>1
        <3>4. f[i + 1] = q[i - Len(p) + 1]
            <4>1. i + 1 \in 1..Len(p) + Len(q) /\ ~(i + 1 <= Len(p)) BY <1>1, <2>2, <3>1
            <4>2. i + 1 - Len(p) = i - Len(p) + 1 BY <1>1
            <4>3. f[i + 1] = q[i + 1 - Len(p)] BY <1>2, <4>1
            <4> QED BY <4>2, <4>3
        <3>5. i < k <=> i - Len(p) < v BY <1>1
        <3> QED BY <3>2, <3>3, <3>4, <3>5, ZenonT(30)
    <2> QED BY <2>1, <2>2
<1> HIDE DEF k
<1>6. /\ Len(f) \in Nat /\ Len(g) = Len(f) - 1 /\ k \in 1..Len(f)
      /\ DOMAIN f = 1..Len(f) /\ DOMAIN g = 1..Len(g)
    BY <1>1, <1>2, <1>3, <1>4, PlacesOf
<1>7. \A i, j \in 1..Len(f) : i < j => f[i].id < f[j].id BY <1>6, ZenonT(30) DEF InOrder, f
<1>8. ASSUME NEW i \in 1..Len(g), NEW j \in 1..Len(g), i < j PROVE g[i].id < g[j].id
    <2> DEFINE a == IF i < k THEN i ELSE i + 1
               b == IF j < k THEN j ELSE j + 1
    <2>1. a \in 1..Len(f) /\ b \in 1..Len(f) /\ a < b BY <1>6, <1>8
    <2>2. g[i] = f[a] BY <1>5, ZenonT(30)
    <2>3. g[j] = f[b] BY <1>5
    <2> HIDE DEF a, b
    <2> QED BY <1>7, <2>1, <2>2, <2>3, ZenonT(30)
<1>9. ASSUME NEW x \in Range(g) PROVE x \in Range(f) \ {q[v]}
    <2>1. PICK i \in 1..Len(g) : g[i] = x BY <1>3, <1>9, PlacesOf, ZenonT(30)
    <2> DEFINE a == IF i < k THEN i ELSE i + 1
    <2>2. a \in 1..Len(f) /\ a # k /\ f[a] = x BY <1>5, <1>6, <2>1
    <2> HIDE DEF a
    <2>3. f[a] # f[k]
        <3>1. f[a] \in Ev /\ f[k] \in Ev BY <1>2, <1>6, <2>2, PlacesOf, ZenonT(30)
        <3>2. a < k \/ k < a BY <1>6, <2>2
        <3>4. f[a].id < f[k].id \/ f[k].id < f[a].id BY <1>6, <1>7, <2>2, <3>2
        <3>3. f[a].id \in Nat /\ f[k].id \in Nat BY <3>1, Zenon DEF Ev
        <3> QED BY <3>3, <3>4
    <2> QED BY <1>2, <1>4, <2>2, <2>3, PlacesOf, ZenonT(30)
<1>10. ASSUME NEW x \in Range(f), x # q[v] PROVE x \in Range(g)
    <2>1. PICK i \in 1..Len(f) : f[i] = x BY <1>2, <1>10, PlacesOf, ZenonT(30)
    <2>2. i # k BY <1>4, <1>10, <2>1, ZenonT(30)
    <2> DEFINE a == IF i < k THEN i ELSE i - 1
    <2>3. a \in 1..Len(g) /\ (IF a < k THEN a ELSE a + 1) = i BY <1>6, <2>2
    <2>4. g[a] = x BY <1>5, <2>1, <2>3
    <2> QED BY <1>3, <2>3, <2>4, PlacesOf, ZenonT(30)
<1> QED BY <1>6, <1>8, <1>9, <1>10, ZenonT(30) DEF InOrder, f, g

\* The event that is popped goes to where it was.
LEMMA PopKeepsFlow ==
    ASSUME NEW p \in Seq(Ev), NEW q \in Seq(Ev), q # <<>>
    PROVE  /\ (p \o <<Head(q)>>) \o Tail(q) = p \o q
           /\ <<Head(q)>> \in Seq(Ev) /\ Tail(q) \in Seq(Ev)
<1>1. /\ Head(q) \in Ev /\ Tail(q) \in Seq(Ev) /\ Len(Tail(q)) = Len(q) - 1
      /\ \A i \in 1..Len(Tail(q)) : Tail(q)[i] = q[i + 1]
    OBVIOUS
<1>2. <<Head(q)>> \in Seq(Ev) BY <1>1
<1>3. (p \o <<Head(q)>>) \o Tail(q) = p \o (<<Head(q)>> \o Tail(q))
    BY <1>1, <1>2, BehindEachOther, ZenonT(30)
<1>4. <<Head(q)>> \o Tail(q) = q BY <1>1
<1> QED BY <1>1, <1>2, <1>3, <1>4

\* The oldest audio event that is queued, when there is one.
LEMMA VictimIsQueued ==
    ASSUME SendType, Evictable # {}
    PROVE  Victim \in 1..Len(queue) /\ Victim \in Evictable
<1>1. Evictable \in SUBSET (1..Len(queue)) /\ Len(queue) \in Nat
    BY PlacesOf DEF SendType, Evictable
<1>2. Evictable \in SUBSET Nat BY <1>1
<1>3. \E x \in Evictable : \A y \in Evictable : ~(<<y, x>> \in OpToRel(<, Nat))
    BY <1>2, NatLessThanWellFounded, WFMin, ZenonT(30)
<1>a. PICK x \in Evictable : \A y \in Evictable : ~(y < x) BY <1>2, <1>3, ZenonT(30) DEF OpToRel
<1>4. \A y \in Evictable : x =< y BY <1>2, <1>a
<1>5. Victim \in Evictable BY <1>4 DEF Victim
<1> QED BY <1>1, <1>5, Zenon

\* The sender starts with nothing to send.
LEMMA SendInit == SenderInit => SendInv
<1> SUFFICES ASSUME SenderInit PROVE SendInv OBVIOUS
<1>1. SendType BY DEF SenderInit, SendType
<1>2. Flow = <<>> BY DEF SenderInit, Flow
<1>3. InOrder(Flow) /\ Range(Flow) = {} BY <1>2 DEF InOrder, Range
<1> QED BY <1>1, <1>3 DEF SenderInit, SendInv, SentAsAccepted

\* A turn of the loop, which pops an event or finds nothing to send, when the
\* client has got what was in its hands before.
LEMMA RoundKeepsFlow ==
    ASSUME SendInv, Round, task \in {"waiting", "sending"},
           NEW p \in Seq(Ev), sent' = p, p = sent \o sending,
           UNCHANGED <<accepted, evicted, enqueued, cut, closed, close_pc>>
    PROVE  SendInv'
<1>1. SendType BY DEF SendInv
<1>2. Flow = p \o queue BY ZenonT(30) DEF Flow
<1>a. InOrder(Flow) /\ Range(Flow) = accepted \ evicted BY DEF SendInv, SentAsAccepted
<1>b. /\ \A e \in accepted : e.id <= enqueued
      /\ close_pc # "open" => closed
    BY DEF SendInv
<1>3. CASE LoopEnds /\ task' = "ended" /\ sending' = <<>> /\ UNCHANGED queue
    <2>1. SendType' BY <1>1, <1>3 DEF SendType
    <2>2. SentAsAccepted' BY <1>3 DEF SentAsAccepted, LoopEnds
    <2> QED BY <1>b, <1>3, <2>1, <2>2, ZenonT(30) DEF SendInv, LoopEnds
<1>4. CASE queue # <<>> /\ Pop /\ task' = "sending"
    <2>1. sending' = <<Head(queue)>> /\ queue' = Tail(queue) BY <1>4 DEF Pop
    <2>2. queue \in Seq(Ev) BY <1>1 DEF SendType
    <2>3. /\ (p \o <<Head(queue)>>) \o Tail(queue) = p \o queue
          /\ <<Head(queue)>> \in Seq(Ev) /\ Tail(queue) \in Seq(Ev)
        BY <1>4, <2>2, PopKeepsFlow, ZenonT(30)
    <2>4. Flow' = Flow BY <1>2, <2>1, <2>3, ZenonT(30) DEF Flow
    <2>5. SendType' BY <1>1, <1>4, <2>1, <2>3, ZenonT(30) DEF SendType
    <2>6. InOrder(Flow)' /\ Range(Flow)' = accepted' \ evicted'
        BY <1>a, <2>4, ZenonT(30) DEF InOrder, Range
    <2>7. SentAsAccepted' BY <1>4, <2>6, ZenonT(30) DEF SentAsAccepted
    <2> QED BY <1>b, <1>4, <2>5, <2>7, ZenonT(30) DEF SendInv
<1>5. CASE queue = <<>> /\ task' = "waiting" /\ sending' = <<>> /\ UNCHANGED queue
    <2>1. SendType' BY <1>1, <1>5 DEF SendType
    <2>2. p \o <<>> = p BY NothingBehind
    <2>3. Flow' = Flow BY <1>2, <1>5, <2>2, ZenonT(30) DEF Flow
    <2>4. InOrder(Flow)' /\ Range(Flow)' = accepted' \ evicted'
        BY <1>a, <2>3 DEF InOrder, Range
    <2>5. SentAsAccepted' BY <1>5, <2>4, ZenonT(30) DEF SentAsAccepted
    <2> QED BY <1>b, <1>5, <2>1, <2>5, ZenonT(30) DEF SendInv
<1> QED BY <1>3, <1>4, <1>5, ZenonT(30) DEF Round

\* A step that moves neither an event nor the loop between running and not.
LEMMA FlowUntouched ==
    ASSUME SendInv, UNCHANGED <<queue, sending, sent, accepted, evicted, cut>>,
           enqueued' \in Nat, enqueued' >= enqueued,
           task' = task \/ (task = "none" /\ task' = "waiting"),
           close_pc' # "open" \/ closed => closed'
    PROVE  SendInv'
<1>1. Flow' = Flow BY Zenon DEF Flow
<1>2. SendType' BY Zenon DEF SendInv, SendType
<1>3. \A e \in accepted' : e.id <= enqueued'
    <2>1. \A e \in accepted : e.id \in Nat BY DEF SendInv, SendType, Ev
    <2> QED BY <2>1 DEF SendInv, SendType
<1>4. InOrder(Flow)' = InOrder(Flow) /\ Range(Flow)' = Range(Flow) BY <1>1, ZenonT(30) DEF InOrder, Range
<1>5. SentAsAccepted' BY <1>4 DEF SendInv, SentAsAccepted
<1>6. task' # "sending" => sending' = <<>> BY DEF SendInv
<1>7. close_pc' # "open" \/ task' \in {"ended", "cancelled"} => closed' BY ZenonT(30) DEF SendInv
<1> QED BY <1>2, <1>3, <1>5, <1>6, <1>7, ZenonT(30) DEF SendInv

\* An accepted event goes to the end of the queue, from which an older one may have
\* been evicted.
LEMMA AcceptKeepsOrder ==
    ASSUME SendInv, NEW name \in Names, ~closed, NEW q \in Seq(Ev), NEW gone \in SUBSET Ev,
           evicted' = evicted \cup gone, gone \in SUBSET accepted,
           InOrder((sent \o sending) \o q),
           Range((sent \o sending) \o q) = Range(Flow) \ gone,
           Append1(name, q), enqueued' = enqueued + 1,
           UNCHANGED <<closed, task, sending, close_pc, sent, cut>>
    PROVE  SendInv'
<1> DEFINE e == Event(name)
           p == sent \o sending
<1>1. SendType BY ZenonT(30) DEF SendInv
<1>2. e \in Ev /\ e.id = enqueued + 1 BY <1>1 DEF SendType, Event, Ev
<1>3. queue' = Append(q, e) /\ accepted' = accepted \cup {e} BY Zenon DEF Append1
<1>a. p \in Seq(Ev) BY <1>1, Behind, Zenon DEF SendType
<1> HIDE DEF e
<1>4. Flow' = Append(p \o q, e)
    <2>1. Append(q, e) = q \o <<e>> /\ <<e>> \in Seq(Ev) BY <1>2, OneBehind, Zenon
    <2>2. p \o q \in Seq(Ev) BY <1>a, Behind, ZenonT(30)
    <2>3. Append(p \o q, e) = (p \o q) \o <<e>> BY <1>2, <2>2, OneBehind, ZenonT(30)
    <2>4. (p \o q) \o <<e>> = p \o (q \o <<e>>) BY <1>a, <2>1, BehindEachOther, ZenonT(30)
    <2> QED BY <1>3, <2>1, <2>3, <2>4, ZenonT(30) DEF Flow
<1>5. task \in {"none", "waiting", "sending"} BY <1>1 DEF SendInv, SendType
<1>6. Range(Flow) = accepted \ evicted BY <1>5, Zenon DEF SendInv, SentAsAccepted
<1>7. \A x \in Range(p \o q) : x.id < e.id
    <2>1. \A x \in accepted : x.id <= enqueued /\ x.id \in Nat
        BY <1>1, Zenon DEF SendInv, SendType, Ev
    <2>2. Range(Flow) \in SUBSET accepted BY <1>6, ZenonT(30)
    <2>3. enqueued \in Nat BY <1>1, ZenonT(30) DEF SendType
    <2>4. \A x \in accepted : x.id < e.id BY <1>2, <2>1, <2>3
    <2> QED BY <2>2, <2>4, ZenonT(30)
<1>8. p \o q \in Seq(Ev) BY <1>a, Behind
<1>9. InOrder(Append(p \o q, e)) /\ Range(Append(p \o q, e)) = Range(p \o q) \cup {e}
    BY <1>2, <1>7, <1>8, AppendInOrder, ZenonT(30)
<1>10. e \notin accepted BY <1>1, <1>2 DEF SendInv, SendType
<1>11. Range(Append(p \o q, e)) = accepted' \ evicted'
    BY <1>1, <1>3, <1>6, <1>9, <1>10, ZenonT(30) DEF SendType
<1>12. InOrder(Flow)' /\ Range(Flow)' = accepted' \ evicted'
    BY <1>4, <1>9, <1>11, ZenonT(30) DEF InOrder, Range
<1>13. SentAsAccepted' BY <1>5, <1>12, ZenonT(30) DEF SentAsAccepted
<1>14. SendType'
    <2>1. queue' \in Seq(Ev) BY <1>2, <1>3, OneBehind, ZenonT(30)
    <2>2. accepted' \in SUBSET Ev /\ evicted' \in SUBSET accepted'
        BY <1>1, <1>2, <1>3, ZenonT(30) DEF SendType
    <2>3. enqueued' \in Nat
        <3>1. enqueued \in Nat BY <1>1, Zenon DEF SendType
        <3> QED BY <3>1
    <2> QED BY <1>1, <2>1, <2>2, <2>3, ZenonT(30) DEF SendType
<1>15. \A x \in accepted' : x.id <= enqueued'
    <2>1. \A x \in accepted : x.id <= enqueued /\ x.id \in Nat
        BY <1>1, Zenon DEF SendInv, SendType, Ev
    <2>2. enqueued \in Nat BY <1>1, Zenon DEF SendType
    <2>3. e.id <= enqueued' /\ \A x \in accepted : x.id <= enqueued' BY <1>2, <2>1, <2>2
    <2> QED BY <1>3, <2>3, ZenonT(30)
<1> QED BY <1>13, <1>14, <1>15 DEF SendInv

\* enqueue, whichever way it decides.
LEMMA EnqueueKeeps == ASSUME SendInv, NEW name \in Names, enqueue(name) PROVE SendInv'
<1>1. SendType BY ZenonT(30) DEF SendInv
<1>2. enqueued' = enqueued + 1 /\ UNCHANGED <<closed, task, sending, close_pc, sent, cut>>
    BY DEF enqueue
<1>3. CASE ~closed /\ HasRoom /\ Append1(name, queue) /\ UNCHANGED evicted
    <2>1. InOrder(Flow) BY <1>1, <1>3, ZenonT(30) DEF SendInv, SendType, SentAsAccepted
    <2>2. /\ {} \in SUBSET Ev /\ {} \in SUBSET accepted /\ queue \in Seq(Ev)
          /\ evicted' = evicted \cup {} /\ Range((sent \o sending) \o queue) = Range(Flow) \ {}
        BY <1>1, <1>3 DEF Flow, SendType
    <2>3. InOrder((sent \o sending) \o queue) BY <2>1 DEF Flow
    <2> QED BY <1>2, <1>3, <2>2, <2>3, AcceptKeepsOrder, ZenonT(30)
<1>4. CASE /\ ~closed /\ Evictable # {}
           /\ Append1(name, Without(queue, Victim))
           /\ evicted' = evicted \cup {queue[Victim]}
    <2> DEFINE p == sent \o sending
    <2>1. task \in {"none", "waiting", "sending"} BY <1>1, <1>4, ZenonT(30) DEF SendInv, SendType
    <2>2. InOrder(p \o queue) /\ Range(p \o queue) = accepted \ evicted
        BY <2>1 DEF SendInv, SentAsAccepted, Flow
    <2>3. Victim \in 1..Len(queue) BY <1>1, <1>4, VictimIsQueued, ZenonT(30)
    <2>4. p \in Seq(Ev) /\ queue \in Seq(Ev) BY <1>1, Behind, ZenonT(30) DEF SendType
    <2>5. Without(queue, Victim) \in Seq(Ev) BY <2>3, <2>4, WithoutPlaces
    <2>6. /\ InOrder(p \o Without(queue, Victim))
          /\ Range(p \o Without(queue, Victim)) = Range(p \o queue) \ {queue[Victim]}
        BY <2>2, <2>3, <2>4, EvictInOrder, ZenonT(30)
    <2>7. queue[Victim] \in Range(queue) /\ queue[Victim] \in Ev BY <2>3, <2>4, PlacesOf
    <2>8. Range(p \o queue) = Range(p) \cup Range(queue) BY <2>4, EventsOfBoth, Zenon
    <2>9. {queue[Victim]} \in SUBSET accepted /\ {queue[Victim]} \in SUBSET Ev
        BY <2>2, <2>7, <2>8, ZenonT(30)
    <2> QED BY <1>2, <1>4, <2>5, <2>6, <2>9, AcceptKeepsOrder, ZenonT(30) DEF Flow
<1>5. CASE UNCHANGED <<queue, accepted, evicted>>
    <2>1. enqueued' \in Nat /\ enqueued' >= enqueued BY <1>1, <1>2 DEF SendType
    <2>2. close_pc' # "open" \/ closed => closed' BY <1>2 DEF SendInv
    <2> QED BY <1>2, <1>5, <2>1, <2>2, FlowUntouched, ZenonT(30)
<1> QED BY <1>3, <1>4, <1>5 DEF enqueue

\* A send that fails, or that close() no longer waits for, ends the loop: what is
\* still queued was accepted before.
LEMMA CutKeeps ==
    ASSUME SendInv, task = "sending", sending' = <<>>, cut' = enqueued, closed',
           task' \in {"ended", "cancelled"},
           UNCHANGED <<queue, enqueued, sent, accepted, evicted>>
    PROVE  SendInv'
<1>1. SendType BY ZenonT(30) DEF SendInv
<1>2. SendType' BY <1>1 DEF SendType
<1>3. \A i \in DOMAIN queue' : queue'[i].id <= cut'
    <2>1. Range(Flow) = accepted \ evicted BY ZenonT(30) DEF SendInv, SentAsAccepted
    <2>2. sent \o sending \in Seq(Ev) /\ queue \in Seq(Ev)
        BY <1>1, Behind DEF SendType
    <2>3. Range(Flow) = Range(sent \o sending) \cup Range(queue)
        BY <2>2, EventsOfBoth, ZenonT(30) DEF Flow
    <2>4. \A i \in DOMAIN queue : queue[i] \in accepted BY <2>1, <2>3, ZenonT(30) DEF Range
    <2> QED BY <2>4, ZenonT(30) DEF SendInv
<1>4. SentAsAccepted' BY <1>3 DEF SentAsAccepted
<1> QED BY <1>2, <1>4 DEF SendInv

\* Every step of the endpoint, of _drain_loop and of the client.
LEMMA SendStep == SendInv /\ [SenderNext]_senderVars => SendInv'
<1> SUFFICES ASSUME SendInv, [SenderNext]_senderVars PROVE SendInv' OBVIOUS
<1>0. SendType BY DEF SendInv
<1>a. enqueued \in Nat /\ enqueued >= enqueued BY <1>0 DEF SendType
<1>b. close_pc # "open" => closed BY DEF SendInv
<1>1. CASE start BY <1>1, <1>a, <1>b, FlowUntouched DEF start
<1>2. ASSUME NEW name \in Names, enqueue(name) PROVE SendInv' BY <1>2, EnqueueKeeps, ZenonT(30)
<1>3. CASE Wake
    <2>1. sending = <<>> BY <1>3 DEF Wake, SendInv
    <2>2. sent \in Seq(Ev) /\ sent \o sending = sent
        BY <1>0, <2>1, NothingBehind DEF SendType
    <2> QED BY <1>3, <2>2, RoundKeepsFlow DEF Wake
<1>4. CASE Sent
    <2>1. sent \o sending \in Seq(Ev) BY <1>0, Behind, ZenonT(30) DEF SendType
    <2> QED BY <1>4, <2>1, RoundKeepsFlow, ZenonT(30) DEF Sent
<1>5. CASE SendFailed BY <1>5, CutKeeps DEF SendFailed
<1>6. CASE JoinTimeout BY <1>6, <1>b, CutKeeps, ZenonT(30) DEF JoinTimeout
<1>7. CASE close BY <1>7, <1>a, FlowUntouched DEF close
<1>8. CASE Joined BY <1>8, <1>a, <1>b, FlowUntouched, ZenonT(30) DEF Joined
<1>9. CASE UNCHANGED senderVars BY <1>9, <1>a, <1>b, FlowUntouched DEF senderVars
<1> QED BY <1>1, <1>2, <1>3, <1>4, <1>5, <1>6, <1>7, <1>8, <1>9, ZenonT(30) DEF SenderNext

===============================================================================
