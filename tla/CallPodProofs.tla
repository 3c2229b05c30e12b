---------------------------- MODULE CallPodProofs -----------------------------
(***************************************************************************)
(* The backend process and the calls that come to it, for any number of    *)
(* streams, connections, requests, keys, addresses and tenants: a step of the *)
(* pod is a step of its components (DoorProofs, StreamProofs), so that what *)
(* they keep holds of the pod, and the stores that a call uses are open while *)
(* the pod starts and stops.                                               *)
(***************************************************************************)
EXTENDS CallPod, DoorProofs, StreamProofs

\* The provers a step is given to in turn unless it names one, with their time limits.
USE SMTT(30), ZenonT(30)

-------------------------------------------------------------------------------
(* A step of the pod is, for each of its doors, a step of the component    *)
(* behind that door, or none.                                              *)

\* PodNext composes the components without changing them: WebSocket, Http, Limits
\* and Send are theirs, and lifespan and the gRPC calls touch none of them.
LEMMA DoorSteps ==
    [PodNext]_allVars =>
        /\ [Next]_vars /\ [JwksNext]_jwksVars
        /\ [RateNext]_rateVars /\ [SenderNext]_senderVars
<1> SUFFICES ASSUME [PodNext]_allVars
             PROVE  /\ [Next]_vars /\ [JwksNext]_jwksVars
                    /\ [RateNext]_rateVars /\ [SenderNext]_senderVars
    OBVIOUS
<1>1. CASE UNCHANGED doorVars BY <1>1 DEF doorVars, admissionVars, vars
<1>2. CASE WebSocket BY <1>2 DEF WebSocket
<1>3. CASE Send BY <1>3 DEF Send, admissionVars, vars
<1>4. CASE Limits BY <1>4, ZenonT(30) DEF Limits, admissionVars, vars
<1>5. CASE Http BY <1>5, ZenonT(30) DEF Http, admissionVars, vars
<1>6. CASE Lifespan BY <1>1, <1>6, ZenonT(30)
    DEF Lifespan, Plain, init_redis, close_redis, GrpcStart, GrpcStopped, GraceOver, drain
<1>7. CASE StartFails \/ Exit \/ Grpc \/ \E s \in Streams : GrpcCall(s)
    BY <1>1, <1>7, ZenonT(30) DEF StartFails, Exit, Grpc, GrpcCall
<1>8. CASE UNCHANGED allVars BY <1>1, <1>8, ZenonT(30) DEF allVars
<1> QED BY <1>2, <1>3, <1>4, <1>5, <1>6, <1>7, <1>8, ZenonT(30) DEF PodNext

\* The pod implements the specification of the session counter: lifespan, the other
\* doors and the shutdown do nothing to it but what the endpoint does.
THEOREM PodImplementsAdmission == PodSpec => Spec
<1>1. PodInit => Init BY DEF PodInit
<1>2. [PodNext]_allVars => [Next]_vars BY DoorSteps
<1> QED BY <1>1, <1>2, PTL DEF PodSpec, Spec

\* So the sessions of a tenant that a pod serves are counted, and exactly if none
\* was cut off.
THEOREM PodCountsSessions == PodSpec => []CountCoversSessions
<1> QED BY PodImplementsAdmission, SessionsAreCounted, PTL

\* JWKSCache follows every key rotation at once: however requests share the lock,
\* the entry and the backoff, get_key refuses a key that has been published all
\* along only if a fetch made for that request failed.
THEOREM RotationIsFollowed == PodSpec => []RotationFollowed
<1>1. PodInit => CacheInv BY CacheInit DEF PodInit
<1>2. CacheInv /\ [PodNext]_allVars => CacheInv' BY DoorSteps, CacheStep, ZenonT(30)
<1>3. CacheInv => RotationFollowed BY ZenonT(30) DEF CacheInv, Sound, RotationFollowed
<1> QED BY <1>1, <1>2, <1>3, PTL DEF PodSpec

\* No request prolongs the window of a counter that exists, at either of the checks
\* of RateLimitMiddleware, with repeated and unanswered scripts included, and no
\* counter is without an expiry: the safety part of BlockEnds.
THEOREM WindowsAreKept == PodSpec => []RateInv /\ [][WindowKept]_rateVars
<1>1. PodInit => RateInv BY RateStart, ZenonT(30) DEF PodInit
<1>2. RateInv /\ [PodNext]_allVars => RateInv' /\ [WindowKept]_rateVars
    BY DoorSteps, RateStep, ZenonT(30)
<1> QED BY <1>1, <1>2, PTL DEF PodSpec

\* BoundedWSSender delivers what enqueue accepted, once and in order, whatever audio
\* it evicts for want of room, and leaves nothing behind when it closes but what a
\* failing or overlong send cut off, for every queue size.
THEOREM SentIsAccepted == PodSpec => []SentAsAccepted
<1>1. PodInit => SendInv BY SendInit, ZenonT(30) DEF PodInit
<1>2. SendInv /\ [PodNext]_allVars => SendInv' BY DoorSteps, SendStep, ZenonT(30)
<1>3. SendInv => SentAsAccepted BY DEF SendInv
<1> QED BY <1>1, <1>2, <1>3, PTL DEF PodSpec

-------------------------------------------------------------------------------
(* The calls and the stores.  StoresOpenForCalls needs where the pod is and *)
(* that a call is made only once it has started.                            *)

Starting == {"init_db", "init_redis", "start_grpc"}
Open == {"start_grpc", "start_workers", "serving", "stop_workers", "stop_grpc",
         "drain", "close_redis"}
Stopped == {"drain", "close_redis", "close_db"}

PodInv ==
    /\ pod \in Starting \cup Open \cup Stopped \cup {"down"}
    /\ pod \in Starting => \A s \in Streams : reader[s] = "none"
    /\ pod \in Open => redis
    /\ pod \in Stopped => \A s \in Streams \ overdue : ~Running(s)
    /\ StoresOpenForCalls

CallInv == StreamsInv /\ PodInv

\* A step that opens no store, begins no call and leaves the pod where it is.
LEMMA PodStays ==
    ASSUME PodInv, UNCHANGED podVars, redis' = redis,
           \A s \in Streams : Running(s)' => Running(s),
           \A s \in Streams : reader[s] = "none" => reader'[s] = "none"
    PROVE  PodInv'
BY DEF PodInv, StoresOpenForCalls, podVars

\* The gRPC server accepts a call.
LEMMA AcceptInv ==
    ASSUME CallInv, NEW s \in Streams, GrpcCall(s)
    PROVE  CallInv'
<1>1. /\ StreamSession(s) /\ UNCHANGED podVars
      /\ pod \in {"start_workers", "serving", "stop_workers"}
    BY DEF GrpcCall, Accepting
<1>2. StreamsInv' /\ redis' = redis BY <1>1, StreamAccepted, ZenonT(30) DEF CallInv
<1>3. redis /\ pod \notin Starting /\ pod \notin Stopped
    BY <1>1, ZenonT(30) DEF CallInv, PodInv, Open, Starting, Stopped
<1>4. PodInv' BY <1>1, <1>2, <1>3, ZenonT(30) DEF CallInv, PodInv, StoresOpenForCalls, podVars
<1> QED BY <1>2, <1>4, ZenonT(30) DEF CallInv

\* What lifespan does to the calls: only GraceOver and the pool of Redis reach them.
LEMMA LifespanInv ==
    ASSUME CallInv, Lifespan \/ StartFails \/ Exit
    PROVE  CallInv'
<1>0. StreamsInv /\ PodInv BY DEF CallInv
<1>1. CASE Plain \/ StartFails \/ GrpcStart \/ Exit \/ GrpcStopped \/ drain
    <2>1. UNCHANGED streamVars /\ UNCHANGED overdue
        BY <1>1 DEF Plain, StartFails, GrpcStart, Exit, GrpcStopped, drain
    <2>2. StreamsInv' BY <1>0, <2>1, StreamsUntouched, ZenonT(30)
    <2>3. \A s \in Streams : (Running(s)' <=> Running(s)) /\ reader'[s] = reader[s]
        BY <2>1, ZenonT(30) DEF Running, streamVars
    <2>4. redis' = redis BY <2>1, ZenonT(30) DEF streamVars
    <2>5. PodInv'
        BY <1>0, <1>1, <2>1, <2>3, <2>4, ZenonT(30) DEF PodInv, StoresOpenForCalls, Plain, StartFails,
           GrpcStart, Exit, GrpcStopped, drain, Advance, Then, Starting, Open, Stopped
    <2> QED BY <2>2, <2>5, ZenonT(30) DEF CallInv
<1>2. CASE init_redis
    <2>1. /\ pod = "init_redis" /\ pod' = "start_grpc" /\ redis' = TRUE
          /\ UNCHANGED overdue /\ UNCHANGED StoreVars
        BY <1>2, ZenonT(30) DEF init_redis, Advance, Then
    <2>2. \A s \in Streams : reader[s] = "none" BY <1>0, <2>1, ZenonT(30) DEF PodInv, Starting
    <2>3. StreamsInv' BY <1>0, <2>1, <2>2, PodTouches, ZenonT(30) DEF StoreVars
    <2>4. \A s \in Streams : reader'[s] = "none" BY <2>1, <2>2, ZenonT(30) DEF StoreVars
    <2>5. PodInv' BY <2>1, <2>4, ZenonT(30) DEF PodInv, StoresOpenForCalls, Starting, Open, Stopped
    <2> QED BY <2>3, <2>5 DEF CallInv
<1>3. CASE close_redis
    <2>1. /\ pod = "close_redis" /\ pod' = "close_db" /\ redis' = FALSE
          /\ UNCHANGED overdue /\ UNCHANGED StoreVars
        BY <1>3 DEF close_redis, Advance, Then
    <2>2. StreamsInv' /\ \A s \in Streams : Running(s)' => Running(s)
        BY <1>0, <2>1, PodTouches, ZenonT(30) DEF StoreVars
    <2>3. \A s \in Streams \ overdue : ~Running(s)'
        BY <1>0, <2>1, <2>2, ZenonT(30) DEF PodInv, Stopped
    <2>4. PodInv' BY <2>1, <2>3, ZenonT(30) DEF PodInv, StoresOpenForCalls, Starting, Open, Stopped
    <2> QED BY <2>2, <2>4, ZenonT(30) DEF CallInv
<1>4. CASE GraceOver
    <2>1. /\ pod = "stop_grpc" /\ pod' = "drain"
          /\ writer' = [s \in Streams |-> AfterCancel(writer[s])]
          /\ overdue' = {s \in Streams : Running(s)}
          /\ UNCHANGED <<reader, session_id, orchestrator, voice,
                         response_queue, heard, lease, redis, chunks, odd>>
        BY <1>4, ZenonT(30) DEF GraceOver, Advance, Then
    <2>2. redis BY <1>0, <2>1, ZenonT(30) DEF PodInv, Open
    <2>3. StreamsInv' /\ \A s \in Streams : Running(s)' => Running(s)
        BY <1>0, <2>1, <2>2, PodTouches, ZenonT(30)
    <2>4. \A s \in Streams \ overdue' : ~Running(s)' BY <2>1, <2>3, ZenonT(30)
    <2>5. PodInv' BY <2>1, <2>2, <2>4, ZenonT(30) DEF PodInv, StoresOpenForCalls, Starting, Open, Stopped
    <2> QED BY <2>3, <2>5 DEF CallInv
<1> QED BY <1>1, <1>2, <1>3, <1>4, ZenonT(30) DEF Lifespan

\* Every behaviour of the pod keeps the invariant of its calls.
LEMMA CallsInv ==
    PodSpec => []CallInv
<1>1. PodInit => CallInv
    <2> SUFFICES ASSUME PodInit PROVE CallInv OBVIOUS
    <2>1. StreamInit /\ pod = "init_db" BY DEF PodInit
    <2>2. StreamsInv BY <2>1, NoStreamsYet, ZenonT(30)
    <2>3. \A s \in Streams : reader[s] = "none" /\ ~Running(s) BY <2>1, ZenonT(30) DEF StreamInit, Running
    <2>4. PodInv BY <2>1, <2>3, ZenonT(30) DEF PodInv, StoresOpenForCalls, Starting, Open, Stopped
    <2> QED BY <2>2, <2>4, ZenonT(30) DEF CallInv
<1>2. CallInv /\ [PodNext]_allVars => CallInv'
    <2> SUFFICES ASSUME CallInv, [PodNext]_allVars PROVE CallInv' OBVIOUS
    <2>1. CASE Lifespan \/ StartFails \/ Exit BY <2>1, LifespanInv, ZenonT(30)
    <2>2. CASE \E s \in Streams : GrpcCall(s) BY <2>2, AcceptInv, ZenonT(30)
    <2>3. CASE Grpc
        <3>1. StreamNext /\ UNCHANGED podVars BY <2>3, ZenonT(30) DEF Grpc
        <3>2. /\ StreamsInv' /\ redis' = redis
              /\ \A t \in Streams : Running(t)' => Running(t)
              /\ \A t \in Streams : reader[t] = "none" => reader'[t] = "none"
            BY <3>1, StreamsStep, ZenonT(30) DEF CallInv
        <3> QED BY <3>1, <3>2, PodStays, ZenonT(30) DEF CallInv
    <2>4. CASE WebSocket \/ Send \/ Limits \/ Http \/ UNCHANGED allVars
        <3>1. UNCHANGED podVars /\ UNCHANGED streamVars
            BY <2>4, ZenonT(30) DEF WebSocket, Send, Limits, Http, allVars
        <3>2. StreamsInv' /\ \A s \in Streams : Running(s)' => Running(s)
            BY <3>1, StreamsUntouched, ZenonT(30) DEF CallInv
        <3>3. PodInv' BY <3>1, <3>2, PodStays, ZenonT(30) DEF CallInv, streamVars
        <3> QED BY <3>2, <3>3, ZenonT(30) DEF CallInv
    <2> QED BY <2>1, <2>2, <2>3, <2>4, ZenonT(30) DEF PodNext
<1> QED BY <1>1, <1>2, PTL DEF PodSpec

\* A call has the stores open until the end of its cleanup, unless it outlasted the
\* grace period of the gRPC server.
THEOREM StoresAreOpen == PodSpec => []StoresOpenForCalls
<1>1. CallInv => StoresOpenForCalls BY DEF CallInv, PodInv
<1> QED BY <1>1, CallsInv, PTL

\* A stream that serves the session holds its lease, whatever refused, failed and
\* departed streams of the same session release.
THEOREM LeaseIsKept == PodSpec => []LeaseKept
<1>1. CallInv => LeaseKept BY LeaseFollows, ZenonT(30) DEF CallInv
<1> QED BY <1>1, CallsInv, PTL

\* Barge-in: after the bridge was told to clear its buffer it is sent no audio of a
\* turn that had begun before.
THEOREM AudioIsFresh == PodSpec => []FreshAudio
<1>1. CallInv => FreshAudio BY FreshFollows, ZenonT(30) DEF CallInv
<1> QED BY <1>1, CallsInv, PTL

\* Every turn that the pipeline has returned from was answered by an END_OF_TURN of
\* its own, or the answer is queued, except a turn that was handed over to an agent.
THEOREM TurnsAreAnswered == PodSpec => []TurnsAnswered
<1>1. CallInv => TurnsAnswered BY AnswersFollow DEF CallInv
<1> QED BY <1>1, CallsInv, PTL

===============================================================================
