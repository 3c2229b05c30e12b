-------------------------------- MODULE CallPod --------------------------------
(***************************************************************************)
(* The backend process: lifespan (main.py) with its start and shutdown     *)
(* sequences, ShutdownManager, GrpcServerLifecycle, and the calls that     *)
(* come in meanwhile: gRPC streams of the media bridge (VoiceStream),      *)
(* WebSocket sessions that are counted (Admission) with their send queue   *)
(* (WsSender), and HTTP requests that are limited (RateLimit)              *)
(* and whose tokens are verified (JwksCache).  A behaviour watches one of  *)
(* these doors.                                                            *)
(***************************************************************************)
EXTENDS VoiceStream, Admission, JwksCache, WsSender, RateLimit

CONSTANT ShortCall    \* bound: chunks received while the pod is stopped

VARIABLES
    door,       \* bound: what this behaviour watches: "grpc", the gRPC calls of a pod
                \* that serves; "stop", those of ShortCall chunks of a pod that is
                \* stopped; "ws", WebSocket connections; "send", the queue of one of
                \* them; "rate" and "http", requests at the limits and at the keys
    pod,        \* the step of lifespan that comes next
    overdue     \* streams that outlasted the grace period of the gRPC server

podVars == <<door, pod, overdue>>
admissionVars == <<pc, count, faults>>
doorVars == <<admissionVars, jwksVars, senderVars, rateVars>>
allVars == <<podVars, streamVars, doorVars>>

PodInit ==
    /\ door \in {"grpc", "stop", "ws", "send", "rate", "http"} /\ pod = "init_db" /\ overdue = {}
    /\ StreamInit /\ Init /\ JwksInit /\ SenderInit /\ RateInit

\* The order of lifespan.
\* Mutant: the Redis pool is closed before the gRPC server is stopped.
Then_RedisFirst(step) ==
    CASE step = "init_db" -> "init_redis"         [] step = "init_redis" -> "start_grpc"
      [] step = "start_grpc" -> "start_workers"   [] step = "start_workers" -> "serving"
      [] step = "serving" -> "stop_workers"       [] step = "stop_workers" -> "close_redis"
      [] step = "close_redis" -> "stop_grpc"      [] step = "stop_grpc" -> "drain"
      [] step = "drain" -> "close_db"             [] step = "close_db" -> "down"
Then(step) ==
    CASE step = "init_db" -> "init_redis"         [] step = "init_redis" -> "start_grpc"
      [] step = "start_grpc" -> "start_workers"   [] step = "start_workers" -> "serving"
      [] step = "serving" -> "stop_workers"       [] step = "stop_workers" -> "stop_grpc"
      [] step = "stop_grpc" -> "drain"            [] step = "drain" -> "close_redis"
      [] step = "close_redis" -> "close_db"       [] step = "close_db" -> "down"

Advance(step) == pod = step /\ pod' = Then(step)

StoreVars == <<reader, writer, session_id, orchestrator, voice, response_queue, heard,
               lease, chunks, odd>>

\* init_db, SSE broadcaster and poller; close_db.  EventStream has the workers.
Plain ==
    /\ \E step \in {"init_db", "start_workers", "stop_workers", "close_db"} : Advance(step)
    /\ UNCHANGED <<door, overdue, streamVars, doorVars>>

init_redis ==
    /\ Advance("init_redis") /\ redis' = TRUE
    /\ UNCHANGED <<door, overdue, StoreVars, doorVars>>

close_redis ==
    /\ Advance("close_redis") /\ redis' = FALSE
    /\ UNCHANGED <<door, overdue, StoreVars, doorVars>>

\* An exception while starting leaves lifespan before its try block.
StartFails ==
    /\ pod \in {"init_db", "init_redis", "start_grpc", "start_workers"} /\ pod' = "down"
    /\ UNCHANGED <<door, overdue, streamVars, doorVars>>

GrpcStart ==
    /\ Advance("start_grpc")
    /\ UNCHANGED <<door, overdue, streamVars, doorVars>>

\* The server leaves its main loop.
Exit ==
    /\ Advance("serving") /\ door = "stop"
    /\ UNCHANGED <<door, overdue, streamVars, doorVars>>

\* GrpcServerLifecycle.stop: no new call from here on; it returns when the last
\* one has ended,
GrpcStopped ==
    /\ Advance("stop_grpc") /\ \A s \in Streams : ~Running(s)
    /\ UNCHANGED <<door, overdue, streamVars, doorVars>>

\* or cancels the calls at the end of the grace period, without waiting for
\* their finally blocks.
GraceOver ==
    /\ Advance("stop_grpc") /\ \E s \in Streams : Running(s)
    /\ writer' = [s \in Streams |-> AfterCancel(writer[s])]
    /\ overdue' = {s \in Streams : Running(s)}
    /\ UNCHANGED <<door, reader, session_id, orchestrator, voice,
                   response_queue, heard, lease, redis, chunks, odd, doorVars>>

\* No session enumerator is ever registered: drain returns at once.
drain ==
    /\ Advance("drain")
    /\ UNCHANGED <<door, overdue, streamVars, doorVars>>

Accepting == pod \in {"start_workers", "serving", "stop_workers"}

GrpcCall(s) ==
    /\ door \in {"grpc", "stop"} /\ Accepting /\ StreamSession(s)
    /\ door = "grpc" => pod = "serving"
    /\ UNCHANGED <<podVars, doorVars>>

Grpc ==
    /\ door \in {"grpc", "stop"} /\ StreamNext /\ (door = "stop" => chunks' <= ShortCall)
    /\ UNCHANGED <<podVars, doorVars>>

WebSocket ==
    /\ door = "ws" /\ pod = "serving" /\ Next
    /\ UNCHANGED <<podVars, streamVars, jwksVars, senderVars, rateVars>>

Send ==
    /\ door = "send" /\ pod = "serving" /\ SenderNext
    /\ UNCHANGED <<podVars, streamVars, admissionVars, jwksVars, rateVars>>

Limits ==
    /\ door = "rate" /\ pod = "serving" /\ RateNext
    /\ UNCHANGED <<podVars, streamVars, admissionVars, jwksVars, senderVars>>

Http ==
    /\ door = "http" /\ pod = "serving" /\ JwksNext
    /\ UNCHANGED <<podVars, streamVars, admissionVars, senderVars, rateVars>>

Lifespan ==
    \/ Plain \/ init_redis \/ close_redis \/ GrpcStart \/ GrpcStopped \/ GraceOver \/ drain

PodNext ==
    \/ Lifespan \/ StartFails \/ Exit
    \/ (\E s \in Streams : GrpcCall(s)) \/ Grpc \/ WebSocket \/ Send \/ Limits \/ Http

\* The event loop runs what is ready: lifespan, the readers and the writers of
\* the streams.  A turn ends because its vendor calls have timeouts; the bridge
\* reads what it is sent.  Time passes for the keys of Redis.
PodSpec ==
    /\ PodInit /\ [][PodNext]_allVars /\ WF_allVars(Lifespan)
    /\ \A s \in Streams :
          /\ WF_allVars(ReaderStep(s) /\ UNCHANGED <<podVars, doorVars>>)
          /\ WF_allVars(WriterStep(s) /\ UNCHANGED <<podVars, doorVars>>)
    /\ WF_allVars(Limits /\ Tick)

-------------------------------------------------------------------------------

\* A call has the stores open from its first chunk to the end of its cleanup:
\* startup opens them before the server takes calls, shutdown closes them after
\* the last one, except for calls cancelled at the end of the grace period.
StoresOpenForCalls == \A s \in Streams \ overdue : Running(s) => redis

===============================================================================
