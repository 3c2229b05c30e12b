------------------------------ MODULE CallSession ------------------------------
(***************************************************************************)
(* One call session: the WebSocket loop of routers/vbgw.py, the            *)
(* CallSessionOrchestrator it drives, AIPipeline.process,                  *)
(* TransferService.request and the SessionRepository writes they make.     *)
(* The code is one coroutine; phase names the await it is suspended at.    *)
(* Connections of the session follow each other (SessionLease has the      *)
(* concurrent ones): a connection ends through the finally block or with   *)
(* the death of its process, and the next one restores what was saved.     *)
(*                                                                         *)
(* Audio, texts and replies are abstracted: a chunk either fills the       *)
(* buffer or does not, and a transcript is "plain" or asks for a "transfer".*)
(* Mongo's status and fsm_snapshot are always written together from the    *)
(* same FSM, so one state stands for both; likewise for the Redis copy.    *)
(***************************************************************************)
EXTENDS SessionFSM, Naturals

CONSTANTS
    PIPELINE_FAILURE_THRESHOLD, \* failed turns before the automatic transfer
    MAX_TRANSFER_RETRIES,
    Fallbacks,      \* values of TransferFallback (the orchestrator passes "CALLBACK")
    PolicyLevels,   \* the PolicyLevels of tenants
    CtiAnswers,     \* what _dispatch_to_cti may return ({"FAILED"}: the mock)
    StoreErrors,    \* the stores that may fail: a subset of {"mongo", "redis"}
    MaxConnects,    \* bound: connections of the session
    MaxCrashes      \* bound: process deaths

ASSUME SessionAssumption ==
    /\ PIPELINE_FAILURE_THRESHOLD \in Nat \ {0}
    /\ MAX_TRANSFER_RETRIES \in Nat
    /\ Fallbacks \subseteq {"CALLBACK", "RETRY", "AI_RESUME"}
    /\ PolicyLevels \subseteq {"G1", "G2", "G3", "G4", "G5"}
    /\ CtiAnswers \subseteq {"ACCEPTED", "FAILED", "TIMED_OUT", "PENDING"}
    /\ StoreErrors \subseteq {"mongo", "redis"}
    /\ MaxConnects \in Nat /\ MaxCrashes \in Nat

VARIABLES
    phase,      \* where the coroutine is suspended; "away": no connection
    fsm,        \* SessionFSM.state
    flags,      \* which of _listening, a non-empty _audio_buffer, _closed hold
    failures,   \* _pipeline_failure_count, saturated at the threshold
    text,       \* the transcript of the turn in progress
    after,      \* what follows the repository.update_state in progress
    resume,     \* what the caller of _trigger_transfer does when it returns
    retry,      \* retry_count of TransferService.request
    reason,     \* the reason end_session was called with
    mongo,      \* status and fsm_snapshot in Mongo; "NONE": no document
    hot,        \* the same in Redis; "NONE": no key
    end_reason, \* end_reason in Mongo
    env,        \* the tenant's configuration; connections and crashes left
    seen        \* history: what has happened to the session

store  == <<mongo, hot, end_reason>>
xfer   == <<after, resume, retry>>
sessionVars == <<phase, fsm, flags, failures, text, xfer, reason, store, env, seen>>

TurnPhase == {"stt", "llm", "tts", "save_turn", "save_turn_hot"}
TransferPhase == {"update_mongo", "update_hot", "dispatch"}
EndPhase == {"end_mongo", "end_hot", "finally"}

SessionInit ==
    /\ phase = "away" /\ fsm = "IDLE" /\ flags = {} /\ failures = 0
    /\ text = "" /\ after = "dispatch" /\ resume = "return" /\ retry = 0
    /\ reason = "" /\ mongo = "NONE" /\ hot = "NONE" /\ end_reason = ""
    /\ env \in [fallback : Fallbacks, policy : PolicyLevels,
                connects : {MaxConnects}, crashes : {MaxCrashes}]
    /\ seen = {}

-------------------------------------------------------------------------------
(* restore_or_create_orchestrator, run by a new connection.                *)

NewOrchestrator ==
    /\ phase' = "receive"
    /\ flags' = {} /\ failures' = 0 /\ text' = "" /\ reason' = ""
    /\ seen' = seen \ {"attempted", "blocked"}
    /\ env' = [env EXCEPT !.connects = @ - 1]
    /\ UNCHANGED <<xfer, end_reason>>

Create ==
    /\ phase = "away" /\ env.connects > 0
    /\ hot = "NONE" /\ mongo = "NONE"
    /\ fsm' = "IDLE" /\ mongo' = "IDLE"
    /\ hot' \in {"IDLE"} \cup (IF "redis" \in StoreErrors THEN {"NONE"} ELSE {})
    /\ NewOrchestrator

\* restore_hot_state: Redis first, then a document that has not ENDED, which
\* warms Redis again.  With neither the attempt fails and changes nothing
\* (the insert of a second document is refused: SessionLease has that path).
Restore ==
    /\ phase = "away" /\ env.connects > 0
    /\ \/ /\ hot \notin {"NONE", "ENDED"}
          /\ fsm' = RestoredState(hot)
          /\ UNCHANGED hot
       \/ /\ hot = "NONE" \/ "redis" \in StoreErrors
          /\ mongo \notin {"NONE", "ENDED"}
          /\ fsm' = RestoredState(mongo)
          /\ hot' = mongo \/ ("redis" \in StoreErrors /\ UNCHANGED hot)
    /\ UNCHANGED mongo
    /\ NewOrchestrator

-------------------------------------------------------------------------------
(* TransferService.request, called by _trigger_transfer; s is the state the *)
(* FSM is in and sn the history so far.                                     *)

Resumed(s, r) == IF r = "listen" THEN DoTransition(s, "LISTENING") ELSE s

Request(s, r, sn) ==
    /\ seen' = sn \cup {"attempted"}
    /\ IF can_transition(s, "TRANSFER_REQUESTED")
       THEN /\ fsm' = "TRANSFER_REQUESTED"
            /\ phase' = "update_mongo"
            /\ after' = "dispatch" /\ resume' = r /\ retry' = 0
       ELSE /\ fsm' = Resumed(s, r)
            /\ phase' = "receive"
            /\ UNCHANGED xfer

\* _on_transfer_failed still has a retry left.
\* Mutant: the recursive call passes the retry_count it was given.
NextRetry_Same(n) == n
NextRetry(n) == n + 1

CanRetry == env.fallback = "RETRY" /\ retry < MAX_TRANSFER_RETRIES

_on_transfer_accepted ==
    /\ fsm' = "TRANSFER_ACCEPTED" /\ after' = "accepted"
    /\ seen' = seen \cup {"accepted"}
    /\ UNCHANGED retry

_on_transfer_failed ==
    \/ /\ CanRetry
       /\ fsm' = "TRANSFER_REQUESTED" /\ after' = "dispatch"
       /\ retry' = NextRetry(retry)
       /\ UNCHANGED seen
    \/ /\ ~CanRetry /\ env.fallback = "AI_RESUME"
       /\ fsm' = "LISTENING" /\ after' = "ai_resume"
       /\ UNCHANGED <<retry, seen>>
    \/ /\ ~CanRetry /\ env.fallback # "AI_RESUME"
       /\ fsm' = "TRANSFER_FAILED" /\ after' = "callback"
       /\ UNCHANGED <<retry, seen>>

_dispatch_to_cti ==
    /\ phase = "dispatch" /\ phase' = "update_mongo"
    /\ \E answer \in CtiAnswers :
         IF answer = "ACCEPTED" THEN _on_transfer_accepted ELSE _on_transfer_failed
    /\ UNCHANGED <<flags, failures, text, resume, reason, store, env>>

-------------------------------------------------------------------------------
(* CallSessionOrchestrator.end_session: everything before its await.       *)

AlreadyClosed == "closed" \in flags

end_session(r) ==
    /\ flags' = flags \cup {"closed"}
    /\ fsm' = DoTransition(fsm, "ENDED")
    /\ reason' = r
    /\ phase' = "end_mongo"

\* SessionRepository.end_session; whatever it raises is swallowed.
EndMongo ==
    /\ phase = "end_mongo"
    /\ \/ /\ mongo' = "ENDED" /\ end_reason' = reason /\ phase' = "end_hot"
          /\ UNCHANGED seen
       \/ /\ "mongo" \in StoreErrors /\ phase' = "finally" /\ seen' = seen \cup {"failed"}
          /\ UNCHANGED <<mongo, end_reason>>
    /\ UNCHANGED <<fsm, flags, failures, text, xfer, reason, hot, env>>

\* Mutant: end_session forgets delete_session_state.
HotAfterEnd_Kept == hot
HotAfterEnd == "NONE"

EndHot ==
    /\ phase = "end_hot" /\ phase' = "finally"
    /\ \/ hot' = HotAfterEnd /\ UNCHANGED seen
       \/ "redis" \in StoreErrors /\ seen' = seen \cup {"torn"} /\ UNCHANGED hot
    /\ UNCHANGED <<fsm, flags, failures, text, xfer, reason, mongo, end_reason, env>>

\* The finally block of the WebSocket handler.
Finally ==
    /\ phase = "finally"
    /\ IF AlreadyClosed
       THEN phase' = "away" /\ UNCHANGED <<flags, fsm, reason>>
       ELSE end_session("connection_closed")
    /\ UNCHANGED <<failures, text, xfer, store, env, seen>>

-------------------------------------------------------------------------------
(* SessionRepository.update_state inside a transfer.  An exception leaves   *)
(* the orchestrator and ends the receive loop.                              *)

UpdateMongo ==
    /\ phase = "update_mongo"
    /\ \/ mongo' = fsm /\ phase' = "update_hot" /\ UNCHANGED seen
       \/ /\ "mongo" \in StoreErrors /\ phase' = "finally" /\ seen' = seen \cup {"failed"}
          /\ UNCHANGED mongo
    /\ UNCHANGED <<fsm, flags, failures, text, xfer, reason, hot, end_reason, env>>

UpdateHot ==
    /\ phase = "update_hot"
    /\ \/ hot' = fsm /\ UNCHANGED seen
       \/ "redis" \in StoreErrors /\ seen' = seen \cup {"stale"} /\ UNCHANGED hot
    /\ \/ /\ after = "dispatch"
          /\ phase' = "dispatch"
          /\ UNCHANGED <<fsm, flags, reason>>
       \/ /\ after = "accepted"
          /\ end_session("transfer_accepted")
       \/ /\ after \in {"callback", "ai_resume"}
          /\ fsm' = Resumed(fsm, resume)
          /\ phase' = "receive"
          /\ UNCHANGED <<flags, reason>>
    /\ UNCHANGED <<failures, text, xfer, mongo, end_reason, env>>

-------------------------------------------------------------------------------
(* A turn: _run_pipeline and AIPipeline.process.                           *)

\* _check_auto_transfer.
AutoTransferDue(n) == n >= PIPELINE_FAILURE_THRESHOLD

Saturated(n) == IF n > PIPELINE_FAILURE_THRESHOLD THEN PIPELINE_FAILURE_THRESHOLD ELSE n

FailuresAfterRaise == Saturated(failures + 1)

\* process() raised with the FSM in s: the except branches of _run_pipeline.
PipelineRaises(s, sn) ==
    /\ failures' = FailuresAfterRaise
    /\ UNCHANGED text
    /\ IF AutoTransferDue(failures + 1)
       THEN Request(s, "listen", sn)
       ELSE /\ fsm' = DoTransition(s, "LISTENING")
            /\ phase' = "receive"
            /\ seen' = sn
            /\ UNCHANGED xfer

\* process() returned with the FSM in s, transcript t: the rest of _run_pipeline.
PipelineReturns(s, t, allowed) ==
    LET sn == seen \ {"attempted"} IN
    /\ failures' = 0
    /\ text' = t
    /\ IF t = "transfer" \/ (~allowed /\ env.policy \in {"G4", "G5"})
       THEN Request(s, "return", sn)
       ELSE /\ UNCHANGED xfer
            /\ seen' = sn
            /\ IF allowed
               THEN fsm' = s /\ phase' = "save_turn"
               ELSE fsm' = DoTransition(s, "LISTENING") /\ phase' = "receive"

_run_pipeline ==
    LET s == DoTransition(fsm, "SPEAKING_DETECTED") IN
    IF is_transfer_in_progress(s)
    THEN /\ fsm' = s
         /\ UNCHANGED <<phase, failures, text, xfer, seen>>
    ELSE IF can_transition(s, "PROCESSING")
    THEN /\ fsm' = "PROCESSING" /\ phase' = "stt"
         /\ seen' = seen \ {"blocked"}
         /\ UNCHANGED <<failures, text, xfer>>
    ELSE PipelineRaises(s, seen \ {"blocked"})

\* PolicyGate.evaluate, which the pipeline calls without an auth_state.
PolicyAllows == env.policy \in {"G1", "G2"}

\* A blocked turn goes from PROCESSING to RESPONDING; where the table refuses
\* that, fsm.transition raises out of process().
PolicyBlocks(t) ==
    IF can_transition(fsm, "RESPONDING")
    THEN PipelineReturns("RESPONDING", t, FALSE)
    ELSE PipelineRaises(fsm, seen \cup {"blocked"})

Stt ==
    /\ phase = "stt"
    /\ \/ \E t \in {"plain", "transfer"} :
            IF PolicyAllows
            THEN /\ fsm' = "INFERRING" /\ phase' = "llm" /\ text' = t
                 /\ UNCHANGED <<failures, xfer, seen>>
            ELSE PolicyBlocks(t)
       \/ PipelineReturns(fsm, "", TRUE)
    /\ UNCHANGED <<flags, reason, store, env>>

Llm ==
    /\ phase = "llm"
    /\ \/ /\ fsm' = "RESPONDING" /\ phase' = "tts"
          /\ UNCHANGED <<failures, text, xfer, seen>>
       \/ PipelineReturns("RESPONDING", text, TRUE)
    /\ UNCHANGED <<flags, reason, store, env>>

\* With or without a synthesis: the reply goes out as text when it failed.
Tts ==
    /\ phase = "tts"
    /\ PipelineReturns(fsm, text, TRUE)
    /\ UNCHANGED <<flags, reason, store, env>>

\* SessionRepository.save_turn under _persist_turn, which swallows what it
\* raises; the turn then ends in LISTENING.
\* Mutant: a turn whose save failed returns without going back to LISTENING.
TurnDone_Dangling == phase' = "receive" /\ UNCHANGED fsm
TurnDone == phase' = "receive" /\ fsm' = DoTransition(fsm, "LISTENING")

SaveTurnMongo ==
    /\ phase = "save_turn"
    /\ \/ mongo' = fsm /\ phase' = "save_turn_hot" /\ UNCHANGED fsm
       \/ "mongo" \in StoreErrors /\ TurnDone /\ UNCHANGED mongo
    /\ UNCHANGED <<flags, failures, text, xfer, reason, hot, end_reason, env, seen>>

\* The history insert (Mongo) comes before the Redis write.
SaveTurnHot ==
    /\ phase = "save_turn_hot" /\ TurnDone
    /\ \/ hot' = fsm
       \/ StoreErrors # {} /\ UNCHANGED hot
    /\ UNCHANGED <<flags, failures, text, xfer, reason, mongo, end_reason, env, seen>>

-------------------------------------------------------------------------------
(* The receive loop: handle_audio, handle_control, the disconnect and the   *)
(* idle timeout.  Pings, unknown actions and bad JSON change no state.      *)

handle_audio ==
    /\ phase = "receive" /\ "listening" \in flags
    /\ \/ /\ flags' = flags \cup {"buffered"}      \* below MIN_AUDIO_BYTES
          /\ UNCHANGED <<phase, fsm, failures, text, xfer, seen>>
       \/ flags' = flags \ {"buffered"} /\ _run_pipeline
    /\ UNCHANGED <<reason, store, env>>

start_listening ==
    /\ phase = "receive"
    /\ flags' = (flags \cup {"listening"}) \ {"buffered"}
    /\ fsm' = DoTransition(fsm, "LISTENING")
    /\ UNCHANGED <<phase, failures, text, xfer, reason, store, env, seen>>

stop_listening ==
    /\ phase = "receive" /\ flags' = flags \ {"listening", "buffered"}
    /\ IF "buffered" \in flags
       THEN _run_pipeline
       ELSE UNCHANGED <<phase, fsm, failures, text, xfer, seen>>
    /\ UNCHANGED <<reason, store, env>>

hangup ==
    /\ phase = "receive" /\ end_session("client_hangup")
    /\ UNCHANGED <<failures, text, xfer, store, env, seen>>

request_transfer ==
    /\ phase = "receive" /\ Request(fsm, "return", seen)
    /\ UNCHANGED <<flags, failures, text, reason, store, env>>

Disconnect ==
    /\ phase = "receive" /\ phase' = "finally"
    /\ UNCHANGED <<fsm, flags, failures, text, xfer, reason, store, env, seen>>

-------------------------------------------------------------------------------
(* The environment: the process dies; Redis drops the key (SESSION_TTL).    *)

Crash ==
    /\ phase # "away" /\ env.crashes > 0
    /\ phase' = "away"
    /\ env' = [env EXCEPT !.crashes = @ - 1]
    /\ seen' = seen \cup {"failed"} \cup (IF phase = "end_hot" THEN {"torn"} ELSE {})
    /\ UNCHANGED <<fsm, flags, failures, text, xfer, reason, store>>

HotExpires ==
    /\ phase \in {"receive", "away"} /\ hot # "NONE" /\ hot' = "NONE"
    /\ UNCHANGED <<phase, fsm, flags, failures, text, xfer, reason, mongo,
                   end_reason, env, seen>>

Internal == \/ _dispatch_to_cti \/ EndMongo \/ EndHot \/ Finally
            \/ UpdateMongo \/ UpdateHot
            \/ Stt \/ Llm \/ Tts \/ SaveTurnMongo \/ SaveTurnHot
Client == \/ handle_audio \/ start_listening \/ stop_listening \/ hangup
          \/ request_transfer \/ Disconnect
SessionNext == Create \/ Restore \/ Internal \/ Client \/ Crash \/ HotExpires

SessionSpec == SessionInit /\ [][SessionNext]_sessionVars
FairSessionSpec == SessionSpec /\ WF_sessionVars(Internal)

-------------------------------------------------------------------------------

\* No turn is left dangling: when the loop waits for the next message the FSM
\* is in none of the states of a turn, whichever stage failed, was blocked or
\* could not be saved (each return of _run_pipeline goes back to LISTENING).
NoDanglingTurn ==
    phase = "receive" =>
        fsm \notin {"SPEAKING_DETECTED", "PROCESSING", "INFERRING", "RESPONDING", "ENDED"}

\* An accepted transfer is final.  The AI takes no further turn, even when the
\* process dies before the session is ended and the client reconnects to the
\* saved state (restore_or_create_orchestrator); only a transfer whose Redis write
\* failed can be forgotten that way.  And it is the recorded reason of the end:
\* the finally block, which calls end_session again, does not overwrite it,
\* unless a crash or a store failure kept the first call from finishing.
AcceptedIsFinal ==
    "accepted" \in seen =>
        /\ "stale" \notin seen => phase \notin TurnPhase
        /\ mongo = "ENDED" /\ seen \cap {"failed", "torn"} = {} => end_reason = "transfer_accepted"

\* No connection serves a session whose document says ENDED, whatever failed,
\* except when end_session was torn between its Mongo and its Redis write:
\* restore_hot_state then trusts the key that was left behind.
EndedNeverResumed == phase = "receive" /\ "torn" \notin seen => mongo # "ENDED"

\* Every message the loop takes up is dealt with: the turn, the transfer with
\* all its retries and the closing of the session come to an end, with the
\* loop waiting again or the connection gone.
HandlersReturn == phase \in TurnPhase \cup TransferPhase \cup EndPhase
                      ~> phase \in {"receive", "away"}

\* A turn that policy G4 or G5 blocks is handed to a human agent.
PolicyBlockTransfers ==
    phase = "receive" /\ "blocked" \in seen /\ env.policy \in {"G4", "G5"}
        => "attempted" \in seen

===============================================================================
