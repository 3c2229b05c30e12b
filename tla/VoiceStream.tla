------------------------------ MODULE VoiceStream ------------------------------
(***************************************************************************)
(* VoicebotAiServicer.StreamSession (grpc_server/voicebot_service.py): the *)
(* gRPC streams of ONE session id on a pod.  Each has a reader task, which *)
(* takes the chunks and calls the orchestrator, a writer, which yields the *)
(* responses of an unbounded queue, and the cleanup of its finally block.  *)
(* What a turn does is in CallSession; here it only returns its events.    *)
(***************************************************************************)
EXTENDS Integers, Sequences

CONSTANTS
    Streams, NoStream,
    MIN_AUDIO,        \* voice frames that make MIN_AUDIO_BYTES
    MaxChunks,        \* bound: chunks received by the streams together
    MaxStreamFaults   \* bound: cancelled calls, exceptions and expired leases

ASSUME StreamAssumption ==
    /\ NoStream \notin Streams /\ MIN_AUDIO \in Nat \ {0}
    /\ MaxChunks \in Nat /\ MaxStreamFaults \in Nat

VARIABLES
    reader,     \* per stream: what the reader task is waiting for or doing
    writer,     \* per stream: the generator and its finally block
    session_id, \* per stream: the nonlocal variable is set
    orchestrator,   \* per stream: "none", "live" or, once a transfer ended it, "closed"
    voice,      \* per stream: last_speaking, buffered frames, turns begun, the chunk
    response_queue, \* per stream
    heard,      \* per stream: turns begun when the bridge was last told to clear
                \* its buffer; history: the turns whose END_OF_TURN it was sent, and
                \* those that were handed over to an agent
    lease,      \* the stream whose SET NX created the key, or NoStream
    redis,      \* the connection pool of the pod is open
    chunks,     \* chunks received so far
    odd         \* history: "early", a call was cancelled while it acquired the
                \* lease; "expired", the lease of a running call ran out; the rest
                \* are cancelled calls and exceptions

streamVars == <<reader, writer, session_id, orchestrator, voice, response_queue,
                heard, lease, redis, chunks, odd>>

Silent == [last |-> FALSE, frames |-> 0, turns |-> 0, chunk |-> "none"]
Deaf == [cleared |-> 0, ended |-> {}, handed |-> {}]

StreamInit ==
    /\ reader = [s \in Streams |-> "none"] /\ writer = [s \in Streams |-> "none"]
    /\ session_id = [s \in Streams |-> FALSE]
    /\ orchestrator = [s \in Streams |-> "none"]
    /\ voice = [s \in Streams |-> Silent]
    /\ response_queue = [s \in Streams |-> << >>]
    /\ heard = [s \in Streams |-> Deaf]
    /\ lease = NoStream /\ redis = FALSE /\ chunks = 0 /\ odd = << >>

Oddly(kind) == Len(odd) < MaxStreamFaults /\ odd' = Append(odd, kind)
Never(kind) == \A i \in DOMAIN odd : odd[i] # kind

Reader(s, label) == reader' = [reader EXCEPT ![s] = label]
Writer(s, label) == writer' = [writer EXCEPT ![s] = label]

-------------------------------------------------------------------------------
(* Responses, each with the turn it belongs to.  Those that only carry text *)
(* are left out: what was understood, "[ERROR]" and "[TRANSFER]".           *)

Response(type, turn) == [type |-> type, turn |-> turn]

Types(event) ==
    CASE event = "tts_ready" -> <<"TTS_AUDIO">>
      [] event = "pipeline_done" -> <<"END_OF_TURN">>
      [] OTHER -> << >>

\* What the first n events add to the responses, one event after the other.
TypesOf(events) ==
    LET first[n \in 0..Len(events)] ==
            IF n = 0 THEN << >> ELSE first[n - 1] \o Types(events[n])
    IN  first[Len(events)]

Among(event, events) == \E i \in DOMAIN events : events[i] = event

\* Mutant: an error does not end the turn.
Forced_Never(events) == << >>
\* A turn that failed has no pipeline_done: the bridge must not wait for ever.
Forced(events) ==
    IF Among("error", events) /\ ~Among("pipeline_done", events)
    THEN <<"END_OF_TURN">> ELSE << >>

_outbound_to_responses(events, turn) ==
    LET types == TypesOf(events) \o Forced(events)
    IN  [i \in DOMAIN types |-> Response(types[i], turn)]

Put(s, responses) ==
    response_queue' = [response_queue EXCEPT ![s] = @ \o responses]

emit(s, events, turn) == Put(s, _outbound_to_responses(events, turn))

\* The sentinel of the reader's finally block, which every way out goes through.
\* Mutant: a client that hangs up is not among them.
Sentinel_NotOnHangup(s) == IF reader[s] = "recv" THEN << >> ELSE <<Response("none", 0)>>
Sentinel(s) == <<Response("none", 0)>>

\* An "[ERROR]" text and the end of no turn in particular.
Notice == <<Response("END_OF_TURN", 0)>>

ReaderEnds(s, responses) == Reader(s, "done") /\ Put(s, responses \o Sentinel(s))

-------------------------------------------------------------------------------
(* reader: the first chunk.                                                 *)

\* The server takes the call and starts both tasks.
StreamSession(s) ==
    /\ reader[s] = "none"
    /\ Reader(s, "recv") /\ Writer(s, "get")
    /\ UNCHANGED <<session_id, orchestrator, voice, response_queue, heard, lease,
                   redis, chunks, odd>>

Chunks == {"speech", "silence", "dtmf"}

\* session_id is set before the lease is acquired.
FirstChunk(s, chunk) ==
    /\ reader[s] = "recv" /\ ~session_id[s] /\ chunks < MaxChunks
    /\ chunks' = chunks + 1
    /\ voice' = [voice EXCEPT ![s] = [@ EXCEPT !.chunk = chunk]]
    /\ session_id' = [session_id EXCEPT ![s] = TRUE]
    /\ Reader(s, "lease")
    /\ UNCHANGED <<writer, orchestrator, response_queue, heard, lease, redis, odd>>

\* Mutant: the refused stream keeps its session_id, so that its cleanup
\* releases the lease of the stream that holds it.
SessionIdAfterRefusal_Kept == TRUE
SessionIdAfterRefusal == FALSE

acquire_session_lease(s) ==
    /\ reader[s] = "lease" /\ redis
    /\ \/ /\ lease = NoStream /\ lease' = s /\ Reader(s, "restore")
          /\ UNCHANGED <<session_id, response_queue>>
       \/ /\ lease # NoStream
          /\ session_id' = [session_id EXCEPT ![s] = SessionIdAfterRefusal]
          /\ ReaderEnds(s, Notice) /\ UNCHANGED lease
    /\ UNCHANGED <<writer, orchestrator, voice, heard, redis, chunks, odd>>

\* A session, restored or new, to listen to.
restore_or_create_orchestrator(s) ==
    /\ reader[s] = "restore" /\ redis /\ Reader(s, "first")
    /\ orchestrator' = [orchestrator EXCEPT ![s] = "live"]
    /\ UNCHANGED <<writer, session_id, voice, response_queue, heard, lease, redis,
                   chunks, odd>>

\* The session had ended (None), which is told like an exception.
SessionEnded(s) ==
    /\ reader[s] = "restore" /\ redis /\ ReaderEnds(s, Notice)
    /\ UNCHANGED <<writer, session_id, orchestrator, voice, heard, lease, redis,
                   chunks, odd>>

\* An exception in the repository or the orchestrator.  Once close_redis has run
\* every access raises RuntimeError, which none of them expects.
ReaderRaises(s) ==
    /\ \/ reader[s] \in {"lease", "restore"} /\ ~redis /\ UNCHANGED odd
       \/ reader[s] \in {"restore", "turn"} /\ Oddly("raise")
    /\ ReaderEnds(s, Notice)
    /\ UNCHANGED <<writer, session_id, orchestrator, voice, heard, lease, redis, chunks>>

-------------------------------------------------------------------------------
(* reader: every chunk.                                                     *)

\* The first chunk is handled after the session was set up.
Takes(s, chunk) ==
    \/ /\ reader[s] = "first" /\ chunk = voice[s].chunk /\ UNCHANGED chunks
    \/ /\ reader[s] = "recv" /\ session_id[s] /\ chunks < MaxChunks
       /\ chunks' = chunks + 1

\* handle_control knows no action "dtmf": the digit is answered by an error.
Dtmf(s) ==
    /\ Takes(s, "dtmf") /\ Reader(s, "recv")
    /\ emit(s, <<"error">>, 0) /\ voice' = [voice EXCEPT ![s] = [@ EXCEPT !.chunk = "none"]]
    /\ UNCHANGED <<writer, session_id, orchestrator, heard, lease, redis, odd>>

SpeechEnds(s, speaking) == ~speaking /\ voice[s].last

\* handle_audio adds the frame to the buffer; the end of speech does not.
Frames(s, speaking) == voice[s].frames + (IF SpeechEnds(s, speaking) THEN 0 ELSE 1)

\* handle_audio runs the pipeline at the threshold, stop_listening on anything.
RunsPipeline(s, speaking) ==
    Frames(s, speaking) >= (IF SpeechEnds(s, speaking) THEN 1 ELSE MIN_AUDIO)

BargeIn(s, speaking) == speaking /\ ~voice[s].last
Clear(s) == Response("CLEAR", voice[s].turns)

\* Mutant: clear_buffer overtakes the audio that is still queued.
Cleared_First(s) == <<Clear(s)>> \o response_queue[s]
Cleared(s) == Append(response_queue[s], Clear(s))

Listened(s, speaking) ==
    LET turn == RunsPipeline(s, speaking)
    IN  [last |-> speaking, chunk |-> "none",
         frames |-> IF turn THEN 0 ELSE Frames(s, speaking),
         turns |-> voice[s].turns + (IF turn THEN 1 ELSE 0)]

Voice(s) ==
    \E speaking \in BOOLEAN :
        /\ Takes(s, IF speaking THEN "speech" ELSE "silence")
        /\ response_queue' =
              [response_queue EXCEPT ![s] = IF BargeIn(s, speaking) THEN Cleared(s) ELSE @]
        /\ Reader(s, IF RunsPipeline(s, speaking) THEN "turn" ELSE "recv")
        /\ voice' = [voice EXCEPT ![s] = Listened(s, speaking)]
        /\ UNCHANGED <<writer, session_id, orchestrator, heard, lease, redis, odd>>

\* What _run_pipeline may return: an answer with or without audio, a failure, a
\* transfer, or a failure that led to one.  A closed session cannot leave ENDED.
Outcomes(state) ==
    {<<"error">>, <<"error", "transfer_update">>} \cup
    (IF state = "closed" THEN {} ELSE
        {<<"stt_result", "tts_ready", "pipeline_done">>, <<"stt_result", "pipeline_done">>,
         <<"stt_result", "error">>, <<"stt_result", "transfer_update">>})

HandedOver(events) == Among("transfer_update", events) /\ ~Among("error", events)

\* The reader does not look at should_close: an accepted transfer closes the
\* session and the stream goes on.
TurnReturns(s) ==
    /\ reader[s] = "turn" /\ Reader(s, "recv")
    /\ \E events \in Outcomes(orchestrator[s]) :
          /\ emit(s, events, voice[s].turns)
          /\ heard' = IF ~HandedOver(events) THEN heard
                      ELSE [heard EXCEPT ![s].handed = @ \cup {voice[s].turns}]
          /\ \/ UNCHANGED orchestrator
             \/ /\ Among("transfer_update", events)
                /\ orchestrator' = [orchestrator EXCEPT ![s] = "closed"]
    /\ UNCHANGED <<writer, session_id, voice, lease, redis, chunks, odd>>

\* The client closes its side of the stream.
ClientHangup(s) ==
    /\ reader[s] = "recv" /\ ReaderEnds(s, << >>)
    /\ UNCHANGED <<writer, session_id, orchestrator, voice, heard, lease, redis,
                   chunks, odd>>

-------------------------------------------------------------------------------
(* The writer and the finally block.                                        *)

\* The bridge drops its audio when it is told to.  It does not look at the type of
\* a response: that a turn is over is history.
HeardAfter(h, r) ==
    CASE r.type = "CLEAR" -> [h EXCEPT !.cleared = r.turn]
      [] r.type = "END_OF_TURN" -> [h EXCEPT !.ended = @ \cup {r.turn}]
      [] OTHER -> h

Yield(s) ==
    /\ writer[s] = "get" /\ response_queue[s] # << >>
    /\ response_queue' = [response_queue EXCEPT ![s] = Tail(@)]
    /\ IF Head(response_queue[s]).type = "none"
       THEN Writer(s, "join") /\ UNCHANGED heard
       ELSE /\ heard' = [heard EXCEPT ![s] = HeardAfter(@, Head(response_queue[s]))]
            /\ UNCHANGED writer
    /\ UNCHANGED <<reader, session_id, orchestrator, voice, lease, redis, chunks, odd>>

\* The task is cancelled where it waits: the generator goes to its finally
\* block.  While that joins the reader the cancellation is suppressed; later it
\* is no Exception, and the rest of the block is skipped.
AfterCancel(label) ==
    CASE label = "get" -> "join" [] label \in {"release", "end"} -> "done" [] OTHER -> label

\* The client cancels the call or is gone.
Cancelled(s) ==
    /\ writer[s] \in {"get", "join", "release", "end"} /\ Oddly("cancel")
    /\ Writer(s, AfterCancel(writer[s]))
    /\ UNCHANGED <<reader, session_id, orchestrator, voice, response_queue, heard,
                   lease, redis, chunks>>

\* reader_task.cancel(): a SET that is on its way may or may not have been
\* carried out.
Join(s) ==
    /\ writer[s] = "join" /\ Reader(s, "done")
    /\ Writer(s, IF session_id[s] THEN "release" ELSE "done")
    /\ \/ UNCHANGED lease
       \/ reader[s] = "lease" /\ lease = NoStream /\ redis /\ lease' = s
    /\ odd' = IF reader[s] = "lease" THEN Append(odd, "early") ELSE odd
    \* Nobody gets the rest, or looks at the local variables again.
    /\ response_queue' = [response_queue EXCEPT ![s] = << >>]
    /\ voice' = [voice EXCEPT ![s] = Silent] /\ heard' = [heard EXCEPT ![s] = Deaf]
    /\ UNCHANGED <<session_id, orchestrator, redis, chunks>>

\* DEL, whoever holds the key by now; a failure is logged.
release_session_lease(s) ==
    /\ writer[s] = "release" /\ Writer(s, "end")
    /\ lease' = IF redis THEN NoStream ELSE lease
    /\ UNCHANGED <<reader, session_id, orchestrator, voice, response_queue, heard,
                   redis, chunks, odd>>

\* The orchestrator goes with the stream.
end_session(s) ==
    /\ writer[s] = "end" /\ Writer(s, "done")
    /\ orchestrator' = [orchestrator EXCEPT ![s] = "none"]
    /\ session_id' = [session_id EXCEPT ![s] = FALSE]
    /\ UNCHANGED <<reader, voice, response_queue, heard, lease, redis, chunks, odd>>

\* LEASE_TTL, which nothing renews.
LeaseExpires ==
    /\ lease # NoStream /\ lease' = NoStream
    /\ IF writer[lease] = "done" THEN UNCHANGED odd ELSE Oddly("expired")
    /\ UNCHANGED <<reader, writer, session_id, orchestrator, voice, response_queue,
                   heard, redis, chunks>>

ReaderStep(s) ==
    \/ acquire_session_lease(s) \/ restore_or_create_orchestrator(s) \/ SessionEnded(s)
    \/ ReaderRaises(s) \/ TurnReturns(s) \/ (reader[s] = "first" /\ (Dtmf(s) \/ Voice(s)))

WriterStep(s) == Yield(s) \/ Join(s) \/ release_session_lease(s) \/ end_session(s)

ClientStep(s) ==
    \/ \E chunk \in Chunks : FirstChunk(s, chunk)
    \/ reader[s] = "recv" /\ (Dtmf(s) \/ Voice(s))
    \/ ClientHangup(s) \/ Cancelled(s)

StreamNext == LeaseExpires \/ \E s \in Streams : ReaderStep(s) \/ WriterStep(s) \/ ClientStep(s)

-------------------------------------------------------------------------------

Running(s) == writer[s] \notin {"none", "done"}

\* Barge-in: after the bridge was told to clear its buffer it is sent no audio of
\* a turn that had begun before the caller spoke, although the audio of that turn
\* may still have been queued at the time.
FreshAudio ==
    \A s \in Streams : \A i \in DOMAIN response_queue[s] :
        response_queue[s][i].type = "TTS_AUDIO" =>
            /\ heard[s].cleared < response_queue[s][i].turn
            /\ \A j \in 1 .. i - 1 : response_queue[s][j].type = "CLEAR" =>
                  response_queue[s][j].turn < response_queue[s][i].turn

\* A stream that serves the session holds its lease, whatever refused, failed and
\* departed streams of the same session release, unless the lease ran out or a
\* call was cancelled in the middle of acquiring it.
LeaseKept ==
    Never("expired") /\ Never("early") =>
        \A s \in Streams :
            orchestrator[s] # "none" /\ writer[s] \in {"get", "join", "release"} => lease = s

\* Every turn that the pipeline has returned from, failed ones included, was answered
\* by an END_OF_TURN of its own, or the answer is queued: no answer of a later turn,
\* of a digit or of the stream as a whole stands in for it.  A turn that was handed
\* over to an agent is the exception: it sends a text and no END_OF_TURN.
TurnsAnswered ==
    \A s \in Streams : writer[s] = "get" =>
        \A n \in (1 .. voice[s].turns) \ heard[s].handed :
            \/ n = voice[s].turns /\ reader[s] \in {"turn", "done"}
            \/ n \in heard[s].ended
            \/ \E i \in DOMAIN response_queue[s] :
                  response_queue[s][i] = Response("END_OF_TURN", n)

\* Once the reader is finished, by a hang-up, a refusal or an exception, the
\* handler comes to its end too: the writer is never left waiting at the queue.
WriterLetGo == \A s \in Streams : (reader[s] = "done") ~> (writer[s] = "done")

===============================================================================
