------------------------------ MODULE EventStream ------------------------------
(***************************************************************************)
(* SSEBroadcaster of one pod and the /stream endpoints in front of it,     *)
(* composed with the alert pollers that publish: from Alertmanager to what *)
(* a client of the stream is sent.                                         *)
(***************************************************************************)
EXTENDS AlertPoller

CONSTANTS
    Clients,       \* clients of the streams
    max_conn,      \* SSE_MAX_CONNECTIONS_PER_POD
    maxsize        \* _QUEUE_MAXSIZE

ASSUME StreamAssumption ==
    IsFiniteSet(Clients) /\ max_conn \in Nat \ {0} /\ maxsize \in Nat \ {0}

VARIABLES
    bcast,     \* the broadcaster: "down" (not started, or in its backoff), "up", "stopped"
    stream,    \* each client: "none", "accepted" (slot taken, generator not begun),
               \* what it streams ("metrics", or a channel), "leaked" (dropped before
               \* it began)
    queue,     \* its asyncio.Queue; stop() puts None
    conveyed,  \* history: the alerts left firing by the events that were published
               \* before its stream began and those sent on it
    value,     \* _value of the SSE semaphore
    missed,    \* history: open streams of alerts that a message did not reach
    untold     \* history: open streams that stop() could not tell, or began after it

sseVars == <<bcast, stream, queue, conveyed, value, missed, untold>>
eventVars == <<pollVars, sseVars>>

StopItem == Event("None", "none")
AuditItem == Event("audit.append", "none")
Channels == {"alerts", "sessions", "audit"}
Subscribed == {c \in Clients : stream[c] = "alerts"}
Streaming == {c \in Clients : stream[c] \in Channels}

EventInit ==
    /\ PollInit /\ bcast = "down"
    /\ stream = [c \in Clients |-> "none"] /\ queue = [c \in Clients |-> <<>>]
    /\ conveyed = [c \in Clients |-> {}] /\ value = max_conn /\ missed = {} /\ untold = {}

-------------------------------------------------------------------------------
(* _run, _subscribe_loop and _fan_out.                                      *)

\* The pub/sub connection is (re)made.
SubscribeLoop ==
    /\ bcast = "down" /\ redis_ready
    /\ bcast' = "up" /\ listening' = TRUE
    /\ UNCHANGED <<firing, lock, pod, told, redis_ready, wire, outages, outagesLeft,
                   stream, queue, conveyed, value, missed, untold>>

\* It breaks: what is on it is lost, and what is published until the loop comes
\* back from its sleep.
ConnectionLost ==
    /\ bcast = "up" /\ Outage("connection")
    /\ bcast' = "down" /\ listening' = FALSE /\ wire' = <<>>
    /\ UNCHANGED <<firing, lock, pod, told, redis_ready, stream, queue, conveyed, value,
                   missed, untold>>

Full(c) == Len(queue[c]) >= maxsize
Put(S, item) == [c \in Clients |-> IF c \in S /\ ~Full(c) THEN Append(queue[c], item)
                                                          ELSE queue[c]]

_fan_out ==
    /\ bcast = "up" /\ wire # <<>>
    /\ wire' = Tail(wire) /\ queue' = Put(Subscribed, Head(wire))
    /\ missed' = missed \cup {c \in Subscribed : Full(c)}
    /\ UNCHANGED <<firing, lock, pod, told, redis_ready, listening, outages, outagesLeft,
                   bcast, stream, conveyed, value, untold>>

\* AuditEmitter.emit, of any pod, has published: the message is fanned out to the
\* audit streams as the alerts are to theirs.  Nothing publishes on the sessions
\* channel.
AuditPublished ==
    /\ bcast = "up"
    /\ queue' = Put({c \in Clients : stream[c] = "audit"}, AuditItem)
    /\ UNCHANGED <<bcast, stream, conveyed, value, missed, untold, pollVars>>

\* Mutant: the streams are left to find out by themselves.
Told_Nobody == {}
Told == Streaming

\* stop(): a sentinel for every queue that has room, then the task is cancelled.
StopBroadcaster ==
    /\ bcast # "stopped" /\ bcast' = "stopped"
    /\ queue' = Put(Told, StopItem) /\ untold' = {c \in Streaming : Full(c)}
    /\ listening' = FALSE /\ wire' = <<>>
    /\ UNCHANGED <<firing, lock, pod, told, redis_ready, outages, outagesLeft, stream,
                   conveyed, value, missed>>

-------------------------------------------------------------------------------
(* _sse_streaming_response and stream_metrics: a slot or 503.               *)

HasSlot == value > 0

Accept(c) ==
    /\ stream[c] = "none" /\ HasSlot
    /\ value' = value - 1 /\ stream' = [stream EXCEPT ![c] = "accepted"]
    /\ UNCHANGED <<bcast, queue, conveyed, missed, untold, pollVars>>

Begins(c, kind) == stream[c] = "accepted" /\ stream' = [stream EXCEPT ![c] = kind]
Late(c) == untold' = IF bcast = "stopped" THEN untold \cup {c} ELSE untold

\* The generator of /stream/alerts begins: it subscribes.
stream_alerts(c) ==
    /\ Begins(c, "alerts") /\ Late(c) /\ conveyed' = [conveyed EXCEPT ![c] = told]
    /\ missed' = IF bcast = "up" THEN missed ELSE missed \cup {c}
    /\ UNCHANGED <<bcast, queue, value, pollVars>>

\* Those of /stream/sessions.active and /stream/audit.tail subscribe, too.
stream_sessions_audit(c) ==
    /\ \E channel \in {"sessions", "audit"} : Begins(c, channel)
    /\ Late(c)
    /\ UNCHANGED <<bcast, queue, conveyed, missed, value, pollVars>>

\* That of /stream/metrics ticks until its client leaves.
stream_metrics(c) ==
    /\ Begins(c, "metrics")
    /\ UNCHANGED <<bcast, queue, conveyed, missed, untold, value, pollVars>>

\* The client is gone before the response is iterated: the generator never runs,
\* nor does its finally block.
Abandon(c) ==
    /\ stream[c] = "accepted" /\ Outage("abandon")
    /\ stream' = [stream EXCEPT ![c] = "leaked"]
    /\ UNCHANGED <<firing, lock, pod, told, redis_ready, wire, listening,
                   bcast, queue, conveyed, value, missed, untold>>

\* Mutant: release is skipped when the stream ends.
Released_Never == value
Released == value + 1

\* The finally blocks: unsubscribe, release.
EndStream(c) ==
    /\ stream' = [stream EXCEPT ![c] = "none"] /\ value' = Released
    /\ queue' = [queue EXCEPT ![c] = <<>>] /\ conveyed' = [conveyed EXCEPT ![c] = {}]
    /\ missed' = missed \ {c} /\ untold' = untold \ {c}

\* queue_iter, _redis_channel_stream: an item is sent, the sentinel ends the stream.
QueueIter(c) ==
    /\ stream[c] \in Channels /\ queue[c] # <<>>
    /\ IF Head(queue[c]) = StopItem
       THEN EndStream(c)
       ELSE /\ queue' = [queue EXCEPT ![c] = Tail(@)]
            /\ conveyed' = [conveyed EXCEPT ![c] = Leaves(@, Head(queue[c]))]
            /\ UNCHANGED <<stream, value, missed, untold>>
    /\ UNCHANGED <<bcast, pollVars>>

\* The client leaves: is_disconnected at the next item or tick, or the cancellation.
Disconnect(c) ==
    /\ stream[c] \in Channels \cup {"metrics"} /\ EndStream(c)
    /\ UNCHANGED <<bcast, pollVars>>

Poll ==
    /\ \/ AlertChanges \/ Expires
       \/ \E p \in Pods : AmPoller(p) \/ stop(p)
    /\ UNCHANGED sseVars

EventNext ==
    \/ Poll \/ SubscribeLoop \/ ConnectionLost \/ _fan_out \/ AuditPublished
    \/ StopBroadcaster
    \/ \E c \in Clients : \/ Accept(c) \/ stream_alerts(c) \/ stream_sessions_audit(c)
                          \/ stream_metrics(c) \/ Abandon(c) \/ QueueIter(c) \/ Disconnect(c)

\* The loops of the workers and of the streams go on, and Redis expires keys.
Fairness ==
    /\ \A p \in Pods : WF_eventVars(AmPoller(p) /\ UNCHANGED sseVars)
    /\ WF_eventVars(Expires /\ lock \notin Leading /\ UNCHANGED sseVars)
    /\ WF_eventVars(SubscribeLoop) /\ WF_eventVars(_fan_out)
    /\ \A c \in Clients : WF_eventVars(QueueIter(c))

EventSpec == EventInit /\ [][EventNext]_eventVars /\ Fairness

-------------------------------------------------------------------------------

\* One pod polls at a time: a second one enters _leader_loop only when a leader
\* came too late to renew its lock, also because RenewExpire prolongs whatever
\* lock it finds.
OneLeader == redis_ready /\ "late" \notin outages => Cardinality(Leading) <= 1

\* No more streams than SSE_MAX_CONNECTIONS_PER_POD, and no slot lost or given back
\* twice: each is free, or held by a stream that will give it back, or by a
\* response that was dropped before its generator ran.
SlotsConserved ==
    /\ value \in Nat
    /\ value + Cardinality({c \in Clients : stream[c] # "none"}) = max_conn

Lossy(c) == c \in missed \cup untold \/ outages \ {"fetch", "abandon"} # {} \/ ~redis_ready

\* What a stream has conveyed settles on what Alertmanager holds once that stops
\* changing, even after failed fetches, each of which "resolves" every alert for a
\* while; not after a lost publish, a lost connection, a full queue or a change of
\* leader, whose _prev_fingerprints is not its predecessor's.
StreamConverges ==
    \A c \in Clients, S \in SUBSET Alerts :
        <>[](firing = S /\ stream[c] = "alerts") => <>[](conveyed[c] = S \/ Lossy(c))

\* Once the broadcaster is stopped the streams of all its channels end by
\* themselves, unless stop() found their queue full or they began after it.
StreamsEnd ==
    \A c \in Clients :
        bcast = "stopped" /\ c \in Streaming ~> c \notin Streaming \/ c \in untold

===============================================================================
