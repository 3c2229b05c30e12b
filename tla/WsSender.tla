-------------------------------- MODULE WsSender -------------------------------
(***************************************************************************)
(* BoundedWSSender (core/ws_backpressure.py): the bounded send queue of a  *)
(* WebSocket session.  The endpoint enqueues and closes, _drain_loop pops  *)
(* and sends, and the client may be slow, gone, or alive.                  *)
(***************************************************************************)
EXTENDS Naturals, Sequences, Functions

CONSTANTS
    max_queue_size,
    MaxEvents         \* bound: events enqueued in a behaviour

ASSUME SenderAssumption == max_queue_size \in Nat \ {0} /\ MaxEvents \in Nat

VARIABLES
    queue,      \* _queue: events with their name and a serial number
    closed,     \* _closed
    task,       \* _drain_loop: not started, waiting, sending, ended or cancelled
    sending,    \* the event popped and being sent, as a sequence of at most one
    close_pc,   \* the endpoint's call of close()
    enqueued,      \* events enqueued so far
    sent,       \* history: events the client got
    accepted,   \* history: events for which enqueue returned True
    evicted,    \* history: accepted events taken out of the queue again
    cut         \* history: the last event enqueued when a send failed, or outlasted
                \* the second that close() waits

senderVars == <<queue, closed, task, sending, close_pc, enqueued, sent, accepted, evicted, cut>>

AUDIO_EVENT_NAMES == {"tts_ready"}
Names == AUDIO_EVENT_NAMES \cup {"hangup"}
Event(name) == [name |-> name, id |-> enqueued + 1]
IsAudio(e) == e.name \in AUDIO_EVENT_NAMES

SenderInit ==
    /\ queue = <<>> /\ closed = FALSE /\ task = "none" /\ sending = <<>>
    /\ close_pc = "open" /\ enqueued = 0
    /\ sent = <<>> /\ accepted = {} /\ evicted = {} /\ cut = 0

start ==
    /\ task = "none" /\ close_pc = "open"
    /\ task' = "waiting"
    /\ UNCHANGED <<queue, closed, sending, close_pc, enqueued, sent, accepted, evicted, cut>>

-------------------------------------------------------------------------------
(* enqueue, called by the endpoint while it has not closed the sender.      *)

HasRoom == Len(queue) < max_queue_size

\* Positions whose event may make way for a new one.
Evictable == {i \in DOMAIN queue : IsAudio(queue[i])}

Victim == CHOOSE i \in Evictable : \A j \in Evictable : i <= j

\* del self._queue[index]
Without(q, index) == SubSeq(q, 1, index - 1) \o SubSeq(q, index + 1, Len(q))

Append1(name, q) ==
    /\ queue' = Append(q, Event(name))
    /\ accepted' = accepted \cup {Event(name)}

enqueue(name) ==
    /\ close_pc = "open" /\ enqueued < MaxEvents
    /\ enqueued' = enqueued + 1
    /\ \/ ~closed /\ HasRoom /\ Append1(name, queue) /\ UNCHANGED evicted
       \/ /\ ~closed /\ ~HasRoom
          /\ name \in AUDIO_EVENT_NAMES /\ Evictable # {}
          /\ Append1(name, Without(queue, Victim))
          /\ evicted' = evicted \cup {queue[Victim]}
       \/ /\ closed \/ (~HasRoom /\ (name \notin AUDIO_EVENT_NAMES \/ Evictable = {}))
          /\ UNCHANGED <<queue, accepted, evicted>>
    /\ UNCHANGED <<closed, task, sending, close_pc, sent, cut>>

-------------------------------------------------------------------------------
(* _drain_loop.  The wait ends when notified and after a second anyway.     *)

LoopEnds == queue = <<>> /\ closed

\* Mutant: the loop sends the newest event first.
Pop_Newest ==
    sending' = <<queue[Len(queue)]>> /\ queue' = SubSeq(queue, 1, Len(queue) - 1)
Pop == sending' = <<Head(queue)>> /\ queue' = Tail(queue)

Round ==
    \/ LoopEnds /\ task' = "ended" /\ sending' = <<>> /\ UNCHANGED queue
    \/ ~LoopEnds /\ queue # <<>> /\ Pop /\ task' = "sending"
    \/ ~LoopEnds /\ queue = <<>> /\ task' = "waiting" /\ sending' = <<>> /\ UNCHANGED queue

Wake ==
    /\ task = "waiting" /\ Round
    /\ UNCHANGED <<closed, close_pc, enqueued, sent, accepted, evicted, cut>>

Sent ==
    /\ task = "sending" /\ Round
    /\ sent' = sent \o sending
    /\ UNCHANGED <<closed, close_pc, enqueued, accepted, evicted, cut>>

SendFailed ==
    /\ task = "sending"
    /\ closed' = TRUE /\ sending' = <<>> /\ task' = "ended" /\ cut' = enqueued
    /\ UNCHANGED <<queue, close_pc, enqueued, sent, accepted, evicted>>

-------------------------------------------------------------------------------
(* close.                                                                   *)

close ==
    /\ close_pc = "open"
    /\ closed' = TRUE
    /\ close_pc' = IF task = "none" THEN "closed" ELSE "joining"
    /\ UNCHANGED <<queue, task, sending, enqueued, sent, accepted, evicted, cut>>

Joined ==
    /\ close_pc = "joining" /\ task = "ended" /\ close_pc' = "closed"
    /\ UNCHANGED <<queue, closed, task, sending, enqueued, sent, accepted, evicted, cut>>

\* wait_for cancels the loop after a second: the event being sent is cut off.
JoinTimeout ==
    /\ close_pc = "joining" /\ task = "sending"
    /\ task' = "cancelled" /\ sending' = <<>> /\ close_pc' = "closed" /\ cut' = enqueued
    /\ UNCHANGED <<queue, closed, enqueued, sent, accepted, evicted>>

SenderNext ==
    \/ start \/ (\E name \in Names : enqueue(name))
    \/ Wake \/ Sent \/ SendFailed
    \/ close \/ Joined \/ JoinTimeout

-------------------------------------------------------------------------------

\* What the client got, is getting and will get.
Flow == sent \o sending \o queue

\* In the order in which the events were enqueued.
InOrder(s) == \A i, j \in DOMAIN s : i < j => s[i].id < s[j].id

\* While the loop runs, what the client got, is getting and will get is exactly
\* what enqueue accepted, in that order, less the audio that was evicted: state
\* and text events are neither lost, duplicated nor reordered by the drops.  When
\* it has ended, close() or not, nothing is left in the queue but what was
\* accepted before a send failed or outlasted close().
SentAsAccepted ==
    /\ task \in {"none", "waiting", "sending"} =>
          InOrder(Flow) /\ Range(Flow) = accepted \ evicted
    /\ task \in {"ended", "cancelled"} => \A i \in DOMAIN queue : queue[i].id <= cut

===============================================================================
