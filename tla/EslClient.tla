------------------------------- MODULE EslClient -------------------------------
(***************************************************************************)
(* esl.Client of the orchestrator and the callbacks of cmd/main.go it      *)
(* drives.  Commands of all goroutines share one TCP connection to         *)
(* FreeSWITCH: SendAPI holds mu from the write until an answer arrives     *)
(* in apiRespCh or 10 s pass; eventLoop is the only reader, routes         *)
(* answers to apiRespCh and runs the event handlers itself, among them     *)
(* onChannelCreate, which sends a kill when the store refuses the call.    *)
(* After a lost connection autoReconnect connects again, while commands go *)
(* on, and releases the sessions that "show channels" no longer lists.     *)
(* FreeSWITCH is external.                                                 *)
(***************************************************************************)
EXTENDS Integers, Sequences, FiniteSets

CONSTANTS
    Callers,       \* goroutines of the HTTP API and the IVR
    Uuids,         \* FreeSWITCH channels
    Outbound,      \* those that CreateCall originates
    nodeCalls,     \* MaxSessions
    RespCap,       \* capacity of apiRespCh (16 in the code)
    MaxCmds,       \* bound: commands of the callers
    MaxDrops       \* bound: lost connections

ASSUME EslAssumption ==
    /\ nodeCalls \in Nat /\ RespCap \in Nat \ {0}
    /\ MaxCmds \in Nat /\ MaxDrops \in Nat
    /\ Callers \cap -1..MaxDrops = {} /\ Outbound \subseteq Uuids

Recs == 1..MaxDrops                      \* reconnect goroutines, one per drop
Loop == 0                                \* the goroutine of eventLoop
Procs == Callers \cup Recs \cup {Loop}
Nobody == -1
NoReply == [id |-> 0, chans |-> {}]

VARIABLES
    link,        \* c.conn: "up"; "down", dead; "nil", Connect is dialling;
                 \* "auth", authenticating; "subscribed", reading the last answer
    loop,        \* eventLoop: "reading" or "off"
    mu,          \* holder of Client.mu
    pc,          \* progress of every goroutine
    own,         \* id of the last command of each goroutine
    got,         \* the answer it took for that command
    issued,      \* commands written so far
    wire,        \* commands on their way to FreeSWITCH
    stream,      \* answers and events on their way back, in order
    apiRespCh,
    target,      \* the channel a goroutine is killing or originating
    fate,        \* FreeSWITCH's channels
    sessions,    \* localMap
    drops,
    abandoned,   \* history: a command was given up with its answer still to come
    panicked     \* a goroutine without recover has ended the process

eslVars == <<link, loop, mu, pc, own, got, issued, wire, stream, apiRespCh,
          target, fate, sessions, drops, abandoned, panicked>>
clientVars == <<mu, pc, own, got, issued, apiRespCh, target, sessions, abandoned, panicked>>

EslInit ==
    /\ link = "up" /\ loop = "reading"
    /\ mu = Nobody
    /\ pc = [p \in Procs |-> "idle"]
    /\ own = [p \in Procs |-> 0]
    /\ got = [p \in Procs |-> NoReply]
    /\ issued = 0
    /\ wire = <<>> /\ stream = <<>> /\ apiRespCh = <<>>
    /\ target = [p \in Procs |-> Nobody]
    /\ fate = [u \in Uuids |-> "new"]
    /\ sessions = {}
    /\ drops = 0 /\ abandoned = FALSE /\ panicked = FALSE

channels == {u \in Uuids : fate[u] = "up"}

Verb(p) ==
    CASE p \in Recs -> "show"
      [] p = Loop -> "kill"
      [] OTHER -> IF target[p] = Nobody THEN "api" ELSE "originate"

Command(p) == [id |-> issued + 1, verb |-> Verb(p), u |-> target[p]]

Reply(c) == [type |-> "reply", id |-> c.id, chans |-> IF c.verb = "show" THEN channels ELSE {}]
Event(t, u) == [type |-> t, u |-> u]

\* What FreeSWITCH reports reaches only a client that has subscribed.
Subscribed == link \in {"subscribed", "up"}
Report(msgs) == stream' = IF Subscribed THEN stream \o msgs ELSE stream

---------------------------------- \* SendAPI ----------------------------------

HasRoom == Cardinality(sessions) < nodeCalls

MayStart(p) == p \in Callers /\ pc[p] = "idle" /\ issued < MaxCmds

Start(p) ==
    /\ MayStart(p)
    /\ pc' = [pc EXCEPT ![p] = "lock"] /\ target' = [target EXCEPT ![p] = Nobody]
    /\ UNCHANGED <<link, loop, mu, own, got, issued, wire, stream, apiRespCh,
                   fate, sessions, drops, abandoned, panicked>>

\* The session is stored before the channel exists; refused, there is no command.
CreateCall(p) ==
    /\ MayStart(p) /\ HasRoom
    /\ \E u \in Outbound \ sessions :
          /\ fate[u] = "new" /\ \A q \in Procs : target[q] # u
          /\ sessions' = sessions \cup {u} /\ target' = [target EXCEPT ![p] = u]
    /\ pc' = [pc EXCEPT ![p] = "lock"]
    /\ UNCHANGED <<link, loop, mu, own, got, issued, wire, stream, apiRespCh,
                   fate, drops, abandoned, panicked>>

\* CreateCall releases its session when Originate returns an error.
WithoutTarget(p) == IF p \in Callers THEN sessions \ {target[p]} ELSE sessions

\* Mutant: commands are not serialised.
MayLock_Any == TRUE
MayLock == mu = Nobody

\* On a dead connection the kernel may still take the command.
Send(p) ==
    /\ pc[p] = "lock" /\ MayLock /\ link # "nil"
    /\ got' = [got EXCEPT ![p] = NoReply]
    /\ mu' = p
    /\ pc' = [pc EXCEPT ![p] = "wait"]
    /\ own' = [own EXCEPT ![p] = issued + 1]
    /\ issued' = issued + 1
    /\ wire' = IF link = "down" THEN wire ELSE Append(wire, Command(p))
    /\ UNCHANGED <<link, loop, stream, apiRespCh, target, fate, sessions, drops, abandoned, panicked>>

SendFails(p) ==
    /\ pc[p] = "lock" /\ MayLock /\ link = "down"
    /\ got' = [got EXCEPT ![p] = NoReply]
    /\ pc' = [pc EXCEPT ![p] = "idle"]
    /\ sessions' = WithoutTarget(p)
    /\ UNCHANGED <<link, loop, mu, own, issued, wire, stream, apiRespCh, target, fate, drops,
                   abandoned, panicked>>

\* Writing to the nil connection panics: net/http recovers an API handler, whose
\* deferred Unlock has run; nothing recovers the goroutines of the IVR, of the
\* commands from other nodes and of autoReconnect.
SendPanics(p) ==
    /\ pc[p] = "lock" /\ MayLock /\ link = "nil"
    /\ got' = [got EXCEPT ![p] = NoReply]
    /\ pc' = [pc EXCEPT ![p] = "idle"]
    /\ panicked' \in (IF p \in Callers THEN BOOLEAN ELSE {TRUE})
    /\ UNCHANGED <<link, loop, mu, own, issued, wire, stream, apiRespCh, target, fate, sessions,
                   drops, abandoned>>

Receive(p) ==
    /\ pc[p] = "wait" /\ apiRespCh # <<>>
    /\ got' = [got EXCEPT ![p] = Head(apiRespCh)]
    /\ apiRespCh' = Tail(apiRespCh)
    /\ mu' = Nobody
    /\ pc' = [pc EXCEPT ![p] = IF p \in Recs THEN "release" ELSE "idle"]
    /\ UNCHANGED <<link, loop, own, issued, wire, stream, target, fate, sessions, drops, abandoned,
                   panicked>>

\* The answer to command id has been or will be written by FreeSWITCH.
Coming(id) ==
    \/ \E i \in DOMAIN wire : wire[i].id = id
    \/ \E i \in DOMAIN stream : stream[i].type = "reply" /\ stream[i].id = id
    \/ \E i \in DOMAIN apiRespCh : apiRespCh[i].id = id

\* Ten seconds pass or the request's context is cancelled, at any time.
\* Mutant: SendAPI waits for its answer as long as it takes.
MayGiveUp_Never(p) == FALSE
MayGiveUp(p) == pc[p] = "wait"

Timeout(p) ==
    /\ MayGiveUp(p)
    /\ abandoned' = (abandoned \/ Coming(own[p]))
    /\ mu' = Nobody
    /\ pc' = [pc EXCEPT ![p] = "idle"]
    /\ sessions' = WithoutTarget(p)
    /\ UNCHANGED <<link, loop, own, got, issued, wire, stream, apiRespCh, target,
                   fate, drops, panicked>>

--------------------------- \* eventLoop and handlers ---------------------------

Take == /\ loop = "reading" /\ pc[Loop] = "idle" /\ stream # <<>>
        /\ stream' = Tail(stream)
        /\ UNCHANGED <<link, loop, mu, own, got, issued, wire, fate, drops, abandoned, panicked>>

RouteReply ==
    /\ Take /\ Head(stream).type = "reply"
    /\ \/ /\ Len(apiRespCh) < RespCap
          /\ apiRespCh' = Append(apiRespCh, [id |-> Head(stream).id, chans |-> Head(stream).chans])
       \/ Len(apiRespCh) >= RespCap /\ UNCHANGED apiRespCh
    /\ UNCHANGED <<pc, target, sessions>>

\* The call is known, originated here; or stored; or refused, because the store
\* is full (on all nodes together) or out of reach, and killed.
onChannelCreate ==
    /\ Take /\ Head(stream).type = "create" /\ UNCHANGED apiRespCh
    /\ LET u == Head(stream).u
       IN \/ u \in sessions /\ UNCHANGED <<pc, target, sessions>>
          \/ /\ u \notin sessions /\ HasRoom
             /\ sessions' = sessions \cup {u}
             /\ UNCHANGED <<pc, target>>
          \/ /\ u \notin sessions
             /\ target' = [target EXCEPT ![Loop] = u]
             /\ pc' = [pc EXCEPT ![Loop] = "lock"]
             /\ UNCHANGED sessions

onChannelHangup ==
    /\ Take /\ Head(stream).type = "hangup"
    /\ sessions' = sessions \ {Head(stream).u}
    /\ UNCHANGED <<pc, target, apiRespCh>>

LoopExit ==
    /\ loop = "reading" /\ pc[Loop] = "idle" /\ link = "down" /\ stream = <<>>
    /\ loop' = "off"
    /\ UNCHANGED <<link, mu, pc, own, got, issued, wire, stream, apiRespCh, target,
                   fate, sessions, drops, abandoned, panicked>>

\* A step of Connect, in the goroutine of autoReconnect.
Connecting(from, to) ==
    /\ loop = "off" /\ link = from /\ link' = to
    /\ UNCHANGED <<fate, drops, clientVars>>

\* The dead connection is closed and forgotten; mu is not asked for.
Close == Connecting("down", "nil") /\ UNCHANGED <<loop, wire, stream>>

\* A dial that fails leaves the connection nil.
Dial == Connecting("nil", "auth") /\ UNCHANGED <<loop, wire, stream>>

\* "auth" and "event plain" are written under mu.  A command written before them
\* spoils the handshake, or its answer is taken for that to "event plain", whose
\* own then stays in its place; its sender keeps mu until it gives up.
Authenticate == Connecting("auth", "subscribed") /\ mu = Nobody /\ UNCHANGED <<loop, wire, stream>>

HandshakeFails ==
    /\ Connecting("auth", "down") \/ Connecting("subscribed", "down")
    /\ wire' = <<>> /\ stream' = <<>> /\ UNCHANGED loop

\* Mutant: no callback is registered.
OnReconnect_None == "idle"
OnReconnect == "lock"

\* Connect has succeeded: the loop starts, and the callback in this goroutine.
Reconnected ==
    /\ loop = "off" /\ link = "subscribed" /\ link' = "up" /\ loop' = "reading"
    /\ pc' = [pc EXCEPT ![drops] = OnReconnect]
    /\ UNCHANGED <<mu, own, got, issued, wire, stream, apiRespCh, target, fate, sessions, drops,
                   abandoned, panicked>>

autoReconnect == Close \/ Dial \/ Authenticate \/ HandshakeFails \/ Reconnected

\* ForEachLocal releases what the answer to "show channels" does not list.
ReleaseOrphans(p) ==
    /\ pc[p] = "release"
    /\ sessions' = sessions \cap got[p].chans
    /\ pc' = [pc EXCEPT ![p] = "idle"]
    /\ UNCHANGED <<link, loop, mu, own, got, issued, wire, stream, apiRespCh, target,
                   fate, drops, abandoned, panicked>>

-------------------------- \* FreeSWITCH and the network ------------------------

Serve ==
    /\ Subscribed /\ wire # <<>>
    /\ LET c == Head(wire)
           kills == c.verb = "kill" /\ c.u \in channels
           asks == c.verb = "originate" /\ fate[c.u] = "new"
       IN /\ Report(<<Reply(c)>> \o IF kills THEN <<Event("hangup", c.u)>> ELSE <<>>)
          /\ fate' = IF kills THEN [fate EXCEPT ![c.u] = "down"]
                     ELSE IF asks THEN [fate EXCEPT ![c.u] = "asked"] ELSE fate
    /\ wire' = Tail(wire)
    /\ UNCHANGED <<link, loop, drops, clientVars>>

\* A caller rings, or the background job of an originate has got this far.
ChannelStarts(u) ==
    /\ fate[u] = IF u \in Outbound THEN "asked" ELSE "new"
    /\ fate' = [fate EXCEPT ![u] = "up"]
    /\ Report(<<Event("create", u)>>)
    /\ UNCHANGED <<link, loop, wire, drops, clientVars>>

ChannelEnds(u) ==
    /\ fate[u] = "up"
    /\ fate' = [fate EXCEPT ![u] = "down"]
    /\ Report(<<Event("hangup", u)>>)
    /\ UNCHANGED <<link, loop, wire, drops, clientVars>>

\* What the kernel has already received may still be read.
Drop ==
    /\ link = "up" /\ drops < MaxDrops
    /\ link' = "down" /\ drops' = drops + 1
    /\ wire' = <<>>
    /\ stream' \in {stream, <<>>}
    /\ UNCHANGED <<loop, fate, clientVars>>

EslNext ==
    \/ RouteReply \/ onChannelCreate \/ onChannelHangup \/ LoopExit \/ autoReconnect
    \/ Serve \/ Drop
    \/ \E u \in Uuids : ChannelStarts(u) \/ ChannelEnds(u)
    \/ \E p \in Procs :
          \/ Start(p) \/ CreateCall(p) \/ Send(p) \/ SendFails(p) \/ SendPanics(p)
          \/ Receive(p) \/ Timeout(p) \/ ReleaseOrphans(p)

-------------------------------------------------------------------------------

\* SendAPI returns the answer to its own command (client.go:202, and mu's
\* comment at client.go:44), as long as no caller has given up on an answer that
\* was still to come: nothing drains apiRespCh of it.
ReplyIsOwn == ~abandoned => \A p \in Procs : got[p] # NoReply => got[p].id = own[p]

\* Every SendAPI returns, although the event loop may be waiting in a handler
\* for the very mutex, or the very answer, that only it could provide, and
\* although no loop reads while Connect, which needs the mutex too, is under
\* way; unless a write to the nil connection has ended the process.
CallersReturn == \A p \in Procs : pc[p] \in {"lock", "wait"} ~> pc[p] = "idle" \/ panicked

\* A session whose channel has ended is released in the end, through the
\* hang-up event or, when a lost connection swallowed it, the reconciliation,
\* unless the reconciliation (or a caller before it) gave up on its answer, or
\* the process has ended.
GhostsReleased ==
    \A u \in Uuids :
        (u \in sessions /\ fate[u] = "down") ~> (u \notin sessions \/ abandoned \/ panicked)

===============================================================================
