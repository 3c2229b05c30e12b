# AgentOE: TLA+ verification project

AgentOE is a multi-tenant platform for AI voice callbots. A telephone call reaches
FreeSWITCH, a Go gateway (orchestrator and media bridge) controls it and streams its
audio, and a Python backend runs the conversation: speech recognition, a policy gate,
a language model, speech synthesis, and the hand-over to a human agent. Operators watch
and configure it through a portal. This project models the parts whose correctness
depends on the order of steps (of coroutines, goroutines, pods, crashes and failing
stores), checks them with TLC on small instances, and proves the main invariants with
TLAPS for instances of any size.

Paths below are relative to `src/services/`; `app/` is `backend/app/`, `routers/` is
`app/api/v1/routers/`.

## 1. The system and its parts

| Part | State it owns | Operations | Modelled by |
|---|---|---|---|
| Call session: `app/services/call_session_orchestrator.py`, `ai_pipeline.py`, `transfer_service.py`, `domain/session_fsm.py`, `policy_gate.py` | FSM, listening flag, audio buffer, failure counter, retries | control messages, audio, turn, transfer, end | `SessionFSM`, `CallSession` |
| Session store: `repositories/session_repository.py`, `core/redis_client.py`, `routers/sessions.py` | session and turn documents, hot copy and lease in Redis | create, restore, save_turn, update_state, end_session, lease, REST create and end | `SessionLease` implements `SessionLog`; also `CallSession` |
| Vendors: `services/llm_service.py`, `stt_service.py`, `tts_service.py`, `agentic/nodes/llm_node.py`, `core/timeouts.py`, `core/quota.py`, `domain/circuit_breaker.py` | breaker state and counters, daily token and cost counters | enter and leave the breaker, fall back to the second model, check and commit the quota | `CircuitBreaker`, `Quota`, composed in `VendorCall` |
| gRPC calls: `grpc_server/voicebot_service.py` | reader, writer and response queue of each stream | chunks, barge-in, digits, turn, cleanup | `VoiceStream` |
| WebSocket calls: `routers/vbgw.py`, `middleware/admission_middleware.py`, `core/ws_backpressure.py` | per-tenant session counter; bounded send queue and its drain task | accept, refuse, count, uncount; enqueue with drop policy, drain, close | `Admission`, `WsSender` |
| HTTP requests: `middleware/rate_limit_middleware.py`, `core/jwks_cache.py`, `core/auth.py` | counters per address and tenant; cached key set, its lock and backoff | count and limit; look up, refresh | `RateLimit`, `JwksCache` |
| The process: `app/main.py`, `grpc_server/server.py`, `core/graceful_shutdown.py` | the steps of `lifespan` | start, serve, stop | `CallPod`, which composes the three rows above |
| Kill switch: `domain/kill_switch.py`, middleware, router | documents, 60 s cache | activate, deactivate, is_active, middleware check | `KillSwitch` |
| Idempotency: `core/idempotency.py`, middleware | one Redis record per key | acquire, store, release, replay | `Idempotency` |
| Scenarios: `repositories/scenario_repository.py`, `routers/scenarios.py`, `agentic/scenario_dsl.py` | versioned documents, published flag | validate, save, publish, delete | `ScenarioDsl`, `ScenarioStore`, composed in `ScenarioEditor` |
| Portal: `routers/auth_portal.py`, `domain/portal_session.py`, `middleware/portal_cookie_middleware.py`, `core/auth.py`, `infra/kms_client.py` | user document, sessions, cookies, login counter | login, verify, enroll, refresh, logout | `PortalSession` |
| Admin API and audit: `routers/admin.py`, `connectors.py`, `policies.py`, `domain/audit_emitter.py` | the resources, audit events | the changes that are audited, with the event that follows each | `AuditTrail`, composed into `PortalSession` |
| Events: `workers/am_poller.py`, `infra/alertmanager_client.py`, `domain/sse_broadcaster.py`, `routers/stream.py` | leader lock, previous fingerprints; subscriber queues, stream slots | poll, publish, renew; fan out, stream, stop | `AlertPoller`, composed into `EventStream` |
| ESL client: `vbgw-orchestrator/internal/esl/client.go`, `cmd/main.go` | connection, mutex, response channel, local sessions | SendAPI, event loop, reconnect, reconciliation | `EslClient` |
| Call store: `vbgw-orchestrator/internal/session/repository.go`, `memory_store.go` | counter and session keys shared through Redis, local maps; or a counter per node | acquire, save, release | `CallStore`; `Gateway` puts the two together |

What makes the system hard: every store operation is several commands to MongoDB and
Redis, each an `await` at which other requests run, pods die and commands fail; caches,
leases, locks and records expire while they are being used; the code mostly fails open;
a call is driven by several processes at once (receive loop and sender task, reader and
writer of a stream, ESL event loop and API handlers, pods and nodes sharing Redis).

`PROJECT.json` lists the hazards with the line where each bites and the properties that
cover it, and for every definition the lines it models.

## 2. How the modules are written

One action is what the code does between two suspension points: a coroutine up to its
next `await`, one Redis or MongoDB command, one critical section of a goroutine. An
action is named after the function it models, or after the command when a function
takes several steps. Payloads are abstracted to what the properties distinguish.

Faults are part of the normal next-state relation. A variable that records history
(`faults`, `outages`, `causes`, `races`, `leaks`, `broken`, `missed`, `odd`, `silent`,
`abandoned`, `repeats`) remembers that a fault of some kind happened; a property says
precisely which kinds it tolerates.
A property such as `faults \subseteq {"cancel"} => ...` is therefore checked in the same
run as the behaviours that violate its conclusion, and the condition documents the
guarantee of the code.

A definition `X_Something` before a definition `X` is a mutant: `X` as a plausible bug
would make it. Each property is violated when one of them takes the place of `X`.

Three modules put components side by side that share the process but little state. There
a variable marked as a bound (`door` in `CallPod`, `side` in `Gateway`, `family` in
`PortalSession`) says which of them a behaviour exercises; the others stand still. What
is checked of each is what it would be alone, together with what the composition adds
(`StoresOpenForCalls` relates streams to the steps of `lifespan`; the events of
`AuditTrail` follow the session requests of `PortalSession`).

### Correspondence with the code

* **`SessionFSM`** has the states and `VALID_TRANSITIONS` of `session_fsm.py`.
  `_do_transition` ignores an illegal transition; `SessionFSM.transition` raises.
* **`CallSession`** is one session over several successive connections. `phase` is the
  `await` the coroutine is at. `Create`/`Restore` are
  `restore_or_create_orchestrator`; `handle_audio`, `start_listening`, `stop_listening`,
  `hangup`, `request_transfer` the messages; `Stt`, `Llm`, `Tts` the stages of
  `AIPipeline.process` with their degraded exits; `_dispatch_to_cti`,
  `_on_transfer_accepted`, `_on_transfer_failed` the transfer with its three fallbacks;
  `UpdateMongo`/`UpdateHot`, `SaveTurnMongo`/`SaveTurnHot`, `EndMongo`/`EndHot` the two
  writes of each repository operation, either of which may fail; `Finally` the
  endpoint's `finally`; `Crash` the death of the process anywhere. `env` holds the
  tenant's configuration, chosen initially.
* **`SessionLease`** is the same session seen by several connections at once, on the
  WebSocket or the gRPC transport (`transport` is chosen initially; they differ in
  whether the lease is released before or after `end_session`), while the REST endpoints
  create and end it without a lease. One step per command of restore, create, save_turn,
  end_session, each of which may fail once. **`SessionLog`** is the abstract promise: a
  log with one writer at a time that is closed once.
* **`CircuitBreaker`**: `Enter` is `__aenter__` with `_check_state`, `_on_success`,
  `_on_failure` and `_is_excluded` the three ways `__aexit__` leaves; `Tick` is
  `time.monotonic`. Calls admitted in one state may finish in another.
* **`Quota`**: `enforce_quota` reads both counters, `commit_usage` adds to them when an
  answer is complete; `Midnight` starts new keys.
* **`VendorCall`**: the coroutines of `transcribe`, `synthesize` and `stream` between
  the check of the quota, the breaker, the connection, the fallback model and the
  commit; any of them may be cancelled. The breaker of the fallback model admits or
  refuses at will.
* **`VoiceStream`**: the reader task (`StreamSession`'s `_reader`), the generator that
  writes, and its `finally`, of two streams that name the same session. `voice` holds
  the local variables of the reader. `HeardAfter` is `aiResponseLoop` of the bridge, which
  looks at the clearing of the buffer and at audio and ignores the type of a response;
  that an END_OF_TURN was sent is kept in `heard` as history.
* **`Admission`**: `vbgw_websocket` is the endpoint up to its accept, `Refused` what may
  still turn the connection away (lease, ended session), `increment_session_count` and
  `decrement_session_count` the counter, the latter at the end of the `finally` block.
  There is no check of the limit: see section 6.
* **`WsSender`**: `enqueue` is the drop policy, `Wake`/`Sent`/`SendFailed` the drain
  loop, `close`/`Joined`/`JoinTimeout` the shutdown.
* **`RateLimit`**: each request runs its checks in order, address first. A counter's
  first hit creates the key and sets its expiry, `ttl` ticks from then; counts above the
  limit are one value, because the script does not tell them apart.
* **`JwksCache`**: `get_key` with `_ensure_fresh`, the lock, the forced refresh after a
  first miss, the fetch and its failure; `Rotate` is the identity provider.
* **`CallPod`**: `Then` is the order of `lifespan`; `GrpcStopped` and `GraceOver` are
  the two ways `GrpcServerLifecycle.stop` ends.
* **`KillSwitch`**: `ActivateInsert`/`ActivateCache` and
  `DeactivateUpdate`/`DeactivateCache` are the two commands of the admin endpoints,
  `CheckCache`/`FindInDb`/`FillCache` those of `is_active`, `RestRequest` the middleware.
* **`Idempotency`**: `SetNx`, `Get`, `SetNxAgain`, `Overwrite` are the commands of
  `acquire_slot`, `Executes`/`Fails`/`Cancelled` the outcomes of the handler,
  `store_response`, `release_slot` and `RecordExpires` the rest.
* **`ScenarioDsl`**: `_validate_graph` with the loop that grows the reachable set: `Pass`
  is one turn of the `while`, which follows the edges in their order, and `Reachable` the
  loop. `Playable` says what is to be validated, without a loop: a path leads to a node if
  every set of nodes that has the entry and that no edge leaves has the node. In **`ScenarioStore`** save,
  publish and delete are a read and one or two writes each. **`ScenarioEditor`** adds
  `validate_scenario`, which touches no store: a behaviour works on the store or
  validates one draft.
* **`PortalSession`**: one user in two browsers. The login counter is INCR then EXPIRE;
  `CountSessions`, `FindOldest`, `EvictOldest`, `InsertSession` are `create_session`,
  `RotateFind`/`RotateRevoke` are `rotate`; the roles of tokens decide which requests
  exist. **`AuditTrail`** gives each admin endpoint as the list of the commands it
  awaits, and `emit` as its two commands.
* **`AlertPoller`**: `_try_acquire_lock`, `RenewGet`/`RenewExpire`, the fetch, one
  `_publish` per change, and what is remembered for the next poll. A publication that
  fails ends the task ("failed"), which only a restart of the pod brings back.
  **`EventStream`**: the broadcaster's connection, `_fan_out` into bounded queues, the
  semaphore, and each kind of stream up to its `finally`. Alerts are followed from
  Alertmanager to what a client is sent; `told` and `conveyed` are history, the alerts that
  the events published, and those sent to a client, leave firing. Audit messages
  (`AuditPublished`) only arrive and fill queues.
* **`EslClient`**: `Start`, `Send`, `Receive`, `Timeout` are `SendAPI` (and `SendBgAPI`,
  with `CreateCall` around it); `Take` and `RouteReply` the event loop with its bounded
  response channel. After a `Drop`, `Close`, `Dial`, `Authenticate`, `HandshakeFails` and
  `Reconnected` are `Connect` in the goroutine of `autoReconnect`, and `ReleaseOrphans` the
  reconciliation. `c.conn` is nil from `Close` to `Dial`: a command written then panics
  (`SendPanics`), which `net/http` recovers for its handlers and nothing for the other
  goroutines, so that the process ends (`panicked`). FreeSWITCH and TCP are external: they
  answer, emit events and break.
* **`CallStore`**: `TryAcquire` (a Lua script, or a compare-and-swap in a `MemoryStore`),
  `saveToRedis`, `AddLocal`, `Unlink`, `ReleasePipeline` or `ReleaseMemory`, `GiveBack`. Any
  round trip may fail before or after it took effect, and the Redis client, which repeats
  commands by default, may apply one again whose answer was lost (`DecrUnheard`). A node
  that finds no Redis as it starts counts its calls by itself (`store`).

## 3. Runs

| Run | Instance | What it shows |
|---|---|---|
| `call_session` | 2 connections, 1 crash, both stores failing, 3 fallbacks, tenants G1 and G3 | no turn is left dangling, an accepted transfer silences the AI and stays the end reason, ended sessions stay ended unless `end_session` was torn, every handler returns |
| `call_policy` | G4 tenant | finding: a blocked turn raises instead of being transferred |
| `session_lease` | 3 connections, 3 turns, 1 fault, REST create and end, both transports | turn indices are unique even without the lease, the hot history is ordered while the lease is exclusive, and sessions whose lease lasted, whose end was not torn and which REST did not end under a connection implement `SessionLog` |
| `kill_switch` | 2 admins, 1 call, 2 switches, failing stores | calls are refused unless a fault or stale write happened; the cache agrees with the database once the admins stop |
| `kill_switch_rest` | 1 admin, 1 switch, no failing store | finding: REST requests pass an active switch once the cache entry expired |
| `idempotency` | 3 requests, 2 bodies | single execution, replays match, no orphaned slot, each with the faults it tolerates |
| `scenario_store` | 2 admins, 4 documents; drafts of up to 3 edges over 5 ids, and of up to 3 nodes | at most one version published, published stays published; the validation accepts exactly the playable graphs |
| `portal` | 2 requests, 2 browsers, 3 sessions of which 2 may live, 1 fault | one successor per refresh token, no session survives a logout, every audited change is stored or published as an event, and the event says what was replaced |
| `event_stream` | 2 pods, 1 alert, 2 clients, 1 slot, queues of 1, 1 fault | one leader, no slot lost, what a stream conveys settles on what fires, streams end with the broadcaster |
| `vendor_call` | 3 calls of a vendor, or 2 LLM turns; threshold 2, 2 probes, quota 2, 1 fault | the overshoot of the quota is bounded by one turn per turn under way, complete answers are counted once, turns return, a half-open breaker decides |
| `call_pod` | 2 streams of 4 chunks; 4 sockets; 5 events in a queue of 2; 2 requests, 2 keys, 2 rotations; 2 addresses, 1 tenant, a window of 2 ticks | see below |
| `gateway` | 1 caller, 2 channels, room for 1 call, 1 lost connection, an inbound and an outbound call; 2 calls, 2 nodes, room for 1, 1 repeated decrement | answers match commands until somebody gives up on one, every caller returns and ghosts are released unless the process has ended; the counters cover the calls up to repeated decrements and are exact without faults |

`call_pod` checks that a stream's lease is deleted by nobody else (`LeaseKept`), that no
audio of an interrupted turn follows the clearing of the bridge's buffer (`FreshAudio`),
that every turn which does not hand the call over has its own END_OF_TURN
(`TurnsAnswered`), that the writer of an ended call is let go (`WriterLetGo`), that stores
are open while streams run (`StoresOpenForCalls`), that the session counter of a tenant
covers its sessions through refusals, hang-ups and cut connections
(`CountCoversSessions`), that what a sender accepted is sent in order unless a send failed
or `close()` gave up (`SentAsAccepted`), that an address or tenant over its rate limit is
let in again although it keeps asking (`BlockEnds`), and that key rotations are followed
(`RotationFollowed`).

The bounds are the smallest at which the interesting cases occur. Two actors suffice for
every pairwise race, a third where one of them must act between two others
(`session_lease`: a connection arrives while a second still works without its lease;
`idempotency`: a request finds the record of a second replaced by a third;
`vendor_call`: a late completion between two probes). A queue of two holds audio and
something else, a queue of one is full with the first message; limits of one or two
separate "below", "at" and "above". Fault budgets of one suffice to reach each kind of
fault at each step; where the fault is the subject (`idempotency`, `kill_switch`,
`call_session`, `CallStore`, `Admission`) there is no budget. Bounds are named `Max...`.
Symmetry is used only in runs without liveness properties (`ImplementsSessionLog` is a
safety property, and its mapping chooses an owner only among several once the promise is
void).

Deadlock is checked except where the modelled part ends or uses up its bound: a session
that has been closed for good, requests that have all been answered, a process that is
down.

### Fairness

* `CallSession`: weak fairness of the coroutine's own steps: the event loop resumes what
  is ready. No fairness of clients, crashes or expiry.
* `KillSwitch`: requests that were begun are finished, and Redis expires keys.
* `VendorCall`: time passes and admitted calls end (every connection has a time-out, and
  a stream of chunks ends); for `HalfOpenDecides`, calls keep arriving: a breaker that
  nobody calls stays as it is.
* `CallPod`: `lifespan`, the readers and the writers of the streams run; a turn ends
  because its vendor calls have time-outs; the bridge reads what it is sent; time passes,
  so that Redis expires the counters of the rate limit. No fairness of requests, of the
  bridge's chunks, of hang-ups or of the shutdown.
* `EventStream`: the loops of the workers and of the streams go on, and Redis expires
  the lock of a pod that does not renew it.
* `Gateway`: goroutines are scheduled, FreeSWITCH executes what it received while the
  connection is up and can be reached and authenticated with again in the end, `SendAPI`'s
  timer fires, and Go's mutex does not starve a waiter (its starvation mode), hence strong
  fairness of `Send` and of the handshake. That the event loop goes on is optimistic in one
  place: `notifyBridgeHold` posts to the bridge from the loop, without a time-out
  (`cmd/main.go:496`).

## 4. What is proved

TLAPS checks these for every value of the constants (any number of calls, connections,
streams, requests, admins, pods, turns, documents, and any bound, limit and fault
budget, drafts with any nodes and edges). Every safety invariant of a passing run has a
theorem, and so has the refinement. Most proofs have the same shape: an inductive
invariant stated at the head of the module (or of its part), one lemma per action or group
of actions that it survives a step, and a temporal step at the end. The invariants were
model-checked on the instances of the runs before they were proved.

| Module | Theorems | What the inductive invariant adds, and why |
|---|---|---|
| `TurnProofs`, session | `SessionTypeCorrect`, `NoTurnDangles`, `EndedIsNeverResumed`, `AcceptedTransferIsFinal` | which FSM states each phase of the handler can have (`FsmOfPhase`), and what Mongo and Redis hold for a later connection to restore (`EndedIsGone`, `TransferIsSaved`, `AcceptedEnds`) |
| `TurnProofs`, breaker and quota | `TypeCorrect`, `ClosedIsBelowThreshold`, `ProbesAreBounded`, `WedgedOnlyByExclusions`, `CallsImplementBreaker`, `BreakerHolds`; `OvershootIsBounded`, `UsageIsAccounted`, `CallTypeCorrect` | breaker: the probes in flight are related to `half_open_calls` and `success_count`, which count admissions and successes, not calls (`ProbeSlots`, `SlotsPaidFor`); quota: a turn passes the check long before it is counted, so every admitted turn is given the largest amount it may still add (`Reserved`) |
| `SessionLeaseProofs` | `TypeCorrect`, `IndicesAreUnique`, `HotIsOrdered`, `LeaseImplementsLog` | the indices a connection has taken and not yet stored (`IndexInv`), what it read and will write back (`ReadInv`), who works while the lease is exclusive (`Alone`), and that the session document is live under them (`LiveInv`) |
| `DoorProofs` and `CallPodProofs`, admission | `TypeCorrect`, `SessionsAreCounted`, `PodImplementsAdmission`, `PodCountsSessions` | the counter is compared with the sessions that are served, which types make inductive |
| `DoorProofs` and `CallPodProofs`, requests | `RotationIsFollowed`, `WindowsAreKept` | what a request in flight may conclude from the cache it saw (`Sound`); a counter exists as long as its window (`RateInv`), of which the action property `WindowKept` says that only the count that begins it sets it and only a tick shortens it |
| `DoorProofs` and `CallPodProofs`, send queue | `SentIsAccepted` | `SendInv`: no accepted event has a serial number above the last one given, the loop holds an event only while it sends, a loop that ended has closed the sender |
| `StreamProofs` and `CallPodProofs`, gRPC streams | `StoresAreOpen`, `LeaseIsKept`, `AudioIsFresh`, `TurnsAreAnswered` | the combinations of reader, writer and local variables that occur (`Orderly`), whose the lease is (`Held`), where `lifespan` is while streams run (`PodInv`), and the order of turns through the response queue to the bridge (`Steady`, `Settled`) |
| `AdminProofs`, idempotency | `KeysTyped`, `OneExecution`, `ReplaysMatch`, `SlotsAreGivenBack` | whoever is inside holds the record `in_progress` (`SlotTaken`) and found nothing executed (`FreshSlot`); a finished record is the answer of a request that has ended (`RecordIsAnswer`, `Answered`) |
| `AdminProofs`, scenarios | `ScenariosTyped`, `VersionsAreUnique`, `OnePublished`, `PublishedIsKept` | what requests in flight rely on: the version about to be inserted is the largest, nothing is published between the two writes of a publish, a delete has no publish's target in hand |
| `AdminProofs`, editor | `GraphsJudged`, `DraftsAreJudged`, `EditorKeepsStore` | none: an answer is right from the step that gives it; the argument is about the loop, below |
| `PortalProofs`, sessions and audit | `TypeCorrect`, `TokenHasOneSuccessor`, `LogoutIsFinal`, `EventsAreHeard`, `BeforeIsTrue`, `RevocationIsFinal` | what requests carry from one command to the next: a rotation its token (`RotationsCarry`, `RotationsAlone`), a change its snapshot (`SnapshotIsCurrent`), an event whether it was stored (`StoredOrFailed`) |
| `PortalProofs`, event streams | `EventTypeCorrect`, `OnePodLeads`, `SlotsAreConserved`, `QueuesStayBounded` | a leader holds the lock until somebody is late (`LeaderHoldsLock`) |
| `GatewayProofs`, store | `TypeCorrect`, `CallsAreCounted`, `CapacityNeverExceeded`, `ExactWithoutFaults`, `CounterIsHonest`, `ServedCallsAreRoutable`, `GatewayImplementsStore`, `GatewayCountsCalls` | a call is counted before it is served and given back after it ended: each store's counter is compared with all calls holding a unit of it (`Held`), and that in Redis with the repeated decrements, too (`Undercount`) |
| `GatewayProofs`, ESL client | `AnswersAreOwn`, `CommandsAreSerial` | the mutex is held by the goroutine that waits (`WaiterHoldsMu`), and of all commands, messages and channel contents on their way at most one is an answer, to it (`Outstanding`) |
| `GatewayProofs`, kill switch | `SwitchesTyped`, `OneDeactivation`, `OnlyFaultsLetCallsIn` | "off" is final and has one author (`OffOnce`); without faults the cache never says "0" while a switch is on (`CacheAgrees`) |

Specifications and compositions. `DoorProofs` has what holds of the session counter, the
key cache, the rate limit and the send queue, `StreamProofs` what holds of the gRPC
streams whatever else the process does, and `CallPodProofs` puts them together: it proves
the properties of the process of `PodSpec`, and `GatewayProofs` proves those of the ESL
client of `GatewaySpec`. These are the specifications the runs check. The breaker, the session counter and the call store are proved on their own, and
the composition is proved to implement them (`CallsImplementBreaker`,
`PodImplementsAdmission`, `GatewayImplementsStore`), which carries their theorems over.
`LeaseImplementsLog` is the refinement that the run checks as `ImplementsSessionLog`:
every step of `SessionLease` is a step of `SessionLog` or a stutter under the mapping of
`Log`, while the lease is exclusive and the session intact; once it is not, `void` is set
and `SessionLog` promises nothing.

`RevocationIsFinal` is an action property: no step revives a revoked portal session.

Assumptions are the named `ASSUME`s of the modules: finite sets where the number of
elements is compared with a counter, natural numbers for limits and bounds, values such
as `NoConn` or `NoStream` outside the sets they mark the absence of, and
`Turns \subseteq Calls`. TLC evaluates all of them. `WedgedOnlyByExclusions` also assumes
`success_threshold <= half_open_max_calls`, which the defaults in
`app/core/config.py:52-64` satisfy (2 against 3, 2 and 3) and which nothing enforces for
values set through the environment.

`GraphsJudged` is about a loop. The set that the `while` of `_validate_graph` returns is
shown to be the least one that has the entry and that no edge leaves (`ReachableIsLeast`):
a turn stays inside every such set (`PassInside`); a turn that adds nothing leaves such a
set (`PassGrows`); and there is such a turn among the first as many as there are edges,
because every other one adds a node, of which there are no more than edges beside the
entry (`TurnsEnd`, by counting). `Pass` and `Reachable` are recursive functions; that they
are defined, and what holds after every turn, rests on two lemmas about counting up to a
bound (`LoopRuns`, `CountingUp`), each proved from the least counterexample.
`EditorKeepsStore` carries the theorems about `ScenarioStore` over to the specification
that the run checks.

Some operators are written so that they can be reasoned about. `ByTurnIndex` chooses a
sorting permutation; that there is one, for a history of any length, is carried along the
behaviour with the history (`Sortable`, kept by inserting one turn) rather than proved by
induction. `UsageAccounted` counts the tokens that wait for their commit as the elements
of a set (`Uncommitted`), which theorems about cardinalities cover, and not as a sum over
turns. `SentAsAccepted` compares the accepted events as a set and their order by serial
number.

Only model-checked:

* the liveness properties (`HandlersReturn`, `CacheConverges`, `StreamConverges`,
  `StreamsEnd`, `TurnsReturn`, `HalfOpenDecides`, `WriterLetGo`, `BlockEnds`,
  `CallersReturn`, `GhostsReleased`), which need fairness and `ENABLED`;
* the two findings, which are counterexamples.

## 5. Findings

* **`call_policy`**: `ai_pipeline.py:165` takes the transition PROCESSING to RESPONDING,
  which the FSM does not have, so every turn of a G4 or G5 tenant raises and the transfer
  branch of the orchestrator is unreachable.
* **`kill_switch_rest`**: `kill_switch_middleware.py:36` passes on a cache miss and no
  router queries the database, so an active switch stops REST requests for 60 s only.

## 6. What the conditions of the properties record

Each is a behaviour the model has and the condition of a property names.

* Session: a CALLBACK fallback leaves the session open in TRANSFER_FAILED
  (`transfer_service.py:365`); a degraded turn resets the failure counter
  (`call_session_orchestrator.py:283`); a session restored in a transfer state serves no
  turns (`:535`); a process that dies between the two writes of `end_session` leaves a
  session that is revived (`session_repository.py:346`); an ended session that reconnects
  reaches `create` and the unique index (`call_session_orchestrator.py:504`).
* Lease: it is never renewed, so after 30 s a second connection is admitted
  (`redis_client.py:127`); gRPC releases it before `end_session`
  (`voicebot_service.py:355`); DELETE of the REST API ends a session without it, and a
  live connection's next `save_turn` sets the status back (`sessions.py:112`); a stream
  that is cancelled while it acquires the lease deletes whatever lease there is, because
  `session_id` is set first (`voicebot_service.py:215`).
* Streams: calls that outlast the grace period are cancelled without waiting for their
  `finally` blocks (`grpc_server/server.py`), so their leases stay until the TTL.
* Vendors: the quota is checked and counted far apart and reserves nothing
  (`quota.py:128`); what a cut turn used is not counted; the chunks of an answer are
  received outside breaker and time-out.
* Kill switch: a check in flight, or the deactivation of another switch of the tenant,
  caches "0" over an active one (`kill_switch.py:50`, `:86`); `activate` raises
  `TypeError` after it has cached, so it answers 500 without an audit event (`:74`).
* Admission: a session that an exception in the `finally` block, a cancellation or the
  death of the process cuts off stays in the counter for good (`vbgw.py:355`).
* Send queue: `close()` cancels a flush that takes more than a second
  (`ws_backpressure.py:186`).
* Scenarios: overlapping publishes leave two published versions, a delete may take a
  version that is being published (`scenario_repository.py:190`, `:236`).
* Portal: two refreshes of one token both find it (`portal_session.py:119`); a rotation
  under way survives a logout (`:132`); the `before` of an audit event is read ahead of
  the write it describes (`admin.py:137`).
* Events: a failed fetch reads as "no alerts" and resolves all of them until the next
  poll (`alertmanager_client.py:41-56`); a new leader knows nothing of its predecessor's
  alerts; a failed publication ends the poller (`am_poller.py:175`, below); a response
  dropped before its generator begins keeps its slot
  (`stream.py:166`); `stop()` cannot tell a stream whose queue is full
  (`sse_broadcaster.py:80`).
* ESL: an answer nobody waits for any more is taken by the next caller
  (`client.go:221`); the reconciliation itself may time out on a full node and leave a
  ghost (`cmd/main.go:102`); a command that meets the nil connection of a reconnect
  panics, and unless it comes from an HTTP handler the process ends (`client.go:77`,
  `:403`).
* Call store: a decrement repeated by the Redis client makes room for a call too many
  (`repository.go:132`, `:208`); a node that fell back to a `MemoryStore` has `MaxSessions`
  for itself beside what the others share (`cmd/main.go:78`), so the limit holds per
  store, not for the gateway; what a dead node had counted is never given back.

### Differences met while reading that no run is about

* `AdmissionControlMiddleware` is documented to refuse WebSocket upgrades over
  `MAX_SESSIONS_PER_TENANT` (`admission_middleware.py:5`), but it is a Starlette
  `BaseHTTPMiddleware`, which hands everything but HTTP on without calling `dispatch`, and
  `vbgw.py` does not check the limit itself: the counter is kept and never compared. The
  kill switch is not affected, since `vbgw.py` asks for it. The guard key that is to
  prevent leaks of the counter (`:82`) is never read.
* `_outbound_to_responses` says that `transfer_update` becomes a text and an END_OF_TURN
  (`voicebot_service.py:106`); it sends the text only. A turn that hands the call over
  therefore has no END_OF_TURN, which `TurnsAnswered` excepts. The bridge ignores the type
  of every response.
* A failed publication of the alert poller is to be logged, "without propagating an
  exception" (`am_poller.py:11`), but the logger is given `event` twice (`:175`), which
  raises: the task ends silently, and as long as the pod lives it neither polls nor
  competes.
* `/stream/alerts` names its events `alert.event` (`stream.py:293`), for which the portal
  does not listen (`ops-portal/src/lib/sse.ts:88`); its alert page loads the list once and
  adds to it, and removes nothing (`pages/Alerts.tsx:322-353`). `StreamConverges` is about
  what the stream conveys, not about the page.
* The policy endpoints create, update and delete without an audit event (`policies.py`).
* A user without MFA is told to enroll (`auth_portal.py:372`), but the role of the
  challenge token is refused there, and enrolling sets `mfa_enabled` to False with no
  endpoint to confirm it.
* A refresh after the access cookie has gone is answered 401, and a logout without it
  revokes nothing, since the user is taken from that cookie; `_clear_cookies` before a
  raise has no effect.
* Nothing publishes on the channel of `/stream/sessions.active`
  (`sse_broadcaster.py:40`): the pollers publish alerts, the audit emitter audit events.
  That stream carries heartbeats only.
* `commit_usage` rounds the cost of each turn, which is 0 cents at the default prices;
  `AIPipeline` names no tenant, so live calls are not under the quota at all
  (`ai_pipeline.py:190`).
* A cancelled call counts as a failure of the vendor (`circuit_breaker.py`, `__aexit__`),
  unlike the docstring at line 25.
* `register_session_callbacks` has no caller, so `drain()` returns at once; installing
  the signal handler replaces the server's own.
* `health.py:36` imports a name that does not exist, so the readiness probe is always
  503.
* The rate limit is a fixed window on `tenant:` keys, not the token bucket on `rl:t:`
  that its comments describe. What passes it has not been authenticated yet; the tenant
  is read from the token unverified (`rate_limit_middleware.py:42`).
* Every valid scenario has a start node, and `compile_scenario` raises for it.
* `create_connector` audits an empty resource id.

## 7. Not modelled

* **Agentic runtime** (`agentic/callbot_graph.py`, `scenario_compiler.py`, the other
  nodes): nothing calls `CallbotGraphRuntime.init`, the repository it is meant to load
  from has no `load`, and the compiler rejects every valid scenario, so there is no
  behaviour to be faithful to. `llm_node` is in `VendorCall`.
* **Connectors**: single HTTP calls to vendor APIs without state; their registry has no
  caller.
* **Media bridge**: the cutting, resampling and voice detection of audio are numeric;
  what it takes from the backend's stream is in `VoiceStream`. Its shared state was
  read and left out: the stream tied to the context of the first WebSocket session
  (`grpc/client.go:158`) and the PCM buffer given back to the pool once it is queued
  (`ws/session.go:202`).
* **IVR machine and control API**: one goroutine per call; `Release` closes the IVR
  channel while `onDtmf` may send (`main.go:424`). Commands between nodes are published
  and forgotten.
* **CDR webhook and recordings**: a retry loop of one goroutine, and files deleted by
  age.
* **Front ends**: presentation; what the portal's pages make of the event streams is
  described above.
* **Reading endpoints, metrics, logging, the ops API mock, the vbgw-ai mock, FreeSWITCH
  configuration, deployment**: no state that the program acts on.
* Inside modelled parts: prompt and answer texts, audio, signatures and encryption (they
  succeed or fail), the fields of scenario nodes, the event log in the FSM's snapshot
  (nothing reads it), the loss of what Redis holds, originate jobs that FreeSWITCH gives up
  without ever making a channel (their session stays until the next reconciliation), and
  calls that start while `ReleaseOrphans` goes through its list (`main.go:108`).
