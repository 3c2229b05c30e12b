-------------------------------- MODULE VendorCall ------------------------------
(***************************************************************************)
(* The turns of a pod's calls at their vendors: STTService.transcribe,     *)
(* TTSService.synthesize, and LLMService.stream with its primary and its   *)
(* fallback model, under the circuit breaker of the service and the daily  *)
(* LLM quota of a tenant.  CircuitBreaker is the breaker of the service    *)
(* looked at (for the LLM, the primary's).  The breaker of the fallback    *)
(* model is another one of the kind: here it admits or refuses at will.    *)
(***************************************************************************)
EXTENDS CircuitBreaker, Quota

\* The calls that may be LLM turns, a bound: every call is an STT or a TTS call.
ASSUME TurnsAreCalls == Turns \subseteq Calls

VARIABLES
    service,    \* the vendor whose breaker is looked at: "stt", "llm" or "tts"
    pc,         \* each call: where its coroutine is suspended
    tenant      \* turns that name their tenant: those of llm_node, not AIPipeline's

callVars == <<vars, quotaVars, service, pc, tenant>>

CallInit ==
    /\ Init /\ QuotaInit
    /\ service \in {"stt", "llm", "tts"}
    /\ pc = [c \in Calls |-> "idle"] /\ tenant = {}

At(c, here) == pc[c] = here
Goto(c, there) == pc' = [pc EXCEPT ![c] = there]

\* The turn raises or returns.
Ends(c) == Goto(c, "idle") /\ tenant' = tenant \ {c}

\* What the quota keeps of a turn that ends without a commit.
Unaccounted(c) == IF c \in tenant THEN GivesUp(c) ELSE UNCHANGED <<tokens, cost, admitted, usage, spent>>

-------------------------------------------------------------------------------
(* Before the vendor.                                                      *)

transcribe(c) ==
    /\ service = "stt" /\ At(c, "idle") /\ Goto(c, "enter")
    /\ UNCHANGED <<vars, quotaVars, service, tenant>>

synthesize(c) ==
    /\ service = "tts" /\ At(c, "idle") /\ Goto(c, "enter")
    /\ UNCHANGED <<vars, quotaVars, service, tenant>>

\* AIPipeline.process asks for a complete answer and names no tenant.
complete(c) ==
    /\ service = "llm" /\ c \in Turns /\ At(c, "idle") /\ Goto(c, "enter")
    /\ UNCHANGED <<vars, quotaVars, service, tenant>>

llm_node(c) ==
    /\ service = "llm" /\ c \in Turns /\ At(c, "idle") /\ Goto(c, "quota") /\ tenant' = tenant \cup {c}
    /\ UNCHANGED <<vars, quotaVars, service>>

\* QuotaExceededError: the node answers with its quota message, or raises.
EnforceQuota(c) ==
    /\ At(c, "quota")
    /\ \/ enforce_quota(c) /\ Goto(c, "enter") /\ UNCHANGED tenant
       \/ QuotaExceeded /\ Ends(c) /\ UNCHANGED quotaVars
    /\ UNCHANGED <<vars, service>>

\* async with cb: a closed door ends the turn, there is no fallback for it.
EnterPrimary(c) ==
    /\ At(c, "enter")
    /\ \/ Enter(c) /\ Goto(c, "connect") /\ UNCHANGED <<quotaVars, tenant>>
       \/ ~Admits /\ Ends(c) /\ Unaccounted(c) /\ NoFault /\ UNCHANGED vars
    /\ UNCHANGED service

-------------------------------------------------------------------------------
(* The vendor answers, fails, or with_timeout ends the wait.               *)

\* STT and TTS have their result; the LLM has a stream to read.
Connected(c) ==
    /\ At(c, "connect") /\ _on_success(c)
    /\ IF service = "llm" THEN Goto(c, "chunks") /\ UNCHANGED tenant ELSE Ends(c)
    /\ UNCHANGED <<quotaVars, service>>

\* The vendor's own error, or ExternalTimeoutError: a failure to the breaker.
with_timeout(c) == _on_failure(c)

\* The package is missing: a RuntimeError, which the breaker leaves out.
_get_client(c) == _is_excluded(c)

\* Any of them sends an LLM turn to the fallback model.
ConnectFails(c) ==
    /\ At(c, "connect") /\ (with_timeout(c) \/ _get_client(c))
    /\ IF service = "llm" THEN Goto(c, "fb_enter") /\ UNCHANGED tenant ELSE Ends(c)
    /\ UNCHANGED <<quotaVars, service>>

EnterFallback(c) ==
    /\ At(c, "fb_enter")
    /\ \/ Goto(c, "fb_connect") /\ UNCHANGED <<quotaVars, tenant>>
       \/ Ends(c) /\ Unaccounted(c) /\ NoFault
    /\ UNCHANGED <<vars, service>>

FallbackConnected(c) ==
    /\ At(c, "fb_connect") /\ Goto(c, "chunks")
    /\ UNCHANGED <<vars, quotaVars, service, tenant>>

\* Mutant: the test of use_fallback is lost, the recursive call falls back again.
Reraise_Again(c) == Goto(c, "fb_enter") /\ UNCHANGED <<tenant, quotaVars>>
Reraise(c) == Ends(c) /\ Unaccounted(c) /\ NoFault

FallbackFails(c) ==
    /\ At(c, "fb_connect") /\ Reraise(c)
    /\ UNCHANGED <<vars, service>>

-------------------------------------------------------------------------------
(* The chunks, outside every breaker and timeout, and the commit.          *)

StreamEnds(c) ==
    /\ At(c, "chunks")
    /\ IF c \in tenant
       THEN Goto(c, "commit") /\ UNCHANGED tenant /\ \E n \in 1..MaxTokens : Answer(c, n)
       ELSE Ends(c) /\ UNCHANGED quotaVars
    /\ UNCHANGED <<vars, service>>

Commit(c) ==
    /\ At(c, "commit") /\ commit_usage(c) /\ Ends(c)
    /\ UNCHANGED <<vars, service>>

\* The stream breaks off, or the caller hangs up and the turn is cancelled:
\* a breaker counts that as a failure, the quota counts nothing.
Cancelled(c) ==
    /\ Fault("cut") /\ Ends(c) /\ Unaccounted(c)
    /\ \/ At(c, "connect") /\ _on_failure(c)
       \/ pc[c] \in {"fb_connect", "chunks", "commit"} /\ UNCHANGED vars
    /\ UNCHANGED service

Breaker == (Tick \/ reset) /\ UNCHANGED <<quotaVars, service, pc, tenant>>

NextDay == Midnight /\ UNCHANGED <<vars, service, pc, tenant>>

Begin(c) == transcribe(c) \/ synthesize(c) \/ complete(c) \/ llm_node(c)

Step(c) ==
    \/ EnforceQuota(c) \/ EnterPrimary(c) \/ Connected(c) \/ ConnectFails(c)
    \/ EnterFallback(c) \/ FallbackConnected(c) \/ FallbackFails(c)
    \/ StreamEnds(c) \/ Commit(c)

CallNext ==
    \/ \E c \in Calls : Begin(c) \/ Step(c) \/ Cancelled(c)
    \/ Breaker \/ NextDay

\* Sessions keep talking, time and again through AIPipeline; with_timeout ends
\* every wait for a connection, the vendor's client ends every stream, and the
\* clock runs.
CallFairness ==
    /\ \A c \in Calls : WF_callVars(Begin(c)) /\ SF_callVars(complete(c)) /\ WF_callVars(Step(c))
    /\ WF_callVars(Tick /\ UNCHANGED <<quotaVars, service, pc, tenant>>)

CallSpec == CallInit /\ [][CallNext]_callVars /\ CallFairness

-------------------------------------------------------------------------------

Labels == {"idle", "quota", "enter", "connect", "fb_enter", "fb_connect", "chunks", "commit"}

CallTypeOK ==
    /\ TypeOK /\ QuotaTypeOK /\ tenant \subseteq Calls
    /\ pc \in [Calls -> Labels]

\* The tokens of complete answers that wait for their commit, one by one.
Uncommitted(u) == {t \in Turns \X (1..MaxTokens) : t[2] <= u[t[1]]}

\* What the complete answers of today used is what the counter of today shows
\* and what is about to be committed: each turn is counted once, whether the
\* primary or the recursive fallback stream served it, and on the day of its
\* commit.  A turn cut off or a Redis failure is the only way to lose usage.
UsageAccounted ==
    "redis" \notin faults =>
        spent = tokens + Cardinality(Uncommitted(usage))

\* A turn that began returns: no vendor failure, closed breaker or exceeded
\* quota, and no order of them at the two models, holds it for ever.
TurnsReturn == \A c \in Calls : ~At(c, "idle") ~> At(c, "idle")

===============================================================================
