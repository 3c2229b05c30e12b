--------------------------- MODULE CircuitBreaker ---------------------------
(* The in-process circuit breaker that guards every STT, LLM and TTS vendor   *)
(* (app/domain/circuit_breaker.py).  One breaker is shared by all the call    *)
(* sessions of a pod: the coroutines in Calls enter and leave                 *)
(* `async with cb:` in any order.  Each lock-protected section of the code    *)
(* awaits nothing inside the lock, so it is one atomic step here; the vendor  *)
(* I/O in between runs outside the lock.                                      *)
EXTENDS Integers, FiniteSets

CONSTANTS
    Calls,                 \* coroutines that may use the breaker at one time
    failure_threshold,     \* CircuitBreakerConfig
    recovery_timeout,      \* in clock ticks
    half_open_max_calls,
    success_threshold,
    excluded_exceptions    \* the excluded exceptions that vendor calls do raise

ASSUME ConfigAssumption ==
    /\ IsFiniteSet(Calls)
    /\ failure_threshold \in Nat \ {0}
    /\ recovery_timeout \in Nat \ {0}
    /\ half_open_max_calls \in Nat \ {0}
    /\ success_threshold \in Nat \ {0}

VARIABLES
    state,             \* CircuitBreakerStats.state
    failure_count,     \* saturates at failure_threshold, its only comparison
    success_count,
    half_open_calls,   \* calls admitted since HALF_OPEN was entered
    elapsed,           \* monotonic() - last_failure_time, saturating at
                       \* recovery_timeout, its only comparison
    running,           \* calls inside the `async with` block
    probes,            \* history: running calls admitted in this HALF_OPEN period
    leaks              \* history: "slot" if a probe of this HALF_OPEN period
                       \* ended with an excluded exception

vars == <<state, failure_count, success_count, half_open_calls, elapsed,
          running, probes, leaks>>

CircuitState == {"CLOSED", "OPEN", "HALF_OPEN"}

Init ==
    /\ state = "CLOSED"
    /\ failure_count = 0
    /\ success_count = 0
    /\ half_open_calls = 0
    /\ elapsed = recovery_timeout
    /\ running = {}
    /\ probes = {}
    /\ leaks = {}

-----------------------------------------------------------------------------
(* __aenter__ with _check_state.  A rejected call (CircuitBreakerOpenError)   *)
(* changes nothing, so rejection is the absence of an Enter step.             *)

HasProbeSlot(n) == n < half_open_max_calls

Admits ==
    \/ state = "CLOSED"
    \/ state = "OPEN" /\ elapsed >= recovery_timeout
    \/ state = "HALF_OPEN" /\ HasProbeSlot(half_open_calls)

EnterClosed(c) ==
    /\ state = "CLOSED"
    /\ UNCHANGED <<state, success_count, half_open_calls, probes, leaks>>

EnterAfterTimeout(c) ==
    /\ state = "OPEN"
    /\ elapsed >= recovery_timeout
    /\ state' = "HALF_OPEN"
    /\ success_count' = 0
    /\ half_open_calls' = 1
    /\ probes' = {c} /\ leaks' = {}

EnterHalfOpen(c) ==
    /\ state = "HALF_OPEN"
    /\ HasProbeSlot(half_open_calls)
    /\ half_open_calls' = half_open_calls + 1
    /\ probes' = probes \cup {c}
    /\ UNCHANGED <<state, success_count, leaks>>

Enter(c) ==
    /\ c \in Calls \ running
    /\ EnterClosed(c) \/ EnterAfterTimeout(c) \/ EnterHalfOpen(c)
    /\ running' = running \cup {c}
    /\ UNCHANGED <<failure_count, elapsed>>

-----------------------------------------------------------------------------
(* __aexit__: the block ended normally, with a counted exception, or with an  *)
(* excluded one.  The state consulted is the one at the time of leaving, not  *)
(* the one the call was admitted in.                                          *)

EnoughSuccesses(n) == n >= success_threshold

\* Mutant: the counters are reset but the assignment of CLOSED is lost.
StateAfterRecovery_Lost == "HALF_OPEN"

StateAfterRecovery == "CLOSED"

Leave(c) ==
    /\ c \in running
    /\ running' = running \ {c}

_on_success(c) ==
    /\ Leave(c)
    /\ failure_count' = 0
    /\ IF state = "HALF_OPEN" /\ EnoughSuccesses(success_count + 1)
       THEN /\ state' = StateAfterRecovery
            /\ success_count' = 0
            /\ half_open_calls' = 0
            /\ probes' = {} /\ leaks' = {}
       ELSE /\ success_count' = success_count + (IF state = "HALF_OPEN" THEN 1 ELSE 0)
            /\ probes' = probes \ {c}
            /\ UNCHANGED <<state, half_open_calls, leaks>>
    /\ UNCHANGED elapsed

OneMoreFailure == IF failure_count < failure_threshold THEN failure_count + 1
                                                       ELSE failure_count

\* asyncio.CancelledError reaches __aexit__ as exc_val like any other
\* exception, and no service configuration lists it as excluded.
_on_failure(c) ==
    /\ Leave(c)
    /\ failure_count' = OneMoreFailure
    /\ elapsed' = 0
    /\ state' = IF \/ state = "HALF_OPEN"
                   \/ state = "CLOSED" /\ OneMoreFailure >= failure_threshold
                THEN "OPEN" ELSE state
    /\ half_open_calls' = IF state = "HALF_OPEN" THEN 0 ELSE half_open_calls
    /\ probes' = IF state = "HALF_OPEN" THEN {} ELSE probes \ {c}
    /\ leaks' = IF state = "HALF_OPEN" THEN {} ELSE leaks
    /\ UNCHANGED success_count

\* RuntimeError (make_service_config): neither a success nor a failure.
_is_excluded(c) ==
    /\ excluded_exceptions # {}
    /\ Leave(c)
    /\ probes' = probes \ {c}
    /\ leaks' = IF c \in probes THEN {"slot"} ELSE leaks
    /\ UNCHANGED <<state, failure_count, success_count, half_open_calls, elapsed>>

\* reset(): a fresh CircuitBreakerStats; calls in flight keep running.
reset ==
    /\ state' = "CLOSED"
    /\ failure_count' = 0
    /\ success_count' = 0
    /\ half_open_calls' = 0
    /\ elapsed' = recovery_timeout
    /\ probes' = {} /\ leaks' = {}
    /\ UNCHANGED running

\* time.monotonic() advances.
Tick ==
    /\ elapsed < recovery_timeout
    /\ elapsed' = elapsed + 1
    /\ UNCHANGED <<state, failure_count, success_count, half_open_calls,
                   running, probes, leaks>>

Complete(c) == _on_success(c) \/ _on_failure(c) \/ _is_excluded(c)

Next ==
    \/ \E c \in Calls : Enter(c) \/ Complete(c)
    \/ reset
    \/ Tick

Spec == Init /\ [][Next]_vars

-----------------------------------------------------------------------------
(* Type invariant: the statistics stay in range under every interleaving.     *)
TypeOK ==
    /\ state \in CircuitState
    /\ failure_count \in 0..failure_threshold
    /\ success_count \in Nat
    /\ half_open_calls \in Nat
    /\ elapsed \in 0..recovery_timeout
    /\ running \subseteq Calls
    /\ probes \subseteq running
    /\ leaks \subseteq {"slot"}

(* A closed breaker is always below its threshold, although failures that     *)
(* arrive late, in OPEN or HALF_OPEN, are counted too: only a success closes   *)
(* the breaker, and every success clears failure_count (_on_success).         *)
ClosedBelowThreshold ==
    state = "CLOSED" => failure_count < failure_threshold

(* A recovering vendor never serves more than half_open_max_calls probes at    *)
(* once, whatever calls of earlier periods are still in flight (_check_state). *)
ProbesBounded ==
    Cardinality(probes) <= half_open_max_calls

(* The breaker recovers by itself: a half-open breaker with nothing in flight *)
(* admits the next call.  half_open_calls counts admissions and is never      *)
(* decremented, so a breaker stays half-open for good only after an excluded  *)
(* exception ended one of its probes (__aexit__ then counts nothing); without *)
(* one this rests on success_threshold <= half_open_max_calls.                *)
NeverWedged ==
    state = "HALF_OPEN" /\ running = {} /\ leaks = {} => Admits

(* The inductive strengthening of ProbesBounded and NeverWedged: only a        *)
(* half-open breaker has probes, each of them holds one of the counted slots, *)
(* and a slot whose probe is gone was paid for with a success.                *)
ProbeSlots ==
    /\ state # "HALF_OPEN" => probes = {}
    /\ state = "HALF_OPEN" => /\ Cardinality(probes) <= half_open_calls
                              /\ half_open_calls <= half_open_max_calls
                              /\ success_count < success_threshold

SlotsPaidFor ==
    state = "HALF_OPEN" /\ leaks = {} => half_open_calls <= success_count + Cardinality(probes)

(* A half-open breaker decides: it closes or reopens (_on_success,            *)
(* _on_failure), unless an excluded exception took one of its slots.          *)
HalfOpenDecides == state = "HALF_OPEN" ~> state # "HALF_OPEN" \/ leaks # {}

=============================================================================
