------------------------------- MODULE TurnProofs ------------------------------
(***************************************************************************)
(* The session a call's turns belong to, and the circuit breaker and the   *)
(* LLM quota under the turns of a pod: for any number of turns and calls   *)
(* and any configuration.                                                  *)
(***************************************************************************)
EXTENDS VendorCall, CallSession, FiniteSetTheorems, TLAPS

\* The provers a step is given to in turn unless it names one, with their time limits.
USE SMTT(30), ZenonT(30)

(***************************************************************************)
(* THE BREAKER, with calls that enter and leave it in any order.           *)
(* ProbesBounded and NeverWedged rest on the slots: each probe holds one   *)
(* that was counted (ProbeSlots), and one whose probe is gone was paid for *)
(* with a success (SlotsPaidFor).                                          *)
(***************************************************************************)

(* What a step does to the number of probes in flight.                        *)
LEMMA ProbeCardinality ==
    ASSUME NEW S, IsFiniteSet(S), NEW c
    PROVE  /\ Cardinality(S) \in Nat
           /\ c \notin S => Cardinality(S \cup {c}) = Cardinality(S) + 1
           /\ Cardinality(S \ {c}) \in Nat
           /\ Cardinality(S \ {c}) <= Cardinality(S)
           /\ Cardinality(S) <= Cardinality(S \ {c}) + 1
           /\ Cardinality({c}) = 1
           /\ Cardinality({}) = 0
<1>1. Cardinality(S) \in Nat
  BY FS_CardinalityType
<1>2. c \notin S => Cardinality(S \cup {c}) = Cardinality(S) + 1
  BY FS_AddElement
<1>3. Cardinality(S \ {c}) = IF c \in S THEN Cardinality(S) - 1 ELSE Cardinality(S)
  BY FS_RemoveElement
<1>4. Cardinality(S \ {c}) \in Nat
  BY FS_RemoveElement, FS_CardinalityType
<1>5. Cardinality({c}) = 1
  BY FS_Singleton
<1>6. Cardinality({}) = 0
  BY FS_EmptySet
<1>. QED  BY <1>1, <1>2, <1>3, <1>4, <1>5, <1>6

(* The probes in flight are finitely many.                                    *)
LEMMA ProbesFinite == TypeOK => IsFiniteSet(probes)
<1>. SUFFICES ASSUME TypeOK PROVE IsFiniteSet(probes)
  OBVIOUS
<1>1. probes \in SUBSET Calls
  BY DEF TypeOK
<1>2. IsFiniteSet(Calls)
  BY ConfigAssumption
<1>. QED  BY <1>1, <1>2, FS_Subset

(* Type correctness: no interleaving of calls, resets and clock ticks takes   *)
(* the statistics of the breaker out of range.                                *)
THEOREM TypeCorrect == Spec => []TypeOK
<1>1. Init => TypeOK
  BY ConfigAssumption DEF Init, TypeOK, CircuitState
<1>2. TypeOK /\ [Next]_vars => TypeOK'
  <2>. SUFFICES ASSUME TypeOK, [Next]_vars PROVE TypeOK'
    OBVIOUS
  <2>. USE ConfigAssumption DEF TypeOK, CircuitState
  <2>1. ASSUME NEW c \in Calls, Enter(c) PROVE TypeOK'
    <3>1. leaks' \subseteq {"slot"}  BY <2>1, Zenon DEF Enter, EnterClosed, EnterAfterTimeout, EnterHalfOpen
    <3>2. running' \subseteq Calls /\ probes' \subseteq running'  BY <2>1 DEF Enter, EnterClosed, EnterAfterTimeout, EnterHalfOpen
    <3>3. /\ state' \in CircuitState /\ failure_count' \in 0..failure_threshold
          /\ success_count' \in Nat /\ half_open_calls' \in Nat
          /\ elapsed' \in 0..recovery_timeout
      BY <2>1 DEF Enter, EnterClosed, EnterAfterTimeout, EnterHalfOpen
    <3>. QED  BY <3>1, <3>2, <3>3
  <2>2. ASSUME NEW c \in Calls, _on_success(c) PROVE TypeOK'
    <3>1. leaks' \subseteq {"slot"}  BY <2>2, Zenon DEF _on_success, StateAfterRecovery, Leave
    <3>2. running' \subseteq Calls /\ probes' \subseteq running'  BY <2>2 DEF _on_success, StateAfterRecovery, Leave
    <3>3. /\ state' \in CircuitState /\ failure_count' \in 0..failure_threshold
          /\ success_count' \in Nat /\ half_open_calls' \in Nat
          /\ elapsed' \in 0..recovery_timeout
      BY <2>2 DEF _on_success, StateAfterRecovery, Leave
    <3>. QED  BY <3>1, <3>2, <3>3
  <2>3. ASSUME NEW c \in Calls, _on_failure(c) PROVE TypeOK'
    <3>1. leaks' \subseteq {"slot"}  BY <2>3, Zenon DEF _on_failure, OneMoreFailure, Leave
    <3>2. running' \subseteq Calls /\ probes' \subseteq running'  BY <2>3 DEF _on_failure, OneMoreFailure, Leave
    <3>3. /\ state' \in CircuitState /\ failure_count' \in 0..failure_threshold
          /\ success_count' \in Nat /\ half_open_calls' \in Nat
          /\ elapsed' \in 0..recovery_timeout
      BY <2>3 DEF _on_failure, OneMoreFailure, Leave
    <3>. QED  BY <3>1, <3>2, <3>3
  <2>4. ASSUME NEW c \in Calls, _is_excluded(c) PROVE TypeOK'
    BY <2>4 DEF _is_excluded, Leave
  <2>5. CASE reset
    BY <2>5 DEF reset
  <2>6. CASE Tick
    BY <2>6 DEF Tick
  <2>7. CASE UNCHANGED vars
    BY <2>7 DEF vars
  <2>. QED
    BY <2>1, <2>2, <2>3, <2>4, <2>5, <2>6, <2>7 DEF Next, Complete
<1>. QED  BY <1>1, <1>2, PTL DEF Spec

(* A closed breaker is below its failure threshold, whatever late failures    *)
(* were counted while it was open or half-open.                               *)
THEOREM ClosedIsBelowThreshold == Spec => []ClosedBelowThreshold
<1>1. Init => ClosedBelowThreshold
  BY ConfigAssumption DEF Init, ClosedBelowThreshold
<1>2. TypeOK /\ ClosedBelowThreshold /\ [Next]_vars => ClosedBelowThreshold'
  <2>. SUFFICES ASSUME TypeOK, ClosedBelowThreshold, [Next]_vars
                PROVE  ClosedBelowThreshold'
    OBVIOUS
  <2>. USE ConfigAssumption DEF TypeOK, CircuitState, ClosedBelowThreshold
  <2>1. ASSUME NEW c \in Calls, Enter(c) PROVE ClosedBelowThreshold'
    BY <2>1 DEF Enter, EnterClosed, EnterAfterTimeout, EnterHalfOpen
  <2>2. ASSUME NEW c \in Calls, _on_success(c) PROVE ClosedBelowThreshold'
    BY <2>2 DEF _on_success, StateAfterRecovery
  <2>3. ASSUME NEW c \in Calls, _on_failure(c) PROVE ClosedBelowThreshold'
    BY <2>3 DEF _on_failure, OneMoreFailure
  <2>4. ASSUME NEW c \in Calls, _is_excluded(c) PROVE ClosedBelowThreshold'
    BY <2>4 DEF _is_excluded
  <2>5. CASE reset \/ Tick \/ UNCHANGED vars
    BY <2>5 DEF reset, Tick, vars
  <2>. QED
    BY <2>1, <2>2, <2>3, <2>4, <2>5 DEF Next, Complete
<1>. QED  BY <1>1, <1>2, TypeCorrect, PTL DEF Spec

(* ProbeSlots is inductive: every probe in flight holds one of at most        *)
(* half_open_max_calls slots, and the successes seen are still too few.       *)
LEMMA ProbeSlotsInductive == TypeOK /\ ProbeSlots /\ [Next]_vars => ProbeSlots'
<1>. SUFFICES ASSUME TypeOK, ProbeSlots, [Next]_vars PROVE ProbeSlots'
  OBVIOUS
<1>. USE ConfigAssumption DEF TypeOK, CircuitState, ProbeSlots
<1>0. ASSUME NEW c
      PROVE  /\ Cardinality(probes) \in Nat
             /\ c \notin probes => Cardinality(probes \cup {c}) = Cardinality(probes) + 1
             /\ Cardinality(probes \ {c}) \in Nat
             /\ Cardinality(probes \ {c}) <= Cardinality(probes)
             /\ Cardinality({c}) = 1
  <2>1. IsFiniteSet(probes)  BY ProbesFinite
  <2>. QED  BY <2>1, ProbeCardinality, Zenon
<1>1. ASSUME NEW c \in Calls, Enter(c) PROVE ProbeSlots'
  <2>. c \notin probes  BY <1>1 DEF Enter
  <2>1. CASE EnterClosed(c)
    BY <1>1, <2>1 DEF Enter, EnterClosed
  <2>2. CASE EnterAfterTimeout(c)
    <3>1. Cardinality(probes') = 1  BY <1>0, <2>2, Zenon DEF EnterAfterTimeout
    <3>. QED  BY <3>1, <2>2 DEF EnterAfterTimeout
  <2>3. CASE EnterHalfOpen(c)
    <3>1. Cardinality(probes') = Cardinality(probes) + 1  BY <1>0, <2>3, Zenon DEF EnterHalfOpen
    <3>2. Cardinality(probes) \in Nat  BY <1>0, Zenon
    <3>. QED  BY <3>2, <3>1, <2>3 DEF EnterHalfOpen, HasProbeSlot
  <2>. QED  BY <1>1, <2>1, <2>2, <2>3 DEF Enter
<1>2. ASSUME NEW c \in Calls, _on_success(c) PROVE ProbeSlots'
  <2>1. CASE probes' = probes \ {c}
    <3>1. Cardinality(probes') \in Nat /\ Cardinality(probes') <= Cardinality(probes)
      BY <1>0, <2>1, Zenon
    <3>2. Cardinality(probes) \in Nat  BY <1>0, Zenon
    <3>. QED  BY <1>2, <2>1, <3>1, <3>2 DEF _on_success, StateAfterRecovery, EnoughSuccesses
  <2>2. CASE probes' = {} /\ state' = "CLOSED"
    BY <2>2
  <2>. QED  BY <1>2, <2>1, <2>2 DEF _on_success, StateAfterRecovery
<1>3. ASSUME NEW c \in Calls, _on_failure(c) PROVE ProbeSlots'
  BY <1>3 DEF _on_failure
<1>4. ASSUME NEW c \in Calls, _is_excluded(c) PROVE ProbeSlots'
  <2>1. Cardinality(probes') \in Nat /\ Cardinality(probes') <= Cardinality(probes)
    BY <1>0, <1>4, Zenon DEF _is_excluded
  <2>2. Cardinality(probes) \in Nat  BY <1>0, Zenon
  <2>. QED  BY <1>4, <2>1, <2>2 DEF _is_excluded
<1>5. CASE reset \/ Tick \/ UNCHANGED vars
  BY <1>5 DEF reset, Tick, vars
<1>. QED
  BY <1>1, <1>2, <1>3, <1>4, <1>5 DEF Next, Complete

(* A recovering vendor is never hit by more than half_open_max_calls probes   *)
(* at once, for any number of concurrent sessions.                            *)
THEOREM ProbesAreBounded == Spec => []ProbesBounded
<1>1. Init => ProbeSlots
  BY DEF Init, ProbeSlots
<1>2. TypeOK /\ ProbeSlots => ProbesBounded
  <2>. SUFFICES ASSUME TypeOK, ProbeSlots PROVE ProbesBounded
    OBVIOUS
  <2>1. Cardinality(probes) \in Nat /\ Cardinality({}) = 0
    BY ProbesFinite, ProbeCardinality, Zenon
  <2>2. CASE state = "HALF_OPEN"
    BY ConfigAssumption, <2>1, <2>2 DEF TypeOK, ProbeSlots, ProbesBounded
  <2>3. CASE state # "HALF_OPEN"
    <3>1. Cardinality(probes) = 0  BY <2>1, <2>3, Zenon DEF ProbeSlots
    <3>. QED  BY ConfigAssumption, <3>1 DEF ProbesBounded
  <2>. QED  BY <2>2, <2>3
<1>. QED  BY <1>1, <1>2, ProbeSlotsInductive, TypeCorrect, PTL DEF Spec

(* Every slot that is no longer held by a probe was paid for with a success,  *)
(* as long as no probe of the period ended with an excluded exception.        *)
LEMMA SlotsPaidForInductive ==
    ASSUME TypeOK, ProbeSlots, SlotsPaidFor, [Next]_vars
    PROVE  SlotsPaidFor'
<1>. USE ConfigAssumption DEF TypeOK, CircuitState, SlotsPaidFor
<1>0. ASSUME NEW c
      PROVE  /\ Cardinality(probes) \in Nat
             /\ c \notin probes => Cardinality(probes \cup {c}) = Cardinality(probes) + 1
             /\ Cardinality(probes \ {c}) \in Nat
             /\ Cardinality(probes) <= Cardinality(probes \ {c}) + 1
             /\ Cardinality({c}) = 1
  <2>1. IsFiniteSet(probes)  BY ProbesFinite
  <2>. QED  BY <2>1, ProbeCardinality, Zenon
<1>card. Cardinality(probes) \in Nat
  BY <1>0, Zenon
<1>1. ASSUME NEW c \in Calls, Enter(c) PROVE SlotsPaidFor'
  <2>. c \notin probes  BY <1>1 DEF Enter
  <2>1. CASE EnterClosed(c)
    BY <1>1, <2>1 DEF Enter, EnterClosed
  <2>2. CASE EnterAfterTimeout(c)
    <3>1. Cardinality(probes') = 1  BY <1>0, <2>2, Zenon DEF EnterAfterTimeout
    <3>. QED  BY <3>1, <2>2 DEF EnterAfterTimeout
  <2>3. CASE EnterHalfOpen(c)
    <3>1. Cardinality(probes') = Cardinality(probes) + 1  BY <1>0, <2>3, Zenon DEF EnterHalfOpen
    <3>. QED  BY <1>card, <3>1, <2>3 DEF EnterHalfOpen
  <2>. QED  BY <1>1, <2>1, <2>2, <2>3, Zenon DEF Enter
<1>2. ASSUME NEW c \in Calls, _on_success(c) PROVE SlotsPaidFor'
  <2>1. CASE probes' = probes \ {c} /\ UNCHANGED <<state, half_open_calls>>
    <3>1. Cardinality(probes') \in Nat /\ Cardinality(probes) <= Cardinality(probes') + 1
      BY <1>0, <2>1, Zenon
    <3>. QED  BY <1>2, <1>card, <2>1, <3>1 DEF _on_success, StateAfterRecovery
  <2>2. CASE state' = "CLOSED"
    BY <2>2
  <2>. QED  BY <1>2, <2>1, <2>2, Zenon DEF _on_success, StateAfterRecovery
<1>3. ASSUME NEW c \in Calls, _on_failure(c) PROVE SlotsPaidFor'
  BY <1>3 DEF _on_failure
<1>4. ASSUME NEW c \in Calls, _is_excluded(c) PROVE SlotsPaidFor'
  BY <1>4 DEF _is_excluded
<1>5. CASE reset \/ Tick \/ UNCHANGED vars
  BY <1>5 DEF reset, Tick, vars
<1>. QED
  BY <1>1, <1>2, <1>3, <1>4, <1>5, Zenon DEF Next, Complete

(* Automatic recovery: when success_threshold fits into half_open_max_calls,  *)
(* a half-open breaker with nothing in flight always admits the next call,    *)
(* whatever late completions of earlier periods were counted, unless a probe  *)
(* of this period ended with an excluded exception.                           *)
THEOREM WedgedOnlyByExclusions ==
    ASSUME success_threshold <= half_open_max_calls
    PROVE  Spec => []NeverWedged
<1>1. Init => ProbeSlots /\ SlotsPaidFor
  BY DEF Init, ProbeSlots, SlotsPaidFor
<1>2. TypeOK /\ ProbeSlots /\ SlotsPaidFor /\ [Next]_vars => SlotsPaidFor'
  BY SlotsPaidForInductive, Zenon
<1>3. TypeOK /\ ProbeSlots /\ SlotsPaidFor => NeverWedged
  <2>. SUFFICES ASSUME TypeOK, ProbeSlots, SlotsPaidFor,
                       state = "HALF_OPEN", running = {}, leaks = {}
                PROVE  half_open_calls < half_open_max_calls
    BY DEF NeverWedged, Admits, HasProbeSlot
  <2>1. probes = {}
    BY DEF TypeOK
  <2>2. Cardinality(probes) = 0
    BY <2>1, FS_EmptySet, Zenon
  <2>. QED  BY ConfigAssumption, <2>2 DEF TypeOK, ProbeSlots, SlotsPaidFor
<1>. QED  BY <1>1, <1>2, <1>3, ProbeSlotsInductive, TypeCorrect, PTL DEF Spec

-------------------------------------------------------------------------------
(* The turns use it as it is meant to be used.                             *)

\* Every step of a turn is a step of the breaker, or none.
LEMMA TurnsStepBreaker == [CallNext]_callVars => [Next]_vars
<1> SUFFICES ASSUME [CallNext]_callVars PROVE [Next]_vars
    OBVIOUS
<1>1. ASSUME NEW c \in Calls, Begin(c) PROVE UNCHANGED vars
    BY <1>1 DEF Begin, transcribe, synthesize, complete, llm_node
<1>2. ASSUME NEW c \in Calls, EnterPrimary(c) PROVE Enter(c) \/ UNCHANGED vars
    BY <1>2 DEF EnterPrimary
<1>3. ASSUME NEW c \in Calls, Connected(c) \/ ConnectFails(c) \/ Cancelled(c)
      PROVE  Complete(c) \/ UNCHANGED vars
    BY <1>3 DEF Connected, ConnectFails, Cancelled, with_timeout, _get_client, Complete
<1>4. ASSUME NEW c \in Calls,
             \/ EnforceQuota(c) \/ EnterFallback(c) \/ FallbackConnected(c) \/ FallbackFails(c)
             \/ StreamEnds(c) \/ Commit(c)
      PROVE  UNCHANGED vars
    BY <1>4 DEF EnforceQuota, EnterFallback, FallbackConnected, FallbackFails, StreamEnds, Commit
<1>5. Breaker => Tick \/ reset BY DEF Breaker
<1>6. NextDay => UNCHANGED vars BY DEF NextDay
<1>7. UNCHANGED callVars => UNCHANGED vars BY DEF callVars
<1> QED BY <1>1, <1>2, <1>3, <1>4, <1>5, <1>6, <1>7, Zenon DEF CallNext, Step, Next

\* STT, LLM and TTS calls, with their fallbacks, timeouts and cancellations, enter
\* and leave `async with cb:` as the breaker expects: they implement its
\* specification, so its theorems hold of them.
THEOREM CallsImplementBreaker == CallSpec => Spec
<1>1. CallInit => Init BY DEF CallInit
<1> QED BY <1>1, TurnsStepBreaker, PTL DEF CallSpec, Spec

\* Whatever the turns of a pod do, the statistics stay in range, a closed breaker
\* is below its threshold and a recovering vendor serves a bounded number of probes.
THEOREM BreakerHolds == CallSpec => [](TypeOK /\ ClosedBelowThreshold /\ ProbesBounded)
BY CallsImplementBreaker, TypeCorrect, ClosedIsBelowThreshold, ProbesAreBounded, PTL

(***************************************************************************)
(* THE QUOTA.  OvershootBounded is not inductive: a turn passes the check  *)
(* long before it is counted.  The invariant gives every turn that has     *)
(* passed the largest amount it may still add.                             *)
(***************************************************************************)

Pending(n) == MaxTokens * n

\* What is counted and what may still be counted stays below the bound.
Reserved ==
    llm_daily_token_quota > 0 /\ policy # "warn" /\ "redis" \notin faults =>
        tokens + Pending(Cardinality(admitted)) < llm_daily_token_quota + Pending(Cardinality(Turns))

QuotaInv == QuotaTypeOK /\ Reserved

\* Multiplication by MaxTokens is monotonic, and one turn more adds MaxTokens.
LEMMA PendingMonotonic ==
    /\ \A n \in Nat : Pending(n) \in Nat /\ Pending(n + 1) = Pending(n) + MaxTokens
    /\ \A m, n \in Nat : m <= n => Pending(m) <= Pending(n)
    BY QuotaAssumption DEF Pending

\* Sets of turns can be counted.
LEMMA TurnsFinite ==
    ASSUME NEW S \in SUBSET Turns
    PROVE  /\ IsFiniteSet(S) /\ Cardinality(S) \in Nat /\ Cardinality(S) <= Cardinality(Turns)
           /\ Cardinality(Turns) \in Nat
           /\ \A c \in S : Cardinality(S) = Cardinality(S \ {c}) + 1
<1>1. IsFiniteSet(S) /\ IsFiniteSet(Turns)
    BY QuotaAssumption, FS_Subset
<1>2. Cardinality(S) \in Nat /\ Cardinality(Turns) \in Nat
    BY <1>1, FS_CardinalityType
<1>3. Cardinality(S) <= Cardinality(Turns)
    BY <1>1, FS_Subset
<1>4. \A c \in S : Cardinality(S \ {c}) = Cardinality(S) - 1
    BY <1>1, FS_RemoveElement
<1> QED BY <1>1, <1>2, <1>3, <1>4

\* An invariant state bounds the counter.
LEMMA ReservedBounds == QuotaInv => OvershootBounded
<1> SUFFICES ASSUME QuotaInv, llm_daily_token_quota > 0 /\ policy # "warn" /\ "redis" \notin faults
             PROVE  tokens < llm_daily_token_quota + MaxTokens * Cardinality(Turns)
    BY DEF OvershootBounded
<1>1. admitted \in SUBSET Turns /\ tokens \in Nat
    BY DEF QuotaInv, QuotaTypeOK
<1>2. Cardinality(admitted) \in Nat /\ Cardinality(Turns) \in Nat
    BY <1>1, TurnsFinite
<1>3. Pending(Cardinality(admitted)) \in Nat /\ Pending(Cardinality(Turns)) \in Nat
    BY <1>2, PendingMonotonic, Zenon
<1>4. tokens + Pending(Cardinality(admitted)) < llm_daily_token_quota + Pending(Cardinality(Turns))
    BY DEF QuotaInv, Reserved
<1>5. tokens < llm_daily_token_quota + Pending(Cardinality(Turns))
    BY <1>1, <1>3, <1>4, QuotaAssumption
<1> QED BY <1>5 DEF Pending

-------------------------------------------------------------------------------
(* The quota's own steps.                                                  *)

\* A turn let through finds the counter below the quota.
LEMMA EnforceKeeps ==
    ASSUME NEW c \in Turns, QuotaInv, enforce_quota(c)
    PROVE  QuotaInv'
<1>1. admitted \in SUBSET Turns /\ admitted' \in SUBSET Turns /\ tokens \in Nat
    BY DEF QuotaInv, QuotaTypeOK, enforce_quota
<1>2. QuotaTypeOK'
    BY <1>1 DEF QuotaInv, QuotaTypeOK, enforce_quota
<1>3. ASSUME llm_daily_token_quota > 0, policy # "warn", "redis" \notin faults'
      PROVE  tokens < llm_daily_token_quota
    BY <1>1, <1>3, QuotaAssumption DEF enforce_quota, Fault, NoFault, check_quota, OverTokens
<1>4. Cardinality(admitted') \in Nat /\ Cardinality(Turns) \in Nat
      /\ Cardinality(admitted') <= Cardinality(Turns)
    BY <1>1, TurnsFinite
<1>5. /\ Pending(Cardinality(admitted')) <= Pending(Cardinality(Turns))
      /\ Pending(Cardinality(admitted')) \in Nat /\ Pending(Cardinality(Turns)) \in Nat
    BY <1>4, PendingMonotonic
<1>6. tokens' = tokens
    BY DEF enforce_quota
<1>7. Reserved'
    BY <1>1, <1>3, <1>5, <1>6, QuotaAssumption DEF Reserved
<1> QED BY <1>2, <1>7 DEF QuotaInv

\* The answer of a turn is counted later.
LEMMA AnswerKeeps ==
    ASSUME NEW c \in Turns, NEW n \in 1..MaxTokens, QuotaInv, Answer(c, n)
    PROVE  QuotaInv'
<1>1. QuotaTypeOK'
    BY QuotaAssumption DEF QuotaInv, QuotaTypeOK, Answer
<1>2. Reserved'
    BY DEF QuotaInv, Reserved, Answer
<1> QED BY <1>1, <1>2 DEF QuotaInv

\* A turn that leaves gives back all that was set aside for it.
LEMMA LeaveKeeps ==
    ASSUME NEW c \in Turns, QuotaInv, c \in admitted, admitted' = admitted \ {c},
           "redis" \in faults => "redis" \in faults',
           tokens' \in Nat, tokens' <= tokens + MaxTokens
    PROVE  Reserved'
<1>1. admitted \in SUBSET Turns /\ admitted' \in SUBSET Turns /\ tokens \in Nat
    BY DEF QuotaInv, QuotaTypeOK
<1>2. /\ Cardinality(admitted) = Cardinality(admitted') + 1
      /\ Cardinality(admitted') \in Nat /\ Cardinality(Turns) \in Nat
    BY <1>1, TurnsFinite
<1>3. /\ Pending(Cardinality(admitted)) = Pending(Cardinality(admitted')) + MaxTokens
      /\ Pending(Cardinality(admitted')) \in Nat /\ Pending(Cardinality(Turns)) \in Nat
    BY <1>2, PendingMonotonic
<1>4. Reserved
    BY DEF QuotaInv
<1> QED BY <1>1, <1>3, <1>4, QuotaAssumption DEF Reserved

\* The commit adds at most MaxTokens, the amount set aside.
LEMMA CommitKeeps ==
    ASSUME NEW c \in Turns, QuotaInv, commit_usage(c)
    PROVE  QuotaInv'
<1>1. c \in admitted /\ usage[c] \in 1..MaxTokens /\ tokens \in Nat /\ cost \in Nat
    BY QuotaAssumption DEF QuotaInv, QuotaTypeOK, commit_usage
<1>2. _estimate_cost_cents(usage[c]) \in Nat
    BY <1>1, QuotaAssumption DEF _estimate_cost_cents, Round
<1>3. tokens' \in Nat /\ tokens' <= tokens + MaxTokens /\ cost' \in Nat
    BY <1>1, <1>2, QuotaAssumption DEF commit_usage, Committed
<1>4. QuotaTypeOK'
    BY <1>1, <1>3, QuotaAssumption DEF QuotaInv, QuotaTypeOK, commit_usage
<1>5. Reserved'
    BY <1>1, <1>3, LeaveKeeps DEF commit_usage, Fault, NoFault
<1> QED BY <1>4, <1>5 DEF QuotaInv

\* A turn that gives up adds nothing.
LEMMA GivesUpKeeps ==
    ASSUME NEW c \in Turns, QuotaInv, GivesUp(c), "redis" \in faults => "redis" \in faults'
    PROVE  QuotaInv'
<1>1. c \in admitted /\ tokens \in Nat /\ tokens' = tokens /\ admitted' = admitted \ {c}
    BY Zenon DEF QuotaInv, QuotaTypeOK, GivesUp
<1>2. QuotaTypeOK'
    BY QuotaAssumption DEF QuotaInv, QuotaTypeOK, GivesUp
<1>3. Reserved'
    BY <1>1, LeaveKeeps, QuotaAssumption
<1> QED BY <1>2, <1>3 DEF QuotaInv

\* At midnight the counter starts again, the turns under way stay.
LEMMA MidnightKeeps ==
    ASSUME QuotaInv, Midnight
    PROVE  QuotaInv'
<1>1. QuotaTypeOK'
    BY DEF QuotaInv, QuotaTypeOK, Midnight
<1>2. admitted \in SUBSET Turns /\ tokens \in Nat /\ tokens' = 0 /\ UNCHANGED <<admitted, faults>>
    BY DEF QuotaInv, QuotaTypeOK, Midnight
<1>3. Cardinality(admitted) \in Nat /\ Cardinality(Turns) \in Nat
    BY <1>2, TurnsFinite
<1>4. Pending(Cardinality(admitted)) \in Nat /\ Pending(Cardinality(Turns)) \in Nat
    BY <1>3, PendingMonotonic, Zenon
<1>5. Reserved'
    BY <1>2, <1>4, QuotaAssumption DEF QuotaInv, Reserved
<1> QED BY <1>1, <1>5 DEF QuotaInv

-------------------------------------------------------------------------------
(* The turns that take them.                                               *)

\* Only turns of a tenant reach the quota.
TenantTurns ==
    /\ tenant \subseteq Turns /\ pc \in [Calls -> Labels]
    /\ \A c \in Calls : pc[c] \in {"quota", "commit"} => c \in tenant

IInv == QuotaInv /\ TenantTurns

\* A turn of a tenant gives up, another has nothing to give.
LEMMA UnaccountedKeeps ==
    ASSUME NEW c \in Calls, IInv, Unaccounted(c), "redis" \in faults => "redis" \in faults'
    PROVE  QuotaInv'
<1>1. CASE c \in tenant
    BY <1>1, GivesUpKeeps, Zenon DEF Unaccounted, IInv, TenantTurns
<1>2. CASE c \notin tenant
    BY <1>2 DEF Unaccounted, IInv, QuotaInv, QuotaTypeOK, Reserved
<1> QED BY <1>1, <1>2

\* A step that leaves the quota alone keeps its invariant.
LEMMA QuotaStutters == QuotaInv /\ UNCHANGED quotaVars => QuotaInv'
    BY Zenon DEF QuotaInv, QuotaTypeOK, Reserved, quotaVars

\* Only turns of a tenant are checked and committed, after every step.
LEMMA TenantTurnsKept == TenantTurns /\ [CallNext]_callVars => TenantTurns'
<1> SUFFICES ASSUME TenantTurns, [CallNext]_callVars PROVE TenantTurns'
    OBVIOUS
<1> USE DEF TenantTurns, Labels, Goto, At, Ends
<1>1. ASSUME NEW c \in Calls, Begin(c) PROVE TenantTurns'
    BY <1>1 DEF Begin, transcribe, synthesize, complete, llm_node
<1>2. ASSUME NEW c \in Calls, EnforceQuota(c) \/ EnterPrimary(c) PROVE TenantTurns'
    BY <1>2 DEF EnforceQuota, EnterPrimary
<1>3. ASSUME NEW c \in Calls, Connected(c) \/ ConnectFails(c) PROVE TenantTurns'
    BY <1>3, Zenon DEF Connected, ConnectFails
<1>4. ASSUME NEW c \in Calls, EnterFallback(c) \/ FallbackConnected(c) \/ FallbackFails(c)
      PROVE  TenantTurns'
    BY <1>4, Zenon DEF EnterFallback, FallbackConnected, FallbackFails, Reraise
<1>5. ASSUME NEW c \in Calls, StreamEnds(c) \/ Commit(c) \/ Cancelled(c) PROVE TenantTurns'
    BY <1>5 DEF StreamEnds, Commit, Cancelled
<1>6. ASSUME Breaker \/ NextDay \/ UNCHANGED callVars PROVE TenantTurns'
    BY <1>6, Zenon DEF Breaker, NextDay, callVars
<1> QED BY <1>1, <1>2, <1>3, <1>4, <1>5, <1>6, ZenonT(30) DEF CallNext, Step

\* The quota's invariant holds after every step of a turn.
LEMMA QuotaKept == IInv /\ [CallNext]_callVars => QuotaInv'
<1> SUFFICES ASSUME IInv, [CallNext]_callVars PROVE QuotaInv'
    OBVIOUS
<1>0. QuotaInv /\ TenantTurns
    BY Zenon DEF IInv
<1>1. ASSUME NEW c \in Calls, Begin(c) PROVE QuotaInv'
    BY <1>0, <1>1, QuotaStutters, Zenon DEF Begin, transcribe, synthesize, complete, llm_node
<1>2. ASSUME NEW c \in Calls, EnforceQuota(c) PROVE QuotaInv'
    BY <1>0, <1>2, EnforceKeeps, QuotaStutters, Zenon DEF EnforceQuota, TenantTurns, At
<1>3. ASSUME NEW c \in Calls, EnterPrimary(c) PROVE QuotaInv'
    BY <1>0, <1>3, UnaccountedKeeps, QuotaStutters, Zenon DEF EnterPrimary, NoFault
<1>4. ASSUME NEW c \in Calls, Connected(c) \/ ConnectFails(c) \/ FallbackConnected(c)
      PROVE  QuotaInv'
    BY <1>0, <1>4, QuotaStutters DEF Connected, ConnectFails, FallbackConnected
<1>5. ASSUME NEW c \in Calls, EnterFallback(c) PROVE QuotaInv'
    BY <1>0, <1>5, UnaccountedKeeps, QuotaStutters, Zenon DEF EnterFallback, NoFault
<1>6. ASSUME NEW c \in Calls, FallbackFails(c) PROVE QuotaInv'
    BY <1>6, UnaccountedKeeps DEF FallbackFails, Reraise, NoFault
<1>7. ASSUME NEW c \in Calls, StreamEnds(c) PROVE QuotaInv'
  <2>1. CASE c \in tenant
      BY <1>0, <1>7, <2>1, AnswerKeeps, Zenon DEF StreamEnds, TenantTurns
  <2>2. CASE c \notin tenant
      BY <1>0, <1>7, <2>2, QuotaStutters, Zenon DEF StreamEnds
  <2> QED BY <2>1, <2>2
<1>8. ASSUME NEW c \in Calls, Commit(c) PROVE QuotaInv'
    BY <1>0, <1>8, CommitKeeps DEF Commit, TenantTurns, At
<1>9. ASSUME NEW c \in Calls, Cancelled(c) PROVE QuotaInv'
    BY <1>9, UnaccountedKeeps DEF Cancelled, Fault
<1>10. ASSUME Breaker \/ UNCHANGED callVars PROVE QuotaInv'
    BY <1>0, <1>10, QuotaStutters DEF Breaker, callVars
<1>11. ASSUME NextDay PROVE QuotaInv'
    BY <1>0, <1>11, MidnightKeeps DEF NextDay
<1> QED BY <1>1, <1>2, <1>3, <1>4, <1>5, <1>6, <1>7, <1>8, <1>9, <1>10, <1>11, ZenonT(30) DEF CallNext, Step

\* The counters start empty, with no turn under way.
LEMMA InitReserved == CallInit => IInv
<1> SUFFICES ASSUME CallInit PROVE IInv
    OBVIOUS
<1>1. TenantTurns
    BY DEF CallInit, TenantTurns, Labels
<1>2. QuotaTypeOK /\ admitted = {} /\ tokens = 0
    BY QuotaAssumption DEF CallInit, QuotaInit, QuotaTypeOK
<1>3. Cardinality({}) = 0 /\ Cardinality(Turns) \in Nat
    BY TurnsFinite, FS_EmptySet
<1>4. Pending(0) = 0 /\ Pending(Cardinality(Turns)) \in Nat
    BY <1>3, PendingMonotonic, QuotaAssumption DEF Pending
<1>5. Reserved
    BY <1>2, <1>3, <1>4, QuotaAssumption DEF Reserved
<1> QED BY <1>1, <1>2, <1>5 DEF IInv, QuotaInv

\* The quota's overshoot is bounded at every moment of every behaviour: the
\* check of enforce_quota and the commit of commit_usage are far apart, and no
\* more than the turns in between can carry the counter past the quota.
THEOREM OvershootIsBounded == CallSpec => []OvershootBounded
<1>1. CallInit => IInv
    BY InitReserved
<1>2. IInv /\ [CallNext]_callVars => IInv'
    BY QuotaKept, TenantTurnsKept DEF IInv
<1>3. IInv => OvershootBounded
    BY ReservedBounds DEF IInv
<1> QED BY <1>1, <1>2, <1>3, PTL DEF CallSpec

\* The breaker, the quota's counters and the turns stay within their types.
THEOREM CallTypeCorrect == CallSpec => []CallTypeOK
<1>1. CallInit => IInv
    BY InitReserved
<1>2. IInv /\ [CallNext]_callVars => IInv'
    BY QuotaKept, TenantTurnsKept DEF IInv
<1>3. IInv /\ TypeOK => CallTypeOK
    BY TurnsAreCalls DEF IInv, QuotaInv, TenantTurns, CallTypeOK
<1> QED BY <1>1, <1>2, <1>3, BreakerHolds, PTL DEF CallSpec
-------------------------------------------------------------------------------
(***************************************************************************)
(* USAGE.  Each step of the quota moves the tokens of one turn, and what   *)
(* it takes from the answers under way it adds to the counter.             *)
(***************************************************************************)

\* Sets of tokens can be counted.
LEMMA TokensFinite == IsFiniteSet(Turns \X (1..MaxTokens))
<1>1. IsFiniteSet(Turns) /\ IsFiniteSet(1..MaxTokens)
    BY QuotaAssumption, FS_Interval
<1> QED BY <1>1, FS_Product, Zenon

\* An answer under way weighs as many tokens as the turn is counted with.
LEMMA OneAnswer ==
    ASSUME NEW u \in [Turns -> 0..MaxTokens], NEW c \in Turns
    PROVE  /\ Cardinality(Uncommitted([u EXCEPT ![c] = 0])) \in Nat
           /\ Cardinality(Uncommitted(u)) = Cardinality(Uncommitted([u EXCEPT ![c] = 0])) + u[c]
<1> DEFINE Others == Uncommitted([u EXCEPT ![c] = 0])
           Own == {c} \X (1..u[c])
<1>1. u[c] \in Nat /\ u[c] <= MaxTokens /\ MaxTokens \in Nat
    BY QuotaAssumption
<1>2. IsFiniteSet(Turns \X (1..MaxTokens))
    BY TokensFinite
<1>3. Others \subseteq Turns \X (1..MaxTokens)
    BY DEF Uncommitted
<1>4. IsFiniteSet(Others) /\ Cardinality(Others) \in Nat
    BY <1>2, <1>3, FS_Subset, FS_CardinalityType, Zenon
<1>5. IsFiniteSet(1..u[c]) /\ Cardinality(1..u[c]) = u[c]
    BY <1>1, FS_Interval
<1>6. IsFiniteSet({c}) /\ Cardinality({c}) = 1
    BY FS_Singleton, ZenonT(30)
<1>7. IsFiniteSet(Own) /\ Cardinality(Own) = u[c]
  <2>1. IsFiniteSet(Own) /\ Cardinality(Own) = Cardinality({c}) * Cardinality(1..u[c])
      BY <1>5, <1>6, FS_Product, Zenon
  <2> HIDE DEF Own
  <2> QED BY <1>1, <1>5, <1>6, <2>1
<1>8. Uncommitted(u) = Others \cup Own
  <2>1. ASSUME NEW t \in Turns, NEW k \in 1..MaxTokens
        PROVE  k <= u[t] <=> (k <= [u EXCEPT ![c] = 0][t] \/ (t = c /\ k \in 1..u[c]))
      BY <1>1, <2>1
  <2>2. Uncommitted(u) \subseteq Others \cup Own
      BY <2>1 DEF Uncommitted
  <2>3. Own \subseteq Uncommitted(u)
    <3>1. \A k \in 1..u[c] : k \in 1..MaxTokens /\ k <= u[c]
        BY <1>1
    <3> QED BY <3>1 DEF Uncommitted
  <2>4. Others \subseteq Uncommitted(u)
      BY <2>1, Zenon DEF Uncommitted
  <2> QED BY <2>2, <2>3, <2>4, Zenon
<1>9. Others \cap Own = {}
  <2>1. \A k \in 1..MaxTokens : ~(k <= 0)
      BY <1>1
  <2> QED BY <2>1 DEF Uncommitted
<1>10. Cardinality(Uncommitted(u)) = Cardinality(Others) + Cardinality(Own) - Cardinality(Others \cap Own)
    BY <1>4, <1>7, <1>8, FS_Union, Zenon
<1>11. Cardinality(Others \cap Own) = 0
    BY <1>9, FS_EmptySet, Zenon
<1> HIDE DEF Others, Own
<1>12. Cardinality(Uncommitted(u)) = Cardinality(Others) + u[c]
    BY <1>1, <1>4, <1>7, <1>10, <1>11
<1> QED BY <1>4, <1>12, Zenon DEF Others

\* A complete answer is accounted for as under way.
LEMMA AnswerAccounts ==
    ASSUME NEW c \in Turns, NEW n \in 1..MaxTokens, QuotaTypeOK, UsageAccounted, Answer(c, n)
    PROVE  UsageAccounted'
<1>1. usage \in [Turns -> 0..MaxTokens] /\ usage' \in [Turns -> 0..MaxTokens] /\ n \in Nat
      /\ tokens \in Nat /\ spent \in Int
    BY QuotaAssumption DEF QuotaTypeOK, Answer
<1>2. usage = [usage' EXCEPT ![c] = 0] /\ usage'[c] = n
    BY <1>1, Zenon DEF Answer
<1>3. /\ Cardinality(Uncommitted(usage)) \in Nat
      /\ Cardinality(Uncommitted(usage')) = Cardinality(Uncommitted(usage)) + n
    BY <1>1, <1>2, OneAnswer, Zenon
<1>4. spent' = spent + n /\ tokens' = tokens /\ faults' = faults
    BY ZenonT(30) DEF Answer
<1> QED BY <1>1, <1>3, <1>4 DEF UsageAccounted, Uncommitted

\* A commit adds to the counter what the answer under way weighed.
LEMMA CommitAccounts ==
    ASSUME NEW c \in Turns, QuotaTypeOK, UsageAccounted, commit_usage(c)
    PROVE  UsageAccounted'
<1>1. usage \in [Turns -> 0..MaxTokens] /\ usage[c] \in Nat /\ tokens \in Nat /\ spent \in Int
    BY QuotaAssumption DEF QuotaTypeOK
<1>2. usage' = [usage EXCEPT ![c] = 0] /\ spent' = spent
    BY DEF commit_usage
<1>3. /\ Cardinality(Uncommitted(usage')) \in Nat
      /\ Cardinality(Uncommitted(usage)) = Cardinality(Uncommitted(usage')) + usage[c]
    BY <1>1, <1>2, OneAnswer, Zenon
<1>4. "redis" \notin faults' => "redis" \notin faults /\ tokens' = tokens + usage[c]
    BY ZenonT(30) DEF commit_usage, Fault, NoFault, Committed
<1> QED BY <1>1, <1>2, <1>3, <1>4 DEF UsageAccounted, Uncommitted

\* A turn that gives up is not counted, and its answer is not under way.
LEMMA GivesUpAccounts ==
    ASSUME NEW c \in Turns, QuotaTypeOK, UsageAccounted, GivesUp(c),
           "redis" \in faults => "redis" \in faults'
    PROVE  UsageAccounted'
<1>1. usage \in [Turns -> 0..MaxTokens] /\ usage[c] \in Nat /\ tokens \in Nat /\ spent \in Int
    BY QuotaAssumption DEF QuotaTypeOK
<1>2. usage' = [usage EXCEPT ![c] = 0] /\ spent' = spent - usage[c] /\ tokens' = tokens
    BY DEF GivesUp
<1>3. /\ Cardinality(Uncommitted(usage')) \in Nat
      /\ Cardinality(Uncommitted(usage)) = Cardinality(Uncommitted(usage')) + usage[c]
    BY <1>1, <1>2, OneAnswer, ZenonT(30)
<1> QED BY <1>1, <1>2, <1>3 DEF UsageAccounted, Uncommitted

\* At midnight the answers under way stay, for the counter of the new day.
LEMMA MidnightAccounts ==
    ASSUME QuotaTypeOK, UsageAccounted, Midnight
    PROVE  UsageAccounted'
<1>1. usage \in [Turns -> 0..MaxTokens] /\ tokens \in Nat /\ spent \in Int
    BY DEF QuotaTypeOK
<1>2. IsFiniteSet(Turns \X (1..MaxTokens))
    BY TokensFinite
<1>3. Uncommitted(usage) \subseteq Turns \X (1..MaxTokens)
    BY DEF Uncommitted
<1>4. Cardinality(Uncommitted(usage)) \in Nat
    BY <1>2, <1>3, FS_Subset, FS_CardinalityType, Zenon
<1>5. usage' = usage /\ faults' = faults /\ tokens' = 0 /\ spent' = spent - tokens
    BY DEF Midnight
<1> QED BY <1>1, <1>4, <1>5 DEF UsageAccounted, Uncommitted

\* Usage is accounted for while the counters, the answers and the history stand.
LEMMA AccountsKept ==
    ASSUME UsageAccounted, UNCHANGED <<tokens, usage, spent>>,
           "redis" \in faults => "redis" \in faults'
    PROVE  UsageAccounted'
    BY DEF UsageAccounted, Uncommitted

\* A turn of a tenant gives up, another leaves the counters alone.
LEMMA UnaccountedAccounts ==
    ASSUME NEW c \in Calls, IInv, UsageAccounted, Unaccounted(c),
           "redis" \in faults => "redis" \in faults'
    PROVE  UsageAccounted'
<1>1. CASE c \in tenant
    BY <1>1, GivesUpAccounts DEF Unaccounted, IInv, QuotaInv, TenantTurns
<1>2. CASE c \notin tenant
    BY <1>2, AccountsKept, Zenon DEF Unaccounted
<1> QED BY <1>1, <1>2, Zenon

\* Usage is accounted for after every step of a turn.
LEMMA UsageKept == IInv /\ UsageAccounted /\ [CallNext]_callVars => UsageAccounted'
<1> SUFFICES ASSUME IInv, UsageAccounted, [CallNext]_callVars PROVE UsageAccounted'
    OBVIOUS
<1>0. QuotaTypeOK /\ TenantTurns
    BY DEF IInv, QuotaInv
<1>1. ASSUME UNCHANGED quotaVars PROVE UsageAccounted'
    BY <1>1, AccountsKept, Zenon DEF quotaVars
<1>2. ASSUME NEW c \in Calls, Begin(c) PROVE UsageAccounted'
    BY <1>1, <1>2, Zenon DEF Begin, transcribe, synthesize, complete, llm_node
<1>3. ASSUME NEW c \in Calls, EnforceQuota(c) PROVE UsageAccounted'
  <2>1. CASE enforce_quota(c)
      BY <2>1, AccountsKept, Zenon DEF enforce_quota, Fault, NoFault
  <2> QED BY <1>1, <1>3, <2>1, Zenon DEF EnforceQuota
<1>4. ASSUME NEW c \in Calls, EnterPrimary(c) PROVE UsageAccounted'
    BY <1>1, <1>4, UnaccountedAccounts, Zenon DEF EnterPrimary, NoFault
<1>5. ASSUME NEW c \in Calls, Connected(c) \/ ConnectFails(c) \/ FallbackConnected(c)
      PROVE  UsageAccounted'
    BY <1>1, <1>5, Zenon DEF Connected, ConnectFails, FallbackConnected
<1>6. ASSUME NEW c \in Calls, EnterFallback(c) PROVE UsageAccounted'
    BY <1>1, <1>6, UnaccountedAccounts, Zenon DEF EnterFallback, NoFault
<1>7. ASSUME NEW c \in Calls, FallbackFails(c) PROVE UsageAccounted'
    BY <1>7, UnaccountedAccounts, Zenon DEF FallbackFails, Reraise, NoFault
<1>8. ASSUME NEW c \in Calls, StreamEnds(c) PROVE UsageAccounted'
  <2>1. CASE c \in tenant
      BY <1>0, <1>8, <2>1, AnswerAccounts, ZenonT(30) DEF StreamEnds, TenantTurns
  <2>2. CASE c \notin tenant
      BY <1>1, <1>8, <2>2 DEF StreamEnds
  <2> QED BY <2>1, <2>2, Zenon
<1>9. ASSUME NEW c \in Calls, Commit(c) PROVE UsageAccounted'
    BY <1>0, <1>9, CommitAccounts DEF Commit, TenantTurns, At
<1>10. ASSUME NEW c \in Calls, Cancelled(c) PROVE UsageAccounted'
    BY <1>10, UnaccountedAccounts DEF Cancelled, Fault
<1>11. ASSUME Breaker \/ UNCHANGED callVars PROVE UsageAccounted'
    BY <1>1, <1>11 DEF Breaker, callVars
<1>12. ASSUME NextDay PROVE UsageAccounted'
    BY <1>0, <1>12, MidnightAccounts DEF NextDay
<1> QED BY <1>2, <1>3, <1>4, <1>5, <1>6, <1>7, <1>8, <1>9, <1>10, <1>11, <1>12, ZenonT(30) DEF CallNext, Step

\* For any number of turns, each complete answer is counted once: whichever of
\* the two models served it and however the turns' commits, failures and the
\* change of day interleave, commit_usage loses and doubles nothing while Redis
\* answers.
THEOREM UsageIsAccounted == CallSpec => []UsageAccounted
<1>1. CallInit => IInv /\ UsageAccounted
  <2> SUFFICES ASSUME CallInit PROVE UsageAccounted
      BY InitReserved
  <2>1. spent = 0 /\ tokens = 0 /\ usage = [c \in Turns |-> 0]
      BY DEF CallInit, QuotaInit
  <2>2. \A k \in 1..MaxTokens : ~(k <= 0)
      BY QuotaAssumption
  <2>3. Uncommitted(usage) = {}
      BY <2>1, <2>2 DEF Uncommitted
  <2> QED BY <2>1, <2>3, FS_EmptySet DEF UsageAccounted
<1>2. IInv /\ UsageAccounted /\ [CallNext]_callVars => (IInv /\ UsageAccounted)'
    BY QuotaKept, TenantTurnsKept, UsageKept, ZenonT(30) DEF IInv
<1> QED BY <1>1, <1>2, PTL DEF CallSpec

-------------------------------------------------------------------------------
(***************************************************************************)
(* THE SESSION, for any thresholds, retries, stores that fail, connections *)
(* and crashes.  None of the three invariants is inductive: what the loop  *)
(* finds when it waits again depends on the state the FSM has in each      *)
(* phase of the handler (FsmOfPhase), and what a later connection restores *)
(* depends on what Mongo and Redis hold (EndedIsGone, TransferIsSaved).    *)
(***************************************************************************)

Phases == {"away", "receive"} \cup TurnPhase \cup TransferPhase \cup EndPhase
Saved == SessionState \cup {"NONE"}

SessionTypeOK ==
    /\ phase \in Phases /\ fsm \in SessionState
    /\ mongo \in Saved /\ hot \in Saved
    /\ after \in {"dispatch", "accepted", "callback", "ai_resume"}
    /\ resume \in {"return", "listen"}
    /\ flags \in SUBSET {"listening", "buffered", "closed"}
    /\ seen \in SUBSET {"attempted", "blocked", "accepted", "failed", "torn", "stale"}

\* The state of the FSM while the coroutine is suspended in a phase.
FsmOfPhase ==
    /\ phase = "receive" => fsm \in {"IDLE", "LISTENING", "TRANSFER_REQUESTED",
                                     "TRANSFER_ACCEPTED", "TRANSFER_FAILED"}
    /\ phase = "stt" => fsm = "PROCESSING"
    /\ phase = "llm" => fsm = "INFERRING"
    /\ phase = "tts" => fsm = "RESPONDING"
    /\ phase \in {"save_turn", "save_turn_hot"} => fsm \in {"PROCESSING", "RESPONDING"}
    /\ phase = "dispatch" => after = "dispatch"
    /\ phase \in TransferPhase =>
          fsm = CASE after = "dispatch" -> "TRANSFER_REQUESTED"
                  [] after = "accepted" -> "TRANSFER_ACCEPTED"
                  [] after = "callback" -> "TRANSFER_FAILED"
                  [] after = "ai_resume" -> "LISTENING"
    /\ phase \in {"end_mongo", "end_hot"} => "closed" \in flags

\* An ended session is closing, or closed with nothing left in Redis.
EndedIsGone ==
    mongo = "ENDED" /\ "torn" \notin seen =>
        /\ phase \in {"end_hot", "finally", "away"}
        /\ phase = "finally" => "closed" \in flags
        /\ phase # "end_hot" => hot = "NONE"

\* From the dispatch on both stores hold the transfer.
TransferIsSaved ==
    "stale" \notin seen =>
        /\ phase = "dispatch" => mongo = "TRANSFER_REQUESTED" /\ hot = "TRANSFER_REQUESTED"
        /\ phase = "update_hot" => mongo = fsm
        /\ "accepted" \in seen =>
              /\ phase \notin TurnPhase \cup {"dispatch"}
              /\ phase \in {"update_mongo", "update_hot"} => after = "accepted"
              /\ phase = "receive" => fsm \in {"TRANSFER_REQUESTED", "TRANSFER_ACCEPTED"}
              /\ mongo \in {"TRANSFER_REQUESTED", "TRANSFER_ACCEPTED", "ENDED"}
              /\ hot \in {"TRANSFER_REQUESTED", "TRANSFER_ACCEPTED", "NONE"}

\* Nothing but the accepted transfer ends the session.
AcceptedEnds ==
    "accepted" \in seen /\ "failed" \notin seen /\ "torn" \notin seen =>
        \/ phase \in {"update_mongo", "update_hot"} /\ after = "accepted" /\ mongo # "ENDED"
        \/ phase = "end_mongo" /\ reason = "transfer_accepted" /\ mongo # "ENDED"
        \/ /\ phase \in {"end_hot", "finally", "away"}
           /\ mongo = "ENDED" /\ end_reason = "transfer_accepted"

SessionInv == SessionTypeOK /\ FsmOfPhase /\ EndedIsGone /\ TransferIsSaved /\ AcceptedEnds

-------------------------------------------------------------------------------
(* The table of session_fsm.py, read once.                                  *)

\* Where the transitions that the orchestrator asks for lead.
LEMMA Table ==
    /\ \A s \in SessionState :
          DoTransition(s, "LISTENING") =
              IF s \in {"TRANSFER_REQUESTED", "TRANSFER_ACCEPTED", "ENDED"}
              THEN s ELSE "LISTENING"
    /\ \A s \in SessionState : DoTransition(s, "ENDED") = "ENDED"
    /\ \A s \in SessionState :
          DoTransition(s, "SPEAKING_DETECTED") =
              IF s = "LISTENING" THEN "SPEAKING_DETECTED" ELSE s
    /\ \A s \in SessionState : can_transition(s, "PROCESSING") <=> s = "SPEAKING_DETECTED"
    /\ \A s \in SessionState : can_transition(s, "RESPONDING") <=> s = "INFERRING"
    /\ \A s \in SessionState :
          can_transition(s, "TRANSFER_REQUESTED") <=>
              s \in {"LISTENING", "SPEAKING_DETECTED", "PROCESSING", "INFERRING", "RESPONDING"}
<1>1. \A s \in SessionState :
          DoTransition(s, "LISTENING") =
              IF s \in {"TRANSFER_REQUESTED", "TRANSFER_ACCEPTED", "ENDED"}
              THEN s ELSE "LISTENING"
    BY DEF SessionState, DoTransition, can_transition, VALID_TRANSITIONS
<1>2. \A s \in SessionState : DoTransition(s, "ENDED") = "ENDED"
    BY DEF SessionState, DoTransition, can_transition, VALID_TRANSITIONS
<1>3. \A s \in SessionState :
          DoTransition(s, "SPEAKING_DETECTED") =
              IF s = "LISTENING" THEN "SPEAKING_DETECTED" ELSE s
    BY DEF SessionState, DoTransition, can_transition, VALID_TRANSITIONS
<1>4. \A s \in SessionState : can_transition(s, "PROCESSING") <=> s = "SPEAKING_DETECTED"
    BY DEF SessionState, can_transition, VALID_TRANSITIONS
<1>5. \A s \in SessionState : can_transition(s, "RESPONDING") <=> s = "INFERRING"
    BY DEF SessionState, can_transition, VALID_TRANSITIONS
<1>6. \A s \in SessionState :
          can_transition(s, "TRANSFER_REQUESTED") <=>
              s \in {"LISTENING", "SPEAKING_DETECTED", "PROCESSING", "INFERRING", "RESPONDING"}
    BY DEF SessionState, can_transition, VALID_TRANSITIONS
<1> QED BY <1>1, <1>2, <1>3, <1>4, <1>5, <1>6, ZenonT(30)

\* A restored session is in none of the states of a turn, and still in the
\* transfer it was saved in.
LEMMA Restored ==
    \A s \in SessionState \ {"ENDED"} :
        /\ RestoredState(s) \in {"IDLE", "LISTENING", "TRANSFER_REQUESTED", "TRANSFER_ACCEPTED"}
        /\ s \in {"TRANSFER_REQUESTED", "TRANSFER_ACCEPTED"} => RestoredState(s) = s
BY Table DEF RestoredState, SessionState

-------------------------------------------------------------------------------
(* The inductive invariant, group of actions by group of actions.           *)

\* No session has been created yet.
LEMMA SessionInitInv == SessionInit => SessionInv
BY Zenon DEF SessionInit, SessionInv, SessionTypeOK, FsmOfPhase, EndedIsGone, TransferIsSaved, AcceptedEnds,
       Phases, Saved, SessionState, TurnPhase, TransferPhase, EndPhase

\* restore_or_create_orchestrator: the state of a turn is left, that of a
\* transfer kept, and an ended session not found.
LEMMA ConnectInv == ASSUME SessionInv, Create \/ Restore PROVE SessionInv'
<1> USE DEF SessionInv, SessionTypeOK, FsmOfPhase, EndedIsGone, TransferIsSaved, AcceptedEnds,
        Phases, Saved, TurnPhase, TransferPhase, EndPhase, NewOrchestrator, xfer
<1>1. CASE Create BY <1>1, Zenon DEF Create, SessionState
<1>2. CASE Restore
    <2>1. PICK s \in {hot, mongo} :
            /\ s \in SessionState \ {"ENDED"} /\ fsm' = RestoredState(s)
            /\ mongo = "ENDED" => s = hot
        BY <1>2, Zenon DEF Restore
    <2>2. /\ fsm' \in {"IDLE", "LISTENING", "TRANSFER_REQUESTED", "TRANSFER_ACCEPTED"}
          /\ s \in {"TRANSFER_REQUESTED", "TRANSFER_ACCEPTED"} => fsm' = s
        BY <2>1, Restored
    <2>3. /\ phase = "away" /\ phase' = "receive" /\ mongo' = mongo
          /\ hot' = hot \/ (mongo # "ENDED" /\ hot' = mongo)
          /\ \A x \in {"accepted", "torn", "stale", "failed"} : x \in seen' <=> x \in seen
          /\ seen' \in SUBSET seen /\ flags' = {} /\ after' = after /\ resume' = resume
        BY <1>2, ZenonT(30) DEF Restore
    <2> QED BY <2>1, <2>2, <2>3 DEF SessionState
<1> QED BY <1>1, <1>2

\* TransferService.request: dispatch, answer, the writes of update_state.
LEMMA TransferInv == ASSUME SessionInv, _dispatch_to_cti \/ UpdateMongo \/ UpdateHot PROVE SessionInv'
<1> USE DEF SessionInv, SessionTypeOK, FsmOfPhase, EndedIsGone, TransferIsSaved, AcceptedEnds,
        Phases, Saved, TurnPhase, TransferPhase, EndPhase, xfer, store
<1>1. CASE _dispatch_to_cti
    BY <1>1 DEF _dispatch_to_cti, _on_transfer_accepted, _on_transfer_failed, SessionState
<1>2. CASE UpdateMongo BY <1>2 DEF UpdateMongo
<1>3. CASE UpdateHot BY <1>3, Table DEF UpdateHot, end_session, Resumed, SessionState
<1> QED BY <1>1, <1>2, <1>3, Zenon

\* end_session and the finally block that calls it again.
LEMMA EndInv == ASSUME SessionInv, EndMongo \/ EndHot \/ Finally PROVE SessionInv'
<1> USE DEF SessionInv, SessionTypeOK, FsmOfPhase, EndedIsGone, TransferIsSaved, AcceptedEnds,
        Phases, Saved, TurnPhase, TransferPhase, EndPhase, xfer, store
<1>1. CASE EndMongo BY <1>1 DEF EndMongo, SessionState
<1>2. CASE EndHot BY <1>2 DEF EndHot, HotAfterEnd
<1>3. CASE Finally BY <1>3, Table DEF Finally, AlreadyClosed, end_session, SessionState
<1> QED BY <1>1, <1>2, <1>3

\* A turn: the stages of the pipeline and the save.
LEMMA TurnInv ==
    ASSUME SessionInv, Stt \/ Llm \/ Tts \/ SaveTurnMongo \/ SaveTurnHot PROVE SessionInv'
<1> USE DEF SessionInv, SessionTypeOK, FsmOfPhase, EndedIsGone, TransferIsSaved, AcceptedEnds,
        Phases, Saved, TurnPhase, TransferPhase, EndPhase, xfer, store
<1>1. CASE Stt
    <2>0. phase = "stt" /\ UNCHANGED <<flags, reason, store, env>> BY <1>1, Zenon DEF Stt
    <2>1. ~can_transition(fsm, "RESPONDING") BY <2>0, Table
    <2>2. CASE phase' = "llm" /\ fsm' = "INFERRING" /\ UNCHANGED <<failures, xfer, seen>>
        BY <2>0, <2>2 DEF SessionState
    <2>3. CASE PipelineRaises(fsm, seen \cup {"blocked"})
        BY <2>0, <2>3, Table DEF PipelineRaises, Request, Resumed, SessionState
    <2>4. CASE PipelineReturns(fsm, "", TRUE)
        <3>1. /\ fsm' = fsm /\ phase' = "save_turn"
              /\ seen' = seen \ {"attempted"} /\ UNCHANGED xfer
            BY <2>4, Zenon DEF PipelineReturns
        <3> QED BY <2>0, <3>1 DEF SessionState
    <2> QED BY <1>1, <2>1, <2>2, <2>3, <2>4, ZenonT(30) DEF Stt, PolicyBlocks
<1>2. CASE Llm BY <1>2, Table DEF Llm, PipelineReturns, Request, Resumed, SessionState
<1>3. CASE Tts BY <1>3, Table DEF Tts, PipelineReturns, Request, Resumed, SessionState
<1>4. CASE SaveTurnMongo BY <1>4, Table DEF SaveTurnMongo, TurnDone, SessionState
<1>5. CASE SaveTurnHot BY <1>5, Table DEF SaveTurnHot, TurnDone, SessionState
<1> QED BY <1>1, <1>2, <1>3, <1>4, <1>5, ZenonT(30)

\* The messages of the client.
LEMMA LoopInv ==
    ASSUME SessionInv, \/ handle_audio \/ start_listening \/ stop_listening
                 \/ hangup \/ request_transfer \/ Disconnect
    PROVE  SessionInv'
<1> USE DEF SessionInv, SessionTypeOK, FsmOfPhase, EndedIsGone, TransferIsSaved, AcceptedEnds,
        Phases, Saved, TurnPhase, TransferPhase, EndPhase, xfer, store
<1>1. CASE handle_audio
    BY <1>1, Table DEF handle_audio, _run_pipeline, is_transfer_in_progress, PipelineRaises,
                       Request, Resumed, SessionState
<1>2. CASE start_listening BY <1>2, Table DEF start_listening, SessionState
<1>3. CASE stop_listening
    BY <1>3, Table DEF stop_listening, _run_pipeline, is_transfer_in_progress, PipelineRaises,
                       Request, Resumed, SessionState
<1>4. CASE hangup BY <1>4, Table DEF hangup, end_session, SessionState
<1>5. CASE request_transfer BY <1>5, Table DEF request_transfer, Request, Resumed, SessionState
<1>6. CASE Disconnect BY <1>6, ZenonT(30) DEF Disconnect
<1> QED BY <1>1, <1>2, <1>3, <1>4, <1>5, <1>6, ZenonT(30)

\* The process dies, or Redis drops the key.
LEMMA EnvironmentInv == ASSUME SessionInv, Crash \/ HotExpires \/ UNCHANGED sessionVars PROVE SessionInv'
<1> USE DEF SessionInv, SessionTypeOK, FsmOfPhase, EndedIsGone, TransferIsSaved, AcceptedEnds,
        Phases, Saved, TurnPhase, TransferPhase, EndPhase, xfer, store
<1>1. CASE Crash BY <1>1 DEF Crash
<1>2. CASE HotExpires BY <1>2 DEF HotExpires
<1>3. CASE UNCHANGED sessionVars BY <1>3 DEF sessionVars
<1> QED BY <1>1, <1>2, <1>3

\* Every step of the session preserves the invariant.
LEMMA SessionStepInv == SessionInv /\ [SessionNext]_sessionVars => SessionInv'
BY ConnectInv, TransferInv, EndInv, TurnInv, LoopInv, EnvironmentInv, ZenonT(30) DEF SessionNext, Internal, Client

\* The invariant holds throughout, and gives the three properties.
LEMMA SessionAlwaysInv == SessionSpec => []SessionInv
BY SessionInitInv, SessionStepInv, PTL DEF SessionSpec

-------------------------------------------------------------------------------

\* Type correctness: the handlers leave no state outside SessionState in the
\* FSM or in the two stores.
THEOREM SessionTypeCorrect == SessionSpec => []SessionTypeOK
<1>1. SessionInv => SessionTypeOK BY Zenon DEF SessionInv
<1> QED BY SessionAlwaysInv, <1>1, PTL

\* Whichever stage failed, was blocked or could not be saved, _run_pipeline
\* returns to the receive loop with the FSM in none of the states of a turn.
THEOREM NoTurnDangles == SessionSpec => []NoDanglingTurn
<1>1. SessionInv => NoDanglingTurn BY Zenon DEF SessionInv, FsmOfPhase, NoDanglingTurn
<1> QED BY SessionAlwaysInv, <1>1, PTL

\* restore_or_create_orchestrator never serves a session that Mongo has as
\* ENDED, unless end_session was torn between its two writes.
THEOREM EndedIsNeverResumed == SessionSpec => []EndedNeverResumed
<1>1. SessionInv => EndedNeverResumed BY DEF SessionInv, EndedIsGone, EndedNeverResumed
<1> QED BY SessionAlwaysInv, <1>1, PTL

\* After an accepted transfer the AI takes no further turn, in this connection
\* or a later one, and the transfer stays the recorded reason of the end.
THEOREM AcceptedTransferIsFinal == SessionSpec => []AcceptedIsFinal
<1>1. ASSUME SessionInv PROVE AcceptedIsFinal
    <2>1. "accepted" \in seen /\ "stale" \notin seen => phase \notin TurnPhase
        BY <1>1 DEF SessionInv, TransferIsSaved
    <2>2. seen \cap {"failed", "torn"} = {} => "failed" \notin seen /\ "torn" \notin seen
        BY Zenon
    <2> QED BY <1>1, <2>1, <2>2, Zenon DEF SessionInv, AcceptedEnds, AcceptedIsFinal
<1> QED BY SessionAlwaysInv, <1>1, PTL

===============================================================================
