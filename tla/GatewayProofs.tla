------------------------------ MODULE GatewayProofs ----------------------------
(***************************************************************************)
(* What lets calls in: the orchestrator of the voice gateway with the      *)
(* store of calls that all nodes share and the commands that share a       *)
(* node's connection, and the kill switches of a tenant.                   *)
(***************************************************************************)
EXTENDS Gateway, KillSwitch, FiniteSetTheorems, TLAPS

\* The provers a step is given to in turn unless it names one, with their time limits.
USE SMTT(30), ZenonT(30)

(***************************************************************************)
(* THE STORE, for any number of calls, nodes and failures.  CapacityHolds  *)
(* is not inductive: a call is counted several steps before it is served   *)
(* and given back several steps after it ended, so the invariant compares  *)
(* each counter with all calls that hold a unit of it (Held).              *)
(***************************************************************************)

\* A call is saved before it is served, and only calls in Redis are.
SavedInKeys ==
    \A c \in Calls :
        /\ state[c] \in {"saved", "live"} /\ At(c) = Redis => c \in keys
        /\ state[c] \in {"saved", "failed"} => At(c) = Redis

\* The counter of a store covers its calls, is exact unless Redis failed, and was
\* never incremented beyond the capacity.
Honest(s) ==
    /\ active_calls[s] <= maxCalls
    /\ Cardinality(Held(s)) <= active_calls[s] + Undercount(s)
    /\ s # Redis \/ faults = {} => active_calls[s] = Cardinality(Held(s))

IInv == TypeOK /\ SavedInKeys /\ \A s \in Stores : Honest(s)

\* The calls in progress are finitely many, so they can be counted.
LEMMA HeldFinite ==
    ASSUME NEW s
    PROVE  IsFiniteSet(Held(s)) /\ Cardinality(Held(s)) \in Nat
<1>1. Held(s) \in SUBSET Calls BY DEF Held
<1>2. IsFiniteSet(Held(s)) BY <1>1, ConfigAssumption, FS_Subset
<1> QED BY <1>2, FS_CardinalityType

\* A step that moves one call raises the number of its store's calls by one,
\* lowers it by one or leaves it, and leaves that of the other stores.
LEMMA HeldMoves ==
    ASSUME TypeOK, NEW c \in Calls, NEW t, UNCHANGED <<owner, store>>, Goto(c, t), NEW s \in Stores
    PROVE  /\ At(c) # s \/ (t \in Holding <=> state[c] \in Holding) =>
                  Cardinality(Held(s)') = Cardinality(Held(s))
           /\ At(c) = s /\ t \in Holding /\ state[c] \notin Holding =>
                  Cardinality(Held(s)') = Cardinality(Held(s)) + 1
           /\ At(c) = s /\ t \notin Holding /\ state[c] \in Holding =>
                  Cardinality(Held(s)') = Cardinality(Held(s)) - 1
<1>0. /\ state'[c] = t /\ \A d \in Calls : d # c => state'[d] = state[d]
      /\ \A d \in Calls : At(d)' = At(d)
    BY DEF TypeOK, Goto, At
<1>1. ASSUME At(c) # s \/ (t \in Holding <=> state[c] \in Holding)
      PROVE  Cardinality(Held(s)') = Cardinality(Held(s))
    <2>1. Held(s)' = Held(s)
        <3>1. \A d \in Calls : d \in Held(s)' <=> d \in Held(s)
            BY <1>0, <1>1, Zenon DEF Held, Holding
        <3> QED BY <3>1, Zenon DEF Held
    <2> QED BY <2>1, Zenon
<1>2. ASSUME At(c) = s, t \in Holding, state[c] \notin Holding
      PROVE  Cardinality(Held(s)') = Cardinality(Held(s)) + 1
    <2>1. Held(s)' = Held(s) \cup {c} BY <1>0, <1>2 DEF Held, Holding
    <2>2. c \notin Held(s) BY <1>2 DEF Held
    <2>3. Cardinality(Held(s) \cup {c}) = Cardinality(Held(s)) + 1
        BY <2>2, HeldFinite, FS_AddElement, ZenonT(30)
    <2> QED BY <2>1, <2>3, Zenon
<1>3. ASSUME At(c) = s, t \notin Holding, state[c] \in Holding
      PROVE  Cardinality(Held(s)') = Cardinality(Held(s)) - 1
    <2>1. Held(s)' = Held(s) \ {c} BY <1>0, <1>3 DEF Held, Holding
    <2>2. c \in Held(s) BY <1>3 DEF Held
    <2>3. Cardinality(Held(s) \ {c}) = Cardinality(Held(s)) - 1
        BY <2>2, HeldFinite, FS_RemoveElement
    <2> QED BY <2>1, <2>3, Zenon
<1> QED BY <1>1, <1>2, <1>3, Zenon

\* The calls of a store whose calls and nodes a step leaves alone.
LEMMA HeldStays ==
    ASSUME NEW s, \A c \in Calls : c \in Held(s)' <=> c \in Held(s)
    PROVE  Cardinality(Held(s)') = Cardinality(Held(s))
<1>1. Held(s)' = Held(s) BY Zenon DEF Held
<1> QED BY <1>1, Zenon

\* The counters after one of them was changed.
LEMMA CounterMoves ==
    ASSUME TypeOK, NEW r \in Stores, NEW k \in {1, -1}, Add(r, k)
    PROVE  /\ active_calls' \in [Stores -> Int] /\ active_calls'[r] = active_calls[r] + k
           /\ \A s \in Stores : s # r => active_calls'[s] = active_calls[s]
BY DEF TypeOK, Add

\* The store starts without calls.
LEMMA InitInv == Init => IInv
<1> SUFFICES ASSUME Init PROVE IInv OBVIOUS
<1>1. TypeOK
    <2>1. 0 \in 0..MaxRepeats BY ConfigAssumption
    <2> QED BY <2>1 DEF Init, TypeOK, States
<1>2. ASSUME NEW s \in Stores PROVE Honest(s)
    <2>1. Held(s) = {} BY DEF Init, Held, Holding
    <2>2. Cardinality(Held(s)) = 0 BY <2>1, FS_EmptySet, Zenon
    <2> QED BY <2>2, ConfigAssumption DEF Init, Honest, Undercount
<1>3. SavedInKeys BY DEF Init, SavedInKeys
<1> QED BY <1>1, <1>2, <1>3 DEF IInv

\* Where calls and nodes are kept.
LEMMA StoreFacts ==
    ASSUME TypeOK
    PROVE  /\ Redis \in Stores /\ \A c \in Calls : At(c) \in Stores
           /\ \A n \in Nodes : n \in Stores /\ n # Redis
BY ConfigAssumption DEF TypeOK, Backends, Stores, At

\* A step of one call that leaves the counters alone, with the calls in progress.
LEMMA QuietStep ==
    ASSUME IInv, NEW c \in Calls, NEW t, UNCHANGED <<owner, store, active_calls, repeats>>, Goto(c, t),
           t \in Holding <=> state[c] \in Holding, faults \in SUBSET faults', NEW s \in Stores
    PROVE  Honest(s)'
<1>1. Cardinality(Held(s)') = Cardinality(Held(s)) BY HeldMoves, Zenon DEF IInv
<1>2. faults' = {} => faults = {} OBVIOUS
<1> QED BY <1>1, <1>2 DEF IInv, Honest, Undercount

\* A call is admitted, refused or given up (TryAcquire).
LEMMA AcquireInv ==
    ASSUME IInv, NEW c \in Calls, TryAcquire(c)
    PROVE  IInv'
<1>0. TypeOK /\ SavedInKeys /\ \A s \in Stores : Honest(s) BY DEF IInv
<1>a. /\ UNCHANGED <<owner, store, keys, repeats>> /\ state[c] = "idle" /\ state[c] \notin Holding
      /\ At(c) \in Stores /\ Redis \in Stores
    BY <1>0, StoreFacts DEF TryAcquire, Holding
<1>b. /\ \A s \in Stores : /\ Cardinality(Held(s)) \in Nat /\ active_calls[s] \in Int
                           /\ Undercount(s)' = Undercount(s) /\ Undercount(s) \in Nat
      /\ maxCalls \in Nat
    BY <1>0, <1>a, HeldFinite, ConfigAssumption DEF TypeOK, Undercount
<1>1. CASE UnderCapacity(At(c)) /\ Add(At(c), 1) /\ Goto(c, "acquired") /\ Ok
    <2>1. /\ active_calls' \in [Stores -> Int] /\ active_calls'[At(c)] = active_calls[At(c)] + 1
          /\ \A s \in Stores : s # At(c) => active_calls'[s] = active_calls[s]
        BY <1>0, <1>a, <1>1, CounterMoves
    <2>2. TypeOK'
        BY <1>0, <1>a, <1>1, <2>1, Zenon DEF TypeOK, Goto, States, Ok
    <2>3. SavedInKeys' BY <1>0, <1>a, <1>1 DEF SavedInKeys, TypeOK, Goto, At
    <2>4. ASSUME NEW s \in Stores PROVE Honest(s)'
        <3>1. IF s = At(c) THEN Cardinality(Held(s)') = Cardinality(Held(s)) + 1
                           ELSE Cardinality(Held(s)') = Cardinality(Held(s))
            BY <1>0, <1>a, <1>1, HeldMoves, Zenon DEF Holding
        <3> QED BY <1>0, <1>b, <1>1, <2>1, <3>1 DEF Honest, UnderCapacity, Ok
    <2> QED BY <2>2, <2>3, <2>4 DEF IInv
<1>2. CASE Goto(c, "gone") /\ UNCHANGED active_calls /\ (Ok \/ RedisFails)
    <2>1. faults \in SUBSET faults' /\ faults' \in SUBSET {"redis", "crash"}
        BY <1>0, <1>2, Zenon DEF Ok, RedisFails, TypeOK
    <2>2. TypeOK' BY <1>0, <1>a, <1>2, <2>1, Zenon DEF TypeOK, Goto, States
    <2>3. SavedInKeys' BY <1>0, <1>a, <1>2 DEF SavedInKeys, TypeOK, Goto, At
    <2>4. ASSUME NEW s \in Stores PROVE Honest(s)'
        <3>1. "gone" \in Holding <=> state[c] \in Holding BY <1>a DEF Holding
        <3> QED BY <1>a, <1>2, <2>1, <3>1, QuietStep, Zenon
    <2> QED BY <2>2, <2>3, <2>4 DEF IInv
<1>3. CASE RedisFails /\ UnderCapacity(Redis) /\ Add(Redis, 1) /\ (UNCHANGED state \/ Goto(c, "gone"))
    <2>1. /\ active_calls' \in [Stores -> Int] /\ active_calls'[Redis] = active_calls[Redis] + 1
          /\ \A s \in Stores : s # Redis => active_calls'[s] = active_calls[s]
        BY <1>0, <1>a, <1>3, CounterMoves
    <2>2. PICK t \in {"idle", "gone"} : Goto(c, t)
        BY <1>0, <1>a, <1>3 DEF Goto, TypeOK
    <2>3. faults' # {} /\ faults' \in SUBSET {"redis", "crash"}
        BY <1>0, <1>3, Zenon DEF RedisFails, TypeOK
    <2>4. TypeOK' BY <1>0, <1>a, <2>1, <2>2, <2>3, Zenon DEF TypeOK, Goto, States
    <2>5. SavedInKeys' BY <1>0, <1>a, <2>2 DEF SavedInKeys, TypeOK, Goto, At
    <2>6. ASSUME NEW s \in Stores PROVE Honest(s)'
        <3>1. t \notin Holding BY DEF Holding
        <3>2. Cardinality(Held(s)') = Cardinality(Held(s))
            BY <1>0, <1>a, <2>2, <3>1, HeldMoves, Zenon
        <3>3. CASE s = Redis
            <4>1. active_calls[s] < maxCalls /\ active_calls'[s] = active_calls[s] + 1
                BY <1>3, <2>1, <3>3, Zenon DEF UnderCapacity
            <4>2. Cardinality(Held(s)) <= active_calls[s] + Undercount(s) BY <1>0, Zenon DEF Honest
            <4>3. /\ active_calls'[s] <= maxCalls
                  /\ Cardinality(Held(s)') <= active_calls'[s] + Undercount(s)'
                BY <1>b, <3>2, <4>1, <4>2
            <4> QED BY <2>3, <3>3, <4>3, Zenon DEF Honest
        <3>4. CASE s # Redis BY <1>0, <1>b, <2>1, <2>3, <3>2, <3>4 DEF Honest
        <3> QED BY <3>3, <3>4
    <2> QED BY <2>4, <2>5, <2>6 DEF IInv
<1> QED BY <1>1, <1>2, <1>3, Zenon DEF TryAcquire

\* A call goes on without touching a counter.
LEMMA ProgressInv ==
    ASSUME IInv, NEW c \in Calls, saveToRedis(c) \/ SaveFails(c) \/ AddLocal(c) \/ Unlink(c)
    PROVE  IInv'
<1>0. TypeOK /\ SavedInKeys BY DEF IInv
<1>1. /\ UNCHANGED <<owner, store, active_calls, repeats>>
      /\ keys \in SUBSET keys' /\ keys' \in SUBSET Calls
      /\ faults \in SUBSET faults' /\ faults' \in SUBSET {"redis", "crash"}
    BY <1>0, Zenon DEF TypeOK, saveToRedis, SaveFails, AddLocal, Unlink, KeysOf, RedisFails
<1>2. PICK t \in {"saved", "failed", "live", "unlinked"} : Goto(c, t)
    BY Zenon DEF saveToRedis, SaveFails, AddLocal, Unlink
<1>3. /\ state[c] \in Holding /\ t \in Holding
      /\ t \in {"saved", "failed"} => At(c) = Redis
      /\ t \in {"saved", "live"} /\ At(c) = Redis => c \in keys'
    <2>1. state'[c] = t BY <1>0, <1>2 DEF TypeOK, Goto
    <2>2. CASE saveToRedis(c) BY <1>0, <2>1, <2>2 DEF saveToRedis, Goto, TypeOK, KeysOf, Holding
    <2>3. CASE SaveFails(c) BY <1>0, <2>1, <2>3 DEF SaveFails, Goto, TypeOK, Holding
    <2>4. CASE AddLocal(c) BY <1>0, <1>1, <2>1, <2>4 DEF AddLocal, Goto, TypeOK, Holding, SavedInKeys
    <2>5. CASE Unlink(c) BY <1>0, <2>1, <2>5 DEF Unlink, Loaded, Goto, TypeOK, Holding
    <2> QED BY <2>2, <2>3, <2>4, <2>5
<1>4. TypeOK' BY <1>0, <1>1, <1>2, Zenon DEF TypeOK, Goto, States
<1>5. SavedInKeys' BY <1>0, <1>1, <1>2, <1>3 DEF SavedInKeys, TypeOK, Goto, At
<1>6. ASSUME NEW s \in Stores PROVE Honest(s)' BY <1>1, <1>2, <1>3, QuietStep, Zenon
<1> QED BY <1>4, <1>5, <1>6 DEF IInv

\* A call whose node decrements the counter in Redis keeps it honest, however
\* the round trip ends.
LEMMA DecrInv ==
    ASSUME IInv, NEW c \in Calls, At(c) = Redis, state[c] \in Holding, UNCHANGED <<owner, store>>,
           DecrDone(c) \/ DecrFails(c) \/ DecrUnheard(c), NEW s \in Stores
    PROVE  /\ Honest(s)' /\ active_calls' \in [Stores -> Int] /\ repeats' \in 0..MaxRepeats
           /\ faults' \in SUBSET {"redis", "crash"} /\ (Goto(c, "gone") \/ UNCHANGED state)
<1>0. TypeOK /\ Honest(s) /\ Honest(Redis) /\ Redis \in Stores BY StoreFacts DEF IInv
<1>a. /\ \A r \in {s, Redis} : Cardinality(Held(r)) \in Nat /\ active_calls[r] \in Int
      /\ repeats \in 0..MaxRepeats /\ maxCalls \in Nat /\ MaxRepeats \in Nat
    BY <1>0, HeldFinite, ConfigAssumption DEF TypeOK
<1>b. ASSUME Goto(c, "gone")
      PROVE  /\ s = Redis => Cardinality(Held(s)') = Cardinality(Held(s)) - 1
             /\ s # Redis => Cardinality(Held(s)') = Cardinality(Held(s))
    <2>1. "gone" \notin Holding BY DEF Holding
    <2> QED BY <1>0, <1>b, <2>1, HeldMoves, Zenon
<1>c. ASSUME Add(Redis, -1)
      PROVE  /\ active_calls' \in [Stores -> Int] /\ active_calls'[Redis] = active_calls[Redis] - 1
             /\ \A r \in Stores : r # Redis => active_calls'[r] = active_calls[r]
    <2>1. /\ active_calls' \in [Stores -> Int] /\ active_calls'[Redis] = active_calls[Redis] + (-1)
          /\ \A r \in Stores : r # Redis => active_calls'[r] = active_calls[r]
        BY <1>0, <1>c, CounterMoves
    <2> QED BY <1>a, <2>1
<1>d. ASSUME RedisFails PROVE faults' # {} /\ faults' \in SUBSET {"redis", "crash"}
    BY <1>0, <1>d, Zenon DEF RedisFails, TypeOK
<1>1. CASE DecrDone(c)
    <2>1. Goto(c, "gone") /\ Add(Redis, -1) /\ UNCHANGED <<faults, repeats>>
        BY <1>1, Zenon DEF DecrDone, Ok
    <2>2. Honest(s)' BY <1>0, <1>a, <1>b, <1>c, <2>1 DEF Honest, Undercount
    <2> QED BY <1>0, <1>c, <2>1, <2>2, Zenon DEF TypeOK
<1>2. CASE DecrFails(c)
    <2>1. Goto(c, "gone") /\ UNCHANGED <<active_calls, repeats>> /\ RedisFails
        BY <1>2, Zenon DEF DecrFails
    <2>2. Honest(s)' BY <1>0, <1>a, <1>b, <1>d, <2>1 DEF Honest, Undercount
    <2> QED BY <1>0, <1>d, <2>1, <2>2, Zenon DEF TypeOK
<1>3. CASE RedisFails /\ Add(Redis, -1) /\ Goto(c, "gone") /\ UNCHANGED repeats
    <2>1. Honest(s)' BY <1>0, <1>a, <1>b, <1>c, <1>d, <1>3 DEF Honest, Undercount
    <2> QED BY <1>0, <1>c, <1>d, <1>3, <2>1, Zenon DEF TypeOK
<1>4. CASE RedisFails /\ Add(Redis, -1) /\ repeats < MaxRepeats /\ repeats' = repeats + 1 /\ UNCHANGED state
    <2>1. Cardinality(Held(s)') = Cardinality(Held(s))
        <3>1. \A d \in Calls : d \in Held(s)' <=> d \in Held(s) BY <1>4, Zenon DEF Held, At
        <3> QED BY <3>1, HeldStays, Zenon
    <2>2. Honest(s)' BY <1>0, <1>a, <1>c, <1>d, <1>4, <2>1 DEF Honest, Undercount
    <2>3. repeats' \in 0..MaxRepeats BY <1>a, <1>4
    <2> QED BY <1>c, <1>d, <1>4, <2>2, <2>3, Zenon
<1> QED BY <1>1, <1>2, <1>3, <1>4, Zenon DEF DecrUnheard

\* A call is given back to Redis, after a failed save or a release.
LEMMA GiveBackInv ==
    ASSUME IInv, NEW c \in Calls, GiveBack(c) \/ ReleasePipeline(c)
    PROVE  IInv'
<1>0. TypeOK /\ SavedInKeys /\ Redis \in Stores BY StoreFacts DEF IInv
<1>1. /\ At(c) = Redis /\ state[c] \in {"failed", "unlinked"} /\ UNCHANGED <<owner, store>>
      /\ keys' = keys \/ keys' = keys \ {c}
    BY <1>0 DEF GiveBack, ReleasePipeline, SavedInKeys, KeysOf
<1>2. DecrDone(c) \/ DecrFails(c) \/ DecrUnheard(c) BY Zenon DEF GiveBack, ReleasePipeline
<1>3. state[c] \in Holding BY <1>1, Zenon DEF Holding
<1>4. \A s \in Stores : /\ Honest(s)' /\ active_calls' \in [Stores -> Int] /\ repeats' \in 0..MaxRepeats
                        /\ faults' \in SUBSET {"redis", "crash"} /\ (Goto(c, "gone") \/ UNCHANGED state)
    BY <1>1, <1>2, <1>3, DecrInv, Zenon
<1>5. TypeOK'
    <2>1. state' \in [Calls -> States] BY <1>0, <1>4 DEF TypeOK, Goto, States
    <2> QED BY <1>0, <1>1, <1>4, <2>1, Zenon DEF TypeOK
<1>6. SavedInKeys'
    <2>1. /\ \A d \in Calls : d # c => state'[d] = state[d] /\ (d \in keys => d \in keys')
          /\ state'[c] \in {"gone", state[c]} /\ \A d \in Calls : At(d)' = At(d)
        BY <1>0, <1>1, <1>4 DEF TypeOK, Goto, At
    <2> QED BY <1>0, <1>1, <2>1, Zenon DEF SavedInKeys
<1> QED BY <1>4, <1>5, <1>6, Zenon DEF IInv

\* A call is given back to the MemoryStore of its node.
LEMMA ReleaseMemoryInv ==
    ASSUME IInv, NEW c \in Calls, ReleaseMemory(c)
    PROVE  IInv'
<1>0. TypeOK /\ SavedInKeys /\ At(c) \in Stores /\ \A s \in Stores : Honest(s) BY StoreFacts DEF IInv
<1>1. /\ UNCHANGED <<owner, store, keys, faults, repeats>> /\ Goto(c, "gone") /\ Add(At(c), -1)
      /\ At(c) # Redis /\ state[c] = "unlinked"
    BY DEF ReleaseMemory
<1>2. /\ active_calls' \in [Stores -> Int] /\ active_calls'[At(c)] = active_calls[At(c)] + (-1)
      /\ \A s \in Stores : s # At(c) => active_calls'[s] = active_calls[s]
    BY <1>0, <1>1, CounterMoves
<1>3. TypeOK' BY <1>0, <1>1, <1>2, Zenon DEF TypeOK, Goto, States
<1>4. SavedInKeys' BY <1>0, <1>1 DEF SavedInKeys, TypeOK, Goto, At
<1>5. ASSUME NEW s \in Stores PROVE Honest(s)'
    <2>1. state[c] \in Holding /\ "gone" \notin Holding BY <1>1 DEF Holding
    <2>2. /\ s = At(c) => Cardinality(Held(s)') = Cardinality(Held(s)) - 1
          /\ s # At(c) => Cardinality(Held(s)') = Cardinality(Held(s))
        BY <1>0, <1>1, <2>1, HeldMoves, Zenon
    <2>3. /\ Cardinality(Held(s)) \in Nat /\ active_calls[s] \in Int /\ maxCalls \in Nat
          /\ Undercount(s)' = Undercount(s) /\ Undercount(s) \in Nat
        BY <1>0, <1>1, HeldFinite, ConfigAssumption DEF TypeOK, Undercount
    <2> QED BY <1>0, <1>1, <1>2, <2>2, <2>3 DEF Honest
<1> QED BY <1>3, <1>4, <1>5, Zenon DEF IInv

\* A node dies with its calls: Redis keeps counting them, a MemoryStore goes too.
LEMMA CrashInv ==
    ASSUME IInv, NEW n \in Nodes, Crash(n)
    PROVE  IInv'
<1>0. /\ TypeOK /\ SavedInKeys /\ n \in Stores /\ n # Redis /\ Redis \in Stores
      /\ \A s \in Stores : Honest(s)
    BY StoreFacts DEF IInv
<1>1. /\ UNCHANGED <<owner, keys, repeats>> /\ faults' = faults \cup {"crash"}
      /\ state' = [c \in Calls |-> IF owner[c] = n /\ state[c] # "idle" THEN "gone" ELSE state[c]]
      /\ active_calls' = [active_calls EXCEPT ![n] = 0]
    BY DEF Crash
<1>2. PICK b \in {Redis, n} : store' = [store EXCEPT ![n] = b] BY ZenonT(30) DEF Crash
<1>3. store' \in Backends BY <1>0, <1>2 DEF TypeOK, Backends
<1>4. active_calls' \in [Stores -> Int] BY <1>0, <1>1 DEF TypeOK
<1>5. TypeOK'
    <2>1. state' \in [Calls -> States] BY <1>0, <1>1 DEF TypeOK, States
    <2>2. faults' \in SUBSET {"redis", "crash"} BY <1>0, <1>1, Zenon DEF TypeOK
    <2> QED BY <1>0, <1>1, <1>3, <1>4, <2>1, <2>2, Zenon DEF TypeOK
<1>6. /\ \A c \in Calls : owner[c] = n => state'[c] \in {"gone", "idle"}
      /\ \A c \in Calls : owner[c] # n => state'[c] = state[c] /\ At(c)' = At(c)
    BY <1>0, <1>1, <1>2 DEF TypeOK, At, Backends
<1>7. SavedInKeys' BY <1>0, <1>1, <1>6, Zenon DEF SavedInKeys
<1>8. ASSUME NEW s \in Stores PROVE Honest(s)'
    <2>0. /\ Cardinality(Held(s)) \in Nat /\ active_calls[s] \in Int /\ maxCalls \in Nat
          /\ Undercount(s)' = Undercount(s) /\ Undercount(s) \in Nat /\ faults' # {}
        BY <1>0, <1>1, HeldFinite, ConfigAssumption DEF TypeOK, Undercount
    <2>1. "gone" \notin Holding /\ "idle" \notin Holding BY DEF Holding
    <2>2. Held(s)' \in SUBSET Held(s) BY <1>6, <2>1 DEF Held
    <2>3. CASE s = n
        <3>1. \A c \in Calls : c \notin Held(s)'
            <4> SUFFICES ASSUME NEW c \in Calls, state'[c] \in Holding, At(c)' = s PROVE FALSE
                BY Zenon DEF Held
            <4>1. owner[c] # n BY <1>6, <2>1, Zenon
            <4>2. At(c) = n BY <1>6, <2>3, <4>1, Zenon
            <4>3. At(c) \in {Redis, owner[c]} BY <1>0 DEF TypeOK, Backends, At
            <4> QED BY <1>0, <4>1, <4>2, <4>3
        <3>2. Held(s)' = {} BY <2>2, <3>1 DEF Held
        <3>3. Cardinality(Held(s)') = 0 BY <3>2, FS_EmptySet, Zenon
        <3>4. active_calls'[s] = 0 BY <1>0, <1>1, <2>3 DEF TypeOK
        <3> QED BY <2>0, <3>3, <3>4 DEF Honest
    <2>4. CASE s # n
        <3>1. active_calls'[s] = active_calls[s] BY <1>0, <1>1, <2>4 DEF TypeOK
        <3>2. Cardinality(Held(s)') <= Cardinality(Held(s)) /\ IsFiniteSet(Held(s)')
            BY <2>2, HeldFinite, FS_Subset
        <3>3. Cardinality(Held(s)') \in Nat BY <3>2, FS_CardinalityType
        <3>4. CASE s = Redis BY <1>0, <2>0, <3>1, <3>2, <3>3, <3>4 DEF Honest
        <3>5. CASE s # Redis
            <4>1. ASSUME NEW c \in Calls PROVE c \in Held(s)' <=> c \in Held(s)
                <5>1. At(c) \in {Redis, owner[c]} BY <1>0 DEF TypeOK, Backends, At
                <5>2. c \in Held(s) => owner[c] # n BY <2>4, <3>5, <5>1 DEF Held
                <5> QED BY <1>6, <2>1, <2>2, <5>2, Zenon DEF Held
            <4>2. Cardinality(Held(s)') = Cardinality(Held(s)) BY <4>1, HeldStays, Zenon
            <4> QED BY <1>0, <2>0, <3>1, <3>5, <4>2 DEF Honest
        <3> QED BY <3>4, <3>5
    <2> QED BY <2>3, <2>4
<1> QED BY <1>5, <1>7, <1>8, Zenon DEF IInv

\* A caller rings again, at any node.
LEMMA RedialInv ==
    ASSUME IInv, NEW c \in Calls, Redial(c)
    PROVE  IInv'
<1>0. TypeOK /\ SavedInKeys /\ \A s \in Stores : Honest(s) BY DEF IInv
<1>1. /\ UNCHANGED <<store, active_calls, keys, faults, repeats>> /\ state[c] = "gone"
      /\ state' = [state EXCEPT ![c] = "idle"]
    BY DEF Redial, Goto
<1>2. PICK n \in Nodes : owner' = [owner EXCEPT ![c] = n] BY ZenonT(30) DEF Redial
<1>3. TypeOK' BY <1>0, <1>1, <1>2, Zenon DEF TypeOK, States
<1>4. state'[c] = "idle" /\ \A d \in Calls : d # c => state'[d] = state[d] /\ At(d)' = At(d)
    BY <1>0, <1>1, <1>2 DEF TypeOK, At
<1>5. SavedInKeys' BY <1>0, <1>1, <1>4, Zenon DEF SavedInKeys
<1>6. ASSUME NEW s \in Stores PROVE Honest(s)'
    <2>1. "gone" \notin Holding /\ "idle" \notin Holding BY DEF Holding
    <2>2. \A d \in Calls : d \in Held(s)' <=> d \in Held(s) BY <1>1, <1>4, <2>1, Zenon DEF Held
    <2>3. Cardinality(Held(s)') = Cardinality(Held(s)) BY <2>2, HeldStays, Zenon
    <2>4. Undercount(s)' = Undercount(s) BY <1>1, Zenon DEF Undercount
    <2> QED BY <1>0, <1>1, <2>3, <2>4, Zenon DEF Honest
<1> QED BY <1>3, <1>5, <1>6, Zenon DEF IInv

\* Every action of every node preserves the invariant.
LEMMA StepInv == IInv /\ [Next]_vars => IInv'
<1> SUFFICES ASSUME IInv, [Next]_vars PROVE IInv' OBVIOUS
<1>1. CASE UNCHANGED vars
    <2>0. UNCHANGED <<state, owner, store, active_calls, keys, faults, repeats>> BY <1>1, Zenon DEF vars
    <2>1. TypeOK' /\ SavedInKeys' BY <2>0, Zenon DEF IInv, TypeOK, SavedInKeys, At
    <2>2. ASSUME NEW s \in Stores PROVE Honest(s)'
        <3>1. \A d \in Calls : d \in Held(s)' <=> d \in Held(s) BY <2>0, Zenon DEF Held, At
        <3>2. Cardinality(Held(s)') = Cardinality(Held(s)) BY <3>1, HeldStays, Zenon
        <3>3. Undercount(s)' = Undercount(s) BY <2>0, Zenon DEF Undercount
        <3> QED BY <2>0, <3>2, <3>3, Zenon DEF IInv, Honest
    <2> QED BY <2>1, <2>2, Zenon DEF IInv
<1> QED BY <1>1, AcquireInv, ProgressInv, GiveBackInv, ReleaseMemoryInv, CrashInv, RedialInv, Zenon DEF Next

\* Types of the store, whatever round trips fail and nodes die (luaTryAcquire,
\* Release).
THEOREM TypeCorrect == Spec => []TypeOK
<1>1. IInv => TypeOK BY DEF IInv
<1> QED BY <1>1, InitInv, StepInv, PTL DEF Spec

\* Every call in progress is covered by its store's counter and the decrements
\* that were repeated (AddIfUnderCapacity, Release).
THEOREM CallsAreCounted == Spec => []CounterCoversCalls
<1>1. IInv => CounterCoversCalls BY DEF IInv, Honest, CounterCoversCalls
<1> QED BY <1>1, InitInv, StepInv, PTL DEF Spec

\* The nodes of a store together never serve more than MaxSessions calls, beyond
\* the decrements that were repeated.
THEOREM CapacityNeverExceeded == Spec => []CapacityHolds
<1>1. IInv => CapacityHolds
    <2> SUFFICES ASSUME IInv, NEW s \in Stores
                 PROVE  Cardinality(Live(s)) <= maxCalls + Undercount(s)
        BY DEF CapacityHolds
    <2>1. Live(s) \in SUBSET Held(s) BY DEF Live, Held, Holding
    <2>2. Cardinality(Live(s)) <= Cardinality(Held(s)) /\ IsFiniteSet(Live(s))
        BY <2>1, HeldFinite, FS_Subset
    <2>3. Cardinality(Live(s)) \in Nat /\ Cardinality(Held(s)) \in Nat
        BY <2>2, HeldFinite, FS_CardinalityType
    <2>4. active_calls[s] \in Int /\ Undercount(s) \in Nat /\ maxCalls \in Nat
        BY ConfigAssumption DEF IInv, TypeOK, Undercount
    <2> QED BY <2>2, <2>3, <2>4 DEF IInv, Honest
<1> QED BY <1>1, InitInv, StepInv, PTL DEF Spec

\* The counter of a MemoryStore is always the number of its calls in progress,
\* and that in Redis as long as nothing fails: however releases race, each call
\* is given back once (Release).
THEOREM ExactWithoutFaults == Spec => []CounterExact
<1>1. IInv => CounterExact BY DEF IInv, Honest, CounterExact
<1> QED BY <1>1, InitInv, StepInv, PTL DEF Spec

\* A call that some node serves from Redis is there, where the other nodes look
\* it up.
THEOREM ServedCallsAreRoutable == Spec => []RoutableWhileLive
<1>1. IInv => RoutableWhileLive BY DEF IInv, SavedInKeys, RoutableWhileLive, Live
<1> QED BY <1>1, InitInv, StepInv, PTL DEF Spec

\* luaTryAcquire and Release keep the counters honest: every call in progress
\* is counted whatever fails, but for repeated decrements, and nothing else is
\* while nothing fails.
THEOREM CounterIsHonest == Spec => []CounterHonest
  BY CallsAreCounted, ExactWithoutFaults, PTL DEF CounterHonest

\* In the composed gateway the store takes its own steps only: it implements the
\* specification these theorems are about.
THEOREM GatewayImplementsStore == GatewaySpec => Spec
<1>1. GatewayInit => Init BY DEF GatewayInit
<1>2. [GatewayNext]_gatewayVars => [Next]_vars BY DEF GatewayNext, OnLink, gatewayVars
<1> QED BY <1>1, <1>2, PTL DEF GatewaySpec, Spec

\* So the counters are honest in the composed gateway, and their capacity is kept.
THEOREM GatewayCountsCalls == GatewaySpec => [](CounterHonest /\ CapacityHolds)
BY GatewayImplementsStore, CounterIsHonest, CapacityNeverExceeded, PTL

(***************************************************************************)
(* THE CONNECTION, for any number of callers, channels, commands and lost  *)
(* connections.  An answer carries nothing that ties it to its command, so *)
(* ReplyIsOwn rests on where answers can be: while nobody has given up on  *)
(* one, whatever is on its way (wire, stream, apiRespCh) is one answer, to *)
(* the command of the goroutine that holds mu (Outstanding).               *)
(***************************************************************************)

Answers == [id : Nat, chans : SUBSET Uuids]
Commands == [id : Nat, verb : {"show", "kill", "api", "originate"}, u : Uuids \cup {Nobody}]
Messages == [type : {"reply"}, id : Nat, chans : SUBSET Uuids]
                \cup [type : {"create", "hangup"}, u : Uuids]

EslTypeOK ==
    /\ link \in {"up", "down", "nil", "auth", "subscribed"} /\ drops \in 0..MaxDrops /\ abandoned \in BOOLEAN
    /\ mu \in Procs \cup {Nobody} /\ pc \in [Procs -> {"idle", "lock", "wait", "release"}]
    /\ own \in [Procs -> Nat] /\ issued \in Nat /\ got \in [Procs -> Answers]
    /\ wire \in Seq(Commands) /\ stream \in Seq(Messages) /\ apiRespCh \in Seq(Answers)
    /\ target \in [Procs -> Uuids \cup {Nobody}] /\ fate \in [Uuids -> {"new", "asked", "up", "down"}]

\* Whoever waits for an answer holds mu, and nobody else.
WaiterHoldsMu == \A p \in Procs : pc[p] = "wait" <=> mu = p

IsReply(i) == i \in 1..Len(stream) /\ stream[i].type = "reply"

\* One answer at most is on its way, to the command of the holder of mu.
Outstanding ==
    ~abandoned =>
        /\ wire # <<>> => /\ mu \in Procs /\ Len(wire) = 1 /\ wire[1].id = own[mu]
                          /\ apiRespCh = <<>> /\ \A i \in 1..Len(stream) : ~IsReply(i)
        /\ apiRespCh # <<>> => /\ mu \in Procs /\ Len(apiRespCh) = 1 /\ apiRespCh[1].id = own[mu]
                               /\ \A i \in 1..Len(stream) : ~IsReply(i)
        /\ \A i \in 1..Len(stream) : IsReply(i) => mu \in Procs /\ stream[i].id = own[mu]
        /\ \A i, j \in 1..Len(stream) : IsReply(i) /\ IsReply(j) => i = j

\* A reconnect goroutine sends nothing before its connection is made.
Callback ==
    /\ \A d \in Recs : d > drops => pc[d] = "idle"
    /\ link # "up" => drops \in Recs /\ pc[drops] = "idle"

EslInv == EslTypeOK /\ WaiterHoldsMu /\ Callback /\ Outstanding /\ ReplyIsOwn

-------------------------------------------------------------------------------
(* What steps do to the answers on their way.                              *)

\* A queue that is read loses its head, and one without entries is empty.
LEMMA QueueRead ==
    ASSUME NEW S, NEW s \in Seq(S)
    PROVE  /\ s # <<>> => Head(s) \in S /\ Tail(s) \in Seq(S)
           /\ Len(s) = 1 => s[1] = Head(s) /\ Tail(s) = <<>>
           /\ Len(s) \in Nat /\ DOMAIN s = 1..Len(s) /\ (s = <<>> \/ 1 \in 1..Len(s))
<1>1. s # <<>> => Head(s) \in S /\ Tail(s) \in Seq(S) OBVIOUS
<1>2. Len(s) \in Nat /\ DOMAIN s = 1..Len(s) OBVIOUS
<1>3. \A u \in Seq(S) : u = <<>> \/ Len(u) # 0 OBVIOUS
<1>4. s = <<>> \/ 1 \in 1..Len(s) BY <1>2, <1>3
<1>5. ASSUME Len(s) = 1 PROVE s[1] = Head(s) /\ Tail(s) = <<>>
    <2>1. s[1] = Head(s) BY <1>5
    <2>2. Tail(s) \in Seq(S) /\ Len(Tail(s)) = 0 BY <1>5
    <2> QED BY <1>3, <2>1, <2>2, Zenon
<1> QED BY <1>1, <1>2, <1>4, <1>5, Zenon

\* So it is with the three queues of the client.
LEMMA QueuesRead ==
    ASSUME EslTypeOK
    PROVE  /\ wire = <<>> \/ (1 \in DOMAIN wire /\ DOMAIN wire = 1..Len(wire))
           /\ apiRespCh = <<>> \/ 1 \in DOMAIN apiRespCh
           /\ DOMAIN stream = 1..Len(stream)
<1>1. wire \in Seq(Commands) /\ stream \in Seq(Messages) /\ apiRespCh \in Seq(Answers) BY DEF EslTypeOK
<1>2. wire = <<>> \/ (1 \in DOMAIN wire /\ DOMAIN wire = 1..Len(wire)) BY <1>1, QueueRead, Zenon
<1>3. apiRespCh = <<>> \/ 1 \in DOMAIN apiRespCh BY <1>1, QueueRead, Zenon
<1>4. DOMAIN stream = 1..Len(stream) BY <1>1, QueueRead, Zenon
<1> QED BY <1>2, <1>3, <1>4, Zenon

\* The stream of messages has lost its head (k = 1) or has no new answer (k = 0).
NoNewReply(k) ==
    \A i \in 1..Len(stream') :
        stream'[i].type = "reply" =>
            i + k \in 1..Len(stream) /\ stream[i + k].type = "reply" /\ stream'[i] = stream[i + k]

\* Dropping the head, or everything, or appending an event brings no new answer.
LEMMA StreamSteps ==
    ASSUME stream \in Seq(Messages)
    PROVE  /\ stream' = stream => stream' \in Seq(Messages) /\ NoNewReply(0)
           /\ stream' = <<>> => stream' \in Seq(Messages) /\ NoNewReply(0)
           /\ stream # <<>> /\ stream' = Tail(stream) => stream' \in Seq(Messages) /\ NoNewReply(1)
           /\ \A t \in {"create", "hangup"}, u \in Uuids :
                 stream' = stream \o <<Event(t, u)>> => stream' \in Seq(Messages) /\ NoNewReply(0)
<1>1. ASSUME stream' = stream PROVE stream' \in Seq(Messages) /\ NoNewReply(0)
    BY <1>1 DEF NoNewReply
<1>2. ASSUME stream' = <<>> PROVE stream' \in Seq(Messages) /\ NoNewReply(0)
    BY <1>2 DEF NoNewReply
<1>3. ASSUME stream # <<>>, stream' = Tail(stream)
      PROVE  stream' \in Seq(Messages) /\ NoNewReply(1)
    BY <1>3 DEF NoNewReply
<1>4. ASSUME NEW t \in {"create", "hangup"}, NEW u \in Uuids, stream' = stream \o <<Event(t, u)>>
      PROVE  stream' \in Seq(Messages) /\ NoNewReply(0)
    <2> DEFINE e == Event(t, u)
    <2>1. e \in Messages /\ e.type # "reply" BY DEF Event, Messages
    <2> HIDE DEF e
    <2>2. stream' = stream \o <<e>> BY <1>4 DEF e
    <2>3. stream' \in Seq(Messages) /\ Len(stream') = Len(stream) + 1 BY <2>1, <2>2
    <2>4. \A i \in 1..Len(stream) : stream'[i] = stream[i] BY <2>1, <2>2
    <2>5. stream'[Len(stream) + 1] = e BY <2>1, <2>2
    <2> QED BY <2>1, <2>3, <2>4, <2>5 DEF NoNewReply
<1> QED BY <1>1, <1>2, <1>3, <1>4

\* A step that writes no command and no answer, and leaves mu with its holder.
LEMMA NothingNew ==
    ASSUME EslTypeOK, Outstanding, UNCHANGED <<mu, own, abandoned>>, stream' \in Seq(Messages),
           wire' = wire \/ wire' = <<>>, UNCHANGED apiRespCh, NEW k \in {0, 1}, NoNewReply(k)
    PROVE  Outstanding'
<1>1. ASSUME NEW i \in 1..Len(stream'), stream'[i].type = "reply"
      PROVE  /\ i + k \in 1..Len(stream) /\ stream[i + k].type = "reply"
             /\ stream'[i] = stream[i + k]
    BY <1>1 DEF NoNewReply
<1> SUFFICES ASSUME ~abandoned
             PROVE  /\ wire' # <<>> => /\ mu \in Procs /\ Len(wire) = 1 /\ wire[1].id = own[mu]
                                       /\ apiRespCh = <<>>
                    /\ wire' # <<>> \/ apiRespCh # <<>> =>
                          \A i \in 1..Len(stream') : stream'[i].type # "reply"
                    /\ apiRespCh # <<>> => /\ mu \in Procs /\ Len(apiRespCh) = 1
                                           /\ apiRespCh[1].id = own[mu]
                    /\ \A i \in 1..Len(stream') :
                          stream'[i].type = "reply" => mu \in Procs /\ stream'[i].id = own[mu]
                    /\ \A i, j \in 1..Len(stream') :
                          stream'[i].type = "reply" /\ stream'[j].type = "reply" => i = j
    BY DEF Outstanding, IsReply
<1>2. /\ wire # <<>> => /\ mu \in Procs /\ Len(wire) = 1 /\ wire[1].id = own[mu]
                        /\ apiRespCh = <<>>
      /\ apiRespCh # <<>> => mu \in Procs /\ Len(apiRespCh) = 1 /\ apiRespCh[1].id = own[mu]
    BY DEF Outstanding
<1>3. /\ wire # <<>> \/ apiRespCh # <<>> => \A i \in 1..Len(stream) : stream[i].type # "reply"
      /\ \A i \in 1..Len(stream) :
            stream[i].type = "reply" => mu \in Procs /\ stream[i].id = own[mu]
      /\ \A i, j \in 1..Len(stream) :
            stream[i].type = "reply" /\ stream[j].type = "reply" => i = j
    BY DEF Outstanding, IsReply
<1>4. ASSUME NEW i \in 1..Len(stream'), NEW j \in 1..Len(stream'),
             stream'[i].type = "reply", stream'[j].type = "reply"
      PROVE  i = j
    <2>1. i + k = j + k BY <1>1, <1>3, <1>4, Zenon
    <2> QED BY <2>1
<1> QED BY <1>1, <1>2, <1>3, <1>4, ZenonT(30)

\* The goroutines and their marks.
LEMMA ProcsFacts ==
    /\ Nobody \notin Procs /\ Loop \in Procs /\ 0..MaxDrops \subseteq Procs /\ Callers \subseteq Procs
    /\ Loop \notin Recs /\ Callers \cap Recs = {}
    /\ NoReply \in Answers /\ NoReply.id = 0
BY EslAssumption DEF Procs, Recs, Loop, Nobody, NoReply, Answers

\* Goroutines that have begun to send go on, and others begin.
LEMMA CallbackKept ==
    ASSUME EslTypeOK, Callback, UNCHANGED <<link, drops>>, NEW p \in Procs, NEW l,
           pc' = [pc EXCEPT ![p] = l], pc[p] # "idle" \/ p \notin Recs
    PROVE  Callback'
<1>1. \A d \in Recs : pc[d] = "idle" => pc'[d] = "idle"
    BY Zenon DEF EslTypeOK, Procs
<1> QED BY <1>1, Zenon DEF Callback

\* SendAPI begins, with or without a session for the channel it asks for.
LEMMA StartInv ==
    ASSUME EslInv, NEW p \in Procs, Start(p) \/ CreateCall(p)
    PROVE  EslInv'
<1> USE ProcsFacts DEF EslInv
<1>1. /\ UNCHANGED <<link, mu, own, got, issued, wire, stream, apiRespCh, fate, drops, abandoned>>
      /\ pc[p] = "idle" /\ pc' = [pc EXCEPT ![p] = "lock"]
    BY Zenon DEF Start, CreateCall, MayStart
<1>2. \E u \in Uuids \cup {Nobody} : target' = [target EXCEPT ![p] = u]
    <2>1. CASE Start(p) BY <2>1, Zenon DEF Start
    <2>2. CASE CreateCall(p)
        <3>1. \E u \in Outbound : target' = [target EXCEPT ![p] = u] BY <2>2, Zenon DEF CreateCall
        <3> QED BY <3>1, EslAssumption, Zenon
    <2> QED BY <2>1, <2>2, Zenon
<1>3. EslTypeOK'
    <2>1. target' \in [Procs -> Uuids \cup {Nobody}]
        <3>1. PICK u \in Uuids \cup {Nobody} : target' = [target EXCEPT ![p] = u] BY <1>2, Zenon
        <3>2. target \in [Procs -> Uuids \cup {Nobody}] BY Zenon DEF EslTypeOK
        <3> QED BY <3>1, <3>2
    <2> QED BY <1>1, <2>1, Zenon DEF EslTypeOK
<1>4. WaiterHoldsMu' BY <1>1, Zenon DEF EslTypeOK, WaiterHoldsMu
<1>5. Outstanding' BY <1>1, Zenon DEF Outstanding, IsReply
<1>6. ReplyIsOwn' BY <1>1, Zenon DEF ReplyIsOwn
<1>7. p \notin Recs BY Zenon DEF Start, CreateCall, MayStart
<1>8. Callback' BY <1>1, <1>7, CallbackKept, Zenon
<1> QED BY <1>3, <1>4, <1>5, <1>6, <1>8

\* SendAPI writes its command once it has mu, or cannot.
LEMMA SendInv ==
    ASSUME EslInv, NEW p \in Procs, Send(p) \/ SendFails(p) \/ SendPanics(p)
    PROVE  EslInv'
<1> USE ProcsFacts DEF EslInv
<1>2. CASE Send(p)
    <2>1. /\ UNCHANGED <<link, stream, apiRespCh, target, fate, drops, abandoned>>
          /\ pc[p] = "lock" /\ mu = Nobody /\ got' = [got EXCEPT ![p] = NoReply]
          /\ mu' = p /\ pc' = [pc EXCEPT ![p] = "wait"] /\ issued' = issued + 1
        BY <1>2, Zenon DEF Send, MayLock
    <2>2. /\ own' = [own EXCEPT ![p] = issued + 1]
          /\ wire' = IF link = "down" THEN wire ELSE Append(wire, Command(p))
        BY <1>2, Zenon DEF Send
    <2> DEFINE c == Command(p)
    <2>3. c \in Commands /\ c.id = issued + 1
        <3>1. Verb(p) \in {"show", "kill", "api", "originate"} BY DEF Verb
        <3>2. target[p] \in Uuids \cup {Nobody} /\ issued + 1 \in Nat BY DEF EslTypeOK
        <3> QED BY <3>1, <3>2, Zenon DEF Command, Commands
    <2> HIDE DEF c
    <2>4. wire' = (IF link = "down" THEN wire ELSE Append(wire, c)) BY <2>2 DEF c
    <2>5. EslTypeOK'
        <3>1. wire' \in Seq(Commands) BY <2>3, <2>4 DEF EslTypeOK
        <3>2. own' \in [Procs -> Nat] /\ issued' \in Nat BY <2>1, <2>2 DEF EslTypeOK
        <3> QED BY <2>1, <3>1, <3>2, ZenonT(30) DEF EslTypeOK
    <2>6. WaiterHoldsMu' BY <2>1, Zenon DEF EslTypeOK, WaiterHoldsMu
    <2>7. Outstanding'
        <3> SUFFICES ASSUME ~abandoned PROVE Outstanding' BY <2>1, Zenon DEF Outstanding
        <3>1. /\ wire = <<>> /\ apiRespCh = <<>> /\ mu' = p
              /\ \A i \in 1..Len(stream) : stream[i].type # "reply"
            BY <2>1, Zenon DEF Outstanding, IsReply
        <3>2. own'[p] = issued + 1 BY <2>2, ZenonT(30) DEF EslTypeOK
        <3>3. wire' = <<>> \/ (Len(wire') = 1 /\ wire'[1] = c)
            BY <2>3, <2>4, <3>1
        <3> QED BY <2>1, <2>3, <3>1, <3>2, <3>3, Zenon DEF Outstanding, IsReply
    <2>8. ReplyIsOwn' BY <2>1, <2>2, Zenon DEF EslTypeOK, ReplyIsOwn
    <2>9. Callback' BY <2>1, CallbackKept, ZenonT(30)
    <2> QED BY <2>5, <2>6, <2>7, <2>8, <2>9
<1>3. CASE SendFails(p) \/ SendPanics(p)
    <2>1. /\ UNCHANGED <<link, mu, own, issued, wire, stream, apiRespCh, target, fate, drops, abandoned>>
          /\ pc[p] = "lock" /\ pc' = [pc EXCEPT ![p] = "idle"]
          /\ got' = [got EXCEPT ![p] = NoReply]
        BY <1>3, ZenonT(30) DEF SendFails, SendPanics
    <2>2. EslTypeOK' BY <2>1 DEF EslTypeOK
    <2>3. WaiterHoldsMu' BY <2>1, Zenon DEF EslTypeOK, WaiterHoldsMu
    <2>4. Outstanding' BY <2>1, ZenonT(30) DEF Outstanding, IsReply
    <2>5. ReplyIsOwn' BY <2>1 DEF EslTypeOK, ReplyIsOwn
    <2>6. Callback' BY <2>1, CallbackKept, Zenon
    <2> QED BY <2>2, <2>3, <2>4, <2>5, <2>6
<1> QED BY <1>2, <1>3, Zenon

\* SendAPI returns: it takes what is in apiRespCh, its own answer, or gives up,
\* which goes unnoticed when no answer to it is on its way.
LEMMA ReturnInv ==
    ASSUME EslInv, NEW p \in Procs, Receive(p) \/ Timeout(p) \/ ReleaseOrphans(p)
    PROVE  EslInv'
<1> USE ProcsFacts DEF EslInv
<1>1. CASE Receive(p)
    <2>1. /\ UNCHANGED <<link, own, issued, wire, stream, target, fate, drops, abandoned>>
          /\ pc[p] = "wait" /\ apiRespCh # <<>> /\ mu' = Nobody
          /\ got' = [got EXCEPT ![p] = Head(apiRespCh)] /\ apiRespCh' = Tail(apiRespCh)
        BY <1>1 DEF Receive
    <2>2. PICK l \in {"release", "idle"} : pc' = [pc EXCEPT ![p] = l]
        BY <1>1, ZenonT(30) DEF Receive
    <2>3. Head(apiRespCh) \in Answers /\ apiRespCh' \in Seq(Answers)
        BY <2>1, QueueRead, ZenonT(30) DEF EslTypeOK
    <2>4. EslTypeOK' BY <2>1, <2>2, <2>3, Zenon DEF EslTypeOK
    <2>5. WaiterHoldsMu' BY <2>1, <2>2, Zenon DEF EslTypeOK, WaiterHoldsMu
    <2>6. mu = p BY <2>1, Zenon DEF WaiterHoldsMu
    <2>7. ASSUME ~abandoned
          PROVE  /\ wire = <<>> /\ \A i \in 1..Len(stream) : ~IsReply(i)
                 /\ Len(apiRespCh) = 1 /\ apiRespCh[1].id = own[p]
        BY <2>1, <2>6, <2>7, ZenonT(30) DEF Outstanding
    <2>8. ASSUME ~abandoned PROVE apiRespCh' = <<>> /\ Head(apiRespCh).id = own[p]
        <3>1. apiRespCh \in Seq(Answers) /\ Len(apiRespCh) = 1
            BY <2>7, <2>8, Zenon DEF EslTypeOK
        <3>2. Head(apiRespCh) = apiRespCh[1] /\ Tail(apiRespCh) = <<>>
            BY <3>1, QueueRead, Zenon
        <3> QED BY <2>1, <2>7, <2>8, <3>2, Zenon
    <2>9. Outstanding' BY <2>1, <2>7, <2>8, ZenonT(30) DEF Outstanding, IsReply
    <2>10. ReplyIsOwn' BY <2>1, <2>8 DEF EslTypeOK, ReplyIsOwn
    <2>11. Callback' BY <2>1, <2>2, CallbackKept, ZenonT(30)
    <2> QED BY <2>4, <2>5, <2>9, <2>10, <2>11, ZenonT(30)
<1>2. CASE Timeout(p)
    <2>1. /\ UNCHANGED <<link, own, got, issued, wire, stream, apiRespCh, target, fate, drops>>
          /\ pc[p] = "wait" /\ mu' = Nobody /\ pc' = [pc EXCEPT ![p] = "idle"]
          /\ abandoned' = (abandoned \/ Coming(own[p]))
        BY <1>2, Zenon DEF Timeout, MayGiveUp
    <2>2. EslTypeOK' BY <2>1, ZenonT(30) DEF EslTypeOK, Coming
    <2>3. WaiterHoldsMu' BY <2>1 DEF EslTypeOK, WaiterHoldsMu
    <2>4. mu = p BY <2>1, ZenonT(30) DEF WaiterHoldsMu
    <2>5. ASSUME ~abandoned, ~Coming(own[p])
          PROVE  wire = <<>> /\ apiRespCh = <<>> /\ \A i \in 1..Len(stream) : ~IsReply(i)
        <3>1. /\ wire = <<>> \/ (1 \in DOMAIN wire /\ DOMAIN wire = 1..Len(wire))
              /\ apiRespCh = <<>> \/ 1 \in DOMAIN apiRespCh
              /\ DOMAIN stream = 1..Len(stream)
            BY QueuesRead, Zenon
        <3>2. wire = <<>> BY <2>4, <2>5, <3>1, ZenonT(30) DEF Outstanding, Coming
        <3>3. apiRespCh = <<>> BY <2>4, <2>5, <3>1, ZenonT(30) DEF Outstanding, Coming
        <3>4. \A i \in 1..Len(stream) : ~IsReply(i)
            BY <2>4, <2>5, <3>1, ZenonT(30) DEF Outstanding, Coming, IsReply
        <3> QED BY <3>2, <3>3, <3>4, Zenon
    <2>6. Outstanding' BY <2>1, <2>5, Zenon DEF Outstanding, IsReply
    <2>7. ReplyIsOwn' BY <2>1, Zenon DEF ReplyIsOwn
    <2>8. Callback' BY <2>1, CallbackKept, Zenon
    <2> QED BY <2>2, <2>3, <2>6, <2>7, <2>8
<1>3. CASE ReleaseOrphans(p)
    <2>1. /\ UNCHANGED <<link, mu, own, got, issued, wire, stream, apiRespCh, target, fate, drops, abandoned>>
          /\ pc[p] = "release" /\ pc' = [pc EXCEPT ![p] = "idle"]
        BY <1>3, Zenon DEF ReleaseOrphans
    <2>2. EslTypeOK' BY <2>1, Zenon DEF EslTypeOK
    <2>3. WaiterHoldsMu' BY <2>1, Zenon DEF EslTypeOK, WaiterHoldsMu
    <2>4. Outstanding' BY <2>1, ZenonT(30) DEF Outstanding, IsReply
    <2>5. ReplyIsOwn' BY <2>1, ZenonT(30) DEF ReplyIsOwn
    <2>6. Callback' BY <2>1, CallbackKept, Zenon
    <2> QED BY <2>2, <2>3, <2>4, <2>5, <2>6
<1> QED BY <1>1, <1>2, <1>3

\* The event loop: an answer moves from the stream to apiRespCh, or is dropped
\* when that is full; an event goes to its handler, which may ask for mu.
LEMMA LoopInv ==
    ASSUME EslInv, RouteReply \/ onChannelCreate \/ onChannelHangup \/ LoopExit \/ autoReconnect
    PROVE  EslInv'
<1> USE ProcsFacts DEF EslInv
<1>0. stream \in Seq(Messages) /\ apiRespCh \in Seq(Answers) BY Zenon DEF EslTypeOK
<1>1. CASE RouteReply
    <2>1. /\ UNCHANGED <<link, mu, pc, own, got, issued, wire, target, fate, drops, abandoned>>
          /\ stream # <<>> /\ stream' = Tail(stream) /\ Head(stream).type = "reply"
        BY <1>1 DEF RouteReply, Take
    <2> DEFINE a == [id |-> Head(stream).id, chans |-> Head(stream).chans]
    <2>2. Head(stream) = stream[1] /\ 1 \in 1..Len(stream) /\ Head(stream) \in Messages
        BY <1>0, <2>1
    <2>3. a \in Answers /\ a.id = stream[1].id /\ stream[1].type = "reply"
        BY <2>1, <2>2, Zenon DEF Messages, Answers
    <2>4. apiRespCh' = Append(apiRespCh, a) \/ apiRespCh' = apiRespCh
        BY <1>1 DEF RouteReply
    <2> HIDE DEF a
    <2>5. apiRespCh' \in Seq(Answers) BY <1>0, <2>3, <2>4
    <2>6. stream' \in Seq(Messages) /\ NoNewReply(1) BY <1>0, <2>1, StreamSteps, Zenon
    <2>7. EslTypeOK' BY <2>1, <2>5, <2>6, ZenonT(30) DEF EslTypeOK
    <2>8. ASSUME ~abandoned
          PROVE  /\ wire = <<>> /\ apiRespCh = <<>> /\ mu \in Procs /\ stream[1].id = own[mu]
                 /\ \A i \in 1..Len(stream) : stream[i].type = "reply" => i = 1
        BY <2>2, <2>3, <2>8, Zenon DEF Outstanding, IsReply
    <2>9. ASSUME ~abandoned PROVE \A i \in 1..Len(stream') : stream'[i].type # "reply"
        <3> SUFFICES ASSUME NEW i \in 1..Len(stream'), stream'[i].type = "reply" PROVE FALSE
            OBVIOUS
        <3>1. Len(stream') \in Nat BY <2>6
        <3>2. i + 1 \in 1..Len(stream) /\ stream[i + 1].type = "reply" BY <2>6, Zenon DEF NoNewReply
        <3>3. i + 1 = 1 BY <2>8, <2>9, <3>2, ZenonT(30)
        <3> QED BY <3>1, <3>3
    <2>10. ASSUME ~abandoned PROVE apiRespCh' = <<>> \/ (Len(apiRespCh') = 1 /\ apiRespCh'[1] = a)
        BY <2>3, <2>4, <2>8, <2>10
    <2>11. Outstanding' BY <2>1, <2>3, <2>8, <2>9, <2>10, Zenon DEF Outstanding, IsReply
    <2> QED BY <2>1, <2>7, <2>11, ZenonT(30) DEF WaiterHoldsMu, Callback, ReplyIsOwn
<1>2. CASE onChannelCreate \/ onChannelHangup
    <2>1. /\ UNCHANGED <<link, mu, own, got, issued, wire, apiRespCh, fate, drops, abandoned>>
          /\ stream # <<>> /\ stream' = Tail(stream) /\ pc[Loop] = "idle"
        BY <1>2, ZenonT(30) DEF onChannelCreate, onChannelHangup, Take
    <2>2. \/ UNCHANGED <<pc, target>>
          \/ /\ pc' = [pc EXCEPT ![Loop] = "lock"]
             /\ target' = [target EXCEPT ![Loop] = Head(stream).u]
             /\ Head(stream).type = "create"
        BY <1>2, ZenonT(30) DEF onChannelCreate, onChannelHangup
    <2>3. Head(stream) \in Messages BY <1>0, <2>1
    <2>4. target' \in [Procs -> Uuids \cup {Nobody}]
        <3>1. Head(stream).type = "create" => Head(stream).u \in Uuids BY <2>3 DEF Messages
        <3> QED BY <2>2, <3>1, ZenonT(30) DEF EslTypeOK
    <2>5. stream' \in Seq(Messages) /\ NoNewReply(1) BY <1>0, <2>1, StreamSteps
    <2>6. EslTypeOK' BY <2>1, <2>2, <2>4, <2>5, ZenonT(30) DEF EslTypeOK
    <2>7. WaiterHoldsMu' BY <2>1, <2>2, ZenonT(30) DEF EslTypeOK, WaiterHoldsMu
    <2>8. Outstanding' BY <2>1, <2>5, NothingNew
    <2>9. Callback'
        <3>1. CASE UNCHANGED pc BY <2>1, <3>1, Zenon DEF Callback
        <3>2. CASE pc' = [pc EXCEPT ![Loop] = "lock"] BY <2>1, <3>2, CallbackKept, Zenon
        <3> QED BY <2>2, <3>1, <3>2, Zenon
    <2> QED BY <2>1, <2>6, <2>7, <2>8, <2>9, Zenon DEF ReplyIsOwn
<1>3. CASE LoopExit
    <2>1. UNCHANGED <<link, mu, pc, own, got, issued, wire, stream, apiRespCh, target, fate, drops, abandoned>>
        BY <1>3, Zenon DEF LoopExit
    <2> QED BY <2>1, ZenonT(30) DEF EslTypeOK, WaiterHoldsMu, Callback, Outstanding, IsReply, ReplyIsOwn
<1>4. CASE Close \/ Dial \/ Authenticate
    <2>1. /\ UNCHANGED <<mu, pc, own, got, issued, wire, stream, apiRespCh, target, fate, drops, abandoned>>
          /\ link' \in {"nil", "auth", "subscribed"} /\ link # "up"
        BY <1>4, ZenonT(30) DEF Close, Dial, Authenticate, Connecting, clientVars
    <2>2. Callback' BY <2>1, Zenon DEF Callback
    <2> QED BY <2>1, <2>2, ZenonT(30) DEF EslTypeOK, WaiterHoldsMu, Outstanding, IsReply, ReplyIsOwn
<1>5. CASE HandshakeFails
    <2>1. /\ UNCHANGED <<mu, pc, own, got, issued, apiRespCh, target, fate, drops, abandoned>>
          /\ link' = "down" /\ link # "up" /\ wire' = <<>> /\ stream' = <<>>
        BY <1>5, ZenonT(30) DEF HandshakeFails, Connecting, clientVars
    <2>2. stream' \in Seq(Messages) /\ NoNewReply(0) BY <1>0, <2>1, StreamSteps, ZenonT(30)
    <2>3. EslTypeOK' BY <2>1, <2>2 DEF EslTypeOK
    <2>4. Outstanding' BY <2>1, <2>2, NothingNew, Zenon
    <2> QED BY <2>1, <2>3, <2>4, Zenon DEF WaiterHoldsMu, Callback, ReplyIsOwn
<1>6. CASE Reconnected
    <2>1. /\ UNCHANGED <<mu, own, got, issued, wire, stream, apiRespCh, target, fate, drops, abandoned>>
          /\ link = "subscribed" /\ link' = "up" /\ pc' = [pc EXCEPT ![drops] = "lock"]
        BY <1>6, Zenon DEF Reconnected, OnReconnect
    <2>2. drops \in Procs BY Zenon DEF EslTypeOK
    <2>3. EslTypeOK' BY <2>1, <2>2, Zenon DEF EslTypeOK
    <2>4. pc[drops] = "idle" /\ \A d \in Recs : d > drops => d # drops /\ pc[d] = "idle"
        <3>1. drops \in Int /\ Recs \subseteq Int BY DEF EslTypeOK, Recs
        <3>2. \A d \in Recs : d > drops => d # drops BY <3>1
        <3>3. link # "up" BY <2>1
        <3> QED BY <3>2, <3>3, ZenonT(30) DEF Callback
    <2>5. WaiterHoldsMu' BY <2>1, <2>2, <2>4, ZenonT(30) DEF EslTypeOK, WaiterHoldsMu
    <2>6. Outstanding' BY <2>1, Zenon DEF Outstanding, IsReply
    <2>7. Callback' BY <2>1, <2>2, <2>4, ZenonT(30) DEF EslTypeOK, Callback, Procs
    <2> QED BY <2>1, <2>3, <2>5, <2>6, <2>7, Zenon DEF ReplyIsOwn
<1> QED BY <1>1, <1>2, <1>3, <1>4, <1>5, <1>6, Zenon DEF autoReconnect

\* Two messages written behind those that are on their way.
LEMMA TwoMore ==
    ASSUME NEW S, NEW s \in Seq(S), NEW x \in S, NEW y \in S, NEW t, t = s \o <<x, y>>
    PROVE  /\ t \in Seq(S) /\ Len(t) = Len(s) + 2
           /\ \A i \in 1..Len(s) : t[i] = s[i]
           /\ t[Len(s) + 1] = x /\ t[Len(s) + 2] = y
<1> DEFINE u == <<x, y>>
<1>1. u \in Seq(S) /\ Len(u) = 2 /\ u[1] = x /\ u[2] = y OBVIOUS
<1> HIDE DEF u
<1>2. t \in Seq(S) /\ Len(t) = Len(s) + 2 BY <1>1 DEF u
<1>3. \A i \in 1..Len(s) : t[i] = s[i] BY <1>1 DEF u
<1>4. \A i \in 1..2 : t[Len(s) + i] = u[i] BY <1>1 DEF u
<1> QED BY <1>1, <1>2, <1>3, <1>4

\* FreeSWITCH answers the command it reads, which is then no longer on the wire.
LEMMA ServeInv ==
    ASSUME EslInv, Serve
    PROVE  EslInv'
<1> USE ProcsFacts DEF EslInv
<1> DEFINE c == Head(wire)
           r == Reply(c)
           h == Event("hangup", c.u)
<1>0. wire \in Seq(Commands) /\ wire # <<>> /\ stream \in Seq(Messages) BY DEF EslTypeOK, Serve
<1>1. c \in Commands /\ c = wire[1] BY <1>0
<1>2. r \in Messages /\ r.type = "reply" /\ r.id = c.id
    BY <1>1, ZenonT(30) DEF Reply, Messages, Commands, channels
<1>3. h.type = "hangup" /\ (c.u \in Uuids => h \in Messages) BY DEF Event, Messages
<1>4. /\ UNCHANGED <<link, drops, mu, pc, own, got, issued, apiRespCh, target, abandoned>>
      /\ wire' = Tail(wire)
      /\ \/ UNCHANGED fate /\ stream' = stream \o (<<r>> \o <<>>)
         \/ fate' = [fate EXCEPT ![c.u] = "asked"] /\ stream' = stream \o (<<r>> \o <<>>)
         \/ /\ c.u \in Uuids /\ fate' = [fate EXCEPT ![c.u] = "down"]
            /\ stream' = stream \o (<<r>> \o <<h>>)
    BY Zenon DEF Serve, Report, clientVars, channels
<1> HIDE DEF c, r, h
<1>5. /\ stream' \in Seq(Messages) /\ Len(stream') > Len(stream)
      /\ \A i \in 1..Len(stream) : stream'[i] = stream[i]
      /\ stream'[Len(stream) + 1] = r
      /\ \A i \in 1..Len(stream') : i > Len(stream) + 1 => stream'[i].type # "reply"
    <2>1. CASE stream' = stream \o (<<r>> \o <<>>)
        <3>1. stream' = stream \o <<r>> BY <2>1, <1>2
        <3> QED BY <1>0, <1>2, <3>1
    <2>2. CASE stream' = stream \o (<<r>> \o <<h>>) /\ c.u \in Uuids
        <3>1. <<r>> \o <<h>> = <<r, h>> BY <1>2, <1>3, <2>2
        <3>2. stream' = stream \o <<r, h>> BY <2>2, <3>1
        <3>3. h \in Messages BY <1>3, <2>2, ZenonT(30)
        <3>4. /\ stream' \in Seq(Messages) /\ Len(stream') = Len(stream) + 2
              /\ \A i \in 1..Len(stream) : stream'[i] = stream[i]
              /\ stream'[Len(stream) + 1] = r /\ stream'[Len(stream) + 2] = h
            BY <1>0, <1>2, <3>2, <3>3, TwoMore
        <3>5. Len(stream) \in Nat BY <1>0
        <3>6. ASSUME NEW i \in 1..Len(stream'), i > Len(stream) + 1 PROVE stream'[i].type # "reply"
            <4>1. i = Len(stream) + 2 BY <3>4, <3>5, <3>6
            <4> QED BY <1>3, <3>4, <4>1, Zenon
        <3>7. Len(stream') > Len(stream) BY <3>4, <3>5
        <3> QED BY <3>4, <3>6, <3>7, ZenonT(30)
    <2> QED BY <1>4, <2>1, <2>2, ZenonT(30)
<1>6. wire' \in Seq(Commands) BY <1>0, <1>4
<1>7. EslTypeOK'
    <2>1. fate' \in [Uuids -> {"new", "asked", "up", "down"}] BY <1>4, Zenon DEF EslTypeOK
    <2> QED BY <1>4, <1>5, <1>6, <2>1, Zenon DEF EslTypeOK
<1>8. ASSUME ~abandoned
      PROVE  /\ Len(wire) = 1 /\ mu \in Procs /\ c.id = own[mu] /\ apiRespCh = <<>>
             /\ \A i \in 1..Len(stream) : stream[i].type # "reply"
    BY <1>0, <1>1, <1>8, ZenonT(30) DEF Outstanding, IsReply
<1>9. ASSUME ~abandoned PROVE wire' = <<>>
    BY <1>0, <1>4, <1>8, <1>9
<1>10. ASSUME ~abandoned
       PROVE  \A i \in 1..Len(stream') : stream'[i].type = "reply" => i = Len(stream) + 1
    <2> SUFFICES ASSUME NEW i \in 1..Len(stream'), stream'[i].type = "reply"
                 PROVE  i = Len(stream) + 1
        OBVIOUS
    <2>1. i \notin 1..Len(stream) BY <1>5, <1>8, <1>10, ZenonT(30)
    <2>2. ~(i > Len(stream) + 1) BY <1>5, ZenonT(30)
    <2>3. Len(stream) \in Nat BY <1>0
    <2> QED BY <2>1, <2>2, <2>3
<1>11. Outstanding' BY <1>2, <1>4, <1>5, <1>8, <1>9, <1>10, Zenon DEF Outstanding, IsReply
<1> QED BY <1>4, <1>7, <1>11, ZenonT(30) DEF WaiterHoldsMu, Callback, ReplyIsOwn

\* Calls begin and end, and the connection is lost: no answer is written.
LEMMA NetworkInv ==
    ASSUME EslInv, Drop \/ \E u \in Uuids : ChannelStarts(u) \/ ChannelEnds(u)
    PROVE  EslInv'
<1> USE ProcsFacts DEF EslInv
<1>0. stream \in Seq(Messages) BY Zenon DEF EslTypeOK
<1>1. CASE Drop
    <2>1. /\ UNCHANGED <<fate, mu, pc, own, got, issued, apiRespCh, target, abandoned>>
          /\ link' = "down" /\ drops < MaxDrops /\ drops' = drops + 1 /\ wire' = <<>>
          /\ stream' = stream \/ stream' = <<>>
        BY <1>1 DEF Drop, clientVars
    <2>2. stream' \in Seq(Messages) /\ NoNewReply(0) BY <1>0, <2>1, StreamSteps, ZenonT(30)
    <2>3. drops' \in 0..MaxDrops
        <3>1. drops \in 0..MaxDrops BY ZenonT(30) DEF EslTypeOK
        <3> QED BY <2>1, <3>1, EslAssumption
    <2>4. EslTypeOK' BY <2>1, <2>2, <2>3 DEF EslTypeOK
    <2>5. Outstanding' BY <2>1, <2>2, NothingNew, Zenon
    <2>6. Callback'
        <3>1. drops \in Nat /\ MaxDrops \in Nat BY EslAssumption DEF EslTypeOK
        <3>2. drops' \in Recs /\ drops' > drops /\ \A d \in Recs : d > drops' => d > drops
            BY <2>1, <3>1 DEF Recs
        <3> QED BY <2>1, <3>2, ZenonT(30) DEF Callback
    <2> QED BY <2>1, <2>4, <2>5, <2>6, ZenonT(30) DEF WaiterHoldsMu, ReplyIsOwn
<1>2. ASSUME NEW u \in Uuids, ChannelStarts(u) \/ ChannelEnds(u) PROVE EslInv'
    <2>1. /\ UNCHANGED <<link, wire, drops, mu, pc, own, got, issued, apiRespCh, target, abandoned>>
          /\ \E s \in {"up", "down"} : fate' = [fate EXCEPT ![u] = s]
        BY <1>2, Zenon DEF ChannelStarts, ChannelEnds, clientVars
    <2>2. stream' = stream \/ \E t \in {"create", "hangup"} : stream' = stream \o <<Event(t, u)>>
        BY <1>2, Zenon DEF ChannelStarts, ChannelEnds, Report
    <2>3. stream' \in Seq(Messages) /\ NoNewReply(0) BY <1>0, <2>2, StreamSteps, Zenon
    <2>4. EslTypeOK' BY <2>1, <2>3, Zenon DEF EslTypeOK
    <2>5. Outstanding' BY <2>1, <2>3, NothingNew, Zenon
    <2> QED BY <2>1, <2>4, <2>5, Zenon DEF WaiterHoldsMu, Callback, ReplyIsOwn
<1> QED BY <1>1, <1>2, Zenon

\* No step of the connection breaks the invariant, and the store takes none.
LEMMA LinkStepInv == EslInv /\ [GatewayNext]_gatewayVars => EslInv'
<1> SUFFICES ASSUME EslInv, [GatewayNext]_gatewayVars PROVE EslInv' OBVIOUS
<1>1. CASE EslNext
    BY <1>1, StartInv, SendInv, ReturnInv, LoopInv, ServeInv, NetworkInv, Zenon DEF EslNext
<1>2. CASE UNCHANGED eslVars
    BY <1>2, Zenon DEF eslVars, EslInv, EslTypeOK, WaiterHoldsMu, Callback, Outstanding, IsReply, ReplyIsOwn
<1> QED BY <1>1, <1>2 DEF GatewayNext, OnLink, gatewayVars

\* The client connects with nothing on its way.
LEMMA LinkInitInv == GatewayInit => EslInv
<1> SUFFICES ASSUME EslInit PROVE EslInv BY Zenon DEF GatewayInit
<1> USE ProcsFacts DEF EslInit
<1>1. EslTypeOK BY EslAssumption DEF EslTypeOK
<1>2. WaiterHoldsMu BY Zenon DEF WaiterHoldsMu
<1>3. Outstanding BY DEF Outstanding, IsReply
<1>4. ReplyIsOwn BY DEF ReplyIsOwn
<1>5. Callback BY Zenon DEF Callback, Procs
<1> QED BY <1>1, <1>2, <1>3, <1>4, <1>5, Zenon DEF EslInv

-------------------------------------------------------------------------------

\* However callers, the event loop's own kills, reconnects and lost connections
\* interleave, SendAPI returns the answer to its own command, until somebody gives
\* up on an answer that is still to come.
THEOREM AnswersAreOwn == GatewaySpec => []ReplyIsOwn
<1>1. EslInv => ReplyIsOwn BY DEF EslInv
<1> QED BY <1>1, LinkInitInv, LinkStepInv, PTL DEF GatewaySpec

\* The commands share the connection one at a time: mu is held by the goroutine
\* that waits for an answer, by it alone, and whatever is on its way is for it.
THEOREM CommandsAreSerial == GatewaySpec => [](WaiterHoldsMu /\ Outstanding)
<1>1. EslInv => WaiterHoldsMu /\ Outstanding BY DEF EslInv
<1> QED BY <1>1, LinkInitInv, LinkStepInv, PTL DEF GatewaySpec

-------------------------------------------------------------------------------
(***************************************************************************)
(* KILL SWITCHES.  A switch is deactivated once, and a call gets past an   *)
(* active switch only after a failed command or a stale cache write.  The  *)
(* first rests on "off" being final and on the admin who turned a switch   *)
(* off being the only one to be answered for it (OffOnce), the second on   *)
(* the cache never saying "0" while a switch is on (CacheAgrees).          *)
(***************************************************************************)

Switching == {a \in Admins : admin[a].pc = "cache_off"}

\* Whoever is about to be, or was, answered for a switch is alone in that.
OffOnce ==
    /\ \A a \in Switching : switches[admin[a].id] = "off"
    /\ \A p \in answered : switches[p[2]] = "off"
    /\ \A a, b \in Switching : admin[a].id = admin[b].id => a = b
    /\ \A a \in Switching : \A p \in answered : p[2] # admin[a].id

CacheAgrees == causes = {} => "call" \notin leaked /\ (On # {} => cache # "0")

-------------------------------------------------------------------------------

\* No switch, no cache entry and no request at first.
LEMMA InitSwitchType == SwitchInit => SwitchTypeOK
<1> SUFFICES ASSUME SwitchInit PROVE SwitchTypeOK OBVIOUS
<1>1. admin \in [Admins -> [pc : {"idle", "cache_on", "cache_off"}, id : 0..MaxSwitches]]
    BY SwitchAssumption DEF SwitchInit, IdleAdmin
<1>2. call \in [Attempts -> [pc : {"idle", "find", "fill"}, found : {"none", "0", "1"},
                          on : SUBSET Ids]]
    BY Zenon DEF SwitchInit, IdleCall
<1>3. /\ \A a \in Admins : admin[a].pc = "idle"
      /\ \A c \in Attempts : call[c].pc = "idle"
    BY Zenon DEF SwitchInit, IdleAdmin, IdleCall
<1> QED BY <1>1, <1>2, <1>3, ZenonT(30) DEF SwitchInit, SwitchTypeOK

\* Every step of an admin keeps the types.
LEMMA AdminType ==
    ASSUME SwitchTypeOK, NEW a \in Admins, AdminStep(a) \/ AdminEnd(a)
    PROVE  SwitchTypeOK'
<1>1. switches' \in [Ids -> {"none", "inserted", "on", "off"}]
    <2>1. switches' = switches \/ \E k, v : /\ v \in {"none", "inserted", "on", "off"}
                                           /\ switches' = [switches EXCEPT ![k] = v]
        <3>1. CASE ActivateInsert(a) \/ DeactivateUpdate(a)
            BY <3>1, ZenonT(30) DEF ActivateInsert, DeactivateUpdate
        <3>2. CASE ActivateCache(a)
            <4>1. admin[a].id \in Ids BY <3>2, ZenonT(30) DEF SwitchTypeOK, ActivateCache
            <4>2. switches[admin[a].id] \in {"none", "inserted", "on", "off"}
                BY <4>1, ZenonT(30) DEF SwitchTypeOK
            <4> QED BY <3>2, <4>2, ZenonT(30) DEF ActivateCache
        <3>3. CASE DeactivateCache(a) BY <3>3, ZenonT(30) DEF DeactivateCache
        <3> QED BY <3>1, <3>2, <3>3, ZenonT(30) DEF AdminStep, AdminEnd
    <2> QED BY <2>1, ZenonT(30) DEF SwitchTypeOK
<1>2. cache' \in {"none", "0", "1"} /\ causes' \in SUBSET {"error", "stale"}
    BY Zenon DEF SwitchTypeOK, AdminStep, AdminEnd, ActivateInsert, ActivateCache, DeactivateUpdate,
           DeactivateCache, CacheActivation, cache_kill_switch
<1>3. \E x \in [pc : {"idle", "cache_on", "cache_off"}, id : 0..MaxSwitches] :
          admin' = [admin EXCEPT ![a] = x] /\ (x.pc # "idle" => x.id \in Ids)
    <2>1. CASE AdminStep(a)
        <3>1. PICK k \in Ids, s \in {"cache_on", "cache_off"} :
                  admin' = [admin EXCEPT ![a] = [pc |-> s, id |-> k]]
            BY <2>1, ZenonT(30)
            DEF AdminStep, ActivateInsert, DeactivateUpdate, Unused, Deactivatable, InDb
        <3>2. k \in 0..MaxSwitches BY SwitchAssumption DEF Ids
        <3> DEFINE x == [pc |-> s, id |-> k]
        <3>3. x \in [pc : {"idle", "cache_on", "cache_off"}, id : 0..MaxSwitches] /\ x.id \in Ids
            BY <3>2, ZenonT(30)
        <3> QED BY <3>1, <3>3, ZenonT(30)
    <2>2. CASE AdminEnd(a)
        <3>1. admin' = [admin EXCEPT ![a] = IdleAdmin]
            BY <2>2, ZenonT(30) DEF AdminEnd, ActivateCache, DeactivateCache
        <3>2. 0 \in 0..MaxSwitches BY SwitchAssumption
        <3>3. /\ IdleAdmin \in [pc : {"idle", "cache_on", "cache_off"}, id : 0..MaxSwitches]
              /\ IdleAdmin.pc = "idle"
            BY <3>2, ZenonT(30) DEF IdleAdmin
        <3> QED BY <3>1, <3>3, ZenonT(30)
    <2> QED BY <2>1, <2>2, ZenonT(30)
<1>4. /\ admin' \in [Admins -> [pc : {"idle", "cache_on", "cache_off"}, id : 0..MaxSwitches]]
      /\ \A b \in Admins : admin'[b].pc # "idle" => admin'[b].id \in Ids
    <2>1. PICK x \in [pc : {"idle", "cache_on", "cache_off"}, id : 0..MaxSwitches] :
              admin' = [admin EXCEPT ![a] = x] /\ (x.pc # "idle" => x.id \in Ids)
        BY <1>3, Zenon
    <2>2. admin \in [Admins -> [pc : {"idle", "cache_on", "cache_off"}, id : 0..MaxSwitches]]
        BY Zenon DEF SwitchTypeOK
    <2>3. admin' \in [Admins -> [pc : {"idle", "cache_on", "cache_off"}, id : 0..MaxSwitches]]
        BY <2>1, <2>2, ZenonT(30)
    <2>4. \A b \in Admins : admin'[b] = IF b = a THEN x ELSE admin[b] BY <2>1, <2>2, ZenonT(30)
    <2>5. \A b \in Admins : admin[b].pc # "idle" => admin[b].id \in Ids BY Zenon DEF SwitchTypeOK
    <2> QED BY <2>1, <2>3, <2>4, <2>5, ZenonT(30)
<1>5. answered' \in SUBSET (Admins \X Ids)
    <2>1. CASE DeactivateCache(a)
        <3>1. admin[a].id \in Ids
            BY <2>1, Zenon DEF SwitchTypeOK, DeactivateCache
        <3> QED BY <2>1, <3>1 DEF SwitchTypeOK, DeactivateCache
    <2> QED BY <2>1, Zenon DEF SwitchTypeOK, AdminStep, AdminEnd, ActivateInsert, ActivateCache, DeactivateUpdate
<1>6. call' = call /\ leaked' = leaked
    BY Zenon DEF AdminStep, AdminEnd, ActivateInsert, ActivateCache, DeactivateUpdate, DeactivateCache
<1> QED BY <1>1, <1>2, <1>4, <1>5, <1>6, ZenonT(30) DEF SwitchTypeOK

\* Every step of a call keeps the types.
LEMMA CallType ==
    ASSUME SwitchTypeOK, NEW c \in Attempts, CheckCache(c) \/ CallEnd(c)
    PROVE  SwitchTypeOK'
<1>1. cache' \in {"none", "0", "1"} /\ causes' \in SUBSET {"error", "stale"}
    BY ZenonT(30) DEF SwitchTypeOK, CheckCache, CallEnd, FindInDb, FillCache, cache_kill_switch
<1>2. call' \in [Attempts -> [pc : {"idle", "find", "fill"}, found : {"none", "0", "1"},
                           on : SUBSET Ids]]
    <2>1. On \in SUBSET Ids BY ZenonT(30) DEF On
    <2>2. CASE CheckCache(c)
        <3> DEFINE F == [pc |-> "find", found |-> "none", on |-> On]
        <3>1. /\ IdleCall \in [pc : {"idle", "find", "fill"}, found : {"none", "0", "1"},
                                on : SUBSET Ids]
              /\ F \in [pc : {"idle", "find", "fill"}, found : {"none", "0", "1"},
                         on : SUBSET Ids]
            BY <2>1, Zenon DEF IdleCall
        <3>2. call' = [call EXCEPT ![c] = IdleCall] \/ call' = [call EXCEPT ![c] = F]
            BY <2>2, Zenon DEF CheckCache, Decide
        <3> HIDE DEF F
        <3> QED BY <3>1, <3>2, ZenonT(30) DEF SwitchTypeOK
    <2>3. CASE FindInDb(c)
        BY <2>3 DEF SwitchTypeOK, FindInDb, Decide, IdleCall, Found
    <2>4. CASE FillCache(c)
        BY <2>4, Zenon DEF SwitchTypeOK, FillCache, Decide, IdleCall
    <2> QED BY <2>2, <2>3, <2>4 DEF CallEnd
<1>3. \A d \in Attempts : call'[d].pc = "fill" => call'[d].found # "none"
    BY DEF SwitchTypeOK, CheckCache, CallEnd, FindInDb, FillCache, Decide, IdleCall, Found
<1>4. leaked' \in SUBSET {"rest", "call"}
    BY DEF SwitchTypeOK, CheckCache, CallEnd, FindInDb, FillCache, Decide
<1>5. UNCHANGED <<switches, admin, answered>>
    BY Zenon DEF CheckCache, CallEnd, FindInDb, FillCache
<1> QED BY <1>1, <1>2, <1>3, <1>4, <1>5, ZenonT(30) DEF SwitchTypeOK

\* Every step keeps the types.
LEMMA StepSwitchType == SwitchTypeOK /\ [SwitchNext]_switchVars => SwitchTypeOK'
<1> SUFFICES ASSUME SwitchTypeOK, [SwitchNext]_switchVars PROVE SwitchTypeOK' OBVIOUS
<1>1. CASE CacheExpires BY <1>1, Zenon DEF SwitchTypeOK, CacheExpires
<1>2. CASE RestRequest BY <1>2, Zenon DEF SwitchTypeOK, RestRequest
<1>3. CASE UNCHANGED switchVars BY <1>3, Zenon DEF SwitchTypeOK, switchVars
<1> QED BY <1>1, <1>2, <1>3, AdminType, CallType, ZenonT(30) DEF SwitchNext

-------------------------------------------------------------------------------

\* A step that leaves the documents and the admins alone cannot disturb OffOnce.
LEMMA OffOnceKept ==
    ASSUME OffOnce, UNCHANGED <<switches, admin, answered>>
    PROVE  OffOnce'
<1> QED BY Zenon DEF OffOnce, Switching

\* Whoever is about to be, or was, answered names a switch.
LEMMA SwitchNamed ==
    ASSUME SwitchTypeOK
    PROVE  /\ \A a \in Switching : a \in Admins /\ admin[a].id \in Ids
           /\ \A p \in answered : p[2] \in Ids
<1>1. \A a \in Switching : a \in Admins /\ admin[a].pc # "idle" BY Zenon DEF Switching
<1>2. \A a \in Switching : admin[a].id \in Ids BY <1>1, Zenon DEF SwitchTypeOK
<1>3. \A p \in Admins \X Ids : p[2] \in Ids OBVIOUS
<1>4. answered \in SUBSET (Admins \X Ids) BY Zenon DEF SwitchTypeOK
<1> QED BY <1>1, <1>2, <1>3, <1>4, Zenon

\* Nor does one that adds to the switches that are off.
LEMMA OffOnceMore ==
    ASSUME SwitchTypeOK, OffOnce, \A j \in Ids : switches[j] = "off" => switches'[j] = "off",
           Switching' = Switching, \A b \in Switching : admin'[b] = admin[b],
           answered' = answered
    PROVE  OffOnce'
<1>1. \A b \in Switching' : switches'[admin'[b].id] = "off" BY SwitchNamed, Zenon DEF OffOnce
<1>2. \A p \in answered' : switches'[p[2]] = "off" BY SwitchNamed, Zenon DEF OffOnce
<1>3. ASSUME NEW b \in Switching, NEW c \in Switching, admin'[b].id = admin'[c].id
      PROVE  b = c
    <2>1. admin[b].id = admin[c].id BY <1>3, Zenon
    <2> QED BY <2>1, Zenon DEF OffOnce
<1>4. \A b \in Switching' : \A p \in answered' : p[2] # admin'[b].id BY ZenonT(30) DEF OffOnce
<1> QED BY <1>1, <1>2, <1>3, <1>4, Zenon DEF OffOnce

\* "off" is final, and nobody is answered twice for one switch.
LEMMA StepOffOnce == SwitchTypeOK /\ OffOnce /\ [SwitchNext]_switchVars => OffOnce'
<1> SUFFICES ASSUME SwitchTypeOK, OffOnce, [SwitchNext]_switchVars PROVE OffOnce' OBVIOUS
<1>0. /\ \A k : k \in Ids => k \in DOMAIN switches
      /\ DOMAIN admin = Admins
    BY Zenon DEF SwitchTypeOK
<1>1. ASSUME NEW a \in Admins, ActivateInsert(a) PROVE OffOnce'
    <2>1. PICK k \in Unused : /\ switches' = [switches EXCEPT ![k] = "inserted"]
                              /\ admin' = [admin EXCEPT ![a] = [pc |-> "cache_on", id |-> k]]
        BY <1>1, Zenon DEF ActivateInsert
    <2>2. \A j \in Ids : switches[j] = "off" => switches'[j] = "off"
        BY <2>1, ZenonT(30) DEF SwitchTypeOK, Unused
    <2>3. admin[a].pc # "cache_off" /\ admin'[a].pc # "cache_off"
        <3>1. admin[a] = [pc |-> "idle", id |-> 0] BY <1>1, Zenon DEF ActivateInsert, IdleAdmin
        <3>2. admin'[a] = [pc |-> "cache_on", id |-> k] BY <1>0, <2>1, ZenonT(30)
        <3> QED BY <3>1, <3>2
    <2>4. \A b \in Admins : b # a => admin'[b] = admin[b] BY <1>0, <2>1, ZenonT(30)
    <2>5. Switching' = Switching BY <2>3, <2>4, ZenonT(30) DEF Switching
    <2>6. \A b \in Switching : admin'[b] = admin[b] BY <2>3, <2>4, ZenonT(30) DEF Switching
    <2>7. answered' = answered BY <1>1, ZenonT(30) DEF ActivateInsert
    <2> QED BY <2>2, <2>5, <2>6, <2>7, OffOnceMore, ZenonT(30)
<1>2. ASSUME NEW a \in Admins, ActivateCache(a) PROVE OffOnce'
    <2>1. \A j \in Ids : switches[j] = "off" => switches'[j] = "off"
        BY <1>2, ZenonT(30) DEF SwitchTypeOK, ActivateCache
    <2>2. Switching' = Switching /\ \A b \in Switching : admin'[b] = admin[b]
        BY <1>2, ZenonT(30) DEF SwitchTypeOK, Switching, ActivateCache, IdleAdmin
    <2>3. answered' = answered BY <1>2, ZenonT(30) DEF ActivateCache
    <2> QED BY <2>1, <2>2, <2>3, OffOnceMore, ZenonT(30)
<1>3. ASSUME NEW a \in Admins, DeactivateUpdate(a) PROVE OffOnce'
    <2>1. PICK k \in InDb : /\ switches' = [switches EXCEPT ![k] = "off"]
                            /\ admin' = [admin EXCEPT ![a] = [pc |-> "cache_off", id |-> k]]
        BY <1>3, Zenon DEF DeactivateUpdate, Deactivatable
    <2>2. k \in Ids /\ switches[k] # "off" BY ZenonT(30) DEF InDb
    <2>3. admin[a].pc # "cache_off" /\ admin'[a].id = k
        <3>1. admin[a] = [pc |-> "idle", id |-> 0] BY <1>3, Zenon DEF DeactivateUpdate, IdleAdmin
        <3>2. admin'[a] = [pc |-> "cache_off", id |-> k] BY <1>0, <2>1, ZenonT(30)
        <3> QED BY <3>1, <3>2
    <2>4. \A b \in Admins : b # a => admin'[b] = admin[b] BY <1>0, <2>1, ZenonT(30)
    <2>5. a \notin Switching /\ \A b \in Switching : b # a /\ admin'[b] = admin[b]
        BY <2>3, <2>4, ZenonT(30) DEF Switching
    <2>6. \A b \in Switching' : b = a \/ b \in Switching
        BY <2>4, ZenonT(30) DEF Switching
    <2>8. switches'[k] = "off" BY <1>0, <2>1, <2>2, ZenonT(30)
    <2>9. \A j \in Ids : switches[j] = "off" => switches'[j] = "off"
        BY <1>0, <2>1, ZenonT(30)
    <2>10. answered' = answered BY <1>3, ZenonT(30) DEF DeactivateUpdate
    <2>11. \A b \in Switching' : switches'[admin'[b].id] = "off"
        BY <2>3, <2>5, <2>6, <2>8, <2>9, SwitchNamed, ZenonT(30) DEF OffOnce
    <2>12. \A p \in answered' : switches'[p[2]] = "off"
        BY <2>9, <2>10, SwitchNamed, ZenonT(30) DEF OffOnce
    <2>13. \A b \in Switching : admin[b].id # k BY <2>2, ZenonT(30) DEF OffOnce
    <2>14. \A b, c \in Switching' : admin'[b].id = admin'[c].id => b = c
        BY <2>3, <2>5, <2>6, <2>13, ZenonT(30) DEF OffOnce
    <2>15. \A b \in Switching' : \A p \in answered' : p[2] # admin'[b].id
        <3>1. \A p \in answered : p[2] # k BY <2>2, ZenonT(30) DEF OffOnce
        <3> QED BY <2>3, <2>5, <2>6, <2>10, <3>1, ZenonT(30) DEF OffOnce
    <2> QED BY <2>11, <2>12, <2>14, <2>15, ZenonT(30) DEF OffOnce
<1>4. ASSUME NEW a \in Admins, DeactivateCache(a) PROVE OffOnce'
    <2>1. a \in Switching BY <1>4, ZenonT(30) DEF Switching, DeactivateCache
    <2>2. admin'[a].pc # "cache_off" /\ \A b \in Admins : b # a => admin'[b] = admin[b]
        BY <1>0, <1>4, ZenonT(30) DEF DeactivateCache, IdleAdmin
    <2>3. \A b \in Switching' : b \in Switching /\ b # a /\ admin'[b] = admin[b]
        BY <2>2, ZenonT(30) DEF Switching
    <2>4. answered' = answered \cup {<<a, admin[a].id>>} /\ switches' = switches
        BY <1>4, ZenonT(30) DEF DeactivateCache
    <2>5. \A p \in answered' : p \in answered \/ p[2] = admin[a].id BY <2>4
    <2>6. \A b \in Switching' : switches'[admin'[b].id] = "off"
        BY <2>3, <2>4, ZenonT(30) DEF OffOnce
    <2>7. \A p \in answered' : switches'[p[2]] = "off"
        BY <2>1, <2>4, <2>5, ZenonT(30) DEF OffOnce
    <2>8. \A b, c \in Switching' : admin'[b].id = admin'[c].id => b = c
        BY <2>3, ZenonT(30) DEF OffOnce
    <2>9. ASSUME NEW b \in Switching', NEW p \in answered' PROVE p[2] # admin'[b].id
        <3>1. b \in Switching /\ b # a /\ admin'[b] = admin[b] BY <2>3, Zenon
        <3>2. admin[b].id # admin[a].id BY <2>1, <3>1, Zenon DEF OffOnce
        <3>3. CASE p \in answered BY <3>1, <3>3, Zenon DEF OffOnce
        <3>4. CASE p[2] = admin[a].id BY <3>1, <3>2, <3>4, Zenon
        <3> QED BY <2>5, <3>3, <3>4, Zenon
    <2> QED BY <2>6, <2>7, <2>8, <2>9, ZenonT(30) DEF OffOnce
<1>5. CASE CacheExpires \/ RestRequest BY <1>5, OffOnceKept, ZenonT(30) DEF CacheExpires, RestRequest
<1>6. ASSUME NEW c \in Attempts, CheckCache(c) \/ CallEnd(c) PROVE OffOnce'
    BY <1>6, OffOnceKept, ZenonT(30) DEF CheckCache, CallEnd, FindInDb, FillCache
<1>7. CASE UNCHANGED switchVars BY <1>7, OffOnceKept, ZenonT(30) DEF switchVars
<1> QED BY <1>1, <1>2, <1>3, <1>4, <1>5, <1>6, <1>7, ZenonT(30) DEF SwitchNext, AdminStep, AdminEnd

\* Two admins answered for one switch are one: the next answer is for another.
LEMMA StepDeactivated ==
    SwitchTypeOK /\ OffOnce /\ DeactivatedOnce /\ [SwitchNext]_switchVars => DeactivatedOnce'
<1> SUFFICES ASSUME SwitchTypeOK, OffOnce, DeactivatedOnce, [SwitchNext]_switchVars PROVE DeactivatedOnce' OBVIOUS
<1>1. ASSUME NEW a \in Admins, DeactivateCache(a) PROVE DeactivatedOnce'
    <2>1. a \in Switching BY <1>1, ZenonT(30) DEF Switching, DeactivateCache
    <2>2. answered' = answered \cup {<<a, admin[a].id>>} BY <1>1 DEF DeactivateCache
    <2> QED BY <2>1, <2>2 DEF OffOnce, DeactivatedOnce
<1>2. CASE answered' = answered BY <1>2 DEF DeactivatedOnce
<1> QED BY <1>1, <1>2, ZenonT(30)
        DEF SwitchNext, switchVars, CacheExpires, RestRequest, AdminStep, AdminEnd, ActivateInsert, ActivateCache,
            DeactivateUpdate, CheckCache, CallEnd, FindInDb, FillCache

-------------------------------------------------------------------------------

\* A switch that is on is in the database.
LEMMA OnInDb == On \subseteq InDb
<1> QED BY Zenon DEF On, InDb

\* Without a cause the cache does not say "0" while a switch is on, and no call
\* gets in.
LEMMA StepCacheAgrees == SwitchTypeOK /\ CacheAgrees /\ [SwitchNext]_switchVars => CacheAgrees'
<1> SUFFICES ASSUME SwitchTypeOK, CacheAgrees, [SwitchNext]_switchVars, causes' = {}
             PROVE  "call" \notin leaked' /\ (On' # {} => cache' # "0")
    BY DEF CacheAgrees
<1>0. causes = {} /\ "call" \notin leaked /\ (On # {} => cache # "0")
    <2>1. causes \in SUBSET causes'
        BY Zenon DEF SwitchNext, switchVars, CacheExpires, RestRequest, AdminStep, AdminEnd, ActivateInsert,
               ActivateCache, DeactivateUpdate, DeactivateCache, CheckCache, CallEnd, FindInDb,
               FillCache, CacheActivation, cache_kill_switch
    <2> QED BY <2>1 DEF CacheAgrees
<1>1. ASSUME NEW a \in Admins, ActivateInsert(a) \/ DeactivateUpdate(a)
      PROVE  "call" \notin leaked' /\ (On' # {} => cache' # "0")
    <2>1. On' \in SUBSET On
        BY <1>1, ZenonT(30) DEF SwitchTypeOK, On, ActivateInsert, DeactivateUpdate
    <2> QED BY <1>0, <1>1, <2>1, Zenon DEF ActivateInsert, DeactivateUpdate
<1>2. ASSUME NEW a \in Admins, ActivateCache(a)
      PROVE  "call" \notin leaked' /\ (On' # {} => cache' # "0")
    BY <1>0, <1>2, Zenon DEF ActivateCache, CacheActivation, cache_kill_switch
<1>3. ASSUME NEW a \in Admins, DeactivateCache(a)
      PROVE  "call" \notin leaked' /\ (On' # {} => cache' # "0")
    <2>1. InDb = {} BY <1>3, Zenon DEF DeactivateCache, cache_kill_switch
    <2>2. On' = {} BY <1>3, <2>1, OnInDb, Zenon DEF DeactivateCache, On
    <2> QED BY <1>0, <1>3, <2>2, Zenon DEF DeactivateCache
<1>4. ASSUME NEW c \in Attempts, CheckCache(c)
      PROVE  "call" \notin leaked' /\ (On' # {} => cache' # "0")
    <2>1. On' = On /\ cache' = cache BY <1>4, Zenon DEF CheckCache, On
    <2>2. "call" \notin leaked' BY <1>0, <1>4, Zenon DEF SwitchTypeOK, CheckCache, Decide
    <2> QED BY <1>0, <2>1, <2>2, Zenon
<1>5. ASSUME NEW c \in Attempts, FindInDb(c)
      PROVE  "call" \notin leaked' /\ (On' # {} => cache' # "0")
    <2>1. On' = On /\ cache' = cache BY <1>5 DEF FindInDb, On
    <2>2. leaked' = leaked BY <1>5, Zenon DEF FindInDb
    <2> QED BY <1>0, <2>1, <2>2, ZenonT(30)
<1>6. ASSUME NEW c \in Attempts, FillCache(c)
      PROVE  "call" \notin leaked' /\ (On' # {} => cache' # "0")
    <2>1. On' = On BY <1>6, Zenon DEF FillCache, On
    <2>2. cache' = call[c].found /\ (call[c].found = "0" => InDb = {})
        BY <1>6, Zenon DEF FillCache, cache_kill_switch
    <2>3. On # {} => call[c].found # "0" BY <2>2, OnInDb, Zenon
    <2>4. call[c].found \in {"0", "1"} BY <1>6, Zenon DEF SwitchTypeOK, FillCache
    <2>5. "call" \notin leaked' BY <1>0, <1>6, <2>3, <2>4, ZenonT(30) DEF FillCache, Decide
    <2> QED BY <2>1, <2>2, <2>3, <2>5, ZenonT(30)
<1>7. CASE CacheExpires \/ RestRequest \/ UNCHANGED switchVars
    BY <1>0, <1>7, ZenonT(30) DEF CacheExpires, RestRequest, switchVars, On
<1> QED BY <1>1, <1>2, <1>3, <1>4, <1>5, <1>6, <1>7, ZenonT(30) DEF SwitchNext, AdminStep, AdminEnd, CallEnd

-------------------------------------------------------------------------------

\* Type correctness of the kill switches' documents, cache and requests.
THEOREM SwitchesTyped == SwitchSpec => []SwitchTypeOK
<1> QED BY InitSwitchType, StepSwitchType, PTL DEF SwitchSpec

\* find_one_and_update with its filter on active lets one admin deactivate a
\* switch, however many try together.
THEOREM OneDeactivation == SwitchSpec => []DeactivatedOnce
<1>1. SwitchInit => OffOnce /\ DeactivatedOnce
    BY DEF SwitchInit, OffOnce, DeactivatedOnce, Switching, IdleAdmin
<1> QED BY InitSwitchType, StepSwitchType, <1>1, StepOffOnce, StepDeactivated, PTL DEF SwitchSpec

\* is_active refuses every call while a switch is on, unless a command failed
\* or a stale "0" was cached: an expired key or a racing activation is no gap.
THEOREM OnlyFaultsLetCallsIn == SwitchSpec => []CallsRefused
<1>1. SwitchInit => CacheAgrees BY DEF SwitchInit, CacheAgrees, On
<1>2. CacheAgrees => CallsRefused BY DEF CacheAgrees, CallsRefused
<1> QED BY InitSwitchType, StepSwitchType, <1>1, StepCacheAgrees, <1>2, PTL DEF SwitchSpec

===============================================================================
