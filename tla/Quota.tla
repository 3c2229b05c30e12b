---------------------------------- MODULE Quota --------------------------------
(***************************************************************************)
(* The daily LLM quota of a tenant (core/quota.py): enforce_quota reads    *)
(* the two Redis counters when a turn begins, commit_usage adds to them    *)
(* when its answer is complete.  Nothing is reserved in between.           *)
(***************************************************************************)
EXTENDS Integers, FiniteSets

CONSTANTS
    Turns,                        \* turns of the tenant that may be under way together
    llm_daily_token_quota,        \* 0: unlimited, as with LLM_QUOTA_ENABLED off
    llm_daily_cost_quota_cents,   \* 0: unlimited
    policy,                       \* LLM_QUOTA_EXCEEDED_BEHAVIOR
    MaxTokens,                    \* the most tokens that a turn is counted with
    price, cent,                  \* a token costs price / cent cents
    MaxFaults                     \* bound: faults in a behaviour

ASSUME QuotaAssumption ==
    /\ IsFiniteSet(Turns) /\ llm_daily_token_quota \in Nat /\ llm_daily_cost_quota_cents \in Nat
    /\ policy \in {"fallback", "reject", "warn"}
    /\ MaxTokens \in Nat \ {0} /\ price \in Nat /\ cent \in Nat \ {0} /\ MaxFaults \in Nat

VARIABLES
    tokens,     \* quota:llm:tokens of today
    cost,       \* quota:llm:cost_cents of today
    admitted,   \* turns that passed the check and have not ended
    usage,      \* each turn: the tokens of its complete answer, until they are committed
    spent,      \* history: tokens of the answers completed and not committed before today
    faults,     \* history: kinds of fault met
    budget      \* faults that may still happen

quotaVars == <<tokens, cost, admitted, usage, spent, faults, budget>>

Fault(kind) == budget > 0 /\ budget' = budget - 1 /\ faults' = faults \cup {kind}
NoFault == UNCHANGED <<faults, budget>>

QuotaInit ==
    /\ tokens = 0 /\ cost = 0 /\ admitted = {} /\ usage = [c \in Turns |-> 0] /\ spent = 0
    /\ faults = {} /\ budget = MaxFaults

\* Mutant: > for >=.
OverTokens_OffByOne(n) == llm_daily_token_quota > 0 /\ n > llm_daily_token_quota
OverTokens(n) == llm_daily_token_quota > 0 /\ n >= llm_daily_token_quota
OverCost(n) == llm_daily_cost_quota_cents > 0 /\ n >= llm_daily_cost_quota_cents

\* The two counters are read with one MGET; when it fails they count as 0.
check_quota(t, k) == OverTokens(t) \/ OverCost(k)

enforce_quota(c) ==
    /\ c \notin admitted /\ admitted' = admitted \cup {c}
    /\ \/ (policy = "warn" \/ ~check_quota(tokens, cost)) /\ NoFault
       \/ Fault("redis") /\ ~check_quota(0, 0)
    /\ UNCHANGED <<tokens, cost, usage, spent>>

\* QuotaExceededError: graceful for the policy "fallback", else for the caller.
QuotaExceeded == policy # "warn" /\ check_quota(tokens, cost)

\* A turn gets its answer; what it is counted with is the vendor's figure or the
\* estimate, never 0.
Answer(c, n) ==
    /\ c \in admitted /\ usage[c] = 0
    /\ usage' = [usage EXCEPT ![c] = n] /\ spent' = spent + n
    /\ UNCHANGED <<tokens, cost, admitted, faults, budget>>

\* round(): to the nearest, a half to the even one.
Round(n, d) ==
    LET q == n \div d IN
    LET r == 2 * (n % d) IN
    IF r > d \/ (r = d /\ q % 2 = 1) THEN q + 1 ELSE q

_estimate_cost_cents(n) == Round(price * n, cent)

\* Mutant: the fallback's recursive stream and its caller both commit.
Committed_Twice(n) == tokens + 2 * n
Committed(n) == tokens + n

\* One pipeline of INCRBY and EXPIRE for both keys; a failure is logged only.
commit_usage(c) ==
    /\ usage[c] # 0 /\ usage' = [usage EXCEPT ![c] = 0] /\ admitted' = admitted \ {c}
    /\ \/ /\ tokens' = Committed(usage[c])
          /\ cost' = cost + _estimate_cost_cents(usage[c])
          /\ NoFault
       \/ Fault("redis") /\ UNCHANGED <<tokens, cost>>
    /\ UNCHANGED spent

\* A turn that ends without a complete answer, or before its commit, is not counted.
GivesUp(c) ==
    /\ c \in admitted /\ admitted' = admitted \ {c}
    /\ usage' = [usage EXCEPT ![c] = 0] /\ spent' = spent - usage[c]
    /\ UNCHANGED <<tokens, cost>>

\* The keys of the next day.
Midnight ==
    /\ tokens > 0 /\ tokens' = 0 /\ cost' = 0 /\ spent' = spent - tokens
    /\ UNCHANGED <<admitted, usage, faults, budget>>

-------------------------------------------------------------------------------

QuotaTypeOK ==
    /\ tokens \in Nat /\ cost \in Nat /\ spent \in Int /\ admitted \subseteq Turns
    /\ usage \in [Turns -> 0..MaxTokens] /\ \A c \in Turns : usage[c] # 0 => c \in admitted

\* How far the turns that are all let through on the same count can carry the
\* counter past the quota: less than one turn of the largest size for each turn
\* that may be under way, however many days and failures there are.
OvershootBounded ==
    llm_daily_token_quota > 0 /\ policy # "warn" /\ "redis" \notin faults =>
        tokens < llm_daily_token_quota + MaxTokens * Cardinality(Turns)

===============================================================================
