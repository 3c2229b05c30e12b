------------------------------- MODULE RateLimit -------------------------------
(***************************************************************************)
(* RateLimitMiddleware: every HTTP request is counted against its address  *)
(* and then against its tenant, each with a counter in Redis that the      *)
(* first request of a window creates and that expires a minute later.      *)
(***************************************************************************)
EXTENDS Naturals, Sequences

CONSTANTS
    Clients,             \* requests that may be in flight together
    Addresses, NoAddress,
    Tenants, NoTenant,
    RATE_LIMIT_PER_IP_PER_MIN, RATE_LIMIT_PER_TENANT_PER_MIN,
    window_seconds,      \* the time to live of a counter, in ticks
    MaxRateFaults        \* bound: failing Redis commands

ASSUME RateAssumption ==
    /\ RATE_LIMIT_PER_IP_PER_MIN \in Nat \ {0} /\ RATE_LIMIT_PER_TENANT_PER_MIN \in Nat \ {0}
    /\ window_seconds \in Nat \ {0} /\ MaxRateFaults \in Nat

limits == [ip |-> RATE_LIMIT_PER_IP_PER_MIN, tenant |-> RATE_LIMIT_PER_TENANT_PER_MIN]
Buckets == ({"ip"} \X Addresses) \cup ({"tenant"} \X Tenants)

VARIABLES
    call,        \* per request: its address, its tenant and the checks it has passed
    bucket,      \* agentoe:rl:{bucket}: requests in the current window, 0: no key.  The
                 \* script tells counts above the limit apart from none: they are one
    ttl,         \* what is left of the window
    rateFaults

rateVars == <<call, bucket, ttl, rateFaults>>

NoCall == [passed |-> 0, ip |-> NoAddress, tenant |-> NoTenant]

RateInit ==
    /\ call = [c \in Clients |-> NoCall] /\ bucket = [b \in Buckets |-> 0]
    /\ ttl = [b \in Buckets |-> 0] /\ rateFaults = 0

\* The first address of X-Forwarded-For, or the peer's; the tenant that the token
\* names, if it can be read.
_client_ip(q) == IF q.forwarded # NoAddress THEN q.forwarded ELSE q.peer
_extract_tenant_id(q) == IF q.token \in Tenants THEN q.token ELSE NoTenant

Checks == <<"ip", "tenant">>

Arrive(c) ==
    /\ call[c] = NoCall
    /\ \E q \in [forwarded : Addresses \cup {NoAddress}, peer : Addresses,
                 token : Tenants \cup {"none", "unreadable"}] :
          call' = [call EXCEPT ![c] = [@ EXCEPT !.ip = _client_ip(q),
                                                !.tenant = _extract_tenant_id(q)]]
    /\ UNCHANGED <<bucket, ttl, rateFaults>>

NextCheck(c) == Checks[call[c].passed + 1]
Key(c) == <<NextCheck(c), IF NextCheck(c) = "ip" THEN call[c].ip ELSE call[c].tenant>>

\* To the next check, or past the middleware.
Pass(c) ==
    call' = [call EXCEPT ![c] = IF @.passed + 1 = Len(Checks) THEN NoCall
                                ELSE [@ EXCEPT !.passed = @ + 1]]

\* 429.
Refuse(c) == call' = [call EXCEPT ![c] = NoCall]

\* A request without a tenant is only counted against its address.
NoTenantToCheck(c) ==
    /\ call[c] # NoCall /\ NextCheck(c) = "tenant" /\ call[c].tenant = NoTenant
    /\ Pass(c) /\ UNCHANGED <<bucket, ttl, rateFaults>>

Over(b) == limits[b[1]] + 1

\* Mutant: every request sets the expiry.
TtlAfter_EveryHit(b) == window_seconds
\* EXPIRE only with the count that creates the key.
TtlAfter(b) == IF bucket[b] = 0 THEN window_seconds ELSE ttl[b]

\* The script, run hits times: INCR and EXPIRE.
Count(b, hits) ==
    /\ bucket' = [bucket EXCEPT ![b] = IF @ + hits > Over(b) THEN Over(b) ELSE @ + hits]
    /\ ttl' = [ttl EXCEPT ![b] = TtlAfter(b)]

FaultCounted == rateFaults < MaxRateFaults /\ rateFaults' = rateFaults + 1

\* The count after the request against the limit.  The client repeats the script if
\* its answer was lost (retry_on_timeout).
rate_limit_check(c) ==
    /\ call[c] # NoCall /\ Key(c) \in Buckets
    /\ \/ Count(Key(c), 1) /\ UNCHANGED rateFaults
       \/ Count(Key(c), 2) /\ FaultCounted
    /\ IF bucket'[Key(c)] = Over(Key(c)) THEN Refuse(c) ELSE Pass(c)

\* Redis does not answer, having run the script or not: the request passes.
CheckFails(c) ==
    /\ call[c] # NoCall /\ Key(c) \in Buckets
    /\ Pass(c) /\ FaultCounted
    /\ Count(Key(c), 1) \/ UNCHANGED <<bucket, ttl>>

\* Time passes; a window that is over takes its counter along.
Tick ==
    /\ \E b \in Buckets : ttl[b] > 0
    /\ ttl' = [b \in Buckets |-> IF ttl[b] = 0 THEN 0 ELSE ttl[b] - 1]
    /\ bucket' = [b \in Buckets |-> IF ttl'[b] = 0 THEN 0 ELSE bucket[b]]
    /\ UNCHANGED <<call, rateFaults>>

RateNext ==
    \/ \E c \in Clients :
          Arrive(c) \/ NoTenantToCheck(c) \/ rate_limit_check(c) \/ CheckFails(c)
    \/ Tick

-------------------------------------------------------------------------------

\* An address or a tenant that is over its limit is let in again: the requests that
\* are refused, and those that pass at the other check, do not prolong the window,
\* however many keep coming and in whichever order they meet the two counters.
BlockEnds ==
    \A b \in Buckets : []<>(bucket[b] # Over(b))

===============================================================================
