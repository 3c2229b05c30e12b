------------------------------- MODULE JwksCache -------------------------------
(***************************************************************************)
(* JWKSCache (core/jwks_cache.py) and the part of get_current_tenant       *)
(* (core/auth.py) that uses it: requests of a pod look up the signing key  *)
(* of their token in the cached key set, while the identity provider       *)
(* rotates its keys and is not always there.                               *)
(***************************************************************************)
EXTENDS Naturals, FiniteSets

CONSTANTS
    Requests, NoRequest,
    Kids, NoKid,           \* NoKid: a token whose header names no key
    MaxRotations,          \* bound: changes of the published key set
    MaxFetchFaults         \* bound: fetches that fail

ASSUME JwksAssumption ==
    /\ NoRequest \notin Requests /\ NoKid \notin Kids
    /\ MaxRotations \in Nat /\ MaxFetchFaults \in Nat

VARIABLES
    request,     \* per request: where it is, the key it asks for, whether it has
                 \* missed it once, and what it knows: see Asked
    published,   \* the provider's keys
    entry,       \* _entry: its keys and whether JWKS_CACHE_TTL_SECONDS have passed
    lock,        \* _lock
    backoff,     \* the last failed fetch is less than _fail_backoff_s ago
    rotations,
    fetchFaults

jwksVars == <<request, published, entry, lock, backoff, rotations, fetchFaults>>

NoEntry == [keys |-> {}, fresh |-> FALSE, there |-> FALSE]
Entry(keys) == [keys |-> keys, fresh |-> TRUE, there |-> TRUE]

\* steady: the key has been published all the time since the request came;
\* failed: a fetch made for the request failed.
Asked(kid) == [at |-> "lookup", kid |-> kid, force |-> FALSE, missed |-> FALSE,
               failed |-> FALSE, steady |-> kid \in published]
NotYet == [at |-> "none", kid |-> NoKid, force |-> FALSE, missed |-> FALSE,
           failed |-> FALSE, steady |-> FALSE]

JwksInit ==
    /\ request = [r \in Requests |-> NotYet]
    /\ published = Kids
    /\ entry = NoEntry /\ lock = NoRequest /\ backoff = FALSE
    /\ rotations = 0 /\ fetchFaults = 0

\* The token of a request that comes in names a key, or none.
_decode_with_jwks(r) ==
    /\ request[r].at = "none"
    /\ \E kid \in Kids \cup {NoKid} : request' = [request EXCEPT ![r] = Asked(kid)]
    /\ UNCHANGED <<published, entry, lock, backoff, rotations, fetchFaults>>

-------------------------------------------------------------------------------
(* get_key.                                                                 *)

Has(e, kid) == IF kid = NoKid THEN e.keys # {} ELSE kid \in e.keys

\* A first miss may be a key published since: it is fetched once more.
FirstMiss(q, e) == e.there /\ q.kid # NoKid /\ ~q.missed

\* q is looked up in e.
Looked(q, e) ==
    IF Has(e, q.kid) THEN [q EXCEPT !.at = "accepted"]
    ELSE IF FirstMiss(q, e) THEN [q EXCEPT !.at = "wait", !.force = TRUE, !.missed = TRUE]
    ELSE [q EXCEPT !.at = "refused"]

\* _ensure_fresh, and _refresh up to its lock: the very first fetch is a forced
\* one, and the others wait out the backoff.
get_key(r) ==
    /\ request[r].at = "lookup"
    /\ request' = [request EXCEPT ![r] =
          IF entry.there /\ (entry.fresh \/ backoff) THEN Looked(@, entry)
          ELSE [@ EXCEPT !.at = "wait", !.force = ~entry.there]]
    /\ UNCHANGED <<published, entry, lock, backoff, rotations, fetchFaults>>

\* Mutant: a forced refresh, too, is content with a fresh entry.
SpareFetch_Forced(q) == entry.fresh
SpareFetch(q) == entry.fresh /\ ~q.force

\* The lock is free.  Another request may have refreshed the entry.
Locked(r) ==
    /\ request[r].at = "wait" /\ lock = NoRequest
    /\ IF SpareFetch(request[r])
       THEN /\ request' = [request EXCEPT ![r] = Looked(@, entry)]
            /\ UNCHANGED lock
       ELSE request' = [request EXCEPT ![r] = [@ EXCEPT !.at = "fetch"]] /\ lock' = r
    /\ UNCHANGED <<published, entry, backoff, rotations, fetchFaults>>

_refresh(r) ==
    /\ request[r].at = "fetch" /\ lock' = NoRequest
    /\ entry' = Entry(published)
    /\ request' = [request EXCEPT ![r] = Looked(@, Entry(published))]
    /\ UNCHANGED <<published, backoff, rotations, fetchFaults>>

\* The old entry, if there is one, serves on.
RefreshFails(r) ==
    /\ request[r].at = "fetch" /\ lock' = NoRequest
    /\ fetchFaults < MaxFetchFaults /\ fetchFaults' = fetchFaults + 1
    /\ backoff' = TRUE
    /\ request' = [request EXCEPT ![r] = [Looked(@, entry) EXCEPT !.failed = TRUE]]
    /\ UNCHANGED <<published, entry, rotations>>

-------------------------------------------------------------------------------
(* Time and the provider.                                                   *)

TtlPasses ==
    /\ entry.fresh /\ entry' = [entry EXCEPT !.fresh = FALSE]
    /\ UNCHANGED <<request, published, lock, backoff, rotations, fetchFaults>>

BackoffEnds ==
    /\ backoff /\ backoff' = FALSE
    /\ UNCHANGED <<request, published, entry, lock, rotations, fetchFaults>>

Rotate ==
    /\ rotations < MaxRotations /\ rotations' = rotations + 1
    /\ published' \in SUBSET Kids \ {{}, published}
    /\ request' = [r \in Requests |->
          [request[r] EXCEPT !.steady = @ /\ request[r].kid \in published']]
    /\ UNCHANGED <<entry, lock, backoff, fetchFaults>>

Answered(r) == request[r].at \in {"accepted", "refused"}

\* The client's next request.
Again(r) ==
    /\ Answered(r) /\ request' = [request EXCEPT ![r] = NotYet]
    /\ UNCHANGED <<published, entry, lock, backoff, rotations, fetchFaults>>

JwksStep(r) == get_key(r) \/ Locked(r) \/ _refresh(r) \/ RefreshFails(r)

JwksNext ==
    \/ TtlPasses \/ BackoffEnds \/ Rotate
    \/ \E r \in Requests : _decode_with_jwks(r) \/ JwksStep(r) \/ Again(r)

-------------------------------------------------------------------------------

\* A key rotation is followed at once: a token whose key the provider has
\* published all along is refused only if a fetch made for that very request
\* failed, however old the cached key set is and whoever else refreshed it.
RotationFollowed ==
    \A r \in Requests : request[r].at = "refused" /\ request[r].steady => request[r].failed

===============================================================================
