----------------------------- MODULE PortalSession -----------------------------
(***************************************************************************)
(* The operators' portal for ONE user: the endpoints of auth_portal.py     *)
(* with PortalSessionManager over the portal_sessions collection, the      *)
(* cookies of the user's browsers, the login limit of one address, and the *)
(* audited admin requests that a signed-in browser makes.                  *)
(***************************************************************************)
EXTENDS AuditTrail

CONSTANTS
    Browsers,         \* each may have several requests in flight
    max_concurrent,   \* _DEFAULT_MAX_SESSIONS
    max_attempts,     \* login attempts per address and window
    portal_roles,     \* the user's roles
    client_roles,     \* the roles in the token of a client of the API
    MaxSessions       \* bound: sessions created

ASSUME PortalAssumption ==
    max_concurrent \in Nat \ {0} /\ max_attempts \in Nat /\ MaxSessions \in Nat \ {0}

VARIABLES
    family,      \* bound: the requests of a behaviour concern the login, the sessions or
                 \* the resources, which share only what Init grants the latter two
    user,        \* the document in portal_users: mfa_enabled, and how the secret in
                 \* mfa_secret_enc is encrypted ("none": there is none)
    sessions,    \* portal_sessions, in order of creation: state, the token it was
                 \* rotated from (0: a login)
    browser,     \* challenge: holds a challenge token; access: its access cookie is
                 \* there; refresh: the session of its refresh cookie (0: none)
    attempts,    \* agentoe:login_attempts:{ip}, up to the limit
    ttl,         \* that key has an expiry
    signedOut,   \* history: sessions created before the last logout was carried out
    races        \* history: "rotate", "logout": such requests overlapped

portalVars == <<family, user, sessions, browser, attempts, ttl, signedOut, races>>
vars == <<auditVars, portalVars>>

Ids == 1..MaxSessions
Created == {s \in Ids : sessions[s].state # "none"}
Unrevoked == {s \in Created : sessions[s].state # "revoked"}     \* expired ones too
Live == {s \in Ids : sessions[s].state = "live"}
Last == Cardinality(Created)
Unused == [state |-> "none", from |-> 0]
SignedOut == [challenge |-> FALSE, access |-> FALSE, refresh |-> 0]
In(pcs) == {r \in Requests : req[r].pc \in pcs}
Race(kind, overlap) == races' = races \cup (IF overlap THEN {kind} ELSE {})

\* The user is as seed_portal_admin.py left it, or was enrolled by other means, and
\* logs in; or has given the password in every browser; or is signed in and works.
Init ==
    /\ AuditInit /\ attempts = 0 /\ ttl = FALSE /\ signedOut = 0 /\ races = {}
    /\ \/ /\ family \in {"login", "sessions"}
          /\ user \in {[mfa |-> TRUE, secret |-> "envkey"], [mfa |-> TRUE, secret |-> "none"],
                       [mfa |-> FALSE, secret |-> "none"]}
          /\ sessions = [s \in Ids |-> Unused]
          /\ browser = [b \in Browsers |-> [SignedOut EXCEPT !.challenge = family = "sessions"]]
       \/ /\ family = "resources"
          /\ user = [mfa |-> TRUE, secret |-> "envkey"]
          /\ sessions = [s \in Ids |-> IF s = 1 THEN [state |-> "live", from |-> 0] ELSE Unused]
          /\ browser = [b \in Browsers |-> [SignedOut EXCEPT !.access = TRUE, !.refresh = 1]]

-------------------------------------------------------------------------------
(* The tokens of core/auth.py and the roles they carry.                     *)

PORTAL_ISSUER == "agentoe-portal"
PLATFORM_ADMIN_ROLES == {"platform_admin", "sre_admin", "super_admin", "portal:admin"}
create_access_token(sub, roles, issuer) == [sub |-> sub, roles |-> roles, iss |-> issuer]
_create_challenge_token(id) ==
    create_access_token(<<"challenge", id>>, {"portal:mfa_challenge"}, PORTAL_ISSUER)

\* The TenantContext that a token stands for.
get_current_tenant(token) == [client_id |-> token.sub, roles |-> token.roles, issuer |-> token.iss]

require_roles(tenant, required_roles) == tenant.roles \cap required_roles # {}

require_portal_role(tenant, required_roles) ==
    /\ tenant.issuer = PORTAL_ISSUER
    /\ tenant.roles \cap (PLATFORM_ADMIN_ROLES \cup required_roles) # {}

Viewer == {"portal:viewer", "portal:operator", "portal:admin"}
Operator == {"portal:operator", "portal:admin"}
Administrator == {"admin", "super_admin"}

\* PortalCookieMiddleware: the access cookie becomes the bearer token.
MayUse(b, required_roles) ==
    /\ browser[b].access
    /\ require_portal_role(
           get_current_tenant(create_access_token("user", portal_roles, PORTAL_ISSUER)),
           required_roles)

Client == get_current_tenant(create_access_token("client", client_roles, "agentoe-api"))

Opens(r, b, op, pc) ==
    /\ req[r].pc = "idle"
    /\ family = (CASE op = "login" -> "login" [] op = "enroll" -> "resources" [] OTHER -> "sessions")
    /\ req' = [req EXCEPT ![r] = [Idle EXCEPT !.op = op, !.pc = pc, !.browser = b]]

-------------------------------------------------------------------------------
(* portal_login: _check_login_rate_limit is INCR, then EXPIRE for the first. *)

\* The limit answers 429; a Redis error lets the login pass.
LoginIncr(r, b) ==
    /\ \/ /\ attempts < max_attempts /\ attempts' = attempts + 1 /\ NoFault
          /\ Opens(r, b, "login", IF attempts = 0 THEN "expire" ELSE "password")
       \/ Opens(r, b, "login", "password") /\ Fault("redis") /\ UNCHANGED attempts
    /\ UNCHANGED <<family, resources, user, sessions, browser, ttl, signedOut, races>>

LoginExpire(r) ==
    /\ req[r].pc = "expire" /\ Step(r, "password")
    /\ \/ ttl' = TRUE /\ NoFault
       \/ Fault("redis") /\ UNCHANGED ttl
    /\ UNCHANGED <<family, resources, user, sessions, browser, attempts, signedOut, races>>

WindowEnds ==
    /\ ttl /\ attempts' = 0 /\ ttl' = FALSE
    /\ UNCHANGED <<family, auditVars, user, sessions, browser, signedOut, races>>

\* A challenge token either way; a wrong password is audited.
LoginPassword(r) ==
    /\ req[r].pc = "password" /\ NoFault
    /\ \/ /\ browser' = [browser EXCEPT ![req[r].browser] = [@ EXCEPT !.challenge = TRUE]]
          /\ Finish(r)
       \/ Step(r, "log") /\ UNCHANGED browser
    /\ UNCHANGED <<family, resources, user, sessions, attempts, ttl, signedOut, races>>

-------------------------------------------------------------------------------
(* portal_mfa_verify up to the session.  _decrypt_mfa_secret raises without  *)
(* a secret and when KMS fails (500); a wrong code is audited (401).         *)

_decode_challenge_token(b) == browser[b].challenge

\* Of either kind; a failure of KMS is answered 500 and changes nothing.
_decrypt_mfa_secret == user.secret \in {"kms", "envkey"}

VerifyCode(r, b) ==
    /\ _decode_challenge_token(b) /\ user.mfa /\ _decrypt_mfa_secret /\ NoFault
    /\ Opens(r, b, "verify", "count") \/ Opens(r, b, "verify_failed", "log")
    /\ UNCHANGED <<resources, portalVars>>

\* KMS answers, or not.
kms_generate_data_key(kms) == IF kms THEN NoFault ELSE Fault("kms")

\* When KMS fails the key of the environment is used.
_encrypt_mfa_secret(kms) == IF kms THEN "kms" ELSE "envkey"

\* portal_mfa_enroll: a new secret is stored and MFA waits for a confirmation. The
\* role of a challenge token, all that a user without MFA has, is refused.
Enroll(r, b) ==
    /\ MayUse(b, Viewer) /\ Opens(r, b, "enroll", "log")
    /\ \E kms \in BOOLEAN : /\ kms_generate_data_key(kms)
                            /\ user' = [mfa |-> FALSE, secret |-> _encrypt_mfa_secret(kms)]
    /\ UNCHANGED <<family, resources, sessions, browser, attempts, ttl, signedOut, races>>

-------------------------------------------------------------------------------
(* PortalSessionManager.create_session.                                     *)

TooMany(n) == n >= max_concurrent

CountSessions(r) ==
    /\ req[r].pc = "count"
    /\ req' = [req EXCEPT ![r] =
                  [@ EXCEPT !.count = Cardinality(Unrevoked),
                            !.pc = IF TooMany(Cardinality(Unrevoked)) THEN "find" ELSE "insert"]]
    /\ NoFault /\ UNCHANGED <<resources, portalVars>>

\* The count - max_concurrent + 1 oldest.
FindOldest(r) ==
    /\ req[r].pc = "find"
    /\ req' = [req EXCEPT ![r] =
                  [@ EXCEPT !.pc = "evict",
                            !.oldest = {s \in Unrevoked :
                                Cardinality({t \in Unrevoked : t < s})
                                    <= req[r].count - max_concurrent}]]
    /\ NoFault /\ UNCHANGED <<resources, portalVars>>

Revoke(S) == sessions' = [s \in Ids |-> IF s \in S THEN [sessions[s] EXCEPT !.state = "revoked"]
                                                   ELSE sessions[s]]

EvictOldest(r) ==
    /\ req[r].pc = "evict" /\ Revoke(req[r].oldest)
    /\ req' = [req EXCEPT ![r] = [@ EXCEPT !.pc = "insert", !.oldest = {}]]
    /\ NoFault
    /\ UNCHANGED <<family, resources, user, browser, attempts, ttl, signedOut, races>>

\* The token of the new session goes into the cookies with the answer; a login is
\* audited, a rotation is not.
InsertSession(r) ==
    /\ req[r].pc = "insert" /\ Last < MaxSessions
    /\ sessions' = [sessions EXCEPT ![Last + 1] =
           [state |-> "live", from |-> IF req[r].op = "refresh" THEN req[r].token ELSE 0]]
    /\ req' = [req EXCEPT ![r] =
                  [@ EXCEPT !.pc = IF req[r].op = "refresh" THEN "cookies" ELSE "log",
                            !.token = Last + 1, !.count = 0]]
    /\ NoFault
    /\ UNCHANGED <<family, resources, user, browser, attempts, ttl, signedOut, races>>

SetCookies(r) ==
    /\ req[r].pc = "cookies" /\ Finish(r)
    /\ browser' = [browser EXCEPT ![req[r].browser] =
                      [@ EXCEPT !.access = TRUE, !.refresh = req[r].token]]
    /\ NoFault
    /\ UNCHANGED <<family, resources, user, sessions, attempts, ttl, signedOut, races>>

-------------------------------------------------------------------------------
(* portal_refresh: the user is taken from the access cookie, which the       *)
(* browser drops when the token expires; then rotate.                        *)

Usable(s) == sessions[s].state = "live"

\* find: a token that no longer matches is answered 401 (the exception discards
\* the response on which _clear_cookies was called).
_extract_user_id_from_expired_token(b) == browser[b].access

RotateFind(r, b) ==
    /\ _extract_user_id_from_expired_token(b) /\ browser[b].refresh # 0 /\ Usable(browser[b].refresh)
    /\ family = "sessions" /\ req[r].pc = "idle" /\ NoFault
    /\ req' = [req EXCEPT ![r] = [Idle EXCEPT !.op = "refresh", !.pc = "revoke", !.browser = b,
                                              !.token = browser[b].refresh]]
    /\ Race("rotate", \E q \in Requests : req[q].pc = "revoke" /\ req[q].token = browser[b].refresh)
    /\ UNCHANGED <<family, resources, user, sessions, browser, attempts, ttl, signedOut>>

\* Mutant: the old token is left to its expiry.
RevokedByRotate_None(r) == {}
RevokedByRotate(r) == {req[r].token}

RotateRevoke(r) ==
    /\ req[r].pc = "revoke" /\ Step(r, "count") /\ Revoke(RevokedByRotate(r))
    /\ NoFault
    /\ UNCHANGED <<family, resources, user, browser, attempts, ttl, signedOut, races>>

-------------------------------------------------------------------------------
(* portal_logout: revoke_all, the event, the cookies of this browser.        *)

\* Mutant: only the session of the browser is revoked.
RevokedByLogout_Own(b) == {browser[b].refresh} \cap Unrevoked
RevokedByLogout(b) == Unrevoked

Logout(r, b) ==
    /\ _extract_user_id_from_expired_token(b) /\ Opens(r, b, "logout", "log")
    /\ Revoke(RevokedByLogout(b)) /\ signedOut' = Last
    /\ Race("logout", \E q \in Requests : req[q].op = "refresh" /\ req[q].pc # "cookies")
    /\ NoFault
    /\ UNCHANGED <<family, resources, user, browser, attempts, ttl>>

\* Without an access cookie nothing is revoked, only the cookies go.
LogoutUnknown(b) ==
    /\ family = "sessions" /\ ~_extract_user_id_from_expired_token(b) /\ browser[b].refresh # 0
    /\ browser' = [browser EXCEPT ![b] = [@ EXCEPT !.refresh = 0]]
    /\ UNCHANGED <<family, auditVars, user, sessions, attempts, ttl, signedOut, races>>

\* What follows the event: the cookies of a login or a logout, else the answer.
AfterEvent(r) ==
    CASE req[r].op = "logout" -> [req[r] EXCEPT !.pc = "clear", !.stored = FALSE]
      [] req[r].op = "verify" -> [req[r] EXCEPT !.pc = "cookies", !.stored = FALSE]
      [] OTHER -> Idle

ClearCookies(r) ==
    /\ req[r].pc = "clear" /\ Finish(r)
    /\ browser' = [browser EXCEPT ![req[r].browser] =
                      [@ EXCEPT !.access = FALSE, !.refresh = 0]]
    /\ NoFault
    /\ UNCHANGED <<family, resources, user, sessions, attempts, ttl, signedOut, races>>

-------------------------------------------------------------------------------
(* The other requests, time, and the death of a request between two commands. *)

\* POST /auth/token, audited.
get_token(r) ==
    /\ family = "resources" /\ req[r].pc = "idle"
    /\ req' = [req EXCEPT ![r] = [Idle EXCEPT !.op = "token", !.pc = "log"]]
    /\ NoFault /\ UNCHANGED <<resources, portalVars>>

\* Configuration and silences are for signed-in operators, the rest for clients.
PortalAdminRequest(r, e) ==
    /\ family = "resources" /\ AdminRequest(r, e)
    /\ IF e.kind \in {"config", "silence"} THEN \E b \in Browsers : MayUse(b, Operator)
       ELSE IF e.kind = "tenant" THEN require_roles(Client, {"super_admin"})
       ELSE e.op = "test" \/ require_roles(Client, Administrator)
    /\ UNCHANGED portalVars

Audited(r) ==
    /\ AdminSteps(r) \/ EmitPublish(r, AfterEvent(r))
    /\ UNCHANGED portalVars

\* The cookies run out with their tokens, a session with its expires_at.
AccessExpires(b) ==
    /\ family = "sessions" /\ browser[b].access
    /\ browser' = [browser EXCEPT ![b] = [@ EXCEPT !.access = FALSE]]
    /\ UNCHANGED <<family, auditVars, user, sessions, attempts, ttl, signedOut, races>>

SessionExpires(s) ==
    /\ family = "sessions" /\ sessions[s].state = "live"
    /\ sessions' = [sessions EXCEPT ![s].state = "expired"]
    /\ UNCHANGED <<family, auditVars, user, browser, attempts, ttl, signedOut, races>>

Dies(r) ==
    /\ req[r].pc # "idle" /\ Finish(r) /\ Fault("crash")
    /\ UNCHANGED <<resources, portalVars>>

SessionSteps(r) ==
    \/ LoginExpire(r) \/ LoginPassword(r)
    \/ CountSessions(r) \/ FindOldest(r) \/ EvictOldest(r) \/ InsertSession(r) \/ SetCookies(r)
    \/ RotateRevoke(r) \/ ClearCookies(r)

Next ==
    \/ \E r \in Requests :
          \/ SessionSteps(r) \/ Audited(r) \/ get_token(r) \/ Dies(r)
          \/ \E e \in Endpoints : PortalAdminRequest(r, e)
          \/ \E b \in Browsers : \/ LoginIncr(r, b) \/ VerifyCode(r, b) \/ Enroll(r, b)
                                 \/ RotateFind(r, b) \/ Logout(r, b)
    \/ \E b \in Browsers : LogoutUnknown(b) \/ AccessExpires(b)
    \/ WindowEnds \/ \E s \in Ids : SessionExpires(s)

Spec == Init /\ [][Next]_vars

-------------------------------------------------------------------------------

\* A refresh token is good for one successor, unless two requests of the browser
\* found it before either revoked it (update_one does not look at revoked again).
OneSuccessor ==
    "rotate" \notin races =>
        \A s, t \in Created : sessions[s].from = sessions[t].from /\ sessions[s].from # 0 => s = t

\* After a logout no session of before it is alive, nor one rotated from such a
\* session, unless a rotation was under way when revoke_all ran.
LogoutHolds ==
    \A s \in Live : s > signedOut /\ (sessions[s].from \in 1..signedOut => "logout" \in races)

===============================================================================
