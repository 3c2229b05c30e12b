------------------------------ MODULE PortalProofs -----------------------------
(***************************************************************************)
(* The portal: its sessions and the audit trail, for any number of         *)
(* browsers, requests in flight and sessions, and the event streams of its *)
(* pages, for any number of pods, alerts and clients.                      *)
(*                                                                         *)
(* SESSIONS AND AUDIT TRAIL.  What the four invariants say of the finished *)
(* requests depends on what the requests in flight carry from one command  *)
(* to the next: a rotation its token (RotationsCarry), a change its        *)
(* snapshot (SnapshotIsCurrent), an event whether it was stored.           *)
(***************************************************************************)
EXTENDS PortalSession, EventStream, FiniteSetTheorems, TLAPS

\* The provers a step is given to in turn unless it names one, with their time limits.
USE SMTT(30), ZenonT(30)

Pcs == {"idle", "snapshot", "write", "log", "publish", "expire", "password", "count", "find",
        "evict", "insert", "cookies", "revoke", "clear"}

RequestType ==
    [op : {"none", "create", "update", "delete", "test", "login", "verify", "verify_failed",
           "enroll", "refresh", "logout", "token"},
     kind : Kinds \cup {"none"},
     pc : Pcs,
     before : 0..None, replaced : 0..None, raced : BOOLEAN, stored : BOOLEAN,
     browser : Browsers \cup {"none"}, token : 0..MaxSessions, count : Nat, oldest : SUBSET Ids]

SessionsType == [Ids -> [state : {"none", "live", "expired", "revoked"}, from : 0..MaxSessions]]
BrowserType == [challenge : BOOLEAN, access : BOOLEAN, refresh : 0..MaxSessions]

TypeOK ==
    /\ req \in [Requests -> RequestType]
    /\ docs \in [Kinds -> 0..MaxWrites] /\ writes \in 0..MaxWrites
    /\ sessions \in SessionsType
    /\ browser \in [Browsers -> BrowserType]
    /\ signedOut \in Nat

-------------------------------------------------------------------------------

\* A change knows its kind; until another write has come between, its snapshot is
\* the document; and an event that follows no change replaced nothing.
SnapshotIsCurrent ==
    \A r \in Requests :
        /\ req[r].pc \in {"snapshot", "write"} => req[r].kind \in Kinds
        /\ req[r].pc = "snapshot" => req[r].before = None
        /\ req[r].pc = "write" /\ ~req[r].raced => req[r].before \in {None, docs[req[r].kind]}
        /\ req[r].pc \notin {"log", "publish", "cookies", "clear"} => req[r].replaced = None
        /\ req[r].pc = "log" => ~Misleads(req[r])

\* An event about to be published is stored, or MongoDB failed.
StoredOrFailed ==
    \A r \in Requests : req[r].pc = "publish" /\ ~req[r].stored => "mongo" \in faults

AuditInv == SnapshotIsCurrent /\ StoredOrFailed /\ Heard /\ BeforeIsReplaced

-------------------------------------------------------------------------------

Rotates(q) == q.op = "refresh" /\ q.pc \in {"revoke", "count", "find", "evict", "insert"}
Rotating(r) == Rotates(req[r])

\* Sessions are numbered in the order of their creation.
Numbered == Last \in Nat /\ Created = 1..Last /\ signedOut <= Last

\* A rotation under way carries a token that exists, and that is revoked once the
\* first command is through; sessions to evict exist.
RotationsCarry ==
    \A r \in Requests :
        /\ req[r].oldest \in SUBSET Created
        /\ req[r].pc = "revoke" => req[r].op = "refresh"
        /\ Rotating(r) => req[r].token \in Created
        /\ Rotating(r) /\ req[r].pc # "revoke" => sessions[req[r].token].state = "revoked"
        /\ Rotating(r) /\ req[r].token <= signedOut => "logout" \in races

\* The token a session was rotated from is revoked.
PredecessorsRevoked ==
    \A s \in Created : sessions[s].from # 0 =>
        sessions[s].from \in Created /\ sessions[sessions[s].from].state = "revoked"

\* Nobody else is rotating, or has rotated, the token of a rotation under way.
RotationsAlone ==
    "rotate" \notin races =>
        \A r \in Requests : Rotating(r) =>
            /\ \A q \in Requests : Rotating(q) /\ req[q].token = req[r].token => q = r
            /\ \A s \in Created : sessions[s].from # req[r].token

SessionInv ==
    /\ Numbered /\ RotationsCarry /\ PredecessorsRevoked /\ RotationsAlone
    /\ OneSuccessor /\ LogoutHolds

IInv == TypeOK /\ AuditInv /\ SessionInv

-------------------------------------------------------------------------------
(* Lemmas about the definitions.                                            *)

\* What the endpoints of the admin API may be.
LEMMA EndpointFacts ==
    \A e \in Endpoints :
        /\ e.op \in {"create", "update", "delete", "test"} /\ e.kind \in Kinds
        /\ Head(e.steps) \in {"snapshot", "write", "log"}
BY DEF Endpoints, Endpoint, create_tenant, update_tenant, delete_tenant, create_silence,
       delete_silence, update_config, create_connector, update_connector, delete_connector,
       test_connector, create_policy, update_policy, delete_policy, Kinds

\* The record of a request that is not in flight is well typed.
LEMMA IdleType == Idle \in RequestType
BY AuditAssumption, PortalAssumption DEF Idle, RequestType, None, Pcs

\* What an idle request is.
LEMMA IdleFields ==
    Idle.pc = "idle" /\ Idle.replaced = None /\ Idle.oldest = {} /\ ~Misleads(Idle)
BY DEF Idle, Misleads

\* The content of a document is never None.
LEMMA NoneAbove == \A n \in 0..MaxWrites : n \in 0..None /\ n # None
BY AuditAssumption DEF None

\* Sessions are numbered from 1.
LEMMA IdsPositive == \A s \in Ids : s \in Nat /\ s # 0 /\ s \in 0..MaxSessions
BY PortalAssumption DEF Ids

\* Records of requests, with a field or two changed.
LEMMA RequestUpdates ==
    ASSUME NEW q \in RequestType, NEW x \in Pcs
    PROVE  /\ [q EXCEPT !.pc = x] \in RequestType
           /\ \A v \in 0..None : [q EXCEPT !.pc = x, !.before = v] \in RequestType
           /\ \A v \in 0..None : [q EXCEPT !.pc = x, !.replaced = v] \in RequestType
           /\ \A v \in BOOLEAN : [q EXCEPT !.pc = x, !.stored = v] \in RequestType
           /\ \A v \in SUBSET Ids : [q EXCEPT !.pc = x, !.oldest = v] \in RequestType
           /\ \A v \in Nat : [q EXCEPT !.count = v, !.pc = x] \in RequestType
           /\ \A v \in 0..MaxSessions, w \in Nat : [q EXCEPT !.pc = x, !.token = v, !.count = w] \in RequestType
           /\ [q EXCEPT !.raced = TRUE] \in RequestType
BY ZenonT(30) DEF RequestType

\* One request moves on, the others stay.
LEMMA OneMoves ==
    ASSUME TypeOK, NEW r \in Requests, NEW q \in RequestType, req' = [req EXCEPT ![r] = q]
    PROVE  /\ req' \in [Requests -> RequestType] /\ req'[r] = q
           /\ \A p \in Requests \ {r} : req'[p] = req[p]
BY DEF TypeOK

-------------------------------------------------------------------------------
(* What keeps the audit part, and what the session part, of the invariant.  *)

\* A step that changes no document and takes no request into the audited
\* commands.
LEMMA AuditKept ==
    ASSUME AuditInv, UNCHANGED <<docs, misled, silent>>, faults \in SUBSET faults',
           \A p \in Requests :
               \/ req'[p] = req[p]
               \/ /\ req'[p].pc \notin {"snapshot", "write", "publish"}
                  /\ req'[p].replaced = None \/ req'[p].pc \in {"cookies", "clear"}
    PROVE  AuditInv'
<1> USE DEF AuditInv
<1>1. SnapshotIsCurrent' BY DEF SnapshotIsCurrent, Misleads
<1>2. StoredOrFailed' BY DEF StoredOrFailed
<1>3. Heard' /\ BeforeIsReplaced' BY DEF Heard, BeforeIsReplaced
<1> QED BY <1>1, <1>2, <1>3

\* Sessions are revoked or expire, and keep their origin.
Aged ==
    \A s \in Ids : /\ sessions'[s].from = sessions[s].from
                   /\ sessions'[s].state = "none" <=> sessions[s].state = "none"
                   /\ sessions[s].state = "revoked" => sessions'[s].state = "revoked"
                   /\ sessions'[s].state = "live" => sessions[s].state = "live"

\* Sessions that age keep their predecessors revoked and their successors single.
LEMMA OriginsKept ==
    ASSUME Aged, Created' = Created, races \in SUBSET races', PredecessorsRevoked, OneSuccessor
    PROVE  PredecessorsRevoked' /\ OneSuccessor'
<1>1. Created \in SUBSET Ids BY Zenon DEF Created
<1>2. \A s \in Created : sessions'[s].from = sessions[s].from BY <1>1, ZenonT(30) DEF Aged
<1>3. \A s \in Created : sessions[s].state = "revoked" => sessions'[s].state = "revoked"
    BY <1>1, Zenon DEF Aged
<1>4. ASSUME NEW s \in Created, sessions'[s].from # 0
      PROVE  sessions'[s].from \in Created /\ sessions'[sessions'[s].from].state = "revoked"
    <2>1. sessions'[s].from = sessions[s].from BY <1>2, ZenonT(30)
    <2>2. sessions[s].from \in Created /\ sessions[sessions[s].from].state = "revoked"
        BY <1>4, <2>1, ZenonT(30) DEF PredecessorsRevoked
    <2> QED BY <1>3, <2>1, <2>2, ZenonT(30)
<1>5. ASSUME "rotate" \notin races, NEW s \in Created, NEW t \in Created,
             sessions'[s].from = sessions'[t].from, sessions'[s].from # 0
      PROVE  s = t
    <2>1. sessions[s].from = sessions[t].from /\ sessions[s].from # 0 BY <1>2, <1>5, Zenon
    <2> QED BY <1>5, <2>1, ZenonT(30) DEF OneSuccessor
<1>6. PredecessorsRevoked' BY <1>4, Zenon DEF PredecessorsRevoked
<1>7. "rotate" \notin races' => "rotate" \notin races OBVIOUS
<1>8. OneSuccessor' BY <1>5, <1>7, ZenonT(30) DEF OneSuccessor
<1> QED BY <1>6, <1>8, ZenonT(30)

\* Rotations that go on with their tokens, beside sessions that age, stay alone.
LEMMA AloneKept ==
    ASSUME Aged, Created' = Created, races \in SUBSET races', RotationsAlone,
           \A p \in Requests : Rotating(p)' => Rotating(p) /\ req'[p].token = req[p].token
    PROVE  RotationsAlone'
<1>1. Created \in SUBSET Ids BY Zenon DEF Created
<1>2. \A s \in Created : sessions'[s].from = sessions[s].from BY <1>1, ZenonT(30) DEF Aged
<1>3. "rotate" \notin races' => "rotate" \notin races OBVIOUS
<1>4. ASSUME "rotate" \notin races, NEW p \in Requests, Rotating(p)'
      PROVE  /\ \A o \in Requests : Rotating(o)' /\ req'[o].token = req'[p].token => o = p
             /\ \A s \in Created : sessions'[s].from # req'[p].token
    <2>1. Rotating(p) /\ req'[p].token = req[p].token BY <1>4, Zenon
    <2>2. ASSUME NEW o \in Requests, Rotating(o)', req'[o].token = req'[p].token PROVE o = p
        <3>1. Rotating(o) /\ req[o].token = req[p].token BY <2>1, <2>2, ZenonT(30)
        <3> QED BY <1>4, <2>1, <3>1, ZenonT(30) DEF RotationsAlone
    <2>3. ASSUME NEW s \in Created PROVE sessions'[s].from # req'[p].token
        BY <1>2, <1>4, <2>1, ZenonT(30) DEF RotationsAlone
    <2> QED BY <2>2, <2>3, ZenonT(30)
<1> QED BY <1>3, <1>4, ZenonT(30) DEF RotationsAlone

\* A step that creates no session, begins no rotation and signs nobody out.
LEMMA SessionsKept ==
    ASSUME TypeOK, SessionInv, Aged, UNCHANGED signedOut, races \in SUBSET races',
           \A p \in Requests :
               \/ req'[p] = req[p]
               \/ /\ req'[p].oldest \in SUBSET Created
                  /\ req'[p].pc # "revoke"
                  /\ Rotates(req'[p]) => /\ Rotates(req[p]) /\ req'[p].token = req[p].token
                                         /\ sessions'[req[p].token].state = "revoked"
    PROVE  SessionInv'
<1> USE DEF SessionInv
<1>1. Created' = Created BY DEF Created, Aged
<1>2. Last' = Last BY <1>1 DEF Last
<1>3. Numbered' BY <1>1, <1>2 DEF Numbered
<1>4. Created \in SUBSET Ids BY ZenonT(30) DEF Created
<1>5. RotationsCarry' BY <1>1, <1>4 DEF RotationsCarry, Rotating, Rotates, Aged
<1>6. PredecessorsRevoked' /\ OneSuccessor' BY <1>1, OriginsKept, ZenonT(30)
<1>7. \A p \in Requests : Rotating(p)' => Rotating(p) /\ req'[p].token = req[p].token
    BY ZenonT(30) DEF Rotating
<1>8. RotationsAlone' BY <1>1, <1>7, AloneKept, ZenonT(30)
<1>9. LogoutHolds' BY <1>1, <1>4 DEF LogoutHolds, Live, Aged
<1> QED BY <1>3, <1>5, <1>6, <1>8, <1>9, ZenonT(30)

\* A request moves on outside rotation and audited commands.
Plain(q) ==
    /\ q.pc \notin {"snapshot", "write", "publish", "revoke"} /\ ~Rotates(q)
    /\ q.replaced = None \/ q.pc \in {"cookies", "clear"}
    /\ q.oldest \in SUBSET Created

\* Documents and sessions stay as they are.
Beside ==
    /\ UNCHANGED <<docs, writes, misled, silent, sessions, signedOut>>
    /\ races \in SUBSET races' /\ faults \in SUBSET faults'
    /\ browser' \in [Browsers -> BrowserType]

\* A request that moves to a step without obligations, beside unchanged sessions
\* and resources, keeps the invariant.
LEMMA PlainMove ==
    ASSUME IInv, NEW r \in Requests, NEW q \in RequestType, req' = [req EXCEPT ![r] = q], Plain(q),
           Beside
    PROVE  IInv'
<1> USE DEF IInv, Beside
<1>1. /\ req' \in [Requests -> RequestType] /\ req'[r] = q
      /\ \A p \in Requests \ {r} : req'[p] = req[p]
    BY OneMoves, ZenonT(30)
<1>2. TypeOK' BY <1>1 DEF TypeOK
<1>3. AuditInv' BY <1>1, AuditKept DEF Plain
<1>4. Aged BY DEF Aged
<1>5. SessionInv' BY <1>1, <1>4, SessionsKept DEF Plain
<1> QED BY <1>2, <1>3, <1>5

\* A request that is not in flight has no obligations.
LEMMA IdleIsPlain == Plain(Idle)
BY DEF Plain, Idle, Rotates

\* The cookies of a browser change.
LEMMA CookieUpdates ==
    ASSUME NEW c \in BrowserType
    PROVE  /\ \A v \in BOOLEAN : [c EXCEPT !.challenge = v] \in BrowserType
           /\ [c EXCEPT !.refresh = 0] \in BrowserType
           /\ [c EXCEPT !.access = FALSE] \in BrowserType
           /\ \A t \in 0..MaxSessions, v \in BOOLEAN :
                 [c EXCEPT !.access = v, !.refresh = t] \in BrowserType
<1> USE PortalAssumption DEF BrowserType
<1>1. \A v \in BOOLEAN : [c EXCEPT !.challenge = v] \in BrowserType OBVIOUS
<1>2. [c EXCEPT !.refresh = 0] \in BrowserType OBVIOUS
<1>3. [c EXCEPT !.access = FALSE] \in BrowserType BY Zenon
<1>4. \A t \in 0..MaxSessions, v \in BOOLEAN :
                 [c EXCEPT !.access = v, !.refresh = t] \in BrowserType BY ZenonT(30)
<1> QED BY <1>1, <1>2, <1>3, <1>4, ZenonT(30)

\* The cookies of all browsers, after the answers that set or clear one of them.
LEMMA BrowserUpdates ==
    ASSUME TypeOK, NEW b
    PROVE  /\ [browser EXCEPT ![b] = [@ EXCEPT !.challenge = TRUE]] \in [Browsers -> BrowserType]
           /\ [browser EXCEPT ![b] = [@ EXCEPT !.refresh = 0]] \in [Browsers -> BrowserType]
           /\ [browser EXCEPT ![b] = [@ EXCEPT !.access = FALSE]] \in [Browsers -> BrowserType]
           /\ \A t \in 0..MaxSessions, v \in BOOLEAN :
                 [browser EXCEPT ![b] = [@ EXCEPT !.access = v, !.refresh = t]]
                     \in [Browsers -> BrowserType]
<1>1. CASE b \in Browsers BY <1>1, CookieUpdates, ZenonT(30) DEF TypeOK
<1>2. CASE b \notin Browsers BY <1>2, ZenonT(30) DEF TypeOK
<1> QED BY <1>1, <1>2, ZenonT(30)

-------------------------------------------------------------------------------
(* The inductive invariant, group of actions by group of actions.           *)

\* A request ends.
LEMMA Finishes ==
    ASSUME IInv, NEW r \in Requests, Finish(r),
           Beside
    PROVE  IInv'
BY IdleType, IdleIsPlain, PlainMove, ZenonT(30) DEF Finish

\* A request whose command succeeded or not goes on to pc, outside rotation.
LEMMA Goes ==
    ASSUME IInv, NEW r \in Requests, NEW pc \in {"password", "log"}, Step(r, pc),
           req[r].pc \in {"expire", "password"},
           Beside
    PROVE  IInv'
<1> USE DEF IInv
<1> DEFINE q == [req[r] EXCEPT !.pc = pc]
<1>1. req[r] \in RequestType BY DEF TypeOK
<1>2. q \in RequestType BY <1>1, RequestUpdates, ZenonT(30) DEF Pcs
<1>3. Plain(q)
    BY <1>1 DEF Plain, Rotates, RequestType, AuditInv, SnapshotIsCurrent, SessionInv, RotationsCarry
<1>4. req' = [req EXCEPT ![r] = q] BY DEF Step
<1> HIDE DEF q
<1> QED BY <1>2, <1>3, <1>4, PlainMove, ZenonT(30)

\* portal_login, portal_mfa_verify up to the session, portal_mfa_enroll, get_token,
\* the cookies, and a request that dies.
LEMMA PlainInv ==
    ASSUME IInv, NEW r \in Requests, NEW b,
           \/ b \in Browsers /\ (LoginIncr(r, b) \/ VerifyCode(r, b) \/ Enroll(r, b))
           \/ LoginExpire(r) \/ LoginPassword(r) \/ get_token(r)
           \/ SetCookies(r) \/ ClearCookies(r) \/ Dies(r)
    PROVE  IInv'
<1>0. /\ TypeOK /\ browser \in [Browsers -> BrowserType]
      /\ req[r].token \in 0..MaxSessions /\ 0 \in 0..MaxSessions
    BY PortalAssumption DEF IInv, TypeOK, RequestType
<1>b. Beside
    <2> USE DEF Beside, resources, portalVars, NoFault, Fault
    <2>1. CASE LoginIncr(r, b) BY <1>0, <2>1, ZenonT(30) DEF LoginIncr
    <2>2. CASE LoginExpire(r) BY <1>0, <2>2, ZenonT(30) DEF LoginExpire
    <2>3. CASE LoginPassword(r)
        <3> DEFINE c == req[r].browser
        <3>1. [browser EXCEPT ![c] = [@ EXCEPT !.challenge = TRUE]] \in [Browsers -> BrowserType]
            BY <1>0, BrowserUpdates, ZenonT(30)
        <3>2. browser' \in [Browsers -> BrowserType] BY <1>0, <2>3, <3>1, ZenonT(30) DEF LoginPassword
        <3> QED BY <2>3, <3>2 DEF LoginPassword
    <2>4. CASE VerifyCode(r, b) BY <1>0, <2>4, ZenonT(30) DEF VerifyCode
    <2>5. CASE Enroll(r, b) BY <1>0, <2>5 DEF Enroll, kms_generate_data_key
    <2>6. CASE get_token(r) BY <1>0, <2>6 DEF get_token
    <2>7. CASE SetCookies(r) BY <1>0, <2>7, BrowserUpdates, ZenonT(30) DEF SetCookies
    <2>8. CASE ClearCookies(r) BY <1>0, <2>8, BrowserUpdates, ZenonT(30) DEF ClearCookies
    <2>9. CASE Dies(r) BY <1>0, <2>9 DEF Dies
    <2> QED BY <2>1, <2>2, <2>3, <2>4, <2>5, <2>6, <2>7, <2>8, <2>9, ZenonT(30)
<1>1. ASSUME b \in Browsers, NEW op \in {"login", "verify", "verify_failed", "enroll"},
             NEW pc \in {"expire", "password", "log", "count"}, Opens(r, b, op, pc)
      PROVE  IInv'
    <2> DEFINE q == [Idle EXCEPT !.op = op, !.pc = pc, !.browser = b]
    <2>1. q \in RequestType BY <1>1, IdleType, ZenonT(30) DEF RequestType, Pcs
    <2>2. Plain(q) BY <1>1 DEF Plain, Idle, Rotates
    <2>3. req' = [req EXCEPT ![r] = q] BY <1>1 DEF Opens
    <2> HIDE DEF q
    <2> QED BY <1>b, <2>1, <2>2, <2>3, PlainMove, ZenonT(30)
<1>2. CASE b \in Browsers /\ LoginIncr(r, b) BY <1>1, <1>2 DEF LoginIncr
<1>3. CASE LoginExpire(r) BY <1>b, <1>3, Goes, ZenonT(30) DEF LoginExpire
<1>4. CASE LoginPassword(r) BY <1>b, <1>4, Finishes, Goes, ZenonT(30) DEF LoginPassword
<1>5. CASE b \in Browsers /\ VerifyCode(r, b) BY <1>1, <1>5, ZenonT(30) DEF VerifyCode
<1>6. CASE b \in Browsers /\ Enroll(r, b) BY <1>1, <1>6 DEF Enroll
<1>7. CASE get_token(r)
    <2> DEFINE q == [Idle EXCEPT !.op = "token", !.pc = "log"]
    <2>1. q \in RequestType BY IdleType, ZenonT(30) DEF RequestType, Pcs
    <2>2. Plain(q) BY DEF Plain, Idle, Rotates
    <2>3. req' = [req EXCEPT ![r] = q] BY <1>7 DEF get_token
    <2> HIDE DEF q
    <2> QED BY <1>b, <2>1, <2>2, <2>3, PlainMove, ZenonT(30)
<1>8. CASE SetCookies(r) \/ ClearCookies(r) \/ Dies(r)
    BY <1>b, <1>8, Finishes DEF SetCookies, ClearCookies, Dies
<1> QED BY <1>2, <1>3, <1>4, <1>5, <1>6, <1>7, <1>8, ZenonT(30)

\* What no request does: time passes, cookies are dropped.
LEMMA TimeInv ==
    ASSUME IInv, \/ WindowEnds \/ UNCHANGED vars
                 \/ \E b \in Browsers : LogoutUnknown(b) \/ AccessExpires(b)
                 \/ \E s \in Ids : SessionExpires(s)
    PROVE  IInv'
<1> USE DEF IInv
<1>1. UNCHANGED <<auditVars, signedOut, races>>
    BY DEF WindowEnds, LogoutUnknown, AccessExpires, SessionExpires, vars, portalVars
<1>2. browser' \in [Browsers -> BrowserType]
    <2>1. ASSUME NEW b \in Browsers, LogoutUnknown(b) \/ AccessExpires(b)
          PROVE  browser' \in [Browsers -> BrowserType]
        <3>1. CASE LogoutUnknown(b) BY <3>1, BrowserUpdates, ZenonT(30) DEF LogoutUnknown
        <3>2. CASE AccessExpires(b) BY <3>2, BrowserUpdates, ZenonT(30) DEF AccessExpires
        <3> QED BY <2>1, <3>1, <3>2, Zenon
    <2>2. CASE UNCHANGED browser BY <2>2 DEF TypeOK
    <2> QED BY <2>1, <2>2 DEF WindowEnds, SessionExpires, vars, portalVars
<1>3. Aged /\ sessions' \in SessionsType
    <2> USE DEF TypeOK, SessionsType
    <2>1. CASE UNCHANGED sessions BY <2>1 DEF Aged
    <2>2. ASSUME NEW s \in Ids, SessionExpires(s) PROVE Aged /\ sessions' \in SessionsType
        BY <2>2 DEF SessionExpires, Aged
    <2> QED BY <2>1, <2>2 DEF WindowEnds, LogoutUnknown, AccessExpires, vars, portalVars
<1>4. TypeOK' BY <1>1, <1>2, <1>3 DEF TypeOK, auditVars
<1>5. AuditInv' BY <1>1, AuditKept DEF auditVars
<1>6. SessionInv' BY <1>1, <1>3, SessionsKept DEF auditVars
<1> QED BY <1>4, <1>5, <1>6, ZenonT(30)

\* Sets of sessions can be counted.
LEMMA Counted ==
    /\ IsFiniteSet(Unrevoked) /\ Cardinality(Unrevoked) \in Nat
    /\ IsFiniteSet(Created) /\ Last \in Nat
<1>1. IsFiniteSet(Ids) BY PortalAssumption, FS_Interval DEF Ids
<1>2. Created \in SUBSET Ids /\ Unrevoked \in SUBSET Ids BY DEF Created, Unrevoked
<1> QED BY <1>1, <1>2, FS_Subset, FS_CardinalityType DEF Last

\* revoke: the sessions that it is called with are revoked and no other changes.
LEMMA Revoking ==
    ASSUME TypeOK, NEW S \in SUBSET Created, Revoke(S)
    PROVE  /\ Aged /\ sessions' \in SessionsType
           /\ \A s \in S : sessions'[s].state = "revoked"
BY DEF Revoke, Aged, TypeOK, SessionsType, Created

\* A rotation or a login goes on to its next command on the sessions.
LEMMA RotationGoesOn ==
    ASSUME IInv, NEW r \in Requests, NEW q \in RequestType, req' = [req EXCEPT ![r] = q],
           req[r].pc \in {"revoke", "count", "find", "evict"}, q.pc \in {"count", "find", "evict", "insert"},
           q.op = req[r].op, q.token = req[r].token, q.replaced = req[r].replaced,
           q.oldest \in SUBSET Created, Aged, sessions' \in SessionsType,
           req[r].pc = "revoke" => sessions'[q.token].state = "revoked",
           UNCHANGED <<resources, faults, browser, signedOut, races>>
    PROVE  IInv'
<1> USE DEF IInv
<1>1. /\ req' \in [Requests -> RequestType] /\ req'[r] = q
      /\ \A p \in Requests \ {r} : req'[p] = req[p]
    BY OneMoves, ZenonT(30)
<1>2. TypeOK' BY <1>1, ZenonT(30) DEF TypeOK, resources, SessionsType
<1>3. q.replaced = None BY DEF AuditInv, SnapshotIsCurrent
<1>4. AuditInv' BY <1>1, <1>3, AuditKept DEF resources
<1>5. Rotates(q) => Rotates(req[r]) /\ sessions'[req[r].token].state = "revoked"
    BY ZenonT(30) DEF Rotates, SessionInv, RotationsCarry, Rotating, Aged, Created
<1>6. SessionInv' BY <1>1, <1>5, SessionsKept
<1> QED BY <1>2, <1>4, <1>6

\* The commands of rotate and of the session limit, up to the insertion.
LEMMA RotationInv ==
    ASSUME IInv, NEW r \in Requests,
           CountSessions(r) \/ FindOldest(r) \/ EvictOldest(r) \/ RotateRevoke(r)
    PROVE  IInv'
<1>0. /\ TypeOK /\ req[r] \in RequestType /\ req[r].oldest \in SUBSET Created
      /\ req[r].pc = "revoke" => req[r].token \in Created
    BY DEF IInv, TypeOK, SessionInv, RotationsCarry, Rotating, Rotates
<1>1. CASE CountSessions(r)
    <2> DEFINE x == IF TooMany(Cardinality(Unrevoked)) THEN "find" ELSE "insert"
               q == [req[r] EXCEPT !.count = Cardinality(Unrevoked), !.pc = x]
    <2>1. q \in RequestType BY <1>0, Counted, RequestUpdates, ZenonT(30) DEF Pcs
    <2>2. /\ q.pc \in {"find", "insert"} /\ q.op = req[r].op /\ q.token = req[r].token
          /\ q.replaced = req[r].replaced /\ q.oldest = req[r].oldest
        BY <1>0 DEF RequestType
    <2>3. req' = [req EXCEPT ![r] = q] BY <1>1 DEF CountSessions
    <2>4. /\ Aged /\ sessions' \in SessionsType /\ req[r].pc = "count"
          /\ UNCHANGED <<resources, faults, browser, signedOut, races>>
        BY <1>0, <1>1 DEF CountSessions, NoFault, Aged, portalVars, TypeOK
    <2> HIDE DEF q
    <2> QED BY <1>0, <2>1, <2>2, <2>3, <2>4, RotationGoesOn, ZenonT(30)
<1>2. CASE FindOldest(r)
    <2> DEFINE S == {s \in Unrevoked : Cardinality({t \in Unrevoked : t < s})
                                           <= req[r].count - max_concurrent}
               q == [req[r] EXCEPT !.pc = "evict", !.oldest = S]
    <2>1. S \in SUBSET Created /\ S \in SUBSET Ids BY DEF Unrevoked, Created
    <2>2. req' = [req EXCEPT ![r] = q] BY <1>2 DEF FindOldest
    <2> HIDE DEF S
    <2>3. q \in RequestType BY <1>0, <2>1, RequestUpdates, ZenonT(30) DEF Pcs
    <2>4. /\ q.pc = "evict" /\ q.op = req[r].op /\ q.token = req[r].token
          /\ q.replaced = req[r].replaced /\ q.oldest = S
        BY <1>0 DEF RequestType
    <2>5. /\ Aged /\ sessions' \in SessionsType /\ req[r].pc = "find"
          /\ UNCHANGED <<resources, faults, browser, signedOut, races>>
        BY <1>0, <1>2 DEF FindOldest, NoFault, Aged, portalVars, TypeOK
    <2> HIDE DEF q
    <2> QED BY <2>1, <2>2, <2>3, <2>4, <2>5, RotationGoesOn, ZenonT(30)
<1>3. CASE EvictOldest(r)
    <2> DEFINE q == [req[r] EXCEPT !.pc = "insert", !.oldest = {}]
    <2>1. q \in RequestType BY <1>0, RequestUpdates, ZenonT(30) DEF Pcs
    <2>2. /\ q.pc = "insert" /\ q.op = req[r].op /\ q.token = req[r].token
          /\ q.replaced = req[r].replaced /\ q.oldest = {}
        BY <1>0 DEF RequestType
    <2>3. req' = [req EXCEPT ![r] = q] BY <1>3 DEF EvictOldest
    <2>4. /\ Aged /\ sessions' \in SessionsType BY <1>0, <1>3, Revoking, ZenonT(30) DEF EvictOldest
    <2>5. /\ UNCHANGED <<resources, faults, browser, signedOut, races>> /\ req[r].pc = "evict"
        BY <1>3 DEF EvictOldest, NoFault
    <2> HIDE DEF q
    <2> QED BY <2>1, <2>2, <2>3, <2>4, <2>5, RotationGoesOn, ZenonT(30)
<1>4. CASE RotateRevoke(r)
    <2> DEFINE q == [req[r] EXCEPT !.pc = "count"]
    <2>1. q \in RequestType BY <1>0, RequestUpdates, ZenonT(30) DEF Pcs
    <2>2. /\ q.pc = "count" /\ q.op = req[r].op /\ q.token = req[r].token
          /\ q.replaced = req[r].replaced /\ q.oldest = req[r].oldest
        BY <1>0 DEF RequestType
    <2>3. req' = [req EXCEPT ![r] = q] BY <1>4, ZenonT(30) DEF RotateRevoke, Step
    <2>4. {req[r].token} \in SUBSET Created BY <1>0, <1>4, ZenonT(30) DEF RotateRevoke
    <2>5. Aged /\ sessions' \in SessionsType /\ sessions'[req[r].token].state = "revoked"
        BY <1>0, <1>4, <2>4, Revoking, ZenonT(30) DEF RotateRevoke, RevokedByRotate
    <2>6. UNCHANGED <<resources, faults, browser, signedOut, races>> /\ req[r].pc = "revoke"
        BY <1>4 DEF RotateRevoke, NoFault
    <2> HIDE DEF q
    <2> QED BY <1>0, <2>1, <2>2, <2>3, <2>5, <2>6, RotationGoesOn, ZenonT(30)
<1> QED BY <1>1, <1>2, <1>3, <1>4, Zenon

\* A logout: every session is revoked, and a rotation under way is recorded.
LEMMA LogoutInv ==
    ASSUME IInv, NEW r \in Requests, NEW b \in Browsers, Logout(r, b) PROVE IInv'
<1> USE DEF IInv
<1> DEFINE q == [Idle EXCEPT !.op = "logout", !.pc = "log", !.browser = b]
<1>1. q \in RequestType BY IdleType, ZenonT(30) DEF RequestType, Pcs
<1>2. Plain(q) /\ ~Rotates(q) BY DEF Plain, Idle, Rotates
<1>3. req' = [req EXCEPT ![r] = q] BY DEF Logout, Opens
<1> HIDE DEF q
<1>4. /\ req' \in [Requests -> RequestType] /\ req'[r] = q
      /\ \A p \in Requests \ {r} : req'[p] = req[p]
    BY <1>1, <1>3, OneMoves, Zenon
<1>5. Unrevoked \in SUBSET Created BY DEF Unrevoked
<1>6. Aged /\ sessions' \in SessionsType /\ \A s \in Unrevoked : sessions'[s].state = "revoked"
    BY <1>5, Revoking, ZenonT(30) DEF Logout, RevokedByLogout
<1>7. TypeOK' BY <1>4, <1>6, Counted, ZenonT(30) DEF TypeOK, Logout, resources
<1>8. AuditInv' BY <1>2, <1>4, AuditKept DEF Logout, resources, NoFault, Plain
<1>9. SessionInv'
    <2> USE DEF SessionInv
    <2>1. Created' = Created /\ Created \in SUBSET Ids BY <1>6, ZenonT(30) DEF Created, Aged
    <2>2. Last' = Last /\ signedOut' = Last /\ races \in SUBSET races'
        BY <2>1, ZenonT(30) DEF Last, Logout, Race
    <2>3. Numbered' BY <2>1, <2>2 DEF Numbered
    <2>4. \A p \in Requests : Rotating(p)' => Rotating(p) /\ req'[p] = req[p]
        BY <1>2, <1>4, ZenonT(30) DEF Rotating
    <2>5. \A p \in Requests : Rotating(p) => "logout" \in races'
        BY ZenonT(30) DEF Rotating, Rotates, Logout, Race
    <2>6. RotationsCarry'
        <3> SUFFICES ASSUME NEW p \in Requests
                     PROVE  /\ req'[p].oldest \in SUBSET Created
                            /\ req'[p].pc = "revoke" => req'[p].op = "refresh"
                            /\ Rotating(p)' =>
                                /\ req'[p].token \in Created /\ "logout" \in races'
                                /\ req'[p].pc # "revoke" => sessions'[req'[p].token].state = "revoked"
            BY <2>1, ZenonT(30) DEF RotationsCarry
        <3>1. /\ req'[p].oldest \in SUBSET Created
              /\ req'[p].pc = "revoke" => req'[p].op = "refresh"
            <4>1. CASE p = r BY <1>2, <1>4, <4>1, ZenonT(30) DEF Plain
            <4>2. CASE p # r BY <1>4, <4>2, ZenonT(30) DEF RotationsCarry
            <4> QED BY <4>1, <4>2, ZenonT(30)
        <3>2. ASSUME Rotating(p)'
              PROVE  /\ req'[p].token \in Created /\ "logout" \in races'
                     /\ req'[p].pc # "revoke" => sessions'[req'[p].token].state = "revoked"
            <4>1. Rotating(p) /\ req'[p] = req[p] /\ "logout" \in races' BY <2>4, <2>5, <3>2, ZenonT(30)
            <4>2. /\ req[p].token \in Created
                  /\ req[p].pc # "revoke" => sessions[req[p].token].state = "revoked"
                BY <4>1, ZenonT(30) DEF RotationsCarry
            <4> QED BY <1>6, <2>1, <4>1, <4>2, ZenonT(30) DEF Aged
        <3> QED BY <3>1, <3>2, ZenonT(30)
    <2>7. PredecessorsRevoked' /\ OneSuccessor' BY <1>6, <2>1, <2>2, OriginsKept, ZenonT(30)
    <2>8. \A p \in Requests : Rotating(p)' => Rotating(p) /\ req'[p].token = req[p].token
        BY <2>4, ZenonT(30)
    <2>9. RotationsAlone' BY <1>6, <2>1, <2>2, <2>8, AloneKept, ZenonT(30)
    <2>10. Live' = {} BY <1>6, ZenonT(30) DEF Live, Unrevoked, Created, Aged
    <2>11. LogoutHolds' BY <2>10, ZenonT(30) DEF LogoutHolds
    <2> QED BY <2>3, <2>6, <2>7, <2>8, <2>9, <2>11, ZenonT(30)
<1> QED BY <1>7, <1>8, <1>9

\* A rotation begins: with a live token, which nobody has rotated yet.
LEMMA RotateFindInv ==
    ASSUME IInv, NEW r \in Requests, NEW b \in Browsers, RotateFind(r, b) PROVE IInv'
<1> USE DEF IInv
<1> DEFINE t == browser[b].refresh
           q == [Idle EXCEPT !.op = "refresh", !.pc = "revoke", !.browser = b, !.token = t]
<1>1. t \in Ids /\ sessions[t].state = "live"
    BY PortalAssumption DEF RotateFind, Usable, TypeOK, BrowserType, Ids
<1>2. q \in RequestType
    <2>1. \A v \in 0..MaxSessions :
            [Idle EXCEPT !.op = "refresh", !.pc = "revoke", !.browser = b, !.token = v]
                \in RequestType
        BY IdleType, ZenonT(30) DEF RequestType, Pcs
    <2>2. t \in 0..MaxSessions BY <1>1, PortalAssumption DEF Ids
    <2> QED BY <2>1, <2>2, ZenonT(30)
<1>3. /\ q.op = "refresh" /\ q.pc = "revoke" /\ q.token = t
      /\ q.replaced = None /\ q.oldest = {} /\ Rotates(q)
    BY DEF Idle, Rotates
<1>4. req' = [req EXCEPT ![r] = q] BY DEF RotateFind
<1> HIDE DEF q
<1>5. /\ req' \in [Requests -> RequestType] /\ req'[r] = q
      /\ \A p \in Requests \ {r} : req'[p] = req[p]
    BY <1>2, <1>4, OneMoves, ZenonT(30)
<1>6. /\ UNCHANGED <<resources, faults, sessions, browser, signedOut>> /\ races \in SUBSET races'
    BY DEF RotateFind, NoFault, Race
<1>7. TypeOK' BY <1>5, <1>6, ZenonT(30) DEF TypeOK, resources
<1>8. AuditInv' BY <1>3, <1>5, <1>6, AuditKept, ZenonT(30) DEF resources
<1>9. SessionInv'
    <2> USE DEF SessionInv
    <2>1. Created' = Created /\ Last' = Last /\ Live' = Live /\ t \in Created /\ t \in Live
        BY <1>1, <1>6, ZenonT(30) DEF Created, Last, Live
    <2>2. Numbered' BY <1>6, <2>1, ZenonT(30) DEF Numbered
    <2>3. t \in Nat /\ signedOut \in Nat /\ t > signedOut
        <3>1. t \in Nat BY <1>1, IdsPositive, Zenon
        <3>2. signedOut \in Nat BY Zenon DEF TypeOK
        <3>3. t > signedOut BY <2>1, ZenonT(30) DEF LogoutHolds
        <3> QED BY <3>1, <3>2, <3>3, Zenon
    <2>4. RotationsCarry'
        <3> SUFFICES ASSUME NEW p \in Requests
                     PROVE  /\ req'[p].oldest \in SUBSET Created
                            /\ req'[p].pc = "revoke" => req'[p].op = "refresh"
                            /\ Rotating(p)' =>
                                /\ req'[p].token \in Created
                                /\ req'[p].pc # "revoke" => sessions[req'[p].token].state = "revoked"
                                /\ req'[p].token <= signedOut => "logout" \in races'
            BY <1>6, <2>1, ZenonT(30) DEF RotationsCarry
        <3>1. CASE p = r
            <4>1. ~(t <= signedOut) BY <2>3
            <4>2. {} \in SUBSET Created BY ZenonT(30)
            <4> QED BY <1>3, <1>5, <2>1, <3>1, <4>1, <4>2, ZenonT(30)
        <3>2. CASE p # r
            <4>1. req'[p] = req[p] /\ (Rotating(p)' => Rotating(p)) BY <1>5, <3>2, ZenonT(30) DEF Rotating
            <4> QED BY <1>6, <4>1, ZenonT(30) DEF RotationsCarry
        <3> QED BY <3>1, <3>2, Zenon
    <2>5. PredecessorsRevoked' BY <1>6, <2>1, ZenonT(30) DEF PredecessorsRevoked
    <2>6. \A s \in Created : sessions[s].from # t
        <3> SUFFICES ASSUME NEW s \in Created, sessions[s].from = t PROVE FALSE
            BY Zenon
        <3>1. t # 0 BY <1>1, IdsPositive, Zenon
        <3>2. sessions[t].state = "revoked" BY <3>1, ZenonT(30) DEF PredecessorsRevoked
        <3> QED BY <1>1, <3>2, Zenon
    <2>7. ASSUME "rotate" \notin races', NEW p \in Requests, Rotating(p) PROVE req[p].token # t
        BY <1>1, <2>7, ZenonT(30) DEF RotateFind, Race, Rotating, RotationsCarry
    <2>8. RotationsAlone'
        <3>1. \A p \in Requests : p # r /\ Rotating(p)' => Rotating(p) /\ req'[p].token = req[p].token
            BY <1>5, ZenonT(30) DEF Rotating
        <3>2. req'[r].token = t BY <1>3, <1>5, Zenon
        <3>3. ASSUME "rotate" \notin races', NEW p \in Requests, Rotating(p)'
              PROVE  /\ \A o \in Requests : Rotating(o)' /\ req'[o].token = req'[p].token => o = p
                     /\ \A s \in Created : sessions[s].from # req'[p].token
            <4>0. "rotate" \notin races BY <1>6, <3>3, ZenonT(30)
            <4>1. CASE p = r
                <5>1. req'[p].token = t BY <3>2, <4>1, ZenonT(30)
                <5>2. \A o \in Requests : Rotating(o)' /\ req'[o].token = t => o = r
                    BY <2>7, <3>1, <3>3, ZenonT(30)
                <5> QED BY <2>6, <4>1, <5>1, <5>2, ZenonT(30)
            <4>2. CASE p # r
                <5>1. Rotating(p) /\ req'[p].token = req[p].token BY <3>1, <3>3, <4>2, ZenonT(30)
                <5>2. req[p].token # t BY <2>7, <3>3, <5>1, ZenonT(30)
                <5>3. ASSUME NEW o \in Requests, Rotating(o)', req'[o].token = req'[p].token PROVE o = p
                    <6>1. o # r BY <3>2, <5>1, <5>2, <5>3, ZenonT(30)
                    <6>2. Rotating(o) /\ req[o].token = req[p].token BY <3>1, <5>1, <5>3, <6>1, ZenonT(30)
                    <6> QED BY <4>0, <5>1, <6>2, ZenonT(30) DEF RotationsAlone
                <5>4. \A s \in Created : sessions[s].from # req'[p].token
                    BY <4>0, <5>1, ZenonT(30) DEF RotationsAlone
                <5> QED BY <5>3, <5>4, ZenonT(30)
            <4> QED BY <4>1, <4>2, ZenonT(30)
        <3> QED BY <1>6, <2>1, <3>3, ZenonT(30) DEF RotationsAlone
    <2>9. OneSuccessor' BY <1>6, <2>1, ZenonT(30) DEF OneSuccessor
    <2>10. LogoutHolds' BY <1>6, <2>1 DEF LogoutHolds
    <2> QED BY <2>2, <2>4, <2>5, <2>8, <2>9, <2>10, ZenonT(30)
<1> QED BY <1>7, <1>8, <1>9

\* A session is created: the next number, rotated from a token that nobody else
\* has rotated or is rotating, or from none.
LEMMA InsertInv ==
    ASSUME IInv, NEW r \in Requests, InsertSession(r) PROVE IInv'
<1> USE DEF IInv
<1> DEFINE k == Last + 1
           from == IF req[r].op = "refresh" THEN req[r].token ELSE 0
           x == IF req[r].op = "refresh" THEN "cookies" ELSE "log"
           q == [req[r] EXCEPT !.pc = x, !.token = k, !.count = 0]
<1>1. /\ req[r] \in RequestType /\ req[r].oldest \in SUBSET Created /\ req[r].replaced = None
      /\ from \in 0..MaxSessions /\ req[r].pc = "insert"
    BY PortalAssumption
    DEF TypeOK, RequestType, SessionInv, RotationsCarry, AuditInv, SnapshotIsCurrent, InsertSession
<1>2. /\ Last \in Nat /\ k \in Ids /\ k \notin Created /\ Created = 1..Last
      /\ k \in 0..MaxSessions /\ k > Last
    BY PortalAssumption DEF InsertSession, SessionInv, Numbered, Ids
<1>3. q \in RequestType BY <1>1, <1>2, RequestUpdates, ZenonT(30) DEF Pcs
<1>4. /\ q.op = req[r].op /\ q.pc = x /\ q.token = k /\ q.replaced = None
      /\ q.oldest = req[r].oldest /\ ~Rotates(q) /\ x \in {"cookies", "log"}
    BY <1>1 DEF RequestType, Rotates
<1>5. req' = [req EXCEPT ![r] = q] BY DEF InsertSession
<1>6. /\ sessions' = [sessions EXCEPT ![k] = [state |-> "live", from |-> from]]
      /\ UNCHANGED <<resources, faults, browser, signedOut, races>>
    BY Zenon DEF InsertSession, NoFault
<1>7. (req[r].op = "refresh" /\ from = req[r].token /\ Rotating(r)) \/ from = 0
    BY <1>1 DEF Rotating, Rotates
<1> HIDE DEF q, from, x, k
<1>8. /\ req' \in [Requests -> RequestType] /\ req'[r] = q
      /\ \A p \in Requests \ {r} : req'[p] = req[p]
    BY <1>3, <1>5, OneMoves, ZenonT(30)
<1>9. /\ sessions' \in SessionsType /\ sessions'[k].state = "live" /\ sessions'[k].from = from
      /\ \A s \in Ids \ {k} : sessions'[s] = sessions[s]
    BY <1>1, <1>2, <1>6, ZenonT(30) DEF TypeOK, SessionsType
<1>10. TypeOK' BY <1>6, <1>8, <1>9, ZenonT(30) DEF TypeOK, resources
<1>11. AuditInv' BY <1>4, <1>6, <1>8, AuditKept, ZenonT(30) DEF resources
<1>12. SessionInv'
    <2> USE DEF SessionInv
    <2>1. Created' = Created \cup {k} /\ Created \in SUBSET Ids
        BY <1>2, <1>9, ZenonT(30) DEF Created
    <2>2. Last' = Last + 1
        BY <1>2, <2>1, Counted, FS_AddElement, ZenonT(30) DEF Last
    <2>3. Numbered'
        <3>1. Created' = 1..(Last + 1) BY <1>2, <2>1 DEF k
        <3> QED BY <1>2, <1>6, <2>2, <3>1 DEF Numbered, TypeOK
    <2>4. \A p \in Requests : Rotating(p)' => Rotating(p) /\ p # r /\ req'[p] = req[p]
        BY <1>4, <1>8, ZenonT(30) DEF Rotating
    <2>5. RotationsCarry'
        <3>0. \A s \in Created : s \in Created' /\ sessions'[s] = sessions[s]
            BY <1>2, <1>9, <2>1, ZenonT(30)
        <3> SUFFICES ASSUME NEW p \in Requests
                     PROVE  /\ req'[p].oldest \in SUBSET Created'
                            /\ req'[p].pc = "revoke" => req'[p].op = "refresh"
                            /\ Rotating(p)' =>
                                /\ req'[p].token \in Created'
                                /\ req'[p].pc # "revoke" => sessions'[req'[p].token].state = "revoked"
                                /\ req'[p].token <= signedOut => "logout" \in races
            BY <1>6, ZenonT(30) DEF RotationsCarry
        <3>1. req'[p].oldest \in SUBSET Created /\ (req'[p].pc = "revoke" => req'[p].op = "refresh")
            <4>1. CASE p = r BY <1>1, <1>4, <1>8, <4>1, ZenonT(30)
            <4>2. CASE p # r BY <1>8, <4>2, ZenonT(30) DEF RotationsCarry
            <4> QED BY <4>1, <4>2, ZenonT(30)
        <3>2. ASSUME Rotating(p)'
              PROVE  /\ req'[p].token \in Created'
                     /\ req'[p].pc # "revoke" => sessions'[req'[p].token].state = "revoked"
                     /\ req'[p].token <= signedOut => "logout" \in races
            <4>1. Rotating(p) /\ req'[p] = req[p] BY <2>4, <3>2, ZenonT(30)
            <4>2. /\ req[p].token \in Created
                  /\ req[p].pc # "revoke" => sessions[req[p].token].state = "revoked"
                  /\ req[p].token <= signedOut => "logout" \in races
                BY <4>1, ZenonT(30) DEF RotationsCarry
            <4> QED BY <3>0, <4>1, <4>2, ZenonT(30)
        <3>3. req'[p].oldest \in SUBSET Created' BY <3>0, <3>1, ZenonT(30)
        <3> QED BY <3>1, <3>2, <3>3, ZenonT(30)
    <2>6. from # 0 => from \in Created /\ sessions[from].state = "revoked"
        BY <1>1, <1>7, ZenonT(30) DEF RotationsCarry
    <2>7. PredecessorsRevoked'
        <3>1. \A s \in Created : s # k /\ s \in Created' /\ sessions'[s] = sessions[s]
            BY <1>2, <1>9, <2>1, ZenonT(30)
        <3>2. ASSUME NEW s \in Created', sessions'[s].from # 0
              PROVE  sessions'[s].from \in Created /\ sessions[sessions'[s].from].state = "revoked"
            <4>1. CASE s = k BY <1>9, <2>6, <3>2, <4>1, ZenonT(30)
            <4>2. CASE s \in Created BY <3>1, <3>2, <4>2, ZenonT(30) DEF PredecessorsRevoked
            <4> QED BY <2>1, <4>1, <4>2, ZenonT(30)
        <3> QED BY <3>1, <3>2, ZenonT(30) DEF PredecessorsRevoked
    <2>8. ASSUME "rotate" \notin races, from # 0
          PROVE  /\ \A s \in Created : sessions[s].from # from
                 /\ \A p \in Requests \ {r} : Rotating(p) => req[p].token # from
        BY <1>7, <2>8, ZenonT(30) DEF RotationsAlone
    <2>9. \A p \in Requests : Rotating(p) => req[p].token # 0
        <3>1. \A p \in Requests : Rotating(p) => req[p].token \in Ids
            BY <2>1, ZenonT(30) DEF RotationsCarry
        <3> QED BY <3>1, IdsPositive, ZenonT(30)
    <2>10. \A s \in Created : sessions'[s] = sessions[s] BY <1>2, <1>9, <2>1, Zenon
    <2>11. ASSUME "rotate" \notin races, NEW p \in Requests, Rotating(p)'
           PROVE  /\ \A o \in Requests : Rotating(o)' /\ req'[o].token = req'[p].token => o = p
                  /\ \A s \in Created' : sessions'[s].from # req'[p].token
        <3>1. Rotating(p) /\ p # r /\ req'[p] = req[p] BY <2>4, <2>11, ZenonT(30)
        <3>2. \A o \in Requests : Rotating(o)' /\ req'[o].token = req'[p].token => o = p
            BY <2>4, <2>11, <3>1, ZenonT(30) DEF RotationsAlone
        <3>3. \A s \in Created : sessions[s].from # req[p].token
            BY <2>11, <3>1, ZenonT(30) DEF RotationsAlone
        <3>4. from # req[p].token BY <2>8, <2>9, <2>11, <3>1, ZenonT(30)
        <3> QED BY <1>9, <2>1, <2>10, <3>1, <3>2, <3>3, <3>4, ZenonT(30)
    <2>12. RotationsAlone' BY <1>6, <2>11, ZenonT(30) DEF RotationsAlone
    <2>13. OneSuccessor'
        <3>1. ASSUME "rotate" \notin races, NEW s \in Created', NEW t \in Created',
                     sessions'[s].from = sessions'[t].from, sessions'[s].from # 0
              PROVE  s = t
            <4>1. CASE s = k /\ t = k BY <4>1
            <4>2. CASE s \in Created /\ t \in Created
                BY <2>10, <3>1, <4>2, ZenonT(30) DEF OneSuccessor
            <4>3. CASE s = k /\ t \in Created BY <1>9, <2>8, <2>10, <3>1, <4>3, ZenonT(30)
            <4>4. CASE s \in Created /\ t = k BY <1>9, <2>8, <2>10, <3>1, <4>4, ZenonT(30)
            <4> QED BY <2>1, <4>1, <4>2, <4>3, <4>4, ZenonT(30)
        <3> QED BY <1>6, <3>1, ZenonT(30) DEF OneSuccessor
    <2>14. from \in 1..signedOut => "logout" \in races
        <3> SUFFICES ASSUME from \in 1..signedOut PROVE "logout" \in races
            BY Zenon
        <3>1. from # 0 /\ from <= signedOut OBVIOUS
        <3>2. from = req[r].token /\ Rotating(r) BY <1>7, <3>1, Zenon
        <3>3. Rotating(r) /\ req[r].token <= signedOut => "logout" \in races
            BY Zenon DEF RotationsCarry
        <3>4. req[r].token <= signedOut BY <3>1, <3>2, Zenon
        <3> QED BY <3>2, <3>3, <3>4, Zenon
    <2>15. Live' = Live \cup {k} /\ k > signedOut
        <3>1. Live' = Live \cup {k} BY <1>2, <1>9, ZenonT(30) DEF Live
        <3>2. signedOut \in Nat /\ signedOut <= Last BY ZenonT(30) DEF Numbered, TypeOK
        <3> QED BY <1>2, <3>1, <3>2
    <2>16. LogoutHolds'
        BY <1>2, <1>6, <1>9, <2>1, <2>14, <2>15, ZenonT(30) DEF LogoutHolds, Live, Created
    <2> QED BY <2>3, <2>5, <2>7, <2>12, <2>13, <2>16, ZenonT(30)
<1> QED BY <1>10, <1>11, <1>12, ZenonT(30)

-------------------------------------------------------------------------------
(* The audited requests.                                                    *)

\* The documents change or an event is emitted, and no session.
LEMMA AuditMoves ==
    ASSUME IInv, UNCHANGED portalVars, TypeOK', AuditInv',
           \A p \in Requests :
               \/ req'[p] = req[p]
               \/ /\ req'[p].oldest = req[p].oldest \/ req'[p].oldest = {}
                  /\ req'[p].pc \notin {"revoke", "count", "find", "evict", "insert"}
    PROVE  IInv'
<1> USE DEF IInv
<1>1. Aged BY DEF Aged, portalVars
<1>2. SessionInv'
    BY <1>1, SessionsKept, Zenon DEF portalVars, Rotates, SessionInv, RotationsCarry
<1> QED BY <1>2, ZenonT(30)

\* A request to an endpoint of the admin API begins with the first of its commands.
LEMMA AdminRequestInv ==
    ASSUME IInv, NEW r \in Requests, NEW e \in Endpoints, PortalAdminRequest(r, e) PROVE IInv'
<1> USE DEF IInv
<1> DEFINE q == [Idle EXCEPT !.op = e.op, !.kind = e.kind, !.pc = Head(e.steps)]
<1>1. /\ e.op \in {"create", "update", "delete", "test"} /\ e.kind \in Kinds
      /\ Head(e.steps) \in {"snapshot", "write", "log"}
    BY EndpointFacts
<1>2. q \in RequestType BY <1>1, IdleType, ZenonT(30) DEF RequestType, Pcs
<1>3. /\ q.kind \in Kinds /\ q.pc \in {"snapshot", "write", "log"} /\ q.before = None
      /\ q.replaced = None /\ q.oldest = {}
    BY <1>1 DEF Idle
<1>4. req' = [req EXCEPT ![r] = q] BY DEF PortalAdminRequest, AdminRequest
<1> HIDE DEF q
<1>5. /\ req' \in [Requests -> RequestType] /\ req'[r] = q
      /\ \A p \in Requests \ {r} : req'[p] = req[p]
    BY <1>2, <1>4, OneMoves, Zenon
<1>6. UNCHANGED <<resources, faults, portalVars>> BY DEF PortalAdminRequest, AdminRequest
<1>7. TypeOK' BY <1>5, <1>6, ZenonT(30) DEF TypeOK, resources, portalVars
<1>8. AuditInv'
    BY <1>3, <1>5, <1>6, ZenonT(30)
    DEF AuditInv, SnapshotIsCurrent, StoredOrFailed, Heard, BeforeIsReplaced, Misleads, resources
<1> QED BY <1>3, <1>5, <1>6, <1>7, <1>8, AuditMoves, ZenonT(30)

\* The read of the document that the audit event reports as "before".
LEMMA SnapshotInv ==
    ASSUME IInv, NEW r \in Requests, Snapshot(r), UNCHANGED portalVars PROVE IInv'
<1> USE DEF IInv
<1>1. /\ req[r] \in RequestType /\ req[r].pc = "snapshot" /\ req[r].kind \in Kinds
      /\ req[r].before = None /\ req[r].replaced = None
      /\ docs[req[r].kind] \in 0..MaxWrites
    BY DEF TypeOK, Snapshot, AuditInv, SnapshotIsCurrent
<1>2. PICK v \in {None, docs[req[r].kind]} :
        \/ req' = [req EXCEPT ![r] = [req[r] EXCEPT !.pc = "write", !.before = v]]
        \/ req' = [req EXCEPT ![r] = [req[r] EXCEPT !.pc = "write"]] /\ v = None
    BY ZenonT(30) DEF Snapshot, SnapshotOf, Step
<1>3. PICK q \in RequestType : /\ req' = [req EXCEPT ![r] = q]
                               /\ q.pc = "write" /\ q.before = v /\ q.kind = req[r].kind
                               /\ q.replaced = None /\ q.oldest = req[r].oldest
    <2>1. v \in 0..None BY <1>1, AuditAssumption DEF None
    <2>2. CASE req' = [req EXCEPT ![r] = [req[r] EXCEPT !.pc = "write", !.before = v]]
        <3> DEFINE q == [req[r] EXCEPT !.pc = "write", !.before = v]
        <3>1. q \in RequestType BY <1>1, <2>1, RequestUpdates, ZenonT(30) DEF Pcs
        <3>2. /\ q.pc = "write" /\ q.before = v /\ q.kind = req[r].kind
              /\ q.replaced = None /\ q.oldest = req[r].oldest
            BY <1>1 DEF RequestType
        <3> HIDE DEF q
        <3> QED BY <2>2, <3>1, <3>2, ZenonT(30) DEF q
    <2>3. CASE req' = [req EXCEPT ![r] = [req[r] EXCEPT !.pc = "write"]] /\ v = None
        <3> DEFINE q == [req[r] EXCEPT !.pc = "write"]
        <3>1. q \in RequestType BY <1>1, <2>1, RequestUpdates, ZenonT(30) DEF Pcs
        <3>2. /\ q.pc = "write" /\ q.before = v /\ q.kind = req[r].kind
              /\ q.replaced = None /\ q.oldest = req[r].oldest
            BY <1>1, <2>3 DEF RequestType
        <3> HIDE DEF q
        <3> QED BY <2>3, <3>1, <3>2, ZenonT(30) DEF q
    <2> QED BY <1>2, <2>2, <2>3, ZenonT(30)
<1>4. /\ req' \in [Requests -> RequestType] /\ req'[r] = q
      /\ \A p \in Requests \ {r} : req'[p] = req[p]
    BY <1>3, OneMoves, ZenonT(30)
<1>5. UNCHANGED <<resources, portalVars>> /\ faults \in SUBSET faults'
    BY ZenonT(30) DEF Snapshot, NoFault, Fault
<1>6. TypeOK' BY <1>4, <1>5, ZenonT(30) DEF TypeOK, resources, portalVars
<1>7. AuditInv'
    BY <1>1, <1>3, <1>4, <1>5, ZenonT(30)
    DEF AuditInv, SnapshotIsCurrent, StoredOrFailed, Heard, BeforeIsReplaced, Misleads, resources
<1> QED BY <1>3, <1>4, <1>5, <1>6, <1>7, AuditMoves, ZenonT(30)

\* The write of an admin request: the other requests' snapshots of that document
\* are out of date.
LEMMA WriteInv ==
    ASSUME IInv, NEW r \in Requests, Write(r), UNCHANGED portalVars PROVE IInv'
<1> USE DEF IInv
<1> DEFINE k == req[r].kind
<1>0. /\ req[r].pc = "write" /\ writes < MaxWrites /\ writes' = writes + 1
      /\ docs' = [docs EXCEPT ![k] = IF req[r].op = "delete" THEN 0 ELSE writes + 1]
    BY ZenonT(30) DEF Write
<1>1. /\ req[r] \in RequestType /\ k \in Kinds /\ docs[k] \in 0..MaxWrites /\ docs[k] # None
      /\ ~req[r].raced => req[r].before \in {None, docs[k]}
    <2>1. /\ req[r] \in RequestType /\ k \in Kinds
          /\ ~req[r].raced => req[r].before \in {None, docs[k]}
        <3>1. req[r] \in RequestType BY ZenonT(30) DEF TypeOK
        <3>2. k \in Kinds /\ (~req[r].raced => req[r].before \in {None, docs[k]})
            BY <1>0, ZenonT(30) DEF AuditInv, SnapshotIsCurrent
        <3> QED BY <3>1, <3>2, Zenon
    <2>2. docs[k] \in 0..MaxWrites BY <2>1, ZenonT(30) DEF TypeOK
    <2> QED BY <2>1, <2>2, NoneAbove, Zenon
<1>2. docs' \in [Kinds -> 0..MaxWrites] /\ \A j \in Kinds \ {k} : docs'[j] = docs[j]
    BY <1>0, <1>1, AuditAssumption DEF TypeOK
<1>3. writes' \in 0..MaxWrites BY <1>0, AuditAssumption DEF TypeOK
<1>4. /\ req'[r] \in RequestType /\ req'[r].pc \in {"log", "idle"}
      /\ req'[r].pc = "idle" => req'[r].replaced = None
      /\ ~Misleads(req'[r])
      /\ req'[r].oldest = req[r].oldest \/ req'[r].oldest = {}
    <2>1. CASE req'[r] = Idle BY <2>1, IdleType, IdleFields, ZenonT(30)
    <2>2. CASE req'[r] = [req[r] EXCEPT !.pc = "log", !.replaced = docs[k]]
        <3>1. docs[k] \in 0..None BY <1>1, NoneAbove, Zenon
        <3>2. \A v \in 0..None : [req[r] EXCEPT !.pc = "log", !.replaced = v] \in RequestType
            BY <1>1, RequestUpdates, ZenonT(30) DEF Pcs
        <3>3. req'[r] \in RequestType BY <2>2, <3>1, <3>2, ZenonT(30)
        <3> QED BY <1>1, <2>2, <3>3, ZenonT(30) DEF RequestType, Misleads
    <2> QED BY <2>1, <2>2, ZenonT(30) DEF Write
<1>5. ASSUME NEW p \in Requests \ {r}
      PROVE  /\ req'[p] \in RequestType
             /\ \/ /\ req'[p] = req[p]
                   /\ req[p].pc = "write" => req[p].kind # k
                \/ /\ req[p].pc = "write" /\ req'[p].pc = "write"
                   /\ req'[p].raced /\ req'[p].kind = req[p].kind
                   /\ req'[p].replaced = req[p].replaced /\ req'[p].oldest = req[p].oldest
    <2>1. req[p] \in RequestType BY DEF TypeOK
    <2>2. CASE req[p].pc = "write" /\ req[p].kind = k
        <3>1. req'[p] = [req[p] EXCEPT !.raced = TRUE] BY <2>2, ZenonT(30) DEF Write
        <3>2. req'[p] \in RequestType BY <2>1, <3>1, RequestUpdates, <2>2, ZenonT(30) DEF Pcs
        <3> QED BY <2>1, <2>2, <3>1, <3>2 DEF RequestType
    <2>3. CASE ~(req[p].pc = "write" /\ req[p].kind = k)
        <3>1. req'[p] = req[p] BY <2>3, ZenonT(30) DEF Write
        <3> QED BY <2>1, <2>3, <3>1
    <2> QED BY <2>2, <2>3, ZenonT(30)
<1>6. UNCHANGED <<misled, silent, faults, portalVars>> BY Zenon DEF Write, NoFault
<1>7. TypeOK'
    <2>1. req' \in [Requests -> RequestType] BY <1>4, <1>5, ZenonT(30) DEF Write
    <2> QED BY <1>2, <1>3, <1>6, <2>1, ZenonT(30) DEF TypeOK, portalVars
<1> HIDE DEF k
<1>8. AuditInv'
    <2> USE DEF AuditInv
    <2>1. SnapshotIsCurrent'
        <3>1. ASSUME NEW p \in Requests \ {r}, req'[p] = req[p], req[p].pc = "write", ~req[p].raced
              PROVE  docs'[req[p].kind] = docs[req[p].kind]
            <4>1. req[p].kind \in Kinds BY <3>1, Zenon DEF SnapshotIsCurrent
            <4>2. req[p].kind # k BY <1>5, <3>1, ZenonT(30)
            <4> QED BY <1>2, <4>1, <4>2, Zenon
        <3> DEFINE Current(p) ==
                /\ req'[p].pc \in {"snapshot", "write"} => req'[p].kind \in Kinds
                /\ req'[p].pc = "snapshot" => req'[p].before = None
                /\ req'[p].pc = "write" /\ ~req'[p].raced
                       => req'[p].before \in {None, docs'[req'[p].kind]}
                /\ req'[p].pc \notin {"log", "publish", "cookies", "clear"} => req'[p].replaced = None
                /\ req'[p].pc = "log" => ~Misleads(req'[p])
        <3>2. ASSUME NEW p \in Requests PROVE Current(p)
            <4>1. CASE p = r
                <5>1. req'[p].pc \in {"log", "idle"} BY <1>4, <4>1, Zenon
                <5> QED BY <1>4, <4>1, <5>1, ZenonT(30)
            <4>2. CASE p # r /\ req'[p] = req[p]
                <5>1. req[p].pc = "write" /\ ~req[p].raced => req[p].before \in {None, docs'[req[p].kind]}
                    BY <3>1, <4>2, ZenonT(30) DEF SnapshotIsCurrent
                <5> QED BY <4>2, <5>1, ZenonT(30) DEF SnapshotIsCurrent
            <4>3. CASE p # r /\ req'[p] # req[p]
                <5>1. /\ req[p].pc = "write" /\ req'[p].pc = "write" /\ req'[p].raced
                      /\ req'[p].kind = req[p].kind /\ req'[p].replaced = req[p].replaced
                    BY <1>5, <4>3, ZenonT(30)
                <5>2. req[p].kind \in Kinds /\ req[p].replaced = None
                    BY <5>1, ZenonT(30) DEF SnapshotIsCurrent
                <5> QED BY <5>1, <5>2, ZenonT(30)
            <4> QED BY <4>1, <4>2, <4>3, Zenon
        <3> QED BY <3>2, Zenon DEF SnapshotIsCurrent
    <2>2. StoredOrFailed'
        <3>1. \A p \in Requests : req'[p] = req[p] \/ req'[p].pc # "publish"
            BY <1>4, <1>5, ZenonT(30)
        <3> QED BY <1>6, <3>1, ZenonT(30) DEF StoredOrFailed
    <2>3. Heard' /\ BeforeIsReplaced' BY <1>6, Zenon DEF Heard, BeforeIsReplaced
    <2> QED BY <2>1, <2>2, <2>3, ZenonT(30)
<1>9. \A p \in Requests :
         \/ req'[p] = req[p]
         \/ /\ req'[p].oldest = req[p].oldest \/ req'[p].oldest = {}
            /\ req'[p].pc \notin {"revoke", "count", "find", "evict", "insert"}
    BY <1>4, <1>5, Zenon
<1> QED BY <1>6, <1>7, <1>8, <1>9, AuditMoves, ZenonT(30)

\* A request that finds nothing to change, or whose command fails, ends.
LEMMA RejectedInv ==
    ASSUME IInv, NEW r \in Requests, Rejected(r), UNCHANGED portalVars PROVE IInv'
<1>1. Beside
    BY Zenon DEF Rejected, Beside, resources, portalVars, Fault, NoFault, IInv, TypeOK
<1> QED BY <1>1, Finishes, Zenon DEF Rejected

\* emit, first command: the event is stored or MongoDB failed.
LEMMA EmitLogInv ==
    ASSUME IInv, NEW r \in Requests, EmitLog(r), UNCHANGED portalVars PROVE IInv'
<1> USE DEF IInv
<1>1. req[r] \in RequestType /\ req[r].pc = "log" /\ ~Misleads(req[r])
    BY DEF TypeOK, EmitLog, AuditInv, SnapshotIsCurrent
<1>2. PICK q \in RequestType : /\ req' = [req EXCEPT ![r] = q]
                               /\ q.pc = "publish" /\ q.oldest = req[r].oldest
                               /\ q.stored \/ "mongo" \in faults'
    <2>1. CASE req' = [req EXCEPT ![r] = [req[r] EXCEPT !.pc = "publish", !.stored = TRUE]]
        <3> DEFINE q == [req[r] EXCEPT !.pc = "publish", !.stored = TRUE]
        <3>1. q \in RequestType BY <1>1, RequestUpdates, ZenonT(30) DEF Pcs
        <3>2. q.pc = "publish" /\ q.oldest = req[r].oldest /\ q.stored
            BY <1>1 DEF RequestType
        <3> HIDE DEF q
        <3> QED BY <2>1, <3>1, <3>2, ZenonT(30) DEF q
    <2>2. CASE Step(r, "publish") /\ Fault("mongo")
        <3> DEFINE q == [req[r] EXCEPT !.pc = "publish"]
        <3>1. q \in RequestType BY <1>1, RequestUpdates, ZenonT(30) DEF Pcs
        <3>2. q.pc = "publish" /\ q.oldest = req[r].oldest
            BY <1>1 DEF RequestType
        <3>3. "mongo" \in faults' BY <2>2 DEF Fault
        <3> HIDE DEF q
        <3> QED BY <2>2, <3>1, <3>2, <3>3, ZenonT(30) DEF q, Step
    <2> QED BY <2>1, <2>2 DEF EmitLog
<1>3. /\ req' \in [Requests -> RequestType] /\ req'[r] = q
      /\ \A p \in Requests \ {r} : req'[p] = req[p]
    BY <1>2, OneMoves, ZenonT(30)
<1>4. UNCHANGED <<docs, writes, misled, silent, portalVars>> /\ faults \in SUBSET faults'
    BY <1>1, ZenonT(30) DEF EmitLog, NoFault, Fault
<1>5. TypeOK' BY <1>3, <1>4, ZenonT(30) DEF TypeOK, portalVars
<1>6. AuditInv'
    <2> USE DEF AuditInv
    <2>1. SnapshotIsCurrent' BY <1>2, <1>3, <1>4, ZenonT(30) DEF SnapshotIsCurrent
    <2>2. StoredOrFailed' BY <1>2, <1>3, <1>4, ZenonT(30) DEF StoredOrFailed
    <2>3. Heard' /\ BeforeIsReplaced' BY <1>4, ZenonT(30) DEF Heard, BeforeIsReplaced
    <2> QED BY <2>1, <2>2, <2>3, Zenon
<1> QED BY <1>2, <1>3, <1>4, <1>5, <1>6, AuditMoves, ZenonT(30)

\* emit, second command: the event is published or Redis failed.
LEMMA EmitPublishInv ==
    ASSUME IInv, NEW r \in Requests, EmitPublish(r, AfterEvent(r)), UNCHANGED portalVars
    PROVE  IInv'
<1> USE DEF IInv
<1>1. req[r] \in RequestType /\ req[r].pc = "publish" BY DEF TypeOK, EmitPublish
<1>2. PICK q \in RequestType : /\ req' = [req EXCEPT ![r] = q] /\ q.pc \in {"clear", "cookies", "idle"}
                               /\ q.oldest = req[r].oldest \/ q.oldest = {}
                               /\ q.pc = "idle" => q.replaced = None
    <2> DEFINE q == AfterEvent(r)
    <2>1. /\ q \in RequestType /\ q.pc \in {"clear", "cookies", "idle"}
          /\ q.oldest = req[r].oldest \/ q.oldest = {}
          /\ q.pc = "idle" => q.replaced = None
        <3>1. ASSUME NEW x \in {"clear", "cookies"}, q = [req[r] EXCEPT !.pc = x, !.stored = FALSE]
              PROVE  q \in RequestType /\ q.pc = x /\ q.oldest = req[r].oldest
            <4>0. \A v \in BOOLEAN : [req[r] EXCEPT !.pc = x, !.stored = v] \in RequestType
                BY <1>1, RequestUpdates, ZenonT(30) DEF Pcs
            <4>1. q \in RequestType BY <3>1, <4>0, ZenonT(30)
            <4> QED BY <1>1, <3>1, <4>1 DEF RequestType
        <3>2. CASE q = Idle BY <3>2, IdleType, IdleFields, ZenonT(30)
        <3> QED BY <3>1, <3>2, ZenonT(30) DEF AfterEvent
    <2>2. req' = [req EXCEPT ![r] = q] BY DEF EmitPublish
    <2> HIDE DEF q
    <2> QED BY <2>1, <2>2, ZenonT(30)
<1>3. /\ req' \in [Requests -> RequestType] /\ req'[r] = q
      /\ \A p \in Requests \ {r} : req'[p] = req[p]
    BY <1>2, OneMoves, ZenonT(30)
<1>4. UNCHANGED <<docs, writes, misled, portalVars>> /\ faults \in SUBSET faults'
    BY ZenonT(30) DEF EmitPublish, NoFault, Fault
<1>5. TypeOK' BY <1>3, <1>4, ZenonT(30) DEF TypeOK, portalVars
<1>6. req[r].stored \/ "mongo" \in faults BY <1>1, ZenonT(30) DEF AuditInv, StoredOrFailed
<1>7. Heard'
    <2>1. CASE UNCHANGED silent BY <1>4, <2>1 DEF AuditInv, Heard
    <2>2. CASE ~req[r].stored /\ Fault("redis") BY <1>6, <2>2, ZenonT(30) DEF Fault, Heard
    <2> QED BY <2>1, <2>2 DEF EmitPublish, PublishedAnyway
<1>8. AuditInv'
    BY <1>2, <1>3, <1>4, <1>7, ZenonT(30)
    DEF AuditInv, SnapshotIsCurrent, StoredOrFailed, BeforeIsReplaced, Misleads
<1> QED BY <1>2, <1>3, <1>4, <1>5, <1>8, AuditMoves, ZenonT(30)

-------------------------------------------------------------------------------

\* Nobody has made a request; the user has one session, or none.
LEMMA InitInv == Init => IInv
<1> SUFFICES ASSUME Init PROVE IInv OBVIOUS
<1> USE PortalAssumption, AuditAssumption
<1>0. /\ req = [r \in Requests |-> Idle] /\ docs = [k \in Kinds |-> 0] /\ writes = 0
      /\ misled = {} /\ silent = {} /\ signedOut = 0
    BY DEF Init, AuditInit
<1>1. \A r \in Requests : req[r] = Idle BY <1>0, ZenonT(30)
<1>2. /\ Idle.pc = "idle" /\ Idle.replaced = None /\ Idle.oldest = {} /\ ~Rotates(Idle)
      /\ ~Misleads(Idle)
    BY DEF Idle, Rotates, Misleads
<1>3. /\ sessions \in SessionsType /\ \A s \in Ids : sessions[s].from = 0
      /\ \/ \A s \in Ids : sessions[s].state = "none"
         \/ \A s \in Ids : IF s = 1 THEN sessions[s].state = "live" ELSE sessions[s].state = "none"
    BY DEF Init, SessionsType, Unused, Ids
<1>4. browser \in [Browsers -> BrowserType]
    <2>1. SignedOut \in BrowserType BY DEF SignedOut, BrowserType
    <2>2. [SignedOut EXCEPT !.challenge = (family = "sessions")] \in BrowserType
        <3>1. (family = "sessions") \in BOOLEAN OBVIOUS
        <3> QED BY <2>1, <3>1, CookieUpdates, ZenonT(30)
    <2>3. [SignedOut EXCEPT !.access = TRUE, !.refresh = 1] \in BrowserType
        <3>1. 1 \in 0..MaxSessions /\ TRUE \in BOOLEAN OBVIOUS
        <3> QED BY <2>1, <3>1, CookieUpdates, ZenonT(30)
    <2>4. \E c \in BrowserType : browser = [b \in Browsers |-> c] BY <2>2, <2>3, ZenonT(30) DEF Init
    <2> QED BY <2>4
<1>5. TypeOK BY <1>0, <1>3, <1>4, IdleType DEF TypeOK
<1>6. AuditInv
    BY <1>0, <1>1, <1>2, ZenonT(30)
    DEF AuditInv, SnapshotIsCurrent, StoredOrFailed, Heard, BeforeIsReplaced
<1>7. PICK n \in Nat : Created = 1..n
    BY <1>3 DEF Created, Ids
<1>8. Last = n BY <1>7, FS_Interval DEF Last
<1>9. SessionInv
    <2>1. Numbered BY <1>0, <1>7, <1>8 DEF Numbered
    <2>2. RotationsCarry /\ RotationsAlone
        BY <1>1, <1>2, ZenonT(30) DEF RotationsCarry, RotationsAlone, Rotating
    <2>3. PredecessorsRevoked /\ OneSuccessor
        BY <1>3, ZenonT(30) DEF PredecessorsRevoked, OneSuccessor, Created
    <2>4. LogoutHolds BY <1>0, <1>3 DEF LogoutHolds, Live, Ids
    <2> QED BY <2>1, <2>2, <2>3, <2>4, ZenonT(30) DEF SessionInv
<1> QED BY <1>5, <1>6, <1>9, ZenonT(30) DEF IInv

\* Every step of every request preserves the invariant.
LEMMA StepInv == IInv /\ [Next]_vars => IInv'
<1> SUFFICES ASSUME IInv, [Next]_vars PROVE IInv' OBVIOUS
<1>1. ASSUME NEW r \in Requests, SessionSteps(r) PROVE IInv'
    BY <1>1, PlainInv, RotationInv, InsertInv, ZenonT(30) DEF SessionSteps
<1>2. ASSUME NEW r \in Requests, Audited(r) PROVE IInv'
    BY <1>2, SnapshotInv, WriteInv, RejectedInv, EmitLogInv, EmitPublishInv, ZenonT(30)
    DEF Audited, AdminSteps
<1>3. ASSUME NEW r \in Requests, get_token(r) \/ Dies(r) PROVE IInv'
    BY <1>3, PlainInv, ZenonT(30)
<1>4. ASSUME NEW r \in Requests, NEW b \in Browsers,
             \/ LoginIncr(r, b) \/ VerifyCode(r, b) \/ Enroll(r, b)
             \/ RotateFind(r, b) \/ Logout(r, b)
      PROVE  IInv'
    BY <1>4, PlainInv, RotateFindInv, LogoutInv, ZenonT(30)
<1> QED BY <1>1, <1>2, <1>3, <1>4, AdminRequestInv, TimeInv, ZenonT(30) DEF Next

\* The inductive invariant holds at every moment of every behaviour.
LEMMA AlwaysInv == Spec => []IInv
BY InitInv, StepInv, PTL DEF Spec

\* Type correctness, for the requests in flight and what they share.
THEOREM TypeCorrect == Spec => []TypeOK
<1>1. IInv => TypeOK BY ZenonT(30) DEF IInv
<1> QED BY AlwaysInv, <1>1, PTL

\* rotate: a refresh token has one successor, unless two requests found it before
\* either revoked it.
THEOREM TokenHasOneSuccessor == Spec => []OneSuccessor
<1>1. IInv => OneSuccessor BY ZenonT(30) DEF IInv, SessionInv
<1> QED BY AlwaysInv, <1>1, PTL

\* portal_logout: no session of before a logout is alive after it, nor one rotated
\* from such a session, unless a rotation was under way when revoke_all ran.
THEOREM LogoutIsFinal == Spec => []LogoutHolds
<1>1. IInv => LogoutHolds BY DEF IInv, SessionInv
<1> QED BY AlwaysInv, <1>1, PTL

\* AuditEmitter.emit: an answered request left its event in MongoDB or on the
\* operators' stream, unless both failed.
THEOREM EventsAreHeard == Spec => []Heard
<1>1. IInv => Heard BY ZenonT(30) DEF IInv, AuditInv
<1> QED BY AlwaysInv, <1>1, PTL

\* The "before" of a stored event is what the change replaced, unless another
\* request wrote between snapshot and write.
THEOREM BeforeIsTrue == Spec => []BeforeIsReplaced
<1>1. IInv => BeforeIsReplaced BY DEF IInv, AuditInv
<1> QED BY AlwaysInv, <1>1, PTL

\* A step keeps every revoked session revoked and every session's origin.
RevocationKept ==
    \A s \in Created : /\ sessions[s].state = "revoked" => sessions'[s].state = "revoked"
                       /\ sessions'[s].from = sessions[s].from

\* Nothing PortalSessionManager does brings a revoked session back, or changes the
\* token a session was rotated from: create_session takes a new document.
THEOREM RevocationIsFinal == Spec => [][RevocationKept]_vars
<1>1. IInv /\ [Next]_vars => [RevocationKept]_vars
    <2> SUFFICES ASSUME IInv, Next PROVE RevocationKept BY ZenonT(30)
    <2>1. Created \in SUBSET Ids /\ sessions \in SessionsType
        BY ZenonT(30) DEF Created, IInv, TypeOK
    <2>2. CASE UNCHANGED sessions BY <2>2 DEF RevocationKept
    <2>3. ASSUME NEW S, Revoke(S) PROVE RevocationKept
        BY <2>1, <2>3, ZenonT(30) DEF Revoke, RevocationKept, SessionsType
    <2>4. ASSUME NEW r \in Requests, InsertSession(r) PROVE RevocationKept
        <3>1. \A s \in Created : sessions'[s] = sessions[s]
            BY <2>1, <2>4 DEF InsertSession, IInv, SessionInv, Numbered, SessionsType
        <3> QED BY <3>1 DEF RevocationKept
    <2>5. ASSUME NEW s \in Ids, SessionExpires(s) PROVE RevocationKept
        BY <2>1, <2>5, ZenonT(30) DEF SessionExpires, RevocationKept, SessionsType
    <2>6. ASSUME NEW r \in Requests, SessionSteps(r) PROVE RevocationKept
        BY <2>2, <2>3, <2>4, <2>6, ZenonT(30)
        DEF SessionSteps, LoginExpire, LoginPassword, CountSessions, FindOldest, EvictOldest,
            SetCookies, RotateRevoke, ClearCookies, portalVars
    <2>7. ASSUME NEW r \in Requests, NEW b \in Browsers,
                 \/ LoginIncr(r, b) \/ VerifyCode(r, b) \/ Enroll(r, b)
                 \/ RotateFind(r, b) \/ Logout(r, b)
          PROVE  RevocationKept
        BY <2>2, <2>3, <2>7, ZenonT(30) DEF LoginIncr, VerifyCode, Enroll, RotateFind, Logout, portalVars
    <2> QED
        BY <2>2, <2>5, <2>6, <2>7, ZenonT(30)
        DEF Next, Audited, get_token, Dies, PortalAdminRequest, LogoutUnknown, AccessExpires,
            WindowEnds, portalVars
<1> QED BY AlwaysInv, <1>1, PTL DEF Spec

-------------------------------------------------------------------------------
(***************************************************************************)
(* EVENT STREAMS: the leader of the alert pollers and the slots of the     *)
(* streams.  That there is one leader rests on where the lock is           *)
(* (LeaderHoldsLock); the slots are conserved step by step; that no queue  *)
(* outgrows _QUEUE_MAXSIZE needs the types only.                           *)
(***************************************************************************)

Item == [event : {"alert.firing", "alert.resolved", "audit.append", "None"},
         alert : Alerts \cup {"none"}]
PodType == [pc : {"off", "compete", "poll", "publish", "renew", "extend", "failed"},
            prev : SUBSET Alerts, got : SUBSET Alerts, todo : SUBSET Item]

EventTypeOK ==
    /\ firing \in SUBSET Alerts /\ lock \in Pods \cup {"none"}
    /\ pod \in [Pods -> PodType] /\ wire \in Seq(Item)
    /\ stream \in [Clients -> {"none", "accepted", "leaked", "metrics"} \cup Channels]
    /\ queue \in [Clients -> Seq(Item)]
    /\ value \in Nat

\* While no leader was late, whoever polls is named by the lock.
LeaderHoldsLock == redis_ready /\ "late" \notin outages => \A p \in Leading : p = lock

\* put_nowait refuses what is more than _QUEUE_MAXSIZE.
QueuesBounded == \A c \in Clients : Len(queue[c]) <= maxsize

EventInv == EventTypeOK /\ LeaderHoldsLock /\ QueuesBounded /\ SlotsConserved

-------------------------------------------------------------------------------
(* Lemmas about the definitions.                                            *)

\* Streams that hold a slot.
Held == {c \in Clients : stream[c] # "none"}

\* How many slots are held follows from which.
LEMMA HeldCount ==
    /\ IsFiniteSet(Held) /\ Cardinality(Held) \in Nat
    /\ Held' = Held => Cardinality(Held') = Cardinality(Held)
    /\ \A c : c \notin Held /\ Held' = Held \cup {c} => Cardinality(Held') = Cardinality(Held) + 1
    /\ \A c : c \in Held /\ Held' = Held \ {c} => Cardinality(Held') = Cardinality(Held) - 1
<1>1. IsFiniteSet(Held)
    <2>1. Held \in SUBSET Clients BY DEF Held
    <2> QED BY <2>1, StreamAssumption, FS_Subset
<1>2. Cardinality(Held) \in Nat BY <1>1, FS_CardinalityType, ZenonT(30)
<1>3. \A c : c \notin Held => Cardinality(Held \cup {c}) = Cardinality(Held) + 1
    BY <1>1, FS_AddElement, ZenonT(30)
<1>4. \A c : c \in Held => Cardinality(Held \ {c}) = Cardinality(Held) - 1
    BY <1>1, FS_RemoveElement, ZenonT(30)
<1> QED BY <1>1, <1>2, <1>3, <1>4, ZenonT(30)

\* The slots, in terms of the streams that hold one.
LEMMA Slots == SlotsConserved <=> value \in Nat /\ value + Cardinality(Held) = max_conn
BY DEF SlotsConserved, Held

\* Putting an item keeps the queues typed and within their size.
LEMMA PutKeeps ==
    ASSUME EventTypeOK, QueuesBounded, NEW S, NEW item \in Item, queue' = Put(S, item)
    PROVE  queue' \in [Clients -> Seq(Item)] /\ QueuesBounded'
<1>1. ASSUME NEW c \in Clients
      PROVE  queue'[c] \in Seq(Item) /\ Len(queue'[c]) <= maxsize
    BY StreamAssumption DEF EventTypeOK, QueuesBounded, Put, Full
<1> QED BY <1>1, ZenonT(30) DEF Put, QueuesBounded

\* Taking one, or dropping them all, does, too.
LEMMA TakeKeeps ==
    ASSUME EventTypeOK, QueuesBounded, NEW c \in Clients,
           \/ queue' = [queue EXCEPT ![c] = <<>>]
           \/ queue[c] # <<>> /\ queue' = [queue EXCEPT ![c] = Tail(@)]
    PROVE  queue' \in [Clients -> Seq(Item)] /\ QueuesBounded'
<1>1. ASSUME NEW d \in Clients
      PROVE  queue'[d] \in Seq(Item) /\ Len(queue'[d]) <= maxsize
    <2>1. queue[d] \in Seq(Item) /\ Len(queue[d]) <= maxsize BY DEF EventTypeOK, QueuesBounded
    <2>2. CASE queue'[d] = queue[d] BY <2>1, <2>2, ZenonT(30)
    <2>3. CASE queue'[d] = <<>> BY <2>3, StreamAssumption
    <2>4. CASE queue[d] # <<>> /\ queue'[d] = Tail(queue[d]) BY <2>1, <2>4, StreamAssumption
    <2> QED BY <2>2, <2>3, <2>4, ZenonT(30) DEF EventTypeOK
<1> QED BY <1>1, ZenonT(30) DEF QueuesBounded, EventTypeOK

\* What is published is a well-typed event.
LEMMA AppendItem == \A s \in Seq(Item), e \in Item : Append(s, e) \in Seq(Item)
OBVIOUS

\* The invariant holds before any pod polls and any browser connects.
LEMMA EventInitInv == EventInit => EventInv
<1> SUFFICES ASSUME EventInit PROVE EventInv OBVIOUS
<1>1. EventTypeOK
    <2>1. wire = <<>> /\ <<>> \in Seq(Item) BY DEF EventInit, PollInit
    <2>2. value \in Nat BY StreamAssumption DEF EventInit
    <2>3. pod \in [Pods -> PodType] /\ firing \in SUBSET Alerts /\ lock \in Pods \cup {"none"}
        BY ZenonT(30) DEF EventInit, PollInit, PodType, Off
    <2>4. /\ stream \in [Clients -> {"none", "accepted", "leaked", "metrics"} \cup Channels]
          /\ queue \in [Clients -> Seq(Item)]
        BY <2>1, ZenonT(30) DEF EventInit
    <2> QED BY <2>1, <2>2, <2>3, <2>4, ZenonT(30) DEF EventTypeOK
<1>2. LeaderHoldsLock BY DEF EventInit, PollInit, LeaderHoldsLock, Leading, Off
<1>3. QueuesBounded BY StreamAssumption DEF EventInit, QueuesBounded
<1>4. SlotsConserved
    <2>1. Held = {} BY DEF Held, EventInit
    <2>2. Cardinality(Held) = 0 BY <2>1, FS_EmptySet, ZenonT(30)
    <2> QED BY <2>2, StreamAssumption, Slots DEF EventInit
<1> QED BY <1>1, <1>2, <1>3, <1>4, ZenonT(30) DEF EventInv

\* A pod's record, with a field or two changed.
LEMMA PodUpdates ==
    ASSUME NEW q \in PodType, NEW at \in {"off", "compete", "poll", "publish", "renew", "extend"}
    PROVE  /\ [q EXCEPT !.pc = at] \in PodType
           /\ \A S \in SUBSET Item : [q EXCEPT !.todo = S] \in PodType
           /\ \A G \in SUBSET Alerts, S \in SUBSET Item :
                 [q EXCEPT !.pc = at, !.got = G, !.todo = S] \in PodType
           /\ \A G \in SUBSET Alerts : [pc |-> at, prev |-> G, got |-> {}, todo |-> {}] \in PodType
BY ZenonT(30) DEF PodType

-------------------------------------------------------------------------------
(* The inductive invariant, component by component.                         *)

\* A pod's worker moves on; the lock stays, or names the pod that enters the loop.
LEMMA PodMoves ==
    ASSUME EventTypeOK, LeaderHoldsLock, NEW p \in Pods, NEW q \in PodType,
           pod' = [pod EXCEPT ![p] = q], UNCHANGED redis_ready, outages \in SUBSET outages',
           \/ UNCHANGED lock /\ (q.pc \in {"poll", "publish", "renew", "extend"} => p \in Leading)
           \/ redis_ready /\ lock = "none" /\ lock' = p
           \/ ~redis_ready
    PROVE  pod' \in [Pods -> PodType] /\ LeaderHoldsLock'
<1>1. /\ pod' \in [Pods -> PodType] /\ pod'[p] = q
      /\ \A o \in Pods \ {p} : pod'[o] = pod[o]
    BY ZenonT(30) DEF EventTypeOK
<1>2. Leading' \in SUBSET (Leading \cup {p})
    BY <1>1, ZenonT(30) DEF Leading
<1>3. CASE UNCHANGED lock /\ (q.pc \in {"poll", "publish", "renew", "extend"} => p \in Leading)
    <2>1. Leading' \in SUBSET Leading BY <1>1, <1>2, <1>3, ZenonT(30) DEF Leading
    <2> QED BY <1>1, <1>3, <2>1, ZenonT(30) DEF LeaderHoldsLock
<1>4. CASE redis_ready /\ lock = "none" /\ lock' = p
    BY <1>1, <1>2, <1>4, PollerAssumption, ZenonT(30) DEF LeaderHoldsLock, Leading
<1>5. CASE ~redis_ready BY <1>1, <1>5, ZenonT(30) DEF LeaderHoldsLock
<1> QED BY <1>3, <1>4, <1>5, ZenonT(30)

\* What a pod publishes are events of alerts.
LEMMA ChangesType ==
    ASSUME EventTypeOK, NEW p \in Pods, NEW S \in SUBSET Alerts
    PROVE  Changes(p, S) \in SUBSET Item
BY DEF EventTypeOK, PodType, Changes, Resolved, Event, Item

\* The worker of a pod: every step moves that pod's record only.
LEMMA WorkerInv ==
    ASSUME EventTypeOK, LeaderHoldsLock, NEW p \in Pods, AmPoller(p) \/ stop(p)
    PROVE  /\ firing' \in SUBSET Alerts /\ lock' \in Pods \cup {"none"}
           /\ pod' \in [Pods -> PodType] /\ wire' \in Seq(Item) /\ LeaderHoldsLock'
<1> DEFINE LeadPcs == {"poll", "publish", "renew", "extend"}
<1>0. /\ pod[p] \in PodType /\ pod \in [Pods -> PodType] /\ firing \in SUBSET Alerts
      /\ lock \in Pods \cup {"none"} /\ wire \in Seq(Item) /\ {} \in SUBSET Alerts
    BY DEF EventTypeOK
<1>1. /\ Off \in PodType /\ Off.pc = "off"
      /\ [Off EXCEPT !.pc = "compete"] \in PodType /\ [Off EXCEPT !.pc = "compete"].pc = "compete"
    BY DEF Off, PodType
<1>2. \A at \in {"off", "compete", "poll", "publish", "renew", "extend"} :
         [pod[p] EXCEPT !.pc = at] \in PodType /\ [pod[p] EXCEPT !.pc = at].pc = at
    BY <1>0, ZenonT(30) DEF PodType
<1>3. pod[p].pc \in LeadPcs <=> p \in Leading BY DEF Leading
<1>4. CASE start(p)
    BY <1>0, <1>1, <1>4, PodMoves, ZenonT(30) DEF start
<1>5. CASE stop(p)
    BY <1>0, <1>1, <1>5, PodMoves, ZenonT(30) DEF stop, Outage
<1>6. CASE _try_acquire_lock(p)
    <2>1. PICK q \in PodType : pod' = [pod EXCEPT ![p] = q]
        <3>1. CASE PodAt(p, "poll") BY <1>2, <3>1, ZenonT(30) DEF PodAt
        <3>2. CASE UNCHANGED pod
            <4>1. pod' = [pod EXCEPT ![p] = pod[p]] BY <1>0, <3>2
            <4> QED BY <1>0, <4>1, ZenonT(30)
        <3> QED BY <1>6, <3>1, <3>2, ZenonT(30) DEF _try_acquire_lock
    <2>2. UNCHANGED <<firing, redis_ready, wire>> /\ outages \in SUBSET outages'
        BY <1>6, ZenonT(30) DEF _try_acquire_lock, NoOutage, Outage
    <2>3. \/ redis_ready /\ lock = "none" /\ lock' = p
          \/ ~redis_ready /\ UNCHANGED lock
        BY <1>6 DEF _try_acquire_lock, LockFree
    <2> QED BY <1>0, <2>1, <2>2, <2>3, PodMoves, ZenonT(30)
<1>7. CASE RenewGet(p)
    BY <1>0, <1>2, <1>3, <1>7, PodMoves, ZenonT(30) DEF RenewGet, PodAt, NoOutage, Outage
<1>8. CASE RenewExpire(p)
    BY <1>0, <1>2, <1>3, <1>8, PodMoves, ZenonT(30) DEF RenewExpire, PodAt, NoOutage, Outage
<1>9. CASE _poll_and_publish(p)
    <2>1. PICK S \in get_alerts :
             /\ pod' = [pod EXCEPT ![p] = IF redis_ready
                        THEN [pod[p] EXCEPT !.pc = "publish", !.got = S, !.todo = Changes(p, S)]
                        ELSE [pod[p] EXCEPT !.pc = "renew"]]
             /\ IF S # firing THEN Outage("fetch") ELSE NoOutage
        BY <1>9, <1>0, ZenonT(30) DEF _poll_and_publish
    <2>2. S \in SUBSET Alerts /\ Changes(p, S) \in SUBSET Item
        BY <1>0, ChangesType, ZenonT(30) DEF get_alerts
    <2>3. p \in Leading /\ outages \in SUBSET outages' /\ UNCHANGED <<firing, lock, redis_ready, wire>>
        BY <1>3, <1>9, <2>1, ZenonT(30) DEF _poll_and_publish, Outage, NoOutage
    <2> DEFINE q == IF redis_ready
                    THEN [pod[p] EXCEPT !.pc = "publish", !.got = S, !.todo = Changes(p, S)]
                    ELSE [pod[p] EXCEPT !.pc = "renew"]
    <2>4. q \in PodType
        BY <1>0, <1>2, <2>2, PodUpdates, ZenonT(30)
    <2>5. pod' = [pod EXCEPT ![p] = q] BY <2>1
    <2> HIDE DEF q
    <2> QED BY <1>0, <2>3, <2>4, <2>5, PodMoves, ZenonT(30)
<1>10. CASE _publish(p)
    <2>1. PICK e \in pod[p].todo :
             \/ /\ pod' = [pod EXCEPT ![p] = [pod[p] EXCEPT !.todo = pod[p].todo \ {e}]]
                /\ wire' \in {Append(wire, e), wire}
             \/ pod' = [pod EXCEPT ![p] = [Off EXCEPT !.pc = "failed"]] /\ UNCHANGED wire
        BY <1>10, <1>0, ZenonT(30) DEF _publish, NextEvents
    <2>2. p \in Leading /\ outages \in SUBSET outages' /\ UNCHANGED <<firing, lock, redis_ready>>
        BY <1>3, <1>10, ZenonT(30) DEF _publish, Outage, NoOutage
    <2>3. e \in Item /\ pod[p].todo \ {e} \in SUBSET Item
        BY <1>0 DEF PodType
    <2>4. PICK q \in PodType : pod' = [pod EXCEPT ![p] = q]
        <3>1. [pod[p] EXCEPT !.todo = pod[p].todo \ {e}] \in PodType
            BY <1>0, <2>3, PodUpdates, ZenonT(30)
        <3>2. [Off EXCEPT !.pc = "failed"] \in PodType BY DEF Off, PodType
        <3> QED BY <2>1, <3>1, <3>2, ZenonT(30)
    <2>5. wire' \in Seq(Item) BY <1>0, <2>1, <2>3, AppendItem, ZenonT(30)
    <2> QED BY <1>0, <2>2, <2>4, <2>5, PodMoves, ZenonT(30)
<1>11. CASE PollEnds(p)
    <2>1. PICK at \in {"poll", "renew"} :
             pod' = [pod EXCEPT ![p] = [pc |-> at, prev |-> pod[p].got, got |-> {}, todo |-> {}]]
        BY <1>11, ZenonT(30) DEF PollEnds, Remember
    <2>2. p \in Leading /\ outages \in SUBSET outages' /\ UNCHANGED <<firing, lock, redis_ready, wire>>
        BY <1>3, <1>11 DEF PollEnds, NoOutage
    <2> DEFINE q == [pc |-> at, prev |-> pod[p].got, got |-> {}, todo |-> {}]
    <2>3. q \in PodType BY <1>0, ZenonT(30) DEF PodType
    <2>4. pod' = [pod EXCEPT ![p] = q] BY <2>1, ZenonT(30)
    <2> HIDE DEF q
    <2> QED BY <1>0, <2>2, <2>3, <2>4, PodMoves, ZenonT(30)
<1> QED BY <1>4, <1>5, <1>6, <1>7, <1>8, <1>9, <1>10, <1>11, ZenonT(30) DEF AmPoller

\* The pollers' steps leave the streams alone; the lock of a pod that leads is
\* gone only when that pod was late.
LEMMA PollInv == EventInv /\ Poll => EventInv'
<1> SUFFICES ASSUME EventInv, Poll PROVE EventInv' OBVIOUS
<1> USE DEF EventInv
<1>0. UNCHANGED <<stream, queue, value>> BY DEF Poll, sseVars
<1>1. QueuesBounded' /\ SlotsConserved' BY <1>0, ZenonT(30) DEF QueuesBounded, SlotsConserved
<1>2. SUFFICES /\ firing' \in SUBSET Alerts /\ lock' \in Pods \cup {"none"}
               /\ pod' \in [Pods -> PodType] /\ wire' \in Seq(Item) /\ LeaderHoldsLock'
    BY <1>0, <1>1, ZenonT(30) DEF EventTypeOK
<1>3. CASE AlertChanges
    <2>1. firing' \in SUBSET Alerts BY <1>3, ZenonT(30) DEF AlertChanges, EventTypeOK
    <2>2. UNCHANGED <<lock, pod, wire, redis_ready, outages>> BY <1>3, ZenonT(30) DEF AlertChanges
    <2> QED BY <2>1, <2>2, ZenonT(30) DEF EventTypeOK, LeaderHoldsLock, Leading
<1>4. CASE Expires
    <2>1. UNCHANGED <<firing, pod, wire, redis_ready>> /\ lock' = "none" /\ lock # "none"
        BY <1>4, ZenonT(30) DEF Expires
    <2>2. CASE lock \in Leading
        <3>1. "late" \in outages' BY <1>4, <2>2, ZenonT(30) DEF Expires, Outage
        <3> QED BY <2>1, <3>1, ZenonT(30) DEF EventTypeOK, LeaderHoldsLock
    <2>3. CASE lock \notin Leading
        <3>1. UNCHANGED outages BY <1>4, <2>3, ZenonT(30) DEF Expires, NoOutage
        <3> QED BY <2>1, <2>3, <3>1, ZenonT(30) DEF EventTypeOK, LeaderHoldsLock, Leading
    <2> QED BY <2>2, <2>3, ZenonT(30)
<1>5. CASE \E p \in Pods : AmPoller(p) \/ stop(p)
    BY <1>5, WorkerInv, ZenonT(30)
<1> QED BY <1>3, <1>4, <1>5, ZenonT(30) DEF Poll

\* What the broadcaster and the streams share: the pollers are as they were, but
\* for the messages on the wire.
LEMMA StreamFrame ==
    ASSUME EventInv, UNCHANGED <<firing, lock, pod, redis_ready>>, wire' \in Seq(Item),
           outages \in SUBSET outages',
           queue' \in [Clients -> Seq(Item)], QueuesBounded',
           stream' \in [Clients -> {"none", "accepted", "leaked", "metrics"} \cup Channels],
           SlotsConserved'
    PROVE  EventInv'
<1>1. value' \in Nat BY ZenonT(30) DEF SlotsConserved
<1>2. LeaderHoldsLock' BY ZenonT(30) DEF EventInv, LeaderHoldsLock, Leading
<1> QED BY <1>1, <1>2, ZenonT(30) DEF EventInv, EventTypeOK

\* The broadcaster changes no stream and no slot.
LEMMA BroadcasterInv ==
    ASSUME EventInv, SubscribeLoop \/ ConnectionLost \/ _fan_out \/ AuditPublished \/ StopBroadcaster
    PROVE  EventInv'
<1> USE DEF EventInv
<1>0. UNCHANGED <<firing, lock, pod, redis_ready, stream, value>> /\ outages \in SUBSET outages'
    BY ZenonT(30) DEF SubscribeLoop, ConnectionLost, _fan_out, AuditPublished, StopBroadcaster,
           pollVars, Outage
<1>1. /\ stream' \in [Clients -> {"none", "accepted", "leaked", "metrics"} \cup Channels]
      /\ SlotsConserved'
    BY <1>0, ZenonT(30) DEF EventTypeOK, SlotsConserved
<1>2. wire' \in Seq(Item) /\ queue' \in [Clients -> Seq(Item)] /\ QueuesBounded'
    <2>1. CASE SubscribeLoop \/ ConnectionLost
        <3>1. UNCHANGED queue /\ wire' \in {<<>>, wire}
            BY <2>1, ZenonT(30) DEF SubscribeLoop, ConnectionLost
        <3>2. queue' \in [Clients -> Seq(Item)] /\ wire \in Seq(Item) BY <3>1 DEF EventTypeOK
        <3>3. <<>> \in Seq(Item) OBVIOUS
        <3>4. wire' \in Seq(Item) BY <3>1, <3>2, <3>3, ZenonT(30)
        <3> QED BY <3>1, <3>2, <3>4, ZenonT(30) DEF QueuesBounded
    <2>2. CASE _fan_out
        <3>1. wire \in Seq(Item) /\ wire # <<>> /\ wire' = Tail(wire)
            BY <2>2 DEF _fan_out, EventTypeOK
        <3>2. Head(wire) \in Item /\ wire' \in Seq(Item) BY <3>1
        <3>3. queue' = Put(Subscribed, Head(wire)) BY <2>2, ZenonT(30) DEF _fan_out
        <3> QED BY <3>2, <3>3, PutKeeps, ZenonT(30)
    <2>3. CASE AuditPublished
        <3>1. queue' = Put({c \in Clients : stream[c] = "audit"}, AuditItem) /\ UNCHANGED wire
            BY <2>3, ZenonT(30) DEF AuditPublished, pollVars
        <3>2. AuditItem \in Item BY DEF AuditItem, Event, Item
        <3> QED BY <3>1, <3>2, PutKeeps, ZenonT(30) DEF EventTypeOK
    <2>4. CASE StopBroadcaster
        <3>1. queue' = Put(Told, StopItem) /\ wire' = <<>>
            BY <2>4, ZenonT(30) DEF StopBroadcaster
        <3>2. StopItem \in Item BY ZenonT(30) DEF StopItem, Event, Item
        <3> QED BY <3>1, <3>2, PutKeeps
    <2> QED BY <2>1, <2>2, <2>3, <2>4, ZenonT(30)
<1> QED BY <1>0, <1>1, <1>2, StreamFrame, ZenonT(30)

\* The life of a stream: a slot is taken when it is accepted, kept as it begins or
\* is abandoned, and given back when it ends.
LEMMA StreamInv ==
    ASSUME EventInv, NEW c \in Clients,
           \/ Accept(c) \/ stream_alerts(c) \/ stream_sessions_audit(c)
           \/ stream_metrics(c) \/ Abandon(c) \/ QueueIter(c) \/ Disconnect(c)
    PROVE  EventInv'
<1> DEFINE StreamKinds == {"none", "accepted", "leaked", "metrics"} \cup Channels
<1> USE DEF EventInv
<1>0. UNCHANGED <<firing, lock, pod, redis_ready, wire>> /\ outages \in SUBSET outages'
    BY ZenonT(30) DEF Accept, stream_alerts, stream_sessions_audit, stream_metrics, Abandon, QueueIter,
           Disconnect, pollVars, Outage
<1>1. stream \in [Clients -> StreamKinds] /\ value \in Nat /\ wire' \in Seq(Item)
    BY <1>0, ZenonT(30) DEF EventTypeOK
<1>2. Cardinality(Held) \in Nat /\ value + Cardinality(Held) = max_conn
    BY Slots, HeldCount, ZenonT(30)
<1>3. CASE Accept(c)
    <2>1. /\ stream[c] = "none" /\ value > 0 /\ value' = value - 1 /\ UNCHANGED queue
          /\ stream' = [stream EXCEPT ![c] = "accepted"]
        BY <1>3, ZenonT(30) DEF Accept, HasSlot
    <2>2. c \notin Held /\ Held' = Held \cup {c} BY <1>1, <2>1 DEF Held
    <2>3. Cardinality(Held') = Cardinality(Held) + 1 BY <2>2, HeldCount, ZenonT(30)
    <2>4. value' \in Nat /\ value' + Cardinality(Held') = max_conn
        BY <1>1, <1>2, <2>1, <2>3
    <2>5. SlotsConserved' BY <2>4, ZenonT(30) DEF SlotsConserved, Held
    <2> QED BY <1>0, <1>1, <2>1, <2>5, StreamFrame, ZenonT(30) DEF EventTypeOK, QueuesBounded
<1>4. CASE stream_alerts(c) \/ stream_sessions_audit(c) \/ stream_metrics(c) \/ Abandon(c)
    <2>1. PICK kind \in {"leaked", "metrics"} \cup Channels :
             /\ stream[c] = "accepted" /\ stream' = [stream EXCEPT ![c] = kind]
             /\ UNCHANGED <<queue, value>>
        BY <1>4, ZenonT(30) DEF stream_alerts, stream_sessions_audit, stream_metrics, Abandon, Begins, Channels
    <2>2. Held' = Held BY <1>1, <2>1, ZenonT(30) DEF Held, Channels
    <2>3. SlotsConserved' BY <2>1, <2>2, ZenonT(30) DEF SlotsConserved, Held
    <2>4. stream' \in [Clients -> StreamKinds] BY <1>1, <2>1, ZenonT(30)
    <2> QED BY <1>0, <1>1, <2>1, <2>3, <2>4, StreamFrame, ZenonT(30) DEF EventTypeOK, QueuesBounded
<1>5. ASSUME stream[c] # "none", EndStream(c) PROVE EventInv'
    <2>1. /\ value' = value + 1 /\ queue' = [queue EXCEPT ![c] = <<>>]
          /\ stream' = [stream EXCEPT ![c] = "none"]
        BY <1>5, ZenonT(30) DEF EndStream, Released
    <2>2. c \in Held /\ Held' = Held \ {c} BY <1>1, <1>5, <2>1 DEF Held
    <2>3. Cardinality(Held') = Cardinality(Held) - 1 BY <2>2, HeldCount, ZenonT(30)
    <2>4. value' \in Nat /\ value' + Cardinality(Held') = max_conn
        BY <1>1, <1>2, <2>1, <2>3, StreamAssumption
    <2>5. SlotsConserved' BY <2>4, Zenon DEF SlotsConserved, Held
    <2>6. queue' \in [Clients -> Seq(Item)] /\ QueuesBounded' BY <2>1, TakeKeeps, ZenonT(30)
    <2>7. stream' \in [Clients -> StreamKinds] BY <1>1, <2>1, ZenonT(30)
    <2> QED BY <1>0, <1>1, <2>5, <2>6, <2>7, StreamFrame, ZenonT(30)
<1>6. CASE Disconnect(c) BY <1>5, <1>6, ZenonT(30) DEF Disconnect, Channels
<1>7. CASE QueueIter(c)
    <2>1. CASE Head(queue[c]) = StopItem BY <1>5, <1>7, <2>1, ZenonT(30) DEF QueueIter, Channels
    <2>2. CASE Head(queue[c]) # StopItem
        <3>1. queue[c] # <<>> /\ queue' = [queue EXCEPT ![c] = Tail(@)] /\ UNCHANGED <<stream, value>>
            BY <1>7, <2>2 DEF QueueIter
        <3>2. queue' \in [Clients -> Seq(Item)] /\ QueuesBounded' BY <3>1, TakeKeeps, ZenonT(30)
        <3>3. SlotsConserved' BY <3>1 DEF SlotsConserved
        <3> QED BY <1>0, <1>1, <3>1, <3>2, <3>3, StreamFrame, ZenonT(30)
    <2> QED BY <2>1, <2>2, ZenonT(30)
<1> QED BY <1>3, <1>4, <1>6, <1>7, ZenonT(30)

\* No step breaks the invariant.
LEMMA EventStepInv == EventInv /\ [EventNext]_eventVars => EventInv'
<1> SUFFICES ASSUME EventInv, [EventNext]_eventVars PROVE EventInv' OBVIOUS
<1>1. CASE EventNext BY <1>1, PollInv, BroadcasterInv, StreamInv, ZenonT(30) DEF EventNext
<1>2. CASE UNCHANGED eventVars
    BY <1>2, ZenonT(30)
    DEF eventVars, pollVars, sseVars, EventInv, EventTypeOK, LeaderHoldsLock, Leading, QueuesBounded,
        SlotsConserved
<1> QED BY <1>1, <1>2, ZenonT(30)

\* The inductive invariant holds at every moment of every behaviour.
LEMMA EventAlwaysInv == EventSpec => []EventInv
BY EventInitInv, EventStepInv, PTL DEF EventSpec

-------------------------------------------------------------------------------
(* The theorems.                                                            *)

\* The pollers, the broadcaster and the streams stay within their types.
THEOREM EventTypeCorrect == EventSpec => []EventTypeOK
<1>1. EventInv => EventTypeOK BY ZenonT(30) DEF EventInv
<1> QED BY <1>1, EventAlwaysInv, PTL

\* However many pods compete, restart, lose their Redis calls and let locks run
\* out: two of them are in _leader_loop only after a leader came late to its
\* renewal (_try_acquire_lock, _leader_loop).
THEOREM OnePodLeads == EventSpec => []OneLeader
<1>1. EventInv => OneLeader
    <2> SUFFICES ASSUME EventInv, redis_ready, "late" \notin outages
                 PROVE  Cardinality(Leading) <= 1
        BY DEF OneLeader
    <2>1. Leading \in SUBSET {lock} BY DEF EventInv, LeaderHoldsLock
    <2>2. IsFiniteSet({lock}) /\ Cardinality({lock}) = 1 BY FS_Singleton, ZenonT(30)
    <2>3. IsFiniteSet(Leading) /\ Cardinality(Leading) <= Cardinality({lock})
        BY <2>1, <2>2, FS_Subset, ZenonT(30)
    <2>4. Cardinality(Leading) \in Nat BY <2>3, FS_CardinalityType, ZenonT(30)
    <2> QED BY <2>2, <2>3, <2>4, ZenonT(30)
<1> QED BY <1>1, EventAlwaysInv, PTL

\* For every number of clients and every SSE_MAX_CONNECTIONS_PER_POD: a slot of
\* the semaphore is free or held by one response, whatever way its stream ends.
THEOREM SlotsAreConserved == EventSpec => []SlotsConserved
<1>1. EventInv => SlotsConserved BY ZenonT(30) DEF EventInv
<1> QED BY <1>1, EventAlwaysInv, PTL

\* No client's queue outgrows _QUEUE_MAXSIZE: what is fanned out to a full one, the
\* sentinel of stop() included, is dropped.
THEOREM QueuesStayBounded == EventSpec => []QueuesBounded
<1>1. EventInv => QueuesBounded BY DEF EventInv
<1> QED BY <1>1, EventAlwaysInv, PTL

===============================================================================
