------------------------------ MODULE AdminProofs ------------------------------
(***************************************************************************)
(* What the admin API keeps between requests, each for any number of       *)
(* requests: the record of an Idempotency-Key and the versions of a        *)
(* scenario; and what it answers of a draft, for drafts of any size.       *)
(***************************************************************************)
EXTENDS Idempotency, ScenarioEditor, FiniteSetTheorems, WellFoundedInduction, TLAPS

\* The provers a step is given to in turn unless it names one, with their time limits.
USE SMTT(30), ZenonT(30)

-------------------------------------------------------------------------------
(***************************************************************************)
(* IDEMPOTENCY.  None of the three properties is inductive: a replay rests *)
(* on the record being the answer of a request that has ended              *)
(* (RecordIsAnswer, Answered), single execution on the record being        *)
(* "in_progress" for as long as a request is inside (SlotTaken) and on     *)
(* nothing having been executed while the slot was free (FreshSlot).       *)
(***************************************************************************)

Labels == {"set", "get", "retry", "overwrite", "handler", "store", "release", "end"}
Records == {Absent, Foreign} \cup [status : {"in_progress"}, body_hash : Bodies]
               \cup [status : {"done"}, body_hash : Bodies, of : Requests]
Replies == [kind : {"none", "409", "422", "5xx"}]
               \cup [kind : {"replay", "original"}, of : Requests]

\* A request that was answered is over.
Answered == \A r \in Requests : reply[r].kind # "none" => pc[r] = "end"

\* A finished record is the answer of a request, with that request's body.
RecordIsAnswer ==
    rec.status = "done" => /\ rec.of \in Requests
                           /\ rec.body_hash = body[rec.of]
                           /\ reply[rec.of].kind = "original"

Alone == \A r, q \in Inside : r = q
SlotTaken == Inside # {} => rec.status = "in_progress"
FreshSlot ==
    /\ rec = Absent => effects = {}
    /\ \A r \in Requests : pc[r] \in {"handler", "release"} => effects = {}
    /\ \A r, q \in effects : r = q
OneVersion == rec # Foreign /\ \A r \in Requests : pc[r] # "overwrite"
Undisturbed == faults \subseteq {"cancel"} => Alone /\ SlotTaken /\ FreshSlot /\ OneVersion

ReplayInv == KeyTypeOK /\ Answered /\ RecordIsAnswer /\ ReplayMatchesBody

-------------------------------------------------------------------------------

\* The type invariant holds initially.
LEMMA InitKeyType == KeyInit => KeyTypeOK
<1> SUFFICES ASSUME KeyInit PROVE KeyTypeOK OBVIOUS
<1>1. rec \in Records BY DEF KeyInit, Records
<1>2. reply \in [Requests -> Replies] BY DEF KeyInit, NoReply, Replies
<1>3. faults \in SUBSET {"redis", "cancel", "late", "foreign"} BY DEF KeyInit
<1> QED BY <1>1, <1>2, <1>3 DEF KeyInit, KeyTypeOK, Records, Replies

\* Every step of a request keeps the types.
LEMMA StepKeyType == KeyTypeOK /\ [KeyNext]_keyVars => KeyTypeOK'
<1> SUFFICES ASSUME KeyTypeOK, [KeyNext]_keyVars PROVE KeyTypeOK' OBVIOUS
<1>0. /\ body \in [Requests -> Bodies] /\ pc \in [Requests -> Labels]
      /\ rec \in Records /\ reply \in [Requests -> Replies]
      /\ effects \in SUBSET Requests
      /\ faults \in SUBSET {"redis", "cancel", "late", "foreign"}
    BY DEF KeyTypeOK, Labels, Records, Replies
<1>1. ASSUME NEW r \in Requests, Step(r) PROVE KeyTypeOK'
    <2>1. body' = body
        BY <1>1 DEF Step, SetNx, Get, SetNxAgain, Overwrite, Executes, Fails, Cancelled,
                    store_response, release_slot
    <2>2. pc' \in [Requests -> Labels]
        <3>1. \E l \in Labels : Goto(r, l)
            BY <1>1 DEF Step, SetNx, Get, SetNxAgain, Overwrite, Executes, Fails, Cancelled,
                        store_response, release_slot, Answer, Compare, Labels, AfterFailure
        <3> QED BY <1>0, <3>1 DEF Goto
    <2>3. rec' \in Records
        <3>1. rec' = rec \/ rec' = Absent \/ rec' = InProgress(r) \/ rec' = Done(r)
            BY <1>1 DEF Step, SetNx, Get, SetNxAgain, Overwrite, Executes, Fails, Cancelled,
                        store_response, release_slot
        <3>2. body[r] \in Bodies BY <1>0
        <3>3. InProgress(r) \in Records /\ Done(r) \in Records /\ Absent \in Records
            BY <3>2 DEF InProgress, Done, Records
        <3> QED BY <1>0, <3>1, <3>3
    <2>4. reply' \in [Requests -> Replies]
        <3>1. reply' = reply \/ \E a \in Replies : reply' = [reply EXCEPT ![r] = a]
            <4>1. CASE Get(r)
                <5>1. rec.status = "done" => rec.of \in Requests
                    BY <1>0 DEF Records, Absent, Foreign
                <5>2. rec \notin {Absent, Foreign} => rec.status \in {"in_progress", "done"}
                    BY <1>0 DEF Records
                <5> QED BY <4>1, <5>1, <5>2, Zenon DEF Get, Compare, Answer, Replies
            <4>2. CASE ~Get(r)
                BY <1>1, <4>2, ZenonT(30) DEF Step, SetNx, SetNxAgain, Overwrite, Executes, Fails,
                        Cancelled, store_response, release_slot, Answer, Replies
            <4> QED BY <4>1, <4>2
        <3> QED BY <1>0, <3>1
    <2>5. effects' \in SUBSET Requests
        BY <1>0, <1>1 DEF Step, SetNx, Get, SetNxAgain, Overwrite, Executes, Fails, Cancelled,
                          store_response, release_slot
    <2>6. faults' \in SUBSET {"redis", "cancel", "late", "foreign"}
        BY <1>0, <1>1, Zenon DEF Step, SetNx, Get, SetNxAgain, Overwrite, Executes, Fails, Cancelled,
                          store_response, release_slot, Ok, RedisFails
    <2> QED BY <1>0, <2>1, <2>2, <2>3, <2>4, <2>5, <2>6 DEF KeyTypeOK, Labels, Records, Replies
<1>2. CASE RecordExpires
    BY <1>0, <1>2 DEF RecordExpires, KeyTypeOK, Labels, Records, Replies
<1>3. CASE UNCHANGED keyVars
    BY <1>3 DEF keyVars, KeyTypeOK
<1> QED BY <1>1, <1>2, <1>3 DEF KeyNext

-------------------------------------------------------------------------------

\* No request is answered at first, and no record is finished.
LEMMA InitReplay == KeyInit => ReplayInv
<1> SUFFICES ASSUME KeyInit PROVE ReplayInv OBVIOUS
<1>1. KeyTypeOK BY InitKeyType
<1>2. \A r \in Requests : reply[r].kind = "none" BY DEF KeyInit, NoReply
<1>3. rec.status # "done" BY DEF KeyInit, Absent, Foreign
<1> QED BY <1>1, <1>2, <1>3 DEF ReplayInv, Answered, RecordIsAnswer, ReplayMatchesBody

\* An answer that has been given is never changed, and a new one is either no
\* replay or a replay of a request that was answered with the same body.
LEMMA AnswersStay ==
    ASSUME ReplayInv, NEW r \in Requests, Step(r)
    PROVE  /\ body' = body /\ Answered' /\ ReplayMatchesBody'
           /\ \A q \in Requests : reply[q].kind = "original" => reply'[q].kind = "original"
<1>0. KeyTypeOK /\ Answered /\ RecordIsAnswer /\ ReplayMatchesBody BY DEF ReplayInv
<1>1. body' = body
    BY DEF Step, SetNx, Get, SetNxAgain, Overwrite, Executes, Fails, Cancelled,
           store_response, release_slot
<1>2. pc[r] # "end"
    BY DEF Step, SetNx, Get, SetNxAgain, Overwrite, Executes, Fails, Cancelled,
           store_response, release_slot
<1>3. reply[r].kind = "none" BY <1>0, <1>2, Zenon DEF Answered
<1>4. \A q \in Requests : q # r => reply'[q] = reply[q] /\ pc'[q] = pc[q]
    BY <1>0, ZenonT(30) DEF KeyTypeOK, Step, SetNx, Get, SetNxAgain, Overwrite, Executes, Fails,
           Cancelled, store_response, release_slot, Goto, Answer, Compare
<1>5. reply'[r] = reply[r] \/ pc'[r] = "end"
    BY <1>0 DEF KeyTypeOK, Step, SetNx, Get, SetNxAgain, Overwrite, Executes, Fails,
           Cancelled, store_response, release_slot, Goto, Answer, Compare
<1>6. reply'[r].kind = "replay" =>
          reply'[r].of = rec.of /\ rec.status = "done" /\ rec.body_hash = body[r]
    <2>1. CASE Get(r)
        <3>1. rec \notin {Absent, Foreign} => rec.status \in {"in_progress", "done"}
            BY <1>0 DEF KeyTypeOK
        <3> QED BY <1>0, <1>3, <2>1, <3>1 DEF KeyTypeOK, Get, Compare, Answer, SameBody
    <2>2. CASE ~Get(r)
        BY <1>0, <1>3, <2>2 DEF KeyTypeOK, Step, SetNx, SetNxAgain, Overwrite, Executes, Fails,
               Cancelled, store_response, release_slot, Answer
    <2> QED BY <2>1, <2>2
<1>7. Answered' BY <1>0, <1>3, <1>4, <1>5 DEF Answered
<1>8. \A q \in Requests : reply[q].kind = "original" => reply'[q].kind = "original"
    BY <1>3, <1>4
<1>9. ASSUME NEW q \in Requests, reply'[q].kind = "replay"
      PROVE  /\ body'[reply'[q].of] = body'[q]
             /\ reply'[reply'[q].of].kind = "original"
    <2>1. CASE q = r
        BY <1>0, <1>1, <1>6, <1>8, <1>9, <2>1 DEF RecordIsAnswer
    <2>2. CASE q # r
        <3>1. reply'[q] = reply[q] BY <1>4, <2>2
        <3>2. body[reply[q].of] = body[q] /\ reply[reply[q].of].kind = "original"
            BY <1>0, <1>9, <3>1 DEF ReplayMatchesBody
        <3>3. reply[q].of \in Requests BY <1>0, <1>9, <3>1 DEF KeyTypeOK
        <3> QED BY <1>1, <1>8, <3>1, <3>2, <3>3
    <2> QED BY <2>1, <2>2
<1> QED BY <1>1, <1>7, <1>8, <1>9 DEF ReplayMatchesBody

\* Every step preserves what replays rest on.
LEMMA StepReplay == ReplayInv /\ [KeyNext]_keyVars => ReplayInv'
<1> SUFFICES ASSUME ReplayInv, [KeyNext]_keyVars PROVE ReplayInv' OBVIOUS
<1>0. KeyTypeOK /\ Answered /\ RecordIsAnswer /\ ReplayMatchesBody BY DEF ReplayInv
<1>1. KeyTypeOK' BY <1>0, StepKeyType
<1>2. ASSUME NEW r \in Requests, Step(r) PROVE ReplayInv'
    <2>1. /\ body' = body /\ Answered' /\ ReplayMatchesBody'
          /\ \A q \in Requests : reply[q].kind = "original" => reply'[q].kind = "original"
        BY <1>2, AnswersStay
    <2>2. RecordIsAnswer'
        <3>1. CASE rec' = rec BY <1>0, <2>1, <3>1 DEF RecordIsAnswer
        <3>2. CASE rec' = Absent \/ rec' = InProgress(r)
            BY <3>2 DEF RecordIsAnswer, Absent, InProgress
        <3>3. CASE store_response(r) /\ rec' = Done(r)
            <4>1. reply'[r].kind = "original"
                BY <1>0, <3>3 DEF KeyTypeOK, store_response, Answer
            <4>2. rec'.of = r /\ rec'.body_hash = body[r] BY <3>3 DEF Done
            <4> QED BY <2>1, <4>1, <4>2 DEF RecordIsAnswer
        <3> QED
            BY <1>2, <3>1, <3>2, <3>3
            DEF Step, SetNx, Get, SetNxAgain, Overwrite, Executes, Fails, Cancelled,
                store_response, release_slot
    <2> QED BY <1>1, <2>1, <2>2 DEF ReplayInv
<1>3. CASE RecordExpires
    <2>1. RecordIsAnswer' BY <1>3 DEF RecordExpires, RecordIsAnswer, Absent
    <2>2. Answered' /\ ReplayMatchesBody'
        BY <1>0, <1>3 DEF RecordExpires, Answered, ReplayMatchesBody
    <2> QED BY <1>1, <2>1, <2>2 DEF ReplayInv
<1>4. CASE UNCHANGED keyVars
    BY <1>0, <1>1, <1>4, Zenon DEF keyVars, ReplayInv, Answered, RecordIsAnswer, ReplayMatchesBody
<1> QED BY <1>2, <1>3, <1>4 DEF KeyNext

-------------------------------------------------------------------------------

\* A step of a request moves only that request in or out of the handler.
LEMMA InsideOthers ==
    ASSUME KeyTypeOK, NEW r \in Requests, Step(r)
    PROVE  \A q \in Requests : q # r => (q \in Inside' <=> q \in Inside) /\ pc'[q] = pc[q]
<1> QED BY DEF KeyTypeOK, Inside, Step, SetNx, Get, SetNxAgain, Overwrite, Executes, Fails,
               Cancelled, store_response, release_slot, Goto, Answer, Compare

\* Every step keeps an "in_progress" record in the hands of a request.
LEMMA StepSlot == KeyTypeOK /\ NoOrphanedSlot /\ [KeyNext]_keyVars => NoOrphanedSlot'
<1> SUFFICES ASSUME KeyTypeOK, NoOrphanedSlot, [KeyNext]_keyVars,
                    rec'.status = "in_progress", faults' \in SUBSET {"late", "foreign"}
             PROVE  Inside' # {}
    BY DEF NoOrphanedSlot
<1>1. ASSUME NEW r \in Requests, Step(r) PROVE Inside' # {}
    <2>1. CASE r \in Inside' BY <2>1, Zenon
    <2>2. CASE r \notin Inside' /\ r \in Inside
        <3>1. store_response(r) \/ release_slot(r) \/ Cancelled(r)
            BY <1>1, <2>2 DEF KeyTypeOK, Inside, Step, SetNx, Get, SetNxAgain, Overwrite,
                    Executes, Fails, Goto, AfterFailure
        <3> QED BY <3>1 DEF store_response, release_slot, Cancelled, RedisFails, Done, Absent
    <2>3. CASE r \notin Inside' /\ r \notin Inside
        <3>1. rec' = rec /\ faults \in SUBSET faults'
            BY <1>1, <2>3 DEF KeyTypeOK, Inside, Step, SetNx, Get, SetNxAgain, Overwrite,
                    Executes, Fails, Cancelled, store_response, release_slot, Goto, Ok, RedisFails
        <3>2. Inside # {} BY <3>1 DEF NoOrphanedSlot
        <3> QED BY <1>1, <2>3, <3>2, InsideOthers, ZenonT(30) DEF Inside
    <2> QED BY <2>1, <2>2, <2>3
<1>2. CASE RecordExpires BY <1>2 DEF RecordExpires, Absent
<1>3. CASE UNCHANGED keyVars BY <1>3 DEF keyVars, NoOrphanedSlot, Inside
<1> QED BY <1>1, <1>2, <1>3 DEF KeyNext

-------------------------------------------------------------------------------

\* Nobody is inside at first and nothing has been executed.
LEMMA InitUndisturbed == KeyInit => Undisturbed
<1> SUFFICES ASSUME KeyInit, faults \subseteq {"cancel"}
             PROVE  Alone /\ SlotTaken /\ FreshSlot /\ OneVersion
    BY DEF Undisturbed
<1>1. Inside = {} /\ effects = {} BY DEF KeyInit, Inside
<1>2. rec # Foreign BY DEF KeyInit, Absent, Foreign
<1> QED BY <1>1, <1>2 DEF KeyInit, Alone, SlotTaken, FreshSlot, OneVersion

\* A request gets inside only through a free slot, and a slot is freed only by
\* the request inside or by its expiry.
LEMMA StepUndisturbed == KeyTypeOK /\ Undisturbed /\ [KeyNext]_keyVars => Undisturbed'
<1> SUFFICES ASSUME KeyTypeOK, Undisturbed, [KeyNext]_keyVars, faults' \in SUBSET {"cancel"}
             PROVE  Alone' /\ SlotTaken' /\ FreshSlot' /\ OneVersion'
    BY DEF Undisturbed
<1>0. faults \in SUBSET {"cancel"}
    BY Zenon DEF KeyNext, keyVars, RecordExpires, Step, SetNx, Get, SetNxAgain, Overwrite, Executes, Fails,
           Cancelled, store_response, release_slot, Ok, RedisFails
<1>i. Alone /\ SlotTaken /\ FreshSlot /\ OneVersion BY <1>0 DEF Undisturbed
<1>1. ASSUME NEW r \in Requests, SetNx(r) \/ SetNxAgain(r)
      PROVE  Alone' /\ SlotTaken' /\ FreshSlot' /\ OneVersion'
    <2>1. CASE SlotIsFree /\ rec' = InProgress(r) /\ Goto(r, "handler")
        <3>1. Inside = {} BY <1>i, <2>1 DEF SlotTaken, SlotIsFree, Absent
        <3>2. Inside' = {r} BY <3>1, <2>1 DEF KeyTypeOK, Inside, Goto
        <3>3. effects' = {} BY <1>i, <1>1, <2>1 DEF FreshSlot, SlotIsFree, SetNx, SetNxAgain
        <3>4. rec'.status = "in_progress" BY <2>1 DEF InProgress
        <3>5. OneVersion' BY <1>i, <2>1, <3>4 DEF KeyTypeOK, OneVersion, Goto, Foreign
        <3> QED BY <3>2, <3>3, <3>4, <3>5 DEF Alone, SlotTaken, FreshSlot
    <2>2. CASE rec' = rec /\ (Goto(r, "get") \/ Goto(r, "end"))
        <3>1. Inside' = Inside BY <1>1, <2>2 DEF KeyTypeOK, Inside, Goto, SetNx, SetNxAgain
        <3>2. effects' = effects BY <1>1 DEF SetNx, SetNxAgain
        <3>3. \A q \in Requests : pc'[q] \in {pc[q], "get", "end"}
            BY <2>2 DEF KeyTypeOK, Goto
        <3> QED BY <1>i, <2>2, <3>1, <3>2, <3>3, Zenon DEF Alone, SlotTaken, FreshSlot, OneVersion
    <2> QED BY <1>1, <2>1, <2>2 DEF SetNx, SetNxAgain, RedisFails, Answer
<1>2. ASSUME NEW r \in Requests, Get(r)
      PROVE  Alone' /\ SlotTaken' /\ FreshSlot' /\ OneVersion'
    <2>1. Goto(r, "retry") \/ Goto(r, "end")
        BY <1>i, <1>2 DEF Get, Compare, Answer, OneVersion, RedisFails
    <2>2. Inside' = Inside /\ rec' = rec /\ effects' = effects
        BY <1>2, <2>1 DEF KeyTypeOK, Inside, Get, Goto
    <2>3. \A q \in Requests : pc'[q] \in {pc[q], "retry", "end"} BY <2>1 DEF KeyTypeOK, Goto
    <2> QED BY <1>i, <2>2, <2>3, Zenon DEF Alone, SlotTaken, FreshSlot, OneVersion
<1>3. ASSUME NEW r \in Requests, Overwrite(r) PROVE FALSE
    BY <1>i, <1>3 DEF Overwrite, OneVersion
<1>4. ASSUME NEW r \in Requests, Executes(r) \/ Fails(r)
      PROVE  Alone' /\ SlotTaken' /\ FreshSlot' /\ OneVersion'
    <2>1. Inside' = Inside /\ r \in Inside /\ rec' = rec
        BY <1>4 DEF KeyTypeOK, Inside, Executes, Fails, Goto, AfterFailure
    <2>2. effects = {} /\ rec.status = "in_progress"
        BY <1>i, <1>4, <2>1 DEF FreshSlot, SlotTaken, Executes, Fails
    <2>3. \A q \in Requests : q # r => pc'[q] = pc[q] /\ q \notin Inside
        BY <1>i, <1>4, <2>1 DEF KeyTypeOK, Executes, Fails, Goto, Alone
    <2>4. CASE Executes(r)
        <3>1. effects' = {r} /\ pc'[r] = "store" BY <2>2, <2>4 DEF KeyTypeOK, Executes, Goto
        <3>2. FreshSlot'
            BY <2>1, <2>2, <2>3, <3>1 DEF FreshSlot, Inside, Absent
        <3> QED BY <1>i, <2>1, <2>3, <3>1, <3>2 DEF Alone, SlotTaken, OneVersion
    <2>5. CASE Fails(r)
        <3>1. effects' = {} /\ pc'[r] = "release"
            BY <2>2, <2>5, Zenon DEF KeyTypeOK, Fails, Goto, AfterFailure
        <3> QED BY <1>i, <2>1, <2>3, <3>1 DEF Alone, SlotTaken, FreshSlot, OneVersion
    <2> QED BY <1>4, <2>4, <2>5
<1>5. ASSUME NEW r \in Requests, Cancelled(r)
      PROVE  Alone' /\ SlotTaken' /\ FreshSlot' /\ OneVersion'
    <2>1. Inside' \in SUBSET Inside /\ rec' = rec /\ effects' = effects
        BY <1>5 DEF KeyTypeOK, Inside, Cancelled, Goto
    <2>2. \A q \in Requests : pc'[q] \in {pc[q], "end"} BY <1>5 DEF KeyTypeOK, Cancelled, Goto
    <2> QED BY <1>i, <2>1, <2>2 DEF Alone, SlotTaken, FreshSlot, OneVersion
<1>6. ASSUME NEW r \in Requests, store_response(r) \/ release_slot(r)
      PROVE  Alone' /\ SlotTaken' /\ FreshSlot' /\ OneVersion'
    <2>1. r \in Inside BY <1>6, Zenon DEF Inside, store_response, release_slot
    <2>2. Inside' = {}
        BY <1>i, <1>6, <2>1, ZenonT(30) DEF KeyTypeOK, Inside, Alone, store_response, release_slot, Answer, Goto
    <2>3. \A q \in Requests : pc'[q] \in {pc[q], "end"}
        BY <1>6 DEF KeyTypeOK, store_response, release_slot, Answer, Goto
    <2>4. \/ rec' = Done(r) /\ effects' = effects
          \/ rec' = Absent /\ effects' = {}
        BY <1>6 DEF store_response, release_slot, RedisFails
    <2>5. rec' # Foreign BY <2>4 DEF Done, Absent, Foreign
    <2>6. FreshSlot'
        BY <1>i, <2>2, <2>4 DEF FreshSlot, Inside, Done, Absent
    <2> QED BY <1>i, <2>2, <2>3, <2>5, <2>6, Zenon DEF Alone, SlotTaken, OneVersion
<1>7. CASE RecordExpires
    <2>1. Inside = {} BY <1>7 DEF RecordExpires
    <2>2. Inside' = {} BY <1>7, <2>1 DEF RecordExpires, Inside
    <2> QED BY <1>i, <1>7, <2>2 DEF RecordExpires, Alone, SlotTaken, FreshSlot, OneVersion, Absent, Foreign
<1>8. CASE UNCHANGED keyVars
    BY <1>i, <1>8 DEF keyVars, Alone, SlotTaken, FreshSlot, OneVersion, Inside
<1> QED BY <1>1, <1>2, <1>3, <1>4, <1>5, <1>6, <1>7, <1>8, Zenon DEF KeyNext, Step

\* A set whose elements are all equal has at most one.
LEMMA OneAtMost ==
    ASSUME NEW S, \A x, y \in S : x = y
    PROVE  Cardinality(S) <= 1
<1>1. CASE S = {} BY <1>1, FS_EmptySet
<1>2. CASE S # {}
    <2>1. PICK x \in S : TRUE BY <1>2
    <2>2. S = {x} BY <2>1
    <2> QED BY <2>2, FS_Singleton
<1> QED BY <1>1, <1>2

-------------------------------------------------------------------------------

\* Type correctness of the middleware and its record.
THEOREM KeysTyped == KeySpec => []KeyTypeOK
<1> QED BY InitKeyType, StepKeyType, PTL DEF KeySpec

\* A replayed answer belongs to a request with the same body that was executed
\* and answered, for any number of requests, failing Redis commands included.
THEOREM ReplaysMatch == KeySpec => []ReplayMatchesBody
<1>1. ReplayInv => ReplayMatchesBody BY DEF ReplayInv
<1> QED BY InitReplay, StepReplay, <1>1, PTL DEF KeySpec

\* release_slot and store_response leave no slot "in_progress" without a
\* request, unless Redis failed or a request was cancelled.
THEOREM SlotsAreGivenBack == KeySpec => []NoOrphanedSlot
<1>1. KeyInit => NoOrphanedSlot BY DEF KeyInit, NoOrphanedSlot, Absent, Foreign
<1> QED BY InitKeyType, StepKeyType, <1>1, StepSlot, PTL DEF KeySpec

\* Of any number of requests with one key at most one is inside the handler
\* and at most one takes effect until the record is gone (acquire_slot).
THEOREM OneExecution == KeySpec => []ExecutedOnce
<1>1. Undisturbed => ExecutedOnce
    BY OneAtMost DEF Undisturbed, ExecutedOnce, Alone, FreshSlot
<1> QED BY InitKeyType, StepKeyType, InitUndisturbed, StepUndisturbed, <1>1, PTL DEF KeySpec

-------------------------------------------------------------------------------
(***************************************************************************)
(* SCENARIOS.  Without overlapping saves a version names one document,     *)
(* without overlapping publishes at most one document is published, and a  *)
(* published scenario stays published.  Each rests on what the requests in *)
(* flight still hold true: the version about to be inserted is above all   *)
(* others, nothing is published under a publish between its two writes,    *)
(* and the version a delete has in hand is no publish's target.            *)
(***************************************************************************)

Ops == {"idle", "insert", "takedown", "putup", "delete"}
Doc(n) == [id : 1..n, version : 1..n, published : BOOLEAN]

\* Without overlapping saves.
Unique ==
    "save" \notin races =>
        /\ \A d, e \in docs : d.version = e.version => d = e
        /\ \A a, b \in Editors : req[a].op = "insert" /\ req[b].op = "insert" => a = b
        /\ \A a \in Editors : req[a].op = "insert" => \A d \in docs : d.version < req[a].version

\* Without overlapping publishes.
OneUp ==
    "publish" \notin races =>
        /\ \A d, e \in Published : d = e
        /\ \A a, b \in Editors : req[a].op = "putup" /\ req[b].op = "putup" => a = b
        /\ \A a \in Editors : req[a].op = "putup" => Published = {}

\* Overlapping publishes allowed.
Stays ==
    races \subseteq {"publish"} =>
        /\ \A a, b \in Editors : req[a].op \in {"takedown", "putup"} /\ req[b].op = "delete"
                                    => req[a].version # req[b].version
        /\ \A a \in Editors : req[a].op \in {"takedown", "putup"}
                                    => WithVersion(req[a].version) # {}
        /\ \A a \in Editors : req[a].op = "delete"
                                    => \A d \in WithVersion(req[a].version) : ~d.published
        /\ released => Published # {} \/ \E a \in Editors : req[a].op = "putup"

-------------------------------------------------------------------------------

\* A non-empty set of numbers up to n has a largest element.
LEMMA LargestExists ==
    ASSUME NEW n \in Nat, NEW S \in SUBSET (0..n), S # {}
    PROVE  \E x \in S : \A y \in S : x >= y
<1> DEFINE T == {n - x : x \in S}
<1>0. \A x \in S : x \in Nat /\ x <= n OBVIOUS
<1>1. T \subseteq Nat /\ T # {}
    <2>1. \A x \in S : n - x \in Nat BY <1>0
    <2>2. PICK x \in S : TRUE BY Zenon
    <2> QED BY <2>1, <2>2
<1>2. \E t \in T : \A u \in T : ~(<<u, t>> \in OpToRel(<, Nat))
    BY <1>1, NatLessThanWellFounded, WFMin, Zenon
<1>3. PICK t \in T : \A u \in T : ~(u < t) BY <1>1, <1>2, Zenon DEF OpToRel
<1>4. PICK x \in S : t = n - x BY <1>3
<1>5. ASSUME NEW y \in S PROVE x >= y
    <2>1. n - y \in T OBVIOUS
    <2>2. ~(n - y < n - x) BY <1>3, <1>4, <2>1
    <2> QED BY <1>0, <2>2
<1> QED BY <1>5

\* The version of a new draft is above every version in the collection and at
\* most one more than the number of documents inserted before it.
LEMMA NextVersionIsNew ==
    ASSUME TypeOK
    PROVE  NextVersion \in 1..inserted + 1 /\ \A d \in docs : d.version < NextVersion
<1> DEFINE latest == CHOOSE x \in Taken : \A y \in Taken : x >= y
<1>1. Taken \in SUBSET (0..inserted) /\ Taken # {} /\ inserted \in Nat
    BY ConfigAssumption DEF TypeOK, Taken
<1>2. \E x \in Taken : \A y \in Taken : x >= y BY <1>1, LargestExists, ZenonT(30)
<1>3. latest \in Taken /\ \A y \in Taken : latest >= y BY <1>2
<1>4. NextVersion = latest + 1 BY DEF NextVersion
<1> HIDE DEF latest
<1>5. latest \in 0..inserted BY <1>1, <1>3
<1>6. \A d \in docs : d.version \in Taken /\ d.version \in Nat
    BY <1>1, ConfigAssumption DEF TypeOK, Taken
<1> QED BY <1>1, <1>3, <1>4, <1>5, <1>6

\* Every request step keeps the types.
LEMMA StepType == TypeOK /\ [Next]_vars => TypeOK'
<1> SUFFICES ASSUME TypeOK, [Next]_vars PROVE TypeOK' OBVIOUS
<1> USE ConfigAssumption
<1>0. /\ inserted \in 0..MaxDocs /\ docs \in SUBSET Doc(inserted)
      /\ req \in [Editors -> [op : Ops, version : 0..inserted + 1]]
      /\ \A a \in Editors : req[a].op # "idle" => req[a].version # 0
      /\ released \in BOOLEAN /\ races \in SUBSET {"save", "publish", "delete", "torn"}
    BY DEF TypeOK, Doc, Ops
<1>1. ASSUME NEW a \in Editors, NEW op \in Ops, NEW v \in 0..inserted + 1,
             op # "idle" => v # 0, GoTo(a, At(op, v))
      PROVE  /\ req' \in [Editors -> [op : Ops, version : 0..inserted + 1]]
             /\ \A b \in Editors : req'[b].op # "idle" => req'[b].version # 0
    BY <1>0, <1>1 DEF GoTo, At
<1>2. ASSUME NEW a \in Editors, GoTo(a, Idle)
      PROVE  /\ req' \in [Editors -> [op : Ops, version : 0..inserted + 1]]
             /\ \A b \in Editors : req'[b].op # "idle" => req'[b].version # 0
    BY <1>0, <1>2 DEF GoTo, Idle, Ops
<1>3. ASSUME NEW a \in Editors, FindLatest(a) PROVE TypeOK'
    <2>1. NextVersion \in 1..inserted + 1 BY NextVersionIsNew
    <2>2. /\ req' \in [Editors -> [op : Ops, version : 0..inserted + 1]]
          /\ \A b \in Editors : req'[b].op # "idle" => req'[b].version # 0
        BY <1>0, <1>1, <1>3, <2>1 DEF FindLatest, Ops
    <2>3. races' \in SUBSET {"save", "publish", "delete", "torn"}
        BY <1>0, <1>3, Zenon DEF FindLatest, Race
    <2> QED BY <1>0, <1>3, <2>2, <2>3 DEF FindLatest, TypeOK, Ops
<1>4. ASSUME NEW a \in Editors, InsertOne(a) PROVE TypeOK'
    <2>1. inserted' = inserted + 1 /\ inserted' \in 0..MaxDocs
        BY <1>0, <1>4 DEF InsertOne
    <2>2. /\ req' \in [Editors -> [op : Ops, version : 0..inserted' + 1]]
          /\ \A b \in Editors : req'[b].op # "idle" => req'[b].version # 0
        <3>1. /\ req' \in [Editors -> [op : Ops, version : 0..inserted + 1]]
              /\ \A b \in Editors : req'[b].op # "idle" => req'[b].version # 0
            BY <1>2, <1>4, Zenon DEF InsertOne
        <3>2. 0..inserted + 1 \in SUBSET (0..inserted' + 1) BY <1>0, <2>1
        <3> QED BY <3>1, <3>2
    <2>3. docs' \in SUBSET Doc(inserted')
        <3>1. Doc(inserted) \in SUBSET Doc(inserted') BY <1>0, <2>1 DEF Doc
        <3>2. req[a].version \in 1..inserted' BY <1>0, <1>4, <2>1 DEF InsertOne
        <3>3. Draft(req[a].version) \in Doc(inserted') BY <1>0, <2>1, <3>2 DEF Draft, Doc
        <3> QED BY <1>0, <1>4, <3>1, <3>3 DEF InsertOne
    <2> QED BY <1>0, <1>4, <2>1, <2>2, <2>3, Zenon DEF InsertOne, TypeOK, Doc, Ops
<1>5. ASSUME NEW a \in Editors, FindTarget(a) \/ FindForDelete(a) PROVE TypeOK'
    <2>1. PICK op \in {"takedown", "delete"}, v \in Versions :
              WithVersion(v) # {} /\ GoTo(a, At(op, v))
        BY <1>5 DEF FindTarget, FindForDelete
    <2>2. v \in 1..inserted BY <1>0, <2>1 DEF WithVersion, Doc
    <2>3. v \in 0..inserted + 1 /\ v # 0 BY <1>0, <2>2
    <2>4. /\ req' \in [Editors -> [op : Ops, version : 0..inserted + 1]]
          /\ \A b \in Editors : req'[b].op # "idle" => req'[b].version # 0
        BY <1>1, <2>1, <2>3 DEF Ops
    <2>5. races' \in SUBSET {"save", "publish", "delete", "torn"}
        BY <1>0, <1>5, ZenonT(30) DEF FindTarget, FindForDelete, Race
    <2>6. UNCHANGED <<docs, inserted, released>> BY <1>5, Zenon DEF FindTarget, FindForDelete
    <2> QED BY <1>0, <2>4, <2>5, <2>6, Zenon DEF TypeOK, Doc, Ops
<1>6. ASSUME NEW a \in Editors, UpdateMany(a) PROVE TypeOK'
    <2>1. req[a].version \in 0..inserted + 1 /\ req[a].version # 0
        BY <1>0, <1>6 DEF UpdateMany
    <2>2. /\ req' \in [Editors -> [op : Ops, version : 0..inserted + 1]]
          /\ \A b \in Editors : req'[b].op # "idle" => req'[b].version # 0
        BY <1>1, <1>6, <2>1, Zenon DEF UpdateMany, Ops
    <2>3. \A d \in Doc(inserted) : Down(d) \in Doc(inserted) BY ZenonT(30) DEF Down, Doc
    <2>4. docs' \in SUBSET Doc(inserted) BY <1>0, <1>6, <2>3 DEF UpdateMany, TakeDown
    <2>5. races' \in SUBSET {"save", "publish", "delete", "torn"}
        BY <1>0, <1>6, Zenon DEF UpdateMany, Race
    <2> QED BY <1>0, <1>6, <2>2, <2>4, <2>5, Zenon DEF UpdateMany, TypeOK, Doc, Ops
<1>7. ASSUME NEW a \in Editors, FindOneAndUpdate(a) PROVE TypeOK'
    <2>1. /\ req' \in [Editors -> [op : Ops, version : 0..inserted + 1]]
          /\ \A b \in Editors : req'[b].op # "idle" => req'[b].version # 0
        BY <1>2, <1>7 DEF FindOneAndUpdate
    <2>2. \A d \in Doc(inserted) : Up(d) \in Doc(inserted) BY Zenon DEF Up, Doc
    <2>3. docs' \in SUBSET Doc(inserted) /\ released' \in BOOLEAN
        BY <1>0, <1>7, <2>2, ZenonT(30) DEF FindOneAndUpdate, WithVersion
    <2> QED BY <1>0, <1>7, <2>1, <2>3, Zenon DEF FindOneAndUpdate, TypeOK, Doc, Ops
<1>8. ASSUME NEW a \in Editors, DeleteOne(a) \/ Dies(a) PROVE TypeOK'
    <2>1. /\ req' \in [Editors -> [op : Ops, version : 0..inserted + 1]]
          /\ \A b \in Editors : req'[b].op # "idle" => req'[b].version # 0
        BY <1>2, <1>8, Zenon DEF DeleteOne, Dies
    <2>2. docs' \in SUBSET docs BY <1>8 DEF DeleteOne, Dies
    <2>3. races' \in SUBSET {"save", "publish", "delete", "torn"}
        BY <1>0, <1>8, Zenon DEF DeleteOne, Dies, Race
    <2>4. UNCHANGED <<inserted, released>> BY <1>8, Zenon DEF DeleteOne, Dies
    <2> QED BY <1>0, <2>1, <2>2, <2>3, <2>4, Zenon DEF TypeOK, Doc, Ops
<1>9. CASE UNCHANGED vars BY <1>9 DEF vars, TypeOK
<1> QED BY <1>3, <1>4, <1>5, <1>6, <1>7, <1>8, <1>9, Zenon DEF Next

-------------------------------------------------------------------------------

\* What a step does to the other requests: nothing.
LEMMA OthersKept ==
    ASSUME TypeOK, NEW a \in Editors, NEW x, GoTo(a, x)
    PROVE  req'[a] = x /\ \A b \in Editors : b # a => req'[b] = req[b]
<1> QED BY Zenon DEF TypeOK, GoTo

\* The request that an action advances, in the terms of its operation and version.
LEMMA RequestMoves ==
    ASSUME TypeOK, NEW a \in Editors
    PROVE  /\ \A op, v : GoTo(a, At(op, v)) =>
                  /\ req'[a].op = op /\ req'[a].version = v
                  /\ \A b \in Editors : b # a => req'[b] = req[b]
           /\ GoTo(a, Idle) => /\ req'[a].op = "idle"
                               /\ \A b \in Editors : b # a => req'[b] = req[b]
           /\ req[a] = Idle => req[a].op = "idle"
<1>1. \A op, v : At(op, v).op = op /\ At(op, v).version = v BY DEF At
<1>2. Idle.op = "idle" BY DEF Idle
<1>3. \A x : GoTo(a, x) => req'[a] = x /\ \A b \in Editors : b # a => req'[b] = req[b]
    BY OthersKept
<1>4. ASSUME NEW op, NEW v, GoTo(a, At(op, v))
      PROVE  /\ req'[a].op = op /\ req'[a].version = v
             /\ \A b \in Editors : b # a => req'[b] = req[b]
    <2>1. req'[a] = At(op, v) /\ \A b \in Editors : b # a => req'[b] = req[b] BY <1>3, <1>4, Zenon
    <2> QED BY <1>1, <2>1
<1>5. GoTo(a, Idle) => /\ req'[a].op = "idle"
                       /\ \A b \in Editors : b # a => req'[b] = req[b]
    BY <1>2, <1>3, Zenon
<1>6. req[a] = Idle => req[a].op = "idle" BY <1>2, Zenon
<1> QED BY <1>4, <1>5, <1>6

\* Steps that write no document, or only change which are published, keep the
\* versions distinct.
LEMMA StepUnique == TypeOK /\ Unique /\ [Next]_vars => Unique'
<1> SUFFICES ASSUME TypeOK, Unique, [Next]_vars, "save" \notin races'
             PROVE  /\ \A d, e \in docs' : d.version = e.version => d = e
                    /\ \A a, b \in Editors : req'[a].op = "insert" /\ req'[b].op = "insert" => a = b
                    /\ \A a \in Editors : req'[a].op = "insert" =>
                           \A d \in docs' : d.version < req'[a].version
    BY DEF Unique
<1> DEFINE Goal ==
        /\ \A d, e \in docs' : d.version = e.version => d = e
        /\ \A a, b \in Editors : req'[a].op = "insert" /\ req'[b].op = "insert" => a = b
        /\ \A a \in Editors : req'[a].op = "insert" => \A d \in docs' : d.version < req'[a].version
<1>0. races \in SUBSET races'
    BY ZenonT(30) DEF Next, vars, FindLatest, InsertOne, FindTarget, UpdateMany, FindOneAndUpdate,
           FindForDelete, DeleteOne, Dies, Race
<1>i. /\ \A d, e \in docs : d.version = e.version => d = e
      /\ \A a, b \in Editors : req[a].op = "insert" /\ req[b].op = "insert" => a = b
      /\ \A a \in Editors : req[a].op = "insert" => \A d \in docs : d.version < req[a].version
    BY <1>0, Zenon DEF Unique
<1>1. ASSUME NEW a \in Editors, FindLatest(a) PROVE Goal
    <2>1. \A b \in Editors : req[b].op # "insert" BY <1>1, Zenon DEF FindLatest, Race
    <2>2. req'[a] = At("insert", NextVersion) /\ \A b \in Editors : b # a => req'[b] = req[b]
        BY <1>1, OthersKept DEF FindLatest
    <2>3. docs' = docs /\ \A d \in docs : d.version < NextVersion
        BY <1>1, NextVersionIsNew, Zenon DEF FindLatest
    <2> QED BY <1>i, <2>1, <2>2, <2>3 DEF At
<1>2. ASSUME NEW a \in Editors, InsertOne(a) PROVE Goal
    <2>1. req'[a] = Idle /\ \A b \in Editors : b # a => req'[b] = req[b]
        BY <1>2, OthersKept, Zenon DEF InsertOne
    <2>2. \A b \in Editors : req'[b].op # "insert" BY <1>i, <1>2, <2>1 DEF InsertOne, Idle
    <2>3. docs' = docs \cup {Draft(req[a].version)} /\ Draft(req[a].version).version = req[a].version
        BY <1>2 DEF InsertOne, Draft
    <2>4. \A d \in docs : d.version < req[a].version /\ d.version \in Nat
        BY <1>i, <1>2, ConfigAssumption DEF InsertOne, TypeOK
    <2>5. req[a].version \in Nat BY ConfigAssumption DEF TypeOK
    <2>6. \A d, e \in docs' : d.version = e.version => d = e
        <3>1. \A d \in docs : d.version # req[a].version BY <2>4, <2>5
        <3>2. \A d \in docs' : d \in docs \/ (d = Draft(req[a].version) /\ d.version = req[a].version)
            BY <2>3, ZenonT(30)
        <3> QED BY <1>i, <3>1, <3>2, ZenonT(30)
    <2> QED BY <2>2, <2>6
<1>3. ASSUME NEW a \in Editors, FindTarget(a) \/ FindForDelete(a) \/ Dies(a) PROVE Goal
    <2>1. docs' = docs BY <1>3, Zenon DEF FindTarget, FindForDelete, Dies
    <2>2. \A b \in Editors : req'[b].op = "insert" => req'[b] = req[b]
        BY <1>3 DEF TypeOK, FindTarget, FindForDelete, Dies, GoTo, At, Idle
    <2> QED BY <1>i, <2>1, <2>2, Zenon
<1>4. ASSUME NEW a \in Editors, UpdateMany(a) PROVE Goal
    <2>1. docs' = {Down(d) : d \in docs} /\ \A d \in docs : Down(d).version = d.version
        BY <1>4, Zenon DEF TypeOK, UpdateMany, TakeDown, Down
    <2>2. \A b \in Editors : req'[b].op = "insert" => req'[b] = req[b]
        BY <1>4, Zenon DEF TypeOK, UpdateMany, GoTo, At
    <2> QED BY <1>i, <2>1, <2>2
<1>5. ASSUME NEW a \in Editors, FindOneAndUpdate(a) PROVE Goal
    <2>1. \/ docs' = docs
          \/ \E d \in docs : docs' = (docs \ {d}) \cup {Up(d)} /\ Up(d).version = d.version
        BY <1>5 DEF TypeOK, FindOneAndUpdate, WithVersion, Up
    <2>2. \A b \in Editors : req'[b].op = "insert" => req'[b] = req[b]
        BY <1>5 DEF TypeOK, FindOneAndUpdate, GoTo, Idle
    <2> QED BY <1>i, <2>1, <2>2
<1>6. ASSUME NEW a \in Editors, DeleteOne(a) PROVE Goal
    <2>1. docs' \in SUBSET docs BY <1>6, Zenon DEF DeleteOne
    <2>2. \A b \in Editors : req'[b].op = "insert" => req'[b] = req[b]
        BY <1>6 DEF TypeOK, DeleteOne, GoTo, Idle
    <2> QED BY <1>i, <2>1, <2>2, Zenon
<1>7. CASE UNCHANGED vars BY <1>i, <1>7 DEF vars
<1> QED BY <1>1, <1>2, <1>3, <1>4, <1>5, <1>6, <1>7, ZenonT(30) DEF Next

\* Without overlapping publishes a document is put up only when none is up.
LEMMA StepOneUp == TypeOK /\ OneUp /\ [Next]_vars => OneUp'
<1> SUFFICES ASSUME TypeOK, OneUp, [Next]_vars, "publish" \notin races'
             PROVE  /\ \A d, e \in Published' : d = e
                    /\ \A a, b \in Editors : req'[a].op = "putup" /\ req'[b].op = "putup" => a = b
                    /\ \A a \in Editors : req'[a].op = "putup" => Published' = {}
    BY DEF OneUp
<1> DEFINE Goal ==
        /\ \A d, e \in Published' : d = e
        /\ \A a, b \in Editors : req'[a].op = "putup" /\ req'[b].op = "putup" => a = b
        /\ \A a \in Editors : req'[a].op = "putup" => Published' = {}
<1>0. races \in SUBSET races'
    BY ZenonT(30) DEF Next, vars, FindLatest, InsertOne, FindTarget, UpdateMany, FindOneAndUpdate,
           FindForDelete, DeleteOne, Dies, Race
<1>i. /\ \A d, e \in Published : d = e
      /\ \A a, b \in Editors : req[a].op = "putup" /\ req[b].op = "putup" => a = b
      /\ \A a \in Editors : req[a].op = "putup" => Published = {}
    BY <1>0 DEF OneUp
<1>1. ASSUME NEW a \in Editors,
             FindLatest(a) \/ InsertOne(a) \/ FindTarget(a) \/ FindForDelete(a)
                 \/ DeleteOne(a) \/ Dies(a)
      PROVE  Goal
    <2>1. Published' \in SUBSET Published
        <3>1. docs' \in SUBSET (docs \cup {Draft(req[a].version)})
            BY <1>1, ZenonT(30) DEF FindLatest, InsertOne, FindTarget, FindForDelete, DeleteOne, Dies
        <3>2. Draft(req[a].version).published = FALSE BY DEF Draft
        <3> QED BY <3>1, <3>2 DEF Published
    <2>2. \A b \in Editors : req'[b].op = "putup" => req'[b] = req[b]
        <3>1. \E x : GoTo(a, x) /\ x.op # "putup"
            <4>1. Idle.op = "idle" BY DEF Idle
            <4>2. \A op, v : At(op, v).op = op BY DEF At
            <4> QED BY <1>1, <4>1, <4>2, ZenonT(30)
                    DEF FindLatest, InsertOne, FindTarget, FindForDelete, DeleteOne, Dies
        <3> QED BY <3>1, OthersKept
    <2> QED BY <1>i, <2>1, <2>2
<1>2. ASSUME NEW a \in Editors, UpdateMany(a) PROVE Goal
    <2>1. \A d \in docs : Down(d).published = FALSE BY DEF TypeOK, Down
    <2>2. Published' = {} BY <1>2, <2>1, Zenon DEF UpdateMany, TakeDown, Published
    <2>3. \A b \in Editors : req[b].op # "putup" BY <1>2, Zenon DEF UpdateMany, Race
    <2>4. \A b \in Editors : req'[b].op = "putup" => b = a
        BY <1>2, <2>3 DEF TypeOK, UpdateMany, GoTo
    <2> QED BY <2>2, <2>4
<1>3. ASSUME NEW a \in Editors, FindOneAndUpdate(a) PROVE Goal
    <2>1. Published = {} /\ \A b \in Editors : b # a => req[b].op # "putup"
        BY <1>i, <1>3, Zenon DEF FindOneAndUpdate
    <2>2. \A b \in Editors : req'[b].op # "putup"
        BY <1>3, <2>1, Zenon DEF TypeOK, FindOneAndUpdate, GoTo, Idle
    <2>3. \E d : docs' \in SUBSET (docs \cup {d})
        BY <1>3 DEF FindOneAndUpdate
    <2>4. \A d, e \in Published' : d = e BY <2>1, <2>3, Zenon DEF Published
    <2> QED BY <2>2, <2>4, ZenonT(30)
<1>4. CASE UNCHANGED vars BY <1>i, <1>4 DEF vars, Published
<1> QED BY <1>1, <1>2, <1>3, <1>4, ZenonT(30) DEF Next

\* When a step starts no publication and no delete, and moves no request to
\* another version, publications and deletes stay on distinct versions.
LEMMA ApartKept ==
    ASSUME NEW r, NEW s,
           \A b \in Editors : s[b].op \in {"takedown", "putup"}
                => r[b].op \in {"takedown", "putup"} /\ s[b].version = r[b].version,
           \A b \in Editors : s[b].op = "delete" => s[b] = r[b],
           \A a, b \in Editors : r[a].op \in {"takedown", "putup"} /\ r[b].op = "delete"
                => r[a].version # r[b].version
    PROVE  \A a, b \in Editors : s[a].op \in {"takedown", "putup"} /\ s[b].op = "delete"
                => s[a].version # s[b].version
<1> SUFFICES ASSUME NEW a \in Editors, NEW b \in Editors,
                    s[a].op \in {"takedown", "putup"}, s[b].op = "delete"
             PROVE  s[a].version # s[b].version
    OBVIOUS
<1>1. r[a].op \in {"takedown", "putup"} /\ s[a].version = r[a].version OBVIOUS
<1>2. r[b].op = "delete" /\ s[b].version = r[b].version OBVIOUS
<1>3. r[a].version # r[b].version BY <1>1, <1>2
<1> QED BY <1>1, <1>2, <1>3

\* When a step starts no publication, moves no request to another version and
\* keeps a document of every version there is, every publication still has the
\* document it aims at.
LEMMA AimKept ==
    ASSUME NEW r, NEW s, NEW D, NEW E,
           \A b \in Editors : s[b].op \in {"takedown", "putup"}
                => r[b].op \in {"takedown", "putup"} /\ s[b].version = r[b].version,
           \A d \in D : \E e \in E : e.version = d.version,
           \A a \in Editors : r[a].op \in {"takedown", "putup"}
                => \E d \in D : d.version = r[a].version
    PROVE  \A a \in Editors : s[a].op \in {"takedown", "putup"}
                => \E e \in E : e.version = s[a].version
<1> SUFFICES ASSUME NEW a \in Editors, s[a].op \in {"takedown", "putup"}
             PROVE  \E e \in E : e.version = s[a].version
    OBVIOUS
<1>1. r[a].op \in {"takedown", "putup"} /\ s[a].version = r[a].version OBVIOUS
<1>2. PICK d \in D : d.version = r[a].version BY <1>1
<1>3. PICK e \in E : e.version = d.version OBVIOUS
<1> QED BY <1>1, <1>2, <1>3

\* A scenario with a published version keeps one: a delete never has the version
\* of a publish in hand, nor a published one.
LEMMA StepStays == TypeOK /\ Unique /\ Stays /\ [Next]_vars => Stays'
<1> SUFFICES ASSUME TypeOK, Unique, Stays, [Next]_vars, races' \in SUBSET {"publish"}
             PROVE  /\ \A a, b \in Editors :
                           req'[a].op \in {"takedown", "putup"} /\ req'[b].op = "delete"
                               => req'[a].version # req'[b].version
                    /\ \A a \in Editors : req'[a].op \in {"takedown", "putup"}
                               => \E d \in docs' : d.version = req'[a].version
                    /\ \A a \in Editors : req'[a].op = "delete"
                               => \A d \in docs' : d.version = req'[a].version => ~d.published
                    /\ released' => \/ \E d \in docs' : d.published
                                    \/ \E a \in Editors : req'[a].op = "putup"
    BY ZenonT(30) DEF Stays, WithVersion, Published
<1> DEFINE Disjoint == \A a, b \in Editors :
                           req'[a].op \in {"takedown", "putup"} /\ req'[b].op = "delete"
                               => req'[a].version # req'[b].version
           Target == \A a \in Editors : req'[a].op \in {"takedown", "putup"}
                               => \E d \in docs' : d.version = req'[a].version
           Draftless == \A a \in Editors : req'[a].op = "delete"
                               => \A d \in docs' : d.version = req'[a].version => ~d.published
           StillUp == released' => \/ \E d \in docs' : d.published
                                   \/ \E a \in Editors : req'[a].op = "putup"
<1>0. races \in SUBSET races'
    BY ZenonT(30) DEF Next, vars, FindLatest, InsertOne, FindTarget, UpdateMany, FindOneAndUpdate,
           FindForDelete, DeleteOne, Dies, Race
<1>i. /\ \A a, b \in Editors : req[a].op \in {"takedown", "putup"} /\ req[b].op = "delete"
                                    => req[a].version # req[b].version
      /\ \A a \in Editors : req[a].op \in {"takedown", "putup"}
                                    => \E d \in docs : d.version = req[a].version
      /\ \A a \in Editors : req[a].op = "delete"
                                    => \A d \in docs : d.version = req[a].version => ~d.published
      /\ released => (\E d \in docs : d.published) \/ \E a \in Editors : req[a].op = "putup"
    BY <1>0, ZenonT(30) DEF Stays, WithVersion, Published
<1>u. /\ \A d, e \in docs : d.version = e.version => d = e
      /\ \A a \in Editors : req[a].op = "insert" => \A d \in docs : d.version < req[a].version
    BY <1>0, ZenonT(30) DEF Unique
<1>1. ASSUME NEW a \in Editors, FindLatest(a) PROVE Disjoint /\ Target /\ Draftless /\ StillUp
    <2>1. /\ req'[a].op = "insert" /\ \A b \in Editors : b # a => req'[b] = req[b]
          /\ req[a].op = "idle"
        BY <1>1, RequestMoves, ZenonT(30) DEF FindLatest
    <2>2. docs' = docs /\ released' = released BY <1>1, ZenonT(30) DEF FindLatest
    <2>3. Disjoint BY <1>i, <2>1, <2>2, ZenonT(30)
    <2>4. Target BY <1>i, <2>1, <2>2, ZenonT(30)
    <2>5. Draftless BY <1>i, <2>1, <2>2, ZenonT(30)
    <2>6. StillUp BY <1>i, <2>1, <2>2, ZenonT(30)
    <2> QED BY <2>3, <2>4, <2>5, <2>6, Zenon
<1>2. ASSUME NEW a \in Editors, InsertOne(a) PROVE Disjoint /\ Target /\ Draftless /\ StillUp
    <2>1. /\ req'[a].op = "idle" /\ \A b \in Editors : b # a => req'[b] = req[b]
          /\ req[a].op = "insert"
        BY <1>2, RequestMoves, ZenonT(30) DEF InsertOne
    <2>2. docs' = docs \cup {Draft(req[a].version)} /\ ~Draft(req[a].version).published
        BY <1>2 DEF InsertOne, Draft
    <2>3. released' = released BY <1>2, ZenonT(30) DEF InsertOne
    <2>4. /\ \A b \in Editors : req'[b].op \in {"takedown", "putup"}
                 => req[b].op \in {"takedown", "putup"} /\ req'[b].version = req[b].version
          /\ \A b \in Editors : req'[b].op = "delete" => req'[b] = req[b]
        BY <2>1, ZenonT(30)
    <2>5. Disjoint BY <1>i, <2>4, ApartKept
    <2>6. Target
        <3>1. \A d \in docs : \E e \in docs' : e.version = d.version BY <2>2, ZenonT(30)
        <3> QED BY <1>i, <2>4, <3>1, AimKept
    <2>7. Draftless BY <1>i, <2>2, <2>4, ZenonT(30)
    <2>8. StillUp BY <1>i, <2>1, <2>2, <2>3, ZenonT(30)
    <2> QED BY <2>5, <2>6, <2>7, <2>8, Zenon
<1>3. ASSUME NEW a \in Editors, FindTarget(a) PROVE Disjoint /\ Target /\ Draftless /\ StillUp
    <2>1. PICK v \in Versions : /\ WithVersion(v) # {} /\ req[a] = Idle
                                /\ GoTo(a, At("takedown", v))
                                /\ Race("delete", Doing({"delete"}, v))
        BY <1>3 DEF FindTarget
    <2>2. /\ req'[a].op = "takedown" /\ req'[a].version = v
          /\ \A b \in Editors : b # a => req'[b] = req[b]
          /\ req[a].op = "idle"
        BY <2>1, RequestMoves, ZenonT(30)
    <2>3. \A b \in Editors : req[b].op = "delete" => req[b].version # v
        BY <2>1 DEF Race, Doing
    <2>4. docs' = docs /\ released' = released /\ \E d \in docs : d.version = v
        BY <1>3, <2>1, ZenonT(30) DEF FindTarget, WithVersion
    <2>5. Disjoint BY <1>i, <2>2, <2>3, <2>4, ZenonT(30)
    <2>6. Target BY <1>i, <2>2, <2>3, <2>4, ZenonT(30)
    <2>7. Draftless BY <1>i, <2>2, <2>3, <2>4, ZenonT(30)
    <2>8. StillUp BY <1>i, <2>2, <2>3, <2>4, ZenonT(30)
    <2> QED BY <2>5, <2>6, <2>7, <2>8, Zenon
<1>4. ASSUME NEW a \in Editors, UpdateMany(a) PROVE Disjoint /\ Target /\ Draftless /\ StillUp
    <2>1. /\ req'[a].op = "putup" /\ req'[a].version = req[a].version
          /\ \A b \in Editors : b # a => req'[b] = req[b]
          /\ req[a].op = "takedown"
        BY <1>4, RequestMoves, ZenonT(30) DEF UpdateMany
    <2>2. docs' = {Down(d) : d \in docs} BY <1>4, Zenon DEF UpdateMany, TakeDown
    <2>3. \A d \in docs : Down(d).version = d.version /\ ~Down(d).published
        BY DEF TypeOK, Down
    <2>4. /\ \A b \in Editors : req'[b].op \in {"takedown", "putup"}
                 => req[b].op \in {"takedown", "putup"} /\ req'[b].version = req[b].version
          /\ \A b \in Editors : req'[b].op = "delete" => req'[b] = req[b]
        BY <2>1, ZenonT(30)
    <2>5. Disjoint BY <1>i, <2>4, ApartKept
    <2>6. Target
        <3>1. \A d \in docs : \E e \in docs' : e.version = d.version BY <2>2, <2>3, ZenonT(30)
        <3> QED BY <1>i, <2>4, <3>1, AimKept
    <2>7. Draftless BY <2>2, <2>3, ZenonT(30)
    <2>8. StillUp BY <2>1, ZenonT(30)
    <2> QED BY <2>5, <2>6, <2>7, <2>8, Zenon
<1>5. ASSUME NEW a \in Editors, FindOneAndUpdate(a) PROVE Disjoint /\ Target /\ Draftless /\ StillUp
    <2>1. /\ req'[a].op = "idle" /\ \A b \in Editors : b # a => req'[b] = req[b]
          /\ req[a].op = "putup"
        BY <1>5, RequestMoves, ZenonT(30) DEF FindOneAndUpdate
    <2>2. \E d \in docs : d.version = req[a].version BY <1>i, <2>1, Zenon
    <2>3. PICK d \in docs : d.version = req[a].version /\ docs' = (docs \ {d}) \cup {Up(d)}
        BY <1>5, <2>2 DEF FindOneAndUpdate, WithVersion
    <2>4. Up(d).version = d.version /\ Up(d).published BY ZenonT(30) DEF TypeOK, Up
    <2>5. /\ \A b \in Editors : req'[b].op \in {"takedown", "putup"}
                 => req[b].op \in {"takedown", "putup"} /\ req'[b].version = req[b].version
          /\ \A b \in Editors : req'[b].op = "delete" => req'[b] = req[b]
        BY <2>1, ZenonT(30)
    <2>6. Disjoint BY <1>i, <2>5, ApartKept
    <2>7. Target
        <3>1. \A e \in docs : e = d \/ e \in docs' BY <2>3, Zenon
        <3>2. Up(d) \in docs' BY <2>3, Zenon
        <3>3. \A e \in docs : \E x \in docs' : x.version = e.version
            BY <2>4, <3>1, <3>2, ZenonT(30)
        <3> QED BY <1>i, <2>5, <3>3, AimKept
    <2>8. Draftless
        <3>1. \A e \in docs' : e \in docs \/ e.version = req[a].version BY <2>3, <2>4, Zenon
        <3>2. \A b \in Editors : req[b].op = "delete" => req[a].version # req[b].version
            BY <1>i, <2>1, ZenonT(30)
        <3> QED BY <1>i, <2>5, <3>1, <3>2, ZenonT(30)
    <2>9. StillUp BY <2>3, <2>4, ZenonT(30)
    <2> QED BY <2>6, <2>7, <2>8, <2>9, Zenon
<1>6. ASSUME NEW a \in Editors, FindForDelete(a) PROVE Disjoint /\ Target /\ Draftless /\ StillUp
    <2>1. PICK v \in Versions, d \in docs :
              /\ d.version = v /\ ~d.published /\ req[a] = Idle
              /\ GoTo(a, At("delete", v)) /\ Race("delete", Doing({"takedown", "putup"}, v))
        BY <1>6 DEF FindForDelete, WithVersion, MayDelete
    <2>2. /\ req'[a].op = "delete" /\ req'[a].version = v
          /\ \A b \in Editors : b # a => req'[b] = req[b]
          /\ req[a].op = "idle"
        BY <2>1, RequestMoves, ZenonT(30)
    <2>3. \A b \in Editors : req[b].op \in {"takedown", "putup"} => req[b].version # v
        BY <2>1, Zenon DEF Race, Doing
    <2>4. docs' = docs /\ released' = released BY <1>6, Zenon DEF FindForDelete
    <2>5. \A b \in Editors : /\ req'[b].op \in {"takedown", "putup"} => b # a
                             /\ req'[b].op = "delete" /\ b # a => req[b].op = "delete"
                             /\ b # a => req'[b] = req[b]
        BY <2>2, ZenonT(30)
    <2>6. ASSUME NEW b \in Editors, NEW c \in Editors,
                 req'[b].op \in {"takedown", "putup"}, req'[c].op = "delete"
          PROVE  req'[b].version # req'[c].version
        <3>1. req'[b] = req[b] /\ req[b].op \in {"takedown", "putup"} BY <2>5, <2>6, Zenon
        <3>2. CASE c = a BY <2>2, <2>3, <3>1, <3>2, Zenon
        <3>3. CASE c # a
            <4>1. req'[c] = req[c] /\ req[c].op = "delete" BY <2>5, <2>6, <3>3, Zenon
            <4> QED BY <1>i, <3>1, <4>1, Zenon
        <3> QED BY <3>2, <3>3, Zenon
    <2>7. Target
        <3>1. \A b \in Editors : req'[b].op \in {"takedown", "putup"} => req'[b] = req[b]
            BY <2>5, Zenon
        <3> QED BY <1>i, <2>4, <3>1, ZenonT(30)
    <2>8. ASSUME NEW b \in Editors, req'[b].op = "delete", NEW e \in docs, e.version = req'[b].version
          PROVE  ~e.published
        <3>1. CASE b = a
            <4>1. e = d BY <1>u, <2>1, <2>2, <2>8, <3>1, ZenonT(30)
            <4> QED BY <2>1, <4>1, Zenon
        <3>2. CASE b # a BY <1>i, <2>5, <2>8, <3>2, ZenonT(30)
        <3> QED BY <3>1, <3>2, Zenon
    <2>9. StillUp BY <1>i, <2>2, <2>4, ZenonT(30)
    <2> QED BY <2>4, <2>6, <2>7, <2>8, <2>9, ZenonT(30)
<1>7. ASSUME NEW a \in Editors, DeleteOne(a) PROVE Disjoint /\ Target /\ Draftless /\ StillUp
    <2>1. /\ req'[a].op = "idle" /\ \A b \in Editors : b # a => req'[b] = req[b]
          /\ req[a].op = "delete"
        BY <1>7, RequestMoves, Zenon DEF DeleteOne
    <2>2. released' = released /\ docs' \in SUBSET docs
        BY <1>7, ZenonT(30) DEF DeleteOne
    <2>3. \A d \in docs \ docs' : d.version = req[a].version
        BY <1>7, Zenon DEF DeleteOne, WithVersion
    <2>4. /\ \A b \in Editors : req'[b].op \in {"takedown", "putup"}
                 => req[b].op \in {"takedown", "putup"} /\ req'[b].version = req[b].version
          /\ \A b \in Editors : req'[b].op = "delete" => req'[b] = req[b]
        BY <2>1, ZenonT(30)
    <2>5. Disjoint BY <1>i, <2>4, ApartKept
    <2>6. ASSUME NEW b \in Editors, req'[b].op \in {"takedown", "putup"}
          PROVE  \E d \in docs' : d.version = req'[b].version
        <3>1. req[b].op \in {"takedown", "putup"} /\ req'[b].version = req[b].version
            BY <2>4, <2>6, Zenon
        <3>2. PICK d \in docs : d.version = req[b].version BY <1>i, <3>1, Zenon
        <3>3. req[b].version # req[a].version BY <1>i, <2>1, <3>1, ZenonT(30)
        <3>4. d \in docs' BY <2>3, <3>2, <3>3, Zenon
        <3> QED BY <3>1, <3>2, <3>4, Zenon
    <2>7. Draftless BY <1>i, <2>2, <2>4, ZenonT(30)
    <2>8. StillUp
        <3>1. \A d \in docs : d.published => d \in docs' BY <1>i, <2>1, <2>3, ZenonT(30)
        <3>2. \A b \in Editors : req[b].op = "putup" => req'[b].op = "putup" BY <2>1, ZenonT(30)
        <3> QED BY <1>i, <2>2, <3>1, <3>2, ZenonT(30)
    <2> QED BY <2>5, <2>6, <2>7, <2>8, Zenon
<1>8. ASSUME NEW a \in Editors, Dies(a) PROVE Disjoint /\ Target /\ Draftless /\ StillUp
    <2>1. /\ req'[a].op = "idle" /\ \A b \in Editors : b # a => req'[b] = req[b]
        BY <1>8, RequestMoves, Zenon DEF Dies
    <2>2. req[a].op # "putup" BY <1>8 DEF Dies, Race
    <2>3. docs' = docs /\ released' = released BY <1>8, ZenonT(30) DEF Dies
    <2>4. Disjoint BY <1>i, <2>1, <2>2, <2>3, ZenonT(30)
    <2>5. Target BY <1>i, <2>1, <2>2, <2>3, ZenonT(30)
    <2>6. Draftless BY <1>i, <2>1, <2>2, <2>3, ZenonT(30)
    <2>7. StillUp BY <1>i, <2>1, <2>2, <2>3, ZenonT(30)
    <2> QED BY <2>4, <2>5, <2>6, <2>7, Zenon
<1>9. CASE UNCHANGED vars BY <1>i, <1>9, Zenon DEF vars
<1> QED BY <1>1, <1>2, <1>3, <1>4, <1>5, <1>6, <1>7, <1>8, <1>9, ZenonT(30) DEF Next

-------------------------------------------------------------------------------

\* The collection starts empty.
LEMMA InitInv == Init => TypeOK /\ Unique /\ OneUp /\ Stays
<1> SUFFICES ASSUME Init PROVE TypeOK /\ Unique /\ OneUp /\ Stays OBVIOUS
<1>1. \A a \in Editors : req[a] = Idle BY DEF Init
<1>2. Idle \in [op : Ops, version : 0..1] /\ Idle.op = "idle" BY DEF Idle, Ops
<1>3. TypeOK
    <2>1. inserted \in 0..MaxDocs /\ 0..inserted + 1 = 0..1 BY ConfigAssumption DEF Init
    <2>2. req \in [Editors -> [op : Ops, version : 0..inserted + 1]] BY <1>2, <2>1 DEF Init
    <2>3. docs \in SUBSET Doc(inserted) /\ races = {} /\ released \in BOOLEAN BY Zenon DEF Init
    <2> QED BY <1>1, <1>2, <2>1, <2>2, <2>3, Zenon DEF TypeOK, Doc, Ops
<1> QED BY <1>1, <1>2, <1>3 DEF Init, Unique, OneUp, Stays, Published

\* A set whose elements are all equal has at most one.
LEMMA AtMostOne ==
    ASSUME NEW S, \A x, y \in S : x = y
    PROVE  Cardinality(S) <= 1
<1>1. CASE S = {} BY <1>1, FS_EmptySet
<1>2. CASE S # {}
    <2>1. PICK x \in S : TRUE BY <1>2
    <2>2. S = {x} BY <2>1
    <2> QED BY <2>2, FS_Singleton
<1> QED BY <1>1, <1>2

\* Type correctness: no version number runs ahead of the documents inserted.
THEOREM ScenariosTyped == Spec => []TypeOK
<1> QED BY InitInv, StepType, PTL DEF Spec

\* save never gives two documents one version, unless two saves overlap.
THEOREM VersionsAreUnique == Spec => []VersionsUnique
<1>1. Unique => VersionsUnique BY DEF Unique, VersionsUnique
<1> QED BY InitInv, StepType, StepUnique, <1>1, PTL DEF Spec

\* publish leaves at most one version published, unless two publishes overlap
\* between their two writes.
THEOREM OnePublished == Spec => []AtMostOnePublished
<1>1. OneUp => AtMostOnePublished BY AtMostOne DEF OneUp, AtMostOnePublished
<1> QED BY InitInv, StepType, StepOneUp, <1>1, PTL DEF Spec

\* Once published, a scenario has a published version whenever no publish is
\* between its two writes, although publishes may overlap.
THEOREM PublishedIsKept == Spec => []PublishedStays
<1>1. Stays => PublishedStays BY Zenon DEF Stays, PublishedStays
<1> QED BY InitInv, StepType, StepUnique, StepStays, <1>1, PTL DEF Spec

-------------------------------------------------------------------------------
(***************************************************************************)
(* THE SCENARIO EDITOR.  The set that the while loop of _validate_graph    *)
(* returns is the least one that has the entry and that no edge leaves: a  *)
(* turn stays inside every such set, a turn that adds nothing leaves one,  *)
(* and as every other turn adds the end of another edge the loop ends      *)
(* within as many turns as there are edges.                                *)
(***************************************************************************)

\* What holds of 0 and, with a number below n, of the next, holds up to n.
LEMMA CountingUp ==
    ASSUME NEW n \in Nat, NEW Good, 0 \in Good, \A k \in 1..n : k - 1 \in Good => k \in Good
    PROVE  \A k \in 0..n : k \in Good
<1> DEFINE Bad == {k \in 0..n : k \notin Good}
<1> SUFFICES ASSUME Bad # {} PROVE FALSE BY Zenon
<1>1. Bad \subseteq Nat OBVIOUS
<1>2. \E b \in Bad : \A c \in Bad : ~(<<c, b>> \in OpToRel(<, Nat))
    BY <1>1, NatLessThanWellFounded, WFMin, Zenon
<1>3. PICK b \in Bad : \A c \in Bad : ~(c < b) BY <1>1, <1>2, Zenon DEF OpToRel
<1>4. b \in 0..n /\ b \notin Good BY <1>3, Zenon
<1>5. b \in 1..n /\ b - 1 \in 0..n /\ b - 1 < b
    <2>1. b # 0 BY <1>4, Zenon
    <2> QED BY <1>4, <2>1
<1>6. b - 1 \in Good BY <1>3, <1>5
<1> QED BY <1>4, <1>5, <1>6, Zenon

\* Loops of n turns over a state in D; the runs of one whose turn k takes d to
\* turn[k][d].
Loops(n, D) == [1..n -> [D -> D]]
Runs(n, D, start, turn) ==
    {f \in [0..n -> D] : f[0] = start /\ \A k \in 1..n : f[k] = turn[k][f[k - 1]]}

\* A loop has a run from every state.
LEMMA LoopRuns ==
    ASSUME NEW n \in Nat, NEW D, NEW start \in D, NEW turn \in Loops(n, D)
    PROVE  \E f : f \in Runs(n, D, start, turn)
<1>0. turn \in [1..n -> [D -> D]] BY DEF Loops
<1> DEFINE Run(m, f) == f[0] = start /\ \A k \in 1..m : f[k] = turn[k][f[k - 1]]
           Good == {m \in 0..n : \E f \in [0..m -> D] : Run(m, f)}
<1>1. 0 \in Good
    <2>1. [k \in 0..0 |-> start] \in [0..0 -> D] /\ Run(0, [k \in 0..0 |-> start]) OBVIOUS
    <2>2. 0 \in 0..n OBVIOUS
    <2> QED BY <2>1, <2>2, Zenon
<1>2. ASSUME NEW m \in 1..n, m - 1 \in Good PROVE m \in Good
    <2>1. PICK f \in [0..(m - 1) -> D] : Run(m - 1, f) BY <1>2, Zenon
    <2> DEFINE g == [k \in 0..m |-> IF k = m THEN turn[m][f[m - 1]] ELSE f[k]]
    <2>2. m - 1 \in 0..(m - 1) /\ f[m - 1] \in D OBVIOUS
    <2>3. turn[m][f[m - 1]] \in D BY <1>0, <2>2
    <2>4. \A k \in 0..m : k # m => k \in 0..(m - 1) OBVIOUS
    <2>5. g \in [0..m -> D] BY <2>3, <2>4, ZenonT(30)
    <2>6. g[0] = start /\ g[m] = turn[m][g[m - 1]] BY <2>1
    <2>7. ASSUME NEW k \in 1..m, k # m PROVE g[k] = turn[k][g[k - 1]]
        <3>1. k \in 1..(m - 1) /\ k \in 0..m /\ k - 1 \in 0..m /\ k - 1 # m BY <2>7
        <3>2. g[k] = f[k] /\ g[k - 1] = f[k - 1] BY <2>7, <3>1, Zenon
        <3> QED BY <2>1, <3>1, <3>2, Zenon
    <2>8. Run(m, g) BY <2>6, <2>7, Zenon
    <2> HIDE DEF g
    <2> QED BY <2>5, <2>8
<1>3. \A m \in 0..n : m \in Good
    <2> HIDE DEF Good
    <2> QED BY <1>1, <1>2, CountingUp, Zenon
<1>4. n \in 0..n OBVIOUS
<1>5. n \in Good BY <1>3, <1>4, Zenon
<1> QED BY <1>5, Zenon DEF Runs

-------------------------------------------------------------------------------

\* The edge k, followed from the nodes of r.
Followed(s, k, r) == IF s.edges[k].from_ \in r THEN r \cup {s.edges[k].to} ELSE r

\* A scenario's edges lead from ids to ids, and its nodes have ids.
LEMMA DraftParts ==
    ASSUME NEW s \in Scenario
    PROVE  /\ Len(s.edges) \in Nat /\ DOMAIN s.edges = 1..Len(s.edges)
           /\ \A k \in DOMAIN s.edges : s.edges[k].from_ \in Ids /\ s.edges[k].to \in Ids
           /\ Len(s.nodes) \in Nat /\ DOMAIN s.nodes = 1..Len(s.nodes)
           /\ \A i \in DOMAIN s.nodes : s.nodes[i].id \in Ids
           /\ s.entry \in Ids /\ ids(s) \in SUBSET Ids
           /\ \A k \in DOMAIN s.edges, r \in SUBSET Ids : Followed(s, k, r) \in SUBSET Ids
<1>1. s.edges \in Seq(Edge) /\ s.nodes \in Seq(Node) /\ s.entry \in Ids BY DEF Scenario
<1>2. /\ Len(s.edges) \in Nat /\ DOMAIN s.edges = 1..Len(s.edges)
      /\ \A k \in DOMAIN s.edges : s.edges[k] \in Edge BY <1>1
<1>3. /\ Len(s.nodes) \in Nat /\ DOMAIN s.nodes = 1..Len(s.nodes)
      /\ \A k \in DOMAIN s.nodes : s.nodes[k] \in Node BY <1>1
<1>4. \A k \in DOMAIN s.edges : s.edges[k].from_ \in Ids /\ s.edges[k].to \in Ids
    BY <1>2 DEF Edge
<1>5. \A i \in DOMAIN s.nodes : s.nodes[i].id \in Ids BY <1>3 DEF Node
<1>6. ids(s) \in SUBSET Ids BY <1>5, Zenon DEF ids
<1>7. \A k \in DOMAIN s.edges, r \in SUBSET Ids : Followed(s, k, r) \in SUBSET Ids
    BY <1>4, Zenon DEF Followed
<1> QED BY <1>1, <1>2, <1>3, <1>4, <1>5, <1>6, <1>7, Zenon

\* A turn of the while loop follows the edges one after the other.
LEMMA PassRuns ==
    ASSUME NEW s \in Scenario, NEW r \in SUBSET Ids
    PROVE  \E u \in [0..Len(s.edges) -> SUBSET Ids] :
               /\ u[0] = r /\ Pass(s, r) = u[Len(s.edges)]
               /\ \A k \in 1..Len(s.edges) : u[k] = Followed(s, k, u[k - 1])
<1> DEFINE n == Len(s.edges)
           D == SUBSET Ids
           Solves(f) == f = [k \in 0..n |-> IF k = 0 THEN r ELSE Followed(s, k, f[k - 1])]
           u == CHOOSE f : Solves(f)
           turn == [k \in 1..n |-> [q \in D |-> Followed(s, k, q)]]
<1>1. Pass(s, r) = u[n] BY DEF Pass, Followed
<1>2. n \in Nat /\ DOMAIN s.edges = 1..n BY DraftParts
<1>3. \A k \in DOMAIN s.edges, q \in D : Followed(s, k, q) \in D BY DraftParts, Zenon
<1>4. r \in D OBVIOUS
<1> HIDE DEF n, D, turn
<1>5. \A k \in 1..n, q \in D : Followed(s, k, q) \in D BY <1>2, <1>3, Zenon
<1>6. turn \in Loops(n, D) BY <1>5, Zenon DEF turn, Loops
<1>7. PICK f \in [0..n -> D] : f[0] = r /\ \A k \in 1..n : f[k] = turn[k][f[k - 1]]
    <2>1. \E f : f \in Runs(n, D, r, turn) BY <1>2, <1>4, <1>6, LoopRuns, ZenonT(30)
    <2> QED BY <2>1, Zenon DEF Runs
<1>8. 0 \in 0..n /\ \A k \in 1..n : k \in 0..n /\ k - 1 \in 0..n /\ k # 0 BY <1>2
<1>9. \A k \in 0..n : k # 0 => k \in 1..n BY <1>2
<1>10. \A k \in 1..n : f[k] = Followed(s, k, f[k - 1]) BY <1>7, <1>8, Zenon DEF turn
<1>11. Solves(f)
    <2>1. \A k \in 0..n : f[k] = IF k = 0 THEN r ELSE Followed(s, k, f[k - 1])
        BY <1>7, <1>9, <1>10, Zenon
    <2> QED BY <2>1, Zenon
<1>12. Solves(u) BY <1>11, Zenon
<1> HIDE DEF u
<1>13. u[0] = r /\ \A k \in 1..n : u[k] = Followed(s, k, u[k - 1]) BY <1>8, <1>12, Zenon
<1>14. \A k \in 0..n : u[k] \in D
    <2> DEFINE Good == {k \in 0..n : u[k] \in D}
    <2>1. 0 \in Good BY <1>4, <1>8, <1>13, Zenon
    <2>2. \A k \in 1..n : k - 1 \in Good => k \in Good BY <1>5, <1>8, <1>13, Zenon
    <2> HIDE DEF Good
    <2>3. \A k \in 0..n : k \in Good BY <1>2, <2>1, <2>2, CountingUp, Zenon
    <2> QED BY <2>3, Zenon DEF Good
<1>15. u \in [0..n -> D] BY <1>12, <1>14, Zenon
<1> QED BY <1>1, <1>13, <1>15, Zenon DEF n, D

\* A turn loses no node, and finds the ends of the edges that leave what it was given.
LEMMA PassGrows ==
    ASSUME NEW s \in Scenario, NEW r \in SUBSET Ids
    PROVE  /\ Pass(s, r) \in SUBSET Ids /\ r \subseteq Pass(s, r)
           /\ Pass(s, r) = r => Closed(s, r)
<1> DEFINE n == Len(s.edges)
<1>1. n \in Nat /\ DOMAIN s.edges = 1..n BY DraftParts
<1>2. PICK u \in [0..n -> SUBSET Ids] :
          /\ u[0] = r /\ Pass(s, r) = u[n]
          /\ \A k \in 1..n : u[k] = Followed(s, k, u[k - 1])
    BY PassRuns, Zenon
<1> HIDE DEF n
<1>3. \A k \in 1..n : u[k - 1] \subseteq u[k] BY <1>2, Zenon DEF Followed
<1>4. /\ 0 \in 0..n /\ n \in 0..n
      /\ \A k \in 1..n : k \in 0..n /\ k - 1 \in 0..n /\ n - k \in 0..n /\ n - k + 1 \in 1..n
      /\ \A k \in 1..n : (n - k + 1) - 1 = n - k /\ n - (k - 1) = n - k + 1
      /\ n - 0 = n /\ \A k \in 0..n : n - k \in 0..n /\ n - (n - k) = k
    BY <1>1
<1>5. \A k \in 0..n : r \subseteq u[k]
    <2> DEFINE Good == {k \in 0..n : r \subseteq u[k]}
    <2>1. 0 \in Good BY <1>2, <1>4, Zenon
    <2>2. \A k \in 1..n : k - 1 \in Good => k \in Good BY <1>3, <1>4, Zenon
    <2> HIDE DEF Good
    <2>3. \A k \in 0..n : k \in Good BY <1>1, <2>1, <2>2, CountingUp, Zenon
    <2> QED BY <2>3, Zenon DEF Good
<1>6. \A k \in 0..n : u[k] \subseteq u[n]
    <2> DEFINE Good == {k \in 0..n : u[n - k] \subseteq u[n]}
    <2>1. 0 \in Good BY <1>4, Zenon
    <2>2. ASSUME NEW k \in 1..n, k - 1 \in Good PROVE k \in Good
        <3>1. u[n - k + 1] \subseteq u[n] BY <1>4, <2>2, Zenon
        <3>2. u[n - k] \subseteq u[n - k + 1] BY <1>3, <1>4, Zenon
        <3> QED BY <1>4, <3>1, <3>2, Zenon
    <2> HIDE DEF Good
    <2>3. \A k \in 0..n : k \in Good BY <1>1, <2>1, <2>2, CountingUp, Zenon
    <2>4. \A k \in 0..n : u[n - (n - k)] \subseteq u[n] BY <1>4, <2>3, Zenon DEF Good
    <2> QED BY <1>4, <2>4, Zenon
<1>7. ASSUME Pass(s, r) = r, NEW k \in DOMAIN s.edges, s.edges[k].from_ \in r
      PROVE  s.edges[k].to \in r
    <2>1. k \in 1..n BY <1>1, Zenon
    <2>2. s.edges[k].from_ \in u[k - 1] BY <1>4, <1>5, <1>7, <2>1, Zenon
    <2>3. s.edges[k].to \in u[k] BY <1>2, <2>1, <2>2, Zenon DEF Followed
    <2> QED BY <1>2, <1>4, <1>6, <1>7, <2>1, <2>3, Zenon
<1>8. Pass(s, r) \in SUBSET Ids /\ r \subseteq Pass(s, r)
    <2>1. n \in 0..n /\ Pass(s, r) = u[n] BY <1>2, <1>4, Zenon
    <2>2. u[n] \in SUBSET Ids BY <2>1
    <2>3. r \subseteq u[n] BY <1>5, <2>1, Zenon
    <2> QED BY <2>1, <2>2, <2>3, Zenon
<1> QED BY <1>7, <1>8, Zenon DEF Closed

\* A turn does not leave a set that no edge leaves.
LEMMA PassInside ==
    ASSUME NEW s \in Scenario, NEW r \in SUBSET Ids, NEW C, Closed(s, C), r \subseteq C
    PROVE  Pass(s, r) \subseteq C
<1> DEFINE n == Len(s.edges)
<1>1. n \in Nat /\ DOMAIN s.edges = 1..n BY DraftParts
<1>2. PICK u \in [0..n -> SUBSET Ids] :
          /\ u[0] = r /\ Pass(s, r) = u[n]
          /\ \A k \in 1..n : u[k] = Followed(s, k, u[k - 1])
    BY PassRuns, Zenon
<1> HIDE DEF n
<1>3. 0 \in 0..n /\ n \in 0..n /\ \A k \in 1..n : k \in 0..n BY <1>1
<1>4. \A k \in 0..n : u[k] \subseteq C
    <2> DEFINE In == {k \in 0..n : u[k] \subseteq C}
    <2>1. 0 \in In BY <1>2, <1>3, Zenon
    <2>2. ASSUME NEW k \in 1..n, k - 1 \in In PROVE k \in In
        <3>1. u[k - 1] \subseteq C /\ u[k] = Followed(s, k, u[k - 1]) BY <1>2, <2>2, Zenon
        <3>2. s.edges[k].from_ \in C => s.edges[k].to \in C BY <1>1, Zenon DEF Closed
        <3> QED BY <1>3, <3>1, <3>2, Zenon DEF Followed
    <2> HIDE DEF In
    <2>3. \A k \in 0..n : k \in In BY <1>1, <2>1, <2>2, CountingUp, Zenon
    <2> QED BY <2>3, Zenon DEF In
<1> QED BY <1>2, <1>3, <1>4, ZenonT(30)

\* The nodes that have been reached after each turn, from the entry on.
ReachedBy(s, f) ==
    /\ f \in [0..(Len(s.edges) + 1) -> SUBSET Ids] /\ f[0] = {s.entry}
    /\ \A n \in 1..(Len(s.edges) + 1) : f[n] = Pass(s, f[n - 1])

\* The while loop takes turns until one adds nothing.
LEMMA ReachableRuns ==
    ASSUME NEW s \in Scenario
    PROVE  \E f : /\ ReachedBy(s, f)
                  /\ Reachable(s) = f[CHOOSE n \in 0..Len(s.edges) : f[n + 1] = f[n]]
<1> DEFINE m == Len(s.edges) + 1
           D == SUBSET Ids
           Solves(f) == f = [n \in 0..m |-> IF n = 0 THEN {s.entry} ELSE Pass(s, f[n - 1])]
           u == CHOOSE f : Solves(f)
           turn == [n \in 1..m |-> [q \in D |-> Pass(s, q)]]
<1>1. Reachable(s) = u[CHOOSE n \in 0..Len(s.edges) : u[n + 1] = u[n]] BY DEF Reachable
<1>2. m \in Nat /\ {s.entry} \in D
    <2>1. Len(s.edges) \in Nat /\ s.entry \in Ids BY DraftParts
    <2> QED BY <2>1
<1>3. \A q \in D : Pass(s, q) \in D BY PassGrows, Zenon
<1> HIDE DEF m, D, turn
<1>4. turn \in Loops(m, D) BY <1>3, Zenon DEF turn, Loops
<1>5. PICK f \in [0..m -> D] : f[0] = {s.entry} /\ \A n \in 1..m : f[n] = turn[n][f[n - 1]]
    <2>1. \E f : f \in Runs(m, D, {s.entry}, turn) BY <1>2, <1>4, LoopRuns, Zenon
    <2> QED BY <2>1, Zenon DEF Runs
<1>6. 0 \in 0..m /\ \A n \in 1..m : n \in 0..m /\ n - 1 \in 0..m /\ n # 0 BY <1>2
<1>7. \A n \in 0..m : n # 0 => n \in 1..m BY <1>2
<1>8. \A n \in 1..m : f[n] = Pass(s, f[n - 1]) BY <1>5, <1>6, Zenon DEF turn
<1>9. Solves(f)
    <2>1. \A n \in 0..m : f[n] = IF n = 0 THEN {s.entry} ELSE Pass(s, f[n - 1])
        BY <1>5, <1>7, <1>8, Zenon
    <2> QED BY <2>1, Zenon
<1>10. Solves(u) BY <1>9, Zenon
<1> HIDE DEF u
<1>11. u[0] = {s.entry} /\ \A n \in 1..m : u[n] = Pass(s, u[n - 1]) BY <1>6, <1>10, Zenon
<1>12. \A n \in 0..m : u[n] \in D
    <2> DEFINE Good == {n \in 0..m : u[n] \in D}
    <2>1. 0 \in Good BY <1>2, <1>6, <1>11, Zenon
    <2>2. \A n \in 1..m : n - 1 \in Good => n \in Good BY <1>3, <1>6, <1>11, Zenon
    <2> HIDE DEF Good
    <2>3. \A n \in 0..m : n \in Good BY <1>2, <2>1, <2>2, CountingUp, Zenon
    <2> QED BY <2>3, Zenon DEF Good
<1>13. u \in [0..m -> D] BY <1>10, <1>12, Zenon
<1>14. ReachedBy(s, u) BY <1>11, <1>13, Zenon DEF ReachedBy, m, D
<1> QED BY <1>1, <1>14, Zenon

\* Turns do not lead out of a set that has the entry and that no edge leaves, and
\* what one has reached the next has too.
LEMMA ReachedInside ==
    ASSUME NEW s \in Scenario, NEW f, ReachedBy(s, f), NEW C, Closed(s, C), s.entry \in C
    PROVE  \A n \in 0..(Len(s.edges) + 1) : f[n] \subseteq C /\ s.entry \in f[n]
<1> DEFINE m == Len(s.edges) + 1
           In == {n \in 0..m : f[n] \subseteq C /\ s.entry \in f[n]}
<1>1. m \in Nat
    <2>1. Len(s.edges) \in Nat BY DraftParts
    <2> QED BY <2>1
<1>2. /\ f \in [0..m -> SUBSET Ids] /\ f[0] = {s.entry}
      /\ \A n \in 1..m : f[n] = Pass(s, f[n - 1])
    BY Zenon DEF ReachedBy
<1> HIDE DEF m
<1>3. 0 \in 0..m /\ \A n \in 1..m : n \in 0..m /\ n - 1 \in 0..m BY <1>1
<1>4. 0 \in In BY <1>2, <1>3, Zenon
<1>5. ASSUME NEW n \in 1..m, n - 1 \in In PROVE n \in In
    <2>1. f[n - 1] \in SUBSET Ids /\ f[n] = Pass(s, f[n - 1]) BY <1>2, <1>3, Zenon
    <2>2. f[n - 1] \subseteq C /\ s.entry \in f[n - 1] BY <1>5, Zenon
    <2>3. f[n] \subseteq C BY <2>1, <2>2, PassInside, ZenonT(30)
    <2>4. f[n - 1] \subseteq Pass(s, f[n - 1]) BY <2>1, PassGrows
    <2>5. s.entry \in f[n] BY <2>1, <2>2, <2>4, Zenon
    <2> QED BY <1>3, <2>3, <2>5, Zenon
<1> HIDE DEF In
<1>6. \A n \in 0..m : n \in In BY <1>1, <1>4, <1>5, CountingUp, ZenonT(30)
<1> QED BY <1>6, Zenon DEF In, m

\* There are no more turns that add a node than there are edges.
LEMMA TurnsEnd ==
    ASSUME NEW s \in Scenario, NEW f, ReachedBy(s, f)
    PROVE  \E n \in 0..Len(s.edges) : f[n + 1] = f[n]
<1> SUFFICES ASSUME \A n \in 0..Len(s.edges) : f[n + 1] # f[n] PROVE FALSE BY ZenonT(30)
<1> DEFINE e == Len(s.edges)
           end == [k \in 0..e |-> IF k = 0 THEN s.entry ELSE s.edges[k].to]
           Ends == {end[k] : k \in 0..e}
<1>1. e \in Nat /\ DOMAIN s.edges = 1..e BY DraftParts
<1>2. /\ f \in [0..(e + 1) -> SUBSET Ids] /\ f[0] = {s.entry}
      /\ \A n \in 1..(e + 1) : f[n] = Pass(s, f[n - 1])
      /\ \A n \in 0..e : f[n + 1] # f[n]
    BY Zenon DEF ReachedBy
<1> HIDE DEF e
<1>3. 0 \in 0..e /\ \A k \in 1..e : k \in 0..e /\ k # 0 BY <1>1
<1>4. s.entry \in Ends /\ Closed(s, Ends) BY <1>1, <1>3, Zenon DEF Closed
<1>5. IsFiniteSet(Ends) /\ Cardinality(Ends) <= e + 1
    <2>1. end \in Surjection(0..e, Ends) BY Zenon DEF Surjection
    <2>2. IsFiniteSet(0..e) /\ Cardinality(0..e) = e + 1 BY <1>1, FS_Interval
    <2> HIDE DEF end, Ends
    <2>3. IsFiniteSet(Ends) /\ Cardinality(Ends) <= Cardinality(0..e)
        BY <2>1, <2>2, FS_Surjection, Zenon
    <2> QED BY <2>2, <2>3
<1> HIDE DEF Ends
<1>6. \A n \in 0..(e + 1) : f[n] \in SUBSET Ends
    BY <1>4, ReachedInside, Zenon DEF e
<1>7. \A n \in 0..(e + 1) : /\ IsFiniteSet(f[n]) /\ Cardinality(f[n]) \in Nat
                            /\ Cardinality(f[n]) <= Cardinality(Ends)
    BY <1>5, <1>6, FS_Subset, FS_CardinalityType, Zenon
<1> DEFINE Many == {n \in 0..(e + 1) : Cardinality(f[n]) >= n + 1}
<1>8. 0 \in Many
    <2>1. Cardinality({s.entry}) = 1 BY FS_Singleton, Zenon
    <2>2. 0 \in 0..(e + 1) /\ 1 >= 0 + 1 BY <1>1
    <2> QED BY <1>2, <2>1, <2>2, Zenon
<1>9. ASSUME NEW n \in 1..(e + 1), n - 1 \in Many PROVE n \in Many
    <2>1. n - 1 \in 0..e /\ n \in 0..(e + 1) /\ n - 1 \in 0..(e + 1) /\ (n - 1) + 1 = n
        BY <1>1
    <2>2. f[n - 1] \in SUBSET Ids /\ f[n] = Pass(s, f[n - 1]) /\ f[n] # f[n - 1]
        BY <1>2, <2>1, Zenon
    <2>3. f[n - 1] \in SUBSET f[n]
        <3>1. f[n - 1] \subseteq Pass(s, f[n - 1]) BY <2>2, PassGrows
        <3> QED BY <2>2, <3>1, ZenonT(30)
    <2>4. /\ Cardinality(f[n - 1]) <= Cardinality(f[n])
          /\ Cardinality(f[n]) # Cardinality(f[n - 1])
        BY <1>7, <2>1, <2>2, <2>3, FS_Subset, Zenon
    <2>5. Cardinality(f[n - 1]) \in Nat /\ Cardinality(f[n]) \in Nat BY <1>7, <2>1, Zenon
    <2>6. Cardinality(f[n - 1]) >= (n - 1) + 1 BY <1>9, Zenon
    <2> QED BY <2>1, <2>4, <2>5, <2>6
<1> HIDE DEF Many
<1>10. e + 1 \in Nat /\ e + 1 \in 0..(e + 1) BY <1>1
<1>11. \A n \in 0..(e + 1) : n \in Many BY <1>8, <1>9, <1>10, CountingUp, Zenon
<1>12. Cardinality(f[e + 1]) >= (e + 1) + 1 BY <1>10, <1>11, Zenon DEF Many
<1>13. /\ Cardinality(f[e + 1]) \in Nat /\ Cardinality(Ends) \in Nat
       /\ Cardinality(f[e + 1]) <= Cardinality(Ends)
    BY <1>5, <1>7, <1>10, FS_CardinalityType, Zenon
<1> QED BY <1>1, <1>5, <1>12, <1>13

\* What the loop returns is the least set that has the entry and that no edge leaves.
LEMMA ReachableIsLeast ==
    ASSUME NEW s \in Scenario
    PROVE  /\ s.entry \in Reachable(s) /\ Closed(s, Reachable(s))
           /\ \A C : Closed(s, C) /\ s.entry \in C => Reachable(s) \subseteq C
<1> DEFINE e == Len(s.edges)
<1>1. PICK f : ReachedBy(s, f) /\ Reachable(s) = f[CHOOSE n \in 0..e : f[n + 1] = f[n]]
    BY ReachableRuns, Zenon
<1> DEFINE last == CHOOSE n \in 0..e : f[n + 1] = f[n]
<1>2. \E n \in 0..e : f[n + 1] = f[n] BY <1>1, TurnsEnd, Zenon
<1>3. last \in 0..e /\ f[last + 1] = f[last] /\ Reachable(s) = f[last] BY <1>1, <1>2, Zenon
<1>4. e \in Nat BY DraftParts
<1>5. /\ f \in [0..(e + 1) -> SUBSET Ids]
      /\ \A n \in 1..(e + 1) : f[n] = Pass(s, f[n - 1])
    BY <1>1, Zenon DEF ReachedBy
<1> HIDE DEF last, e
<1>6. last \in 0..(e + 1) /\ last + 1 \in 1..(e + 1) /\ (last + 1) - 1 = last
    BY <1>3, <1>4
<1>7. f[last] \in SUBSET Ids /\ Pass(s, f[last]) = f[last] BY <1>3, <1>5, <1>6, Zenon
<1>8. Closed(s, f[last]) BY <1>7, PassGrows
<1>9. \A C : Closed(s, C) /\ s.entry \in C => f[last] \subseteq C /\ s.entry \in f[last]
    BY <1>1, <1>6, ReachedInside, Zenon DEF e
<1>10. s.entry \in f[last]
    <2>1. Closed(s, Ids) /\ s.entry \in Ids BY DraftParts, Zenon DEF Closed
    <2> QED BY <1>9, <2>1, Zenon
<1> QED BY <1>3, <1>8, <1>9, <1>10, Zenon

\* So, where the edges and the entry are nodes, the loop reaches the nodes that a
\* path leads to.
LEMMA ReachableIsLedTo ==
    ASSUME NEW s \in Scenario, s.entry \in ids(s), Closed(s, ids(s))
    PROVE  \A id \in ids(s) : id \in Reachable(s) <=> Leads(s, id)
<1>1. /\ s.entry \in Reachable(s) /\ Closed(s, Reachable(s)) /\ Reachable(s) \subseteq ids(s)
      /\ \A C : Closed(s, C) /\ s.entry \in C => Reachable(s) \subseteq C
    BY ReachableIsLeast, Zenon
<1>2. ASSUME NEW id, id \in Reachable(s) PROVE Leads(s, id) BY <1>1, <1>2, Zenon DEF Leads
<1>3. ASSUME NEW id, Leads(s, id) PROVE id \in Reachable(s)
    <2>1. Reachable(s) \in SUBSET ids(s) BY <1>1, Zenon
    <2> QED BY <1>1, <1>3, <2>1, Zenon DEF Leads
<1> QED BY <1>2, <1>3, Zenon

\* The nodes with an id; an id that names one node.
NodesNamed(s, id) == {i \in DOMAIN s.nodes : s.nodes[i].id = id}
NamesNode(s, id) == \E i \in DOMAIN s.nodes : NodesNamed(s, id) = {i}
StartNodes(s) == {i \in DOMAIN s.nodes : s.nodes[i].start}

\* There are as many ids as nodes just when every id names one node.
LEMMA IdsCount ==
    ASSUME NEW s \in Scenario
    PROVE  Cardinality(ids(s)) = Len(s.nodes) <=> \A id \in ids(s) : NamesNode(s, id)
<1> DEFINE n == Len(s.nodes)
           f == [i \in 1..n |-> s.nodes[i].id]
<1>1. n \in Nat /\ DOMAIN s.nodes = 1..n BY DraftParts
<1> HIDE DEF n
<1>2. ids(s) = {s.nodes[i].id : i \in 1..n} BY <1>1, Zenon DEF ids
<1>3. f \in Surjection(1..n, ids(s)) BY <1>2, Zenon DEF Surjection
<1>4. IsFiniteSet(1..n) /\ Cardinality(1..n) = n BY <1>1, FS_Interval
<1> HIDE DEF f
<1>5. Cardinality(ids(s)) = n <=> f \in Injection(1..n, ids(s))
    <2>1. Cardinality(ids(s)) = Cardinality(1..n) <=> f \in Injection(1..n, ids(s))
        BY <1>3, <1>4, FS_Surjection, Zenon
    <2> QED BY <1>4, <2>1, Zenon
<1>6. f \in Injection(1..n, ids(s))
          <=> \A i, j \in 1..n : s.nodes[i].id = s.nodes[j].id => i = j
    <2>1. f \in [1..n -> ids(s)] BY <1>3, Zenon DEF Surjection
    <2>2. DOMAIN f = 1..n /\ \A i \in 1..n : f[i] = s.nodes[i].id BY Zenon DEF f
    <2>3. IsInjective(f) <=> \A i, j \in 1..n : s.nodes[i].id = s.nodes[j].id => i = j
        BY <2>2, Zenon DEF IsInjective
    <2> QED BY <2>1, <2>3, Zenon DEF Injection
<1>7. ASSUME \A i, j \in 1..n : s.nodes[i].id = s.nodes[j].id => i = j, NEW id \in ids(s)
      PROVE  NamesNode(s, id)
    <2>1. PICK i \in 1..n : id = s.nodes[i].id BY <1>2, Zenon
    <2>2. NodesNamed(s, id) = {i} BY <1>1, <1>7, <2>1, Zenon DEF NodesNamed
    <2> QED BY <1>1, <2>2, Zenon DEF NamesNode
<1>8. ASSUME \A id \in ids(s) : NamesNode(s, id), NEW i \in 1..n, NEW j \in 1..n,
             s.nodes[i].id = s.nodes[j].id
      PROVE  i = j
    <2>1. s.nodes[i].id \in ids(s) BY <1>2, Zenon
    <2>2. PICK x : NodesNamed(s, s.nodes[i].id) = {x} BY <1>8, <2>1, Zenon DEF NamesNode
    <2>3. i \in NodesNamed(s, s.nodes[i].id) /\ j \in NodesNamed(s, s.nodes[i].id)
        BY <1>1, <1>8, Zenon DEF NodesNamed
    <2> QED BY <2>2, <2>3, Zenon
<1> QED BY <1>5, <1>6, <1>7, <1>8, ZenonT(30) DEF n

\* An id that names a node is the id of a node.
LEMMA NamesId == ASSUME NEW s, NEW id, NamesNode(s, id) PROVE id \in ids(s)
<1> QED BY Zenon DEF NamesNode, NodesNamed, ids

\* _validate_graph lets through the scenarios that can be played, and no others,
\* whatever nodes and edges they have.
THEOREM GraphsJudged == \A s \in Scenario : _validate_graph(s) <=> Playable(s)
<1> SUFFICES ASSUME NEW s \in Scenario PROVE _validate_graph(s) <=> Playable(s) OBVIOUS
<1>1. _validate_graph(s) <=>
          /\ Cardinality(ids(s)) = Len(s.nodes)
          /\ Cardinality(StartNodes(s)) = 1 /\ \A i \in StartNodes(s) : s.entry = s.nodes[i].id
          /\ s.fallback_node \in ids(s) \cup {NoId}
          /\ \A k \in DOMAIN s.edges : s.edges[k].from_ \in ids(s) /\ s.edges[k].to \in ids(s)
          /\ ids(s) \ Reachable(s) \subseteq {s.fallback_node}
    BY Zenon DEF _validate_graph, StartNodes
<1>2. Playable(s) <=>
          /\ \A id \in ids(s) : NamesNode(s, id)
          /\ NamesNode(s, s.entry) /\ StartNodes(s) = NodesNamed(s, s.entry)
          /\ s.fallback_node # NoId => NamesNode(s, s.fallback_node)
          /\ \A k \in DOMAIN s.edges :
                 NamesNode(s, s.edges[k].from_) /\ NamesNode(s, s.edges[k].to)
          /\ \A id \in ids(s) \ {s.entry, s.fallback_node} : Leads(s, id)
    BY Zenon DEF Playable, StartNodes, NamesNode, NodesNamed
<1>3. Cardinality(StartNodes(s)) = 1 <=> \E i : StartNodes(s) = {i}
    <2>1. Len(s.nodes) \in Nat /\ DOMAIN s.nodes = 1..Len(s.nodes) BY DraftParts
    <2>2. IsFiniteSet(DOMAIN s.nodes)
        <3>1. IsFiniteSet(1..Len(s.nodes)) BY <2>1, FS_Interval
        <3> QED BY <2>1, <3>1, Zenon
    <2>3. StartNodes(s) \in SUBSET (DOMAIN s.nodes) BY Zenon DEF StartNodes
    <2>4. IsFiniteSet(StartNodes(s)) BY <2>2, <2>3, FS_Subset, Zenon
    <2> QED BY <2>4, FS_Singleton, ZenonT(30)
<1>4. ASSUME _validate_graph(s) PROVE Playable(s)
    <2>1. \A id \in ids(s) : NamesNode(s, id) BY <1>1, <1>4, IdsCount, Zenon
    <2>2. PICK i : StartNodes(s) = {i} BY <1>1, <1>3, <1>4, Zenon
    <2>3. i \in DOMAIN s.nodes /\ s.entry = s.nodes[i].id
        BY <1>1, <1>4, <2>2, Zenon DEF StartNodes
    <2>4. s.entry \in ids(s) /\ i \in NodesNamed(s, s.entry)
        BY <2>3, Zenon DEF ids, NodesNamed
    <2>5. NamesNode(s, s.entry) BY <2>1, <2>4, Zenon
    <2>6. StartNodes(s) = NodesNamed(s, s.entry) BY <2>2, <2>4, <2>5, Zenon DEF NamesNode
    <2>7. s.fallback_node # NoId => NamesNode(s, s.fallback_node) BY <1>1, <1>4, <2>1, Zenon
    <2>8. \A k \in DOMAIN s.edges :
              NamesNode(s, s.edges[k].from_) /\ NamesNode(s, s.edges[k].to)
        BY <1>1, <1>4, <2>1, Zenon
    <2>9. Closed(s, ids(s)) BY <1>1, <1>4, Zenon DEF Closed
    <2>10. ASSUME NEW id \in ids(s) \ {s.entry, s.fallback_node} PROVE Leads(s, id)
        <3>1. id \in Reachable(s) BY <1>1, <1>4, Zenon
        <3> QED BY <2>4, <2>9, <3>1, ReachableIsLedTo, Zenon
    <2> QED BY <1>2, <2>1, <2>5, <2>6, <2>7, <2>8, <2>10, ZenonT(30)
<1>5. ASSUME Playable(s) PROVE _validate_graph(s)
    <2>1. Cardinality(ids(s)) = Len(s.nodes) BY <1>2, <1>5, IdsCount, Zenon
    <2>2. PICK i \in DOMAIN s.nodes : NodesNamed(s, s.entry) = {i}
        BY <1>2, <1>5, Zenon DEF NamesNode
    <2>3. StartNodes(s) = {i} /\ i \in NodesNamed(s, s.entry) BY <1>2, <1>5, <2>2, Zenon
    <2>4. Cardinality(StartNodes(s)) = 1 BY <1>3, <2>3, Zenon
    <2>5. \A j \in StartNodes(s) : s.entry = s.nodes[j].id BY <2>3, Zenon DEF NodesNamed
    <2>6. s.entry \in ids(s) /\ s.fallback_node \in ids(s) \cup {NoId}
        BY <1>2, <1>5, NamesId, Zenon
    <2>7. \A k \in DOMAIN s.edges : s.edges[k].from_ \in ids(s) /\ s.edges[k].to \in ids(s)
        BY <1>2, <1>5, NamesId, Zenon
    <2>8. Closed(s, ids(s)) BY <2>7, Zenon DEF Closed
    <2>9. ASSUME NEW id \in ids(s), id # s.fallback_node PROVE id \in Reachable(s)
        <3>1. CASE id = s.entry BY <3>1, ReachableIsLeast, Zenon
        <3>2. CASE id # s.entry
            <4>1. Leads(s, id) BY <1>2, <1>5, <2>9, <3>2, Zenon
            <4> QED BY <2>6, <2>8, <4>1, ReachableIsLedTo, Zenon
        <3> QED BY <3>1, <3>2, Zenon
    <2>10. ids(s) \ Reachable(s) \subseteq {s.fallback_node} BY <2>9, Zenon
    <2> QED BY <1>1, <2>1, <2>4, <2>5, <2>6, <2>7, <2>10, ZenonT(30)
<1> QED BY <1>4, <1>5, Zenon

\* Every answer of POST /validate is right: a draft is let through just when it
\* can be played, for any set of drafts.
THEOREM DraftsAreJudged == EditorSpec => []DraftsJudged
<1>1. EditorInit => DraftsJudged BY Zenon DEF EditorInit, DraftsJudged
<1>2. ASSUME DraftsJudged, [EditorNext]_<<vars, answer>> PROVE DraftsJudged'
    <2>1. CASE validate_scenario
        <3>1. PICK s \in Drafts : answer' = <<s, _validate_graph(s)>>
            BY <2>1, Zenon DEF validate_scenario
        <3>2. answer'[1] = s /\ answer'[2] = _validate_graph(s) BY <3>1
        <3>3. _validate_graph(s) <=> Playable(s) BY DraftsAssumption, GraphsJudged, Zenon
        <3>4. answer'[2] <=> Playable(answer'[1]) BY <3>2, <3>3, Zenon
        <3> QED BY <3>4, Zenon DEF DraftsJudged
    <2>2. CASE UNCHANGED answer BY <1>2, <2>2, Zenon DEF DraftsJudged
    <2> QED BY <1>2, <2>1, <2>2, Zenon DEF EditorNext
<1> QED BY <1>1, <1>2, PTL DEF EditorSpec

\* Validating changes nothing that the admins' requests work on, so what holds of
\* the store holds of the store behind the editor.
THEOREM EditorKeepsStore == EditorSpec => Spec
<1>1. EditorInit => Init BY Zenon DEF EditorInit
<1>2. [EditorNext]_<<vars, answer>> => [Next]_vars
    BY Zenon DEF EditorNext, validate_scenario
<1> QED BY <1>1, <1>2, PTL DEF EditorSpec, Spec
===============================================================================
