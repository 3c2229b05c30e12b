----------------------------- MODULE StreamProofs -----------------------------
(***************************************************************************)
(* The gRPC streams of a session, for any number of them: what the         *)
(* pipeline's events become, what a step of a stream leaves alone, its lease, *)
(* and what the bridge hears (VoiceStream).  CallPodProofs puts the steps  *)
(* together, with the pod that starts and stops meanwhile.                 *)
(***************************************************************************)
EXTENDS VoiceStream, TLAPS

\* The provers a step is given to in turn unless it names one, with their time limits.
USE SMTT(30), ZenonT(30)

-------------------------------------------------------------------------------
(* The queues of a stream.                                                  *)

\* What a queue holds.
LEMMA QueueTyped ==
    ASSUME NEW S, NEW q \in Seq(S)
    PROVE  /\ Len(q) \in Nat /\ DOMAIN q = 1..Len(q) /\ q \in [1..Len(q) -> S]
           /\ \A i \in 1..Len(q) : q[i] \in S
           /\ q # << >> => Len(q) > 0
<1> QED OBVIOUS

\* A queue that may hold more kinds of things.
LEMMA QueueWider ==
    ASSUME NEW S, NEW T, NEW q \in Seq(S), S \subseteq T
    PROVE  q \in Seq(T)
<1> QED OBVIOUS

\* Two queues with the same things in them.
LEMMA QueuesEqual ==
    ASSUME NEW S, NEW q \in Seq(S), NEW r \in Seq(S),
           Len(q) = Len(r), \A i \in 1..Len(q) : q[i] = r[i]
    PROVE  q = r
<1> QED OBVIOUS

\* put, one thing after the other.
LEMMA QueueJoined ==
    ASSUME NEW S, NEW q \in Seq(S), NEW r \in Seq(S)
    PROVE  /\ q \o r \in Seq(S)
           /\ Len(q \o r) = Len(q) + Len(r)
           /\ \A i \in 1..Len(q) + Len(r) :
                  (q \o r)[i] = IF i <= Len(q) THEN q[i] ELSE r[i - Len(q)]
<1> QED OBVIOUS

\* get takes the first.
LEMMA QueueTaken ==
    ASSUME NEW S, NEW q \in Seq(S), q # << >>
    PROVE  /\ Head(q) \in S /\ Head(q) = q[1]
           /\ Tail(q) \in Seq(S) /\ Len(Tail(q)) = Len(q) - 1
           /\ \A i \in 1..Len(Tail(q)) : Tail(q)[i] = q[i + 1]
<1> QED OBVIOUS

\* put of one thing.
LEMMA QueuePut ==
    ASSUME NEW S, NEW q \in Seq(S), NEW x \in S
    PROVE  /\ Append(q, x) \in Seq(S) /\ Len(Append(q, x)) = Len(q) + 1
           /\ \A i \in 1..Len(q) : Append(q, x)[i] = q[i]
           /\ Append(q, x)[Len(q) + 1] = x
<1> QED OBVIOUS

\* put of one thing, as a queue behind the other.
LEMMA QueuePutJoins ==
    ASSUME NEW S, NEW q \in Seq(S), NEW x \in S
    PROVE  Append(q, x) = q \o <<x>>
<1>1. <<x>> \in Seq(S) /\ Len(<<x>>) = 1 /\ <<x>>[1] = x OBVIOUS
<1>2. q \o <<x>> \in Seq(S) /\ Len(q \o <<x>>) = Len(q) + 1
    BY <1>1, QueueJoined
<1>3. \A i \in 1..Len(q) + 1 : (q \o <<x>>)[i] = Append(q, x)[i]
    <2>1. Len(q) \in Nat OBVIOUS
    <2> TAKE i \in 1..Len(q) + 1
    <2>2. CASE i <= Len(q) BY <1>1, <2>1, <2>2, QueueJoined, QueuePut
    <2>3. CASE i = Len(q) + 1
        <3>1. ~(i <= Len(q)) /\ i - Len(q) = 1 BY <2>1, <2>3
        <3>2. (q \o <<x>>)[i] = <<x>>[i - Len(q)] BY <1>1, <3>1, QueueJoined
        <3> QED BY <1>1, <2>3, <3>1, <3>2, QueuePut
    <2> QED BY <2>1, <2>2, <2>3
<1> QED BY <1>2, <1>3, QueuePut, QueuesEqual

-------------------------------------------------------------------------------
(* What the pipeline's events become.                                       *)

Responses == [type : {"none", "CLEAR", "TTS_AUDIO", "END_OF_TURN"}, turn : Nat]

\* The types that one event adds.
LEMMA TypesOfOne == ASSUME NEW x PROVE TypesOf(<<x>>) = << >> \o Types(x)
<1> DEFINE s == <<x>>
           P(f) == f = [n \in 0..Len(s) |-> IF n = 0 THEN << >> ELSE f[n - 1] \o Types(s[n])]
           w == [n \in 0..1 |-> IF n = 0 THEN << >> ELSE << >> \o Types(x)]
           g == CHOOSE f : P(f)
<1>1. TypesOf(s) = g[Len(s)] BY DEF TypesOf
<1>2. P(w) OBVIOUS
<1>3. P(g) BY <1>2, Zenon
<1> HIDE DEF g
<1>4. g = [n \in 0..1 |-> IF n = 0 THEN << >> ELSE g[n - 1] \o Types(s[n])] BY <1>3, Zenon
<1>5. g[0] = << >> BY <1>4
<1>6. g[1] = g[0] \o Types(s[1]) BY <1>4
<1> QED BY <1>1, <1>5, <1>6

\* The types that two events add, the one's after the other's.
LEMMA TypesOfTwo ==
    ASSUME NEW x, NEW y PROVE TypesOf(<<x, y>>) = (<< >> \o Types(x)) \o Types(y)
<1> DEFINE s == <<x, y>>
           P(f) == f = [n \in 0..Len(s) |-> IF n = 0 THEN << >> ELSE f[n - 1] \o Types(s[n])]
           w == [n \in 0..2 |-> IF n = 0 THEN << >>
                                ELSE IF n = 1 THEN << >> \o Types(x)
                                ELSE (<< >> \o Types(x)) \o Types(y)]
           g == CHOOSE f : P(f)
<1>1. TypesOf(s) = g[Len(s)] BY DEF TypesOf
<1>2. P(w) OBVIOUS
<1>3. P(g) BY <1>2, Zenon
<1> HIDE DEF g
<1>4. g = [n \in 0..2 |-> IF n = 0 THEN << >> ELSE g[n - 1] \o Types(s[n])] BY <1>3, Zenon
<1>5. /\ 0 \in 0..2 /\ 1 \in 0..2 /\ 1 # 0 /\ 1 - 1 = 0
      /\ 2 \in 0..2 /\ 2 # 0 /\ 2 - 1 = 1
    OBVIOUS
<1>6. /\ g[0] = IF 0 = 0 THEN << >> ELSE g[0 - 1] \o Types(s[0])
      /\ g[1] = IF 1 = 0 THEN << >> ELSE g[1 - 1] \o Types(s[1])
      /\ g[2] = IF 2 = 0 THEN << >> ELSE g[2 - 1] \o Types(s[2])
    BY <1>4, <1>5, Zenon
<1>7. g[0] = << >> /\ g[1] = g[0] \o Types(s[1]) /\ g[2] = g[1] \o Types(s[2])
    BY <1>5, <1>6, Zenon
<1>8. Len(s) = 2 /\ s[1] = x /\ s[2] = y OBVIOUS
<1> QED BY <1>1, <1>7, <1>8, Zenon

\* The types that three events add, given those of the first one and the first two.
LEMMA TypesOfThree ==
    ASSUME NEW x, NEW y, NEW z, NEW a, NEW ab, NEW abc,
           << >> \o Types(x) = a, a \o Types(y) = ab, ab \o Types(z) = abc
    PROVE  TypesOf(<<x, y, z>>) = abc
<1> DEFINE s == <<x, y, z>>
           P(f) == f = [n \in 0..Len(s) |-> IF n = 0 THEN << >> ELSE f[n - 1] \o Types(s[n])]
           w == [n \in 0..3 |-> IF n = 0 THEN << >>
                                ELSE IF n = 1 THEN << >> \o Types(x)
                                ELSE IF n = 2 THEN (<< >> \o Types(x)) \o Types(y)
                                ELSE ((<< >> \o Types(x)) \o Types(y)) \o Types(z)]
           g == CHOOSE f : P(f)
<1>1. TypesOf(s) = g[Len(s)] BY DEF TypesOf
<1>2. P(w) OBVIOUS
<1>3. P(g) BY <1>2, Zenon
<1> HIDE DEF g
<1>4. g = [n \in 0..3 |-> IF n = 0 THEN << >> ELSE g[n - 1] \o Types(s[n])] BY <1>3, Zenon
<1>5. /\ 0 \in 0..3 /\ 1 \in 0..3 /\ 1 # 0 /\ 1 - 1 = 0
      /\ 2 \in 0..3 /\ 2 # 0 /\ 2 - 1 = 1
      /\ 3 \in 0..3 /\ 3 # 0 /\ 3 - 1 = 2
    OBVIOUS
<1>6. /\ g[0] = IF 0 = 0 THEN << >> ELSE g[0 - 1] \o Types(s[0])
      /\ g[1] = IF 1 = 0 THEN << >> ELSE g[1 - 1] \o Types(s[1])
      /\ g[2] = IF 2 = 0 THEN << >> ELSE g[2 - 1] \o Types(s[2])
      /\ g[3] = IF 3 = 0 THEN << >> ELSE g[3 - 1] \o Types(s[3])
    BY <1>4, <1>5, Zenon
<1>7. /\ g[0] = << >> /\ g[1] = g[0] \o Types(s[1])
      /\ g[2] = g[1] \o Types(s[2]) /\ g[3] = g[2] \o Types(s[3])
    BY <1>5, <1>6, Zenon
<1> QED BY <1>1, <1>7, Zenon

\* The responses of each outcome of a turn, in order.
LEMMA ResponseTypes ==
    ASSUME NEW turn \in Nat
    PROVE  /\ _outbound_to_responses(<<"error">>, turn) = <<Response("END_OF_TURN", turn)>>
           /\ _outbound_to_responses(<<"error", "transfer_update">>, turn)
                 = <<Response("END_OF_TURN", turn)>>
           /\ _outbound_to_responses(<<"stt_result", "tts_ready", "pipeline_done">>, turn)
                 = <<Response("TTS_AUDIO", turn), Response("END_OF_TURN", turn)>>
           /\ _outbound_to_responses(<<"stt_result", "pipeline_done">>, turn)
                 = <<Response("END_OF_TURN", turn)>>
           /\ _outbound_to_responses(<<"stt_result", "error">>, turn)
                 = <<Response("END_OF_TURN", turn)>>
           /\ _outbound_to_responses(<<"stt_result", "transfer_update">>, turn) = <<>>
<1>1. /\ Types("error") = <<>> /\ Types("stt_result") = <<>>
      /\ Types("transfer_update") = <<>> /\ Types("tts_ready") = <<"TTS_AUDIO">>
      /\ Types("pipeline_done") = <<"END_OF_TURN">>
    BY DEF Types
<1>a. /\ <<>> \o <<>> = <<>>
      /\ \A x : <<>> \o <<x>> = <<x>> /\ <<x>> \o <<>> = <<x>>
    OBVIOUS
<1>b. ASSUME NEW x, NEW y PROVE <<x>> \o <<y>> = <<x, y>>
    <2>1. <<x>> \in Seq({x, y}) /\ <<y>> \in Seq({x, y}) OBVIOUS
    <2>2. Append(<<x>>, y) = <<x>> \o <<y>> BY <2>1, QueuePutJoins
    <2>3. Append(<<x>>, y) \in Seq({x, y}) /\ <<x, y>> \in Seq({x, y}) BY <2>1
    <2>4. Len(Append(<<x>>, y)) = 2 /\ Len(<<x, y>>) = 2 BY <2>1, QueuePut
    <2>5. Append(<<x>>, y)[1] = x /\ Append(<<x>>, y)[2] = y BY <2>1, QueuePut
    <2>6. \A i \in 1..2 : Append(<<x>>, y)[i] = <<x, y>>[i] BY <2>5
    <2>7. Append(<<x>>, y) = <<x, y>> BY <2>3, <2>4, <2>6, QueuesEqual, Zenon
    <2> QED BY <2>2, <2>7, Zenon
<1>c. ASSUME NEW x, NEW y PROVE <<x, y>> \o <<>> = <<x, y>> OBVIOUS
<1>6. ASSUME NEW x
      PROVE [i \in DOMAIN <<x>> |-> Response(<<x>>[i], turn)] = <<Response(x, turn)>>
    OBVIOUS
<1>7. ASSUME NEW x, NEW y
      PROVE  [i \in DOMAIN <<x, y>> |-> Response(<<x, y>>[i], turn)]
                = <<Response(x, turn), Response(y, turn)>>
    OBVIOUS
<1>d. ASSUME NEW ev, NEW ts,
             TypesOf(ev) \o Forced(ev) = ts
      PROVE  _outbound_to_responses(ev, turn) = [i \in DOMAIN ts |-> Response(ts[i], turn)]
    BY <1>d DEF _outbound_to_responses
<1>8. _outbound_to_responses(<<"error">>, turn) = <<Response("END_OF_TURN", turn)>>
    <2> DEFINE ev == <<"error">>
    <2>1. TypesOf(ev) = <<>> BY <1>1, <1>a, TypesOfOne
    <2>2. Forced(ev) = <<"END_OF_TURN">> BY DEF Forced, Among
    <2>3. <<>> \o <<"END_OF_TURN">> = <<"END_OF_TURN">> BY <1>a
    <2>4. TypesOf(ev) \o Forced(ev) = <<"END_OF_TURN">>
        BY <2>1, <2>2, <2>3, Zenon
    <2> HIDE DEF ev
    <2>5. _outbound_to_responses(ev, turn)
             = [i \in DOMAIN <<"END_OF_TURN">> |-> Response(<<"END_OF_TURN">>[i], turn)]
        BY <1>d, <2>4, ZenonT(30)
    <2> QED BY <1>6, <2>5 DEF ev
<1>9. _outbound_to_responses(<<"error", "transfer_update">>, turn)
         = <<Response("END_OF_TURN", turn)>>
    <2> DEFINE ev == <<"error", "transfer_update">>
    <2>1. TypesOf(ev) = <<>> BY <1>1, <1>a, TypesOfTwo
    <2>2. Forced(ev) = <<"END_OF_TURN">> BY DEF Forced, Among
    <2>3. <<>> \o <<"END_OF_TURN">> = <<"END_OF_TURN">> BY <1>a
    <2>4. TypesOf(ev) \o Forced(ev) = <<"END_OF_TURN">>
        BY <2>1, <2>2, <2>3, Zenon
    <2> HIDE DEF ev
    <2>5. _outbound_to_responses(ev, turn)
             = [i \in DOMAIN <<"END_OF_TURN">> |-> Response(<<"END_OF_TURN">>[i], turn)]
        BY <1>d, <2>4, ZenonT(30)
    <2> QED BY <1>6, <2>5 DEF ev
<1>10. _outbound_to_responses(<<"stt_result", "tts_ready", "pipeline_done">>, turn)
          = <<Response("TTS_AUDIO", turn), Response("END_OF_TURN", turn)>>
    <2> DEFINE ev == <<"stt_result", "tts_ready", "pipeline_done">>
    <2>1. TypesOf(ev) = <<"TTS_AUDIO", "END_OF_TURN">>
        <3> DEFINE none == <<>>
                   audio == <<"TTS_AUDIO">>
                   both == <<"TTS_AUDIO", "END_OF_TURN">>
        <3>1. /\ <<>> \o Types("stt_result") = none
              /\ none \o Types("tts_ready") = audio
            BY <1>1, <1>a
        <3>2. audio \o Types("pipeline_done") = both BY <1>1, <1>b, Zenon
        <3> HIDE DEF none, audio, both
        <3>3. TypesOf(ev) = both BY <3>1, <3>2, TypesOfThree, Zenon
        <3> QED BY <3>3 DEF both
    <2>2. Forced(ev) = <<>> BY DEF Forced, Among
    <2>3. <<"TTS_AUDIO", "END_OF_TURN">> \o <<>> = <<"TTS_AUDIO", "END_OF_TURN">> BY <1>c
    <2>4. TypesOf(ev) \o Forced(ev) = <<"TTS_AUDIO", "END_OF_TURN">>
        BY <2>1, <2>2, <2>3, Zenon
    <2> HIDE DEF ev
    <2>5. _outbound_to_responses(ev, turn)
             = [i \in DOMAIN <<"TTS_AUDIO", "END_OF_TURN">> |-> Response(<<"TTS_AUDIO", "END_OF_TURN">>[i], turn)]
        BY <1>d, <2>4, ZenonT(30)
    <2> QED BY <1>7, <2>5 DEF ev
<1>11. _outbound_to_responses(<<"stt_result", "pipeline_done">>, turn)
          = <<Response("END_OF_TURN", turn)>>
    <2> DEFINE ev == <<"stt_result", "pipeline_done">>
    <2>1. TypesOf(ev) = <<"END_OF_TURN">> BY <1>1, <1>a, TypesOfTwo
    <2>2. Forced(ev) = <<>> BY DEF Forced, Among
    <2>3. <<"END_OF_TURN">> \o <<>> = <<"END_OF_TURN">> BY <1>a
    <2>4. TypesOf(ev) \o Forced(ev) = <<"END_OF_TURN">>
        BY <2>1, <2>2, <2>3, Zenon
    <2> HIDE DEF ev
    <2>5. _outbound_to_responses(ev, turn)
             = [i \in DOMAIN <<"END_OF_TURN">> |-> Response(<<"END_OF_TURN">>[i], turn)]
        BY <1>d, <2>4, Zenon
    <2> QED BY <1>6, <2>5 DEF ev
<1>12. _outbound_to_responses(<<"stt_result", "error">>, turn)
          = <<Response("END_OF_TURN", turn)>>
    <2> DEFINE ev == <<"stt_result", "error">>
    <2>1. TypesOf(ev) = <<>> BY <1>1, <1>a, TypesOfTwo
    <2>2. Forced(ev) = <<"END_OF_TURN">> BY DEF Forced, Among
    <2>3. <<>> \o <<"END_OF_TURN">> = <<"END_OF_TURN">> BY <1>a
    <2>4. TypesOf(ev) \o Forced(ev) = <<"END_OF_TURN">>
        BY <2>1, <2>2, <2>3, Zenon
    <2> HIDE DEF ev
    <2>5. _outbound_to_responses(ev, turn)
             = [i \in DOMAIN <<"END_OF_TURN">> |-> Response(<<"END_OF_TURN">>[i], turn)]
        BY <1>d, <2>4, Zenon
    <2> QED BY <1>6, <2>5 DEF ev
<1>13. _outbound_to_responses(<<"stt_result", "transfer_update">>, turn) = <<>>
    <2> DEFINE ev == <<"stt_result", "transfer_update">>
    <2>1. TypesOf(ev) = <<>> BY <1>1, <1>a, TypesOfTwo
    <2>2. Forced(ev) = <<>> BY DEF Forced, Among
    <2>3. TypesOf(ev) \o Forced(ev) = <<>> BY <1>a, <2>1, <2>2, ZenonT(30)
    <2> HIDE DEF ev
    <2>4. _outbound_to_responses(ev, turn) = [i \in DOMAIN <<>> |-> Response(<<>>[i], turn)]
        BY <1>d, <2>3, ZenonT(30)
    <2> QED BY <2>4 DEF ev
<1> QED BY <1>8, <1>9, <1>10, <1>11, <1>12, <1>13

\* However a turn ends, its responses are of that turn, none of them is a marker,
\* and the last one is its END_OF_TURN unless it was handed over.
LEMMA OutcomeResponses ==
    ASSUME NEW state, NEW events \in Outcomes(state), NEW turn \in Nat,
           NEW r, r = _outbound_to_responses(events, turn)
    PROVE  /\ r \in Seq(Responses) /\ Len(r) \in Nat
           /\ \A i \in 1..Len(r) : r[i].turn = turn /\ r[i].type \notin {"CLEAR", "none"}
           /\ HandedOver(events) \/ (Len(r) > 0 /\ r[Len(r)].type = "END_OF_TURN")
<1>1. /\ Response("END_OF_TURN", turn) \in Responses
      /\ Response("TTS_AUDIO", turn) \in Responses
    BY DEF Response, Responses
<1>2. /\ Response("END_OF_TURN", turn).turn = turn
      /\ Response("TTS_AUDIO", turn).turn = turn
      /\ Response("END_OF_TURN", turn).type = "END_OF_TURN"
      /\ Response("TTS_AUDIO", turn).type = "TTS_AUDIO"
    BY DEF Response
<1>3. CASE r = <<Response("END_OF_TURN", turn)>> BY <1>1, <1>2, <1>3
<1>4. CASE r = <<Response("TTS_AUDIO", turn), Response("END_OF_TURN", turn)>>
    BY <1>1, <1>2, <1>4
<1>5. CASE r = <<>> /\ HandedOver(events)
    <2>1. Len(<<>>) = 0 /\ <<>> \in Seq(Responses) /\ \A i \in 1..0 : FALSE OBVIOUS
    <2> QED BY <1>5, <2>1
<1>6. HandedOver(<<"stt_result", "transfer_update">>) BY DEF HandedOver, Among
<1>7. \/ r = <<Response("END_OF_TURN", turn)>>
      \/ r = <<Response("TTS_AUDIO", turn), Response("END_OF_TURN", turn)>>
      \/ r = <<>> /\ events = <<"stt_result", "transfer_update">>
    BY ResponseTypes, ZenonT(30) DEF Outcomes
<1> QED BY <1>3, <1>4, <1>5, <1>6, <1>7

-------------------------------------------------------------------------------
(* Streams, one at a time.  A step of a stream leaves the others alone;     *)
(* only the lease and the pool are shared.                                  *)

Mic == [last : BOOLEAN, frames : Nat, turns : Nat, chunk : Chunks \cup {"none"}]
Ear == [cleared : Nat, ended : SUBSET Nat, handed : SUBSET Nat]

StreamType ==
    /\ reader \in [Streams -> {"none", "recv", "lease", "restore", "first", "turn", "done"}]
    /\ writer \in [Streams -> {"none", "get", "join", "release", "end", "done"}]
    /\ session_id \in [Streams -> BOOLEAN]
    /\ orchestrator \in [Streams -> {"none", "live", "closed"}]
    /\ voice \in [Streams -> Mic] /\ response_queue \in [Streams -> Seq(Responses)]
    /\ heard \in [Streams -> Ear]
    /\ lease \in Streams \cup {NoStream} /\ redis \in BOOLEAN
    /\ odd \in Seq({"early", "expired", "raise", "cancel"})

Elsewhere(s) ==
    \A t \in Streams : t # s =>
        /\ reader'[t] = reader[t] /\ writer'[t] = writer[t]
        /\ session_id'[t] = session_id[t] /\ orchestrator'[t] = orchestrator[t]
        /\ voice'[t] = voice[t] /\ response_queue'[t] = response_queue[t]
        /\ heard'[t] = heard[t]

\* What a stream puts into its queue makes it a queue of responses.
LEMMA PutType ==
    ASSUME StreamType, NEW s \in Streams, NEW r \in Seq(Responses), Put(s, r)
    PROVE  /\ response_queue' \in [Streams -> Seq(Responses)]
           /\ response_queue'[s] = response_queue[s] \o r
           /\ \A t \in Streams : t # s => response_queue'[t] = response_queue[t]
<1>1. response_queue[s] \o r \in Seq(Responses) BY QueueJoined DEF StreamType
<1> QED BY <1>1 DEF Put, StreamType

\* The end of the reader.
LEMMA EndType ==
    ASSUME StreamType, NEW s \in Streams, NEW r, r = Notice \/ r = <<>>, ReaderEnds(s, r)
    PROVE  /\ response_queue' \in [Streams -> Seq(Responses)]
           /\ \A t \in Streams : t # s => response_queue'[t] = response_queue[t]
           /\ response_queue'[s] = response_queue[s] \o (r \o Sentinel(s))
           /\ r \o Sentinel(s) \in Seq(Responses)
           /\ reader' = [reader EXCEPT ![s] = "done"]
<1>1. Response("none", 0) \in Responses /\ Response("END_OF_TURN", 0) \in Responses
    BY DEF Response, Responses
<1>a. <<>> \in Seq(Responses) OBVIOUS
<1>b. Notice \in Seq(Responses) BY <1>1 DEF Notice
<1>c. Sentinel(s) \in Seq(Responses) BY <1>1 DEF Sentinel
<1>2. r \in Seq(Responses) /\ Sentinel(s) \in Seq(Responses) BY <1>a, <1>b, <1>c, Zenon
<1>3. r \o Sentinel(s) \in Seq(Responses) BY <1>2, QueueJoined
<1> QED BY <1>3, PutType, Zenon DEF ReaderEnds, Reader

\* A fault that is recorded.
LEMMA OddType ==
    ASSUME StreamType, NEW kind \in {"early", "expired", "raise", "cancel"},
           odd' = odd \/ odd' = Append(odd, kind)
    PROVE  odd' \in Seq({"early", "expired", "raise", "cancel"})
<1> DEFINE K == {"early", "expired", "raise", "cancel"}
<1>1. odd \in Seq(K) /\ kind \in K BY DEF StreamType
<1> HIDE DEF K
<1>2. odd' \in Seq(K) BY <1>1, QueuePut
<1> QED BY <1>2 DEF K

\* A turn that is handed over, which only the history records.
LEMMA HandedType ==
    ASSUME StreamType, NEW s \in Streams, NEW n \in Nat,
           \/ heard' = heard
           \/ heard' = [heard EXCEPT ![s].handed = @ \cup {n}]
    PROVE  /\ heard' \in [Streams -> Ear]
           /\ heard'[s] = heard[s] \/ heard'[s] = [heard[s] EXCEPT !.handed = @ \cup {n}]
           /\ \A t \in Streams : t # s => heard'[t] = heard[t]
<1>1. heard \in [Streams -> Ear] BY DEF StreamType
<1>2. [heard[s] EXCEPT !.handed = @ \cup {n}] \in Ear BY <1>1 DEF Ear
<1> QED BY <1>1, <1>2

\* The reader's and the client's steps.
LEMMA ReaderSide ==
    ASSUME StreamType, NEW s \in Streams, ReaderStep(s) \/ ClientStep(s)
    PROVE  StreamType' /\ Elsewhere(s)
<1>1. ASSUME NEW chunk \in Chunks, FirstChunk(s, chunk) PROVE StreamType' /\ Elsewhere(s)
    <2>1. [voice[s] EXCEPT !.chunk = chunk] \in Mic BY ZenonT(30) DEF StreamType, Mic
    <2>2. voice' \in [Streams -> Mic] /\ \A t \in Streams : t # s => voice'[t] = voice[t]
        BY <1>1, <2>1 DEF FirstChunk, StreamType
    <2> QED BY <1>1, <2>2 DEF FirstChunk, StreamType, Elsewhere, Reader
<1>2. CASE acquire_session_lease(s)
    <2>1. CASE lease' = s /\ UNCHANGED <<session_id, response_queue>> /\ Reader(s, "restore")
        BY <1>2, <2>1 DEF acquire_session_lease, StreamType, Elsewhere, Reader
    <2>2. CASE /\ session_id' = [session_id EXCEPT ![s] = SessionIdAfterRefusal]
               /\ ReaderEnds(s, Notice) /\ UNCHANGED lease
        <3>1. session_id' \in [Streams -> BOOLEAN]
            BY <2>2 DEF StreamType, SessionIdAfterRefusal
        <3> QED BY <1>2, <2>2, <3>1, EndType DEF acquire_session_lease, StreamType, Elsewhere
    <2> QED BY <1>2, <2>1, <2>2 DEF acquire_session_lease
<1>3. CASE restore_or_create_orchestrator(s)
    BY <1>3 DEF restore_or_create_orchestrator, StreamType, Elsewhere, Reader
<1>4. CASE SessionEnded(s) \/ ReaderRaises(s)
    <2>1. ReaderEnds(s, Notice) BY <1>4 DEF SessionEnded, ReaderRaises
    <2>2. odd' \in Seq({"early", "expired", "raise", "cancel"})
        BY <1>4, OddType DEF SessionEnded, ReaderRaises, Oddly
    <2> QED BY <1>4, <2>1, <2>2, EndType, ZenonT(30) DEF SessionEnded, ReaderRaises, StreamType, Elsewhere
<1>5. CASE ClientHangup(s)
    BY <1>5, EndType, ZenonT(30) DEF ClientHangup, StreamType, Elsewhere
<1>6. CASE Dtmf(s)
    <2>1. [voice[s] EXCEPT !.chunk = "none"] \in Mic BY ZenonT(30) DEF StreamType, Mic
    <2>2. voice' \in [Streams -> Mic] /\ \A t \in Streams : t # s => voice'[t] = voice[t]
        BY <1>6, <2>1 DEF Dtmf, StreamType
    <2>3. <<Response("END_OF_TURN", 0)>> \in Seq(Responses) BY DEF Response, Responses
    <2>4. Put(s, <<Response("END_OF_TURN", 0)>>) BY <1>6, ResponseTypes DEF Dtmf, emit
    <2>5. /\ response_queue' \in [Streams -> Seq(Responses)]
          /\ \A t \in Streams : t # s => response_queue'[t] = response_queue[t]
        BY <2>3, <2>4, PutType, Zenon
    <2> QED BY <1>6, <2>2, <2>5 DEF Dtmf, StreamType, Elsewhere, Reader
<1>7. CASE Voice(s)
    <2>1. PICK speaking \in BOOLEAN :
            /\ response_queue' =
                  [response_queue EXCEPT ![s] = IF BargeIn(s, speaking) THEN Cleared(s) ELSE @]
            /\ Reader(s, IF RunsPipeline(s, speaking) THEN "turn" ELSE "recv")
            /\ voice' = [voice EXCEPT ![s] = Listened(s, speaking)]
            /\ UNCHANGED <<writer, session_id, orchestrator, heard, lease, redis, odd>>
        BY <1>7, Zenon DEF Voice
    <2>2. voice[s].frames \in Nat /\ voice[s].turns \in Nat BY DEF StreamType, Mic
    <2>3. Frames(s, speaking) \in Nat BY <2>2 DEF Frames
    <2>4. Listened(s, speaking) \in Mic BY <2>2, <2>3 DEF Listened, Mic
    <2>5. Clear(s) \in Responses BY <2>2 DEF Clear, Response, Responses
    <2>6. response_queue[s] \in Seq(Responses) /\ Cleared(s) \in Seq(Responses)
        BY <2>5, QueuePut DEF Cleared, StreamType
    <2>7. /\ voice' \in [Streams -> Mic] /\ \A t \in Streams : t # s => voice'[t] = voice[t]
        BY <2>1, <2>4 DEF StreamType
    <2>8. /\ response_queue' \in [Streams -> Seq(Responses)]
          /\ \A t \in Streams : t # s => response_queue'[t] = response_queue[t]
        BY <2>1, <2>6 DEF StreamType
    <2> QED BY <2>1, <2>7, <2>8 DEF StreamType, Elsewhere, Reader
<1>8. CASE TurnReturns(s)
    <2>1. PICK events \in Outcomes(orchestrator[s]) :
            /\ emit(s, events, voice[s].turns)
            /\ heard' = IF ~HandedOver(events) THEN heard
                        ELSE [heard EXCEPT ![s].handed = @ \cup {voice[s].turns}]
            /\ \/ UNCHANGED orchestrator
               \/ orchestrator' = [orchestrator EXCEPT ![s] = "closed"]
        BY <1>8, ZenonT(30) DEF TurnReturns
    <2>2. voice[s].turns \in Nat BY DEF StreamType, Mic
    <2>3. _outbound_to_responses(events, voice[s].turns) \in Seq(Responses)
        BY <2>2, OutcomeResponses
    <2>4. /\ response_queue' \in [Streams -> Seq(Responses)]
          /\ \A t \in Streams : t # s => response_queue'[t] = response_queue[t]
        BY <2>1, <2>3, PutType DEF emit
    <2>5. /\ heard' \in [Streams -> Ear] /\ \A t \in Streams : t # s => heard'[t] = heard[t]
        BY <2>1, <2>2, HandedType, ZenonT(30)
    <2> QED BY <1>8, <2>1, <2>4, <2>5, ZenonT(30) DEF TurnReturns, StreamType, Elsewhere, Reader
<1>9. CASE Cancelled(s)
    <2>1. odd' \in Seq({"early", "expired", "raise", "cancel"})
        BY <1>9, OddType DEF Cancelled, Oddly
    <2>2. AfterCancel(writer[s]) \in {"none", "get", "join", "release", "end", "done"}
        BY DEF AfterCancel, StreamType
    <2> QED BY <1>9, <2>1, <2>2 DEF Cancelled, StreamType, Elsewhere, Writer
<1> QED BY <1>1, <1>2, <1>3, <1>4, <1>5, <1>6, <1>7, <1>8, <1>9 DEF ReaderStep, ClientStep

\* The writer's steps and the start of a call.
LEMMA WriterSide ==
    ASSUME StreamType, NEW s \in Streams, WriterStep(s) \/ StreamSession(s)
    PROVE  StreamType' /\ Elsewhere(s)
<1>1. CASE Yield(s)
    <2>1. /\ response_queue[s] \in Seq(Responses) /\ response_queue[s] # <<>>
          /\ response_queue' = [response_queue EXCEPT ![s] = Tail(response_queue[s])]
        BY <1>1 DEF Yield, StreamType
    <2>2. Tail(response_queue[s]) \in Seq(Responses) /\ Head(response_queue[s]) \in Responses
        BY <2>1, QueueTaken
    <2>3. HeardAfter(heard[s], Head(response_queue[s])) \in Ear
        <3> DEFINE h == heard[s]
                   r == Head(response_queue[s])
        <3>1. h \in Ear /\ r \in Responses BY <2>2 DEF StreamType
        <3> HIDE DEF h, r
        <3>2. [h EXCEPT !.cleared = r.turn] \in Ear BY <3>1 DEF Ear, Responses
        <3>3. [h EXCEPT !.ended = @ \cup {r.turn}] \in Ear BY <3>1 DEF Ear, Responses
        <3>4. HeardAfter(h, r) \in Ear BY <3>1, <3>2, <3>3 DEF HeardAfter
        <3> QED BY <3>4 DEF h, r
    <2>4. /\ heard' \in [Streams -> Ear] /\ \A t \in Streams : t # s => heard'[t] = heard[t]
        BY <1>1, <2>3, Zenon DEF Yield, StreamType
    <2>5. /\ response_queue' \in [Streams -> Seq(Responses)]
          /\ \A t \in Streams : t # s => response_queue'[t] = response_queue[t]
        BY <2>1, <2>2 DEF StreamType
    <2> QED BY <1>1, <2>4, <2>5, ZenonT(30) DEF Yield, StreamType, Elsewhere, Writer
<1>2. CASE Join(s)
    <2>1. odd' \in Seq({"early", "expired", "raise", "cancel"}) BY <1>2, OddType DEF Join
    <2>2. Silent \in Mic /\ Deaf \in Ear /\ <<>> \in Seq(Responses)
        BY DEF Silent, Deaf, Mic, Ear
    <2> QED BY <1>2, <2>1, <2>2 DEF Join, StreamType, Elsewhere, Reader, Writer
<1>3. CASE release_session_lease(s)
    BY <1>3 DEF release_session_lease, StreamType, Elsewhere, Writer
<1>4. CASE end_session(s) BY <1>4 DEF end_session, StreamType, Elsewhere, Writer
<1>5. CASE StreamSession(s) BY <1>5 DEF StreamSession, StreamType, Elsewhere, Reader, Writer
<1> QED BY <1>1, <1>2, <1>3, <1>4, <1>5 DEF WriterStep

-------------------------------------------------------------------------------
(* The lease and the stores.  LeaseKept is not inductive: it says nothing   *)
(* of a stream between its SET NX and its orchestrator, nor of one that     *)
(* ended without a session, and whose cleanup deletes the key all the same. *)

\* The reader, the writer, session_id and the orchestrator of a stream.
Orderly(rd, wr, sid, orch) ==
    /\ rd = "none" <=> wr = "none"
    /\ rd = "none" => ~sid
    /\ rd \in {"lease", "restore", "first", "turn"} => sid
    /\ rd \in {"recv", "lease", "restore", "first", "turn"} => wr \in {"get", "join"}
    /\ wr \in {"release", "end"} => sid
    /\ orch # "none" /\ wr # "done" => sid /\ rd \in {"first", "turn", "recv", "done"}

OrderlyAt(s) == Orderly(reader[s], writer[s], session_id[s], orchestrator[s])

\* The stream has created the key and its cleanup has not deleted it: a refused one
\* has no session_id, one whose acquisition raised has a pool that is closed.
Held(s) ==
    /\ writer[s] \in {"get", "join", "release"} /\ session_id[s]
    /\ \/ reader[s] \in {"restore", "first", "turn", "recv"}
       \/ reader[s] = "done" /\ (orchestrator[s] # "none" \/ redis)

LeaseInv ==
    Never("expired") /\ Never("early") => \A s \in Streams : Held(s) => lease = s

\* What a step of a stream does to the lease, and that it is not its first one.
LeaseMoves(s) ==
    /\ reader[s] # "none" /\ redis' = redis
    /\ writer'[s] \notin {"none", "done"} => writer[s] \notin {"none", "done"}
    /\ lease' = lease \/ lease = NoStream \/ Held(s)
    /\ Held(s)' => lease' = s \/ (Held(s) /\ lease' = lease) \/ odd' = Append(odd, "early")
    /\ odd' = odd \/ \E kind : odd' = Append(odd, kind)

\* The history of faults only grows.
LEMMA NeverBefore ==
    ASSUME StreamType, NEW kind, NEW k, odd' = odd \/ odd' = Append(odd, k), Never(kind)'
    PROVE  Never(kind) /\ (odd' = Append(odd, k) => k # kind)
<1> DEFINE K == {"early", "expired", "raise", "cancel", k}
<1>1. odd \in Seq(K)
    <2>1. odd \in Seq({"early", "expired", "raise", "cancel"}) BY DEF StreamType
    <2> QED BY <2>1, QueueWider
<1>2. Len(odd) \in Nat /\ DOMAIN odd = 1..Len(odd) BY <1>1, QueueTyped
<1>3. CASE odd' = odd
    <2>1. Append(odd, k) # odd
        <3>1. Len(Append(odd, k)) = Len(odd) + 1 BY <1>1, QueuePut
        <3>2. \A n \in Nat : n + 1 # n OBVIOUS
        <3> QED BY <1>2, <3>1, <3>2, Zenon
    <2> QED BY <1>3, <2>1 DEF Never
<1>4. CASE odd' = Append(odd, k)
    <2>1. /\ Append(odd, k) \in Seq(K) /\ Len(Append(odd, k)) = Len(odd) + 1
          /\ \A i \in 1..Len(odd) : Append(odd, k)[i] = odd[i]
          /\ Append(odd, k)[Len(odd) + 1] = k
        BY <1>1, QueuePut
    <2>2. DOMAIN odd' = 1..Len(odd) + 1 BY <1>4, <2>1, QueueTyped
    <2>3. \A i \in 1..Len(odd) + 1 : odd'[i] # kind BY <2>2 DEF Never
    <2>4. k # kind BY <1>2, <1>4, <2>1, <2>3
    <2>5. \A i \in DOMAIN odd : odd[i] # kind BY <1>2, <1>4, <2>1, <2>3
    <2> QED BY <2>4, <2>5 DEF Never
<1> QED BY <1>3, <1>4

\* A step of the reader or of the client.
LEMMA ReaderMoves ==
    ASSUME StreamType, NEW s \in Streams, OrderlyAt(s), ReaderStep(s) \/ ClientStep(s)
    PROVE  OrderlyAt(s)' /\ LeaseMoves(s)
<1>0. /\ reader[s] \in {"none", "recv", "lease", "restore", "first", "turn", "done"}
      /\ writer[s] \in {"none", "get", "join", "release", "end", "done"}
    BY DEF StreamType
<1>1. ASSUME NEW chunk \in Chunks, FirstChunk(s, chunk) PROVE OrderlyAt(s)' /\ LeaseMoves(s)
    <2>1. /\ reader[s] = "recv" /\ ~session_id[s] /\ reader'[s] = "lease" /\ session_id'[s]
          /\ UNCHANGED <<writer, orchestrator, lease, redis, odd>>
        BY <1>1 DEF FirstChunk, Reader, StreamType
    <2> QED BY <1>0, <2>1 DEF OrderlyAt, Orderly, LeaseMoves, Held
<1>2. CASE acquire_session_lease(s)
    <2>1. /\ reader[s] = "lease" /\ redis /\ UNCHANGED <<writer, orchestrator, redis, odd>>
          /\ \/ lease = NoStream /\ lease' = s /\ reader'[s] = "restore" /\ session_id' = session_id
             \/ ~session_id'[s] /\ reader'[s] = "done" /\ lease' = lease
        BY <1>2 DEF acquire_session_lease, Reader, ReaderEnds, StreamType, SessionIdAfterRefusal
    <2> QED BY <1>0, <2>1 DEF OrderlyAt, Orderly, LeaseMoves, Held
<1>3. CASE restore_or_create_orchestrator(s)
    <2>1. /\ reader[s] = "restore" /\ reader'[s] = "first" /\ orchestrator'[s] = "live"
          /\ UNCHANGED <<writer, session_id, lease, redis, odd>>
        BY <1>3, ZenonT(30) DEF restore_or_create_orchestrator, Reader, StreamType
    <2> QED BY <1>0, <2>1 DEF OrderlyAt, Orderly, LeaseMoves, Held
<1>4. CASE SessionEnded(s) \/ ClientHangup(s)
    <2>1. /\ reader[s] = "restore" \/ reader[s] = "recv"
          /\ UNCHANGED <<writer, session_id, orchestrator, lease, redis, odd>>
        BY <1>4 DEF SessionEnded, ClientHangup, ReaderEnds, Reader, StreamType
    <2>2. reader'[s] = "done"
        BY <1>4 DEF SessionEnded, ClientHangup, ReaderEnds, Reader, StreamType
    <2> QED BY <1>0, <2>1, <2>2 DEF OrderlyAt, Orderly, LeaseMoves, Held
<1>5. CASE ReaderRaises(s)
    <2>1. /\ (reader[s] = "lease" /\ ~redis) \/ reader[s] \in {"restore", "turn"}
          /\ reader'[s] = "done" /\ (odd' = odd \/ odd' = Append(odd, "raise"))
          /\ UNCHANGED <<writer, session_id, orchestrator, lease, redis>>
        BY <1>5 DEF ReaderRaises, ReaderEnds, Reader, StreamType, Oddly
    <2> QED BY <1>0, <2>1 DEF OrderlyAt, Orderly, LeaseMoves, Held
<1>6. CASE Dtmf(s) \/ Voice(s)
    <2>1. /\ reader[s] = "first" \/ (reader[s] = "recv" /\ session_id[s])
          /\ UNCHANGED <<writer, session_id, orchestrator, lease, redis, odd>>
        BY <1>6 DEF Dtmf, Voice, Takes
    <2>2. reader'[s] \in {"recv", "turn"}
        BY <1>6 DEF Dtmf, Voice, Reader, StreamType
    <2> QED BY <1>0, <2>1, <2>2 DEF OrderlyAt, Orderly, LeaseMoves, Held
<1>7. CASE TurnReturns(s)
    <2>1. /\ reader[s] = "turn" /\ reader'[s] = "recv"
          /\ UNCHANGED <<writer, session_id, lease, redis, odd>>
        BY <1>7, ZenonT(30) DEF TurnReturns, Reader, StreamType
    <2> QED BY <1>0, <2>1 DEF OrderlyAt, Orderly, LeaseMoves, Held
<1>8. CASE Cancelled(s)
    <2>1. /\ writer[s] \in {"get", "join", "release", "end"}
          /\ \/ writer[s] \in {"get", "join"} /\ writer'[s] = "join"
             \/ writer[s] \in {"release", "end"} /\ writer'[s] = "done"
          /\ odd' = Append(odd, "cancel")
          /\ UNCHANGED <<reader, session_id, orchestrator, lease, redis>>
        BY <1>8 DEF Cancelled, AfterCancel, Writer, StreamType, Oddly
    <2> QED BY <1>0, <2>1 DEF OrderlyAt, Orderly, LeaseMoves, Held
<1> QED BY <1>1, <1>2, <1>3, <1>4, <1>5, <1>6, <1>7, <1>8 DEF ReaderStep, ClientStep

\* A step of the writer: the lease that a stream deletes is its own.
LEMMA WriterMoves ==
    ASSUME StreamType, NEW s \in Streams, OrderlyAt(s), WriterStep(s)
    PROVE  OrderlyAt(s)' /\ LeaseMoves(s)
<1>0. /\ reader[s] \in {"none", "recv", "lease", "restore", "first", "turn", "done"}
      /\ writer[s] \in {"none", "get", "join", "release", "end", "done"}
    BY DEF StreamType
<1>1. CASE Yield(s)
    <2>1. /\ writer[s] = "get" /\ writer'[s] \in {"get", "join"}
          /\ UNCHANGED <<reader, session_id, orchestrator, lease, redis, odd>>
        BY <1>1 DEF Yield, Writer, StreamType
    <2> QED BY <1>0, <2>1 DEF OrderlyAt, Orderly, LeaseMoves, Held
<1>2. CASE Join(s)
    <2>1. /\ writer[s] = "join" /\ reader'[s] = "done"
          /\ writer'[s] = IF session_id[s] THEN "release" ELSE "done"
          /\ UNCHANGED <<session_id, orchestrator, redis>>
        BY <1>2 DEF Join, Reader, Writer, StreamType
    <2>2. CASE reader[s] = "lease"
        <3>1. odd' = Append(odd, "early") /\ (lease' = lease \/ lease = NoStream)
            BY <1>2, <2>2, ZenonT(30) DEF Join
        <3> QED BY <1>0, <2>1, <2>2, <3>1, Zenon DEF OrderlyAt, Orderly, LeaseMoves, Held
    <2>3. CASE reader[s] # "lease"
        <3>1. odd' = odd /\ lease' = lease BY <1>2, <2>3 DEF Join
        <3> QED BY <1>0, <2>1, <2>3, <3>1 DEF OrderlyAt, Orderly, LeaseMoves, Held
    <2> QED BY <2>2, <2>3
<1>3. CASE release_session_lease(s)
    <2>1. /\ writer[s] = "release" /\ writer'[s] = "end"
          /\ lease' = IF redis THEN NoStream ELSE lease
          /\ UNCHANGED <<reader, session_id, orchestrator, redis, odd>>
        BY <1>3, Zenon DEF release_session_lease, Writer, StreamType
    <2>2. redis => Held(s) BY <1>0, <2>1 DEF OrderlyAt, Orderly, Held
    <2> QED BY <1>0, <2>1, <2>2 DEF OrderlyAt, Orderly, LeaseMoves, Held
<1>4. CASE end_session(s)
    <2>1. /\ writer[s] = "end" /\ writer'[s] = "done"
          /\ UNCHANGED <<reader, lease, redis, odd>>
        BY <1>4 DEF end_session, Writer, StreamType
    <2> QED BY <1>0, <2>1 DEF OrderlyAt, Orderly, LeaseMoves, Held
<1> QED BY <1>1, <1>2, <1>3, <1>4 DEF WriterStep

-------------------------------------------------------------------------------
(* What the bridge hears.  FreshAudio does not say how many turns there     *)
(* were when a CLEAR was queued, nor TurnsAnswered what is queued after a   *)
(* response is taken: both follow from what is known of the whole queue.    *)

Ends(r) == r.type = "END_OF_TURN"

\* No CLEAR is of a turn after the nth, and audio is of a turn after the last CLEAR
\* before it.
Steady(q, h, n) ==
    /\ h.cleared <= n
    /\ \A i \in 1..Len(q) : q[i].type = "CLEAR" => q[i].turn <= n
    /\ \A i \in 1..Len(q) : q[i].type = "TTS_AUDIO" =>
          /\ h.cleared < q[i].turn
          /\ \A j \in 1..i - 1 : q[j].type = "CLEAR" => q[j].turn < q[i].turn

\* The first m turns are over, by a transfer, or the response that says so is queued.
Told(h) == h.ended \cup h.handed
Settled(q, h, m) ==
    \A k \in 1..m : k \in Told(h) \/ \E i \in 1..Len(q) : Ends(q[i]) /\ q[i].turn = k

\* A turn that has not returned is not counted, nor is one that raised answered.
Began(s) == voice[s].turns - (IF reader[s] = "turn" THEN 1 ELSE 0)
Returned(s) == voice[s].turns - (IF reader[s] \in {"turn", "done"} THEN 1 ELSE 0)

TalkAt(s) ==
    /\ Steady(response_queue[s], heard[s], Began(s))
    /\ Settled(response_queue[s], heard[s], Returned(s))

\* Every response has the number of its turn.
LEMMA TurnsTyped ==
    ASSUME NEW q \in Seq(Responses)
    PROVE  \A i \in 1..Len(q) : q[i].turn \in Nat
<1>1. \A i \in 1..Len(q) : q[i] \in Responses BY QueueTyped
<1>2. \A r \in Responses : r.turn \in Nat BY DEF Responses
<1> QED BY <1>1, <1>2

\* Responses that are put behind the others, none of them a CLEAR or old audio.
LEMMA PutSteady ==
    ASSUME NEW q \in Seq(Responses), NEW b \in Seq(Responses), NEW h \in Ear, NEW n \in Int,
           Steady(q, h, n),
           \A i \in 1..Len(b) : /\ b[i].type # "CLEAR"
                                /\ b[i].type = "TTS_AUDIO" => n < b[i].turn
    PROVE  Steady(q \o b, h, n)
<1> DEFINE c == q \o b  l == Len(q)
<1>1. /\ Len(c) = l + Len(b) /\ l \in Nat /\ Len(b) \in Nat
      /\ \A i \in 1..Len(c) : c[i] = IF i <= l THEN q[i] ELSE b[i - l]
    BY QueueJoined, QueueTyped
<1>2. \A i \in 1..l : q[i].turn \in Nat BY TurnsTyped
<1>3. \A i \in 1..Len(b) : b[i].turn \in Nat BY TurnsTyped
<1>4. h.cleared \in Nat BY DEF Ear
<1>5. \A i \in 1..Len(c) : (i <= l => i \in 1..l) /\ (~(i <= l) => i - l \in 1..Len(b))
    BY <1>1
<1> HIDE DEF c, l
<1>6. \A i \in 1..Len(c) : c[i].type = "CLEAR" => i \in 1..l /\ c[i] = q[i] BY <1>1, <1>5
<1>7. \A i \in 1..Len(c) : c[i].type = "CLEAR" => c[i].turn <= n BY <1>6 DEF Steady, l
<1>8. ASSUME NEW i \in 1..Len(c), c[i].type = "TTS_AUDIO"
      PROVE  /\ h.cleared < c[i].turn
             /\ \A j \in 1..i - 1 : c[j].type = "CLEAR" => c[j].turn < c[i].turn
    <2>0. \A j \in 1..i - 1 : j \in 1..Len(c) BY <1>1
    <2>1. CASE i <= l
        <3>1. i \in 1..l /\ c[i] = q[i] BY <1>1, <1>5, <2>1
        <3>2. \A j \in 1..i - 1 : c[j] = q[j] BY <1>1, <2>0, <2>1
        <3> QED BY <1>8, <3>1, <3>2, Zenon DEF Steady, l
    <2>2. CASE ~(i <= l)
        <3>1. i - l \in 1..Len(b) /\ c[i] = b[i - l] BY <1>1, <1>5, <2>2
        <3>2. n < c[i].turn /\ c[i].turn \in Nat BY <1>3, <1>8, <3>1
        <3>3. h.cleared <= n BY DEF Steady
        <3>4. h.cleared < c[i].turn BY <1>4, <3>2, <3>3
        <3>5. ASSUME NEW j \in 1..i - 1, c[j].type = "CLEAR" PROVE c[j].turn < c[i].turn
            <4>1. c[j].turn <= n /\ c[j].turn \in Nat BY <1>2, <1>6, <1>7, <2>0, <3>5
            <4> QED BY <3>2, <4>1
        <3> QED BY <3>4, <3>5
    <2> QED BY <2>1, <2>2
<1> QED BY <1>7, <1>8, Zenon DEF Steady, c

\* What is queued stays queued when more is put behind it.
LEMMA PutAnswered ==
    ASSUME NEW q \in Seq(Responses), NEW b \in Seq(Responses), NEW h \in Ear, NEW m \in Int,
           Settled(q, h, m)
    PROVE  /\ Settled(q \o b, h, m)
           /\ Len(b) > 0 /\ Ends(b[Len(b)]) /\ b[Len(b)].turn = m + 1
              => Settled(q \o b, h, m + 1)
<1> DEFINE c == q \o b  l == Len(q)
<1>1. /\ Len(c) = l + Len(b) /\ l \in Nat /\ Len(b) \in Nat
      /\ \A i \in 1..Len(c) : c[i] = IF i <= l THEN q[i] ELSE b[i - l]
    BY QueueJoined, QueueTyped
<1> HIDE DEF c, l
<1>2. \A i \in 1..l : i \in 1..Len(c) /\ c[i] = q[i] BY <1>1
<1>3. Settled(c, h, m) BY <1>2, Zenon DEF Settled, l
<1>4. ASSUME Len(b) > 0, Ends(b[Len(b)]), b[Len(b)].turn = m + 1
      PROVE  Settled(c, h, m + 1)
    <2>1. Len(c) \in 1..Len(c) /\ ~(Len(c) <= l) /\ Len(c) - l = Len(b) BY <1>1, <1>4
    <2>2. c[Len(c)] = b[Len(b)] BY <1>1, <2>1
    <2>3. \A k \in 1..m + 1 : k \in 1..m \/ k = m + 1 OBVIOUS
    <2> QED BY <1>3, <1>4, <2>1, <2>2, <2>3 DEF Settled
<1> QED BY <1>3, <1>4 DEF c

\* clear_buffer is queued behind the audio of the turns that have begun.
LEMMA ClearSteady ==
    ASSUME NEW q \in Seq(Responses), NEW h \in Ear, NEW n \in Nat, Steady(q, h, n)
    PROVE  Steady(Append(q, Response("CLEAR", n)), h, n)
<1> DEFINE c == Append(q, Response("CLEAR", n))  l == Len(q)
<1>0. Response("CLEAR", n) \in Responses BY DEF Response, Responses
<1>1. /\ Len(c) = l + 1 /\ l \in Nat
      /\ \A i \in 1..l : c[i] = q[i]
      /\ c[l + 1] = Response("CLEAR", n)
    BY <1>0, QueuePut, QueueTyped
<1>2. Response("CLEAR", n).type = "CLEAR" /\ Response("CLEAR", n).turn = n BY DEF Response
<1> HIDE DEF c, l
<1>3. \A i \in 1..Len(c) : i \in 1..l \/ i = l + 1 BY <1>1
<1>4. \A i \in 1..Len(c) : c[i].type = "CLEAR" => c[i].turn <= n
    BY <1>1, <1>2, <1>3 DEF Steady, l
<1>5. ASSUME NEW i \in 1..Len(c), c[i].type = "TTS_AUDIO"
      PROVE  /\ h.cleared < c[i].turn
             /\ \A j \in 1..i - 1 : c[j].type = "CLEAR" => c[j].turn < c[i].turn
    <2>1. i \in 1..l /\ c[i] = q[i] BY <1>1, <1>2, <1>3, <1>5
    <2>2. \A j \in 1..i - 1 : c[j] = q[j] BY <1>1, <2>1
    <2> QED BY <1>5, <2>1, <2>2 DEF Steady, l
<1> QED BY <1>4, <1>5 DEF Steady, c

\* A CLEAR ends no turn.
LEMMA ClearAnswered ==
    ASSUME NEW q \in Seq(Responses), NEW h \in Ear, NEW n \in Nat, NEW m \in Int,
           Settled(q, h, m)
    PROVE  Settled(Append(q, Response("CLEAR", n)), h, m)
<1>1. Response("CLEAR", n) \in Responses BY DEF Response, Responses
<1>2. /\ <<Response("CLEAR", n)>> \in Seq(Responses)
      /\ Append(q, Response("CLEAR", n)) = q \o <<Response("CLEAR", n)>>
    BY <1>1, QueuePutJoins
<1> QED BY <1>2, PutAnswered, Zenon

\* What the bridge knows after a response.
LEMMA HeardType ==
    ASSUME NEW h \in Ear, NEW r \in Responses
    PROVE  /\ HeardAfter(h, r) \in Ear
           /\ HeardAfter(h, r).cleared = IF r.type = "CLEAR" THEN r.turn ELSE h.cleared
           /\ Told(HeardAfter(h, r)) = IF Ends(r) THEN Told(h) \cup {r.turn} ELSE Told(h)
           /\ r.type = "none" => HeardAfter(h, r) = h
<1>1. /\ r.turn \in Nat /\ h.cleared \in Nat
      /\ h.ended \in SUBSET Nat /\ h.handed \in SUBSET Nat
    BY DEF Responses, Ear
<1>2. CASE r.type = "CLEAR"
    <2>1. HeardAfter(h, r) = [h EXCEPT !.cleared = r.turn] BY <1>2 DEF HeardAfter
    <2> QED BY <1>1, <1>2, <2>1 DEF Ear, Ends, Told
<1>3. CASE Ends(r)
    <2>1. HeardAfter(h, r) = [h EXCEPT !.ended = @ \cup {r.turn}]
        BY <1>3 DEF HeardAfter, Ends
    <2>2. /\ HeardAfter(h, r) \in Ear /\ HeardAfter(h, r).cleared = h.cleared
          /\ HeardAfter(h, r).ended = h.ended \cup {r.turn}
          /\ HeardAfter(h, r).handed = h.handed
        BY <1>1, <2>1 DEF Ear
    <2> QED BY <1>3, <2>2, ZenonT(30) DEF Ends, Told
<1>4. CASE r.type # "CLEAR" /\ ~Ends(r) BY <1>4 DEF HeardAfter, Ends
<1> QED BY <1>2, <1>3, <1>4

\* A turn that is handed over needs no answer.
LEMMA HandedTalk ==
    ASSUME NEW q \in Seq(Responses), NEW h \in Ear, NEW n \in Int, NEW m \in Int,
           m + 1 \in Nat, Steady(q, h, n), Settled(q, h, m)
    PROVE  /\ Steady(q, [h EXCEPT !.handed = @ \cup {m + 1}], n)
           /\ Settled(q, [h EXCEPT !.handed = @ \cup {m + 1}], m + 1)
<1> DEFINE g == [h EXCEPT !.handed = @ \cup {m + 1}]
<1>1. g.cleared = h.cleared /\ g.ended = h.ended /\ g.handed = h.handed \cup {m + 1}
    BY DEF Ear
<1> HIDE DEF g
<1>2. Steady(q, g, n) BY <1>1, ZenonT(30) DEF Steady
<1>3. \A k \in 1..m + 1 : k \in 1..m \/ k = m + 1 OBVIOUS
<1>4. Told(g) = Told(h) \cup {m + 1} BY <1>1, ZenonT(30) DEF Told
<1>5. Settled(q, g, m + 1) BY <1>3, <1>4, ZenonT(30) DEF Settled
<1> QED BY <1>2, <1>5 DEF g

\* The writer yields the first response.
LEMMA YieldTalk ==
    ASSUME NEW q \in Seq(Responses), q # <<>>, NEW h \in Ear, NEW n \in Int, NEW m \in Int,
           Steady(q, h, n), Settled(q, h, m)
    PROVE  /\ Steady(Tail(q), HeardAfter(h, Head(q)), n)
           /\ Settled(Tail(q), HeardAfter(h, Head(q)), m)
<1> DEFINE r == Head(q)  t == Tail(q)  g == HeardAfter(h, Head(q))
<1>1. /\ r \in Responses /\ r = q[1] /\ t \in Seq(Responses) /\ Len(t) = Len(q) - 1
      /\ \A i \in 1..Len(t) : t[i] = q[i + 1]
    BY QueueTaken
<1>2. /\ g.cleared = IF r.type = "CLEAR" THEN r.turn ELSE h.cleared
      /\ Told(g) = IF Ends(r) THEN Told(h) \cup {r.turn} ELSE Told(h)
    BY <1>1, HeardType, Zenon
<1>3. Len(q) \in Nat /\ Len(q) > 0 /\ Len(t) \in Nat BY <1>1, QueueTyped
<1>4. \A i \in 1..Len(q) : q[i].turn \in Nat BY TurnsTyped
<1> HIDE DEF r, t, g
<1>5. 1 \in 1..Len(q) /\ \A i \in 1..Len(t) : i + 1 \in 1..Len(q) /\ 1 \in 1..(i + 1) - 1
    BY <1>1, <1>3
<1>6. g.cleared <= n BY <1>1, <1>2, <1>5 DEF Steady
<1>7. \A i \in 1..Len(t) : t[i].type = "CLEAR" => t[i].turn <= n BY <1>1, <1>5, Zenon DEF Steady
<1>8. ASSUME NEW i \in 1..Len(t), t[i].type = "TTS_AUDIO"
      PROVE  /\ g.cleared < t[i].turn
             /\ \A j \in 1..i - 1 : t[j].type = "CLEAR" => t[j].turn < t[i].turn
    <2>1. t[i] = q[i + 1] /\ i + 1 \in 1..Len(q) BY <1>1, <1>5
    <2>2. /\ h.cleared < q[i + 1].turn
          /\ \A j \in 1..(i + 1) - 1 : q[j].type = "CLEAR" => q[j].turn < q[i + 1].turn
        BY <1>8, <2>1 DEF Steady
    <2>3. g.cleared < t[i].turn BY <1>1, <1>2, <1>5, <2>1, <2>2
    <2>4. \A j \in 1..i - 1 : j + 1 \in 1..(i + 1) - 1 /\ j \in 1..Len(t) BY <1>3
    <2> QED BY <1>1, <2>1, <2>2, <2>3, <2>4, Zenon
<1>9. Settled(t, g, m)
    <2> SUFFICES ASSUME NEW k \in 1..m
                 PROVE  k \in Told(g) \/ \E i \in 1..Len(t) : Ends(t[i]) /\ t[i].turn = k
        BY DEF Settled
    <2>1. CASE k \in Told(h) BY <1>2, <2>1
    <2>2. ASSUME NEW i \in 1..Len(q), Ends(q[i]), q[i].turn = k
          PROVE  k \in Told(g) \/ \E j \in 1..Len(t) : Ends(t[j]) /\ t[j].turn = k
        <3>1. CASE i = 1 BY <1>1, <1>2, <2>2, <3>1
        <3>2. CASE i # 1
            <4>1. i - 1 \in 1..Len(t) /\ (i - 1) + 1 = i BY <1>1, <1>3, <3>2
            <4>2. t[i - 1] = q[i] BY <1>1, <4>1
            <4> QED BY <2>2, <4>1, <4>2
        <3> QED BY <3>1, <3>2
    <2> QED BY <2>1, <2>2 DEF Settled
<1> QED BY <1>6, <1>7, <1>8, <1>9, ZenonT(30) DEF Steady, r, t, g

\* More turns may have begun, fewer need have returned.
LEMMA Widened ==
    ASSUME NEW q \in Seq(Responses), NEW h \in Ear, NEW n \in Int, NEW m \in Int,
           NEW n2 \in Int, NEW m2 \in Int, n <= n2, m2 <= m, Steady(q, h, n), Settled(q, h, m)
    PROVE  Steady(q, h, n2) /\ Settled(q, h, m2)
<1>1. \A i \in 1..Len(q) : q[i].turn \in Nat BY TurnsTyped
<1>2. h.cleared \in Nat BY DEF Ear
<1>3. \A x \in Nat : x <= n => x <= n2 OBVIOUS
<1>4. Steady(q, h, n2) BY <1>1, <1>2, <1>3, Zenon DEF Steady
<1>5. \A k \in 1..m2 : k \in 1..m OBVIOUS
<1> QED BY <1>4, <1>5 DEF Settled

\* The reader ends, whatever it was doing.
LEMMA EndTalk ==
    ASSUME StreamType, NEW s \in Streams, TalkAt(s), NEW r, r = Notice \/ r = <<>>,
           ReaderEnds(s, r), UNCHANGED <<voice, heard>>
    PROVE  TalkAt(s)'
<1> DEFINE b == r \o Sentinel(s)  q == response_queue[s]  h == heard[s]  n == voice[s].turns
<1>1. /\ response_queue'[s] = q \o b /\ b \in Seq(Responses) /\ reader'[s] = "done"
    BY EndType, ZenonT(30) DEF StreamType
<1>2. \A i \in 1..Len(b) : b[i].type # "CLEAR" /\ b[i].type # "TTS_AUDIO"
    <2>1. CASE r = Notice
        <3> DEFINE x == Response("END_OF_TURN", 0)  z == Response("none", 0)
        <3>0. b = <<x>> \o <<z>> BY <2>1 DEF Notice, Sentinel
        <3>1. x \in Responses /\ z \in Responses BY DEF Response, Responses
        <3> HIDE DEF b, x, z
        <3>2. Len(b) = 2 /\ b[1] = Response("END_OF_TURN", 0) /\ b[2] = Response("none", 0)
            <4>1. <<x>> \in Seq(Responses) /\ <<z>> \in Seq(Responses) BY <3>1
            <4>2. /\ Len(b) = Len(<<x>>) + Len(<<z>>)
                  /\ \A i \in 1..Len(<<x>>) + Len(<<z>>) :
                        b[i] = IF i <= Len(<<x>>) THEN <<x>>[i] ELSE <<z>>[i - Len(<<x>>)]
                BY <3>0, <4>1, QueueJoined
            <4>3. /\ Len(<<x>>) = 1 /\ Len(<<z>>) = 1 /\ <<x>>[1] = x /\ <<z>>[1] = z
                OBVIOUS
            <4>4. 1 \in 1..1 + 1 /\ 2 \in 1..1 + 1 /\ ~(2 <= 1) /\ 2 - 1 = 1 /\ 1 + 1 = 2 OBVIOUS
            <4> QED BY <4>2, <4>3, <4>4 DEF x, z
        <3>3. \A i \in 1..2 : i = 1 \/ i = 2 OBVIOUS
        <3> HIDE DEF b
        <3> QED BY <3>2, <3>3 DEF Response
    <2>2. CASE r = <<>>
        <3>1. b = <<Response("none", 0)>> BY <2>2 DEF Sentinel
        <3>2. Len(b) = 1 /\ b[1] = Response("none", 0) BY <3>1
        <3>3. \A i \in 1..1 : i = 1 OBVIOUS
        <3> HIDE DEF b
        <3> QED BY <3>2, <3>3 DEF Response
    <2> QED BY <2>1, <2>2, Zenon
<1>3. q \in Seq(Responses) /\ h \in Ear /\ n \in Nat BY DEF StreamType, Mic
<1>4. /\ Began(s) \in Int /\ Began(s) <= n /\ Returned(s) \in Int /\ n - 1 <= Returned(s)
      /\ Began(s)' = n /\ Returned(s)' = n - 1
    BY <1>1, <1>3 DEF Began, Returned
<1> HIDE DEF b, q, h, n
<1>5. Steady(q \o b, h, Began(s)) BY <1>1, <1>2, <1>3, <1>4, PutSteady, Zenon DEF TalkAt, q, h
<1>6. Settled(q \o b, h, Returned(s)) BY <1>1, <1>3, <1>4, PutAnswered DEF TalkAt, q, h
<1>7. q \o b \in Seq(Responses) BY <1>1, <1>3, QueueJoined
<1>8. Steady(q \o b, h, n) /\ Settled(q \o b, h, n - 1)
    <2>1. n \in Int /\ n - 1 \in Int BY <1>3
    <2> QED BY <1>3, <1>4, <1>5, <1>6, <1>7, <2>1, Widened, ZenonT(30)
<1>9. heard'[s] = h BY DEF h
<1>10. Began(s)' = n /\ Returned(s)' = n - 1 BY <1>4, ZenonT(30)
<1>11. Steady(response_queue'[s], heard'[s], Began(s)') BY <1>1, <1>8, <1>9, <1>10
<1>12. Settled(response_queue'[s], heard'[s], Returned(s)') BY <1>1, <1>8, <1>9, <1>10
<1> QED BY <1>11, <1>12 DEF TalkAt

\* A step that leaves the queue alone and neither begins nor ends a turn.
LEMMA SameTalk ==
    ASSUME NEW s \in Streams, TalkAt(s), response_queue'[s] = response_queue[s],
           heard'[s] = heard[s], voice'[s].turns = voice[s].turns,
           \/ reader'[s] = reader[s]
           \/ reader[s] \notin {"turn", "done"} /\ reader'[s] \notin {"turn", "done"}
    PROVE  TalkAt(s)'
<1>1. Began(s)' = Began(s) /\ Returned(s)' = Returned(s) BY DEF Began, Returned
<1> QED BY <1>1, Zenon DEF TalkAt

\* The steps of the reader and of the client.
LEMMA ReaderTalk ==
    ASSUME StreamType, NEW s \in Streams, TalkAt(s), ReaderStep(s) \/ ClientStep(s)
    PROVE  TalkAt(s)'
<1> DEFINE q == response_queue[s]  h == heard[s]  n == voice[s].turns
<1>0. q \in Seq(Responses) /\ h \in Ear /\ n \in Nat BY DEF StreamType, Mic
<1>1. ASSUME NEW chunk \in Chunks, FirstChunk(s, chunk) PROVE TalkAt(s)'
    <2>1. voice'[s] = [voice[s] EXCEPT !.chunk = chunk] BY <1>1 DEF FirstChunk, StreamType
    <2>2. voice'[s].turns = n BY <2>1 DEF StreamType, Mic
    <2>3. /\ reader[s] = "recv" /\ reader'[s] = "lease" /\ UNCHANGED <<response_queue, heard>>
        BY <1>1 DEF FirstChunk, Reader, StreamType
    <2> QED BY <2>2, <2>3, SameTalk
<1>2. CASE acquire_session_lease(s)
    <2>1. CASE ReaderEnds(s, Notice) BY <1>2, <2>1, EndTalk, ZenonT(30) DEF acquire_session_lease
    <2>2. CASE Reader(s, "restore") /\ UNCHANGED response_queue
        <3>1. reader[s] = "lease" /\ reader'[s] = "restore" /\ UNCHANGED <<voice, heard>>
            BY <1>2, <2>2, Zenon DEF acquire_session_lease, Reader, StreamType
        <3> QED BY <2>2, <3>1, SameTalk
    <2> QED BY <1>2, <2>1, <2>2 DEF acquire_session_lease
<1>3. CASE restore_or_create_orchestrator(s)
    <2>1. /\ reader[s] = "restore" /\ reader'[s] = "first"
          /\ UNCHANGED <<voice, heard, response_queue>>
        BY <1>3 DEF restore_or_create_orchestrator, Reader, StreamType
    <2> QED BY <2>1, SameTalk
<1>4. CASE SessionEnded(s) \/ ReaderRaises(s) \/ ClientHangup(s)
    BY <1>4, EndTalk, ZenonT(30) DEF SessionEnded, ReaderRaises, ClientHangup
<1>5. CASE Dtmf(s)
    <2> DEFINE b == <<Response("END_OF_TURN", 0)>>
    <2>1. voice'[s] = [voice[s] EXCEPT !.chunk = "none"] BY <1>5 DEF Dtmf, StreamType
    <2>2. voice'[s].turns = n BY <2>1 DEF StreamType, Mic
    <2>3. reader[s] \in {"first", "recv"} /\ reader'[s] = "recv" /\ UNCHANGED heard
        BY <1>5 DEF Dtmf, Reader, StreamType, Takes
    <2>4. b \in Seq(Responses) BY DEF Response, Responses
    <2>5. Put(s, b) BY <1>5, ResponseTypes DEF Dtmf, emit
    <2>6. response_queue'[s] = q \o b BY <2>4, <2>5, PutType, Zenon
    <2>7. \A i \in 1..Len(b) : b[i].type # "CLEAR" /\ b[i].type # "TTS_AUDIO"
        <3>1. Len(b) = 1 /\ b[1] = Response("END_OF_TURN", 0) OBVIOUS
        <3>2. \A i \in 1..1 : i = 1 OBVIOUS
        <3> HIDE DEF b
        <3> QED BY <3>1, <3>2 DEF Response
    <2>8. Began(s) = n /\ Returned(s) = n /\ Began(s)' = n /\ Returned(s)' = n
        BY <1>0, <2>2, <2>3 DEF Began, Returned
    <2> HIDE DEF b, q, h, n
    <2>9. Steady(q \o b, h, n) BY <1>0, <2>4, <2>7, <2>8, PutSteady DEF TalkAt, q, h
    <2>10. Settled(q \o b, h, n) BY <1>0, <2>4, <2>8, PutAnswered DEF TalkAt, q, h
    <2>11. heard'[s] = h BY <2>3 DEF h
    <2> QED BY <2>6, <2>8, <2>9, <2>10, <2>11 DEF TalkAt
<1>6. CASE Voice(s)
    <2>1. PICK speaking \in BOOLEAN :
            /\ reader[s] \in {"first", "recv"}
            /\ response_queue' =
                  [response_queue EXCEPT ![s] = IF BargeIn(s, speaking) THEN Cleared(s) ELSE @]
            /\ Reader(s, IF RunsPipeline(s, speaking) THEN "turn" ELSE "recv")
            /\ voice' = [voice EXCEPT ![s] = Listened(s, speaking)]
            /\ UNCHANGED heard
        BY <1>6, ZenonT(30) DEF Voice, Takes
    <2>2. response_queue'[s] = q \/ response_queue'[s] = Append(q, Response("CLEAR", n))
        BY <2>1 DEF StreamType, Cleared, Clear
    <2>3. /\ reader'[s] = IF RunsPipeline(s, speaking) THEN "turn" ELSE "recv"
          /\ voice'[s].turns = n + (IF RunsPipeline(s, speaking) THEN 1 ELSE 0)
        BY <2>1, ZenonT(30) DEF Reader, StreamType, Listened
    <2>4. Began(s) = n /\ Returned(s) = n /\ Began(s)' = n /\ Returned(s)' = n
        <3>1. n - 0 = n /\ (n + 0) - 0 = n /\ (n + 1) - 1 = n BY <1>0
        <3>2. Began(s) = n /\ Returned(s) = n BY <2>1, <3>1, ZenonT(30) DEF Began, Returned
        <3>3. CASE RunsPipeline(s, speaking)
            <4>1. reader'[s] = "turn" /\ voice'[s].turns = n + 1 BY <2>3, <3>3, Zenon
            <4>2. Began(s)' = n /\ Returned(s)' = n BY <3>1, <4>1, ZenonT(30) DEF Began, Returned
            <4> QED BY <3>2, <4>2, Zenon
        <3>4. CASE ~RunsPipeline(s, speaking)
            <4>1. reader'[s] = "recv" /\ voice'[s].turns = n + 0 BY <2>3, <3>4, Zenon
            <4>2. Began(s)' = n /\ Returned(s)' = n BY <3>1, <4>1, ZenonT(30) DEF Began, Returned
            <4> QED BY <3>2, <4>2, Zenon
        <3> QED BY <3>3, <3>4, Zenon
    <2> HIDE DEF q, h, n
    <2>5. Steady(q, h, n) /\ Settled(q, h, n) BY <2>4 DEF TalkAt, q, h
    <2>6. /\ Steady(Append(q, Response("CLEAR", n)), h, n)
          /\ Settled(Append(q, Response("CLEAR", n)), h, n)
        BY <1>0, <2>5, ClearSteady, ClearAnswered
    <2>7. heard'[s] = h BY <2>1, ZenonT(30) DEF h
    <2> QED BY <2>2, <2>4, <2>5, <2>6, <2>7, Zenon DEF TalkAt
<1>7. CASE TurnReturns(s)
    <2>1. PICK events \in Outcomes(orchestrator[s]) :
            /\ emit(s, events, n)
            /\ heard' = IF ~HandedOver(events) THEN heard
                        ELSE [heard EXCEPT ![s].handed = @ \cup {n}]
        BY <1>7, ZenonT(30) DEF TurnReturns
    <2> DEFINE r == _outbound_to_responses(events, n)
               g == [h EXCEPT !.handed = @ \cup {n}]
    <2>2. /\ r \in Seq(Responses) /\ Len(r) \in Nat
          /\ \A i \in 1..Len(r) : r[i].turn = n /\ r[i].type # "CLEAR"
          /\ HandedOver(events) \/ (Len(r) > 0 /\ Ends(r[Len(r)]))
        BY <1>0, OutcomeResponses DEF Ends
    <2>3. response_queue'[s] = q \o r BY <2>1, <2>2, PutType, ZenonT(30) DEF emit
    <2>4. reader[s] = "turn" /\ reader'[s] = "recv" /\ UNCHANGED voice
        BY <1>7, ZenonT(30) DEF TurnReturns, Reader, StreamType
    <2>5. Began(s) = n - 1 /\ Returned(s) = n - 1 /\ Began(s)' = n /\ Returned(s)' = n
        BY <1>0, <2>4 DEF Began, Returned
    <2>6. heard'[s] = IF ~HandedOver(events) THEN h ELSE g BY <2>1 DEF StreamType
    <2>7. q \o r \in Seq(Responses) BY <1>0, <2>2, QueueJoined
    <2>8. n - 1 \in Int /\ (n - 1) + 1 = n /\ n - 1 <= n /\ n \in Int /\ n - 1 <= n - 1
        BY <1>0
    <2> HIDE DEF q, h, n, r
    <2>9. Steady(q, h, n - 1) /\ Settled(q, h, n - 1) BY <2>5 DEF TalkAt, q, h
    <2>10. \A i \in 1..Len(r) : r[i].type = "TTS_AUDIO" => n - 1 < r[i].turn BY <1>0, <2>2
    <2>11. Steady(q \o r, h, n - 1) BY <1>0, <2>2, <2>8, <2>9, <2>10, PutSteady, ZenonT(30)
    <2>12. Settled(q \o r, h, n - 1) BY <1>0, <2>2, <2>8, <2>9, PutAnswered, ZenonT(30)
    <2>13. Steady(q \o r, h, n) BY <1>0, <2>7, <2>8, <2>11, <2>12, Widened, ZenonT(30)
    <2>14. CASE ~HandedOver(events)
        <3>1. Len(r) > 0 /\ Ends(r[Len(r)]) /\ r[Len(r)].turn = (n - 1) + 1
            <4>1. Len(r) \in 1..Len(r) BY <2>2, <2>14
            <4> QED BY <2>2, <2>8, <2>14, <4>1
        <3>2. Settled(q \o r, h, (n - 1) + 1)
            BY <1>0, <2>2, <2>8, <2>9, <3>1, PutAnswered, ZenonT(30)
        <3>3. Settled(q \o r, h, n) BY <2>8, <3>2
        <3> QED BY <2>3, <2>5, <2>6, <2>13, <2>14, <3>3 DEF TalkAt
    <2>15. CASE HandedOver(events)
        <3> HIDE DEF g
        <3>1. g = [h EXCEPT !.handed = @ \cup {(n - 1) + 1}] BY <2>8, ZenonT(30) DEF g
        <3>2. Steady(q \o r, g, n) /\ Settled(q \o r, g, (n - 1) + 1)
            BY <1>0, <2>7, <2>8, <2>12, <2>13, <3>1, HandedTalk, ZenonT(30)
        <3>3. Settled(q \o r, g, n) BY <2>8, <3>2
        <3> QED BY <2>3, <2>5, <2>6, <2>15, <3>2, <3>3 DEF TalkAt
    <2> QED BY <2>14, <2>15
<1>8. CASE Cancelled(s) BY <1>8, SameTalk DEF Cancelled
<1> QED BY <1>1, <1>2, <1>3, <1>4, <1>5, <1>6, <1>7, <1>8 DEF ReaderStep, ClientStep

\* The steps of the writer, and the first one of the handler.
LEMMA WriterTalk ==
    ASSUME StreamType, NEW s \in Streams, TalkAt(s), WriterStep(s) \/ StreamSession(s)
    PROVE  TalkAt(s)'
<1> DEFINE q == response_queue[s]  h == heard[s]
<1>0. q \in Seq(Responses) /\ h \in Ear /\ voice[s].turns \in Nat BY ZenonT(30) DEF StreamType, Mic
<1>1. CASE Yield(s)
    <2>1. /\ q # <<>> /\ response_queue'[s] = Tail(q) /\ UNCHANGED <<reader, voice>>
          /\ \/ Head(q).type = "none" /\ heard'[s] = h
             \/ heard'[s] = HeardAfter(h, Head(q))
        BY <1>1, Zenon DEF Yield, StreamType
    <2>2. Head(q) \in Responses BY <1>0, <2>1, QueueTaken, Zenon
    <2>3. heard'[s] = HeardAfter(h, Head(q)) BY <1>0, <2>1, <2>2, HeardType, ZenonT(30)
    <2>4. Began(s) \in Int /\ Returned(s) \in Int BY <1>0 DEF Began, Returned
    <2>5. Began(s)' = Began(s) /\ Returned(s)' = Returned(s) BY <2>1, Zenon DEF Began, Returned
    <2>6. Steady(q, h, Began(s)) /\ Settled(q, h, Returned(s)) BY Zenon DEF TalkAt
    <2> HIDE DEF q, h
    <2>7. /\ Steady(Tail(q), HeardAfter(h, Head(q)), Began(s))
          /\ Settled(Tail(q), HeardAfter(h, Head(q)), Returned(s))
        BY <1>0, <2>1, <2>4, <2>6, YieldTalk, Zenon
    <2> QED BY <2>1, <2>3, <2>5, <2>7 DEF TalkAt
<1>2. CASE Join(s)
    <2>1. /\ response_queue'[s] = <<>> /\ voice'[s] = Silent /\ heard'[s] = Deaf
          /\ reader'[s] = "done"
        BY <1>2 DEF Join, Reader, StreamType
    <2>2. Began(s)' = 0 /\ Returned(s)' = -1 BY <2>1 DEF Began, Returned, Silent
    <2>3. Steady(<<>>, Deaf, 0) BY DEF Steady, Deaf
    <2>4. Settled(<<>>, Deaf, -1) BY DEF Settled
    <2> QED BY <2>1, <2>2, <2>3, <2>4, ZenonT(30) DEF TalkAt
<1>3. CASE release_session_lease(s) \/ end_session(s)
    BY <1>3, SameTalk, ZenonT(30) DEF release_session_lease, end_session
<1>4. CASE StreamSession(s)
    <2>1. /\ reader[s] = "none" /\ reader'[s] = "recv"
          /\ UNCHANGED <<response_queue, heard, voice>>
        BY <1>4 DEF StreamSession, Reader, StreamType
    <2> QED BY <2>1, SameTalk
<1> QED BY <1>1, <1>2, <1>3, <1>4 DEF WriterStep

-------------------------------------------------------------------------------
(* All streams together.                                                    *)

StreamsInv ==
    StreamType /\ LeaseInv /\ \A s \in Streams : OrderlyAt(s) /\ TalkAt(s)

\* No call, nothing queued.
LEMMA NoStreamsYet == StreamInit => StreamsInv
<1> SUFFICES ASSUME StreamInit PROVE StreamsInv BY ZenonT(30)
<1>1. Silent \in Mic /\ Deaf \in Ear BY DEF Silent, Deaf, Mic, Ear
<1>2. <<>> \in Seq(Responses) /\ odd \in Seq({"early", "expired", "raise", "cancel"})
    BY DEF StreamInit
<1>3. StreamType BY <1>1, <1>2, ZenonT(30) DEF StreamInit, StreamType
<1>4. ASSUME NEW s \in Streams PROVE OrderlyAt(s) /\ TalkAt(s)
    <2>1. /\ response_queue[s] = <<>> /\ voice[s] = Silent /\ heard[s] = Deaf
          /\ reader[s] = "none" /\ writer[s] = "none" /\ session_id[s] = FALSE
          /\ orchestrator[s] = "none"
        BY DEF StreamInit
    <2>2. OrderlyAt(s) BY <2>1, ZenonT(30) DEF OrderlyAt, Orderly
    <2>3. Began(s) = 0 /\ Returned(s) = 0 BY <2>1 DEF Began, Returned, Silent
    <2>4. Steady(<<>>, Deaf, 0) BY DEF Steady, Deaf
    <2>5. Settled(<<>>, Deaf, 0) BY DEF Settled
    <2> QED BY <2>1, <2>2, <2>3, <2>4, <2>5 DEF TalkAt
<1>5. LeaseInv BY ZenonT(30) DEF StreamInit, LeaseInv, Held
<1> QED BY <1>3, <1>4, <1>5 DEF StreamsInv

\* A step of one stream, once it was accepted.
LEMMA OneStreamSteps ==
    ASSUME StreamsInv, NEW s \in Streams, ReaderStep(s) \/ ClientStep(s) \/ WriterStep(s)
    PROVE  /\ StreamsInv' /\ redis' = redis
           /\ \A t \in Streams : Running(t)' => Running(t)
           /\ \A t \in Streams : reader[t] = "none" => reader'[t] = "none"
<1>0. StreamType /\ LeaseInv /\ OrderlyAt(s) /\ TalkAt(s) BY DEF StreamsInv
<1>1. StreamType' /\ Elsewhere(s) BY <1>0, ReaderSide, WriterSide
<1>2. OrderlyAt(s)' /\ LeaseMoves(s) BY <1>0, ReaderMoves, WriterMoves
<1>3. TalkAt(s)' BY <1>0, ReaderTalk, WriterTalk
<1>4. ASSUME NEW t \in Streams PROVE OrderlyAt(t)' /\ TalkAt(t)'
    <2>1. CASE t # s
        <3>1. OrderlyAt(t) /\ TalkAt(t) BY DEF StreamsInv
        <3>2. OrderlyAt(t)' BY <1>1, <2>1, <3>1, ZenonT(30) DEF Elsewhere, OrderlyAt, Orderly
        <3>3. TalkAt(t)' BY <1>1, <2>1, <3>1, SameTalk DEF Elsewhere
        <3> QED BY <3>2, <3>3
    <2> QED BY <1>2, <1>3, <2>1
<1>5. LeaseInv'
    <2> SUFFICES ASSUME Never("expired")', Never("early")', NEW t \in Streams, Held(t)'
                 PROVE  lease' = t
        BY ZenonT(30) DEF LeaseInv
    <2>1. PICK kind : odd' = odd \/ odd' = Append(odd, kind) BY <1>2 DEF LeaseMoves
    <2>2. /\ Never("expired") /\ Never("early")
          /\ odd' # Append(odd, "early")
        BY <1>0, <2>1, NeverBefore, ZenonT(30)
    <2>3. \A u \in Streams : Held(u) => lease = u BY <1>0, <2>2, ZenonT(30) DEF LeaseInv
    <2>4. CASE t = s BY <1>2, <2>2, <2>3, <2>4 DEF LeaseMoves
    <2>5. CASE t # s
        <3>1. Held(t) BY <1>1, <1>2, <2>5, Zenon DEF Elsewhere, Held, LeaseMoves
        <3>2. lease = t BY <2>3, <3>1
        <3>3. t # NoStream BY StreamAssumption
        <3> QED BY <1>2, <2>3, <2>5, <3>2, <3>3, ZenonT(30) DEF LeaseMoves
    <2> QED BY <2>4, <2>5
<1>6. ASSUME NEW t \in Streams
      PROVE  (Running(t)' => Running(t)) /\ (reader[t] = "none" => reader'[t] = "none")
    <2>1. CASE t # s BY <1>1, <2>1, ZenonT(30) DEF Elsewhere, Running
    <2>2. CASE t = s BY <1>2, <2>2, ZenonT(30) DEF LeaseMoves, Running
    <2> QED BY <2>1, <2>2
<1>7. redis' = redis BY <1>2 DEF LeaseMoves
<1> QED BY <1>1, <1>4, <1>5, <1>6, <1>7 DEF StreamsInv

\* A step that leaves every stream as it is, but may cancel its writer.
LEMMA StreamsStay ==
    ASSUME StreamsInv, StreamType',
           UNCHANGED <<reader, session_id, orchestrator, voice, response_queue, heard>>,
           \A s \in Streams : writer'[s] \in {writer[s], AfterCancel(writer[s])}
    PROVE  /\ \A s \in Streams : OrderlyAt(s)' /\ TalkAt(s)'
           /\ \A s \in Streams : Running(s)' => Running(s)
<1> SUFFICES ASSUME NEW s \in Streams
             PROVE  OrderlyAt(s)' /\ TalkAt(s)' /\ (Running(s)' => Running(s))
    OBVIOUS
<1>0. OrderlyAt(s) /\ TalkAt(s) /\ StreamType BY DEF StreamsInv
<1>1. writer[s] \in {"none", "get", "join", "release", "end", "done"} BY <1>0 DEF StreamType
<1>2. \/ writer'[s] = writer[s]
      \/ writer[s] = "get" /\ writer'[s] = "join"
      \/ writer[s] \in {"release", "end"} /\ writer'[s] = "done"
    BY <1>1, ZenonT(30) DEF AfterCancel
<1>3. OrderlyAt(s)' BY <1>0, <1>1, <1>2, ZenonT(30) DEF OrderlyAt, Orderly
<1>4. TalkAt(s)' BY <1>0, SameTalk
<1>5. Running(s)' => Running(s) BY <1>2 DEF Running
<1> QED BY <1>3, <1>4, <1>5

\* The key expires: a stream that still needs it is recorded.
LEMMA LeaseExpiry ==
    ASSUME StreamsInv, LeaseExpires
    PROVE  StreamsInv'
<1>0. StreamType /\ LeaseInv BY DEF StreamsInv
<1>1. /\ UNCHANGED <<reader, writer, session_id, orchestrator, voice, response_queue,
                     heard, redis, chunks>>
      /\ lease # NoStream /\ lease' = NoStream
      /\ (writer[lease] = "done" /\ odd' = odd) \/ odd' = Append(odd, "expired")
    BY DEF LeaseExpires, Oddly
<1>2. odd' \in Seq({"early", "expired", "raise", "cancel"}) BY <1>0, <1>1, OddType, ZenonT(30)
<1>3. StreamType' BY <1>0, <1>1, <1>2 DEF StreamType
<1>4. \A s \in Streams : OrderlyAt(s)' /\ TalkAt(s)' BY <1>1, <1>3, StreamsStay
<1>5. LeaseInv'
    <2> SUFFICES ASSUME Never("expired")', Never("early")', NEW t \in Streams, Held(t)'
                 PROVE  FALSE
        BY DEF LeaseInv
    <2>1. /\ Never("expired") /\ Never("early") /\ odd' # Append(odd, "expired")
        BY <1>0, <1>1, NeverBefore, ZenonT(30)
    <2>2. Held(t) BY <1>1 DEF Held
    <2>3. lease = t BY <1>0, <2>1, <2>2 DEF LeaseInv
    <2>4. writer[t] = "done" BY <1>1, <2>1, <2>3, Zenon
    <2> QED BY <2>2, <2>4 DEF Held
<1> QED BY <1>3, <1>4, <1>5 DEF StreamsInv

\* The gRPC calls that are there keep the invariant, open no store, and no stream
\* begins or goes on after its end.
LEMMA StreamsStep ==
    ASSUME StreamsInv, StreamNext
    PROVE  /\ StreamsInv' /\ redis' = redis
           /\ \A t \in Streams : Running(t)' => Running(t)
           /\ \A t \in Streams : reader[t] = "none" => reader'[t] = "none"
<1>1. CASE LeaseExpires
    <2>1. StreamsInv' BY <1>1, LeaseExpiry
    <2>2. UNCHANGED <<reader, writer, redis>> BY <1>1, ZenonT(30) DEF LeaseExpires
    <2> QED BY <2>1, <2>2 DEF Running
<1> QED BY <1>1, OneStreamSteps, ZenonT(30) DEF StreamNext

\* A call that the gRPC server accepts.
LEMMA StreamAccepted ==
    ASSUME StreamsInv, NEW s \in Streams, StreamSession(s)
    PROVE  StreamsInv' /\ redis' = redis
<1>0. StreamType /\ LeaseInv /\ OrderlyAt(s) /\ TalkAt(s) BY DEF StreamsInv
<1>1. StreamType' /\ Elsewhere(s) BY <1>0, WriterSide
<1>2. /\ reader[s] = "none" /\ reader'[s] = "recv" /\ writer'[s] = "get"
      /\ UNCHANGED <<session_id, orchestrator, lease, redis, odd>>
    BY <1>0, ZenonT(30) DEF StreamSession, Reader, Writer, StreamType
<1>3. ~session_id[s] /\ writer[s] = "none" /\ orchestrator[s] = "none"
    BY <1>0, <1>2 DEF OrderlyAt, Orderly
<1>4. ASSUME NEW t \in Streams PROVE OrderlyAt(t)' /\ TalkAt(t)' /\ (Held(t)' => Held(t))
    <2>1. CASE t # s
        <3>1. OrderlyAt(t) /\ TalkAt(t) BY Zenon DEF StreamsInv
        <3>2. OrderlyAt(t)' BY <1>1, <2>1, <3>1, Zenon DEF Elsewhere, OrderlyAt, Orderly
        <3>3. TalkAt(t)' BY <1>1, <2>1, <3>1, SameTalk, ZenonT(30) DEF Elsewhere
        <3>4. Held(t)' => Held(t) BY <1>1, <1>2, <2>1 DEF Elsewhere, Held
        <3> QED BY <3>2, <3>3, <3>4
    <2>2. CASE t = s
        <3>1. OrderlyAt(s)' BY <1>2, <1>3 DEF OrderlyAt, Orderly
        <3>2. TalkAt(s)' BY <1>0, WriterTalk, Zenon
        <3>3. ~Held(s)' BY <1>2, <1>3, ZenonT(30) DEF Held
        <3> QED BY <2>2, <3>1, <3>2, <3>3, ZenonT(30)
    <2> QED BY <2>1, <2>2
<1>5. LeaseInv' BY <1>0, <1>2, <1>4 DEF LeaseInv, Never
<1> QED BY <1>1, <1>2, <1>4, <1>5 DEF StreamsInv

\* What the pod does to its calls: it opens the pool of Redis when there are none,
\* closes it, and cancels the writers at the end of the grace period.
LEMMA PodTouches ==
    ASSUME StreamsInv,
           UNCHANGED <<reader, session_id, orchestrator, voice, response_queue, heard,
                       lease, chunks, odd>>,
           writer' = writer \/ writer' = [s \in Streams |-> AfterCancel(writer[s])],
           redis' \in BOOLEAN,
           redis' => redis \/ \A s \in Streams : reader[s] = "none"
    PROVE  StreamsInv' /\ \A s \in Streams : Running(s)' => Running(s)
<1>0. StreamType /\ LeaseInv BY DEF StreamsInv
<1>1. \A s \in Streams : writer[s] \in {"none", "get", "join", "release", "end", "done"}
    BY <1>0 DEF StreamType
<1>2. \A s \in Streams : writer'[s] \in {writer[s], AfterCancel(writer[s])} OBVIOUS
<1>3. writer' \in [Streams -> {"none", "get", "join", "release", "end", "done"}]
    <2>1. CASE writer' = writer BY <1>0, <2>1 DEF StreamType
    <2>2. CASE writer' = [s \in Streams |-> AfterCancel(writer[s])]
        <3>1. \A s \in Streams :
                 AfterCancel(writer[s]) \in {"none", "get", "join", "release", "end", "done"}
            BY <1>1, ZenonT(30) DEF AfterCancel
        <3> QED BY <2>2, <3>1
    <2> QED BY <2>1, <2>2
<1>4. StreamType' BY <1>0, <1>3 DEF StreamType
<1>5. /\ \A s \in Streams : OrderlyAt(s)' /\ TalkAt(s)'
      /\ \A s \in Streams : Running(s)' => Running(s)
    BY <1>2, <1>4, StreamsStay, Zenon
<1>6. ASSUME NEW s \in Streams, Held(s)' PROVE Held(s)
    <2>1. session_id[s] /\ reader[s] # "none" BY <1>6 DEF Held
    <2>2. redis' => redis BY <2>1
    <2>3. writer[s] \in {"get", "join", "release"}
        BY <1>1, <1>2, <1>6 DEF Held, AfterCancel
    <2> QED BY <1>6, <2>2, <2>3, ZenonT(30) DEF Held
<1>7. LeaseInv' BY <1>0, <1>6, ZenonT(30) DEF LeaseInv, Never
<1> QED BY <1>4, <1>5, <1>7 DEF StreamsInv

\* A step that concerns no stream.
LEMMA StreamsUntouched ==
    ASSUME StreamsInv, UNCHANGED streamVars
    PROVE  StreamsInv' /\ \A s \in Streams : Running(s)' => Running(s)
<1>1. redis \in BOOLEAN BY DEF StreamsInv, StreamType
<1> QED BY <1>1, PodTouches DEF streamVars

\* The invariant has the lease in the hands of the stream that serves,
LEMMA LeaseFollows == StreamsInv => LeaseKept
<1> SUFFICES ASSUME StreamsInv, Never("expired"), Never("early"), NEW s \in Streams,
                    orchestrator[s] # "none", writer[s] \in {"get", "join", "release"}
             PROVE  lease = s
    BY DEF LeaseKept
<1>1. Held(s) BY ZenonT(30) DEF StreamsInv, OrderlyAt, Orderly, Held
<1> QED BY <1>1 DEF StreamsInv, LeaseInv

\* no audio queued of a turn before a CLEAR,
LEMMA FreshFollows == StreamsInv => FreshAudio
<1> SUFFICES ASSUME StreamsInv, NEW s \in Streams, NEW i \in DOMAIN response_queue[s],
                    response_queue[s][i].type = "TTS_AUDIO"
             PROVE  /\ heard[s].cleared < response_queue[s][i].turn
                    /\ \A j \in 1 .. i - 1 : response_queue[s][j].type = "CLEAR" =>
                          response_queue[s][j].turn < response_queue[s][i].turn
    BY Zenon DEF FreshAudio
<1>1. response_queue[s] \in Seq(Responses) BY Zenon DEF StreamsInv, StreamType
<1>2. i \in 1..Len(response_queue[s]) BY <1>1, QueueTyped, Zenon
<1> QED BY <1>2, Zenon DEF StreamsInv, TalkAt, Steady

\* and an END_OF_TURN, sent or queued, of every turn that returned and was not
\* handed over.
LEMMA AnswersFollow == StreamsInv => TurnsAnswered
<1> SUFFICES ASSUME StreamsInv, NEW s \in Streams,
                    NEW n \in (1..voice[s].turns) \ heard[s].handed,
                    ~(n = voice[s].turns /\ reader[s] \in {"turn", "done"}),
                    n \notin heard[s].ended
             PROVE  \E i \in DOMAIN response_queue[s] :
                        response_queue[s][i] = Response("END_OF_TURN", n)
    BY ZenonT(30) DEF TurnsAnswered
<1>0. voice[s].turns \in Nat BY DEF StreamsInv, StreamType, Mic
<1>1. response_queue[s] \in Seq(Responses) BY ZenonT(30) DEF StreamsInv, StreamType
<1>2. n \in 1..Returned(s) BY <1>0 DEF Returned
<1>3. n \notin Told(heard[s]) BY DEF Told
<1>4. PICK i \in 1..Len(response_queue[s]) :
        Ends(response_queue[s][i]) /\ response_queue[s][i].turn = n
    BY <1>2, <1>3, ZenonT(30) DEF StreamsInv, TalkAt, Settled
<1>5. i \in DOMAIN response_queue[s] /\ response_queue[s][i] \in Responses
    BY <1>1, QueueTyped
<1>6. response_queue[s][i] = Response("END_OF_TURN", n)
    BY <1>4, <1>5 DEF Ends, Response, Responses
<1> QED BY <1>5, <1>6, ZenonT(30)

===============================================================================
