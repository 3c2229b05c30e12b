-------------------------- MODULE SessionLeaseProofs --------------------------
(***************************************************************************)
(* Theorems of SessionLease: turns have indices of their own, the Redis     *)
(* copy of the conversation is in order, and lease and repository together  *)
(* implement the single-writer log of SessionLog.                           *)
(***************************************************************************)
EXTENDS SessionLease, WellFoundedInduction, TLAPS

\* The provers a step is given to in turn unless it names one, with their time limits.
USE SMTT(30), ZenonT(30)

Labels == {"idle", "restore", "restore_mongo", "restore_history", "warm", "create",
           "create_hot", "serve", "save_history", "save_get", "save_set", "end_mongo",
           "end_hot", "release", "release_failed", "done", "failed"}

Turns == [conn : Conns \cup {NoConn}, index : Nat]

TypeOK ==
    /\ transport \in {"ws", "grpc"}
    /\ pc \in [Conns -> Labels] /\ read \in [Conns -> [hot : Seq(Turns), index : Nat]]
    /\ lease \in Conns \cup {NoConn} /\ status \in {"NONE", "LIVE", "ENDED"}
    /\ count \in Nat /\ history \in Seq(Turns) /\ hot \in Seq(Turns)
    /\ rest \in {"none", "delete", "done"} /\ faults \in Nat
    /\ broken \subseteq {"lease", "torn", "rest"}

-------------------------------------------------------------------------------
(* The operators on histories.                                              *)

\* A list with one more turn or connection (push of the turn, $push of Mongo).
LEMMA OneMore ==
    ASSUME NEW S, NEW s \in Seq(S), NEW x \in S
    PROVE  /\ Append(s, x) \in Seq(S) /\ Len(Append(s, x)) = Len(s) + 1
           /\ DOMAIN Append(s, x) = 1..Len(s) + 1
           /\ \A i \in 1..Len(s) : Append(s, x)[i] = s[i]
           /\ Append(s, x)[Len(s) + 1] = x
<1> QED OBVIOUS

\* Lists of one length with the same entries are the same.
LEMMA SameEntries ==
    ASSUME NEW S, NEW s \in Seq(S), NEW u \in Seq(S), NEW n \in Nat, Len(s) = n, Len(u) = n,
           \A i \in 1..n : s[i] = u[i]
    PROVE  s = u
<1> QED OBVIOUS

\* What is at most a number that is at most another.
LEMMA AtMost == \A i, j, n \in Nat : i <= j /\ j <= n => i <= n
OBVIOUS

\* What is not at least a number is at most that.
LEMMA NotAtLeast == \A i, n \in Nat : ~(n <= i) => i <= n
OBVIOUS

\* Counters stay numbers.
LEMMA CountUp == \A n \in Nat : n + 1 \in Nat
OBVIOUS

\* The turns are in the order of their index, and all before the nth.
Rising(s, n) ==
    /\ \A i \in 1..Len(s) : s[i].index < n
    /\ \A i, j \in 1..Len(s) : i < j => s[i].index < s[j].index

Sortable(s) == \E p \in [1..Len(s) -> 1..Len(s)] : InOrder(s, p)

Distinct(s) == \A i, j \in 1..Len(s) : s[i].index = s[j].index => i = j

\* The turns of a history have indices.
LEMMA IndexTyped ==
    ASSUME NEW s \in Seq(Turns)
    PROVE  /\ Len(s) \in Nat /\ DOMAIN s = 1..Len(s)
           /\ \A i \in 1..Len(s) : s[i] \in Turns /\ s[i].index \in Nat
<1>1. Len(s) \in Nat /\ DOMAIN s = 1..Len(s) OBVIOUS
<1>2. \A i \in 1..Len(s) : s[i] \in Turns OBVIOUS
<1>3. \A t \in Turns : t.index \in Nat BY DEF Turns
<1> QED BY <1>1, <1>2, <1>3

\* What is left of a list after it was cut to REDIS_HISTORY_TURNS.
LEMMA LastTurnsRising ==
    ASSUME NEW s \in Seq(Turns)
    PROVE  /\ LastTurns(s) \in Seq(Turns)
           /\ \A n \in Nat : Rising(s, n) => Rising(LastTurns(s), n)
<1> DEFINE l == Len(s)
           m == IF l > REDIS_HISTORY_TURNS THEN l - REDIS_HISTORY_TURNS + 1 ELSE 1
           u == SubSeq(s, m, l)
<1>0. l \in Nat /\ \A i \in 1..l : s[i] \in Turns /\ s[i].index \in Nat BY IndexTyped
<1>1. m \in Nat \ {0} /\ m <= l + 1 BY <1>0, ConfigAssumption
<1>2. LastTurns(s) = u BY DEF LastTurns
<1> HIDE DEF l, m
<1>3. m \in Int /\ l \in Int /\ \A i \in m..l : i \in 1..l BY <1>0, <1>1
<1>4. \A i \in m..l : s[i] \in Turns BY <1>0, <1>3
<1>5. /\ u \in Seq(Turns) /\ Len(u) = (IF m <= l THEN l - m + 1 ELSE 0)
      /\ \A i \in 1..l - m + 1 : u[i] = s[m + i - 1]
    BY <1>3, <1>4
<1> HIDE DEF u
<1>6. \A i \in 1..Len(u) : u[i] = s[m + i - 1] /\ m + i - 1 \in 1..l BY <1>0, <1>1, <1>5
<1>7. ASSUME NEW n \in Nat, Rising(s, n) PROVE Rising(u, n)
    <2>1. \A i \in 1..Len(u) : u[i].index < n BY <1>6, <1>7, Zenon DEF Rising, l
    <2>2. ASSUME NEW i \in 1..Len(u), NEW j \in 1..Len(u), i < j PROVE u[i].index < u[j].index
        <3>1. m + i - 1 < m + j - 1 BY <1>1, <1>5, <2>2, <1>0
        <3>2. s[m + i - 1].index < s[m + j - 1].index BY <1>6, <1>7, <3>1 DEF Rising, l
        <3> QED BY <1>6, <3>2, Zenon
    <2> QED BY <2>1, <2>2 DEF Rising
<1> QED BY <1>2, <1>5, <1>7

\* The query returns all turns, in order, when their indices are distinct.
LEMMA ByTurnIndexRising ==
    ASSUME NEW s \in Seq(Turns), NEW n \in Nat, Sortable(s), Distinct(s),
           \A i \in 1..Len(s) : s[i].index < n
    PROVE  ByTurnIndex(s) \in Seq(Turns) /\ Rising(ByTurnIndex(s), n)
<1> DEFINE l == Len(s)
           p == CHOOSE q \in [DOMAIN s -> DOMAIN s] : InOrder(s, q)
           u == ByTurnIndex(s)
<1>0. l \in Nat /\ DOMAIN s = 1..l /\ \A i \in 1..l : s[i] \in Turns /\ s[i].index \in Nat
    BY IndexTyped
<1>1. p \in [1..l -> 1..l] /\ InOrder(s, p) BY <1>0 DEF Sortable
<1>2. u = [i \in 1..l |-> s[p[i]]] BY <1>0 DEF ByTurnIndex
<1> HIDE DEF p, u
<1>3. \A i \in 1..l : p[i] \in 1..l BY <1>1, Zenon
<1>4. u \in Seq(Turns) /\ Len(u) = l BY <1>0, <1>2, <1>3
<1>5. \A i \in 1..l : u[i] = s[p[i]] BY <1>2
<1>6. \A i \in 1..Len(u) : u[i].index < n BY <1>3, <1>4, <1>5
<1>7. ASSUME NEW i \in 1..l, NEW j \in 1..l, i < j PROVE u[i].index < u[j].index
    <2>1. p[i] # p[j] /\ s[p[i]].index <= s[p[j]].index BY <1>0, <1>1, <1>7, Zenon DEF InOrder
    <2>2. s[p[i]].index # s[p[j]].index BY <1>3, <2>1 DEF Distinct
    <2>3. s[p[i]].index \in Nat /\ s[p[j]].index \in Nat BY <1>0, <1>3
    <2>4. s[p[i]].index < s[p[j]].index BY <2>1, <2>2, <2>3
    <2> QED BY <1>5, <2>4
<1> QED BY <1>4, <1>6, <1>7 DEF Rising, u

\* A history that can be sorted can be sorted with one more turn, which is put
\* before the first that is not earlier.
LEMMA AppendSortable ==
    ASSUME NEW s \in Seq(Turns), NEW t \in Turns, Sortable(s)
    PROVE  Sortable(Append(s, t))
<1> DEFINE l == Len(s)  a == Append(s, t)  x == t.index
<1>0. l \in Nat /\ DOMAIN s = 1..l /\ \A i \in 1..l : s[i].index \in Nat BY IndexTyped
<1>1. /\ a \in Seq(Turns) /\ Len(a) = l + 1 /\ DOMAIN a = 1..l + 1
      /\ \A i \in 1..l : a[i] = s[i]
      /\ a[l + 1] = t
    BY OneMore
<1>2. x \in Nat BY DEF Turns
<1>3. PICK p \in [1..l -> 1..l] : InOrder(s, p) BY DEF Sortable
<1> DEFINE K == {k \in 1..l + 1 : k = l + 1 \/ x <= s[p[k]].index}
<1>4. PICK k \in K : \A i \in K : ~(i < k)
    <2>1. K \subseteq Nat /\ l + 1 \in K BY <1>0
    <2>2. IsWellFoundedOn(OpToRel(<, Nat), Nat) BY NatLessThanWellFounded, Zenon
    <2>3. PICK y \in K : \A z \in K : ~(<<z, y>> \in OpToRel(<, Nat))
        <3> HIDE DEF K
        <3> QED BY <2>1, <2>2, WFMin, Zenon
    <2>4. \A z \in K : ~(z < y)
        <3>1. \A z \in K : z \in Nat /\ y \in Nat BY <2>1
        <3> QED BY <2>3, <3>1, Zenon DEF OpToRel
    <2> QED BY <2>4
<1>5. k \in 1..l + 1 /\ (k = l + 1 \/ x <= s[p[k]].index) OBVIOUS
<1>6. \A i \in 1..l : p[i] \in 1..l /\ s[p[i]].index \in Nat BY <1>0
<1> HIDE DEF K, a, x
<1>7. \A i \in 1..l : i < k => s[p[i]].index <= x
    <2>1. \A i \in 1..l : i < k => i \in 1..l + 1 /\ i # l + 1 BY <1>0, <1>5
    <2>2. \A i \in 1..l : i < k => ~(x <= s[p[i]].index) BY <1>4, <2>1 DEF K
    <2>3. ASSUME NEW i \in 1..l, i < k PROVE s[p[i]].index <= x
        <3>1. s[p[i]].index \in Nat /\ ~(x <= s[p[i]].index) BY <1>6, <2>2, <2>3, Zenon
        <3> QED BY <1>2, <3>1, NotAtLeast, Zenon
    <2> QED BY <2>3, Zenon
<1>8. \A i \in 1..l : k <= i => x <= s[p[i]].index
    <2> TAKE i \in 1..l
    <2> HAVE k <= i
    <2>1. k \in 1..l /\ k # l + 1 BY <1>0, <1>5
    <2>2. CASE k = i BY <1>5, <2>1, <2>2
    <2>3. CASE k # i
        <3>1. k < i BY <2>1, <2>3
        <3>2. i \in DOMAIN s /\ k \in DOMAIN s BY <1>0, <2>1, Zenon
        <3>3. s[p[k]].index <= s[p[i]].index BY <1>3, <3>1, <3>2, Zenon DEF InOrder
        <3>4. x <= s[p[k]].index BY <1>5, <2>1, Zenon
        <3>5. s[p[k]].index \in Nat /\ s[p[i]].index \in Nat BY <1>6, <2>1, Zenon
        <3> QED BY <1>2, <3>3, <3>4, <3>5, AtMost, Zenon
    <2> QED BY <2>2, <2>3, Zenon
<1> DEFINE q == [i \in 1..l + 1 |-> IF i < k THEN p[i] ELSE IF i = k THEN l + 1 ELSE p[i - 1]]
<1>9. \A i \in 1..l + 1 : /\ i < k => i \in 1..l
                          /\ k < i => i - 1 \in 1..l /\ k <= i - 1
    BY <1>0, <1>5
<1>10. \A i \in 1..l + 1 : /\ i < k => q[i] = p[i] /\ a[q[i]] = s[p[i]] /\ q[i] \in 1..l
                           /\ i = k => q[i] = l + 1 /\ a[q[i]] = t
                           /\ k < i => /\ q[i] = p[i - 1] /\ a[q[i]] = s[p[i - 1]]
                                       /\ q[i] \in 1..l
    <2> TAKE i \in 1..l + 1
    <2>1. CASE i < k
        <3>1. i \in 1..l /\ p[i] \in 1..l BY <1>6, <1>9, <2>1
        <3>2. q[i] = p[i] BY <2>1
        <3>3. i # k /\ ~(k < i) BY <1>0, <1>5, <2>1
        <3> HIDE DEF q
        <3> QED BY <1>1, <3>1, <3>2, <3>3
    <2>2. CASE i = k BY <1>0, <1>1, <2>2
    <2>3. CASE k < i
        <3>1. i - 1 \in 1..l /\ ~(i < k) /\ i # k BY <1>0, <1>5, <1>9, <2>3
        <3> QED BY <1>1, <1>6, <2>3, <3>1
    <2>4. i < k \/ i = k \/ k < i BY <1>0, <1>5
    <2>5. ~(i < k /\ i = k) /\ ~(i < k /\ k < i) /\ ~(i = k /\ k < i) BY <1>0, <1>5
    <2> QED BY <2>1, <2>2, <2>3, <2>4, <2>5, ZenonT(30)
<1>11. \A i \in 1..l + 1 : i < k \/ i = k \/ k < i BY <1>0, <1>5
<1>12. q \in [1..l + 1 -> 1..l + 1]
    <2>1. \A i \in 1..l + 1 : q[i] \in 1..l + 1 BY <1>0, <1>10, <1>11
    <2> QED BY <2>1
<1>13. ASSUME NEW i \in 1..l + 1, NEW j \in 1..l + 1, i < j
       PROVE  q[i] # q[j] /\ a[q[i]].index <= a[q[j]].index
    <2>0. \A v \in 1..l : v # l + 1 BY <1>0
    <2>1. CASE j < k
        <3>1. i < k BY <1>0, <1>5, <1>13, <2>1
        <3>2. p[i] # p[j] /\ s[p[i]].index <= s[p[j]].index
            BY <1>0, <1>3, <1>9, <1>13, <2>1, <3>1, ZenonT(30) DEF InOrder
        <3> HIDE DEF q
        <3> QED BY <1>10, <2>1, <3>1, <3>2
    <2>2. CASE j = k
        <3>1. i < k BY <1>13, <2>2
        <3> HIDE DEF q
        <3> QED BY <1>7, <1>9, <1>10, <2>0, <2>2, <3>1 DEF x
    <2>3. CASE k < j /\ i < k
        <3>1. i < j - 1 /\ i \in 1..l /\ j - 1 \in 1..l BY <1>0, <1>5, <1>9, <2>3
        <3>2. p[i] # p[j - 1] /\ s[p[i]].index <= s[p[j - 1]].index
            BY <1>0, <1>3, <3>1 DEF InOrder
        <3> HIDE DEF q
        <3> QED BY <1>10, <2>3, <3>2
    <2>4. CASE k < j /\ i = k
        <3> HIDE DEF q
        <3> QED BY <1>8, <1>9, <1>10, <2>0, <2>4 DEF x
    <2>5. CASE k < j /\ k < i
        <3>1. i - 1 < j - 1 /\ i - 1 \in 1..l /\ j - 1 \in 1..l BY <1>0, <1>5, <1>9, <1>13, <2>5
        <3>2. p[i - 1] # p[j - 1] /\ s[p[i - 1]].index <= s[p[j - 1]].index
            BY <1>0, <1>3, <3>1, Zenon DEF InOrder
        <3> HIDE DEF q
        <3> QED BY <1>10, <2>5, <3>2, Zenon
    <2> QED BY <1>11, <2>1, <2>2, <2>3, <2>4, <2>5
<1>14. InOrder(a, q)
    <2> HIDE DEF q
    <2> QED BY <1>1, <1>13 DEF InOrder
<1> HIDE DEF q
<1> QED BY <1>1, <1>12, <1>14 DEF Sortable, a

\* A turn that is later than all the others can be put behind them.
LEMMA AppendRising ==
    ASSUME NEW s \in Seq(Turns), NEW t \in Turns, Rising(s, t.index), NEW n \in Nat,
           t.index < n
    PROVE  Append(s, t) \in Seq(Turns) /\ Rising(Append(s, t), n)
<1> DEFINE l == Len(s)  a == Append(s, t)
<1>0. l \in Nat /\ (\A i \in 1..l : s[i].index \in Nat) /\ t.index \in Nat
    BY IndexTyped, Zenon DEF Turns
<1>1. /\ a \in Seq(Turns) /\ Len(a) = l + 1
      /\ \A i \in 1..l : a[i] = s[i]
      /\ a[l + 1] = t
    BY OneMore
<1> HIDE DEF a
<1>2. \A i \in 1..l + 1 : i \in 1..l \/ i = l + 1 BY <1>0
<1>3. \A i \in 1..l : s[i].index < t.index /\ s[i].index < n BY <1>0 DEF Rising
<1>4. \A i \in 1..Len(a) : a[i].index < n BY <1>1, <1>2, <1>3
<1>5. ASSUME NEW i \in 1..l + 1, NEW j \in 1..l + 1, i < j PROVE a[i].index < a[j].index
    <2>1. i \in 1..l BY <1>0, <1>5
    <2>2. CASE j \in 1..l BY <1>1, <1>5, <2>1, <2>2, Zenon DEF Rising
    <2>3. CASE j = l + 1 BY <1>1, <1>3, <2>1, <2>3
    <2> QED BY <1>2, <2>2, <2>3
<1> QED BY <1>1, <1>4, <1>5 DEF Rising, a

-------------------------------------------------------------------------------
(* The inductive invariant.                                                 *)

Active == Labels \ {"idle", "done", "failed"}
Save == {"save_history", "save_get", "save_set"}

\* An index that was taken from the document is in nobody else's hands, and in the
\* collection only once its turn is.
IndexInv ==
    /\ Sortable(history) /\ Distinct(history)
    /\ \A i \in 1..Len(history) : history[i].index < count
    /\ \A c \in Conns : pc[c] = "save_history" =>
          /\ read[c].index < count
          /\ \A i \in 1..Len(history) : history[i].index # read[c].index
          /\ \A d \in Conns : pc[d] = "save_history" /\ read[d].index = read[c].index => d = c

\* What a connection remembers between two store accesses.
ReadInv ==
    \A c \in Conns :
        /\ pc[c] \notin Save \cup {"warm"} => read[c] = NotRead
        /\ pc[c] \in {"save_history", "save_get"} => read[c].hot = << >>
        /\ pc[c] = "warm" => Rising(read[c].hot, count)
        /\ pc[c] \in Save => read[c].index < count

\* One connection at a time has anything to do.
Alone == \A c \in Conns : pc[c] \in Active => lease = c

\* What is in Redis is older than the turn that is being saved.
HotInv ==
    /\ hot # NoHot => Rising(hot, count)
    /\ \A c \in Conns : pc[c] \in Save /\ hot # NoHot => Rising(hot, read[c].index)
    /\ \A c \in Conns : pc[c] = "save_set" => Rising(read[c].hot, read[c].index)

Serving == {"restore_history", "warm", "create_hot", "serve", "end_mongo"} \cup Save

\* A session that is served is LIVE, and one that has ended is not in Redis, except
\* between the two writes of its end.
LiveInv ==
    /\ \A c \in Conns : pc[c] \in Serving => status = "LIVE"
    /\ hot # NoHot /\ status # "LIVE" => rest = "delete" \/ \E c \in Conns : pc[c] = "end_hot"
    /\ rest = "delete" => Using = {}

IInv ==
    /\ TypeOK /\ IndexInv /\ ReadInv
    /\ Exclusive => Alone /\ HotInv
    /\ Intact => LiveInv

\* A step of c leaves the other connections where they are.
Only(c) == \A d \in Conns : d # c => pc'[d] = pc[d] /\ read'[d] = read[d]

\* The initial state.
LEMMA InitInv == Init => IInv
<1> SUFFICES ASSUME Init PROVE IInv OBVIOUS
<1>0. NotRead \in [hot : Seq(Turns), index : Nat] BY DEF NotRead
<1>1. NoHot \in Seq(Turns) BY ConfigAssumption DEF NoHot, Turns
<1>2. TypeOK BY <1>0, <1>1, ConfigAssumption DEF Init, TypeOK, Labels
<1>3. IndexInv
    <2>1. Len(history) = 0 /\ history = <<>> BY DEF Init
    <2>2. Sortable(history)
        <3>1. 1..Len(history) = {} /\ DOMAIN history = {} BY <2>1
        <3>2. [i \in 1..Len(history) |-> i] \in [1..Len(history) -> 1..Len(history)] OBVIOUS
        <3>3. InOrder(history, [i \in 1..Len(history) |-> i]) BY <3>1 DEF InOrder
        <3> QED BY <3>2, <3>3 DEF Sortable
    <2> QED BY <2>1, <2>2 DEF IndexInv, Distinct, Init
<1>4. ReadInv BY Zenon DEF Init, ReadInv, Save
<1>5. Alone /\ HotInv BY DEF Init, Alone, HotInv, Active, Save
<1>6. LiveInv BY DEF Init, LiveInv, Serving, Save
<1> QED BY <1>2, <1>3, <1>4, <1>5, <1>6 DEF IInv

\* The list that is read back from Mongo.
LEMMA RecentRising ==
    ASSUME TypeOK, IndexInv
    PROVE  RecentHistory \in Seq(Turns) /\ Rising(RecentHistory, count)
<1>1. ByTurnIndex(history) \in Seq(Turns) /\ Rising(ByTurnIndex(history), count)
    BY ByTurnIndexRising DEF TypeOK, IndexInv
<1> QED BY <1>1, LastTurnsRising DEF RecentHistory, TypeOK

\* Where a connection goes when a store access fails.
LEMMA FailureGoes ==
    ASSUME TypeOK, NEW c \in Conns, StoreFails(c)
    PROVE  /\ pc' = [pc EXCEPT ![c] = pc'[c]]
           /\ \/ pc[c] \in {"idle", "release_failed"} /\ pc'[c] = "done"
              \/ pc[c] = "restore" /\ pc'[c] = "restore_mongo"
              \/ pc[c] \in {"restore_mongo", "restore_history", "create"} /\ pc'[c] = Raised
              \/ pc[c] \in {"warm", "create_hot", "save_history", "save_set"} /\ pc'[c] = "serve"
              \/ pc[c] = "save_get" /\ pc'[c] = "save_set"
              \/ pc[c] \in {"end_mongo", "end_hot"} /\ pc'[c] = AfterEnd
              \/ pc[c] = "release" /\ pc'[c] = AfterRelease
<1>1. /\ pc[c] \in DOMAIN AfterFailure
      /\ pc' = [pc EXCEPT ![c] = AfterFailure[pc[c]]]
    BY DEF StoreFails, Goto
<1>2. pc'[c] = AfterFailure[pc[c]] BY <1>1 DEF TypeOK
<1>3. DOMAIN AfterFailure =
        {"idle", "restore", "restore_mongo", "restore_history", "warm", "create", "create_hot",
         "save_history", "save_get", "save_set", "end_mongo", "end_hot", "release",
         "release_failed"}
    BY DEF AfterFailure
<1>4. /\ AfterFailure["idle"] = "done" /\ AfterFailure["release_failed"] = "done"
      /\ AfterFailure["restore"] = "restore_mongo"
      /\ AfterFailure["restore_mongo"] = Raised /\ AfterFailure["restore_history"] = Raised
      /\ AfterFailure["create"] = Raised
      /\ AfterFailure["warm"] = "serve" /\ AfterFailure["create_hot"] = "serve"
      /\ AfterFailure["save_history"] = "serve" /\ AfterFailure["save_set"] = "serve"
      /\ AfterFailure["save_get"] = "save_set"
      /\ AfterFailure["end_mongo"] = AfterEnd /\ AfterFailure["end_hot"] = AfterEnd
      /\ AfterFailure["release"] = AfterRelease
    BY DEF AfterFailure
<1> QED BY <1>1, <1>2, <1>3, <1>4, ZenonT(30)

\* The turn that is being saved, and the list with it at its end.
LEMMA NewHotType ==
    ASSUME TypeOK, NEW c \in Conns
    PROVE  Turn(c) \in Turns /\ Turn(c).index = read[c].index /\ NewHot(c) \in Seq(Turns)
<1>1. Turn(c) \in Turns /\ Turn(c).index = read[c].index BY DEF Turn, Turns, TypeOK
<1>2. read[c].hot \in Seq(Turns) BY DEF TypeOK
<1>3. Append(read[c].hot, Turn(c)) \in Seq(Turns) BY <1>1, <1>2, OneMore
<1> QED BY <1>1, <1>3, LastTurnsRising, Zenon DEF NewHot

\* Types are kept, and a step of a connection is only its own.
LEMMA StepType ==
    ASSUME TypeOK, IndexInv, NEW c \in Conns, Step(c)
    PROVE  TypeOK' /\ Only(c)
<1>0. /\ NotRead \in [hot : Seq(Turns), index : Nat] /\ NoHot \in Seq(Turns)
      /\ read[c] \in [hot : Seq(Turns), index : Nat] /\ <<>> \in Seq(Turns)
    <2>1. NotRead \in [hot : Seq(Turns), index : Nat] /\ <<>> \in Seq(Turns) BY DEF NotRead
    <2>2. NoHot \in Seq(Turns) BY ConfigAssumption DEF NoHot, Turns
    <2>3. read[c] \in [hot : Seq(Turns), index : Nat] BY DEF TypeOK
    <2> QED BY <2>1, <2>2, <2>3
<1>1. CASE acquire_lease(c)
    BY <1>1, Zenon DEF acquire_lease, Goto, TypeOK, Only, Labels
<1>2. CASE RestoreHot(c) \/ RestoreMongo(c) \/ Disconnect(c)
    BY <1>2, ZenonT(30) DEF RestoreHot, RestoreMongo, Disconnect, FirstOnLeaving, Goto, TypeOK, Only,
       Labels, mode
<1>3. CASE get_recent_history(c)
    <2>1. [read[c] EXCEPT !.hot = RecentHistory] \in [hot : Seq(Turns), index : Nat]
        BY <1>0, RecentRising, ZenonT(30)
    <2> QED BY <1>3, <2>1, ZenonT(30) DEF get_recent_history, Goto, TypeOK, Only, Labels, mode
<1>4. CASE Warm(c)
    BY <1>0, <1>4 DEF Warm, Goto, TypeOK, Only, Labels, mode
<1>5. CASE create(c) \/ CreateHot(c)
    <2>1. CASE create(c) BY <2>1, ZenonT(30) DEF create, Raised, Goto, TypeOK, Only, Labels, mode
    <2>2. CASE CreateHot(c) BY <1>0, <2>2 DEF CreateHot, Goto, TypeOK, Only, Labels, mode
    <2> QED BY <1>5, <2>1, <2>2
<1>6. CASE SaveSession(c)
    <2>1. [read[c] EXCEPT !.index = TurnIndex(c)] \in [hot : Seq(Turns), index : Nat]
        BY <1>0, Zenon DEF TurnIndex, TypeOK
    <2>2. count' \in Nat BY <1>6, CountUp, ZenonT(30) DEF SaveSession, TypeOK
    <2> QED BY <1>6, <2>1, <2>2, ZenonT(30) DEF SaveSession, Goto, TypeOK, Only, Labels, mode
<1>7. CASE SaveHistory(c)
    <2>1. history' \in Seq(Turns)
        BY <1>7, NewHotType, OneMore DEF SaveHistory, TypeOK
    <2> QED BY <1>7, <2>1 DEF SaveHistory, Goto, TypeOK, Only, Labels, mode
<1>8. CASE SaveGet(c)
    <2>1. (IF hot = NoHot THEN << >> ELSE hot) \in Seq(Turns) BY DEF TypeOK
    <2>2. [read[c] EXCEPT !.hot = IF hot = NoHot THEN << >> ELSE hot]
             \in [hot : Seq(Turns), index : Nat]
        BY <1>0, <2>1, ZenonT(30)
    <2> QED BY <1>8, <2>2, Zenon DEF SaveGet, Goto, TypeOK, Only, Labels, mode
<1>9. CASE SaveSet(c)
    BY <1>0, <1>9, NewHotType, ZenonT(30) DEF SaveSet, Goto, TypeOK, Only, Labels, mode
<1>10. CASE EndMongo(c) \/ EndHot(c)
    BY <1>0, <1>10, ZenonT(30) DEF EndMongo, EndHot, AfterEnd, Goto, TypeOK, Only, Labels, mode
<1>11. CASE release_lease(c)
    BY <1>11 DEF release_lease, AfterRelease, Goto, TypeOK, Only, Labels, mode
<1> QED BY <1>1, <1>2, <1>3, <1>4, <1>5, <1>6, <1>7, <1>8, <1>9, <1>10, <1>11 DEF Step

\* The same of a process that dies and of a store that fails.
LEMMA FaultType ==
    ASSUME TypeOK, NEW c \in Conns, Crash(c) \/ StoreFails(c)
    PROVE  /\ TypeOK' /\ Only(c)
           /\ UNCHANGED <<transport, rest, lease, status, count, history, hot>>
           /\ broken \subseteq broken' /\ (pc[c] = "end_hot" => "torn" \in broken')
           /\ \/ read'[c] = NotRead
              \/ pc[c] = "save_get" /\ pc'[c] = "save_set" /\ read'[c] = read[c]
<1>0. NotRead \in [hot : Seq(Turns), index : Nat] BY DEF NotRead
<1>1. /\ UNCHANGED <<transport, rest, lease, status, count, history, hot>>
      /\ faults' = faults + 1
      /\ broken' = IF pc[c] = "end_hot" THEN broken \cup {"torn"} ELSE broken
    BY DEF Crash, StoreFails, Fault, Torn, At
<1>2. pc' \in [Conns -> Labels] /\ \A d \in Conns : d # c => pc'[d] = pc[d]
    <2>1. CASE Crash(c) BY <2>1 DEF Crash, Goto, TypeOK, Labels
    <2>2. CASE StoreFails(c)
        <3>1. pc'[c] \in Labels
            BY <2>2, FailureGoes DEF Labels, Raised, AfterEnd, AfterRelease
        <3>2. pc' = [pc EXCEPT ![c] = pc'[c]] BY <2>2, FailureGoes
        <3> QED BY <3>1, <3>2, Zenon DEF TypeOK
    <2> QED BY <2>1, <2>2
<1>3. \/ read' = [read EXCEPT ![c] = NotRead]
      \/ pc[c] = "save_get" /\ pc'[c] = "save_set" /\ read' = read
    <2>1. CASE Crash(c) BY <2>1 DEF Crash
    <2>2. CASE StoreFails(c) BY <2>2, FailureGoes DEF StoreFails, At
    <2> QED BY <2>1, <2>2
<1>4. read' \in [Conns -> [hot : Seq(Turns), index : Nat]] BY <1>0, <1>3, Zenon DEF TypeOK
<1>5. TypeOK'
    <2>1. faults' \in Nat BY <1>1, CountUp, Zenon DEF TypeOK
    <2>2. broken' \subseteq {"lease", "torn", "rest"} BY <1>1, ZenonT(30) DEF TypeOK
    <2> QED BY <1>1, <1>2, <1>4, <2>1, <2>2, ZenonT(30) DEF TypeOK
<1>6. Only(c) BY <1>2, <1>3 DEF Only, TypeOK
<1> QED BY <1>1, <1>3, <1>5, <1>6 DEF TypeOK

\* The steps that are no connection's.
LEMMA OtherType ==
    ASSUME TypeOK,
           LeaseExpires \/ HotExpires \/ create_session \/ end_session \/ delete_session_state
    PROVE  TypeOK' /\ UNCHANGED <<transport, pc, read, count, history>> /\ broken \subseteq broken'
<1>0. NoHot \in Seq(Turns) /\ <<>> \in Seq(Turns) BY ConfigAssumption DEF NoHot, Turns
<1>1. CASE LeaseExpires BY <1>1 DEF LeaseExpires, TypeOK
<1>2. CASE HotExpires BY <1>0, <1>2 DEF HotExpires, TypeOK, mode
<1>3. CASE create_session BY <1>0, <1>3 DEF create_session, TypeOK, mode
<1>4. CASE end_session BY <1>4 DEF end_session, TypeOK
<1>5. CASE delete_session_state BY <1>0, <1>5 DEF delete_session_state, TypeOK
<1> QED BY <1>1, <1>2, <1>3, <1>4, <1>5

-------------------------------------------------------------------------------
(* The indices.                                                             *)

\* A step that takes no index and inserts no turn.
LEMMA SameIndex ==
    ASSUME IndexInv, UNCHANGED <<count, history>>,
           \A d \in Conns : pc'[d] = "save_history" =>
              pc[d] = "save_history" /\ read'[d] = read[d]
    PROVE  IndexInv'
BY DEF IndexInv

\* find_one_and_update hands out the next index.
LEMMA SaveSessionIndex ==
    ASSUME TypeOK, IndexInv, NEW c \in Conns, SaveSession(c), Only(c)
    PROVE  IndexInv'
<1>1. /\ pc[c] = "serve" /\ pc'[c] = "save_history" /\ count' = count + 1
      /\ history' = history /\ count \in Nat
    BY DEF SaveSession, At, Goto, TypeOK
<1>2. read'[c].index = count
    <2>1. read'[c] = [read[c] EXCEPT !.index = count] BY ZenonT(30) DEF SaveSession, TurnIndex, TypeOK
    <2> QED BY <2>1 DEF TypeOK
<1>3. \A i \in 1..Len(history) : history[i].index \in Nat /\ history[i].index < count
    BY IndexTyped DEF TypeOK, IndexInv
<1>4. \A d \in Conns : read[d].index \in Nat BY DEF TypeOK
<1>5. \A d \in Conns : d # c /\ pc'[d] = "save_history" =>
         /\ pc[d] = "save_history" /\ read'[d] = read[d] /\ read[d].index < count
    BY DEF Only, IndexInv
<1>6. \A i \in 1..Len(history') : history'[i].index < count' BY <1>1, <1>3
<1>7. ASSUME NEW d \in Conns, pc'[d] = "save_history"
      PROVE  /\ read'[d].index < count'
             /\ \A i \in 1..Len(history') : history'[i].index # read'[d].index
             /\ \A e \in Conns : pc'[e] = "save_history" /\ read'[e].index = read'[d].index
                    => e = d
    <2>1. CASE d = c
        <3>1. read'[d].index = count /\ count < count' BY <1>1, <1>2, <2>1
        <3>2. \A i \in 1..Len(history') : history'[i].index # count BY <1>1, <1>3
        <3>3. \A e \in Conns : e # c /\ pc'[e] = "save_history" => read'[e].index # count
            BY <1>1, <1>4, <1>5
        <3> QED BY <2>1, <3>1, <3>2, <3>3
    <2>2. CASE d # c
        <3>1. pc[d] = "save_history" /\ read'[d] = read[d] /\ read[d].index < count
            BY <1>5, <1>7, <2>2
        <3>2. read[d].index < count' /\ read[d].index # count BY <1>1, <1>4, <3>1
        <3>3. \A e \in Conns : pc'[e] = "save_history" /\ read'[e].index = read[d].index => e = d
            BY <1>2, <1>5, <3>1, <3>2, ZenonT(30) DEF IndexInv
        <3> QED BY <1>1, <3>1, <3>2, <3>3 DEF IndexInv
    <2> QED BY <2>1, <2>2
<1> QED BY <1>1, <1>6, <1>7 DEF IndexInv

\* The turn is inserted under the index that was taken for it.
LEMMA SaveHistoryIndex ==
    ASSUME TypeOK, IndexInv, NEW c \in Conns, SaveHistory(c), Only(c)
    PROVE  IndexInv'
<1> DEFINE t == Turn(c)  l == Len(history)
<1>1. /\ pc[c] = "save_history" /\ pc'[c] = "save_get" /\ count' = count
      /\ history' = Append(history, t) /\ read' = read
    BY Zenon DEF SaveHistory, At, Goto, TypeOK
<1>2. t \in Turns /\ t.index = read[c].index BY NewHotType
<1> HIDE DEF t
<1>3. l \in Nat /\ \A i \in 1..l : history[i].index \in Nat BY IndexTyped, ZenonT(30) DEF TypeOK
<1>4. /\ Len(history') = l + 1 /\ history'[l + 1] = t
      /\ \A i \in 1..l : history'[i] = history[i]
    BY <1>1, <1>2, OneMore DEF TypeOK
<1>5. Sortable(history') BY <1>1, <1>2, AppendSortable DEF TypeOK, IndexInv
<1>6. \A i \in 1..l + 1 : i \in 1..l \/ i = l + 1 BY <1>3
<1>7. /\ read[c].index < count
      /\ \A i \in 1..l : history[i].index # read[c].index
      /\ \A d \in Conns : pc[d] = "save_history" /\ read[d].index = read[c].index => d = c
    BY <1>1 DEF IndexInv
<1> HIDE DEF l
<1>8. Distinct(history')
    <2> SUFFICES ASSUME NEW i \in 1..l + 1, NEW j \in 1..l + 1,
                        history'[i].index = history'[j].index
                 PROVE  i = j
        BY <1>4 DEF Distinct
    <2>1. CASE i \in 1..l /\ j \in 1..l BY <1>4, <2>1 DEF IndexInv, Distinct, l
    <2>2. CASE i \in 1..l /\ j = l + 1 BY <1>2, <1>4, <1>7, <2>2
    <2>3. CASE i = l + 1 /\ j \in 1..l BY <1>2, <1>4, <1>7, <2>3, Zenon
    <2> QED BY <1>6, <2>1, <2>2, <2>3
<1>9. \A i \in 1..Len(history') : history'[i].index < count'
    BY <1>1, <1>2, <1>4, <1>6, <1>7, ZenonT(30) DEF IndexInv, l
<1>10. ASSUME NEW d \in Conns, pc'[d] = "save_history"
       PROVE  /\ read'[d].index < count'
              /\ \A i \in 1..Len(history') : history'[i].index # read'[d].index
              /\ \A e \in Conns : pc'[e] = "save_history" /\ read'[e].index = read'[d].index
                     => e = d
    <2>1. d # c /\ pc[d] = "save_history" BY <1>1, <1>10 DEF Only
    <2>2. read[d].index # read[c].index BY <1>7, <2>1, ZenonT(30)
    <2>3. \A i \in 1..Len(history') : history'[i].index # read[d].index
        BY <1>2, <1>4, <1>6, <2>1, <2>2 DEF IndexInv, l
    <2>4. \A e \in Conns : pc'[e] = "save_history" => pc[e] = "save_history"
        BY <1>1 DEF Only
    <2> QED BY <1>1, <2>1, <2>3, <2>4 DEF IndexInv
<1> QED BY <1>5, <1>8, <1>9, <1>10 DEF IndexInv

\* Every step keeps the indices.
LEMMA IndexStep ==
    ASSUME IInv, [Next]_vars
    PROVE  TypeOK' /\ IndexInv'
<1>0. TypeOK /\ IndexInv BY DEF IInv
<1>1. ASSUME NEW c \in Conns, Step(c) PROVE TypeOK' /\ IndexInv'
    <2>1. TypeOK' /\ Only(c) BY <1>0, <1>1, StepType
    <2>2. CASE SaveSession(c) BY <1>0, <2>1, <2>2, SaveSessionIndex
    <2>3. CASE SaveHistory(c) BY <1>0, <2>1, <2>3, SaveHistoryIndex
    <2>4. CASE ~SaveSession(c) /\ ~SaveHistory(c)
        <3>1. UNCHANGED <<count, history>> /\ pc'[c] # "save_history"
            BY <1>0, <1>1, <2>4 DEF Step, acquire_lease, RestoreHot, RestoreMongo,
               get_recent_history, Warm, create, CreateHot, SaveGet, SaveSet, Disconnect,
               EndMongo, EndHot, release_lease, Goto, TypeOK, Raised, FirstOnLeaving, AfterEnd,
               AfterRelease
        <3> QED BY <1>0, <2>1, <3>1, SameIndex DEF Only
    <2> QED BY <2>1, <2>2, <2>3, <2>4
<1>2. ASSUME NEW c \in Conns, Crash(c) \/ StoreFails(c) PROVE TypeOK' /\ IndexInv'
    <2>1. TypeOK' /\ Only(c) /\ UNCHANGED <<count, history>> BY <1>0, <1>2, FaultType
    <2>2. pc'[c] # "save_history"
        BY <1>0, <1>2, FailureGoes, ZenonT(30) DEF Crash, Goto, TypeOK, Raised, AfterEnd, AfterRelease
    <2> QED BY <1>0, <2>1, <2>2, SameIndex DEF Only
<1>3. CASE LeaseExpires \/ HotExpires \/ create_session \/ end_session \/ delete_session_state
    BY <1>0, <1>3, OtherType, SameIndex
<1>4. CASE UNCHANGED vars
    <2>1. TypeOK' BY <1>0, <1>4 DEF TypeOK, vars
    <2> QED BY <1>0, <1>4, <2>1, SameIndex, ZenonT(30) DEF vars
<1> QED BY <1>1, <1>2, <1>3, <1>4 DEF Next

-------------------------------------------------------------------------------
(* What the connections have read.                                          *)

\* A bound on the indices may grow.
LEMMA RisingWider ==
    ASSUME NEW s \in Seq(Turns), NEW m \in Nat, NEW n \in Nat, m <= n, Rising(s, m)
    PROVE  Rising(s, n)
<1>1. \A i \in 1..Len(s) : s[i].index \in Nat BY IndexTyped, Zenon
<1> QED BY <1>1 DEF Rising

\* A step of c that leaves the count alone, given what c has read then.
LEMMA ReadElsewhere ==
    ASSUME ReadInv, NEW c \in Conns, Only(c), count' = count,
           /\ pc'[c] \notin Save \cup {"warm"} => read'[c] = NotRead
           /\ pc'[c] \in {"save_history", "save_get"} => read'[c].hot = << >>
           /\ pc'[c] = "warm" => Rising(read'[c].hot, count)
           /\ pc'[c] \in Save => read'[c].index < count
    PROVE  ReadInv'
BY DEF ReadInv, Only

\* Every step of a connection.
LEMMA ReadStep ==
    ASSUME TypeOK, IndexInv, ReadInv, NEW c \in Conns, Step(c), Only(c)
    PROVE  ReadInv'
<1>0. /\ pc[c] \notin Save \cup {"warm"} => read[c] = NotRead
      /\ pc[c] \in {"save_history", "save_get"} => read[c].hot = << >>
      /\ pc[c] \in Save => read[c].index < count
    BY DEF ReadInv
<1>1. CASE acquire_lease(c) \/ RestoreHot(c) \/ RestoreMongo(c) \/ Disconnect(c)
    <2>1. /\ pc[c] \notin Save \cup {"warm"} /\ pc'[c] \notin Save \cup {"warm"}
          /\ read' = read /\ count' = count
        BY <1>1, ZenonT(30) DEF acquire_lease, RestoreHot, RestoreMongo, Disconnect, FirstOnLeaving, At,
           Goto, TypeOK, Save
    <2> QED BY <1>0, <2>1, ReadElsewhere DEF Save
<1>2. CASE create(c) \/ CreateHot(c) \/ EndMongo(c) \/ EndHot(c) \/ release_lease(c)
    <2>1. /\ pc[c] \notin Save \cup {"warm"} /\ pc'[c] \notin Save \cup {"warm"}
          /\ read' = read /\ count' = count
        BY <1>2 DEF create, CreateHot, EndMongo, EndHot, release_lease, Raised, AfterEnd,
           AfterRelease, At, Goto, TypeOK, Save
    <2> QED BY <1>0, <2>1, ReadElsewhere DEF Save
<1>3. CASE get_recent_history(c)
    <2>1. pc'[c] = "warm" /\ count' = count /\ read'[c] = [read[c] EXCEPT !.hot = RecentHistory]
        BY <1>3 DEF get_recent_history, Goto, TypeOK
    <2>2. read'[c].hot = RecentHistory BY <2>1 DEF TypeOK
    <2>3. Rising(read'[c].hot, count) BY <2>2, RecentRising, ZenonT(30)
    <2> QED BY <2>1, <2>3, ReadElsewhere, Zenon DEF Save
<1>4. CASE Warm(c) \/ SaveSet(c)
    <2>1. pc'[c] = "serve" /\ count' = count /\ read'[c] = NotRead
        BY <1>4 DEF Warm, SaveSet, Goto, TypeOK
    <2> QED BY <2>1, ReadElsewhere DEF Save
<1>5. CASE SaveHistory(c)
    <2>1. /\ pc[c] = "save_history" /\ pc'[c] = "save_get" /\ count' = count /\ read' = read
        BY <1>5 DEF SaveHistory, At, Goto, TypeOK
    <2> QED BY <1>0, <2>1, ReadElsewhere DEF Save
<1>6. CASE SaveGet(c)
    <2>1. /\ pc[c] = "save_get" /\ pc'[c] = "save_set" /\ count' = count
          /\ read'[c] = [read[c] EXCEPT !.hot = IF hot = NoHot THEN << >> ELSE hot]
        BY <1>6 DEF SaveGet, At, Goto, TypeOK
    <2>2. read'[c].index = read[c].index BY <2>1 DEF TypeOK
    <2> QED BY <1>0, <2>1, <2>2, ReadElsewhere, Zenon DEF Save
<1>7. CASE SaveSession(c)
    <2>1. /\ pc[c] = "serve" /\ pc'[c] = "save_history" /\ count' = count + 1 /\ count \in Nat
          /\ read'[c] = [read[c] EXCEPT !.index = count]
        BY <1>7 DEF SaveSession, TurnIndex, At, Goto, TypeOK
    <2>2. read'[c].index = count /\ read'[c].hot = read[c].hot BY <2>1 DEF TypeOK
    <2>3. read[c].hot = <<>> BY <1>0, <2>1 DEF Save, NotRead
    <2>4. ASSUME NEW d \in Conns
          PROVE  /\ pc'[d] \notin Save \cup {"warm"} => read'[d] = NotRead
                 /\ pc'[d] \in {"save_history", "save_get"} => read'[d].hot = << >>
                 /\ pc'[d] = "warm" => Rising(read'[d].hot, count')
                 /\ pc'[d] \in Save => read'[d].index < count'
        <3>1. CASE d = c
            <4>1. read'[c].index < count' BY <2>1, <2>2
            <4> QED BY <2>1, <2>2, <2>3, <3>1, <4>1, ZenonT(30) DEF Save
        <3>2. CASE d # c
            <4>1. pc'[d] = pc[d] /\ read'[d] = read[d] BY <3>2 DEF Only
            <4>2. read[d].index \in Nat /\ read[d].hot \in Seq(Turns) BY DEF TypeOK
            <4>3. pc[d] = "warm" => Rising(read[d].hot, count') BY <2>1, <4>2, RisingWider DEF ReadInv
            <4>4. pc[d] \in Save => read[d].index < count' BY <2>1, <4>2 DEF ReadInv
            <4> QED BY <4>1, <4>3, <4>4, Zenon DEF ReadInv
        <3> QED BY <3>1, <3>2
    <2> QED BY <2>4 DEF ReadInv
<1> QED BY <1>1, <1>2, <1>3, <1>4, <1>5, <1>6, <1>7, ZenonT(30) DEF Step

\* The process dies, or a store fails.
LEMMA ReadFault ==
    ASSUME TypeOK, ReadInv, NEW c \in Conns, Crash(c) \/ StoreFails(c)
    PROVE  ReadInv'
<1>1. /\ Only(c) /\ count' = count
      /\ \/ read'[c] = NotRead
         \/ pc[c] = "save_get" /\ pc'[c] = "save_set" /\ read'[c] = read[c]
    BY FaultType, Zenon
<1>2. CASE pc[c] = "save_get" /\ pc'[c] = "save_set" /\ read'[c] = read[c]
    BY <1>1, <1>2, ReadElsewhere, ZenonT(30) DEF ReadInv, Save
<1>3. CASE read'[c] = NotRead /\ pc[c] # "save_get"
    <2>1. pc'[c] \notin Save \cup {"warm"}
        BY <1>3, FailureGoes, ZenonT(30) DEF Crash, Goto, TypeOK, Raised, AfterEnd, AfterRelease, Save
    <2> QED BY <1>1, <1>3, <2>1, ReadElsewhere DEF Save
<1>4. CASE read'[c] = NotRead /\ pc[c] = "save_get"
    <2>1. CASE Crash(c)
        <3>1. pc'[c] = "done" BY <2>1 DEF Crash, Goto, TypeOK
        <3> QED BY <1>1, <1>4, <3>1, ReadElsewhere DEF Save
    <2>2. CASE StoreFails(c)
        <3>1. read'[c] = read[c] /\ pc'[c] = "save_set"
            BY <1>4, <2>2, FailureGoes DEF StoreFails, At
        <3> QED BY <1>1, <1>2, <1>4, <3>1, ZenonT(30)
    <2> QED BY <2>1, <2>2
<1> QED BY <1>1, <1>2, <1>3, <1>4, Zenon

-------------------------------------------------------------------------------
(* One connection at a time.                                                *)

\* The lease goes to a connection when nobody is active, and from the active one.
LEMMA AloneStep ==
    ASSUME TypeOK, Alone, transport = "ws", NEW c \in Conns, Step(c), Only(c)
    PROVE  Alone'
<1>0. pc[c] \in Labels /\ NoConn \notin Conns BY ConfigAssumption DEF TypeOK
<1>1. CASE acquire_lease(c)
    <2>1. \/ lease = NoConn /\ lease' = c
          \/ lease' = lease /\ pc'[c] = "done"
        BY <1>1, ZenonT(30) DEF acquire_lease, LeaseIsFree, Goto, TypeOK
    <2>2. CASE lease = NoConn /\ lease' = c
        <3>1. \A d \in Conns : pc[d] \notin Active BY <1>0, <2>2 DEF Alone
        <3> QED BY <2>2, <3>1 DEF Alone, Only
    <2>3. CASE lease' = lease /\ pc'[c] = "done" BY <2>3 DEF Alone, Only, Active
    <2> QED BY <2>1, <2>2, <2>3
<1>2. CASE release_lease(c)
    <2>1. pc[c] \in Active /\ pc'[c] = "done" /\ lease' = NoConn
        BY <1>0, <1>2 DEF release_lease, At, Goto, AfterRelease, TypeOK, Active, Labels
    <2>2. \A d \in Conns : d # c => pc[d] \notin Active BY <2>1 DEF Alone
    <2> QED BY <2>1, <2>2 DEF Alone, Only, Active
<1>3. CASE ~acquire_lease(c) /\ ~release_lease(c)
    <2>1. pc[c] \in Active /\ lease' = lease
        BY <1>0, <1>3 DEF Step, RestoreHot, RestoreMongo, get_recent_history, Warm, create,
           CreateHot, SaveSession, SaveHistory, SaveGet, SaveSet, Disconnect, EndMongo, EndHot,
           At, Active, Labels
    <2> QED BY <2>1 DEF Alone, Only
<1> QED BY <1>1, <1>2, <1>3

\* The process dies with its lease, or goes on without the store.
LEMMA AloneFault ==
    ASSUME TypeOK, Alone, NEW c \in Conns, Crash(c) \/ StoreFails(c)
    PROVE  Alone'
<1>1. Only(c) /\ lease' = lease BY FaultType, ZenonT(30)
<1>2. pc[c] \in Active \/ pc'[c] \notin Active
    BY FailureGoes, Zenon DEF Crash, Goto, TypeOK, Active, Labels
<1> QED BY <1>1, <1>2 DEF Alone, Only

-------------------------------------------------------------------------------
(* The order of the Redis copy.                                             *)

\* While one connection is active no other one saves a turn.
LEMMA NobodyElse ==
    ASSUME Alone, NEW c \in Conns, pc[c] \in Active, NEW d \in Conns, d # c
    PROVE  pc[d] \notin Active
BY ZenonT(30) DEF Alone

\* A step of c that leaves the copy alone or deletes it.
LEMMA HotElsewhere ==
    ASSUME HotInv, NEW c \in Conns, Only(c), count' = count, hot' = hot \/ hot' = NoHot,
           pc'[c] \in Save => pc[c] \in Save /\ read'[c].index = read[c].index,
           pc'[c] = "save_set" => Rising(read'[c].hot, read'[c].index)
    PROVE  HotInv'
<1>0. UNCHANGED NoHot BY DEF NoHot
<1> QED BY <1>0, Zenon DEF HotInv, Only

\* A step of the only active connection that replaces the copy.
LEMMA HotReplaced ==
    ASSUME HotInv, Alone, NEW c \in Conns, Only(c), pc[c] \in Active,
           Rising(hot', count'), pc'[c] \notin Save
    PROVE  HotInv'
<1>1. \A d \in Conns : pc'[d] \notin Save BY NobodyElse DEF Only, Active, Save, Labels
<1> QED BY <1>1 DEF HotInv, Save

\* Every step of a connection.
LEMMA HotStep ==
    ASSUME TypeOK, ReadInv, Alone, HotInv, NEW c \in Conns, Step(c), Only(c)
    PROVE  HotInv'
<1>0. pc[c] \in Labels /\ read[c].hot \in Seq(Turns) /\ read[c].index \in Nat /\ count \in Nat
    BY DEF TypeOK
<1>1. CASE acquire_lease(c) \/ RestoreHot(c) \/ RestoreMongo(c) \/ Disconnect(c) \/ create(c)
    <2>1. pc'[c] \notin Save /\ hot' = hot /\ count' = count
        BY <1>1 DEF acquire_lease, RestoreHot, RestoreMongo, Disconnect, create, Raised,
           FirstOnLeaving, Goto, TypeOK, Save
    <2> QED BY <2>1, HotElsewhere, Zenon DEF Save
<1>2. CASE EndMongo(c) \/ EndHot(c) \/ release_lease(c) \/ get_recent_history(c)
    <2>1. pc'[c] \notin Save /\ (hot' = hot \/ hot' = NoHot) /\ count' = count
        BY <1>2, ZenonT(30) DEF EndMongo, EndHot, release_lease, get_recent_history, AfterEnd, AfterRelease,
           Goto, TypeOK, Save
    <2> QED BY <2>1, HotElsewhere DEF Save
<1>3. CASE Warm(c)
    <2>1. pc[c] = "warm" /\ pc'[c] = "serve" /\ hot' = read[c].hot /\ count' = count
        BY <1>3, ZenonT(30) DEF Warm, At, Goto, TypeOK
    <2>2. Rising(hot', count') BY <2>1 DEF ReadInv
    <2> QED BY <2>1, <2>2, HotReplaced DEF Active, Labels, Save
<1>4. CASE CreateHot(c)
    <2>1. pc[c] = "create_hot" /\ pc'[c] = "serve" /\ hot' = <<>>
        BY <1>4 DEF CreateHot, At, Goto, TypeOK
    <2>2. Rising(hot', count') BY <2>1 DEF Rising
    <2> QED BY <2>1, <2>2, HotReplaced DEF Active, Labels, Save
<1>5. CASE SaveSession(c)
    <2>1. /\ pc[c] = "serve" /\ pc'[c] = "save_history" /\ count' = count + 1 /\ hot' = hot
          /\ read'[c] = [read[c] EXCEPT !.index = count]
        BY <1>5 DEF SaveSession, TurnIndex, At, Goto, TypeOK
    <2>2. read'[c].index = count BY <2>1 DEF TypeOK
    <2>3. \A d \in Conns : d # c => pc'[d] \notin Save
        BY <2>1, NobodyElse DEF Only, Active, Labels, Save
    <2>4. hot # NoHot => Rising(hot, count') BY <1>0, <2>1, RisingWider DEF HotInv, TypeOK
    <2>5. UNCHANGED NoHot BY DEF NoHot
    <2> QED BY <2>1, <2>2, <2>3, <2>4, <2>5, ZenonT(30) DEF HotInv, Save
<1>6. CASE SaveHistory(c)
    <2>1. /\ pc[c] = "save_history" /\ pc'[c] = "save_get" /\ count' = count /\ hot' = hot
          /\ read' = read
        BY <1>6 DEF SaveHistory, At, Goto, TypeOK
    <2> QED BY <2>1, HotElsewhere DEF Save
<1>7. CASE SaveGet(c)
    <2>1. /\ pc[c] = "save_get" /\ pc'[c] = "save_set" /\ count' = count /\ hot' = hot
          /\ read'[c] = [read[c] EXCEPT !.hot = IF hot = NoHot THEN << >> ELSE hot]
        BY <1>7 DEF SaveGet, At, Goto, TypeOK
    <2>2. /\ read'[c].index = read[c].index
          /\ read'[c].hot = IF hot = NoHot THEN << >> ELSE hot
        BY <2>1 DEF TypeOK
    <2>3. Rising(<<>>, read[c].index) BY DEF Rising
    <2>4. hot # NoHot => Rising(hot, read[c].index) BY <2>1 DEF HotInv, Save
    <2>5. Rising(read'[c].hot, read'[c].index) BY <2>2, <2>3, <2>4, ZenonT(30)
    <2> QED BY <2>1, <2>2, <2>5, HotElsewhere, ZenonT(30) DEF Save
<1>8. CASE SaveSet(c)
    <2>1. pc[c] = "save_set" /\ pc'[c] = "serve" /\ hot' = NewHot(c) /\ count' = count
        BY <1>8, ZenonT(30) DEF SaveSet, At, Goto, TypeOK
    <2>2. Rising(read[c].hot, read[c].index) /\ read[c].index < count
        BY <2>1, Zenon DEF HotInv, ReadInv, Save
    <2>3. Turn(c) \in Turns /\ Turn(c).index = read[c].index BY NewHotType, ZenonT(30)
    <2>4. /\ Append(read[c].hot, Turn(c)) \in Seq(Turns)
          /\ Rising(Append(read[c].hot, Turn(c)), count)
        BY <1>0, <2>2, <2>3, AppendRising
    <2>5. Rising(hot', count') BY <1>0, <2>1, <2>4, LastTurnsRising, ZenonT(30) DEF NewHot
    <2> QED BY <2>1, <2>5, HotReplaced DEF Active, Labels, Save
<1> QED BY <1>1, <1>2, <1>3, <1>4, <1>5, <1>6, <1>7, <1>8 DEF Step

\* A store that fails while the copy is read leaves an empty list to write back.
LEMMA HotFault ==
    ASSUME TypeOK, ReadInv, HotInv, NEW c \in Conns, Crash(c) \/ StoreFails(c)
    PROVE  HotInv'
<1>1. /\ Only(c) /\ count' = count /\ hot' = hot
      /\ \/ read'[c] = NotRead
         \/ pc[c] = "save_get" /\ pc'[c] = "save_set" /\ read'[c] = read[c]
    BY FaultType, ZenonT(30)
<1>2. CASE pc'[c] \in Save
    <2>1. StoreFails(c) /\ pc[c] = "save_get" /\ pc'[c] = "save_set"
        BY <1>2, FailureGoes, ZenonT(30) DEF Crash, Goto, TypeOK, Raised, AfterEnd, AfterRelease, Save
    <2>2. read'[c] = read[c] BY <2>1 DEF StoreFails, At
    <2>3. read[c].hot = <<>> BY <2>1 DEF ReadInv
    <2>4. Rising(read'[c].hot, read'[c].index) BY <2>2, <2>3 DEF Rising
    <2> QED BY <1>1, <2>1, <2>2, <2>4, HotElsewhere DEF Save
<1>3. CASE pc'[c] \notin Save BY <1>1, <1>3, HotElsewhere DEF Save
<1> QED BY <1>2, <1>3

-------------------------------------------------------------------------------
(* Sessions that are served have not ended.                                 *)

Use == Active \ {"release", "release_failed"}

\* Who has store accesses ahead, on WebSocket connections.
LEMMA UsingIs ==
    ASSUME TypeOK, transport = "ws"
    PROVE  Using = {c \in Conns : pc[c] \in Use}
BY DEF Using, Use, Active, Labels, FirstOnLeaving, TypeOK

\* A step of c that leaves the status and the DELETE request alone.
LEMMA LiveElsewhere ==
    ASSUME TypeOK, TypeOK', LiveInv, transport = "ws", transport' = transport,
           NEW c \in Conns, Only(c), status' = status, rest' = rest,
           hot' = hot \/ hot' = NoHot \/ status = "LIVE",
           pc'[c] \in Serving => status = "LIVE",
           pc[c] = "end_hot" => hot' = NoHot,
           pc'[c] \in Use => pc[c] \in Use \/ rest # "delete"
    PROVE  LiveInv'
<1>0. UNCHANGED NoHot BY ZenonT(30) DEF NoHot
<1>1. \A d \in Conns : pc'[d] \in Serving => status' = "LIVE" BY DEF LiveInv, Only
<1>2. ASSUME hot' # NoHot, status' # "LIVE"
      PROVE  rest' = "delete" \/ \E d \in Conns : pc'[d] = "end_hot"
    <2>1. hot # NoHot /\ status # "LIVE" BY <1>2
    <2>2. CASE rest = "delete" BY <2>2
    <2>3. ASSUME NEW d \in Conns, pc[d] = "end_hot" PROVE pc'[d] = "end_hot"
        BY <1>2, <2>3 DEF Only
    <2> QED BY <2>1, <2>2, <2>3 DEF LiveInv
<1>3. rest' = "delete" => Using' = {}
    <2> SUFFICES ASSUME rest = "delete" PROVE Using' = {} OBVIOUS
    <2>1. \A d \in Conns : pc[d] \notin Use BY UsingIs DEF LiveInv
    <2>2. \A d \in Conns : pc'[d] \notin Use BY <2>1, Zenon DEF Only
    <2>3. Using' = {d \in Conns : pc'[d] \in Use}
        BY Zenon DEF Using, Use, Active, Labels, FirstOnLeaving, TypeOK
    <2> QED BY <2>2, <2>3
<1> QED BY <1>0, <1>1, <1>2, <1>3, ZenonT(30) DEF LiveInv

\* Every step of a connection.
LEMMA LiveStep ==
    ASSUME TypeOK, TypeOK', Alone, LiveInv, Intact, Intact', NEW c \in Conns, Step(c), Only(c)
    PROVE  LiveInv'
<1>0. /\ transport = "ws" /\ transport' = transport /\ pc[c] \in Labels
      /\ Raised = "failed" /\ AfterEnd = "release" /\ FirstOnLeaving = "end_mongo"
      /\ AfterRelease = "done"
    BY DEF Intact, Exclusive, TypeOK, Raised, AfterEnd, FirstOnLeaving, AfterRelease
<1>a. pc[c] \in Use => rest # "delete" BY <1>0, UsingIs, ZenonT(30) DEF LiveInv
<1>1. CASE acquire_lease(c)
    <2>1. /\ pc[c] = "idle" /\ UNCHANGED <<status, rest, hot>>
          /\ \/ pc'[c] = "restore" /\ rest # "delete"
             \/ pc'[c] = "done"
        BY <1>1, Zenon DEF acquire_lease, At, Goto, TypeOK, Intact
    <2> QED BY <1>0, <2>1, LiveElsewhere DEF Serving, Save, Use, Active
<1>2. CASE RestoreHot(c)
    <2>1. /\ pc[c] = "restore" /\ UNCHANGED <<status, rest, hot>>
          /\ pc'[c] = IF hot # NoHot THEN "serve" ELSE "restore_mongo"
        BY <1>2, ZenonT(30) DEF RestoreHot, At, Goto, TypeOK, mode
    <2>2. \A d \in Conns : pc[d] # "end_hot"
        BY <2>1, NobodyElse DEF Active, Labels
    <2>3. hot # NoHot => status = "LIVE" BY <1>a, <2>1, <2>2, Zenon DEF LiveInv, Use, Active, Labels
    <2> QED BY <1>0, <2>1, <2>3, LiveElsewhere, ZenonT(30) DEF Serving, Save, Use, Active, Labels
<1>3. CASE RestoreMongo(c)
    <2>1. /\ pc[c] = "restore_mongo" /\ UNCHANGED <<status, rest, hot>>
          /\ \/ status = "LIVE" /\ pc'[c] = "restore_history"
             \/ pc'[c] = "create"
        BY <1>3, ZenonT(30) DEF RestoreMongo, Restorable, At, Goto, TypeOK, mode
    <2> QED BY <1>0, <2>1, LiveElsewhere, ZenonT(30) DEF Serving, Save, Use, Active, Labels
<1>4. CASE \/ get_recent_history(c) \/ Warm(c) \/ CreateHot(c) \/ SaveHistory(c) \/ SaveGet(c)
           \/ SaveSet(c) \/ Disconnect(c)
    <2>1. pc[c] \in Serving /\ UNCHANGED <<status, rest>>
        BY <1>4 DEF get_recent_history, Warm, CreateHot, SaveHistory, SaveGet, SaveSet,
           Disconnect, At, Serving, Save, mode
    <2>2. status = "LIVE" /\ pc[c] \in Use /\ pc[c] # "end_hot"
        BY <2>1 DEF LiveInv, Serving, Save, Use, Active, Labels
    <2> QED BY <1>0, <2>1, <2>2, LiveElsewhere
<1>5. CASE create(c)
    <2>1. /\ pc[c] = "create" /\ UNCHANGED <<rest, hot>>
          /\ \/ status' = "LIVE" /\ pc'[c] = "create_hot"
             \/ status' = status /\ pc'[c] = "failed"
        BY <1>0, <1>5, ZenonT(30) DEF create, CanInsert, At, Goto, TypeOK, mode
    <2>2. CASE status' = status /\ pc'[c] = "failed"
        BY <1>0, <2>1, <2>2, LiveElsewhere, ZenonT(30) DEF Serving, Save, Use, Active, Labels
    <2>3. CASE status' = "LIVE"
        <3>1. rest' # "delete" BY <1>a, <2>1, ZenonT(30) DEF Use, Active, Labels
        <3> QED BY <2>3, <3>1 DEF LiveInv
    <2> QED BY <2>1, <2>2, <2>3, Zenon
<1>6. CASE SaveSession(c)
    <2>1. pc[c] = "serve" /\ status' = "LIVE" /\ rest' = rest
        BY <1>6 DEF SaveSession, At, mode
    <2>2. rest' # "delete" BY <1>a, <2>1, Zenon DEF Use, Active, Labels
    <2> QED BY <2>1, <2>2 DEF LiveInv
<1>7. CASE EndMongo(c)
    <2>1. pc[c] = "end_mongo" /\ pc'[c] = "end_hot" /\ rest' = rest
        BY <1>7, ZenonT(30) DEF EndMongo, At, Goto, TypeOK, mode
    <2>2. rest' # "delete" BY <1>a, <2>1 DEF Use, Active, Labels
    <2>3. \A d \in Conns : pc'[d] \notin Serving
        BY <2>1, NobodyElse, ZenonT(30) DEF Only, Active, Labels, Serving, Save
    <2> QED BY <2>1, <2>2, <2>3, ZenonT(30) DEF LiveInv
<1>8. CASE EndHot(c)
    <2>1. pc[c] = "end_hot" /\ pc'[c] = "release" /\ hot' = NoHot /\ UNCHANGED <<status, rest>>
        BY <1>0, <1>8, Zenon DEF EndHot, At, Goto, TypeOK, mode
    <2> QED BY <1>0, <2>1, LiveElsewhere, Zenon DEF Serving, Save, Use, Active
<1>9. CASE release_lease(c)
    <2>1. /\ pc[c] \in {"release", "release_failed"} /\ pc'[c] = "done"
          /\ UNCHANGED <<status, rest, hot>>
        BY <1>0, <1>9, Zenon DEF release_lease, At, Goto, TypeOK, mode
    <2> QED BY <1>0, <2>1, LiveElsewhere, ZenonT(30) DEF Serving, Save, Use, Active
<1> QED BY <1>1, <1>2, <1>3, <1>4, <1>5, <1>6, <1>7, <1>8, <1>9, ZenonT(30) DEF Step

\* A fault that does not tear the two writes of end_session.
LEMMA LiveFault ==
    ASSUME TypeOK, LiveInv, Intact, Intact', NEW c \in Conns, Crash(c) \/ StoreFails(c)
    PROVE  LiveInv'
<1>1. /\ TypeOK' /\ Only(c) /\ UNCHANGED <<transport, rest, status, hot>>
      /\ pc[c] # "end_hot"
    BY FaultType DEF Intact
<1>2. transport = "ws" BY DEF Intact, Exclusive
<1>3. \/ pc'[c] \notin Serving /\ pc'[c] \notin Use
      \/ pc[c] = "restore" /\ pc'[c] = "restore_mongo"
      \/ pc[c] \in Serving
    <2>1. CASE Crash(c)
        BY <2>1, Zenon DEF Crash, Goto, TypeOK, Serving, Save, Use, Active
    <2>2. CASE StoreFails(c)
        BY <1>1, <1>2, <2>2, FailureGoes, ZenonT(30) DEF Raised, AfterEnd, AfterRelease, Serving, Save, Use,
           Active, Labels
    <2> QED BY <2>1, <2>2, Zenon
<1>4. pc'[c] \in Serving => status = "LIVE" BY <1>3, ZenonT(30) DEF LiveInv, Serving, Save
<1>5. pc'[c] \in Use => pc[c] \in Use BY <1>3 DEF Serving, Save, Use, Active, Labels
<1> QED BY <1>1, <1>2, <1>4, <1>5, LiveElsewhere, ZenonT(30)

-------------------------------------------------------------------------------
(* The theorems.                                                            *)

\* What was exclusive or intact after a step was so before it.
LEMMA IntactBefore ==
    ASSUME TypeOK, IndexInv, [Next]_vars
    PROVE  /\ transport' = transport /\ broken \subseteq broken'
           /\ Exclusive' => Exclusive
           /\ Intact' => Intact
<1>1. transport' = transport /\ broken \subseteq broken'
    <2>1. ASSUME NEW c \in Conns, Step(c) PROVE transport' = transport /\ broken \subseteq broken'
        BY <2>1, ZenonT(30) DEF Step, acquire_lease, RestoreHot, RestoreMongo, get_recent_history, Warm,
           create, CreateHot, SaveSession, SaveHistory, SaveGet, SaveSet, Disconnect, EndMongo,
           EndHot, release_lease, mode
    <2>2. ASSUME NEW c \in Conns, Crash(c) \/ StoreFails(c)
          PROVE  transport' = transport /\ broken \subseteq broken'
        BY <2>2, FaultType
    <2>3. CASE LeaseExpires \/ HotExpires \/ create_session \/ end_session \/ delete_session_state
        BY <2>3, OtherType
    <2>4. CASE UNCHANGED vars BY <2>4 DEF vars
    <2> QED BY <2>1, <2>2, <2>3, <2>4, ZenonT(30) DEF Next
<1> QED BY <1>1 DEF Exclusive, Intact

\* The steps that are no connection's.
LEMMA OtherInv ==
    ASSUME IInv,
           LeaseExpires \/ HotExpires \/ create_session \/ end_session \/ delete_session_state
    PROVE  /\ ReadInv' /\ (Exclusive /\ Exclusive' => Alone' /\ HotInv')
           /\ (Intact /\ Intact' => LiveInv')
<1>0. TypeOK' /\ UNCHANGED <<transport, pc, read, count, history>> BY OtherType, ZenonT(30) DEF IInv
<1>1. ReadInv' BY <1>0 DEF IInv, ReadInv
<1>2. UNCHANGED NoHot BY ZenonT(30) DEF NoHot
<1>3. hot' = hot \/ hot' = NoHot \/ (hot' = <<>> /\ \A c \in Conns : pc[c] = "idle")
    BY DEF LeaseExpires, HotExpires, create_session, end_session, delete_session_state, At
<1>4. ASSUME Exclusive, Exclusive' PROVE Alone' /\ HotInv'
    <2>1. Alone /\ HotInv BY <1>4 DEF IInv
    <2>2. Alone'
        <3>1. CASE LeaseExpires
            <4>1. lease \in Conns BY <3>1 DEF LeaseExpires, IInv, TypeOK
            <4>2. pc[lease] \in {"done", "failed"} BY <1>4, <3>1 DEF LeaseExpires, Exclusive
            <4>3. \A c \in Conns : pc[c] \notin Active BY <2>1, <4>1, <4>2, Zenon DEF Alone, Active
            <4> QED BY <1>0, <4>3, ZenonT(30) DEF Alone
        <3>2. CASE ~LeaseExpires
            <4>1. lease' = lease
                BY <3>2 DEF HotExpires, create_session, end_session, delete_session_state
            <4> QED BY <1>0, <2>1, <4>1, ZenonT(30) DEF Alone
        <3> QED BY <3>1, <3>2
    <2>3. Rising(<<>>, count) BY DEF Rising
    <2>4. HotInv' BY <1>0, <1>2, <1>3, <2>1, <2>3 DEF HotInv, Save
    <2> QED BY <2>2, <2>4
<1>5. ASSUME Intact, Intact' PROVE LiveInv'
    <2>1. LiveInv BY <1>5 DEF IInv
    <2>2. Using' = Using BY <1>0 DEF Using, FirstOnLeaving
    <2>3. transport = "ws" /\ TypeOK BY <1>5 DEF IInv, Intact, Exclusive
    <2>4. CASE LeaseExpires \/ HotExpires
        <3>1. UNCHANGED <<status, rest>> /\ (hot' = hot \/ hot' = NoHot)
            BY <2>4 DEF LeaseExpires, HotExpires, mode
        <3> QED BY <1>0, <1>2, <2>1, <2>2, <3>1, ZenonT(30) DEF LiveInv
    <2>5. CASE create_session
        <3>1. status' = "LIVE" /\ rest' = rest BY <2>5 DEF create_session, mode
        <3> QED BY <2>1, <2>2, <3>1 DEF LiveInv
    <2>6. CASE end_session
        <3>1. rest' = "delete" /\ broken' = {} /\ Using = {}
            BY <1>5, <2>6 DEF end_session, Intact
        <3>2. \A c \in Conns : pc[c] \notin Serving
            BY <2>3, <3>1, UsingIs DEF Serving, Save, Use, Active, Labels
        <3> QED BY <1>0, <2>2, <3>1, <3>2 DEF LiveInv
    <2>7. CASE delete_session_state
        <3>1. status' = status /\ rest' = "done" /\ hot' = NoHot BY <2>7 DEF delete_session_state
        <3> QED BY <1>0, <1>2, <2>1, <3>1 DEF LiveInv
    <2> QED BY <2>4, <2>5, <2>6, <2>7
<1> QED BY <1>1, <1>4, <1>5

\* Every step keeps the invariant.
LEMMA NextInv == IInv /\ [Next]_vars => IInv'
<1> SUFFICES ASSUME IInv, [Next]_vars PROVE IInv' OBVIOUS
<1>0. TypeOK /\ IndexInv /\ ReadInv BY DEF IInv
<1>1. TypeOK' /\ IndexInv' BY IndexStep
<1>2. (Exclusive' => Exclusive) /\ (Intact' => Intact) BY <1>0, IntactBefore
<1>3. ASSUME NEW c \in Conns, Step(c) PROVE IInv'
    <2>1. Only(c) BY <1>0, <1>3, StepType
    <2>2. ReadInv' BY <1>0, <1>3, <2>1, ReadStep
    <2>3. ASSUME Exclusive' PROVE Alone' /\ HotInv'
        <3>1. Alone /\ HotInv /\ transport = "ws" BY <1>2, <2>3 DEF IInv, Exclusive
        <3> QED BY <1>0, <1>3, <2>1, <3>1, AloneStep, HotStep
    <2>4. ASSUME Intact' PROVE LiveInv'
        <3>1. Intact /\ Alone /\ LiveInv BY <1>2, <2>4 DEF IInv, Intact
        <3> QED BY <1>0, <1>1, <1>3, <2>1, <2>4, <3>1, LiveStep
    <2> QED BY <1>1, <2>2, <2>3, <2>4 DEF IInv
<1>4. ASSUME NEW c \in Conns, Crash(c) \/ StoreFails(c) PROVE IInv'
    <2>1. ReadInv' BY <1>0, <1>4, ReadFault
    <2>2. ASSUME Exclusive' PROVE Alone' /\ HotInv'
        BY <1>0, <1>2, <1>4, <2>2, AloneFault, HotFault DEF IInv
    <2>3. ASSUME Intact' PROVE LiveInv'
        <3>1. Intact /\ LiveInv BY <1>2, <2>3 DEF IInv
        <3> QED BY <1>0, <1>4, <2>3, <3>1, LiveFault
    <2> QED BY <1>1, <2>1, <2>2, <2>3 DEF IInv
<1>5. CASE LeaseExpires \/ HotExpires \/ create_session \/ end_session \/ delete_session_state
    <2>1. /\ ReadInv' /\ (Exclusive /\ Exclusive' => Alone' /\ HotInv')
          /\ (Intact /\ Intact' => LiveInv')
        BY <1>5, OtherInv
    <2> QED BY <1>1, <1>2, <2>1 DEF IInv
<1>6. CASE UNCHANGED vars
    <2>1. ReadInv' /\ (Alone => Alone') /\ (HotInv => HotInv') /\ (LiveInv => LiveInv')
        BY <1>0, <1>6, Zenon DEF vars, ReadInv, Alone, HotInv, LiveInv, Using, FirstOnLeaving, NoHot
    <2> QED BY <1>1, <1>2, <2>1, Zenon DEF IInv
<1> QED BY <1>3, <1>4, <1>5, <1>6 DEF Next

\* The inductive invariant holds in every behaviour.
LEMMA AlwaysInv == Spec => []IInv
BY InitInv, NextInv, PTL DEF Spec

\* Every variable keeps its type: indices and counts are numbers, the Redis copy and
\* the collection are sequences of turns, through restores, failures and DELETE.
THEOREM TypeCorrect == Spec => []TypeOK
<1>1. IInv => TypeOK BY ZenonT(30) DEF IInv
<1> QED BY <1>1, AlwaysInv, PTL

\* No two turns are saved under the same turn_index, even by connections that
\* overlap, and every index is below history_count.
THEOREM IndicesAreUnique == Spec => []TurnIndexUnique
<1>1. IInv => TurnIndexUnique
    <2> SUFFICES ASSUME IInv PROVE TurnIndexUnique OBVIOUS
    <2>1. DOMAIN history = 1..Len(history) BY IndexTyped, ZenonT(30) DEF IInv, TypeOK
    <2> QED BY <2>1 DEF IInv, IndexInv, Distinct, TurnIndexUnique
<1> QED BY <1>1, AlwaysInv, PTL

\* While the lease is exclusive the conversation in Redis is in the order of
\* turn_index, with restores, expired keys and processes that die in save_turn.
THEOREM HotIsOrdered == Spec => []HotHistoryOrdered
<1>1. IInv => HotHistoryOrdered
    <2> SUFFICES ASSUME IInv, Exclusive, hot # NoHot
                 PROVE  \A i, j \in DOMAIN hot : i < j => hot[i].index < hot[j].index
        BY ZenonT(30) DEF HotHistoryOrdered
    <2>1. DOMAIN hot = 1..Len(hot) BY IndexTyped DEF IInv, TypeOK
    <2> QED BY <2>1 DEF IInv, HotInv, Rising
<1> QED BY <1>1, AlwaysInv, PTL

-------------------------------------------------------------------------------
(* The refinement of SessionLog.                                            *)

LogOf(h) == [i \in DOMAIN h |-> h[i].conn]
ClosedOf(s) == IF s = "ENDED" THEN "closed" ELSE "open"
OwnerOf(U) == IF U = {} THEN NoConn ELSE CHOOSE c \in U : TRUE

\* The owner is the connection that has store accesses ahead, if any.
LEMMA OwnerIs ==
    ASSUME NEW U, NEW c, c \in U, \A d \in U : d = c
    PROVE  OwnerOf(U) = c
BY ZenonT(30) DEF OwnerOf

\* What a step of c does to the owner.
LEMMA OwnerMoves ==
    ASSUME TypeOK, TypeOK', Alone, Alone', transport = "ws", transport' = "ws",
           NEW c \in Conns, Only(c)
    PROVE  /\ pc[c] \in Use => Owner = c
           /\ pc'[c] \in Use => Owner' = c
           /\ pc[c] \in Use /\ pc'[c] \notin Use => Owner' = NoConn
           /\ pc[c] \notin Use /\ pc'[c] \notin Use => Owner' = Owner
           /\ lease = NoConn => Owner = NoConn
<1>1. Using = {d \in Conns : pc[d] \in Use} BY UsingIs
<1>2. Using' = {d \in Conns : pc'[d] \in Use}
    BY Zenon DEF Using, Use, Active, Labels, FirstOnLeaving, TypeOK
<1>3. Owner = OwnerOf(Using) /\ Owner' = OwnerOf(Using') BY DEF Owner, OwnerOf
<1>4. \A d \in Conns : pc[d] \in Use => lease = d BY DEF Alone, Use
<1>5. \A d \in Conns : pc'[d] \in Use => lease' = d BY ZenonT(30) DEF Alone, Use
<1>6. pc[c] \in Use => Owner = c
    <2> HAVE pc[c] \in Use
    <2>1. c \in Using /\ \A d \in Using : d = c BY <1>1, <1>4, ZenonT(30)
    <2> QED BY <1>3, <2>1, OwnerIs
<1>7. pc'[c] \in Use => Owner' = c
    <2> HAVE pc'[c] \in Use
    <2>1. c \in Using' /\ \A d \in Using' : d = c BY <1>2, <1>5
    <2> QED BY <1>3, <2>1, OwnerIs
<1>8. pc[c] \in Use /\ pc'[c] \notin Use => Owner' = NoConn
    <2> HAVE pc[c] \in Use /\ pc'[c] \notin Use
    <2>1. \A d \in Conns : d # c => pc[d] \notin Use BY <1>4, ZenonT(30)
    <2>2. Using' = {} BY <1>2, <2>1 DEF Only
    <2> QED BY <1>3, <2>2 DEF OwnerOf
<1>9. pc[c] \notin Use /\ pc'[c] \notin Use => Owner' = Owner
    <2> HAVE pc[c] \notin Use /\ pc'[c] \notin Use
    <2>1. Using' = Using BY <1>1, <1>2 DEF Only
    <2> QED BY <1>3, <2>1, ZenonT(30)
<1>10. lease = NoConn => Owner = NoConn
    <2> HAVE lease = NoConn
    <2>1. Using = {} BY <1>1, <1>4, ConfigAssumption
    <2> QED BY <1>3, <2>1 DEF OwnerOf
<1> QED BY <1>6, <1>7, <1>8, <1>9, <1>10

\* A new turn is the last one of the log.
LEMMA LogAppends ==
    ASSUME NEW h \in Seq(Turns), NEW t \in Turns
    PROVE  LogOf(Append(h, t)) = Append(LogOf(h), t.conn)
<1> DEFINE a == Append(h, t)  C == Conns \cup {NoConn}  l == Len(h)
<1>0. l \in Nat /\ DOMAIN h = 1..l /\ \A i \in 1..l : h[i] \in Turns BY IndexTyped
<1>1. /\ Len(a) = l + 1 /\ DOMAIN a = 1..l + 1 /\ a[l + 1] = t
      /\ \A i \in 1..l : a[i] = h[i]
    BY OneMore
<1>2. t.conn \in C /\ \A i \in 1..l : h[i].conn \in C BY <1>0 DEF Turns
<1>3. LogOf(h) \in Seq(C) /\ Len(LogOf(h)) = l /\ \A i \in 1..l : LogOf(h)[i] = h[i].conn
    BY <1>0, <1>2 DEF LogOf
<1>4. /\ Append(LogOf(h), t.conn) \in Seq(C) /\ Len(Append(LogOf(h), t.conn)) = l + 1
      /\ \A i \in 1..l : Append(LogOf(h), t.conn)[i] = h[i].conn
      /\ Append(LogOf(h), t.conn)[l + 1] = t.conn
    BY <1>2, <1>3, OneMore
<1> HIDE DEF a, C, l
<1>5. LogOf(a) = [i \in 1..l + 1 |-> a[i].conn] BY <1>1 DEF LogOf
<1>6. \A i \in 1..l + 1 : i \in 1..l \/ i = l + 1 BY <1>0
<1>7. \A i \in 1..l + 1 : a[i].conn \in C /\ a[i].conn = Append(LogOf(h), t.conn)[i]
    BY <1>1, <1>2, <1>4, <1>6, ZenonT(30)
<1>8. LogOf(a) \in Seq(C) /\ Len(LogOf(a)) = l + 1 BY <1>0, <1>5, <1>7
<1>9. \A i \in 1..l + 1 : LogOf(a)[i] = Append(LogOf(h), t.conn)[i] BY <1>5, <1>7, ZenonT(30)
<1>10. l + 1 \in Nat BY <1>0
<1>11. LogOf(a) = Append(LogOf(h), t.conn) BY <1>4, <1>8, <1>9, <1>10, SameEntries, ZenonT(30)
<1> QED BY <1>11, ZenonT(30) DEF a

\* The forms of a step of SessionLog, while the promise holds.
LEMMA LogForms ==
    ASSUME Intact, Intact', NEW c,
           \/ /\ UNCHANGED <<Owner, history>> /\ ClosedOf(status') = ClosedOf(status)
           \/ /\ Owner = NoConn /\ UNCHANGED <<Owner, history>> /\ ClosedOf(status') = "closed"
           \/ c \in Conns /\ Owner = NoConn /\ Owner' = c /\ UNCHANGED <<history, status>>
           \/ /\ c \in Conns /\ Owner = c /\ Owner' = c /\ UNCHANGED status
              /\ ClosedOf(status) = "open" /\ LogOf(history') = Append(LogOf(history), c)
           \/ /\ c \in Conns /\ Owner = c /\ Owner' = c /\ UNCHANGED history
              /\ ClosedOf(status') = "closed"
           \/ c \in Conns /\ Owner = c /\ Owner' = NoConn /\ UNCHANGED <<history, status>>
    PROVE  [Log!Next]_<<Owner, LogOf(history), ClosedOf(status), ~Intact>>
<1>1. (~Intact)' = (~Intact) OBVIOUS
<1>2. CASE UNCHANGED <<Owner, history>> /\ ClosedOf(status') = ClosedOf(status)
    BY <1>1, <1>2, ZenonT(30) DEF LogOf
<1>3. CASE c \in Conns /\ Owner = NoConn /\ Owner' = c /\ UNCHANGED <<history, status>>
    BY <1>1, <1>3 DEF Log!Next, Log!Open
<1>4. CASE /\ c \in Conns /\ Owner = c /\ Owner' = c /\ UNCHANGED status /\ ClosedOf(status) = "open"
           /\ LogOf(history') = Append(LogOf(history), c)
    BY <1>1, <1>4, ZenonT(30) DEF Log!Next, Log!AppendTurn, LogOf, ClosedOf
<1>5. CASE /\ c \in Conns /\ Owner = c /\ Owner' = c /\ UNCHANGED history /\ ClosedOf(status') = "closed"
    BY <1>1, <1>5, Zenon DEF Log!Next, Log!Close, ClosedOf
<1>6. CASE /\ Owner = NoConn /\ UNCHANGED <<Owner, history>> /\ ClosedOf(status') = "closed"
    BY <1>1, <1>6, Zenon DEF Log!Next, Log!CloseIdle, ClosedOf
<1>7. CASE c \in Conns /\ Owner = c /\ Owner' = NoConn /\ UNCHANGED <<history, status>>
    BY <1>1, <1>7, Zenon DEF Log!Next, Log!Leave
<1> QED BY <1>2, <1>3, <1>4, <1>5, <1>6, <1>7, ZenonT(30)

\* A step of a connection is one of the log, or none.
LEMMA StepRefines ==
    ASSUME IInv, IInv', Intact, Intact', NEW c \in Conns, Step(c), Only(c)
    PROVE  [Log!Next]_<<Owner, LogOf(history), ClosedOf(status), ~Intact>>
<1>0. /\ TypeOK /\ TypeOK' /\ Alone /\ Alone' /\ LiveInv /\ transport = "ws" /\ transport' = "ws"
      /\ Raised = "failed" /\ AfterEnd = "release" /\ FirstOnLeaving = "end_mongo"
      /\ AfterRelease = "done"
    BY DEF IInv, Intact, Exclusive, Raised, AfterEnd, FirstOnLeaving, AfterRelease
<1>a. /\ pc[c] \in Use => Owner = c
      /\ pc'[c] \in Use => Owner' = c
      /\ pc[c] \in Use /\ pc'[c] \notin Use => Owner' = NoConn
      /\ pc[c] \notin Use /\ pc'[c] \notin Use => Owner' = Owner
      /\ lease = NoConn => Owner = NoConn
    BY <1>0, OwnerMoves, ZenonT(30)
<1>1. CASE acquire_lease(c)
    <2>1. /\ pc[c] = "idle" /\ UNCHANGED <<status, history>>
          /\ \/ pc'[c] = "restore" /\ lease = NoConn
             \/ pc'[c] = "done"
        BY <1>0, <1>1, Zenon DEF acquire_lease, LeaseIsFree, At, Goto, TypeOK
    <2>2. CASE pc'[c] = "restore" /\ lease = NoConn
        <3>1. Owner = NoConn /\ Owner' = c BY <1>a, <2>2, Zenon DEF Use, Active, Labels
        <3> QED BY <2>1, <3>1, LogForms, Zenon
    <2>3. CASE pc'[c] = "done"
        <3>1. Owner' = Owner BY <1>a, <2>1, <2>3, ZenonT(30) DEF Use, Active
        <3> QED BY <2>1, <3>1, LogForms, Zenon
    <2> QED BY <2>1, <2>2, <2>3, Zenon
<1>2. CASE RestoreHot(c) \/ RestoreMongo(c) \/ get_recent_history(c) \/ Warm(c) \/ CreateHot(c)
    <2>1. pc[c] \in Use /\ pc'[c] \in Use /\ UNCHANGED <<status, history>>
        BY <1>0, <1>2, ZenonT(30) DEF RestoreHot, RestoreMongo, get_recent_history, Warm, CreateHot, At, Goto,
           TypeOK, Use, Active, Labels
    <2> QED BY <1>a, <2>1, LogForms, Zenon
<1>3. CASE SaveGet(c) \/ SaveSet(c) \/ Disconnect(c)
    <2>1. pc[c] \in Use /\ pc'[c] \in Use /\ UNCHANGED <<status, history>>
        BY <1>0, <1>3, ZenonT(30) DEF SaveGet, SaveSet, Disconnect, At, Goto, TypeOK, Use, Active, Labels
    <2> QED BY <1>a, <2>1, LogForms
<1>4. CASE create(c)
    <2>1. /\ pc[c] = "create" /\ history' = history
          /\ \/ status = "NONE" /\ status' = "LIVE" /\ pc'[c] = "create_hot"
             \/ status' = status /\ pc'[c] = "failed"
        BY <1>0, <1>4, Zenon DEF create, CanInsert, At, Goto, TypeOK
    <2>2. CASE status = "NONE" /\ status' = "LIVE" /\ pc'[c] = "create_hot"
        <3>1. Owner' = Owner BY <1>a, <2>1, <2>2 DEF Use, Active, Labels
        <3>2. ClosedOf(status') = ClosedOf(status) BY <2>2, Zenon DEF ClosedOf
        <3> QED BY <2>1, <3>1, <3>2, LogForms, ZenonT(30)
    <2>3. CASE status' = status /\ pc'[c] = "failed"
        <3>1. Owner = c /\ Owner' = NoConn BY <1>a, <2>1, <2>3, ZenonT(30) DEF Use, Active, Labels
        <3> QED BY <2>1, <2>3, <3>1, LogForms, ZenonT(30)
    <2> QED BY <2>1, <2>2, <2>3, Zenon
<1>5. CASE SaveSession(c)
    <2>1. /\ pc[c] = "serve" /\ pc'[c] = "save_history" /\ status' = "LIVE"
          /\ history' = history
        BY <1>0, <1>5, ZenonT(30) DEF SaveSession, At, Goto, TypeOK
    <2>2. status = "LIVE" BY <1>0, <2>1, ZenonT(30) DEF LiveInv, Serving
    <2>3. Owner' = Owner BY <1>a, <2>1, Zenon DEF Use, Active, Labels
    <2> QED BY <2>1, <2>2, <2>3, LogForms
<1>6. CASE SaveHistory(c)
    <2>1. /\ pc[c] = "save_history" /\ pc'[c] = "save_get" /\ status' = status
          /\ history' = Append(history, Turn(c))
        BY <1>0, <1>6, ZenonT(30) DEF SaveHistory, At, Goto, TypeOK
    <2>2. ClosedOf(status) = "open" BY <1>0, <2>1, ZenonT(30) DEF LiveInv, Serving, Save, ClosedOf
    <2>3. Owner = c /\ Owner' = c BY <1>a, <2>1, ZenonT(30) DEF Use, Active, Labels
    <2>4. Turn(c) \in Turns /\ Turn(c).conn = c BY <1>0, NewHotType DEF Turn
    <2>5. LogOf(history') = Append(LogOf(history), c)
        BY <1>0, <2>1, <2>4, LogAppends, ZenonT(30) DEF TypeOK
    <2> QED BY <2>1, <2>2, <2>3, <2>5, LogForms, ZenonT(30)
<1>7. CASE EndMongo(c)
    <2>1. pc[c] = "end_mongo" /\ pc'[c] = "end_hot" /\ status' = "ENDED" /\ history' = history
        BY <1>0, <1>7, ZenonT(30) DEF EndMongo, At, Goto, TypeOK
    <2>2. Owner = c /\ Owner' = c BY <1>a, <2>1 DEF Use, Active, Labels
    <2>3. ClosedOf(status') = "closed" BY <2>1, Zenon DEF ClosedOf
    <2> QED BY <2>1, <2>2, <2>3, LogForms, ZenonT(30)
<1>8. CASE EndHot(c)
    <2>1. pc[c] = "end_hot" /\ pc'[c] = "release" /\ UNCHANGED <<status, history>>
        BY <1>0, <1>8, Zenon DEF EndHot, At, Goto, TypeOK
    <2>2. Owner = c /\ Owner' = NoConn BY <1>a, <2>1, Zenon DEF Use, Active, Labels
    <2> QED BY <2>1, <2>2, LogForms, Zenon
<1>9. CASE release_lease(c)
    <2>1. /\ pc[c] \in {"release", "release_failed"} /\ pc'[c] = "done"
          /\ UNCHANGED <<status, history>>
        BY <1>0, <1>9, Zenon DEF release_lease, At, Goto, TypeOK
    <2>2. Owner' = Owner BY <1>a, <2>1, ZenonT(30) DEF Use, Active, Labels
    <2> QED BY <2>1, <2>2, LogForms, Zenon
<1> QED BY <1>1, <1>2, <1>3, <1>4, <1>5, <1>6, <1>7, <1>8, <1>9, ZenonT(30) DEF Step

\* A process that dies, or raises, leaves the log as it is.
LEMMA FaultRefines ==
    ASSUME IInv, IInv', Intact, Intact', NEW c \in Conns, Crash(c) \/ StoreFails(c)
    PROVE  [Log!Next]_<<Owner, LogOf(history), ClosedOf(status), ~Intact>>
<1>0. /\ TypeOK /\ TypeOK' /\ Alone /\ Alone' /\ transport = "ws" /\ transport' = "ws"
    BY ZenonT(30) DEF IInv, Intact, Exclusive
<1>1. Only(c) /\ UNCHANGED <<status, history>> BY <1>0, FaultType, Zenon
<1>2. pc'[c] \in Use => pc[c] \in Use
    <2>1. CASE Crash(c) BY <1>0, <2>1, ZenonT(30) DEF Crash, Goto, TypeOK, Use, Active
    <2>2. CASE StoreFails(c)
        BY <1>0, <2>2, FailureGoes, ZenonT(30) DEF AfterEnd, AfterRelease, Use, Active, Labels
    <2> QED BY <2>1, <2>2, ZenonT(30)
<1>3. \/ Owner' = Owner
      \/ Owner = c /\ Owner' = NoConn
    BY <1>0, <1>1, <1>2, OwnerMoves, ZenonT(30)
<1> QED BY <1>1, <1>3, LogForms

\* The steps that are no connection's: DELETE closes a log that nobody owns.
LEMMA OtherRefines ==
    ASSUME IInv, Intact, Intact',
           LeaseExpires \/ HotExpires \/ create_session \/ end_session \/ delete_session_state
    PROVE  [Log!Next]_<<Owner, LogOf(history), ClosedOf(status), ~Intact>>
<1>1. UNCHANGED <<transport, pc, history>> BY OtherType DEF IInv
<1>2. Owner' = Owner BY <1>1 DEF Owner, Using, FirstOnLeaving
<1>3. CASE LeaseExpires \/ HotExpires \/ delete_session_state
    <2>1. status' = status BY <1>3, Zenon DEF LeaseExpires, HotExpires, delete_session_state
    <2> QED BY <1>1, <1>2, <2>1, LogForms, ZenonT(30)
<1>4. CASE create_session
    <2>1. ClosedOf(status') = ClosedOf(status) BY <1>4, Zenon DEF create_session, ClosedOf
    <2> QED BY <1>1, <1>2, <2>1, LogForms, ZenonT(30)
<1>5. CASE end_session
    <2>1. Using = {} /\ ClosedOf(status') = "closed" BY <1>5 DEF end_session, Intact, ClosedOf
    <2>2. Owner = NoConn BY <2>1 DEF Owner
    <2> QED BY <1>1, <1>2, <2>1, <2>2, LogForms, ZenonT(30)
<1> QED BY <1>3, <1>4, <1>5

\* Lease and repository implement the single-writer log: a turn is appended only by
\* the connection that holds the session, and never after it was closed, as long as
\* the lease is exclusive, no end_session was torn and DELETE did not end it next to a
\* connection.
THEOREM LeaseImplementsLog == Spec => ImplementsSessionLog
<1>1. Init => Log!Init
    <2> SUFFICES ASSUME Init PROVE Log!Init OBVIOUS
    <2>1. Using = {} BY DEF Init, Using
    <2>2. [i \in DOMAIN history |-> history[i].conn] = <<>> BY DEF Init
    <2>3. (~Intact) \in BOOLEAN BY Zenon
    <2> QED BY <2>1, <2>2, <2>3 DEF Init, Log!Init, Owner
<1>2. IInv /\ IInv' /\ [Next]_vars
        => [Log!Next]_<<Owner, LogOf(history), ClosedOf(status), ~Intact>>
    <2> SUFFICES ASSUME IInv, IInv', [Next]_vars
                 PROVE  [Log!Next]_<<Owner, LogOf(history), ClosedOf(status), ~Intact>>
        OBVIOUS
    <2>0. TypeOK /\ IndexInv BY DEF IInv
    <2>1. CASE ~Intact' BY <2>1, ZenonT(30) DEF Log!Next
    <2>2. CASE Intact'
        <3>0. Intact BY <2>0, <2>2, IntactBefore
        <3>1. ASSUME NEW c \in Conns, Step(c)
              PROVE  [Log!Next]_<<Owner, LogOf(history), ClosedOf(status), ~Intact>>
            <4>1. Only(c) BY <2>0, <3>1, StepType, ZenonT(30)
            <4> QED BY <2>2, <3>0, <3>1, <4>1, StepRefines, ZenonT(30)
        <3>2. ASSUME NEW c \in Conns, Crash(c) \/ StoreFails(c)
              PROVE  [Log!Next]_<<Owner, LogOf(history), ClosedOf(status), ~Intact>>
            BY <2>2, <3>0, <3>2, FaultRefines
        <3>3. CASE \/ LeaseExpires \/ HotExpires \/ create_session \/ end_session
                   \/ delete_session_state
            BY <2>2, <3>0, <3>3, OtherRefines, ZenonT(30)
        <3>4. CASE UNCHANGED vars
            BY <3>4 DEF vars, Owner, Using, FirstOnLeaving, Intact, Exclusive, LogOf, ClosedOf
        <3> QED BY <3>1, <3>2, <3>3, <3>4 DEF Next
    <2> QED BY <2>1, <2>2, ZenonT(30)
<1> QED BY <1>1, <1>2, AlwaysInv, PTL DEF Spec, ImplementsSessionLog, Log!Spec, LogOf, ClosedOf

===============================================================================
