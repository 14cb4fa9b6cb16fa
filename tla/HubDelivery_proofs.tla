------------------------- MODULE HubDelivery_proofs -------------------------
(***************************************************************************)
(* Theorems about the delivery of an operation's events, for every set of  *)
(* clients, every size of the event buffer and every number of             *)
(* subscriptions, inits and restarts.                                      *)
(*                                                                         *)
(* The inductive invariant has layers.  HubInv: the queue is the tail of   *)
(* the log, and the drain goroutine holds the last event taken from it.    *)
(* ClientInv, one client at a time: what was written to it is in order,    *)
(* and nothing is written before the owner is known or to a stranger.      *)
(* Track: every event is held by the client, excused, above the frontier   *)
(* the drain goroutine has reached, or will be written by a process that   *)
(* is completing the subscription.  AccountInv: what a client holds lies   *)
(* below its cursor or was written since.  The first two give the types    *)
(* and the order, the third that nothing is lost or forgotten, all of them *)
(* the refinement of OperationFeed.                                        *)
(***************************************************************************)
EXTENDS HubDelivery, EventLog_proofs, FiniteSetTheorems

(* Ascending lists a finite set of ids once, in order.                     *)
LEMMA AscendingLists ==
    ASSUME NEW ids \in SUBSET Nat, IsFiniteSet(ids)
    PROVE  LET s == Ascending(ids)
               n == Cardinality(ids)
           IN  /\ n \in Nat /\ s \in [1..n -> ids]
               /\ \A i, j \in 1..n : i < j => s[i] < s[j]
               /\ \A id \in ids : \E i \in 1..n : s[i] = id
<1> DEFINE n == Cardinality(ids)
           upTo(id) == {x \in ids : x <= id}
           rank == [id \in ids |-> Cardinality(upTo(id))]
           Sorted(s) == \A i, j \in 1..n : i < j => s[i] < s[j]
<1>1. n \in Nat BY FS_CardinalityType
<1>2. ASSUME NEW id \in ids
      PROVE  IsFiniteSet(upTo(id)) /\ rank[id] \in 1..n
  <2>1. IsFiniteSet(upTo(id)) /\ Cardinality(upTo(id)) \in Nat /\ Cardinality(upTo(id)) <= n
    BY FS_Subset, FS_CardinalityType
  <2>2. id \in upTo(id) OBVIOUS
  <2>3. Cardinality(upTo(id)) # 0 BY <2>1, <2>2, FS_EmptySet
  <2> QED BY <1>1, <2>1, <2>3
<1>3. ASSUME NEW x \in ids, NEW y \in ids, x < y
      PROVE  rank[x] < rank[y]
  <2>1. upTo(x) \subseteq upTo(y) /\ y \notin upTo(x) /\ y \in upTo(y)
    <3>1. x \in Nat /\ y \in Nat /\ \A z \in ids : z \in Nat OBVIOUS
    <3>2. (\A z \in ids : z <= x => z <= y) /\ ~(y <= x) /\ y <= y BY <1>3, <3>1
    <3> QED BY <3>2
  <2>2. /\ Cardinality(upTo(x)) <= Cardinality(upTo(y))
        /\ Cardinality(upTo(x)) = Cardinality(upTo(y)) => upTo(x) = upTo(y)
    <3> HIDE DEF upTo
    <3> QED BY <1>2, <2>1, FS_Subset
  <2>3. Cardinality(upTo(x)) # Cardinality(upTo(y)) BY <2>1, <2>2
  <2>4. rank[x] = Cardinality(upTo(x)) /\ rank[y] = Cardinality(upTo(y)) OBVIOUS
  <2> HIDE DEF upTo, rank
  <2> QED BY <1>1, <1>2, <2>2, <2>3, <2>4
<1> HIDE DEF rank, upTo
<1>4. \A i \in 1..n : \E id \in ids : rank[id] = i
  <2>1. rank \in Injection(ids, 1..n)
    <3>1. rank \in [ids -> 1..n] BY <1>2 DEF rank
    <3>2. \A x, y \in ids : rank[x] = rank[y] => x = y
      <4> SUFFICES ASSUME NEW x \in ids, NEW y \in ids, rank[x] = rank[y], x # y PROVE FALSE
        OBVIOUS
      <4>1. x < y \/ y < x OBVIOUS
      <4> QED BY <1>1, <1>2, <1>3, <4>1
    <3> QED BY <3>1, <3>2 DEF Injection, IsInjective
  <2>2. IsFiniteSet(1..n) /\ Cardinality(1..n) = n BY <1>1, FS_Interval
  <2>3. rank \in Surjection(ids, 1..n) BY <2>1, <2>2, FS_Injection
  <2> QED BY <2>3 DEF Surjection
<1> DEFINE f == [i \in 1..n |-> CHOOSE id \in ids : rank[id] = i]
<1>5. f \in [1..n -> ids] /\ \A i \in 1..n : rank[f[i]] = i BY <1>4
<1> HIDE DEF f
<1>6. Sorted(f)
  <2> SUFFICES ASSUME NEW i \in 1..n, NEW j \in 1..n, i < j, ~(f[i] < f[j]) PROVE FALSE
    OBVIOUS
  <2>1. f[i] \in ids /\ f[j] \in ids /\ rank[f[i]] = i /\ rank[f[j]] = j BY <1>5
  <2>2. f[i] \in Nat /\ f[j] \in Nat BY <2>1
  <2>3. CASE f[j] = f[i] BY <1>1, <2>1, <2>3
  <2>4. CASE f[j] < f[i]
    <3>1. rank[f[j]] < rank[f[i]] BY <1>3, <2>1, <2>4
    <3> QED BY <1>1, <2>1, <3>1
  <2> QED BY <2>2, <2>3, <2>4
<1> DEFINE s == Ascending(ids)
<1>7. s \in [1..n -> ids] /\ Sorted(s)
  <2>1. \E t \in [1..n -> ids] : \A i, j \in DOMAIN t : i < j => t[i] < t[j]
    BY <1>5, <1>6
  <2>2. /\ s \in [1..n -> ids] /\ \A i, j \in DOMAIN s : i < j => s[i] < s[j]
    BY <2>1 DEF Ascending
  <2> QED BY <2>2
<1> HIDE DEF s
<1>8. \A id \in ids : \E i \in 1..n : s[i] = id
  <2>1. s \in Injection(1..n, ids)
    <3>1. \A i, j \in 1..n : s[i] = s[j] => i = j
      <4> SUFFICES ASSUME NEW i \in 1..n, NEW j \in 1..n, s[i] = s[j], i # j PROVE FALSE
        OBVIOUS
      <4>1. i < j \/ j < i BY <1>1
      <4>2. s[i] \in Nat /\ s[j] \in Nat BY <1>7
      <4> QED BY <1>7, <4>1, <4>2
    <3> QED BY <1>7, <3>1 DEF Injection, IsInjective
  <2>2. IsFiniteSet(1..n) /\ Cardinality(1..n) = n BY <1>1, FS_Interval
  <2>3. s \in Surjection(1..n, ids) BY <2>1, <2>2, FS_Injection
  <2> QED BY <2>3 DEF Surjection
<1> QED BY <1>1, <1>7, <1>8 DEF s

(* A sequence of ids in strictly increasing order, and the ids in it.      *)
Increasing(s) == \A i, j \in 1..Len(s) : i < j => s[i] < s[j]

Elements(s) == {s[i] : i \in DOMAIN s}

(* The largest of a finite set of ids and a number below all of them.      *)
LEMMA MaxOfIds ==
    ASSUME NEW ids \in SUBSET Nat, IsFiniteSet(ids), NEW n \in Nat, \A id \in ids : n < id
    PROVE  LET m == Max({n} \cup ids)
           IN  /\ m \in Nat /\ n <= m /\ m \in {n} \cup ids
               /\ \A id \in ids : id <= m
               /\ ids # {} => m = Ascending(ids)[Cardinality(ids)]
               /\ ids = {} => m = n
<1> DEFINE s == Ascending(ids)
           k == Cardinality(ids)
           top == IF ids = {} THEN n ELSE s[k]
           IsMax(x) == x \in {n} \cup ids /\ \A y \in {n} \cup ids : x >= y
<1>1. /\ k \in Nat /\ s \in [1..k -> ids]
      /\ \A i, j \in 1..k : i < j => s[i] < s[j]
      /\ \A id \in ids : \E i \in 1..k : s[i] = id
  BY AscendingLists
<1>2. ids # {} => k \in 1..k BY <1>1, FS_EmptySet
<1> HIDE DEF s, k
<1>3. IsMax(top)
  <2>1. CASE ids = {} BY <2>1
  <2>2. CASE ids # {}
    <3>1. s[k] \in ids /\ s[k] \in Nat BY <1>1, <1>2, <2>2
    <3>2. ASSUME NEW y \in ids PROVE s[k] >= y
      <4>1. PICK i \in 1..k : s[i] = y BY <1>1
      <4>2. i = k \/ i < k BY <1>1
      <4> QED BY <1>1, <1>2, <2>2, <3>1, <4>1, <4>2
    <3>3. s[k] >= n BY <3>1
    <3> QED BY <2>2, <3>1, <3>2, <3>3
  <2> QED BY <2>1, <2>2
<1>4. Max({n} \cup ids) = CHOOSE x \in {n} \cup ids : \A y \in {n} \cup ids : x >= y
  BY DEF Max
<1>5. IsMax(Max({n} \cup ids)) BY <1>3, <1>4
<1>6. Max({n} \cup ids) = top
  <2>1. top \in Nat /\ Max({n} \cup ids) \in Nat BY <1>3, <1>5
  <2>2. top >= Max({n} \cup ids) /\ Max({n} \cup ids) >= top BY <1>3, <1>5
  <2> QED BY <2>1, <2>2
<1>7. top \in {n} \cup ids /\ top \in Nat /\ n <= top /\ \A id \in ids : id <= top BY <1>3
<1> QED BY <1>6, <1>7 DEF s, k

(* Appending ids above all that were written keeps the order.              *)
LEMMA AppendAscending ==
    ASSUME NEW ids \in SUBSET Nat, IsFiniteSet(ids), NEW n \in Nat, \A id \in ids : n < id,
           NEW g \in Seq(Nat), Increasing(g), g # << >> => Last(g) = n
    PROVE  LET h == g \o Ascending(ids)
           IN  /\ h \in Seq(Nat) /\ Increasing(h)
               /\ Elements(h) = Elements(g) \cup ids
               /\ (h = << >>) <=> (g = << >> /\ ids = {})
               /\ h # << >> => Last(h) = Max({n} \cup ids)
               /\ h # << >> => h[1] = IF g # << >> THEN g[1] ELSE Ascending(ids)[1]
               /\ h # << >> /\ g = << >> => h[1] > n
<1> DEFINE s == Ascending(ids)
           k == Cardinality(ids)
           l == Len(g)
           h == g \o s
<1>1. /\ k \in Nat /\ s \in [1..k -> ids]
      /\ \A i, j \in 1..k : i < j => s[i] < s[j]
      /\ \A id \in ids : \E i \in 1..k : s[i] = id
  BY AscendingLists
<1>2. ((k = 0) <=> (ids = {})) /\ (ids # {} => k \in 1..k)
  <2>1. (k = 0) <=> (ids = {}) BY FS_EmptySet
  <2>2. k \in Nat BY <1>1
  <2> HIDE DEF k
  <2>3. k # 0 => k \in 1..k BY <2>2
  <2> QED BY <2>1, <2>3
<1>3. s \in Seq(Nat) /\ Len(s) = k
  <2> HIDE DEF s, k
  <2>1. s \in [1..k -> Nat] BY <1>1
  <2>2. s \in Seq(Nat) BY <1>1, <2>1, SeqDef
  <2>3. Len(s) \in Nat /\ 1..Len(s) = 1..k BY <2>1, <2>2, LenProperties
  <2> QED BY <1>1, <2>2, <2>3
<1>4. l \in Nat /\ g \in [1..l -> Nat] /\ ((g = << >>) <=> (l = 0)) BY LenProperties, EmptySeq
<1>5. /\ ids # {} => Max({n} \cup ids) = s[k]
      /\ ids = {} => Max({n} \cup ids) = n
  BY MaxOfIds
<1> HIDE DEF s, k, l
<1>6. /\ h \in Seq(Nat) /\ Len(h) = l + k
      /\ \A i \in 1..(l + k) : h[i] = IF i <= l THEN g[i] ELSE s[i - l]
  BY <1>3, ConcatProperties DEF l
<1>7. DOMAIN h = 1..(l + k) /\ ((h = << >>) <=> (l + k = 0)) BY <1>6, LenProperties, EmptySeq
<1>8. (k = 0) <=> (ids = {}) BY <1>2
<1>9. \A i \in 1..l : g[i] \in Nat /\ g[i] <= n
  <2> SUFFICES ASSUME NEW i \in 1..l PROVE g[i] \in Nat /\ g[i] <= n OBVIOUS
  <2>1. g # << >> /\ g[l] = n BY <1>4 DEF Last, l
  <2>2. i = l \/ i < l BY <1>4
  <2>3. l \in 1..l BY <1>4
  <2>4. i < l => g[i] < g[l] BY <2>3 DEF Increasing, l
  <2> QED BY <1>4, <2>1, <2>2, <2>4
<1> HIDE DEF h
<1>10. Increasing(h)
  <2> SUFFICES ASSUME NEW i \in 1..(l + k), NEW j \in 1..(l + k), i < j PROVE h[i] < h[j]
    BY <1>6 DEF Increasing
  <2>1. CASE j <= l
    <3>1. h[i] = g[i] /\ h[j] = g[j] /\ i \in 1..l /\ j \in 1..l BY <1>1, <1>4, <1>6, <2>1
    <3>2. g[i] < g[j] BY <3>1 DEF Increasing, l
    <3> QED BY <3>1, <3>2
  <2>2. CASE i <= l /\ j > l
    <3>1. h[i] = g[i] /\ i \in 1..l /\ h[j] = s[j - l] /\ j - l \in 1..k
      BY <1>1, <1>4, <1>6, <2>2
    <3>2. h[i] \in Nat /\ h[i] <= n /\ h[j] \in ids /\ h[j] \in Nat /\ n < h[j]
      BY <1>1, <1>9, <3>1
    <3> QED BY <3>2
  <2>3. CASE i > l
    <3>1. h[i] = s[i - l] /\ h[j] = s[j - l] /\ i - l \in 1..k /\ j - l \in 1..k /\ i - l < j - l
      BY <1>1, <1>4, <1>6, <2>3
    <3> QED BY <1>1, <3>1
  <2> QED BY <1>1, <1>4, <2>1, <2>2, <2>3
<1>11. Elements(h) = Elements(g) \cup ids
  <2>1. \A i \in 1..(l + k) : h[i] \in Elements(g) \cup ids
    <3> SUFFICES ASSUME NEW i \in 1..(l + k) PROVE h[i] \in Elements(g) \cup ids OBVIOUS
    <3>1. CASE i <= l
      <4>1. i \in 1..l /\ h[i] = g[i] BY <1>1, <1>4, <1>6, <3>1
      <4> QED BY <1>4, <4>1 DEF Elements
    <3>2. CASE i > l
      <4>1. h[i] = s[i - l] /\ i - l \in 1..k BY <1>1, <1>4, <1>6, <3>2
      <4> QED BY <1>1, <4>1
    <3> QED BY <1>1, <1>4, <3>1, <3>2
  <2>2. \A i \in 1..l : g[i] \in Elements(h)
    <3> SUFFICES ASSUME NEW i \in 1..l PROVE g[i] \in Elements(h) OBVIOUS
    <3>1. i \in 1..(l + k) /\ h[i] = g[i] BY <1>1, <1>4, <1>6
    <3> QED BY <1>7, <3>1 DEF Elements
  <2>3. \A id \in ids : id \in Elements(h)
    <3> SUFFICES ASSUME NEW id \in ids PROVE id \in Elements(h) OBVIOUS
    <3>1. PICK i \in 1..k : s[i] = id BY <1>1
    <3>2. l + i \in 1..(l + k) /\ l + i > l /\ (l + i) - l = i BY <1>1, <1>4
    <3>3. h[l + i] = s[i] BY <1>4, <1>6, <3>2
    <3> QED BY <1>7, <3>1, <3>2, <3>3 DEF Elements
  <2> QED BY <1>4, <1>7, <2>1, <2>2, <2>3 DEF Elements
<1>12. h # << >> => Last(h) = Max({n} \cup ids)
  <2> SUFFICES ASSUME h # << >> PROVE h[l + k] = Max({n} \cup ids) BY <1>6 DEF Last
  <2>1. CASE ids = {}
    <3>1. k = 0 /\ l # 0 BY <1>7, <1>8, <2>1
    <3>2. l + k \in 1..(l + k) /\ l + k <= l /\ l + k = l BY <1>1, <1>4, <3>1
    <3>3. h[l + k] = g[l] BY <1>6, <3>2
    <3>4. g[l] = n BY <1>4, <3>1 DEF Last, l
    <3> QED BY <1>5, <2>1, <3>3, <3>4
  <2>2. CASE ids # {}
    <3>1. l + k \in 1..(l + k) /\ ~(l + k <= l) /\ (l + k) - l = k BY <1>1, <1>2, <1>4, <2>2
    <3> QED BY <1>5, <1>6, <2>2, <3>1
  <2> QED BY <2>1, <2>2
<1>13. h # << >> => h[1] = IF g # << >> THEN g[1] ELSE s[1]
  <2> SUFFICES ASSUME h # << >> PROVE h[1] = IF g # << >> THEN g[1] ELSE s[1] OBVIOUS
  <2>1. 1 \in 1..(l + k) BY <1>1, <1>4, <1>7
  <2>2. h[1] = IF 1 <= l THEN g[1] ELSE s[1 - l] BY <1>6, <2>1
  <2> QED BY <1>4, <2>2
<1>14. h # << >> /\ g = << >> => h[1] > n
  <2> SUFFICES ASSUME h # << >>, g = << >> PROVE s[1] > n BY <1>13
  <2>1. 1 \in 1..k BY <1>1, <1>4, <1>7
  <2>2. s[1] \in ids BY <1>1, <2>1
  <2> QED BY <2>2
<1>15. (h = << >>) <=> (g = << >> /\ ids = {}) BY <1>1, <1>4, <1>7, <1>8
<1> QED BY <1>6, <1>10, <1>11, <1>12, <1>13, <1>14, <1>15 DEF h, s

-----------------------------------------------------------------------------

(* The type of the log, the queue and the drain goroutine.                 *)
HubTypeOK ==
    /\ LogTypeOK
    /\ hubOverflow \in BOOLEAN
    /\ hubQueue \in Seq(Event) /\ Len(hubQueue) <= EventBufferMax
    /\ drain \in [pc : DrainLabels, event : Event, todo : SUBSET Clients]
    /\ toolIds \subseteq 1..eventCounter

(* The events that have left the queue, one way or another.                *)
Drained == eventCounter - Len(hubQueue)

(* The queue holds the last events of the log; a tool_execute event in it  *)
(* is one.                                                                 *)
QueueIsTail ==
    /\ Len(hubQueue) <= eventCounter
    /\ \A i \in 1..Len(hubQueue) :
          /\ hubQueue[i].id = Drained + i
          /\ hubQueue[i].payload = "tool" => hubQueue[i].id \in toolIds

(* The event in the hands of the drain goroutine is the last one taken,    *)
(* unless the queue overflowed meanwhile.                                  *)
TakenIsDrained ==
    drain.pc \in {"target", "deliver"} =>
        /\ drain.event.id \in 1..Drained
        /\ hubOverflow \/ drain.event.id = Drained
        /\ drain.event.payload = "tool" => drain.event.id \in toolIds

HubInv == HubTypeOK /\ BufferIsSuffix /\ QueueIsTail /\ TakenIsDrained

USE HubAssumption, EventLogAssumption

(* The drain goroutine, not running or between two events, has its type.   *)
LEMMA IdleDrainTyped ==
    /\ IdleDrain \in [pc : DrainLabels, event : Event, todo : SUBSET Clients]
    /\ [IdleDrain EXCEPT !.pc = "take"] \in [pc : DrainLabels, event : Event, todo : SUBSET Clients]
BY DEF IdleDrain, DrainLabels, Event, NoEvent, Kinds

(* The hub layer: true at the start, ...                                   *)
LEMMA HubInit == Init => HubInv
<1> SUFFICES ASSUME Init PROVE HubInv OBVIOUS
<1>1. LogTypeOK /\ BufferIsSuffix BY InitInvariant DEF Init, IInv
<1>2. /\ hubQueue = << >> /\ << >> \in Seq(Event) /\ Len(<< >>) = 0 /\ eventCounter = 0
  BY EmptySeq DEF Init, LogInit
<1>3. HubTypeOK
  <2>1. hubOverflow = FALSE /\ drain = IdleDrain /\ toolIds = {} BY DEF Init
  <2>2. 0 <= EventBufferMax OBVIOUS
  <2> QED BY <1>1, <1>2, <2>1, <2>2, IdleDrainTyped DEF HubTypeOK
<1>4. QueueIsTail BY <1>2 DEF QueueIsTail
<1>5. TakenIsDrained BY DEF Init, IdleDrain, TakenIsDrained
<1> QED BY <1>1, <1>3, <1>4, <1>5 DEF HubInv

(* ... kept by an event entering the log and the queue, which may          *)
(* overflow, ...                                                           *)
LEMMA HubPush == ASSUME HubInv, NEW kind \in Payloads, PushEvent(kind) PROVE HubInv'
<1> DEFINE e == [id |-> eventCounter + 1, payload |-> kind]
           n == Len(hubQueue)
<1>1. /\ Record(kind) /\ QueueHubEvent(e)
      /\ toolIds' = IF kind = "tool" THEN toolIds \cup {eventCounter + 1} ELSE toolIds
  BY DEF PushEvent
<1>2. LogTypeOK' /\ BufferIsSuffix'
  BY <1>1, RecordInvariant DEF HubInv, HubTypeOK, IInv
<1>3. /\ eventCounter \in Nat /\ eventCounter' = eventCounter + 1
      /\ e \in Event /\ e.id = eventCounter + 1 /\ e.payload = kind
  BY <1>1 DEF HubInv, HubTypeOK, LogTypeOK, Record, Event, Kinds
<1>4. hubQueue \in Seq(Event) /\ n \in Nat /\ n <= EventBufferMax /\ n <= eventCounter
  BY LenProperties DEF HubInv, HubTypeOK, QueueIsTail
<1>5. /\ hubQueue' = IF n >= EventBufferMax THEN <<e>> ELSE Append(hubQueue, e)
      /\ hubOverflow' = (hubOverflow \/ n >= EventBufferMax)
      /\ drain' = IF drain.pc = "idle" THEN [drain EXCEPT !.pc = "take"] ELSE drain
  BY <1>1 DEF QueueHubEvent
<1>6. hubOverflow' \in BOOLEAN BY <1>5
<1>7. /\ drain' \in [pc : DrainLabels, event : Event, todo : SUBSET Clients]
      /\ drain'.pc \in {"target", "deliver"} => drain' = drain
  BY <1>5 DEF HubInv, HubTypeOK, DrainLabels
<1>8. toolIds \subseteq toolIds' /\ toolIds' \subseteq 1..eventCounter'
      /\ (kind = "tool" => eventCounter + 1 \in toolIds')
  BY <1>1, <1>3 DEF HubInv, HubTypeOK
<1> HIDE DEF e, n
<1>9. CASE n >= EventBufferMax
  <2>1. hubQueue' = <<e>> /\ Len(<<e>>) = 1 /\ <<e>>[1] = e /\ <<e>> \in Seq(Event)
    BY <1>3, <1>5, <1>9
  <2>2. HubTypeOK'
    BY <1>2, <1>6, <1>7, <1>8, <2>1 DEF HubTypeOK
  <2>3. QueueIsTail'
    BY <1>3, <1>8, <2>1 DEF QueueIsTail, Drained
  <2>4. TakenIsDrained'
    <3> SUFFICES ASSUME drain'.pc \in {"target", "deliver"}
                 PROVE  /\ drain'.event.id \in 1..Drained'
                        /\ hubOverflow' \/ drain'.event.id = Drained'
                        /\ drain'.event.payload = "tool" => drain'.event.id \in toolIds'
      BY DEF TakenIsDrained
    <3>1. /\ drain' = drain /\ drain.event.id \in 1..Drained
          /\ drain.event.payload = "tool" => drain.event.id \in toolIds
      BY <1>7 DEF HubInv, TakenIsDrained
    <3>2. hubOverflow' BY <1>5, <1>9
    <3>3. Drained' = eventCounter /\ Drained = eventCounter - n BY <1>3, <2>1 DEF Drained, n
    <3>4. drain.event.id \in 1..Drained' BY <1>3, <1>4, <3>1, <3>3
    <3> QED BY <1>8, <3>1, <3>2, <3>4
  <2> QED BY <1>2, <2>2, <2>3, <2>4 DEF HubInv
<1>10. CASE ~(n >= EventBufferMax)
  <2>1. /\ hubQueue' = Append(hubQueue, e) /\ hubQueue' \in Seq(Event) /\ Len(hubQueue') = n + 1
        /\ \A i \in 1..n : hubQueue'[i] = hubQueue[i]
        /\ hubQueue'[n + 1] = e
    BY <1>3, <1>4, <1>5, <1>10, AppendProperties DEF n
  <2>2. HubTypeOK'
    BY <1>2, <1>4, <1>6, <1>7, <1>8, <1>10, <2>1 DEF HubTypeOK
  <2>3. Drained' = Drained BY <1>3, <1>4, <2>1 DEF Drained, n
  <2>4. QueueIsTail'
    <3>1. ASSUME NEW i \in 1..(n + 1)
          PROVE  /\ hubQueue'[i].id = Drained + i
                 /\ hubQueue'[i].payload = "tool" => hubQueue'[i].id \in toolIds'
      <4>1. CASE i = n + 1
        BY <1>3, <1>4, <1>8, <2>1, <4>1 DEF Drained, n
      <4>2. CASE i # n + 1
        <5>1. i \in 1..n BY <1>4, <4>2
        <5> QED BY <1>8, <2>1, <5>1 DEF HubInv, QueueIsTail, n
      <4> QED BY <4>1, <4>2
    <3>2. n + 1 <= eventCounter' BY <1>3, <1>4
    <3> QED BY <2>1, <2>3, <3>1, <3>2 DEF QueueIsTail
  <2>5. TakenIsDrained'
    BY <1>5, <1>7, <1>8, <1>10, <2>3 DEF HubInv, TakenIsDrained
  <2> QED BY <1>2, <2>2, <2>4, <2>5 DEF HubInv
<1> QED BY <1>9, <1>10

(* The drain goroutine takes the head of the queue.                        *)
LEMMA HubTake == ASSUME HubInv, DrainTake PROVE HubInv'
<1>1. /\ LogTypeOK /\ BufferIsSuffix /\ UNCHANGED <<eventCounter, eventBuffer, toolIds>>
      /\ LogTypeOK' /\ BufferIsSuffix'
  BY DEF HubInv, HubTypeOK, DrainTake, logVars, LogTypeOK, BufferIsSuffix
<1>2. /\ hubQueue \in Seq(Event) /\ Len(hubQueue) \in Nat /\ eventCounter \in Nat
      /\ Len(hubQueue) <= EventBufferMax /\ Len(hubQueue) <= eventCounter
      /\ toolIds \subseteq 1..eventCounter /\ hubOverflow \in BOOLEAN
  BY <1>1, LenProperties DEF HubInv, HubTypeOK, QueueIsTail, LogTypeOK
<1>3. << >> \in Seq(Event) /\ Len(<< >>) = 0 BY EmptySeq
<1>4. drain \in [pc : DrainLabels, event : Event, todo : SUBSET Clients]
  BY DEF HubInv, HubTypeOK
<1>5. CASE hubOverflow
  <2>1. /\ hubOverflow' = FALSE /\ hubQueue' = << >> /\ drain' = [drain EXCEPT !.pc = "overflow"]
    BY <1>5 DEF DrainTake
  <2>2. HubTypeOK'
    <3>1. drain' \in [pc : DrainLabels, event : Event, todo : SUBSET Clients]
      BY <1>4, <2>1 DEF DrainLabels
    <3>2. 0 <= EventBufferMax OBVIOUS
    <3> QED BY <1>1, <1>2, <1>3, <2>1, <3>1, <3>2 DEF HubTypeOK
  <2>3. QueueIsTail' BY <1>1, <1>2, <1>3, <2>1 DEF QueueIsTail
  <2>4. TakenIsDrained' BY <1>4, <2>1 DEF TakenIsDrained
  <2> QED BY <1>1, <2>2, <2>3, <2>4 DEF HubInv
<1>6. CASE ~hubOverflow /\ hubQueue = << >>
  <2>1. drain' = IdleDrain /\ UNCHANGED <<hubOverflow, hubQueue>> BY <1>6 DEF DrainTake
  <2>2. HubTypeOK'
    BY <1>1, <1>2, <2>1, IdleDrainTyped DEF HubTypeOK
  <2>3. QueueIsTail' BY <1>1, <2>1 DEF HubInv, QueueIsTail, Drained
  <2>4. TakenIsDrained' BY <2>1 DEF TakenIsDrained, IdleDrain
  <2> QED BY <1>1, <2>2, <2>3, <2>4 DEF HubInv
<1>7. CASE ~hubOverflow /\ hubQueue # << >>
  <2>1. /\ drain' = [drain EXCEPT !.pc = "target", !.event = Head(hubQueue)]
        /\ hubQueue' = Tail(hubQueue) /\ hubOverflow' = hubOverflow
    BY <1>7 DEF DrainTake
  <2>2. /\ Head(hubQueue) \in Event /\ Head(hubQueue) = hubQueue[1]
        /\ Tail(hubQueue) \in Seq(Event) /\ Len(Tail(hubQueue)) = Len(hubQueue) - 1
        /\ \A i \in 1..(Len(hubQueue) - 1) : Tail(hubQueue)[i] = hubQueue[i + 1]
    BY <1>2, <1>7, HeadTailProperties
  <2>3. 1 \in 1..Len(hubQueue) BY <1>2, <1>7, EmptySeq
  <2>4. Drained' = Drained + 1 BY <1>1, <1>2, <2>1, <2>2 DEF Drained
  <2>5. HubTypeOK'
    <3>1. drain' \in [pc : DrainLabels, event : Event, todo : SUBSET Clients]
      BY <1>4, <2>1, <2>2 DEF DrainLabels
    <3>2. Len(hubQueue') <= EventBufferMax BY <1>2, <2>1, <2>2
    <3> QED BY <1>1, <1>2, <2>1, <2>2, <3>1, <3>2 DEF HubTypeOK
  <2>6. QueueIsTail'
    <3>1. ASSUME NEW i \in 1..(Len(hubQueue) - 1)
          PROVE  /\ hubQueue'[i].id = Drained' + i
                 /\ hubQueue'[i].payload = "tool" => hubQueue'[i].id \in toolIds'
      <4>1. i + 1 \in 1..Len(hubQueue) /\ hubQueue'[i] = hubQueue[i + 1]
        BY <1>2, <2>1, <2>2
      <4>2. Drained + (i + 1) = Drained' + i BY <1>2, <2>4 DEF Drained
      <4> QED BY <1>1, <4>1, <4>2 DEF HubInv, QueueIsTail
    <3> QED BY <1>1, <1>2, <2>1, <2>2, <3>1 DEF QueueIsTail
  <2>7. TakenIsDrained'
    <3>1. drain'.event = hubQueue[1] BY <1>4, <2>1, <2>2
    <3>2. Drained \in Nat BY <1>2 DEF Drained
    <3> QED BY <1>1, <2>3, <2>4, <3>1, <3>2 DEF HubInv, QueueIsTail, TakenIsDrained
  <2> QED BY <1>1, <2>5, <2>6, <2>7 DEF HubInv
<1> QED BY <1>2, <1>5, <1>6, <1>7

(* Nothing but drain changes, and it keeps its event or drops it.          *)
LEMMA HubDrainOnly ==
    ASSUME HubInv, UNCHANGED <<logVars, hubQueue, hubOverflow, toolIds>>,
           drain' \in [pc : DrainLabels, event : Event, todo : SUBSET Clients],
           drain'.pc \in {"target", "deliver"} =>
               drain.pc \in {"target", "deliver"} /\ drain'.event = drain.event
    PROVE  HubInv'
<1>1. HubTypeOK' BY DEF HubInv, HubTypeOK, LogTypeOK, logVars
<1>2. BufferIsSuffix' BY DEF HubInv, BufferIsSuffix, logVars
<1>3. Drained' = Drained BY DEF Drained, logVars
<1>4. QueueIsTail' BY <1>3 DEF HubInv, QueueIsTail, logVars
<1>5. TakenIsDrained' BY <1>3 DEF HubInv, TakenIsDrained
<1> QED BY <1>1, <1>2, <1>4, <1>5 DEF HubInv

(* ... by the drain goroutine being done with one more client, ...         *)
LEMMA HubPast ==
    ASSUME HubInv, NEW c \in Clients, drain' = DrainPast(c),
           UNCHANGED <<logVars, hubQueue, hubOverflow, toolIds>>
    PROVE  HubInv'
<1>1. drain \in [pc : DrainLabels, event : Event, todo : SUBSET Clients] BY DEF HubInv, HubTypeOK
<1>2. CASE drain.pc \in {"deliver", "evict"} /\ drain.todo \subseteq {c}
  <2>1. drain' = [IdleDrain EXCEPT !.pc = "take"] BY <1>2 DEF DrainPast
  <2>2. drain'.pc = "take" BY <2>1 DEF IdleDrain
  <2> QED BY <2>1, <2>2, HubDrainOnly, IdleDrainTyped
<1>3. CASE ~(drain.pc \in {"deliver", "evict"} /\ drain.todo \subseteq {c})
  <2>1. drain' = [drain EXCEPT !.todo = @ \ {c}] BY <1>3 DEF DrainPast
  <2>2. drain'.pc = drain.pc /\ drain'.event = drain.event BY <1>1, <2>1
  <2> QED BY <1>1, <2>1, <2>2, HubDrainOnly
<1> QED BY <1>2, <1>3

(* ... choosing the targets of the event it took, ...                      *)
LEMMA HubTarget == ASSUME HubInv, DrainTarget PROVE HubInv'
<1>1. drain \in [pc : DrainLabels, event : Event, todo : SUBSET Clients] BY DEF HubInv, HubTypeOK
<1>2. UNCHANGED <<logVars, hubQueue, hubOverflow, toolIds>> BY DEF DrainTarget
<1>3. CASE Targets(drain.event.payload) = {}
  <2>1. drain' = [IdleDrain EXCEPT !.pc = "take"] BY <1>3 DEF DrainTarget
  <2>2. drain'.pc = "take" BY <2>1 DEF IdleDrain
  <2> QED BY <1>2, <2>1, <2>2, HubDrainOnly, IdleDrainTyped
<1>4. CASE Targets(drain.event.payload) # {}
  <2>1. /\ drain' = [drain EXCEPT !.pc = "deliver", !.todo = Targets(drain.event.payload)]
        /\ drain.pc = "target"
    BY <1>4 DEF DrainTarget
  <2>2. Targets(drain.event.payload) \subseteq Clients BY DEF Targets
  <2>3. drain' \in [pc : DrainLabels, event : Event, todo : SUBSET Clients]
    <3> HIDE DEF Targets
    <3> QED BY <1>1, <2>1, <2>2 DEF DrainLabels
  <2>4. drain'.event = drain.event BY <1>1, <2>1
  <2> QED BY <1>2, <2>1, <2>3, <2>4, HubDrainOnly
<1> QED BY <1>3, <1>4

(* ... taking the snapshot of the connections to evict, ...                *)
LEMMA HubSnapshot == ASSUME HubInv, EvictSnapshot PROVE HubInv'
<1> DEFINE open == {c \in Clients : connected[c]}
<1>1. drain \in [pc : DrainLabels, event : Event, todo : SUBSET Clients] BY DEF HubInv, HubTypeOK
<1>2. UNCHANGED <<logVars, hubQueue, hubOverflow, toolIds>> BY DEF EvictSnapshot
<1>3. drain' = [drain EXCEPT !.pc = "take"] \/ drain' = [drain EXCEPT !.pc = "evict", !.todo = open]
  BY DEF EvictSnapshot
<1>4. open \subseteq Clients OBVIOUS
<1> HIDE DEF open
<1>5. drain' \in [pc : DrainLabels, event : Event, todo : SUBSET Clients]
  BY <1>1, <1>3, <1>4 DEF DrainLabels
<1>6. drain'.pc \in {"take", "evict"} BY <1>1, <1>3
<1> QED BY <1>2, <1>5, <1>6, HubDrainOnly

(* ... and by the restart of the process.                                  *)
LEMMA HubRestart == ASSUME HubInv, Restart PROVE HubInv'
<1>1. /\ eventCounter' = 0 /\ eventBuffer' = << >> /\ hubQueue' = << >> /\ hubOverflow' = FALSE
      /\ drain' = IdleDrain /\ toolIds' = {}
  BY DEF Restart
<1>2. << >> \in Seq(Event) /\ << >> \in Seq(BufferedEvent) /\ Len(<< >>) = 0 /\ 0 <= EventBufferMax
  BY EmptySeq
<1>3. LogTypeOK' BY <1>1, <1>2 DEF LogTypeOK
<1>4. BufferIsSuffix' BY <1>1, <1>2 DEF BufferIsSuffix
<1>5. HubTypeOK' BY <1>1, <1>2, <1>3, IdleDrainTyped DEF HubTypeOK
<1>6. QueueIsTail' BY <1>1, <1>2 DEF QueueIsTail
<1>7. TakenIsDrained' BY <1>1 DEF TakenIsDrained, IdleDrain
<1> QED BY <1>4, <1>5, <1>6, <1>7 DEF HubInv

(* Nothing else touches the log or the queue.                              *)
LEMMA HubSame ==
    HubInv /\ UNCHANGED <<logVars, hubVars, toolIds>> => HubInv'
BY DEF HubInv, HubTypeOK, LogTypeOK, BufferIsSuffix, QueueIsTail, TakenIsDrained, Drained,
       logVars, hubVars

(* The log and the queue in front of the drain goroutine.                  *)
LEMMA HubStep == HubInv /\ [Next]_vars => HubInv'
<1> SUFFICES ASSUME HubInv, [Next]_vars PROVE HubInv' OBVIOUS
<1>1. ASSUME NEW kind \in Payloads, PushEvent(kind) PROVE HubInv' BY <1>1, HubPush
<1>2. CASE InitOperation BY <1>2, HubSame DEF InitOperation
<1>3. ASSUME NEW k \in 1..MaxInits, NotifyStep(k) PROVE HubInv'
  BY <1>3, HubSame DEF NotifyStep, NotifySnapshot, NotifyVisit
<1>4. CASE DrainStep
  <2>1. ASSUME NEW c \in Clients, DrainDeliver(c) \/ EvictVisit(c) PROVE HubInv'
    BY <2>1, HubPast DEF DrainDeliver, EvictVisit
  <2> QED BY <1>4, <2>1, HubTake, HubTarget, HubSnapshot DEF DrainStep
<1>5. ASSUME NEW c \in Clients, Connect(c) \/ Subscribe(c) \/ Unsubscribe(c) PROVE HubInv'
  BY <1>5, HubSame DEF Connect, Subscribe, Unsubscribe
<1>6. ASSUME NEW c \in Clients, Disconnect(c) PROVE HubInv' BY <1>6, HubPast DEF Disconnect
<1>7. ASSUME NEW c \in Clients, NEW p \in Procs, CompleteSubscribe(c, p) PROVE HubInv'
  <2>1. UNCHANGED <<logVars, hubVars, toolIds>>
    BY <1>7 DEF CompleteSubscribe, CheckOwner, Park, RecheckOwner, Unpark, ReadPosition,
                CollectReplay, WriteReplay, ResumeComplete, ProcUnchanged
  <2> QED BY <2>1, HubSame
<1>8. CASE Restart BY <1>8, HubRestart
<1>9. CASE UNCHANGED vars BY <1>9, HubSame DEF vars
<1> QED BY <1>1, <1>2, <1>3, <1>4, <1>5, <1>6, <1>7, <1>8, <1>9 DEF Next

-----------------------------------------------------------------------------

(* Where completeSubscribe is before it has seen the owner.                *)
BeforeOwner == {"idle", "start", "park", "recheck", "unpark"}

(* The type of the bookkeeping.                                            *)
BookTypeOK ==
    /\ ownerKnown \in BOOLEAN
    /\ notifier \in [1..MaxInits -> [pc : {"idle", "snapshot", "visit"}, todo : SUBSET Clients]]
    /\ misled \subseteq Clients /\ inits \in 0..MaxInits /\ restarts \in 0..MaxRestarts
    /\ subscribes \in 0..MaxSubscribes

(* The type of the clients and of the server's side of each.               *)
ClientTypeOK ==
    /\ connected \in [Clients -> BOOLEAN]
    /\ sub \in [Clients -> Subscription] /\ proc \in [Clients -> [Procs -> Process]]
    /\ got \in [Clients -> Seq(Nat)] /\ cursor \in [Clients -> Nat]
    /\ known \in [Clients -> SUBSET Nat] /\ gaps \in [Clients -> Nat]

(* The type invariant is that of the log and queue, of the bookkeeping and *)
(* of the clients.                                                         *)
LEMMA TypeParts == TypeOK <=> HubTypeOK /\ BookTypeOK /\ ClientTypeOK
BY DEF TypeOK, HubTypeOK, BookTypeOK, ClientTypeOK

(* Client c is left with these values, and no other client is touched.     *)
Becomes(c, o, s, P, g, u, k) ==
    /\ connected' = [connected EXCEPT ![c] = o]
    /\ sub' = [sub EXCEPT ![c] = s]
    /\ proc' = [proc EXCEPT ![c] = P]
    /\ got' = [got EXCEPT ![c] = g]
    /\ cursor' = [cursor EXCEPT ![c] = u]
    /\ known' = [known EXCEPT ![c] = k]

(* What runs for a client runs on an open connection.                      *)
Attached(o, s, P) == s.state # "none" \/ (\E p \in Procs : P[p].pc # "idle") => o

(* What was written since the cursor is in order and ends at the position  *)
(* of the subscription.                                                    *)
Ordered(s, g, u) ==
    /\ s.state # "none" => s.lastSeq = IF g = << >> THEN u ELSE Last(g)
    /\ s.state = "none" => g = << >>
    /\ s.state = "live" => s.queue = {}
    /\ Increasing(g)
    /\ g # << >> => g[1] > u

(* Only ids of events are queued, replayed and written.                    *)
InRange(s, P, g) ==
    /\ s.queue \subseteq 1..eventCounter /\ Elements(g) \subseteq 1..eventCounter
    /\ \A p \in Procs : P[p].replay \subseteq 1..eventCounter

(* A stranger is not written to, and does not get past the owner check.    *)
Shut(s, P, g, k) ==
    /\ g = << >> /\ k = {} /\ s.state # "live"
    /\ \A p \in Procs : P[p].pc \in BeforeOwner

(* Only the read loop parks, alone; a parked subscription is completed by  *)
(* it or by a notification.                                                *)
Parked(s, P) ==
    /\ \A q \in Procs \ {0} : P[q].pc \notin {"park", "recheck", "unpark"}
    /\ P[0].pc = "park" =>
          s.state \in {"replaying", "none"} /\ \A q \in Procs \ {0} : P[q].pc = "idle"
    /\ s.state = "pending" =>
          P[0].pc \in {"idle", "recheck", "unpark"} /\ \A q \in Procs \ {0} : P[q].pc = "idle"

(* Before the owner is known only the read loop runs, and nothing is live. *)
Unowned(s, P) ==
    /\ s.state # "live"
    /\ \A q \in Procs \ {0} : P[q].pc = "idle"
    /\ P[0].pc \in {"idle", "start", "park", "recheck"}
    /\ P[0].pc = "recheck" => s.state \in {"pending", "none"}

(* The client layer, of values, so that it can be said of the next ones.   *)
Local(c, o, s, P, g, u, k) ==
    /\ Attached(o, s, P) /\ Ordered(s, g, u) /\ InRange(s, P, g) /\ Parked(s, P)
    /\ c \in Strangers => Shut(s, P, g, k)
    /\ ~ownerKnown => Unowned(s, P)

ClientInv(c) == Local(c, connected[c], sub[c], proc[c], got[c], cursor[c], known[c])

(* No notifier runs before the owner is known.                             *)
NotYetNotified == ~ownerKnown => \A k \in 1..MaxInits : notifier[k].pc = "idle"

BaseInv == HubInv /\ BookTypeOK /\ ClientTypeOK /\ NotYetNotified /\ \A c \in Clients : ClientInv(c)

(* What becomes of c and of the others, with the types they have.          *)
LEMMA BecomesFacts ==
    ASSUME ClientTypeOK, NEW c \in Clients,
           NEW o \in BOOLEAN, NEW s \in Subscription, NEW P \in [Procs -> Process],
           NEW g \in Seq(Nat), NEW u \in Nat, NEW k \in SUBSET Nat,
           Becomes(c, o, s, P, g, u, k), gaps' \in [Clients -> Nat]
    PROVE  /\ ClientTypeOK'
           /\ connected'[c] = o /\ sub'[c] = s /\ proc'[c] = P /\ got'[c] = g
           /\ cursor'[c] = u /\ known'[c] = k
           /\ \A d \in Clients \ {c} :
                 /\ connected'[d] = connected[d] /\ sub'[d] = sub[d] /\ proc'[d] = proc[d]
                 /\ got'[d] = got[d] /\ cursor'[d] = cursor[d] /\ known'[d] = known[d]
<1> USE DEF ClientTypeOK, Becomes
<1>1. connected' \in [Clients -> BOOLEAN] /\ connected'[c] = o
      /\ \A d \in Clients \ {c} : connected'[d] = connected[d]
  OBVIOUS
<1>2. sub' \in [Clients -> Subscription] /\ sub'[c] = s
      /\ \A d \in Clients \ {c} : sub'[d] = sub[d]
  OBVIOUS
<1>3. proc' \in [Clients -> [Procs -> Process]] /\ proc'[c] = P
      /\ \A d \in Clients \ {c} : proc'[d] = proc[d]
  OBVIOUS
<1>4. got' \in [Clients -> Seq(Nat)] /\ got'[c] = g
      /\ \A d \in Clients \ {c} : got'[d] = got[d]
  OBVIOUS
<1>5. cursor' \in [Clients -> Nat] /\ cursor'[c] = u
      /\ \A d \in Clients \ {c} : cursor'[d] = cursor[d]
  OBVIOUS
<1>6. known' \in [Clients -> SUBSET Nat] /\ known'[c] = k
      /\ \A d \in Clients \ {c} : known'[d] = known[d]
  OBVIOUS
<1> QED BY <1>1, <1>2, <1>3, <1>4, <1>5, <1>6

(* What remains to be shown of a step on the side of one client: that the  *)
(* values it leaves the client with are well typed and satisfy Local.      *)
LEMMA LocalStep ==
    ASSUME ClientTypeOK, \A d \in Clients : ClientInv(d), NEW c \in Clients,
           NEW o \in BOOLEAN, NEW s \in Subscription, NEW P \in [Procs -> Process],
           NEW g \in Seq(Nat), NEW u \in Nat, NEW k \in SUBSET Nat,
           Becomes(c, o, s, P, g, u, k), gaps' \in [Clients -> Nat],
           UNCHANGED <<ownerKnown, eventCounter>>, Local(c, o, s, P, g, u, k)
    PROVE  ClientTypeOK' /\ \A d \in Clients : ClientInv(d)'
<1>1. /\ ClientTypeOK'
      /\ connected'[c] = o /\ sub'[c] = s /\ proc'[c] = P /\ got'[c] = g
      /\ cursor'[c] = u /\ known'[c] = k
      /\ \A d \in Clients \ {c} :
            /\ connected'[d] = connected[d] /\ sub'[d] = sub[d] /\ proc'[d] = proc[d]
            /\ got'[d] = got[d] /\ cursor'[d] = cursor[d] /\ known'[d] = known[d]
  BY BecomesFacts
<1>2. ASSUME NEW d \in Clients PROVE ClientInv(d)'
  <2>1. CASE d = c
    <3>1. Local(c, connected'[c], sub'[c], proc'[c], got'[c], cursor'[c], known'[c]) BY <1>1
    <3> QED BY <2>1, <3>1 DEF ClientInv, Local, Attached, Ordered, InRange, Parked, Shut, Unowned
  <2>2. CASE d # c
    <3>1. /\ connected'[d] = connected[d] /\ sub'[d] = sub[d] /\ proc'[d] = proc[d]
          /\ got'[d] = got[d] /\ cursor'[d] = cursor[d] /\ known'[d] = known[d]
      BY <1>1, <2>2
    <3> QED BY <3>1 DEF ClientInv, Local, Attached, Ordered, InRange, Parked, Shut, Unowned
  <2> QED BY <2>1, <2>2
<1> QED BY <1>1, <1>2

-----------------------------------------------------------------------------

(* The client's variables are left alone.                                  *)
LEMMA ClientsSame ==
    ASSUME ClientTypeOK, \A d \in Clients : ClientInv(d),
           UNCHANGED <<connected, sub, proc, clientVars>>, ownerKnown => ownerKnown',
           eventCounter \in Nat, eventCounter' \in Nat, eventCounter' >= eventCounter
    PROVE  ClientTypeOK' /\ \A d \in Clients : ClientInv(d)'
<1>1. ClientTypeOK' BY DEF ClientTypeOK, clientVars
<1>2. 1..eventCounter \subseteq 1..eventCounter' OBVIOUS
<1>3. ASSUME NEW d \in Clients PROVE ClientInv(d)'
  <2>1. ClientInv(d) OBVIOUS
  <2>2. /\ Attached(connected[d], sub[d], proc[d])' /\ Ordered(sub[d], got[d], cursor[d])'
        /\ Parked(sub[d], proc[d])'
    BY <2>1 DEF ClientInv, Local, Attached, Ordered, Parked, clientVars
  <2>3. InRange(sub[d], proc[d], got[d])'
    BY <1>2, <2>1 DEF ClientInv, Local, InRange, clientVars
  <2>4. (d \in Strangers => Shut(sub[d], proc[d], got[d], known[d]))'
    BY <2>1 DEF ClientInv, Local, Shut, clientVars
  <2>5. (~ownerKnown => Unowned(sub[d], proc[d]))'
    BY <2>1 DEF ClientInv, Local, Unowned, clientVars
  <2> QED BY <2>2, <2>3, <2>4, <2>5 DEF ClientInv, Local
<1> QED BY <1>1, <1>3

(* Process p of c is left at r.                                            *)
With(c, p, r) == [proc[c] EXCEPT ![p] = r]

(* Process p of c, at another label.                                       *)
Goes(c, p, label) == [proc[c][p] EXCEPT !.pc = label]

(* The subscription of c changes its state and loses its queue.            *)
Turns(c, state) == [sub[c] EXCEPT !.state = state, !.queue = {}]

(* A step of c that writes nothing to it.                                  *)
Moves(c, s, P) == Becomes(c, connected[c], s, P, got[c], cursor[c], known[c])

(* An action that changes the subscription and the processes of c only.    *)
LEMMA MovesIntro ==
    ASSUME ClientTypeOK, NEW c \in Clients, NEW s, NEW P,
           sub' = [sub EXCEPT ![c] = s], proc' = [proc EXCEPT ![c] = P],
           UNCHANGED <<connected, clientVars>>
    PROVE  Moves(c, s, P) /\ gaps' \in [Clients -> Nat]
<1>1. connected' = [connected EXCEPT ![c] = connected[c]] BY DEF ClientTypeOK
<1>2. got' = [got EXCEPT ![c] = got[c]] BY DEF ClientTypeOK, clientVars
<1>3. cursor' = [cursor EXCEPT ![c] = cursor[c]] BY DEF ClientTypeOK, clientVars
<1>4. known' = [known EXCEPT ![c] = known[c]] BY DEF ClientTypeOK, clientVars
<1>5. gaps' \in [Clients -> Nat] BY DEF ClientTypeOK, clientVars
<1> QED BY <1>1, <1>2, <1>3, <1>4, <1>5 DEF Moves, Becomes

(* A subscription that does not change, ...                                *)
LEMMA SubSame == ASSUME ClientTypeOK, NEW c \in Clients, sub' = sub
                 PROVE  sub' = [sub EXCEPT ![c] = sub[c]]
BY DEF ClientTypeOK

(* ... a call that returns, ...                                            *)
LEMMA ReturnGoes ==
    ASSUME ClientTypeOK, NEW c \in Clients, NEW p \in Procs, Return(c, p)
    PROVE  proc' = [proc EXCEPT ![c] = With(c, p, IdleProc)]
BY DEF Return, With, ClientTypeOK

(* ... a call that goes to a label, ...                                    *)
LEMMA GoToGoes ==
    ASSUME ClientTypeOK, NEW c \in Clients, NEW p \in Procs, NEW label, GoTo(c, p, label)
    PROVE  proc' = [proc EXCEPT ![c] = With(c, p, Goes(c, p, label))]
BY DEF GoTo, Goes, With, ClientTypeOK

(* ... and a subscription that changes its state and loses its queue, as   *)
(* Becomes says it.                                                        *)
LEMMA SubGoes ==
    ASSUME ClientTypeOK, NEW c \in Clients, NEW state
    PROVE  [sub EXCEPT ![c].state = state, ![c].queue = {}]
             = [sub EXCEPT ![c] = Turns(c, state)]
BY DEF Turns, ClientTypeOK

(* What the steps of completeSubscribe do to the subscription and to the   *)
(* process, in the form of Becomes.                                        *)
CheckOwnerEffect(c, p) ==
    \/ /\ ownerKnown /\ c \in Strangers
       /\ Moves(c, NoSub, With(c, p, IdleProc))
    \/ ~ownerKnown /\ Moves(c, sub[c], With(c, p, Goes(c, p, "park")))
    \/ /\ ownerKnown /\ c \notin Strangers
       /\ Moves(c, sub[c], With(c, p, Goes(c, p, "position")))

(* The steps of completeSubscribe in that form: the owner snapshot, ...    *)
LEMMA CheckOwnerMoves ==
    ASSUME ClientTypeOK, NEW c \in Clients, NEW p \in Procs, CheckOwner(c, p)
    PROVE  CheckOwnerEffect(c, p) /\ gaps' \in [Clients -> Nat]
<1>1. UNCHANGED <<connected, clientVars>> BY DEF CheckOwner, ProcUnchanged
<1>2. CASE ownerKnown /\ c \in Strangers
  <2>1. sub' = [sub EXCEPT ![c] = NoSub] /\ Return(c, p) BY <1>2 DEF CheckOwner
  <2>2. proc' = [proc EXCEPT ![c] = With(c, p, IdleProc)] BY <2>1, ReturnGoes
  <2> QED BY <1>1, <1>2, <2>1, <2>2, MovesIntro DEF CheckOwnerEffect
<1>3. CASE ~ownerKnown
  <2>1. sub' = [sub EXCEPT ![c] = sub[c]] BY <1>3, SubSame DEF CheckOwner
  <2>2. proc' = [proc EXCEPT ![c] = With(c, p, Goes(c, p, "park"))]
    BY <1>3, GoToGoes DEF CheckOwner
  <2> QED BY <1>1, <1>3, <2>1, <2>2, MovesIntro DEF CheckOwnerEffect
<1>4. CASE ownerKnown /\ c \notin Strangers
  <2>1. sub' = [sub EXCEPT ![c] = sub[c]] BY <1>4, SubSame DEF CheckOwner
  <2>2. proc' = [proc EXCEPT ![c] = With(c, p, Goes(c, p, "position"))]
    BY <1>4, GoToGoes DEF CheckOwner
  <2> QED BY <1>1, <1>4, <2>1, <2>2, MovesIntro DEF CheckOwnerEffect
<1> QED BY <1>2, <1>3, <1>4

ParkEffect(c, p) ==
    Moves(c, IF sub[c].state = "none" THEN sub[c]
             ELSE Turns(c, "pending"),
          With(c, p, Goes(c, p, "recheck")))

(* ... the parking, ...                                                    *)
LEMMA ParkMoves ==
    ASSUME ClientTypeOK, NEW c \in Clients, NEW p \in Procs, Park(c, p)
    PROVE  ParkEffect(c, p) /\ gaps' \in [Clients -> Nat]
<1>1. UNCHANGED <<connected, clientVars>> BY DEF Park, ProcUnchanged
<1>2. proc' = [proc EXCEPT ![c] = With(c, p, Goes(c, p, "recheck"))]
  BY GoToGoes DEF Park
<1>3. CASE sub[c].state = "none"
  <2>1. sub' = [sub EXCEPT ![c] = sub[c]] BY <1>3, SubSame DEF Park
  <2> QED BY <1>1, <1>2, <1>3, <2>1, MovesIntro DEF ParkEffect
<1>4. CASE sub[c].state # "none"
  <2>1. sub' = [sub EXCEPT ![c] = Turns(c, "pending")]
    BY <1>4, SubGoes DEF Park
  <2> QED BY <1>1, <1>2, <1>4, <2>1, MovesIntro DEF ParkEffect
<1> QED BY <1>3, <1>4

RecheckEffect(c, p) ==
    \/ ownerKnown /\ Moves(c, sub[c], With(c, p, Goes(c, p, "unpark")))
    \/ ~ownerKnown /\ Moves(c, sub[c], With(c, p, IdleProc))

(* ... the second look at the owner, ...                                   *)
LEMMA RecheckMoves ==
    ASSUME ClientTypeOK, NEW c \in Clients, NEW p \in Procs, RecheckOwner(c, p)
    PROVE  RecheckEffect(c, p) /\ gaps' \in [Clients -> Nat]
<1>1. UNCHANGED <<connected, clientVars>> BY DEF RecheckOwner, ProcUnchanged
<1>2. sub' = [sub EXCEPT ![c] = sub[c]] BY SubSame DEF RecheckOwner
<1>3. CASE ownerKnown
  <2>1. proc' = [proc EXCEPT ![c] = With(c, p, Goes(c, p, "unpark"))]
    BY <1>3, GoToGoes DEF RecheckOwner
  <2> QED BY <1>1, <1>2, <1>3, <2>1, MovesIntro DEF RecheckEffect
<1>4. CASE ~ownerKnown
  <2>1. proc' = [proc EXCEPT ![c] = With(c, p, IdleProc)]
    BY <1>4, ReturnGoes DEF RecheckOwner
  <2> QED BY <1>1, <1>2, <1>4, <2>1, MovesIntro DEF RecheckEffect
<1> QED BY <1>3, <1>4

UnparkEffect(c, p) ==
    Moves(c, IF sub[c].state = "pending"
             THEN Turns(c, "replaying") ELSE sub[c],
          With(c, p, Goes(c, p, "start")))

(* ... the way back to replaying, ...                                      *)
LEMMA UnparkMoves ==
    ASSUME ClientTypeOK, NEW c \in Clients, NEW p \in Procs, Unpark(c, p)
    PROVE  UnparkEffect(c, p) /\ gaps' \in [Clients -> Nat]
<1>1. UNCHANGED <<connected, clientVars>> BY DEF Unpark, ProcUnchanged
<1>2. proc' = [proc EXCEPT ![c] = With(c, p, Goes(c, p, "start"))]
  BY GoToGoes DEF Unpark
<1>3. CASE sub[c].state # "pending"
  <2>1. sub' = [sub EXCEPT ![c] = sub[c]] BY <1>3, SubSame DEF Unpark
  <2> QED BY <1>1, <1>2, <1>3, <2>1, MovesIntro DEF UnparkEffect
<1>4. CASE sub[c].state = "pending"
  <2>1. sub' = [sub EXCEPT ![c] = Turns(c, "replaying")]
    BY <1>4, SubGoes DEF Unpark
  <2> QED BY <1>1, <1>2, <1>4, <2>1, MovesIntro DEF UnparkEffect
<1> QED BY <1>3, <1>4

PositionEffect(c, p) ==
    \/ sub[c].state = "none" /\ Moves(c, sub[c], With(c, p, IdleProc))
    \/ /\ sub[c].state # "none"
       /\ Moves(c, sub[c],
                With(c, p, [proc[c][p] EXCEPT !.pc = "collect", !.since = sub[c].lastSeq]))

(* ... the read of the position, ...                                       *)
LEMMA PositionMoves ==
    ASSUME ClientTypeOK, NEW c \in Clients, NEW p \in Procs, ReadPosition(c, p)
    PROVE  PositionEffect(c, p) /\ gaps' \in [Clients -> Nat]
<1>1. UNCHANGED <<connected, clientVars>> BY DEF ReadPosition, ProcUnchanged
<1>2. sub' = [sub EXCEPT ![c] = sub[c]] BY SubSame DEF ReadPosition
<1>3. CASE sub[c].state # "none"
  <2>1. proc' = [proc EXCEPT ![c][p].pc = "collect", ![c][p].since = sub[c].lastSeq]
    BY <1>3 DEF ReadPosition
  <2>2. proc' = [proc EXCEPT ![c] =
            With(c, p, [proc[c][p] EXCEPT !.pc = "collect", !.since = sub[c].lastSeq])]
    BY <2>1 DEF With, ClientTypeOK
  <2> QED BY <1>1, <1>2, <1>3, <2>2, MovesIntro DEF PositionEffect
<1>4. CASE sub[c].state = "none"
  <2>1. proc' = [proc EXCEPT ![c] = With(c, p, IdleProc)]
    BY <1>4, ReturnGoes DEF ReadPosition
  <2> QED BY <1>1, <1>2, <1>4, <2>1, MovesIntro DEF PositionEffect
<1> QED BY <1>3, <1>4

Collected(c, p) ==
    [pc |-> "replay", since |-> proc[c][p].since,
     replay |-> RetainedAfter(proc[c][p].since), gap |-> Gap(proc[c][p].since)]

(* ... the collection of the replay, ...                                   *)
LEMMA CollectMoves ==
    ASSUME ClientTypeOK, NEW c \in Clients, NEW p \in Procs, CollectReplay(c, p)
    PROVE  Moves(c, sub[c], With(c, p, Collected(c, p))) /\ gaps' \in [Clients -> Nat]
<1>1. UNCHANGED <<connected, clientVars>> BY DEF CollectReplay, ProcUnchanged
<1>2. sub' = [sub EXCEPT ![c] = sub[c]] BY SubSame DEF CollectReplay
<1>3. proc' = [proc EXCEPT ![c][p] = Collected(c, p)] BY DEF CollectReplay, Collected
<1>4. proc' = [proc EXCEPT ![c] = With(c, p, Collected(c, p))] BY <1>3 DEF With, ClientTypeOK
<1> QED BY <1>1, <1>2, <1>4, MovesIntro

(* A step of c that writes to it.                                          *)
Writes(c, replay, queued, rest, P) ==
    LET ids == Fresh(sub[c].lastSeq, replay, queued)
    IN  Becomes(c, connected[c], [rest EXCEPT !.lastSeq = Max({rest.lastSeq} \cup ids)], P,
                got[c] \o Ascending(ids), cursor[c], known[c] \cup ids)

(* ... ids written to c, ...                                               *)
LEMMA WritesIntro ==
    ASSUME ClientTypeOK, NEW c \in Clients, NEW replay, NEW queued, NEW rest, NEW P,
           WriteTo(c, replay, queued, rest), proc' = [proc EXCEPT ![c] = P],
           UNCHANGED <<connected, cursor, gaps>>
    PROVE  Writes(c, replay, queued, rest, P) /\ gaps' \in [Clients -> Nat]
<1> DEFINE ids == Fresh(sub[c].lastSeq, replay, queued)
<1>1. connected' = [connected EXCEPT ![c] = connected[c]] BY DEF ClientTypeOK
<1>2. cursor' = [cursor EXCEPT ![c] = cursor[c]] BY DEF ClientTypeOK
<1>3. /\ got' = [got EXCEPT ![c] = got[c] \o Ascending(ids)]
      /\ known' = [known EXCEPT ![c] = known[c] \cup ids]
      /\ sub' = [sub EXCEPT ![c] = [rest EXCEPT !.lastSeq = Max({rest.lastSeq} \cup ids)]]
  BY DEF WriteTo
<1>4. gaps' \in [Clients -> Nat] BY DEF ClientTypeOK
<1> HIDE DEF ids
<1> QED BY <1>1, <1>2, <1>3, <1>4 DEF Writes, Becomes, ids

WriteReplayEffect(c, p) ==
    \/ sub[c].state = "none" /\ Moves(c, sub[c], With(c, p, IdleProc))
    \/ /\ sub[c].state # "none"
       /\ Writes(c, proc[c][p].replay, sub[c].queue,
                 [sub[c] EXCEPT !.queue = {}, !.state = "live"],
                 With(c, p, [IdleProc EXCEPT !.pc = "complete", !.gap = proc[c][p].gap]))

(* ... the replay and the queue among them, ...                            *)
LEMMA WriteReplayWrites ==
    ASSUME ClientTypeOK, NEW c \in Clients, NEW p \in Procs, WriteReplay(c, p)
    PROVE  WriteReplayEffect(c, p) /\ gaps' \in [Clients -> Nat]
<1>1. CASE sub[c].state = "none"
  <2>1. UNCHANGED <<connected, clientVars>>
    BY <1>1 DEF WriteReplay, ProcUnchanged, clientVars
  <2>2. sub' = [sub EXCEPT ![c] = sub[c]] BY <1>1, SubSame DEF WriteReplay
  <2>3. proc' = [proc EXCEPT ![c] = With(c, p, IdleProc)]
    BY <1>1, ReturnGoes DEF WriteReplay
  <2> QED BY <1>1, <2>1, <2>2, <2>3, MovesIntro DEF WriteReplayEffect
<1>2. CASE sub[c].state # "none"
  <2> DEFINE done == [IdleProc EXCEPT !.pc = "complete", !.gap = proc[c][p].gap]
  <2>1. /\ WriteTo(c, proc[c][p].replay, sub[c].queue,
                   [sub[c] EXCEPT !.queue = {}, !.state = "live"])
        /\ UNCHANGED <<connected, cursor, gaps>>
    BY <1>2 DEF WriteReplay, ProcUnchanged
  <2>2. proc' = [proc EXCEPT ![c][p] = done] BY <1>2 DEF WriteReplay
  <2> HIDE DEF done
  <2>3. proc' = [proc EXCEPT ![c] = With(c, p, done)] BY <2>2 DEF With, ClientTypeOK
  <2>4. /\ Writes(c, proc[c][p].replay, sub[c].queue,
                  [sub[c] EXCEPT !.queue = {}, !.state = "live"], With(c, p, done))
        /\ gaps' \in [Clients -> Nat]
    BY <2>1, <2>3, WritesIntro
  <2> QED BY <1>2, <2>4 DEF WriteReplayEffect, done
<1> QED BY <1>1, <1>2

(* The last id that reached the client, once it may rely on it.            *)
Furthest(c) == IF got[c] = << >> THEN cursor[c] ELSE Last(got[c])

ResumeEffect(c, p) ==
    Becomes(c, connected[c], sub[c], With(c, p, IdleProc), << >>, Furthest(c),
            IF proc[c][p].gap THEN known[c] \cup 1..Furthest(c) ELSE known[c])

(* ... and resume_complete.                                                *)
LEMMA ResumeBecomes ==
    ASSUME ClientTypeOK, NEW c \in Clients, NEW p \in Procs, ResumeComplete(c, p)
    PROVE  ResumeEffect(c, p) /\ gaps' \in [Clients -> Nat]
<1>1. connected' = [connected EXCEPT ![c] = connected[c]]
  BY DEF ClientTypeOK, ResumeComplete
<1>2. sub' = [sub EXCEPT ![c] = sub[c]] BY SubSame DEF ResumeComplete
<1>3. proc' = [proc EXCEPT ![c] = With(c, p, IdleProc)] BY ReturnGoes DEF ResumeComplete
<1>4. /\ got' = [got EXCEPT ![c] = << >>]
      /\ cursor' = [cursor EXCEPT ![c] = Furthest(c)]
      /\ known' = [known EXCEPT ![c] = IF proc[c][p].gap THEN known[c] \cup 1..Furthest(c) ELSE known[c]]
  BY DEF ResumeComplete, Furthest
<1>5. gaps' \in [Clients -> Nat] BY DEF ClientTypeOK, ResumeComplete
<1> QED BY <1>1, <1>2, <1>3, <1>4, <1>5 DEF ResumeEffect, Becomes

(* Where the client falls back to, and what it is left with.               *)
Back(c, n) == IF n = 0 THEN cursor[c] ELSE got[c][n]
Kept(c, n) == known[c] \ {got[c][i] : i \in (n + 1)..Len(got[c])}

(* A fresh subscription, from where the client falls back to.              *)
LEMMA SubscribeBecomes ==
    ASSUME ClientTypeOK, NEW c \in Clients, Subscribe(c)
    PROVE  /\ \E n \in Retained(c) :
                 Becomes(c, connected[c],
                         [state |-> "replaying", lastSeq |-> Back(c, n), queue |-> {}],
                         With(c, 0, Goes(c, 0, "start")),
                         << >>, Back(c, n), Kept(c, n))
           /\ gaps' \in [Clients -> Nat]
<1>1. PICK n \in Retained(c) : Rewind(c, n) BY DEF Subscribe
<1>2. /\ got' = [got EXCEPT ![c] = << >>] /\ cursor' = [cursor EXCEPT ![c] = Back(c, n)]
      /\ known' = [known EXCEPT ![c] = Kept(c, n)] /\ gaps' = gaps
  BY <1>1 DEF Rewind, Back, Kept
<1>3. connected' = [connected EXCEPT ![c] = connected[c]] BY DEF ClientTypeOK, Subscribe
<1>4. cursor'[c] = Back(c, n) BY <1>2 DEF ClientTypeOK
<1>5. sub' = [sub EXCEPT ![c] = [state |-> "replaying", lastSeq |-> Back(c, n), queue |-> {}]]
  BY <1>4 DEF Subscribe
<1>6. proc' = [proc EXCEPT ![c] = With(c, 0, Goes(c, 0, "start"))]
  <2>1. proc' = [proc EXCEPT ![c][0].pc = "start"] BY DEF Subscribe
  <2>2. 0 \in Procs BY DEF Procs
  <2> QED BY <2>1, <2>2 DEF Goes, With, ClientTypeOK
<1>7. gaps' \in [Clients -> Nat] BY <1>2 DEF ClientTypeOK
<1> QED BY <1>2, <1>3, <1>5, <1>6, <1>7 DEF Becomes

(* A subscription dropped by its client.                                   *)
LEMMA UnsubscribeBecomes ==
    ASSUME ClientTypeOK, NEW c \in Clients, Unsubscribe(c)
    PROVE  /\ \E n \in Retained(c) :
                 Becomes(c, connected[c], NoSub, proc[c], << >>, Back(c, n), Kept(c, n))
           /\ gaps' \in [Clients -> Nat]
<1>1. PICK n \in Retained(c) : Rewind(c, n) BY DEF Unsubscribe
<1>2. /\ got' = [got EXCEPT ![c] = << >>] /\ cursor' = [cursor EXCEPT ![c] = Back(c, n)]
      /\ known' = [known EXCEPT ![c] = Kept(c, n)] /\ gaps' = gaps
  BY <1>1 DEF Rewind, Back, Kept
<1>3. connected' = [connected EXCEPT ![c] = connected[c]] BY DEF ClientTypeOK, Unsubscribe
<1>4. sub' = [sub EXCEPT ![c] = NoSub] BY DEF Unsubscribe
<1>5. proc' = [proc EXCEPT ![c] = proc[c]] BY DEF ClientTypeOK, Unsubscribe
<1>6. gaps' \in [Clients -> Nat] BY <1>2 DEF ClientTypeOK
<1> QED BY <1>2, <1>3, <1>4, <1>5, <1>6 DEF Becomes

NoProcs == [p \in Procs |-> IdleProc]

(* A connection closed, with everything that ran on it.                    *)
LEMMA ClosedBecomes ==
    ASSUME ClientTypeOK, NEW c \in Clients, Closed(c)
    PROVE  /\ \E n \in Retained(c) :
                 Becomes(c, FALSE, NoSub, NoProcs, << >>, Back(c, n), Kept(c, n))
           /\ gaps' \in [Clients -> Nat]
<1>1. PICK n \in Retained(c) : Rewind(c, n) BY DEF Closed
<1>2. /\ got' = [got EXCEPT ![c] = << >>] /\ cursor' = [cursor EXCEPT ![c] = Back(c, n)]
      /\ known' = [known EXCEPT ![c] = Kept(c, n)] /\ gaps' = gaps
  BY <1>1 DEF Rewind, Back, Kept
<1>3. connected' = [connected EXCEPT ![c] = FALSE] BY DEF Closed
<1>4. sub' = [sub EXCEPT ![c] = NoSub] BY DEF Closed
<1>5. proc' = [proc EXCEPT ![c] = NoProcs] BY DEF Closed, NoProcs
<1>6. gaps' \in [Clients -> Nat] BY <1>2 DEF ClientTypeOK
<1> QED BY <1>2, <1>3, <1>4, <1>5, <1>6 DEF Becomes

-----------------------------------------------------------------------------

(* The parts of the type invariant that speak of one client.               *)
LEMMA ClientTyped ==
    ASSUME ClientTypeOK, NEW c \in Clients
    PROVE  /\ connected[c] \in BOOLEAN /\ sub[c] \in Subscription /\ proc[c] \in [Procs -> Process]
           /\ got[c] \in Seq(Nat) /\ cursor[c] \in Nat /\ known[c] \in SUBSET Nat
           /\ \A p \in Procs : proc[c][p] \in Process
BY DEF ClientTypeOK

(* One process of c replaced.                                              *)
LEMMA WithFacts ==
    ASSUME ClientTypeOK, NEW c \in Clients, NEW p \in Procs, NEW r \in Process
    PROVE  /\ With(c, p, r) \in [Procs -> Process] /\ With(c, p, r)[p] = r
           /\ \A q \in Procs \ {p} : With(c, p, r)[q] = proc[c][q]
BY ClientTyped DEF With

(* The idle process and the absent subscription.                           *)
LEMMA IdleTyped ==
    /\ IdleProc \in Process /\ IdleProc.pc = "idle" /\ IdleProc.replay = {}
    /\ NoSub \in Subscription /\ NoSub.state = "none" /\ NoSub.queue = {}
    /\ 0 \in Procs
BY DEF IdleProc, Process, Labels, NoSub, Subscription, SubStates, Procs

(* A process that goes to a label is otherwise as it was.                  *)
LEMMA GoesTyped ==
    ASSUME ClientTypeOK, NEW c \in Clients, NEW p \in Procs, NEW label \in Labels
    PROVE  /\ Goes(c, p, label) \in Process /\ Goes(c, p, label).pc = label
           /\ Goes(c, p, label).replay = proc[c][p].replay
           /\ Goes(c, p, label).since = proc[c][p].since
<1>1. proc[c][p] \in Process BY ClientTyped
<1> QED BY <1>1 DEF Goes, Process

(* A subscription that changes its state loses its queue and keeps its     *)
(* position.                                                               *)
LEMMA TurnsTyped ==
    ASSUME ClientTypeOK, NEW c \in Clients, NEW state \in SubStates
    PROVE  /\ Turns(c, state) \in Subscription /\ Turns(c, state).state = state
           /\ Turns(c, state).queue = {} /\ Turns(c, state).lastSeq = sub[c].lastSeq
<1>1. sub[c] \in Subscription BY ClientTyped
<1> QED BY <1>1 DEF Turns, Subscription

(* A process of c moves, and the subscription at most changes its state    *)
(* and loses its queue.                                                    *)
LEMMA MovesKeeps ==
    ASSUME ClientTypeOK, \A d \in Clients : ClientInv(d), NEW c \in Clients, NEW p \in Procs,
           UNCHANGED <<ownerKnown, eventCounter>>, gaps' \in [Clients -> Nat],
           NEW s \in Subscription, NEW r \in Process, Moves(c, s, With(c, p, r)),
           s = sub[c] \/ (s.state = "none" /\ got[c] = << >> /\ s.queue = {})
             \/ (s.state \in {"pending", "replaying"} /\ sub[c].state # "none" /\ s.queue = {}
                   /\ s.lastSeq = sub[c].lastSeq),
           r.pc # "idle" => connected[c],
           r.replay \subseteq 1..eventCounter,
           Parked(s, With(c, p, r)),
           c \in Strangers => r.pc \in BeforeOwner,
           ~ownerKnown => Unowned(s, With(c, p, r))
    PROVE  ClientTypeOK' /\ \A d \in Clients : ClientInv(d)'
<1> DEFINE P == With(c, p, r)
<1>1. /\ P \in [Procs -> Process] /\ P[p] = r /\ \A q \in Procs \ {p} : P[q] = proc[c][q]
  BY WithFacts
<1>2. Local(c, connected[c], sub[c], proc[c], got[c], cursor[c], known[c]) BY DEF ClientInv
<1> HIDE DEF P
<1>3. Attached(connected[c], s, P)
  <2>1. s.state # "none" => sub[c].state # "none" OBVIOUS
  <2> QED BY <1>1, <1>2, <2>1 DEF Local, Attached
<1>4. Ordered(s, got[c], cursor[c]) BY <1>2 DEF Local, Ordered
<1>5. InRange(s, P, got[c])
  <2>1. s.queue \subseteq 1..eventCounter BY <1>2 DEF Local, InRange
  <2>2. \A q \in Procs : P[q].replay \subseteq 1..eventCounter BY <1>1, <1>2 DEF Local, InRange
  <2> QED BY <1>2, <2>1, <2>2 DEF Local, InRange
<1>6. c \in Strangers => Shut(s, P, got[c], known[c])
  <2> SUFFICES ASSUME c \in Strangers PROVE Shut(s, P, got[c], known[c]) OBVIOUS
  <2>1. Shut(sub[c], proc[c], got[c], known[c]) BY <1>2 DEF Local
  <2> QED BY <1>1, <2>1 DEF Shut
<1>7. Local(c, connected[c], s, P, got[c], cursor[c], known[c])
  BY <1>3, <1>4, <1>5, <1>6 DEF Local, P
<1>8. Becomes(c, connected[c], s, P, got[c], cursor[c], known[c]) BY DEF Moves, P
<1> QED BY <1>1, <1>7, <1>8, ClientTyped, LocalStep

(* The client layer is kept by the owner snapshot: no stranger gets past   *)
(* it, ...                                                                 *)
LEMMA CheckOwnerKeeps ==
    ASSUME ClientTypeOK, \A d \in Clients : ClientInv(d), NEW c \in Clients, NEW p \in Procs,
           CheckOwner(c, p)
    PROVE  ClientTypeOK' /\ \A d \in Clients : ClientInv(d)'
<1> DEFINE P(r) == With(c, p, r)
<1>1. CheckOwnerEffect(c, p) /\ gaps' \in [Clients -> Nat] BY CheckOwnerMoves
<1>2. UNCHANGED <<ownerKnown, eventCounter>> /\ proc[c][p].pc = "start"
  BY DEF CheckOwner, ProcUnchanged, logVars, At
<1>3. Local(c, connected[c], sub[c], proc[c], got[c], cursor[c], known[c]) BY DEF ClientInv
<1>4. sub[c] \in Subscription /\ proc[c] \in [Procs -> Process] /\ connected[c]
  BY <1>2, <1>3, ClientTyped DEF Local, Attached
<1>5. CASE ownerKnown /\ c \in Strangers
  <2>1. Moves(c, NoSub, With(c, p, IdleProc)) BY <1>1, <1>5 DEF CheckOwnerEffect
  <2>2. got[c] = << >> BY <1>3, <1>5 DEF Local, Shut
  <2>3. P(IdleProc)[p] = IdleProc /\ \A q \in Procs \ {p} : P(IdleProc)[q] = proc[c][q]
    BY WithFacts, IdleTyped
  <2> HIDE DEF P
  <2>4. Parked(NoSub, P(IdleProc)) BY <1>3, <2>3, IdleTyped DEF Local, Parked
  <2> QED BY <1>2, <1>1, <1>5, <2>1, <2>2, <2>4, IdleTyped, MovesKeeps DEF P, BeforeOwner
<1>6. CASE ~ownerKnown
  <2> DEFINE r == Goes(c, p, "park")
  <2>0. "park" \in Labels BY DEF Labels
  <2>1. Moves(c, sub[c], With(c, p, r)) BY <1>1, <1>6 DEF CheckOwnerEffect
  <2>2. r \in Process /\ r.pc = "park" /\ r.replay = proc[c][p].replay
    BY <2>0, GoesTyped
  <2> HIDE DEF r
  <2>3. P(r)[p] = r /\ \A q \in Procs \ {p} : P(r)[q] = proc[c][q] BY <2>2, WithFacts
  <2> HIDE DEF P
  <2>4. /\ p = 0 /\ sub[c].state \in {"replaying", "none"}
        /\ \A q \in Procs \ {0} : proc[c][q].pc = "idle"
    <3>1. Unowned(sub[c], proc[c]) /\ Parked(sub[c], proc[c]) BY <1>3, <1>6 DEF Local
    <3>2. p = 0 BY <1>2, <3>1 DEF Unowned
    <3>3. sub[c].state \in SubStates BY <1>4 DEF Subscription
    <3> QED BY <1>2, <3>1, <3>2, <3>3 DEF Unowned, Parked, SubStates
  <2>5. Parked(sub[c], P(r)) BY <2>2, <2>3, <2>4 DEF Parked
  <2>6. Unowned(sub[c], P(r)) BY <2>2, <2>3, <2>4 DEF Unowned
  <2>7. r.replay \subseteq 1..eventCounter BY <1>3, <2>2 DEF Local, InRange
  <2> QED BY <1>1, <1>2, <1>4, <2>1, <2>2, <2>5, <2>6, <2>7, MovesKeeps DEF P, BeforeOwner
<1>7. CASE ownerKnown /\ c \notin Strangers
  <2> DEFINE r == Goes(c, p, "position")
  <2>0. "position" \in Labels BY DEF Labels
  <2>1. Moves(c, sub[c], With(c, p, r)) BY <1>1, <1>7 DEF CheckOwnerEffect
  <2>2. r \in Process /\ r.pc = "position" /\ r.replay = proc[c][p].replay
    BY <2>0, GoesTyped
  <2> HIDE DEF r
  <2>3. P(r)[p] = r /\ \A q \in Procs \ {p} : P(r)[q] = proc[c][q] BY <2>2, WithFacts
  <2> HIDE DEF P
  <2>4. Parked(sub[c], P(r))
    <3>1. Parked(sub[c], proc[c]) BY <1>3 DEF Local
    <3>2. CASE p = 0 BY <1>2, <2>2, <2>3, <3>1, <3>2 DEF Parked
    <3>3. CASE p # 0 BY <1>2, <2>2, <2>3, <3>1, <3>3, IdleTyped DEF Parked
    <3> QED BY <3>2, <3>3
  <2>5. r.replay \subseteq 1..eventCounter BY <1>3, <2>2 DEF Local, InRange
  <2> QED BY <1>1, <1>2, <1>4, <1>7, <2>1, <2>2, <2>4, <2>5, MovesKeeps DEF P
<1> QED BY <1>5, <1>6, <1>7

PastOwner == {"position", "collect", "replay", "complete"}

(* (a process past the owner check belongs to the owner, and the owner is  *)
(* known)                                                                  *)
LEMMA PastOwnerFacts ==
    ASSUME NEW c \in Clients, ClientInv(c), NEW p \in Procs,
           proc[c][p].pc \in PastOwner \cup {"unpark"}
    PROVE  /\ ownerKnown /\ connected[c]
           /\ proc[c][p].pc \in PastOwner => c \notin Strangers
<1>1. Local(c, connected[c], sub[c], proc[c], got[c], cursor[c], known[c]) BY DEF ClientInv
<1>2. connected[c] BY <1>1 DEF Local, Attached, PastOwner
<1>3. ownerKnown
  <2>1. p = 0 \/ p \in Procs \ {0} OBVIOUS
  <2> QED BY <1>1, <2>1 DEF Local, Unowned, PastOwner
<1>4. proc[c][p].pc \in PastOwner => c \notin Strangers
  BY <1>1 DEF Local, Shut, PastOwner, BeforeOwner
<1> QED BY <1>2, <1>3, <1>4

(* A process that is not between parking and unparking excludes those that *)
(* are, and may move on or return.                                         *)
LEMMA ParkedMovesOn ==
    ASSUME ClientTypeOK, NEW c \in Clients, ClientInv(c), NEW p \in Procs,
           proc[c][p].pc \in PastOwner \cup {"start"},
           NEW r \in Process, r.pc \in PastOwner \cup {"idle"}
    PROVE  Parked(sub[c], With(c, p, r))
<1>1. Parked(sub[c], proc[c]) BY DEF ClientInv, Local
<1>2. With(c, p, r)[p] = r /\ \A q \in Procs \ {p} : With(c, p, r)[q] = proc[c][q]
  BY WithFacts
<1>3. CASE p = 0 BY <1>1, <1>2, <1>3 DEF Parked, PastOwner
<1>4. CASE p # 0 BY <1>1, <1>2, <1>4, IdleTyped DEF Parked, PastOwner
<1> QED BY <1>3, <1>4

(* ... by the parking, ...                                                 *)
LEMMA ParkKeeps ==
    ASSUME ClientTypeOK, \A d \in Clients : ClientInv(d), NEW c \in Clients, NEW p \in Procs,
           Park(c, p)
    PROVE  ClientTypeOK' /\ \A d \in Clients : ClientInv(d)'
<1> DEFINE s == IF sub[c].state = "none" THEN sub[c] ELSE Turns(c, "pending")
           r == Goes(c, p, "recheck")
<1>0. "recheck" \in Labels /\ "pending" \in SubStates BY DEF Labels, SubStates
<1>1. Moves(c, s, With(c, p, r)) /\ gaps' \in [Clients -> Nat] BY ParkMoves DEF ParkEffect
<1>2. UNCHANGED <<ownerKnown, eventCounter>> /\ proc[c][p].pc = "park"
  BY DEF Park, ProcUnchanged, logVars, At
<1>3. Local(c, connected[c], sub[c], proc[c], got[c], cursor[c], known[c]) BY DEF ClientInv
<1>4. connected[c] BY <1>2, <1>3 DEF Local, Attached
<1>5. r \in Process /\ r.pc = "recheck" /\ r.replay = proc[c][p].replay BY <1>0, GoesTyped
<1>6. /\ s \in Subscription
      /\ s.state = (IF sub[c].state = "none" THEN "none" ELSE "pending")
      /\ s = sub[c] \/ (s.state = "pending" /\ sub[c].state # "none" /\ s.queue = {}
                         /\ s.lastSeq = sub[c].lastSeq)
  BY <1>0, TurnsTyped, ClientTyped
<1> HIDE DEF s, r
<1>7. With(c, p, r)[p] = r /\ \A q \in Procs \ {p} : With(c, p, r)[q] = proc[c][q]
  BY <1>5, WithFacts
<1>8. p = 0 /\ \A q \in Procs \ {0} : proc[c][q].pc = "idle"
  BY <1>2, <1>3, IdleTyped DEF Local, Parked
<1>9. Parked(s, With(c, p, r)) BY <1>5, <1>6, <1>7, <1>8 DEF Parked
<1>10. Unowned(s, With(c, p, r)) BY <1>5, <1>6, <1>7, <1>8 DEF Unowned
<1>11. r.replay \subseteq 1..eventCounter BY <1>3, <1>5 DEF Local, InRange
<1>12. r.pc \in BeforeOwner BY <1>5 DEF BeforeOwner
<1> QED BY <1>1, <1>2, <1>4, <1>5, <1>6, <1>9, <1>10, <1>11, <1>12, MovesKeeps

(* ... by the second look at the owner, ...                                *)
LEMMA RecheckKeeps ==
    ASSUME ClientTypeOK, \A d \in Clients : ClientInv(d), NEW c \in Clients, NEW p \in Procs,
           RecheckOwner(c, p)
    PROVE  ClientTypeOK' /\ \A d \in Clients : ClientInv(d)'
<1>0. "unpark" \in Labels BY DEF Labels
<1>1. RecheckEffect(c, p) /\ gaps' \in [Clients -> Nat] BY RecheckMoves
<1>2. UNCHANGED <<ownerKnown, eventCounter>> /\ proc[c][p].pc = "recheck"
  BY DEF RecheckOwner, ProcUnchanged, logVars, At
<1>3. Local(c, connected[c], sub[c], proc[c], got[c], cursor[c], known[c]) BY DEF ClientInv
<1>4. connected[c] /\ sub[c] \in Subscription BY <1>2, <1>3, ClientTyped DEF Local, Attached
<1>5. p = 0 BY <1>2, <1>3 DEF Local, Parked
<1>6. CASE ownerKnown
  <2> DEFINE r == Goes(c, p, "unpark")
  <2>1. Moves(c, sub[c], With(c, p, r)) BY <1>1, <1>6 DEF RecheckEffect
  <2>2. r \in Process /\ r.pc = "unpark" /\ r.replay = proc[c][p].replay BY <1>0, GoesTyped
  <2> HIDE DEF r
  <2>3. With(c, p, r)[p] = r /\ \A q \in Procs \ {p} : With(c, p, r)[q] = proc[c][q]
    BY <2>2, WithFacts
  <2>4. Parked(sub[c], With(c, p, r)) BY <1>2, <1>3, <1>5, <2>2, <2>3 DEF Local, Parked
  <2>5. r.replay \subseteq 1..eventCounter BY <1>3, <2>2 DEF Local, InRange
  <2>6. r.pc \in BeforeOwner BY <2>2 DEF BeforeOwner
  <2> QED BY <1>1, <1>2, <1>4, <1>6, <2>1, <2>2, <2>4, <2>5, <2>6, MovesKeeps
<1>7. CASE ~ownerKnown
  <2>1. Moves(c, sub[c], With(c, p, IdleProc)) BY <1>1, <1>7 DEF RecheckEffect
  <2>2. /\ With(c, p, IdleProc)[p] = IdleProc
        /\ \A q \in Procs \ {p} : With(c, p, IdleProc)[q] = proc[c][q]
    BY IdleTyped, WithFacts
  <2>3. Parked(sub[c], proc[c]) /\ Unowned(sub[c], proc[c]) BY <1>3, <1>7 DEF Local
  <2>4. Parked(sub[c], With(c, p, IdleProc)) BY <1>5, <2>2, <2>3, IdleTyped DEF Parked, Unowned
  <2>5. Unowned(sub[c], With(c, p, IdleProc)) BY <1>5, <2>2, <2>3, IdleTyped DEF Unowned
  <2>6. IdleProc.pc \in BeforeOwner BY IdleTyped DEF BeforeOwner
  <2> QED BY <1>1, <1>2, <1>4, <2>1, <2>4, <2>5, <2>6, IdleTyped, MovesKeeps
<1> QED BY <1>6, <1>7

(* ... by the way back to replaying, ...                                   *)
LEMMA UnparkKeeps ==
    ASSUME ClientTypeOK, \A d \in Clients : ClientInv(d), NEW c \in Clients, NEW p \in Procs,
           Unpark(c, p)
    PROVE  ClientTypeOK' /\ \A d \in Clients : ClientInv(d)'
<1> DEFINE s == IF sub[c].state = "pending" THEN Turns(c, "replaying") ELSE sub[c]
           r == Goes(c, p, "start")
<1>0. "start" \in Labels /\ "replaying" \in SubStates BY DEF Labels, SubStates
<1>1. Moves(c, s, With(c, p, r)) /\ gaps' \in [Clients -> Nat] BY UnparkMoves DEF UnparkEffect
<1>2. UNCHANGED <<ownerKnown, eventCounter>> /\ proc[c][p].pc = "unpark"
  BY DEF Unpark, ProcUnchanged, logVars, At
<1>3. Local(c, connected[c], sub[c], proc[c], got[c], cursor[c], known[c]) BY DEF ClientInv
<1>4. connected[c] /\ ownerKnown BY <1>2, PastOwnerFacts
<1>5. r \in Process /\ r.pc = "start" /\ r.replay = proc[c][p].replay BY <1>0, GoesTyped
<1>6. /\ s \in Subscription /\ s.state # "pending"
      /\ s = sub[c] \/ (s.state = "replaying" /\ sub[c].state # "none" /\ s.queue = {}
                         /\ s.lastSeq = sub[c].lastSeq)
  BY <1>0, TurnsTyped, ClientTyped
<1> HIDE DEF s, r
<1>7. With(c, p, r)[p] = r /\ \A q \in Procs \ {p} : With(c, p, r)[q] = proc[c][q]
  BY <1>5, WithFacts
<1>8. p = 0 BY <1>2, <1>3 DEF Local, Parked
<1>9. Parked(s, With(c, p, r)) BY <1>3, <1>5, <1>6, <1>7, <1>8 DEF Local, Parked
<1>10. r.replay \subseteq 1..eventCounter BY <1>3, <1>5 DEF Local, InRange
<1>11. r.pc \in BeforeOwner BY <1>5 DEF BeforeOwner
<1> QED BY <1>1, <1>2, <1>4, <1>5, <1>6, <1>9, <1>10, <1>11, MovesKeeps

(* Past the owner check a process moves on, or returns, and leaves the     *)
(* subscription as it is.                                                  *)
LEMMA PastOwnerKeeps ==
    ASSUME ClientTypeOK, \A d \in Clients : ClientInv(d), NEW c \in Clients, NEW p \in Procs,
           proc[c][p].pc \in PastOwner, UNCHANGED <<ownerKnown, eventCounter>>,
           gaps' \in [Clients -> Nat],
           NEW r \in Process, r.pc \in PastOwner \cup {"idle"}, r.replay \subseteq 1..eventCounter,
           Moves(c, sub[c], With(c, p, r))
    PROVE  ClientTypeOK' /\ \A d \in Clients : ClientInv(d)'
<1>1. ownerKnown /\ connected[c] /\ c \notin Strangers BY PastOwnerFacts
<1>2. Parked(sub[c], With(c, p, r)) BY ParkedMovesOn
<1> QED BY <1>1, <1>2, ClientTyped, MovesKeeps

(* ... by the read of the position, ...                                    *)
LEMMA PositionKeeps ==
    ASSUME ClientTypeOK, \A d \in Clients : ClientInv(d), NEW c \in Clients, NEW p \in Procs,
           ReadPosition(c, p)
    PROVE  ClientTypeOK' /\ \A d \in Clients : ClientInv(d)'
<1> DEFINE r == [proc[c][p] EXCEPT !.pc = "collect", !.since = sub[c].lastSeq]
<1>1. PositionEffect(c, p) /\ gaps' \in [Clients -> Nat] BY PositionMoves
<1>2. UNCHANGED <<ownerKnown, eventCounter>> /\ proc[c][p].pc \in PastOwner
  BY DEF ReadPosition, ProcUnchanged, logVars, At, PastOwner
<1>3. proc[c][p].replay \subseteq 1..eventCounter BY DEF ClientInv, Local, InRange
<1>4. proc[c][p] \in Process /\ sub[c].lastSeq \in Nat BY ClientTyped DEF Subscription
<1>5. r \in Process /\ r.pc = "collect" /\ r.replay = proc[c][p].replay
  BY <1>4 DEF Process, Labels
<1> HIDE DEF r
<1>6. r.pc \in PastOwner \cup {"idle"} BY <1>5 DEF PastOwner
<1>7. CASE Moves(c, sub[c], With(c, p, r)) BY <1>1, <1>2, <1>3, <1>5, <1>6, <1>7, PastOwnerKeeps
<1>8. CASE Moves(c, sub[c], With(c, p, IdleProc))
  BY <1>1, <1>2, <1>8, IdleTyped, PastOwnerKeeps
<1> QED BY <1>1, <1>7, <1>8 DEF PositionEffect, r

(* What collectReplay leaves process p of c with.                          *)
LEMMA CollectedTyped ==
    ASSUME HubInv, ClientTypeOK, NEW c \in Clients, NEW p \in Procs
    PROVE  /\ Collected(c, p) \in Process
           /\ Collected(c, p).pc = "replay" /\ Collected(c, p).replay \subseteq 1..eventCounter
<1>1. proc[c][p].since \in Nat BY ClientTyped DEF Process
<1>2. RetainedAfter(proc[c][p].since) \subseteq 1..eventCounter
  <2>1. /\ eventBuffer \in Seq(BufferedEvent) /\ eventCounter \in Nat
        /\ Len(eventBuffer) <= eventCounter /\ Len(eventBuffer) \in Nat
        /\ \A i \in DOMAIN eventBuffer : eventBuffer[i].id = eventCounter - Len(eventBuffer) + i
        /\ DOMAIN eventBuffer = 1..Len(eventBuffer)
    BY LenProperties DEF HubInv, HubTypeOK, LogTypeOK, BufferIsSuffix
  <2>2. \A i \in DOMAIN eventBuffer : eventBuffer[i].id \in 1..eventCounter BY <2>1
  <2> QED BY <2>2 DEF RetainedAfter, RetainedIds
<1>3. Gap(proc[c][p].since) \in BOOLEAN
  <2> DEFINE since == proc[c][p].since
  <2>1. eventCounter \in Nat /\ eventBuffer \in Seq(BufferedEvent)
    BY DEF HubInv, HubTypeOK, LogTypeOK
  <2>2. eventBuffer # << >> => eventBuffer[1].id \in Nat
    <3>1. eventBuffer # << >> => eventBuffer[1] \in BufferedEvent
      BY <2>1, EmptySeq, LenProperties, ElementOfSeq
    <3> QED BY <3>1 DEF BufferedEvent
  <2> HIDE DEF since
  <2>3. since \in Nat BY <1>1 DEF since
  <2>4. (eventCounter > since) \in BOOLEAN BY <2>1, <2>3
  <2>5. eventBuffer # << >> => (eventBuffer[1].id > since + 1) \in BOOLEAN BY <2>2, <2>3
  <2>6. Gap(since) \in BOOLEAN BY <2>4, <2>5 DEF Gap
  <2> QED BY <2>6 DEF since
<1>4. "replay" \in Labels BY DEF Labels
<1>5. 1..eventCounter \subseteq Nat OBVIOUS
<1>6. RetainedAfter(proc[c][p].since) \in SUBSET Nat BY <1>2, <1>5
<1> QED BY <1>1, <1>2, <1>3, <1>4, <1>6 DEF Collected, Process

(* ... by the collection of the replay, ...                                *)
LEMMA CollectKeeps ==
    ASSUME HubInv, ClientTypeOK, \A d \in Clients : ClientInv(d), NEW c \in Clients,
           NEW p \in Procs, CollectReplay(c, p)
    PROVE  ClientTypeOK' /\ \A d \in Clients : ClientInv(d)'
<1> DEFINE r == Collected(c, p)
<1>1. Moves(c, sub[c], With(c, p, r)) /\ gaps' \in [Clients -> Nat] BY CollectMoves
<1>2. UNCHANGED <<ownerKnown, eventCounter>> /\ proc[c][p].pc \in PastOwner
  BY DEF CollectReplay, ProcUnchanged, logVars, At, PastOwner
<1>3. r \in Process /\ r.pc = "replay" /\ r.replay \subseteq 1..eventCounter BY CollectedTyped
<1> HIDE DEF r
<1>4. r.pc \in PastOwner \cup {"idle"} BY <1>3 DEF PastOwner
<1> QED BY <1>1, <1>2, <1>3, <1>4, PastOwnerKeeps

(* What a write to c does: ids in the log, above the last one delivered,   *)
(* appended in order.                                                      *)
LEMMA WriteFacts ==
    ASSUME eventCounter \in Nat, ClientTypeOK, NEW c \in Clients, ClientInv(c),
           NEW replay \in SUBSET (1..eventCounter), NEW queued \in SUBSET (1..eventCounter),
           sub[c].state # "none"
    PROVE  LET ids == Fresh(sub[c].lastSeq, replay, queued)
               top == Max({sub[c].lastSeq} \cup ids)
               h == got[c] \o Ascending(ids)
           IN  /\ ids \subseteq 1..eventCounter /\ ids \subseteq Nat
               /\ \A id \in ids : sub[c].lastSeq < id
               /\ top \in Nat /\ sub[c].lastSeq <= top /\ \A id \in ids : id <= top
               /\ top \in {sub[c].lastSeq} \cup ids
               /\ h \in Seq(Nat) /\ Increasing(h) /\ Elements(h) \subseteq 1..eventCounter
               /\ Elements(h) = Elements(got[c]) \cup ids
               /\ top = IF h = << >> THEN cursor[c] ELSE Last(h)
               /\ h # << >> => h[1] > cursor[c]
<1> DEFINE ids == Fresh(sub[c].lastSeq, replay, queued)
           n == sub[c].lastSeq
           top == Max({n} \cup ids)
           g == got[c]
           h == g \o Ascending(ids)
<1>1. n \in Nat /\ g \in Seq(Nat) /\ cursor[c] \in Nat BY ClientTyped DEF Subscription
<1>2. /\ Increasing(g) /\ Elements(g) \subseteq 1..eventCounter
      /\ n = (IF g = << >> THEN cursor[c] ELSE Last(g))
      /\ g # << >> => g[1] > cursor[c]
  BY DEF ClientInv, Local, Ordered, InRange
<1>3. /\ ids \subseteq 1..eventCounter /\ ids \subseteq Nat /\ IsFiniteSet(ids)
      /\ \A id \in ids : n < id
  <2>1. ids \subseteq 1..eventCounter BY DEF Fresh
  <2>2. \A id \in ids : n < id BY <1>1 DEF Fresh
  <2>0. 1 \in Int /\ eventCounter \in Int OBVIOUS
  <2>3. IsFiniteSet(1..eventCounter) BY <2>0, FS_Interval
  <2> HIDE DEF ids
  <2>4. IsFiniteSet(ids) BY <2>1, <2>3, FS_Subset
  <2>5. 1..eventCounter \subseteq Nat OBVIOUS
  <2> QED BY <2>1, <2>2, <2>4, <2>5
<1> HIDE DEF ids, n, g
<1>4. /\ top \in Nat /\ n <= top /\ top \in {n} \cup ids /\ \A id \in ids : id <= top
      /\ ids = {} => top = n
  BY <1>1, <1>3, MaxOfIds
<1>5. g # << >> => Last(g) = n BY <1>2
<1>6. /\ h \in Seq(Nat) /\ Increasing(h) /\ Elements(h) = Elements(g) \cup ids
      /\ (h = << >>) <=> (g = << >> /\ ids = {})
      /\ h # << >> => Last(h) = top
      /\ h # << >> => h[1] = IF g # << >> THEN g[1] ELSE Ascending(ids)[1]
      /\ h # << >> /\ g = << >> => h[1] > n
  BY <1>1, <1>2, <1>3, <1>5, AppendAscending
<1> HIDE DEF h, top
<1>7. top = IF h = << >> THEN cursor[c] ELSE Last(h) BY <1>2, <1>4, <1>6
<1>8. h # << >> => h[1] > cursor[c] BY <1>2, <1>6
<1>9. Elements(h) \subseteq 1..eventCounter BY <1>2, <1>3, <1>6
<1> QED BY <1>3, <1>4, <1>6, <1>7, <1>8, <1>9 DEF ids, n, top, g, h

(* Something is written to c, and its subscription is live from then on.   *)
LEMMA WritesKeeps ==
    ASSUME eventCounter \in Nat, ClientTypeOK, \A d \in Clients : ClientInv(d),
           NEW c \in Clients, c \notin Strangers, ownerKnown, connected[c],
           UNCHANGED <<ownerKnown, eventCounter>>, gaps' \in [Clients -> Nat],
           NEW replay \in SUBSET (1..eventCounter), NEW queued \in SUBSET (1..eventCounter),
           sub[c].state # "none",
           NEW rest \in Subscription, rest.state = "live", rest.queue = {},
           rest.lastSeq = sub[c].lastSeq,
           NEW P \in [Procs -> Process], \A p \in Procs : P[p].replay \subseteq 1..eventCounter,
           Parked(rest, P), Writes(c, replay, queued, rest, P)
    PROVE  ClientTypeOK' /\ \A d \in Clients : ClientInv(d)'
<1> DEFINE ids == Fresh(sub[c].lastSeq, replay, queued)
           top == Max({sub[c].lastSeq} \cup ids)
           h == got[c] \o Ascending(ids)
           s == [rest EXCEPT !.lastSeq = top]
<1>1. /\ ids \subseteq Nat /\ top \in Nat
      /\ h \in Seq(Nat) /\ Increasing(h) /\ Elements(h) \subseteq 1..eventCounter
      /\ top = IF h = << >> THEN cursor[c] ELSE Last(h)
      /\ h # << >> => h[1] > cursor[c]
  <2>1. ClientInv(c) OBVIOUS
  <2> QED BY <2>1, WriteFacts, ZenonT(60)
<1>2. Becomes(c, connected[c], s, P, h, cursor[c], known[c] \cup ids) BY DEF Writes
<1> HIDE DEF ids, top, h
<1>3. s \in Subscription /\ s.state = "live" /\ s.queue = {} /\ s.lastSeq = top
  BY <1>1 DEF Subscription
<1> HIDE DEF s
<1>4. cursor[c] \in Nat /\ known[c] \cup ids \in SUBSET Nat BY <1>1, ClientTyped
<1>5. Local(c, connected[c], s, P, h, cursor[c], known[c] \cup ids)
  <2>1. Attached(connected[c], s, P) BY DEF Attached
  <2>2. Ordered(s, h, cursor[c]) BY <1>1, <1>3 DEF Ordered
  <2>3. InRange(s, P, h) BY <1>1, <1>3 DEF InRange
  <2>4. Parked(s, P) BY <1>3 DEF Parked
  <2> QED BY <2>1, <2>2, <2>3, <2>4 DEF Local
<1>6. connected[c] \in BOOLEAN BY ClientTyped
<1> QED BY <1>1, <1>2, <1>3, <1>4, <1>5, <1>6, LocalStep

(* ... and by the writes, which continue what was written in order.        *)
LEMMA WriteReplayKeeps ==
    ASSUME eventCounter \in Nat, ClientTypeOK, \A d \in Clients : ClientInv(d),
           NEW c \in Clients, NEW p \in Procs, WriteReplay(c, p)
    PROVE  ClientTypeOK' /\ \A d \in Clients : ClientInv(d)'
<1>1. WriteReplayEffect(c, p) /\ gaps' \in [Clients -> Nat] BY WriteReplayWrites
<1>2. UNCHANGED <<ownerKnown, eventCounter>> /\ proc[c][p].pc \in PastOwner
  BY DEF WriteReplay, ProcUnchanged, logVars, At, PastOwner
<1>3. CASE sub[c].state = "none"
  <2>1. Moves(c, sub[c], With(c, p, IdleProc)) BY <1>1, <1>3 DEF WriteReplayEffect
  <2> QED BY <1>1, <1>2, <2>1, IdleTyped, PastOwnerKeeps
<1>4. CASE sub[c].state # "none"
  <2> DEFINE rest == [sub[c] EXCEPT !.queue = {}, !.state = "live"]
             done == [IdleProc EXCEPT !.pc = "complete", !.gap = proc[c][p].gap]
             P == With(c, p, done)
  <2>1. Writes(c, proc[c][p].replay, sub[c].queue, rest, P) BY <1>1, <1>4 DEF WriteReplayEffect
  <2>2. sub[c] \in Subscription /\ proc[c][p] \in Process BY ClientTyped
  <2>3. rest \in Subscription /\ rest.state = "live" /\ rest.queue = {} /\ rest.lastSeq = sub[c].lastSeq
    BY <2>2 DEF Subscription, SubStates
  <2>4. done \in Process /\ done.pc = "complete" /\ done.replay = {}
    BY <2>2 DEF Process, Labels, IdleProc
  <2> HIDE DEF rest, done
  <2>5. done.pc \in PastOwner \cup {"idle"} BY <2>4 DEF PastOwner
  <2>6. Parked(sub[c], P) BY <1>2, <2>4, <2>5, ParkedMovesOn DEF PastOwner
  <2>7. P \in [Procs -> Process] /\ P[p] = done /\ \A q \in Procs \ {p} : P[q] = proc[c][q]
    BY <2>4, WithFacts
  <2> HIDE DEF P
  <2>8. Parked(rest, P)
    <3>1. p = 0 => P[0].pc # "park" BY <2>4, <2>7
    <3>2. p # 0 => P[0].pc # "park" BY <2>4, <2>6, <2>7 DEF Parked
    <3> QED BY <2>3, <2>6, <3>1, <3>2 DEF Parked
  <2>9. /\ sub[c].queue \subseteq 1..eventCounter
        /\ \A q \in Procs : proc[c][q].replay \subseteq 1..eventCounter
    BY DEF ClientInv, Local, InRange
  <2>10. \A q \in Procs : P[q].replay \subseteq 1..eventCounter
    BY <2>4, <2>7, <2>9
  <2>11. ownerKnown /\ connected[c] /\ c \notin Strangers BY <1>2, PastOwnerFacts
  <2> QED BY <1>1, <1>2, <1>4, <2>1, <2>3, <2>7, <2>8, <2>9, <2>10, <2>11, WritesKeeps
<1> QED BY <1>3, <1>4

(* Nothing written is in order.                                            *)
LEMMA NothingWritten == << >> \in Seq(Nat) /\ Increasing(<< >>) /\ Elements(<< >>) = {}
<1>1. << >> \in Seq(Nat) /\ Len(<< >>) = 0 /\ 1..0 = {} /\ DOMAIN << >> = {} BY EmptySeq
<1> QED BY <1>1 DEF Increasing, Elements

(* The furthest id written is an id.                                       *)
LEMMA LastTyped ==
    ASSUME ClientTypeOK, NEW c \in Clients
    PROVE  /\ got[c] # << >> => Last(got[c]) \in Nat
           /\ Furthest(c) \in Nat
<1>1. got[c] \in Seq(Nat) /\ cursor[c] \in Nat BY ClientTyped
<1>2. got[c] # << >> => Len(got[c]) \in 1..Len(got[c]) BY <1>1, EmptySeq
<1>3. got[c] # << >> => got[c][Len(got[c])] \in Nat BY <1>1, <1>2, ElementOfSeq
<1> QED BY <1>1, <1>3 DEF Last, Furthest

(* The client layer is kept by resume_complete, ...                        *)
LEMMA ResumeKeeps ==
    ASSUME ClientTypeOK, \A d \in Clients : ClientInv(d), NEW c \in Clients, NEW p \in Procs,
           ResumeComplete(c, p)
    PROVE  ClientTypeOK' /\ \A d \in Clients : ClientInv(d)'
<1> DEFINE P == With(c, p, IdleProc)
           k == IF proc[c][p].gap THEN known[c] \cup 1..Furthest(c) ELSE known[c]
<1>1. Becomes(c, connected[c], sub[c], P, << >>, Furthest(c), k) /\ gaps' \in [Clients -> Nat]
  BY ResumeBecomes DEF ResumeEffect
<1>2. UNCHANGED <<ownerKnown, eventCounter>> /\ proc[c][p].pc \in PastOwner
  BY DEF ResumeComplete, logVars, At, PastOwner
<1>3. ownerKnown /\ connected[c] /\ c \notin Strangers BY <1>2, PastOwnerFacts
<1>4. P \in [Procs -> Process] /\ P[p] = IdleProc /\ \A q \in Procs \ {p} : P[q] = proc[c][q]
  BY IdleTyped, WithFacts
<1>5. Furthest(c) \in Nat /\ k \in SUBSET Nat BY LastTyped, ClientTyped
<1>6. Parked(sub[c], P) BY <1>2, IdleTyped, ParkedMovesOn DEF PastOwner
<1> HIDE DEF P, k
<1>7. Local(c, connected[c], sub[c], P, << >>, Furthest(c), k)
  <2>1. Attached(connected[c], sub[c], P) BY <1>3 DEF Attached
  <2>2. Ordered(sub[c], << >>, Furthest(c))
    <3>1. Ordered(sub[c], got[c], cursor[c]) BY DEF ClientInv, Local
    <3> QED BY <3>1, NothingWritten DEF Ordered, Furthest
  <2>3. InRange(sub[c], P, << >>)
    <3>1. InRange(sub[c], proc[c], got[c]) BY DEF ClientInv, Local
    <3>2. \A q \in Procs : P[q].replay \subseteq 1..eventCounter
      BY <1>4, <3>1, IdleTyped DEF InRange
    <3> QED BY <3>1, <3>2, NothingWritten DEF InRange
  <2> QED BY <1>3, <1>6, <2>1, <2>2, <2>3 DEF Local
<1> QED BY <1>1, <1>2, <1>4, <1>5, <1>7, ClientTyped, NothingWritten, LocalStep

(* The client falls back to something it had.                              *)
LEMMA BackTyped ==
    ASSUME ClientTypeOK, NEW c \in Clients, NEW n \in Retained(c)
    PROVE  /\ n \in 0..Len(got[c]) /\ Back(c, n) \in Nat
           /\ Kept(c, n) \subseteq known[c] /\ Kept(c, n) \in SUBSET Nat
<1>1. got[c] \in Seq(Nat) /\ cursor[c] \in Nat /\ known[c] \subseteq Nat BY ClientTyped
<1>2. Len(got[c]) \in Nat /\ n \in 0..Len(got[c]) BY <1>1 DEF Retained
<1>3. n # 0 => n \in 1..Len(got[c]) BY <1>2
<1>4. n # 0 => got[c][n] \in Nat BY <1>1, <1>3, ElementOfSeq
<1> QED BY <1>1, <1>2, <1>4 DEF Back, Kept

(* The subscription of c goes, or starts afresh.                           *)
LEMMA DropsKeeps ==
    ASSUME ClientTypeOK, \A d \in Clients : ClientInv(d), NEW c \in Clients,
           NEW n \in Retained(c), NEW o \in BOOLEAN, NEW s \in Subscription,
           NEW P \in [Procs -> Process],
           Becomes(c, o, s, P, << >>, Back(c, n), Kept(c, n)), gaps' \in [Clients -> Nat],
           UNCHANGED <<ownerKnown, eventCounter>>,
           s.state = "none" \/ (s.state = "replaying" /\ s.lastSeq = Back(c, n)),
           s.queue = {}, Attached(o, s, P), Parked(s, P),
           \A p \in Procs : P[p].replay \subseteq 1..eventCounter,
           c \in Strangers => \A p \in Procs : P[p].pc \in BeforeOwner,
           ~ownerKnown => Unowned(s, P)
    PROVE  ClientTypeOK' /\ \A d \in Clients : ClientInv(d)'
<1>1. Back(c, n) \in Nat /\ Kept(c, n) \in SUBSET Nat /\ Kept(c, n) \subseteq known[c]
  BY BackTyped
<1>2. Ordered(s, << >>, Back(c, n)) BY NothingWritten DEF Ordered
<1>3. InRange(s, P, << >>) BY NothingWritten DEF InRange
<1>4. c \in Strangers => Shut(s, P, << >>, Kept(c, n))
  <2> SUFFICES ASSUME c \in Strangers PROVE Shut(s, P, << >>, Kept(c, n)) OBVIOUS
  <2>1. known[c] = {} BY DEF ClientInv, Local, Shut
  <2> QED BY <1>1, <2>1 DEF Shut
<1>5. Local(c, o, s, P, << >>, Back(c, n), Kept(c, n)) BY <1>2, <1>3, <1>4 DEF Local
<1> QED BY <1>1, <1>5, NothingWritten, LocalStep

(* ... by a fresh subscription, ...                                        *)
LEMMA SubscribeKeeps ==
    ASSUME ClientTypeOK, \A d \in Clients : ClientInv(d), NEW c \in Clients, Subscribe(c)
    PROVE  ClientTypeOK' /\ \A d \in Clients : ClientInv(d)'
<1> DEFINE r == Goes(c, 0, "start")
           P == With(c, 0, r)
<1>0. "start" \in Labels /\ 0 \in Procs BY IdleTyped DEF Labels
<1>1. PICK n \in Retained(c) :
        Becomes(c, connected[c], [state |-> "replaying", lastSeq |-> Back(c, n), queue |-> {}],
                P, << >>, Back(c, n), Kept(c, n))
  BY SubscribeBecomes
<1> DEFINE s == [state |-> "replaying", lastSeq |-> Back(c, n), queue |-> {}]
<1>2. gaps' \in [Clients -> Nat] BY SubscribeBecomes
<1>3. /\ UNCHANGED <<ownerKnown, eventCounter>> /\ connected[c] /\ proc[c][0].pc = "idle"
  BY DEF Subscribe, ReaderFree, logVars
<1>4. Back(c, n) \in Nat BY BackTyped
<1>5. /\ s \in Subscription /\ s.state = "replaying"
      /\ s.lastSeq = Back(c, n) /\ s.queue = {}
  BY <1>4 DEF Subscription, SubStates
<1>6. r \in Process /\ r.pc = "start" /\ r.replay = proc[c][0].replay BY <1>0, GoesTyped
<1> HIDE DEF s, r
<1>7. P \in [Procs -> Process] /\ P[0] = r /\ \A q \in Procs \ {0} : P[q] = proc[c][q]
  BY <1>0, <1>6, WithFacts
<1> HIDE DEF P
<1>8. Local(c, connected[c], sub[c], proc[c], got[c], cursor[c], known[c]) BY DEF ClientInv
<1>9. Attached(connected[c], s, P) BY <1>3 DEF Attached
<1>10. Parked(s, P) BY <1>5, <1>6, <1>7, <1>8 DEF Local, Parked
<1>11. \A p \in Procs : P[p].replay \subseteq 1..eventCounter
  BY <1>0, <1>6, <1>7, <1>8 DEF Local, InRange
<1>12. c \in Strangers => \A p \in Procs : P[p].pc \in BeforeOwner
  BY <1>6, <1>7, <1>8 DEF Local, Shut, BeforeOwner
<1>13. ~ownerKnown => Unowned(s, P) BY <1>5, <1>6, <1>7, <1>8 DEF Local, Unowned
<1>14. connected[c] \in BOOLEAN BY ClientTyped
<1>15. Becomes(c, connected[c], s, P, << >>, Back(c, n), Kept(c, n)) BY <1>1 DEF s, P, r
<1> DEFINE o == connected[c]
<1>16. /\ o \in BOOLEAN /\ Becomes(c, o, s, P, << >>, Back(c, n), Kept(c, n))
       /\ Attached(o, s, P)
  BY <1>9, <1>14, <1>15
<1>17. s.state = "none" \/ (s.state = "replaying" /\ s.lastSeq = Back(c, n)) BY <1>5
<1> HIDE DEF o
<1> QED BY <1>2, <1>3, <1>5, <1>7, <1>10, <1>11, <1>12, <1>13, <1>16, <1>17, DropsKeeps

(* ... by the end of one, ...                                              *)
LEMMA UnsubscribeKeeps ==
    ASSUME ClientTypeOK, \A d \in Clients : ClientInv(d), NEW c \in Clients, Unsubscribe(c)
    PROVE  ClientTypeOK' /\ \A d \in Clients : ClientInv(d)'
<1>1. PICK n \in Retained(c) : Becomes(c, connected[c], NoSub, proc[c], << >>, Back(c, n), Kept(c, n))
  BY UnsubscribeBecomes
<1>2. gaps' \in [Clients -> Nat] BY UnsubscribeBecomes
<1>3. /\ UNCHANGED <<ownerKnown, eventCounter>> /\ connected[c] /\ proc[c][0].pc = "idle"
  BY DEF Unsubscribe, ReaderFree, logVars
<1>4. Local(c, connected[c], sub[c], proc[c], got[c], cursor[c], known[c]) BY DEF ClientInv
<1>5. Attached(connected[c], NoSub, proc[c]) BY <1>3 DEF Attached
<1>6. Parked(NoSub, proc[c]) BY <1>3, <1>4, IdleTyped DEF Local, Parked
<1>7. \A p \in Procs : proc[c][p].replay \subseteq 1..eventCounter BY <1>4 DEF Local, InRange
<1>8. c \in Strangers => \A p \in Procs : proc[c][p].pc \in BeforeOwner BY <1>4 DEF Local, Shut
<1>9. ~ownerKnown => Unowned(NoSub, proc[c]) BY <1>4, IdleTyped DEF Local, Unowned
<1>10. connected[c] \in BOOLEAN /\ proc[c] \in [Procs -> Process] BY ClientTyped
<1>11. NoSub \in Subscription /\ NoSub.state = "none" /\ NoSub.queue = {} BY IdleTyped
<1> QED BY <1>1, <1>2, <1>3, <1>5, <1>6, <1>7, <1>8, <1>9, <1>10, <1>11, DropsKeeps

(* ... by the end of a connection, ...                                     *)
LEMMA ClosedKeeps ==
    ASSUME ClientTypeOK, \A d \in Clients : ClientInv(d), NEW c \in Clients, Closed(c),
           UNCHANGED <<ownerKnown, eventCounter>>
    PROVE  ClientTypeOK' /\ \A d \in Clients : ClientInv(d)'
<1>1. PICK n \in Retained(c) : Becomes(c, FALSE, NoSub, NoProcs, << >>, Back(c, n), Kept(c, n))
  BY ClosedBecomes
<1>2. gaps' \in [Clients -> Nat] BY ClosedBecomes
<1>3. NoProcs \in [Procs -> Process] /\ \A p \in Procs : NoProcs[p] = IdleProc
  BY IdleTyped DEF NoProcs
<1>4. Attached(FALSE, NoSub, NoProcs) BY <1>3, IdleTyped DEF Attached
<1>5. Parked(NoSub, NoProcs) BY <1>3, IdleTyped DEF Parked
<1>6. \A p \in Procs : NoProcs[p].replay \subseteq 1..eventCounter /\ NoProcs[p].pc \in BeforeOwner
  BY <1>3, IdleTyped DEF BeforeOwner
<1>7. Unowned(NoSub, NoProcs) BY <1>3, IdleTyped DEF Unowned
<1> QED BY <1>1, <1>2, <1>3, <1>4, <1>5, <1>6, <1>7, IdleTyped, DropsKeeps

(* ... by a notification that completes a parked subscription, ...         *)
LEMMA NotifyVisitKeeps ==
    ASSUME ClientTypeOK, BookTypeOK, NotYetNotified, eventCounter \in Nat,
           \A d \in Clients : ClientInv(d),
           NEW k \in 1..MaxInits, NEW c \in Clients, NotifyVisit(k, c)
    PROVE  ClientTypeOK' /\ \A d \in Clients : ClientInv(d)'
<1>1. /\ UNCHANGED <<ownerKnown, eventCounter, connected, clientVars>>
      /\ notifier[k].pc = "visit"
  BY DEF NotifyVisit, logVars
<1>2. ownerKnown BY <1>1 DEF NotYetNotified
<1>3. CASE sub[c].state # "pending"
  <2>1. UNCHANGED <<sub, proc>> BY <1>3 DEF NotifyVisit
  <2>2. eventCounter' \in Nat /\ eventCounter' >= eventCounter BY <1>1
  <2> QED BY <1>1, <2>1, <2>2, ClientsSame
<1>4. CASE sub[c].state = "pending"
  <2> DEFINE s == Turns(c, "replaying")
             r == Goes(c, k, "start")
  <2>0. "replaying" \in SubStates /\ "start" \in Labels BY DEF SubStates, Labels
  <2>1. k \in Procs /\ k # 0 BY DEF Procs
  <2>2. sub' = [sub EXCEPT ![c] = s] BY <1>4, SubGoes DEF NotifyVisit
  <2>3. proc' = [proc EXCEPT ![c] = With(c, k, r)]
    <3>1. GoTo(c, k, "start") BY <1>4 DEF NotifyVisit, GoTo
    <3> QED BY <2>1, <3>1, GoToGoes
  <2>4. Moves(c, s, With(c, k, r)) /\ gaps' \in [Clients -> Nat]
    BY <1>1, <2>2, <2>3, MovesIntro
  <2>5. s \in Subscription /\ s.state = "replaying" /\ s.queue = {} /\ s.lastSeq = sub[c].lastSeq
    BY <2>0, TurnsTyped
  <2>6. r \in Process /\ r.pc = "start" /\ r.replay = proc[c][k].replay BY <2>0, <2>1, GoesTyped
  <2>7. Local(c, connected[c], sub[c], proc[c], got[c], cursor[c], known[c]) BY DEF ClientInv
  <2> HIDE DEF s, r
  <2>8. With(c, k, r)[k] = r /\ \A q \in Procs \ {k} : With(c, k, r)[q] = proc[c][q]
    BY <2>1, <2>6, WithFacts
  <2>9. connected[c] BY <1>4, <2>7 DEF Local, Attached
  <2>10. Parked(s, With(c, k, r))
    BY <1>4, <2>1, <2>5, <2>6, <2>7, <2>8, IdleTyped DEF Local, Parked
  <2>11. r.replay \subseteq 1..eventCounter BY <2>1, <2>6, <2>7 DEF Local, InRange
  <2>12. r.pc \in BeforeOwner BY <2>6 DEF BeforeOwner
  <2> QED BY <1>1, <1>2, <1>4, <2>1, <2>4, <2>5, <2>6, <2>9, <2>10, <2>11, <2>12, MovesKeeps
<1> QED BY <1>3, <1>4

(* A replaying subscription of c queues an event.                          *)
Queued(c, id) == [sub[c] EXCEPT !.queue = @ \cup {id}]

DeliverEffect(c) ==
    \/ /\ sub[c].state = "replaying"
       /\ Moves(c, Queued(c, drain.event.id), proc[c])
    \/ /\ sub[c].state = "live"
       /\ Writes(c, {}, {drain.event.id}, sub[c], proc[c])
    \/ /\ sub[c].state \in {"none", "pending"}
       /\ UNCHANGED <<connected, sub, proc, clientVars>>

(* What the delivery of one event does to its client.                      *)
LEMMA DeliverBecomes ==
    ASSUME ClientTypeOK, NEW c \in Clients, DrainDeliver(c)
    PROVE  DeliverEffect(c) /\ gaps' \in [Clients -> Nat]
<1>1. UNCHANGED <<connected, proc, cursor, gaps>> BY DEF DrainDeliver
<1>2. proc' = [proc EXCEPT ![c] = proc[c]] BY <1>1 DEF ClientTypeOK
<1>3. CASE sub[c].state = "replaying"
  <2>1. sub' = [sub EXCEPT ![c].queue = @ \cup {drain.event.id}] /\ UNCHANGED <<got, known>>
    BY <1>3 DEF DrainDeliver
  <2>2. sub' = [sub EXCEPT ![c] = Queued(c, drain.event.id)]
    BY <2>1 DEF Queued, ClientTypeOK
  <2>3. UNCHANGED <<connected, clientVars>> BY <1>1, <2>1 DEF clientVars
  <2> QED BY <1>2, <1>3, <2>2, <2>3, MovesIntro DEF DeliverEffect
<1>4. CASE sub[c].state = "live"
  <2>1. WriteTo(c, {}, {drain.event.id}, sub[c]) BY <1>4 DEF DrainDeliver
  <2> QED BY <1>1, <1>2, <1>4, <2>1, WritesIntro DEF DeliverEffect
<1>5. CASE sub[c].state \in {"none", "pending"}
  <2>1. UNCHANGED <<sub, got, known>> BY <1>5 DEF DrainDeliver
  <2>2. gaps' \in [Clients -> Nat] BY <1>1 DEF ClientTypeOK
  <2> QED BY <1>1, <1>5, <2>1, <2>2 DEF DeliverEffect, clientVars
<1>6. sub[c].state \in SubStates BY ClientTyped DEF Subscription
<1> QED BY <1>3, <1>4, <1>5, <1>6 DEF SubStates

(* ... by the delivery of an event, ...                                    *)
LEMMA DeliverKeeps ==
    ASSUME HubInv, ClientTypeOK, \A d \in Clients : ClientInv(d), NEW c \in Clients,
           DrainDeliver(c)
    PROVE  ClientTypeOK' /\ \A d \in Clients : ClientInv(d)'
<1> DEFINE id == drain.event.id
<1>1. DeliverEffect(c) /\ gaps' \in [Clients -> Nat] BY DeliverBecomes
<1>2. UNCHANGED <<ownerKnown, eventCounter>> /\ eventCounter \in Nat
  BY DEF DrainDeliver, logVars, HubInv, HubTypeOK, LogTypeOK
<1>3. id \in 1..eventCounter
  <2>1. id \in 1..Drained BY DEF DrainDeliver, HubInv, TakenIsDrained
  <2>2. Len(hubQueue) \in Nat BY LenProperties DEF HubInv, HubTypeOK
  <2> QED BY <1>2, <2>1, <2>2 DEF Drained
<1>4. Local(c, connected[c], sub[c], proc[c], got[c], cursor[c], known[c]) BY DEF ClientInv
<1> HIDE DEF id
<1>5. CASE sub[c].state = "replaying"
  <2> DEFINE s == Queued(c, id)
  <2>1. Moves(c, s, proc[c]) BY <1>1, <1>5 DEF DeliverEffect, id
  <2>2. sub[c] \in Subscription BY ClientTyped
  <2>3. /\ s \in Subscription /\ s.state = "replaying" /\ s.lastSeq = sub[c].lastSeq
        /\ s.queue = sub[c].queue \cup {id}
    BY <1>2, <1>3, <1>5, <2>2 DEF Queued, Subscription
  <2> HIDE DEF s
  <2>4. /\ Attached(connected[c], s, proc[c]) /\ Ordered(s, got[c], cursor[c])
        /\ InRange(s, proc[c], got[c]) /\ Parked(s, proc[c])
    <3>1. Attached(connected[c], s, proc[c]) BY <1>4, <1>5, <2>3 DEF Local, Attached
    <3>2. Ordered(s, got[c], cursor[c]) BY <1>4, <1>5, <2>3 DEF Local, Ordered
    <3>3. InRange(s, proc[c], got[c]) BY <1>3, <1>4, <2>3 DEF Local, InRange
    <3>4. Parked(s, proc[c]) BY <1>4, <1>5, <2>3 DEF Local, Parked
    <3> QED BY <3>1, <3>2, <3>3, <3>4
  <2>5. c \in Strangers => Shut(s, proc[c], got[c], known[c]) BY <1>4, <2>3 DEF Local, Shut
  <2>6. ~ownerKnown => Unowned(s, proc[c])
    <3> SUFFICES ASSUME ~ownerKnown PROVE Unowned(s, proc[c]) OBVIOUS
    <3>1. Unowned(sub[c], proc[c]) BY <1>4 DEF Local
    <3>2. proc[c][0].pc # "recheck" BY <1>5, <3>1 DEF Unowned
    <3> QED BY <2>3, <3>1, <3>2 DEF Unowned
  <2>7. Local(c, connected[c], s, proc[c], got[c], cursor[c], known[c])
    BY <2>4, <2>5, <2>6 DEF Local
  <2>8. Becomes(c, connected[c], s, proc[c], got[c], cursor[c], known[c]) BY <2>1 DEF Moves
  <2> QED BY <1>1, <1>2, <2>3, <2>7, <2>8, ClientTyped, LocalStep
<1>6. CASE sub[c].state = "live"
  <2>1. Writes(c, {}, {id}, sub[c], proc[c]) BY <1>1, <1>6 DEF DeliverEffect, id
  <2>2. /\ c \notin Strangers /\ ownerKnown /\ connected[c] /\ sub[c].queue = {}
        /\ Parked(sub[c], proc[c]) /\ \A p \in Procs : proc[c][p].replay \subseteq 1..eventCounter
    BY <1>4, <1>6 DEF Local, Shut, Unowned, Attached, Ordered, InRange
  <2>3. {} \in SUBSET (1..eventCounter) /\ {id} \in SUBSET (1..eventCounter) BY <1>3
  <2>4. sub[c] \in Subscription /\ proc[c] \in [Procs -> Process] BY ClientTyped
  <2> QED BY <1>1, <1>2, <1>6, <2>1, <2>2, <2>3, <2>4, WritesKeeps
<1>7. CASE sub[c].state \in {"none", "pending"}
  <2>1. UNCHANGED <<connected, sub, proc, clientVars>> BY <1>1, <1>7 DEF DeliverEffect
  <2>2. eventCounter' \in Nat /\ eventCounter' >= eventCounter BY <1>2
  <2> QED BY <1>2, <2>1, <2>2, ClientsSame
<1>8. sub[c].state \in SubStates BY ClientTyped DEF Subscription
<1> QED BY <1>5, <1>6, <1>7, <1>8 DEF SubStates

(* ... by a new connection, ...                                            *)
LEMMA ConnectKeeps ==
    ASSUME ClientTypeOK, \A d \in Clients : ClientInv(d), NEW c \in Clients, Connect(c)
    PROVE  ClientTypeOK' /\ \A d \in Clients : ClientInv(d)'
<1>1. /\ connected' = [connected EXCEPT ![c] = TRUE]
      /\ UNCHANGED <<ownerKnown, eventCounter, sub, proc, clientVars>>
  BY DEF Connect, logVars
<1>2. Becomes(c, TRUE, sub[c], proc[c], got[c], cursor[c], known[c])
  <2>1. sub' = [sub EXCEPT ![c] = sub[c]] BY <1>1 DEF ClientTypeOK
  <2>2. proc' = [proc EXCEPT ![c] = proc[c]] BY <1>1 DEF ClientTypeOK
  <2>3. got' = [got EXCEPT ![c] = got[c]] BY <1>1 DEF ClientTypeOK, clientVars
  <2>4. cursor' = [cursor EXCEPT ![c] = cursor[c]] BY <1>1 DEF ClientTypeOK, clientVars
  <2>5. known' = [known EXCEPT ![c] = known[c]] BY <1>1 DEF ClientTypeOK, clientVars
  <2> QED BY <1>1, <2>1, <2>2, <2>3, <2>4, <2>5 DEF Becomes
<1>3. gaps' \in [Clients -> Nat] BY <1>1 DEF ClientTypeOK, clientVars
<1>4. Local(c, connected[c], sub[c], proc[c], got[c], cursor[c], known[c]) BY DEF ClientInv
<1>5. Local(c, TRUE, sub[c], proc[c], got[c], cursor[c], known[c]) BY <1>4 DEF Local, Attached
<1> QED BY <1>1, <1>2, <1>3, <1>5, ClientTyped, LocalStep

(* The position of a client is an id.                                      *)
LEMMA PositionTyped == ASSUME ClientTypeOK, NEW c \in Clients PROVE Position(c) \in Nat
BY LastTyped, ClientTyped DEF Position

(* ... and by the restart of the process.                                  *)
LEMMA RestartKeeps ==
    ASSUME ClientTypeOK, Restart
    PROVE  ClientTypeOK' /\ \A d \in Clients : ClientInv(d)'
<1>1. /\ eventCounter' = 0 /\ ownerKnown' = FALSE
      /\ connected' = [c \in Clients |-> FALSE] /\ sub' = [c \in Clients |-> NoSub]
      /\ proc' = [c \in Clients |-> NoProcs] /\ got' = [c \in Clients |-> << >>]
      /\ cursor' = [c \in Clients |-> Position(c)] /\ known' = [c \in Clients |-> {}]
      /\ gaps' = gaps
  BY DEF Restart, NoProcs
<1>2. NoProcs \in [Procs -> Process] /\ \A p \in Procs : NoProcs[p] = IdleProc
  BY IdleTyped DEF NoProcs
<1>3. ClientTypeOK'
  BY <1>1, <1>2, IdleTyped, PositionTyped, NothingWritten DEF ClientTypeOK
<1>4. ASSUME NEW d \in Clients PROVE ClientInv(d)'
  <2> DEFINE u == cursor'[d]
  <2>1. /\ connected'[d] = FALSE /\ sub'[d] = NoSub /\ proc'[d] = NoProcs /\ got'[d] = << >>
        /\ known'[d] = {}
    BY <1>1
  <2> HIDE DEF u
  <2>2. Attached(FALSE, NoSub, NoProcs) BY <1>2, IdleTyped DEF Attached
  <2>3. Ordered(NoSub, << >>, u) BY IdleTyped, NothingWritten DEF Ordered
  <2>4. InRange(NoSub, NoProcs, << >>)' BY <1>2, IdleTyped, NothingWritten DEF InRange
  <2>5. Parked(NoSub, NoProcs) BY <1>2, IdleTyped DEF Parked
  <2>6. Shut(NoSub, NoProcs, << >>, {}) BY <1>2, IdleTyped DEF Shut, BeforeOwner
  <2>7. Unowned(NoSub, NoProcs) BY <1>2, IdleTyped DEF Unowned
  <2>8. Attached(connected[d], sub[d], proc[d])' BY <2>1, <2>2 DEF Attached
  <2>9. Ordered(sub[d], got[d], cursor[d])' BY <2>1, <2>3 DEF Ordered, u
  <2>10. InRange(sub[d], proc[d], got[d])' BY <2>1, <2>4 DEF InRange
  <2>11. Parked(sub[d], proc[d])' BY <2>1, <2>5 DEF Parked
  <2>12. Shut(sub[d], proc[d], got[d], known[d])' BY <2>1, <2>6 DEF Shut
  <2>13. Unowned(sub[d], proc[d])' BY <2>1, <2>7 DEF Unowned
  <2> QED BY <2>8, <2>9, <2>10, <2>11, <2>12, <2>13 DEF ClientInv, Local
<1> QED BY <1>3, <1>4

(* The bounds, the notifiers and the owner.                                *)
BookInv == BookTypeOK /\ NotYetNotified

(* The bookkeeping layer is kept where it is left alone, ...               *)
LEMMA BookSame ==
    BookInv /\ UNCHANGED <<ownerKnown, notifier, boundVars>> => BookInv'
BY DEF BookInv, BookTypeOK, NotYetNotified, boundVars

(* ... by the notifiers, which run only once the owner is known, ...       *)
LEMMA BookNotify ==
    ASSUME BookInv, NEW k \in 1..MaxInits, NotifyStep(k)
    PROVE  BookInv'
<1>1. CASE NotifySnapshot(k)
  <2>1. /\ notifier[k].pc = "snapshot" /\ UNCHANGED <<ownerKnown, boundVars>>
        /\ notifier' = [notifier EXCEPT ![k] =
               [pc |-> "visit", todo |-> {c \in Clients \ Strangers : connected[c]}]]
    BY <1>1 DEF NotifySnapshot
  <2>2. ownerKnown BY <2>1 DEF BookInv, NotYetNotified
  <2> QED BY <2>1, <2>2 DEF BookInv, BookTypeOK, NotYetNotified, boundVars
<1>2. CASE \E c \in Clients : NotifyVisit(k, c)
  <2>1. PICK c \in Clients : NotifyVisit(k, c) BY <1>2
  <2>2. /\ notifier[k].pc = "visit" /\ UNCHANGED <<ownerKnown, boundVars>>
        /\ notifier' = [notifier EXCEPT ![k].todo = @ \ {c}]
    BY <2>1 DEF NotifyVisit
  <2>3. ownerKnown BY <2>2 DEF BookInv, NotYetNotified
  <2> QED BY <2>2, <2>3 DEF BookInv, BookTypeOK, NotYetNotified, boundVars
<1> QED BY <1>1, <1>2 DEF NotifyStep

(* ... by the end of a connection, ...                                     *)
LEMMA BookClosed ==
    ASSUME BookInv, NEW c \in Clients, Closed(c), UNCHANGED <<ownerKnown, boundVars>>
    PROVE  BookInv'
<1>1. notifier' = [k \in 1..MaxInits |-> [notifier[k] EXCEPT !.todo = @ \ {c}]] BY DEF Closed
<1>2. BookTypeOK' BY <1>1 DEF BookInv, BookTypeOK, boundVars
<1>3. \A k \in 1..MaxInits : notifier'[k].pc = notifier[k].pc
  BY <1>1 DEF BookInv, BookTypeOK
<1> QED BY <1>2, <1>3 DEF BookInv, NotYetNotified

(* ... and so by every step.                                               *)
LEMMA BookStep == BookInv /\ [Next]_vars => BookInv'
<1> SUFFICES ASSUME BookInv, [Next]_vars PROVE BookInv' OBVIOUS
<1>1. ASSUME NEW kind \in Payloads, PushEvent(kind) PROVE BookInv'
  BY <1>1, BookSame DEF PushEvent, connVars
<1>2. CASE InitOperation
  <2>1. /\ inits < MaxInits /\ inits' = inits + 1 /\ ownerKnown' = TRUE
        /\ notifier' = [notifier EXCEPT ![inits + 1].pc = "snapshot"]
        /\ UNCHANGED <<misled, subscribes, restarts>>
    BY <1>2 DEF InitOperation
  <2>2. inits + 1 \in 1..MaxInits BY <2>1 DEF BookInv, BookTypeOK
  <2>3. BookTypeOK /\ notifier' \in [1..MaxInits ->
             [pc : {"idle", "snapshot", "visit"}, todo : SUBSET Clients]]
    BY <2>1, <2>2 DEF BookInv, BookTypeOK
  <2>4. inits' \in 0..MaxInits BY <2>1, <2>2
  <2>5. BookTypeOK' BY <2>1, <2>3, <2>4 DEF BookTypeOK
  <2> QED BY <2>1, <2>5 DEF BookInv, NotYetNotified
<1>3. ASSUME NEW k \in 1..MaxInits, NotifyStep(k) PROVE BookInv' BY <1>3, BookNotify
<1>4. CASE DrainStep
  <2>1. ASSUME NEW c \in Clients, EvictVisit(c) PROVE BookInv'
    <3>1. CASE sub[c].state # "none"
      BY <2>1, <3>1, BookClosed DEF EvictVisit, boundVars
    <3>2. CASE sub[c].state = "none"
      BY <2>1, <3>2, BookSame DEF EvictVisit, connVars
    <3> QED BY <3>1, <3>2
  <2>2. ASSUME NEW c \in Clients, DrainDeliver(c) PROVE BookInv'
    BY <2>2, BookSame DEF DrainDeliver
  <2> QED BY <1>4, <2>1, <2>2, BookSame
          DEF DrainStep, DrainTake, DrainTarget, EvictSnapshot, connVars
<1>5. ASSUME NEW c \in Clients, Connect(c) PROVE BookInv' BY <1>5, BookSame DEF Connect
<1>6. ASSUME NEW c \in Clients, Disconnect(c) PROVE BookInv'
  BY <1>6, BookClosed DEF Disconnect, boundVars
<1>7. ASSUME NEW c \in Clients, Subscribe(c) PROVE BookInv'
  <2>1. /\ UNCHANGED <<ownerKnown, notifier, inits, restarts>>
        /\ subscribes < MaxSubscribes /\ subscribes' = subscribes + 1
        /\ misled' = misled \/ misled' = misled \cup {c}
    BY <1>7 DEF Subscribe, ReaderFree
  <2>2. subscribes' \in 0..MaxSubscribes BY <2>1 DEF BookInv, BookTypeOK
  <2>3. misled' \subseteq Clients BY <2>1 DEF BookInv, BookTypeOK
  <2> QED BY <2>1, <2>2, <2>3 DEF BookInv, BookTypeOK, NotYetNotified
<1>8. ASSUME NEW c \in Clients, Unsubscribe(c) PROVE BookInv'
  <2>1. /\ UNCHANGED <<ownerKnown, notifier, inits, restarts, subscribes>>
        /\ misled' = misled \/ misled' = misled \cup {c}
    BY <1>8 DEF Unsubscribe, ReaderFree
  <2>2. misled' \subseteq Clients BY <2>1 DEF BookInv, BookTypeOK
  <2> QED BY <2>1, <2>2 DEF BookInv, BookTypeOK, NotYetNotified
<1>9. ASSUME NEW c \in Clients, NEW p \in Procs, CompleteSubscribe(c, p) PROVE BookInv'
  <2>1. CASE ResumeComplete(c, p)
    <3>1. /\ UNCHANGED <<ownerKnown, notifier, inits, restarts, subscribes>>
          /\ misled' = misled \/ misled' = misled \cup {c}
      BY <2>1 DEF ResumeComplete
    <3>2. misled' \subseteq Clients BY <3>1 DEF BookInv, BookTypeOK
    <3> QED BY <3>1, <3>2 DEF BookInv, BookTypeOK, NotYetNotified
  <2>2. CASE ~ResumeComplete(c, p)
    <3>1. ProcUnchanged
      BY <1>9, <2>2 DEF CompleteSubscribe, CheckOwner, Park, RecheckOwner, Unpark, ReadPosition,
                        CollectReplay, WriteReplay
    <3> QED BY <3>1, BookSame DEF ProcUnchanged
  <2> QED BY <2>1, <2>2
<1>10. CASE Restart
  <2>1. /\ ownerKnown' = FALSE /\ notifier' = [k \in 1..MaxInits |-> IdleNotifier]
        /\ inits' = 0 /\ subscribes' = subscribes
        /\ restarts < MaxRestarts /\ restarts' = restarts + 1
        /\ misled' = misled \cup {c \in Clients : Position(c) > 0}
    BY <1>10 DEF Restart
  <2>2. misled' \subseteq Clients BY <2>1 DEF BookInv, BookTypeOK
  <2>3. restarts' \in 0..MaxRestarts /\ inits' \in 0..MaxInits BY <2>1 DEF BookInv, BookTypeOK
  <2>4. /\ notifier' \in [1..MaxInits -> [pc : {"idle", "snapshot", "visit"}, todo : SUBSET Clients]]
        /\ \A k \in 1..MaxInits : notifier'[k].pc = "idle"
    BY <2>1 DEF IdleNotifier
  <2> QED BY <2>1, <2>2, <2>3, <2>4 DEF BookInv, BookTypeOK, NotYetNotified
<1>11. CASE UNCHANGED vars BY <1>11, BookSame DEF vars, connVars
<1> QED BY <1>1, <1>2, <1>3, <1>4, <1>5, <1>6, <1>7, <1>8, <1>9, <1>10, <1>11 DEF Next

(* The three layers hold at the start.                                     *)
LEMMA BaseInit == Init => BaseInv
<1> SUFFICES ASSUME Init PROVE BaseInv OBVIOUS
<1>1. HubInv BY HubInit
<1>2. BookTypeOK /\ NotYetNotified
  <2>1. /\ ownerKnown = FALSE /\ notifier = [k \in 1..MaxInits |-> IdleNotifier]
        /\ misled = {} /\ inits = 0 /\ restarts = 0 /\ subscribes = 0
    BY DEF Init
  <2>2. inits \in 0..MaxInits /\ restarts \in 0..MaxRestarts /\ subscribes \in 0..MaxSubscribes
    BY <2>1
  <2>3. /\ notifier \in [1..MaxInits -> [pc : {"idle", "snapshot", "visit"}, todo : SUBSET Clients]]
        /\ \A k \in 1..MaxInits : notifier[k].pc = "idle"
    BY <2>1 DEF IdleNotifier
  <2> QED BY <2>1, <2>2, <2>3 DEF BookTypeOK, NotYetNotified
<1>3. /\ ownerKnown = FALSE
      /\ connected = [c \in Clients |-> FALSE] /\ sub = [c \in Clients |-> NoSub]
      /\ proc = [c \in Clients |-> NoProcs] /\ got = [c \in Clients |-> << >>]
      /\ cursor = [c \in Clients |-> 0] /\ known = [c \in Clients |-> {}]
      /\ gaps = [c \in Clients |-> 0]
  BY DEF Init, NoProcs
<1>4. NoProcs \in [Procs -> Process] /\ \A p \in Procs : NoProcs[p] = IdleProc
  BY IdleTyped DEF NoProcs
<1>5. ClientTypeOK BY <1>3, <1>4, IdleTyped, NothingWritten DEF ClientTypeOK
<1>6. ASSUME NEW d \in Clients PROVE ClientInv(d)
  <2>1. Attached(FALSE, NoSub, NoProcs) BY <1>4, IdleTyped DEF Attached
  <2>2. Ordered(NoSub, << >>, 0) BY IdleTyped, NothingWritten DEF Ordered
  <2>3. InRange(NoSub, NoProcs, << >>) BY <1>4, IdleTyped, NothingWritten DEF InRange
  <2>4. Parked(NoSub, NoProcs) BY <1>4, IdleTyped DEF Parked
  <2>5. Shut(NoSub, NoProcs, << >>, {}) BY <1>4, IdleTyped DEF Shut, BeforeOwner
  <2>6. Unowned(NoSub, NoProcs) BY <1>4, IdleTyped DEF Unowned
  <2>7. Local(d, FALSE, NoSub, NoProcs, << >>, 0, {})
    BY <2>1, <2>2, <2>3, <2>4, <2>5, <2>6 DEF Local
  <2> QED BY <1>3, <2>7 DEF ClientInv
<1> QED BY <1>1, <1>2, <1>5, <1>6 DEF BaseInv

(* The client layer is kept by every step of completeSubscribe, ...        *)
LEMMA CompleteKeeps ==
    ASSUME HubInv, ClientTypeOK, \A d \in Clients : ClientInv(d), NEW c \in Clients,
           NEW p \in Procs, CompleteSubscribe(c, p)
    PROVE  ClientTypeOK' /\ \A d \in Clients : ClientInv(d)'
<1>1. eventCounter \in Nat BY DEF HubInv, HubTypeOK, LogTypeOK
<1> QED BY <1>1, CheckOwnerKeeps, ParkKeeps, RecheckKeeps, UnparkKeeps, PositionKeeps,
           CollectKeeps, WriteReplayKeeps, ResumeKeeps DEF CompleteSubscribe

(* ... and by every step of the system.                                    *)
LEMMA ClientStep ==
    BaseInv /\ [Next]_vars => ClientTypeOK' /\ \A d \in Clients : ClientInv(d)'
<1> SUFFICES ASSUME BaseInv, [Next]_vars PROVE ClientTypeOK' /\ \A d \in Clients : ClientInv(d)'
  OBVIOUS
<1> DEFINE Good == ClientTypeOK' /\ \A d \in Clients : ClientInv(d)'
<1> SUFFICES Good OBVIOUS
<1>1. /\ HubInv /\ ClientTypeOK /\ BookTypeOK /\ NotYetNotified
      /\ \A d \in Clients : ClientInv(d)
  BY DEF BaseInv
<1>2. eventCounter \in Nat BY <1>1 DEF HubInv, HubTypeOK, LogTypeOK
<1>3. ASSUME UNCHANGED <<connected, sub, proc, clientVars>>, ownerKnown => ownerKnown',
             eventCounter' \in Nat, eventCounter' >= eventCounter
      PROVE  Good
  BY <1>1, <1>2, <1>3, ClientsSame
<1>4. ASSUME UNCHANGED <<connected, sub, proc, clientVars, ownerKnown, eventCounter>> PROVE Good
  <2>1. eventCounter' \in Nat /\ eventCounter' >= eventCounter BY <1>2, <1>4
  <2> QED BY <1>3, <1>4, <2>1
<1> HIDE DEF Good
<1>5. ASSUME NEW kind \in Payloads, PushEvent(kind) PROVE Good
  <2>1. eventCounter' = eventCounter + 1 BY <1>5 DEF PushEvent, Record
  <2>2. eventCounter' \in Nat /\ eventCounter' >= eventCounter BY <1>2, <2>1
  <2> QED BY <1>3, <1>5, <2>2 DEF PushEvent, connVars
<1>6. CASE InitOperation
  <2>1. eventCounter' \in Nat /\ eventCounter' >= eventCounter
    BY <1>2, <1>6 DEF InitOperation, logVars
  <2> QED BY <1>3, <1>6, <2>1 DEF InitOperation
<1>7. ASSUME NEW k \in 1..MaxInits, NotifyStep(k) PROVE Good
  <2>1. CASE NotifySnapshot(k) BY <1>4, <2>1 DEF NotifySnapshot, logVars
  <2>2. ASSUME NEW c \in Clients, NotifyVisit(k, c) PROVE Good
    BY <1>1, <1>2, <2>2, NotifyVisitKeeps DEF Good
  <2> QED BY <1>7, <2>1, <2>2 DEF NotifyStep
<1>8. CASE DrainStep
  <2>1. ASSUME NEW c \in Clients, DrainDeliver(c) PROVE Good BY <1>1, <2>1, DeliverKeeps DEF Good
  <2>2. ASSUME NEW c \in Clients, EvictVisit(c) PROVE Good
    <3>1. UNCHANGED <<ownerKnown, eventCounter>> BY <2>2 DEF EvictVisit, logVars
    <3>2. CASE sub[c].state # "none"
      BY <1>1, <2>2, <3>1, <3>2, ClosedKeeps DEF EvictVisit, Good
    <3>3. CASE sub[c].state = "none"
      BY <1>4, <2>2, <3>1, <3>3 DEF EvictVisit, connVars
    <3> QED BY <3>2, <3>3
  <2>3. CASE DrainTake \/ DrainTarget \/ EvictSnapshot
    BY <1>4, <2>3 DEF DrainTake, DrainTarget, EvictSnapshot, connVars, logVars
  <2> QED BY <1>8, <2>1, <2>2, <2>3 DEF DrainStep
<1>9. ASSUME NEW c \in Clients, Connect(c) PROVE Good BY <1>1, <1>9, ConnectKeeps DEF Good
<1>10. ASSUME NEW c \in Clients, Disconnect(c) PROVE Good
  <2>1. UNCHANGED <<ownerKnown, eventCounter>> /\ Closed(c) BY <1>10 DEF Disconnect, logVars
  <2> QED BY <1>1, <2>1, ClosedKeeps DEF Good
<1>11. ASSUME NEW c \in Clients, Subscribe(c) PROVE Good BY <1>1, <1>11, SubscribeKeeps DEF Good
<1>12. ASSUME NEW c \in Clients, Unsubscribe(c) PROVE Good
  BY <1>1, <1>12, UnsubscribeKeeps DEF Good
<1>13. ASSUME NEW c \in Clients, NEW p \in Procs, CompleteSubscribe(c, p) PROVE Good
  BY <1>1, <1>13, CompleteKeeps DEF Good
<1>14. CASE Restart BY <1>1, <1>14, RestartKeeps DEF Good
<1>15. CASE UNCHANGED vars BY <1>4, <1>15 DEF vars, connVars, logVars
<1> QED BY <1>5, <1>6, <1>7, <1>8, <1>9, <1>10, <1>11, <1>12, <1>13, <1>14, <1>15 DEF Next

(* The three layers together are inductive.                                *)
LEMMA BaseStep == BaseInv /\ [Next]_vars => BaseInv'
BY HubStep, BookStep, ClientStep DEF BaseInv, BookInv

(* Every variable of the delivery keeps its type: the hub queue is never   *)
(* longer than the event buffer, tool ids are ids of events, and every     *)
(* subscription and completeSubscribe call is in one of its states.        *)
THEOREM HubTypes == Spec => []TypeOK
<1>1. BaseInv => TypeOK BY TypeParts DEF BaseInv, HubInv
<1> QED BY <1>1, BaseInit, BaseStep, PTL DEF Spec

(* The order of what was written, read off the client layer.               *)
LEMMA OrderLemma == BaseInv => DeliveredInOrder
<1> SUFFICES ASSUME BaseInv, NEW c \in Clients
             PROVE  /\ \A i \in 2..Len(got[c]) : got[c][i - 1] < got[c][i]
                    /\ got[c] # << >> => got[c][1] > cursor[c]
  BY DEF DeliveredInOrder
<1>1. Increasing(got[c]) /\ (got[c] # << >> => got[c][1] > cursor[c])
  BY DEF BaseInv, ClientInv, Local, Ordered
<1>2. Len(got[c]) \in Nat BY ClientTyped, LenProperties DEF BaseInv
<1>3. ASSUME NEW i \in 2..Len(got[c]) PROVE got[c][i - 1] < got[c][i]
  <2>1. i - 1 \in 1..Len(got[c]) /\ i \in 1..Len(got[c]) /\ i - 1 < i BY <1>2
  <2> QED BY <1>1, <2>1 DEF Increasing
<1> QED BY <1>1, <1>3

(* However replays, the queue of a replaying subscription and the drain    *)
(* goroutine race, what is written to a client is strictly increasing and  *)
(* starts above the id it resumed from (deliverLocked, completeSubscribe). *)
THEOREM HubDeliversInOrder == Spec => []DeliveredInOrder
BY BaseInit, BaseStep, OrderLemma, PTL DEF Spec

(* A client of another user is never written to and never goes live, not   *)
(* even through a subscription made before the owner was known.            *)
THEOREM HubStrangersSeeNothing == Spec => []StrangersSeeNothing
<1>1. BaseInv => StrangersSeeNothing
  BY DEF BaseInv, ClientInv, Local, Shut, StrangersSeeNothing
<1> QED BY <1>1, BaseInit, BaseStep, PTL DEF Spec

(* Nothing is forgotten: what is on its way to a subscription.             *)

-----------------------------------------------------------------------------

(* Where completeSubscribe has not read the position yet.                  *)
Restarting == {"start", "park", "recheck", "unpark", "position"}

(* A subscription s has no need of an id up to n: it was delivered, or it  *)
(* is one of X.                                                            *)
Within(s, X, n) == \A id \in 1..n : id \in X \/ id <= s.lastSeq

(* Nor will it once process r has written its replay and the queue.        *)
Reaches(s, r, X, n) ==
    \A id \in 1..n : \/ id \in X \/ id <= s.lastSeq \/ id \in s.queue
                     \/ \E x \in r.replay : id <= x

(* Some process will bring s up to n.                                      *)
Underway(s, P, X, n) ==
    \E p \in Procs : \/ P[p].pc \in Restarting
                     \/ P[p].pc = "collect" /\ P[p].since <= s.lastSeq
                     \/ P[p].pc = "replay" /\ Reaches(s, P[p], X, n)

(* Up to n, s was given or will be given what it needs.                    *)
Handled(s, P, X, n) ==
    /\ s.state = "replaying" => Underway(s, P, X, n)
    /\ s.state = "live" => Within(s, X, n) \/ Underway(s, P, X, n)

(* The client holds every id up to n that it needs.                        *)
Holds(k, X, n) == \A id \in 1..n : id \in k \/ id \in X

(* The resume_complete under way reports a gap.                            *)
Told(P) == \E p \in Procs : P[p].pc = "complete" /\ P[p].gap

(* A replay without a gap goes on from where the subscription was.         *)
NoHole(r) == r.gap \/ \A x \in r.replay : \A id \in (r.since + 1)..x : id \in r.replay

(* A replay that can be written together with what is queued meanwhile.    *)
Ready(s, r, X, n) ==
    /\ Reaches(s, r, X, n) /\ \A id \in s.queue : Reaches(s, r, X, id)
    /\ NoHole(r)

(* The client holds what it needs up to its cursor u, and up to the        *)
(* position of s unless it is being told of a gap; processes collect and   *)
(* replay from at most that position and leave no hole.                    *)
Sound(s, P, u, k, X, n) ==
    /\ u <= eventCounter /\ Holds(k, X, u)
    /\ s.state # "none" => Holds(k, X, s.lastSeq) \/ Told(P)
    /\ s.state = "live" => Within(s, X, n)
    /\ \A p \in Procs :
          /\ P[p].pc # "idle" => s.state # "none"
          /\ P[p].pc \in {"collect", "replay"} => P[p].since <= s.lastSeq
          /\ P[p].pc = "replay" => Ready(s, P[p], X, n)

(* The log grows, events are excused, and the drain goroutine moves on     *)
(* over excused events.                                                    *)
LEMMA Slides ==
    ASSUME NEW s, NEW P, NEW X, NEW Y, X \subseteq Y, NEW n, NEW m,
           \A id \in 1..m : id \in 1..n \/ id \in Y
    PROVE  /\ Handled(s, P, X, n) => Handled(s, P, Y, m)
           /\ \A u, k : Sound(s, P, u, k, X, n) => Sound(s, P, u, k, Y, m)
<1>1. Within(s, X, n) => Within(s, Y, m) BY DEF Within
<1>2. \A r : Reaches(s, r, X, n) => Reaches(s, r, Y, m) BY DEF Reaches
<1>3. \A r, id : Reaches(s, r, X, id) => Reaches(s, r, Y, id) BY DEF Reaches
<1>4. Underway(s, P, X, n) => Underway(s, P, Y, m) BY <1>2 DEF Underway
<1>5. \A k, id : Holds(k, X, id) => Holds(k, Y, id) BY DEF Holds
<1>6. \A r : Ready(s, r, X, n) => Ready(s, r, Y, m) BY <1>2, <1>3 DEF Ready
<1> QED BY <1>1, <1>4, <1>5, <1>6 DEF Handled, Sound

(* The same without a bound, while nothing depends on it.                  *)
LEMMA Unexposed ==
    ASSUME NEW s, NEW P, NEW X, NEW Y, X \subseteq Y, NEW n, NEW m,
           s.state # "live",
           s.state = "none" \/ \A p \in Procs : P[p].pc # "replay"
    PROVE  /\ Handled(s, P, X, n) => Handled(s, P, Y, m)
           /\ \A u, k : Sound(s, P, u, k, X, n) => Sound(s, P, u, k, Y, m)
<1>1. CASE s.state = "none"
  <2>1. Handled(s, P, Y, m) BY <1>1 DEF Handled
  <2>2. ASSUME NEW u, NEW k, Sound(s, P, u, k, X, n) PROVE Sound(s, P, u, k, Y, m)
    BY <1>1, <2>2 DEF Sound, Holds
  <2> QED BY <2>1, <2>2
<1>2. CASE \A p \in Procs : P[p].pc # "replay"
  <2>1. Underway(s, P, X, n) => Underway(s, P, Y, m) BY <1>2 DEF Underway
  <2>2. ASSUME NEW u, NEW k, Sound(s, P, u, k, X, n) PROVE Sound(s, P, u, k, Y, m)
    BY <1>2, <2>2 DEF Sound, Holds
  <2> QED BY <2>1, <2>2 DEF Handled
<1> QED BY <1>1, <1>2

(* The highest position grows, whatever is queued is kept.                 *)
LEMMA Advance ==
    ASSUME NEW s \in Subscription, NEW t \in Subscription, NEW X, NEW n,
           s.lastSeq <= t.lastSeq, \A id \in s.queue : id \in t.queue \/ id <= t.lastSeq,
           n \in Nat
    PROVE  /\ Within(s, X, n) => Within(t, X, n)
           /\ \A r : Reaches(s, r, X, n) => Reaches(t, r, X, n)
<1>1. s.lastSeq \in Nat /\ t.lastSeq \in Nat BY DEF Subscription
<1>2. \A id \in 1..n : id <= s.lastSeq => id <= t.lastSeq BY <1>1
<1>3. Within(s, X, n) => Within(t, X, n) BY <1>2 DEF Within
<1>4. ASSUME NEW r, Reaches(s, r, X, n) PROVE Reaches(t, r, X, n)
  BY <1>2, <1>4 DEF Reaches
<1> QED BY <1>3, <1>4

(* A process about to read the position will bring everything.             *)
LEMMA RestartedHandled ==
    ASSUME NEW s, NEW P, NEW X, NEW n, NEW p \in Procs, P[p].pc \in Restarting
    PROVE  Handled(s, P, X, n)
BY DEF Handled, Underway

(* A subscription that is absent or parked has nothing to be brought.      *)
LEMMA NoneHandled ==
    ASSUME NEW s, NEW P, NEW X, NEW n, s.state \in {"none", "pending"}
    PROVE  Handled(s, P, X, n)
BY DEF Handled

(* A process that does not collect, write or complete moves on.            *)
LEMMA SoundMoves ==
    ASSUME NEW s, NEW t, NEW P, NEW Q, NEW u, NEW k, NEW X, NEW n, NEW p \in Procs,
           Sound(s, P, u, k, X, n), P[p].pc # "complete",
           \A q \in Procs \ {p} : Q[q] = P[q],
           Q[p].pc \notin {"collect", "replay", "complete"},
           Q[p].pc # "idle" => t.state # "none",
           t = s \/ (/\ t.state \in {"pending", "replaying"} /\ s.state # "none"
                     /\ t.lastSeq = s.lastSeq /\ \A q \in Procs \ {p} : P[q].pc # "replay")
    PROVE  Sound(t, Q, u, k, X, n)
<1>1. Told(P) => Told(Q) BY DEF Told
<1>2. t.state # "none" => s.state # "none" OBVIOUS
<1>3. t.lastSeq = s.lastSeq OBVIOUS
<1>4. t.state # "none" => Holds(k, X, t.lastSeq) \/ Told(Q) BY <1>1, <1>2, <1>3 DEF Sound
<1>5. t.state = "live" => Within(t, X, n) BY DEF Sound
<1>6. ASSUME NEW q \in Procs
      PROVE  /\ Q[q].pc # "idle" => t.state # "none"
             /\ Q[q].pc \in {"collect", "replay"} => Q[q].since <= t.lastSeq
             /\ Q[q].pc = "replay" => Ready(t, Q[q], X, n)
  <2>1. CASE q = p BY <2>1
  <2>2. CASE q # p
    <3>1. Q[q] = P[q] BY <2>2
    <3>2. Q[q].pc # "idle" => t.state # "none" BY <3>1 DEF Sound
    <3>3. Q[q].pc \in {"collect", "replay"} => Q[q].since <= t.lastSeq BY <1>3, <3>1 DEF Sound
    <3>4. Q[q].pc = "replay" => Ready(t, Q[q], X, n) BY <2>2, <3>1 DEF Sound
    <3> QED BY <3>2, <3>3, <3>4
  <2> QED BY <2>1, <2>2
<1> QED BY <1>4, <1>5, <1>6 DEF Sound

(* The same for one that changes the state of its subscription.           *)
LEMMA SoundTurns ==
    ASSUME NEW s, NEW t, NEW P, NEW Q, NEW u, NEW k, NEW X, NEW n, NEW p \in Procs,
           Sound(s, P, u, k, X, n), P[p].pc # "complete",
           \A q \in Procs \ {p} : Q[q] = P[q],
           Q[p].pc \notin {"collect", "replay", "complete"},
           t.state \in {"pending", "replaying"}, s.state # "none",
           t.lastSeq = s.lastSeq, \A q \in Procs \ {p} : P[q].pc # "replay"
    PROVE  Sound(t, Q, u, k, X, n)
<1>1. Q[p].pc # "idle" => t.state # "none" OBVIOUS
<1>2. t = s \/ (/\ t.state \in {"pending", "replaying"} /\ s.state # "none"
                /\ t.lastSeq = s.lastSeq /\ \A q \in Procs \ {p} : P[q].pc # "replay")
  OBVIOUS
<1> QED BY <1>1, <1>2, SoundMoves

(* ... and for one that leaves it alone.                                   *)
LEMMA SoundStays ==
    ASSUME NEW s, NEW P, NEW Q, NEW u, NEW k, NEW X, NEW n, NEW p \in Procs,
           Sound(s, P, u, k, X, n), P[p].pc # "complete",
           \A q \in Procs \ {p} : Q[q] = P[q],
           Q[p].pc \notin {"collect", "replay", "complete"}, s.state # "none"
    PROVE  Sound(s, Q, u, k, X, n)
<1>1. Q[p].pc # "idle" => s.state # "none" OBVIOUS
<1>2. s = s OBVIOUS
<1> QED BY <1>1, <1>2, SoundMoves

(* The position a process reads is not above the one the subscription has. *)
LEMMA SoundPosition ==
    ASSUME NEW s \in Subscription, NEW P, NEW Q, NEW u, NEW k, NEW X, NEW n, NEW p \in Procs,
           Sound(s, P, u, k, X, n), P[p].pc = "position",
           \A q \in Procs \ {p} : Q[q] = P[q],
           Q[p].pc = "collect", Q[p].since = s.lastSeq
    PROVE  Sound(s, Q, u, k, X, n)
<1>1. Told(P) => Told(Q) BY DEF Told
<1>2. s.lastSeq <= s.lastSeq BY DEF Subscription
<1>3. ASSUME NEW q \in Procs
      PROVE  /\ Q[q].pc # "idle" => s.state # "none"
             /\ Q[q].pc \in {"collect", "replay"} => Q[q].since <= s.lastSeq
             /\ Q[q].pc = "replay" => Ready(s, Q[q], X, n)
  <2>1. CASE q = p BY <1>2, <2>1 DEF Sound
  <2>2. CASE q # p BY <2>2 DEF Sound
  <2> QED BY <2>1, <2>2
<1> QED BY <1>1, <1>3 DEF Sound

(* What collectReplay finds.                                               *)
LEMMA CollectFacts ==
    ASSUME HubInv, NEW since \in Nat
    PROVE  LET found == RetainedAfter(since)
           IN  /\ found \subseteq 1..eventCounter
               /\ \A id \in 1..eventCounter : id <= since \/ \E x \in found : id <= x
               /\ ~Gap(since) => \A id \in (since + 1)..eventCounter : id \in found
<1> DEFINE n == Len(eventBuffer)
           found == RetainedAfter(since)
<1>1. /\ eventCounter \in Nat /\ n \in Nat /\ n <= eventCounter
      /\ DOMAIN eventBuffer = 1..n /\ eventBuffer \in Seq(BufferedEvent)
      /\ eventBuffer = << >> => eventCounter = 0
      /\ \A i \in 1..n : eventBuffer[i].id = eventCounter - n + i
  BY LenProperties DEF HubInv, HubTypeOK, LogTypeOK, BufferIsSuffix
<1>2. eventBuffer # << >> => n \in 1..n /\ 1 \in 1..n BY <1>1, EmptySeq
<1> HIDE DEF n
<1>3. found \subseteq 1..eventCounter
  <2>1. \A i \in 1..n : eventBuffer[i].id \in 1..eventCounter BY <1>1
  <2> QED BY <1>1, <2>1 DEF RetainedAfter, RetainedIds
<1>4. ASSUME NEW id \in 1..eventCounter PROVE id <= since \/ \E x \in found : id <= x
  <2> SUFFICES ASSUME ~(id <= since) PROVE eventCounter \in found BY <1>1
  <2>1. eventCounter # 0 BY <1>1
  <2>2. n \in 1..n BY <1>1, <1>2, <2>1
  <2>3. eventBuffer[n].id = eventCounter BY <1>1, <2>2
  <2>4. eventCounter > since BY <1>1
  <2> QED BY <1>1, <2>2, <2>3, <2>4 DEF RetainedAfter, RetainedIds
<1>5. ASSUME ~Gap(since), NEW id \in (since + 1)..eventCounter PROVE id \in found
  <2>1. eventBuffer # << >> BY <1>1
  <2>2. ~(eventBuffer[1].id > since + 1) BY <1>5, <2>1 DEF Gap
  <2>3. eventBuffer[1].id = eventCounter - n + 1 BY <1>1, <1>2, <2>1
  <2>4. eventCounter - n <= since BY <1>1, <2>2, <2>3
  <2>5. id - (eventCounter - n) \in 1..n BY <1>1, <2>4
  <2>6. eventBuffer[id - (eventCounter - n)].id = id BY <1>1, <2>5
  <2>7. id > since BY <1>1
  <2> QED BY <1>1, <2>5, <2>6, <2>7 DEF RetainedAfter, RetainedIds
<1> QED BY <1>3, <1>4, <1>5

(* A collected replay, with what is queued from then on, misses nothing.   *)
LEMMA CollectedReady ==
    ASSUME HubInv, NEW s \in Subscription, s.queue \subseteq 1..eventCounter,
           NEW r, r.since \in Nat, r.since <= s.lastSeq,
           r.replay = RetainedAfter(r.since), r.gap = Gap(r.since),
           NEW X, NEW n \in Nat, n <= eventCounter
    PROVE  Ready(s, r, X, n)
<1>1. eventCounter \in Nat /\ s.lastSeq \in Nat
  BY DEF HubInv, HubTypeOK, LogTypeOK, Subscription
<1>2. /\ r.replay \subseteq 1..eventCounter
      /\ \A id \in 1..eventCounter : id <= r.since \/ \E x \in r.replay : id <= x
      /\ ~Gap(r.since) => \A id \in (r.since + 1)..eventCounter : id \in r.replay
  BY CollectFacts
<1>3. ASSUME NEW m \in Nat, m <= eventCounter PROVE Reaches(s, r, X, m)
  <2> SUFFICES ASSUME NEW id \in 1..m PROVE id <= s.lastSeq \/ \E x \in r.replay : id <= x
    BY DEF Reaches
  <2>1. id \in 1..eventCounter BY <1>1, <1>3
  <2>2. id <= r.since => id <= s.lastSeq BY <1>1
  <2> QED BY <1>2, <2>1, <2>2
<1>4. \A id \in s.queue : id \in Nat /\ id <= eventCounter BY <1>1
<1>5. NoHole(r)
  <2> SUFFICES ASSUME ~Gap(r.since), NEW x \in r.replay, NEW id \in (r.since + 1)..x
               PROVE  id \in r.replay
    BY DEF NoHole
  <2>1. x \in 1..eventCounter BY <1>2
  <2>2. id \in (r.since + 1)..eventCounter BY <1>1, <2>1
  <2> QED BY <1>2, <2>2
<1> QED BY <1>3, <1>4, <1>5 DEF Ready

(* Everything in the replay and in the queue is at or below the position a *)
(* write leaves behind.                                                    *)
LEMMA AllWritten ==
    ASSUME NEW n \in Nat, NEW replay \in SUBSET Nat, NEW queued \in SUBSET Nat, NEW top \in Nat,
           NEW ids, ids = Fresh(n, replay, queued), n <= top, \A id \in ids : id <= top
    PROVE  \A id \in replay \cup queued : id <= top
<1>1. ASSUME NEW id \in replay PROVE id <= top
  <2>1. id <= n \/ id > n OBVIOUS
  <2>2. id > n => id \in ids BY DEF Fresh
  <2> QED BY <2>1, <2>2
<1>2. ASSUME NEW id \in queued PROVE id <= top
  <2>1. CASE id <= n BY <2>1
  <2>2. CASE \E x \in replay : ~(x < id)
    <3>1. PICK x \in replay : ~(x < id) BY <2>2
    <3>2. x <= top /\ id <= x BY <1>1, <3>1
    <3> QED BY <3>2
  <2>3. CASE id > n /\ \A x \in replay : x < id
    <3>1. id \in ids BY <2>3 DEF Fresh
    <3> QED BY <3>1
  <2> QED BY <2>1, <2>2, <2>3
<1> QED BY <1>1, <1>2

(* Without a hole in the replay, there is none in what was written.        *)
LEMMA NoHoleWritten ==
    ASSUME NEW s \in Subscription, NEW r \in Process, NEW X, NEW n \in Nat,
           Ready(s, r, X, n), r.since <= s.lastSeq, ~r.gap,
           NEW ids, ids = Fresh(s.lastSeq, r.replay, s.queue),
           NEW m \in ids, NEW id \in Nat, s.lastSeq < id, id <= m
    PROVE  id \in ids \/ id \in X
<1>1. /\ s.lastSeq \in Nat /\ s.queue \subseteq Nat /\ r.replay \subseteq Nat /\ r.since \in Nat
  BY DEF Subscription, Process
<1>2. ASSUME NEW x \in r.replay, id <= x PROVE id \in ids
  <2>1. id \in (r.since + 1)..x BY <1>1, <1>2
  <2>2. id \in r.replay BY <2>1 DEF Ready, NoHole
  <2> QED BY <1>1, <2>2 DEF Fresh
<1>3. m \in r.replay \/ m \in s.queue BY DEF Fresh
<1>4. CASE m \in r.replay BY <1>2, <1>4
<1>5. CASE m \in s.queue
  <2>1. Reaches(s, r, X, m) BY <1>5 DEF Ready
  <2>2. id \in 1..m BY <1>1, <1>5
  <2>3. id \in X \/ id <= s.lastSeq \/ id \in s.queue \/ \E x \in r.replay : id <= x
    BY <2>1, <2>2 DEF Reaches
  <2>4. ~(id <= s.lastSeq) BY <1>1
  <2>5. CASE \E x \in r.replay : id <= x BY <1>2, <2>5
  <2>6. CASE id \in s.queue /\ ~(\E x \in r.replay : id <= x)
    <3>1. \A x \in r.replay : x < id BY <1>1, <2>6
    <3> QED BY <1>1, <2>6, <3>1 DEF Fresh
  <2> QED BY <2>3, <2>4, <2>5, <2>6
<1> QED BY <1>3, <1>4, <1>5

(* After the writes the subscription is where its process was to bring it. *)
LEMMA WriteHandled ==
    ASSUME NEW s \in Subscription, NEW t \in Subscription,
           NEW P \in [Procs -> Process], NEW Q \in [Procs -> Process],
           NEW X, NEW n \in Nat, NEW p \in Procs, P[p].pc = "replay", Q[p].pc = "complete",
           \A q \in Procs \ {p} : Q[q] = P[q],
           s.state \in {"replaying", "live"}, t.state = "live",
           s.lastSeq <= t.lastSeq, \A id \in P[p].replay \cup s.queue : id <= t.lastSeq,
           Handled(s, P, X, n)
    PROVE  Handled(t, Q, X, n)
<1>1. s.lastSeq \in Nat /\ t.lastSeq \in Nat /\ P[p].replay \subseteq Nat
  BY DEF Subscription, Process
<1>2. /\ Within(s, X, n) => Within(t, X, n)
      /\ \A r : Reaches(s, r, X, n) => Reaches(t, r, X, n)
  BY Advance
<1>3. Reaches(s, P[p], X, n) => Within(t, X, n)
  <2> SUFFICES ASSUME Reaches(s, P[p], X, n), NEW id \in 1..n, id \notin X
               PROVE  id <= t.lastSeq
    BY DEF Within
  <2>1. id <= s.lastSeq \/ id \in s.queue \/ \E x \in P[p].replay : id <= x BY DEF Reaches
  <2>2. CASE id <= s.lastSeq BY <1>1, <2>2
  <2>3. CASE id \in s.queue BY <2>3
  <2>4. CASE \E x \in P[p].replay : id <= x
    <3>1. PICK x \in P[p].replay : id <= x BY <2>4
    <3>2. x \in Nat /\ x <= t.lastSeq BY <1>1
    <3> QED BY <1>1, <3>1, <3>2
  <2> QED BY <2>1, <2>2, <2>3, <2>4
<1>4. Underway(s, P, X, n) => Within(t, X, n) \/ Underway(t, Q, X, n)
  <2> SUFFICES ASSUME NEW q \in Procs,
                      \/ P[q].pc \in Restarting
                      \/ P[q].pc = "collect" /\ P[q].since <= s.lastSeq
                      \/ P[q].pc = "replay" /\ Reaches(s, P[q], X, n)
               PROVE  Within(t, X, n) \/ Underway(t, Q, X, n)
    BY DEF Underway
  <2>1. CASE q = p BY <1>3, <2>1 DEF Restarting
  <2>2. CASE q # p
    <3>1. Q[q] = P[q] /\ P[q].since \in Nat BY <2>2 DEF Process
    <3>2. P[q].since <= s.lastSeq => Q[q].since <= t.lastSeq BY <1>1, <3>1
    <3> QED BY <1>2, <3>1, <3>2 DEF Underway
  <2> QED BY <2>1, <2>2
<1> QED BY <1>2, <1>4 DEF Handled

(* What was written, with what the client had, has no hole it is not told  *)
(* of.                                                                     *)
LEMMA WriteSound ==
    ASSUME NEW s \in Subscription, NEW t \in Subscription,
           NEW P \in [Procs -> Process], NEW Q \in [Procs -> Process],
           NEW u, NEW k, NEW X, NEW n \in Nat, NEW p \in Procs,
           P[p].pc = "replay", Q[p].pc = "complete", Q[p].gap = P[p].gap,
           \A q \in Procs \ {p} : Q[q] = P[q],
           s.state # "none", t.state = "live", t.queue = {}, s.lastSeq <= t.lastSeq,
           NEW ids, ids = Fresh(s.lastSeq, P[p].replay, s.queue),
           t.lastSeq \in {s.lastSeq} \cup ids,
           \A id \in P[p].replay \cup s.queue : id <= t.lastSeq,
           Sound(s, P, u, k, X, n)
    PROVE  Sound(t, Q, u, k \cup ids, X, n)
<1>1. s.lastSeq \in Nat /\ t.lastSeq \in Nat BY DEF Subscription
<1>2. /\ P[p] \in Process /\ P[p].since <= s.lastSeq /\ Ready(s, P[p], X, n) BY DEF Sound
<1>3. u <= eventCounter /\ Holds(k \cup ids, X, u) BY DEF Sound, Holds
<1>4. Holds(k \cup ids, X, t.lastSeq) \/ Told(Q)
  <2>1. CASE P[p].gap BY <2>1 DEF Told
  <2>2. CASE Told(P) BY <2>2 DEF Told
  <2>3. CASE ~P[p].gap /\ Holds(k, X, s.lastSeq)
    <3> SUFFICES ASSUME NEW id \in 1..t.lastSeq PROVE id \in k \/ id \in ids \/ id \in X
      BY DEF Holds
    <3>1. CASE id <= s.lastSeq BY <1>1, <2>3, <3>1 DEF Holds
    <3>2. CASE ~(id <= s.lastSeq)
      <4>1. t.lastSeq \in ids /\ s.lastSeq < id /\ id <= t.lastSeq /\ id \in Nat BY <1>1, <3>2
      <4> QED BY <1>2, <2>3, <4>1, NoHoleWritten
    <3> QED BY <3>1, <3>2
  <2> QED BY <2>1, <2>2, <2>3 DEF Sound
<1>5. /\ \A r : Reaches(s, r, X, n) => Reaches(t, r, X, n)
  BY Advance
<1>6. Within(t, X, n)
  <2> SUFFICES ASSUME NEW id \in 1..n, id \notin X PROVE id <= t.lastSeq BY DEF Within
  <2>1. id <= s.lastSeq \/ id \in s.queue \/ \E x \in P[p].replay : id <= x
    BY <1>2 DEF Ready, Reaches
  <2>2. CASE id <= s.lastSeq BY <1>1, <2>2
  <2>3. CASE id \in s.queue BY <2>3
  <2>4. CASE \E x \in P[p].replay : id <= x
    <3>1. PICK x \in P[p].replay : id <= x BY <2>4
    <3>2. x \in Nat /\ x <= t.lastSeq BY <1>2 DEF Process
    <3> QED BY <1>1, <3>1, <3>2
  <2> QED BY <2>1, <2>2, <2>3, <2>4
<1>7. ASSUME NEW q \in Procs
      PROVE  /\ Q[q].pc \in {"collect", "replay"} => Q[q].since <= t.lastSeq
             /\ Q[q].pc = "replay" => Ready(t, Q[q], X, n)
  <2>1. CASE q = p BY <2>1
  <2>2. CASE q # p
    <3>1. Q[q] = P[q] /\ P[q].since \in Nat BY <2>2 DEF Process
    <3>2. P[q].since <= s.lastSeq => Q[q].since <= t.lastSeq BY <1>1, <3>1
    <3>3. Q[q].pc = "replay" => Ready(t, Q[q], X, n)
      BY <1>5, <3>1 DEF Sound, Ready
    <3> QED BY <3>1, <3>2, <3>3 DEF Sound
  <2> QED BY <2>1, <2>2
<1> QED BY <1>3, <1>4, <1>6, <1>7 DEF Sound

(* collectReplay: process p goes from collect to replay.                   *)
LEMMA CollectTracked ==
    ASSUME HubInv, NEW s \in Subscription, s.queue \subseteq 1..eventCounter,
           NEW P \in [Procs -> Process], NEW Q \in [Procs -> Process], NEW p \in Procs,
           P[p].pc = "collect", Q[p].pc = "replay", Q[p].since = P[p].since,
           Q[p].replay = RetainedAfter(P[p].since), Q[p].gap = Gap(P[p].since),
           \A q \in Procs \ {p} : Q[q] = P[q],
           NEW X, NEW n \in Nat, n <= eventCounter
    PROVE  /\ Handled(s, P, X, n) => Handled(s, Q, X, n)
           /\ \A u, k : Sound(s, P, u, k, X, n) => Sound(s, Q, u, k, X, n)
<1>1. P[p].since \in Nat BY DEF Process
<1>2. Q[p].since <= s.lastSeq => Ready(s, Q[p], X, n) BY <1>1, CollectedReady
<1>3. Underway(s, P, X, n) => Underway(s, Q, X, n)
  <2> SUFFICES ASSUME NEW q \in Procs,
                      \/ P[q].pc \in Restarting
                      \/ P[q].pc = "collect" /\ P[q].since <= s.lastSeq
                      \/ P[q].pc = "replay" /\ Reaches(s, P[q], X, n)
               PROVE  Underway(s, Q, X, n)
    BY DEF Underway
  <2>1. CASE q = p BY <1>2, <2>1 DEF Restarting, Underway, Ready
  <2>2. CASE q # p BY <2>2 DEF Underway
  <2> QED BY <2>1, <2>2
<1>4. ASSUME NEW u, NEW k, Sound(s, P, u, k, X, n) PROVE Sound(s, Q, u, k, X, n)
  <2>1. Told(P) => Told(Q) BY DEF Told
  <2>2. ASSUME NEW q \in Procs
        PROVE  /\ Q[q].pc # "idle" => s.state # "none"
               /\ Q[q].pc \in {"collect", "replay"} => Q[q].since <= s.lastSeq
               /\ Q[q].pc = "replay" => Ready(s, Q[q], X, n)
    <3>1. CASE q = p BY <1>2, <1>4, <3>1 DEF Sound
    <3>2. CASE q # p BY <1>4, <3>2 DEF Sound
    <3> QED BY <3>1, <3>2
  <2> QED BY <1>4, <2>1, <2>2 DEF Sound
<1> QED BY <1>3, <1>4 DEF Handled

(* resume_complete reaches the client.                                     *)
LEMMA CompleteHandled ==
    ASSUME NEW s, NEW P, NEW Q, NEW X, NEW n, NEW p \in Procs,
           P[p].pc \notin Restarting \cup {"collect", "replay"},
           \A q \in Procs \ {p} : Q[q] = P[q], Handled(s, P, X, n)
    PROVE  Handled(s, Q, X, n)
<1>1. Underway(s, P, X, n) => Underway(s, Q, X, n) BY DEF Underway
<1> QED BY <1>1 DEF Handled

(* resume_complete: what is written is acknowledged, a gap is told.        *)
LEMMA CompleteSound ==
    ASSUME NEW s \in Subscription, NEW P, NEW Q, NEW u, NEW k, NEW X, NEW n, NEW p \in Procs,
           P[p].pc = "complete", Q[p].pc = "idle",
           \A q \in Procs \ {p} : Q[q] = P[q] /\ P[q].pc = "idle",
           s.lastSeq <= eventCounter, Sound(s, P, u, k, X, n)
    PROVE  Sound(s, Q, s.lastSeq, IF P[p].gap THEN k \cup 1..s.lastSeq ELSE k, X, n)
<1>1. s.state # "none" BY DEF Sound
<1>2. \A q \in Procs : Q[q].pc = "idle" OBVIOUS
<1>3. CASE P[p].gap
  <2>1. Holds(k \cup 1..s.lastSeq, X, s.lastSeq) BY DEF Holds
  <2> QED BY <1>1, <1>2, <1>3, <2>1 DEF Sound
<1>4. CASE ~P[p].gap
  <2>1. ~Told(P) BY <1>4 DEF Told
  <2>2. Holds(k, X, s.lastSeq) BY <1>1, <2>1 DEF Sound
  <2> QED BY <1>1, <1>2, <1>4, <2>2 DEF Sound
<1> QED BY <1>3, <1>4

(* The drain goroutine delivers an event to a subscription being completed *)
(* or live.                                                                *)
LEMMA QueueTracked ==
    ASSUME NEW s \in Subscription, NEW t \in Subscription, NEW P \in [Procs -> Process],
           s.state = "replaying", t.state = "replaying", t.lastSeq = s.lastSeq,
           NEW id \in Nat, t.queue = s.queue \cup {id},
           NEW X, NEW n \in Nat, NEW m \in Nat, \A i \in 1..m : i \in 1..n \/ i = id,
           \A i \in 1..id : i \in 1..n \/ i = id
    PROVE  /\ Handled(s, P, X, n) => Handled(t, P, X, m)
           /\ \A u, k : Sound(s, P, u, k, X, n) => Sound(t, P, u, k, X, m)
<1>1. \A r : Reaches(s, r, X, n) => Reaches(t, r, X, m) BY DEF Reaches
<1>2. \A r : Reaches(s, r, X, n) => Reaches(t, r, X, id) BY DEF Reaches
<1>3. \A r, i : Reaches(s, r, X, i) => Reaches(t, r, X, i) BY DEF Reaches
<1>4. Underway(s, P, X, n) => Underway(t, P, X, m) BY <1>1 DEF Underway
<1>5. \A r : Ready(s, r, X, n) => Ready(t, r, X, m) BY <1>1, <1>2, <1>3 DEF Ready
<1> QED BY <1>4, <1>5 DEF Handled, Sound

(* An event written to a live subscription takes it up to that event.      *)
LEMMA LiveTracked ==
    ASSUME NEW s \in Subscription, NEW t \in Subscription, NEW P \in [Procs -> Process],
           s.state = "live", t.state = "live", s.queue = {}, t.queue = {}, s.lastSeq <= t.lastSeq,
           NEW id \in Nat, NEW ids, ids \subseteq {id},
           t.lastSeq \in {s.lastSeq} \cup ids, id <= t.lastSeq,
           NEW X, NEW n \in Nat, NEW m \in Nat, \A i \in 1..m : i \in 1..n \/ i = id,
           \A i \in 1..id : i \in 1..n \/ i = id
    PROVE  /\ Handled(s, P, X, n) => Handled(t, P, X, m)
           /\ \A u, k : Sound(s, P, u, k, X, n) => Sound(t, P, u, k \cup ids, X, m)
<1>1. s.lastSeq \in Nat /\ t.lastSeq \in Nat BY DEF Subscription
<1>2. /\ Within(s, X, n) => Within(t, X, n)
      /\ \A r : Reaches(s, r, X, n) => Reaches(t, r, X, n)
  BY Advance
<1>3. Within(s, X, n) => Within(t, X, m) BY <1>2 DEF Within
<1>4. \A r : Reaches(s, r, X, n) => Reaches(t, r, X, m) BY <1>2 DEF Reaches
<1>5. \A q \in Procs : P[q].since <= s.lastSeq => P[q].since <= t.lastSeq
  <2>1. \A q \in Procs : P[q].since \in Nat BY DEF Process
  <2> QED BY <1>1, <2>1
<1>6. Underway(s, P, X, n) => Underway(t, P, X, m) BY <1>4, <1>5 DEF Underway
<1>7. \A r : Ready(s, r, X, n) => Ready(t, r, X, m) BY <1>4 DEF Ready
<1>8. ASSUME NEW u, NEW k, Sound(s, P, u, k, X, n) PROVE Sound(t, P, u, k \cup ids, X, m)
  <2>1. Within(t, X, m) BY <1>3, <1>8 DEF Sound
  <2>2. Holds(k \cup ids, X, u) BY <1>8 DEF Sound, Holds
  <2>3. Holds(k, X, s.lastSeq) => Holds(k \cup ids, X, t.lastSeq)
    <3> SUFFICES ASSUME Holds(k, X, s.lastSeq), NEW i \in 1..t.lastSeq
                 PROVE  i \in k \/ i \in ids \/ i \in X
      BY DEF Holds
    <3>1. CASE i <= s.lastSeq BY <1>1, <3>1 DEF Holds
    <3>2. CASE ~(i <= s.lastSeq)
      <4>0. t.lastSeq # s.lastSeq BY <1>1, <3>2
      <4>2. t.lastSeq \in ids /\ t.lastSeq = id BY <4>0
      <4>3. i \in 1..n \/ i = id BY <4>2
      <4>4. i \in 1..n => i \in X BY <1>8, <3>2 DEF Sound, Within
      <4> QED BY <4>2, <4>3, <4>4
    <3> QED BY <3>1, <3>2
  <2> QED BY <1>5, <1>7, <1>8, <2>1, <2>2, <2>3 DEF Sound
<1> QED BY <1>3, <1>6, <1>8 DEF Handled

-----------------------------------------------------------------------------

(* The last id up to which the drain goroutine has served c; none while    *)
(* an overflow has to be followed by the eviction of c.                    *)
Frontier(c) ==
    IF drain.pc = "target" THEN drain.event.id - 1
    ELSE IF drain.pc = "deliver"
    THEN IF c \in drain.todo THEN drain.event.id - 1 ELSE drain.event.id
    ELSE IF hubOverflow \/ drain.pc = "overflow" \/ (drain.pc = "evict" /\ c \in drain.todo)
    THEN 0 ELSE Drained

(* The tracking layer, of values; a misled client is only given            *)
(* everything, and a stranger nothing.                                     *)
Tracked(c, s, P, u, k) ==
    /\ Handled(s, P, Excused(c), Frontier(c))
    /\ c \notin misled \cup Strangers => Sound(s, P, u, k, Excused(c), Frontier(c))

Track(c) == Tracked(c, sub[c], proc[c], cursor[c], known[c])

(* The hub layer in the terms the steps below need.                        *)
LEMMA HubFacts ==
    ASSUME HubInv
    PROVE  /\ eventCounter \in Nat /\ Len(hubQueue) \in Nat /\ Drained \in Nat
           /\ Drained <= eventCounter /\ hubOverflow \in BOOLEAN
           /\ drain.pc \in DrainLabels /\ drain.todo \subseteq Clients
           /\ drain.pc \in {"target", "deliver"} =>
                 /\ drain.event.id \in 1..Drained /\ drain.event.id \in Nat
                 /\ hubOverflow \/ drain.event.id = Drained
                 /\ drain.event.payload = "tool" => drain.event.id \in toolIds
<1>1. /\ eventCounter \in Nat /\ hubQueue \in Seq(Event) /\ hubOverflow \in BOOLEAN
      /\ Len(hubQueue) <= eventCounter
      /\ drain \in [pc : DrainLabels, event : Event, todo : SUBSET Clients]
  BY DEF HubInv, HubTypeOK, LogTypeOK, QueueIsTail
<1>2. Len(hubQueue) \in Nat BY <1>1, LenProperties
<1>3. Drained \in Nat /\ Drained <= eventCounter BY <1>1, <1>2 DEF Drained
<1>4. drain.pc \in {"target", "deliver"} =>
         /\ drain.event.id \in 1..Drained
         /\ hubOverflow \/ drain.event.id = Drained
         /\ drain.event.payload = "tool" => drain.event.id \in toolIds
  BY DEF HubInv, TakenIsDrained
<1>5. drain.pc \in {"target", "deliver"} => drain.event.id \in Nat BY <1>4
<1> QED BY <1>1, <1>2, <1>3, <1>4, <1>5

(* The frontier is an id, or zero.                                         *)
LEMMA FrontierTyped ==
    ASSUME HubInv, NEW c \in Clients
    PROVE  Frontier(c) \in Nat /\ Frontier(c) <= eventCounter
BY HubFacts DEF Frontier

(* Nothing depends on how far c has been served.                           *)
Exempt(c) ==
    /\ sub[c].state # "live"
    /\ sub[c].state = "none" \/ \A p \in Procs : proc[c][p].pc # "replay"

(* A client that is absent, parked, a stranger or early waits for no       *)
(* event.                                                                  *)
LEMMA ExemptFacts ==
    ASSUME NEW c \in Clients, ClientInv(c),
           sub[c].state \in {"none", "pending"} \/ ~ownerKnown \/ c \in Strangers
    PROVE  Exempt(c)
<1>1. Local(c, connected[c], sub[c], proc[c], got[c], cursor[c], known[c]) BY DEF ClientInv
<1>2. CASE sub[c].state = "none" BY <1>2 DEF Exempt
<1>3. CASE sub[c].state = "pending"
  BY <1>1, <1>3 DEF Exempt, Local, Parked
<1>4. CASE ~ownerKnown BY <1>1, <1>4 DEF Exempt, Local, Unowned
<1>5. CASE c \in Strangers BY <1>1, <1>5 DEF Exempt, Local, Shut, BeforeOwner
<1> QED BY <1>2, <1>3, <1>4, <1>5

Slid(c) ==
    \A id \in 1..Frontier(c)' : id \in 1..Frontier(c) \/ id \in Excused(c)'

(* The hub moves on and leaves c alone.                                    *)
LEMMA TrackOn ==
    ASSUME NEW c \in Clients, Track(c), cursor[c] \in Nat,
           sub'[c] = sub[c], proc'[c] = proc[c], cursor'[c] = cursor[c], known'[c] = known[c],
           toolIds \subseteq toolIds', misled \subseteq misled',
           eventCounter \in Nat, eventCounter' \in Nat, eventCounter <= eventCounter',
           Slid(c) \/ Exempt(c)
    PROVE  Track(c)'
<1> DEFINE X == Excused(c)
           Y == Excused(c)'
           n == Frontier(c)
           m == Frontier(c)'
<1>1. X \subseteq Y BY DEF Excused
<1>2. /\ Handled(sub[c], proc[c], X, n) => Handled(sub[c], proc[c], Y, m)
      /\ \A u, k : Sound(sub[c], proc[c], u, k, X, n) => Sound(sub[c], proc[c], u, k, Y, m)
  <2> HIDE DEF X, Y, n, m
  <2>1. CASE Slid(c)
    <3>1. \A id \in 1..m : id \in 1..n \/ id \in Y BY <2>1 DEF Slid, X, Y, n, m
    <3> QED BY <1>1, <3>1, Slides
  <2>2. CASE Exempt(c) BY <1>1, <2>2, Unexposed DEF Exempt
  <2> QED BY <2>1, <2>2
<1>3. Handled(sub[c], proc[c], Y, m) BY <1>2 DEF Track, Tracked
<1>4. Handled(sub[c], proc[c], Excused(c), Frontier(c))'
  BY <1>3 DEF Handled, Within, Underway, Reaches
<1>5. ASSUME c \notin misled' \cup Strangers
      PROVE  Sound(sub[c], proc[c], cursor[c], known[c], Excused(c), Frontier(c))'
  <2>1. Sound(sub[c], proc[c], cursor[c], known[c], Y, m)
    BY <1>2, <1>5 DEF Track, Tracked
  <2>2. cursor[c] <= eventCounter' BY <2>1 DEF Sound
  <2> QED BY <2>1, <2>2 DEF Sound, Holds, Told, Within, Ready, Reaches, NoHole
<1> QED BY <1>4, <1>5 DEF Track, Tracked

(* A step of c that leaves the hub alone: what remains to be shown.        *)
LEMMA TrackStep ==
    ASSUME ClientTypeOK, \A d \in Clients : Track(d), NEW c \in Clients,
           NEW o \in BOOLEAN, NEW s \in Subscription, NEW P \in [Procs -> Process],
           NEW g \in Seq(Nat), NEW u \in Nat, NEW k \in SUBSET Nat,
           Becomes(c, o, s, P, g, u, k), gaps' \in [Clients -> Nat],
           eventCounter \in Nat,
           UNCHANGED <<eventCounter, toolIds>>, misled \subseteq misled',
           \A d \in Clients \ {c} : Slid(d) \/ Exempt(d),
           Handled(s, P, Excused(c), Frontier(c)'),
           c \notin misled' \cup Strangers => Sound(s, P, u, k, Excused(c), Frontier(c)')
    PROVE  \A d \in Clients : Track(d)'
<1>1. /\ sub'[c] = s /\ proc'[c] = P /\ cursor'[c] = u /\ known'[c] = k
      /\ \A d \in Clients \ {c} :
            /\ sub'[d] = sub[d] /\ proc'[d] = proc[d]
            /\ cursor'[d] = cursor[d] /\ known'[d] = known[d]
  BY BecomesFacts
<1>2. Track(c)'
  <2>1. Excused(c)' = Excused(c) BY DEF Excused
  <2>2. Handled(sub[c], proc[c], Excused(c), Frontier(c))'
    BY <1>1, <2>1 DEF Handled, Within, Underway, Reaches
  <2>3. (c \notin misled \cup Strangers
           => Sound(sub[c], proc[c], cursor[c], known[c], Excused(c), Frontier(c)))'
    BY <1>1, <2>1 DEF Sound, Holds, Told, Within, Ready, Reaches, NoHole
  <2> QED BY <2>2, <2>3 DEF Track, Tracked
<1>3. ASSUME NEW d \in Clients \ {c} PROVE Track(d)'
  <2>1. eventCounter' \in Nat /\ eventCounter <= eventCounter' /\ toolIds \subseteq toolIds'
    OBVIOUS
  <2>2. cursor[d] \in Nat BY ClientTyped
  <2> QED BY <1>1, <2>1, <2>2, TrackOn
<1> QED BY <1>2, <1>3

(* Where the hub does not move, no frontier does.                          *)
LEMMA HubStill ==
    ASSUME UNCHANGED <<logVars, hubVars, toolIds>>, NEW c \in Clients
    PROVE  Frontier(c)' = Frontier(c) /\ Excused(c)' = Excused(c) /\ Slid(c)
<1>1. Frontier(c)' = Frontier(c) BY DEF Frontier, Drained, logVars, hubVars
<1>2. Excused(c)' = Excused(c) BY DEF Excused
<1> QED BY <1>1, <1>2 DEF Slid

(* The drain goroutine, or a disconnection, is done with c.                *)
LEMMA PastSlides ==
    ASSUME HubInv, NEW c \in Clients, drain' = DrainPast(c),
           UNCHANGED <<logVars, hubQueue, hubOverflow, toolIds>>
    PROVE  /\ \A d \in Clients \ {c} : Slid(d)
           /\ drain.pc = "deliver" /\ c \in drain.todo =>
                 /\ Frontier(c) = drain.event.id - 1
                 /\ Frontier(c)' \in Nat /\ Frontier(c)' <= drain.event.id
<1>0. drain \in [pc : DrainLabels, event : Event, todo : SUBSET Clients]
  BY DEF HubInv, HubTypeOK
<1>1. Drained' = Drained BY DEF Drained, logVars
<1>2. CASE drain.pc \in {"deliver", "evict"} /\ drain.todo \subseteq {c}
  <2>1. drain'.pc = "take" BY <1>2 DEF DrainPast, IdleDrain
  <2>2. \A d \in Clients : Frontier(d)' = IF hubOverflow THEN 0 ELSE Drained
    BY <1>1, <2>1 DEF Frontier
  <2>3. ASSUME NEW d \in Clients \ {c} PROVE Frontier(d)' <= Frontier(d)
    <3>1. d \notin drain.todo BY <1>2
    <3> QED BY <1>2, <2>2, <3>1, HubFacts DEF Frontier
  <2>4. ASSUME NEW d \in Clients \ {c} PROVE Slid(d)
    <3>1. Frontier(d) \in Nat BY FrontierTyped
    <3>2. Frontier(d)' \in Nat BY <2>2, HubFacts
    <3> QED BY <2>3, <3>1, <3>2 DEF Slid
  <2>5. drain.pc = "deliver" /\ c \in drain.todo =>
           /\ Frontier(c) = drain.event.id - 1
           /\ Frontier(c)' \in Nat /\ Frontier(c)' <= drain.event.id
    BY <2>2, HubFacts DEF Frontier
  <2> QED BY <2>4, <2>5
<1>3. CASE ~(drain.pc \in {"deliver", "evict"} /\ drain.todo \subseteq {c})
  <2>1. drain' = [drain EXCEPT !.todo = @ \ {c}] BY <1>3 DEF DrainPast
  <2>2. drain'.pc = drain.pc /\ drain'.event = drain.event /\ drain'.todo = drain.todo \ {c}
    BY <1>0, <2>1
  <2>3. \A d \in Clients \ {c} : Frontier(d)' = Frontier(d)
    BY <1>1, <2>2 DEF Frontier
  <2>4. drain.pc = "deliver" /\ c \in drain.todo =>
           /\ Frontier(c) = drain.event.id - 1
           /\ Frontier(c)' \in Nat /\ Frontier(c)' <= drain.event.id
    BY <1>1, <2>2, HubFacts DEF Frontier
  <2> QED BY <2>3, <2>4 DEF Slid
<1> QED BY <1>2, <1>3

HubStays == UNCHANGED <<logVars, hubVars, toolIds>>

(* A client that does not change is tracked as it was, ...                 *)
LEMMA StillTracked ==
    ASSUME HubInv, ClientTypeOK, \A d \in Clients : Track(d), NEW c \in Clients,
           NEW o \in BOOLEAN, NEW s \in Subscription, NEW P \in [Procs -> Process],
           NEW g \in Seq(Nat), NEW u \in Nat, NEW k \in SUBSET Nat,
           Becomes(c, o, s, P, g, u, k), gaps' \in [Clients -> Nat],
           HubStays, misled \subseteq misled',
           Handled(s, P, Excused(c), Frontier(c)),
           c \notin misled' \cup Strangers => Sound(s, P, u, k, Excused(c), Frontier(c))
    PROVE  \A d \in Clients : Track(d)'
<1>1. eventCounter \in Nat BY HubFacts
<1>2. UNCHANGED <<eventCounter, toolIds>> BY DEF HubStays, logVars
<1>3. Frontier(c)' = Frontier(c) /\ \A d \in Clients : Slid(d) BY HubStill DEF HubStays
<1> QED BY <1>1, <1>2, <1>3, TrackStep

(* ... and so is one whose processes move and to whom nothing is written.  *)
LEMMA MovesTracked ==
    ASSUME HubInv, ClientTypeOK, \A d \in Clients : Track(d), NEW c \in Clients,
           NEW p \in Procs, NEW s \in Subscription, NEW r \in Process,
           Moves(c, s, With(c, p, r)), gaps' \in [Clients -> Nat],
           HubStays, misled \subseteq misled',
           Handled(s, With(c, p, r), Excused(c), Frontier(c)),
           c \notin misled' \cup Strangers =>
               Sound(s, With(c, p, r), cursor[c], known[c], Excused(c), Frontier(c))
    PROVE  \A d \in Clients : Track(d)'
<1>1. With(c, p, r) \in [Procs -> Process] BY WithFacts
<1>2. Becomes(c, connected[c], s, With(c, p, r), got[c], cursor[c], known[c]) BY DEF Moves
<1> QED BY <1>1, <1>2, ClientTyped, StillTracked

(* Process p of c is on its way to collect the replay.                     *)
LEMMA RestartingTracked ==
    ASSUME HubInv, ClientTypeOK, \A d \in Clients : Track(d), NEW c \in Clients,
           NEW p \in Procs, NEW s \in Subscription, NEW r \in Process,
           Moves(c, s, With(c, p, r)), gaps' \in [Clients -> Nat],
           HubStays, misled \subseteq misled',
           r.pc \in Restarting, proc[c][p].pc # "complete",
           \/ s = sub[c] /\ proc[c][p].pc # "idle"
           \/ /\ s.state \in {"pending", "replaying"} /\ sub[c].state # "none"
              /\ s.lastSeq = sub[c].lastSeq /\ \A q \in Procs \ {p} : proc[c][q].pc # "replay"
    PROVE  \A d \in Clients : Track(d)'
<1> DEFINE P == With(c, p, r)
<1>1. P[p] = r /\ \A q \in Procs \ {p} : P[q] = proc[c][q] BY WithFacts
<1> HIDE DEF P
<1>2. Handled(s, P, Excused(c), Frontier(c)) BY <1>1, RestartedHandled
<1>3. ASSUME c \notin misled' \cup Strangers
      PROVE  Sound(s, P, cursor[c], known[c], Excused(c), Frontier(c))
  <2>1. Sound(sub[c], proc[c], cursor[c], known[c], Excused(c), Frontier(c))
    BY <1>3 DEF Track, Tracked
  <2>2. s.state # "none" BY <2>1 DEF Sound
  <2>3. P[p].pc \notin {"collect", "replay", "complete"} BY <1>1 DEF Restarting
  <2>4. s = sub[c] \/ (/\ s.state \in {"pending", "replaying"} /\ sub[c].state # "none"
                        /\ s.lastSeq = sub[c].lastSeq
                        /\ \A q \in Procs \ {p} : proc[c][q].pc # "replay")
    OBVIOUS
  <2>5. \A q \in Procs \ {p} : P[q] = proc[c][q] BY <1>1
  <2>6. CASE s = sub[c]
    <3>1. Sound(s, proc[c], cursor[c], known[c], Excused(c), Frontier(c)) BY <2>1, <2>6
    <3> QED BY <2>2, <2>3, <2>5, <3>1, SoundStays
  <2>7. CASE s # sub[c]
    <3> DEFINE s0 == sub[c]
               P0 == proc[c]
               X == Excused(c)
               n == Frontier(c)
               u == cursor[c]
               k == known[c]
    <3>1. /\ s.state \in {"pending", "replaying"} /\ s0.state # "none"
          /\ s.lastSeq = s0.lastSeq /\ \A q \in Procs \ {p} : P0[q].pc # "replay"
      BY <2>4, <2>7
    <3>2. Sound(s0, P0, u, k, X, n) /\ P0[p].pc # "complete" BY <2>1
    <3>3. \A q \in Procs \ {p} : P[q] = P0[q] BY <2>5
    <3> HIDE DEF s0, P0, X, n, u, k
    <3>4. Sound(s, P, u, k, X, n) BY <2>3, <3>1, <3>2, <3>3, SoundTurns
    <3> QED BY <3>4 DEF X, n, u, k
  <2> QED BY <2>6, <2>7
<1> QED BY <1>2, <1>3, MovesTracked DEF P

(* Process p of c returns without having written anything.                 *)
LEMMA ReturnTracked ==
    ASSUME HubInv, ClientTypeOK, \A d \in Clients : Track(d), NEW c \in Clients,
           NEW p \in Procs, Moves(c, sub[c], With(c, p, IdleProc)), gaps' \in [Clients -> Nat],
           HubStays, misled \subseteq misled',
           sub[c].state \in {"none", "pending"}, proc[c][p].pc # "complete"
    PROVE  \A d \in Clients : Track(d)'
<1> DEFINE P == With(c, p, IdleProc)
<1>1. P[p] = IdleProc /\ \A q \in Procs \ {p} : P[q] = proc[c][q] BY IdleTyped, WithFacts
<1> HIDE DEF P
<1>2. Handled(sub[c], P, Excused(c), Frontier(c)) BY NoneHandled
<1>3. ASSUME c \notin misled' \cup Strangers
      PROVE  Sound(sub[c], P, cursor[c], known[c], Excused(c), Frontier(c))
  <2>1. Sound(sub[c], proc[c], cursor[c], known[c], Excused(c), Frontier(c))
    BY <1>3 DEF Track, Tracked
  <2>2. P[p].pc = "idle" BY <1>1, IdleTyped
  <2> QED BY <1>1, <2>1, <2>2, SoundMoves
<1> QED BY <1>2, <1>3, IdleTyped, ClientTyped, MovesTracked DEF P

(* What a step of a process leaves alone.                                  *)
LEMMA ProcStays == ASSUME ProcUnchanged PROVE HubStays /\ misled \subseteq misled'
BY DEF ProcUnchanged, HubStays, boundVars

(* The tracking is kept by the owner snapshot, ...                         *)
LEMMA CheckOwnerTracked ==
    ASSUME HubInv, ClientTypeOK, \A d \in Clients : Track(d), NEW c \in Clients, NEW p \in Procs,
           CheckOwner(c, p)
    PROVE  \A d \in Clients : Track(d)'
<1>0. "park" \in Labels /\ "position" \in Labels BY DEF Labels
<1>1. CheckOwnerEffect(c, p) /\ gaps' \in [Clients -> Nat] BY CheckOwnerMoves
<1>2. HubStays /\ misled \subseteq misled' /\ proc[c][p].pc = "start"
  BY ProcStays DEF CheckOwner, At
<1>3. CASE ownerKnown /\ c \in Strangers
  <2>1. Moves(c, NoSub, With(c, p, IdleProc)) BY <1>1, <1>3 DEF CheckOwnerEffect
  <2>2. Handled(NoSub, With(c, p, IdleProc), Excused(c), Frontier(c))
    BY IdleTyped, NoneHandled
  <2> QED BY <1>1, <1>2, <1>3, <2>1, <2>2, IdleTyped, MovesTracked
<1>4. CASE ~(ownerKnown /\ c \in Strangers)
  <2>1. PICK label \in {"park", "position"} : Moves(c, sub[c], With(c, p, Goes(c, p, label)))
    BY <1>1, <1>4 DEF CheckOwnerEffect
  <2> DEFINE r == Goes(c, p, label)
  <2>2. r \in Process /\ r.pc = label BY <1>0, GoesTyped
  <2>3. Moves(c, sub[c], With(c, p, r)) BY <2>1
  <2> HIDE DEF r
  <2>4. r.pc \in Restarting BY <2>2 DEF Restarting
  <2> QED BY <1>1, <1>2, <2>2, <2>3, <2>4, ClientTyped, RestartingTracked
<1> QED BY <1>3, <1>4

(* ... the parking, ...                                                    *)
LEMMA ParkTracked ==
    ASSUME HubInv, ClientTypeOK, \A d \in Clients : Track(d), NEW c \in Clients, ClientInv(c),
           NEW p \in Procs, Park(c, p)
    PROVE  \A d \in Clients : Track(d)'
<1> DEFINE s == IF sub[c].state = "none" THEN sub[c] ELSE Turns(c, "pending")
           r == Goes(c, p, "recheck")
<1>0. "recheck" \in Labels /\ "pending" \in SubStates BY DEF Labels, SubStates
<1>1. Moves(c, s, With(c, p, r)) /\ gaps' \in [Clients -> Nat] BY ParkMoves DEF ParkEffect
<1>2. HubStays /\ misled \subseteq misled' /\ proc[c][p].pc = "park" BY ProcStays DEF Park, At
<1>3. r \in Process /\ r.pc = "recheck" BY <1>0, GoesTyped
<1>4. /\ s \in Subscription
      /\ s = sub[c] \/ (s.state = "pending" /\ sub[c].state # "none" /\ s.lastSeq = sub[c].lastSeq)
  BY <1>0, TurnsTyped, ClientTyped
<1> HIDE DEF s, r
<1>5. r.pc \in Restarting BY <1>3 DEF Restarting
<1>6. \A q \in Procs \ {p} : proc[c][q].pc # "replay"
  <2>1. Parked(sub[c], proc[c]) BY DEF ClientInv, Local
  <2>2. p = 0 BY <1>2, <2>1 DEF Parked
  <2> QED BY <1>2, <2>1, <2>2 DEF Parked
<1> QED BY <1>1, <1>2, <1>3, <1>4, <1>5, <1>6, RestartingTracked

(* ... the second look at the owner, ...                                   *)
LEMMA RecheckTracked ==
    ASSUME HubInv, ClientTypeOK, \A d \in Clients : Track(d), NEW c \in Clients, ClientInv(c),
           NEW p \in Procs, RecheckOwner(c, p)
    PROVE  \A d \in Clients : Track(d)'
<1>0. "unpark" \in Labels BY DEF Labels
<1>1. RecheckEffect(c, p) /\ gaps' \in [Clients -> Nat] BY RecheckMoves
<1>2. HubStays /\ misled \subseteq misled' /\ proc[c][p].pc = "recheck"
  BY ProcStays DEF RecheckOwner, At
<1>3. CASE ownerKnown
  <2> DEFINE r == Goes(c, p, "unpark")
  <2>1. Moves(c, sub[c], With(c, p, r)) BY <1>1, <1>3 DEF RecheckEffect
  <2>2. r \in Process /\ r.pc = "unpark" BY <1>0, GoesTyped
  <2> HIDE DEF r
  <2>3. r.pc \in Restarting BY <2>2 DEF Restarting
  <2> QED BY <1>1, <1>2, <2>1, <2>2, <2>3, ClientTyped, RestartingTracked
<1>4. CASE ~ownerKnown
  <2>1. Moves(c, sub[c], With(c, p, IdleProc)) BY <1>1, <1>4 DEF RecheckEffect
  <2>2. p = 0 BY <1>2 DEF ClientInv, Local, Parked
  <2>3. sub[c].state \in {"none", "pending"} BY <1>2, <1>4, <2>2 DEF ClientInv, Local, Unowned
  <2> QED BY <1>1, <1>2, <2>1, <2>3, ReturnTracked
<1> QED BY <1>3, <1>4

(* ... the way back to replaying, ...                                      *)
LEMMA UnparkTracked ==
    ASSUME HubInv, ClientTypeOK, \A d \in Clients : Track(d), NEW c \in Clients, ClientInv(c),
           NEW p \in Procs, Unpark(c, p)
    PROVE  \A d \in Clients : Track(d)'
<1> DEFINE s == IF sub[c].state = "pending" THEN Turns(c, "replaying") ELSE sub[c]
           r == Goes(c, p, "start")
<1>0. "start" \in Labels /\ "replaying" \in SubStates BY DEF Labels, SubStates
<1>1. Moves(c, s, With(c, p, r)) /\ gaps' \in [Clients -> Nat] BY UnparkMoves DEF UnparkEffect
<1>2. HubStays /\ misled \subseteq misled' /\ proc[c][p].pc = "unpark" BY ProcStays DEF Unpark, At
<1>3. r \in Process /\ r.pc = "start" BY <1>0, GoesTyped
<1>4. Parked(sub[c], proc[c]) BY DEF ClientInv, Local
<1>5. p = 0 BY <1>2, <1>4 DEF Parked
<1>6. sub[c].state = "pending" => \A q \in Procs \ {p} : proc[c][q].pc # "replay"
  BY <1>4, <1>5 DEF Parked
<1>7. /\ s \in Subscription
      /\ s = sub[c] \/ (s.state = "replaying" /\ sub[c].state = "pending" /\ s.lastSeq = sub[c].lastSeq)
  BY <1>0, TurnsTyped, ClientTyped
<1> HIDE DEF s, r
<1>8. r.pc \in Restarting BY <1>3 DEF Restarting
<1> QED BY <1>1, <1>2, <1>3, <1>6, <1>7, <1>8, RestartingTracked

(* ... the read of the position, ...                                       *)
LEMMA PositionTracked ==
    ASSUME HubInv, ClientTypeOK, \A d \in Clients : Track(d), NEW c \in Clients, NEW p \in Procs,
           ReadPosition(c, p)
    PROVE  \A d \in Clients : Track(d)'
<1> DEFINE r == [proc[c][p] EXCEPT !.pc = "collect", !.since = sub[c].lastSeq]
           P == With(c, p, r)
<1>1. PositionEffect(c, p) /\ gaps' \in [Clients -> Nat] BY PositionMoves
<1>2. HubStays /\ misled \subseteq misled' /\ proc[c][p].pc = "position"
  BY ProcStays DEF ReadPosition, At
<1>3. CASE sub[c].state = "none"
  <2>1. Moves(c, sub[c], With(c, p, IdleProc)) BY <1>1, <1>3 DEF PositionEffect
  <2> QED BY <1>1, <1>2, <1>3, <2>1, ReturnTracked
<1>4. CASE sub[c].state # "none"
  <2>1. Moves(c, sub[c], P) BY <1>1, <1>4 DEF PositionEffect
  <2>2. sub[c] \in Subscription /\ sub[c].lastSeq \in Nat /\ proc[c][p] \in Process
    BY ClientTyped DEF Subscription
  <2>3. r \in Process /\ r.pc = "collect" /\ r.since = sub[c].lastSeq
    BY <2>2 DEF Process, Labels
  <2> HIDE DEF r
  <2>4. P[p] = r /\ \A q \in Procs \ {p} : P[q] = proc[c][q] BY <2>3, WithFacts
  <2> HIDE DEF P
  <2>5. Handled(sub[c], P, Excused(c), Frontier(c))
    BY <2>2, <2>3, <2>4 DEF Handled, Underway
  <2>6. ASSUME c \notin misled' \cup Strangers
        PROVE  Sound(sub[c], P, cursor[c], known[c], Excused(c), Frontier(c))
    <3>1. Sound(sub[c], proc[c], cursor[c], known[c], Excused(c), Frontier(c))
      BY <1>2, <2>6 DEF Track, Tracked
    <3> QED BY <1>2, <2>2, <2>3, <2>4, <3>1, SoundPosition
  <2> QED BY <1>1, <1>2, <2>1, <2>2, <2>3, <2>5, <2>6, MovesTracked DEF P
<1> QED BY <1>3, <1>4

(* ... the collection of the replay, ...                                   *)
LEMMA CollectReplayTracked ==
    ASSUME HubInv, ClientTypeOK, \A d \in Clients : Track(d), NEW c \in Clients, ClientInv(c),
           NEW p \in Procs, CollectReplay(c, p)
    PROVE  \A d \in Clients : Track(d)'
<1> DEFINE r == Collected(c, p)
           P == With(c, p, r)
           n == Frontier(c)
           X == Excused(c)
<1>1. Moves(c, sub[c], P) /\ gaps' \in [Clients -> Nat] BY CollectMoves
<1>2. HubStays /\ misled \subseteq misled' /\ proc[c][p].pc = "collect"
  BY ProcStays DEF CollectReplay, At
<1>3. proc[c][p].since \in Nat /\ sub[c] \in Subscription /\ proc[c] \in [Procs -> Process]
  BY ClientTyped DEF Process
<1>4. r \in Process BY <1>2, CollectedTyped
<1>5. /\ r.pc = "replay" /\ r.since = proc[c][p].since
      /\ r.replay = RetainedAfter(proc[c][p].since) /\ r.gap = Gap(proc[c][p].since)
  BY DEF Collected
<1> HIDE DEF r
<1>6. P \in [Procs -> Process] /\ P[p] = r /\ \A q \in Procs \ {p} : P[q] = proc[c][q]
  BY <1>4, WithFacts
<1>7. sub[c].queue \subseteq 1..eventCounter BY DEF ClientInv, Local, InRange
<1>8. n \in Nat /\ n <= eventCounter BY FrontierTyped
<1> HIDE DEF P, n, X
<1>9. /\ Handled(sub[c], proc[c], X, n) => Handled(sub[c], P, X, n)
      /\ \A u, k : Sound(sub[c], proc[c], u, k, X, n) => Sound(sub[c], P, u, k, X, n)
  BY <1>2, <1>3, <1>5, <1>6, <1>7, <1>8, CollectTracked
<1>10. Handled(sub[c], P, X, n) BY <1>9 DEF Track, Tracked, X, n
<1>11. c \notin misled' \cup Strangers => Sound(sub[c], P, cursor[c], known[c], X, n)
  BY <1>2, <1>9 DEF Track, Tracked, X, n
<1> QED BY <1>1, <1>2, <1>3, <1>4, <1>10, <1>11, MovesTracked DEF P, X, n

(* ... the writes, ...                                                     *)
LEMMA WriteReplayTracked ==
    ASSUME HubInv, ClientTypeOK, \A d \in Clients : Track(d), NEW c \in Clients, ClientInv(c),
           NEW p \in Procs, WriteReplay(c, p)
    PROVE  \A d \in Clients : Track(d)'
<1>1. WriteReplayEffect(c, p) /\ gaps' \in [Clients -> Nat] BY WriteReplayWrites
<1>2. HubStays /\ misled \subseteq misled' /\ proc[c][p].pc = "replay"
  BY ProcStays DEF WriteReplay, At
<1>3. CASE sub[c].state = "none"
  <2>1. Moves(c, sub[c], With(c, p, IdleProc)) BY <1>1, <1>3 DEF WriteReplayEffect
  <2> QED BY <1>1, <1>2, <1>3, <2>1, ReturnTracked
<1>4. CASE sub[c].state # "none"
  <2> DEFINE s == sub[c]
             ids == Fresh(s.lastSeq, proc[c][p].replay, s.queue)
             top == Max({s.lastSeq} \cup ids)
             rest == [s EXCEPT !.queue = {}, !.state = "live"]
             t == [rest EXCEPT !.lastSeq = top]
             h == got[c] \o Ascending(ids)
             done == [IdleProc EXCEPT !.pc = "complete", !.gap = proc[c][p].gap]
             P == With(c, p, done)
             X == Excused(c)
             n == Frontier(c)
  <2>1. /\ s \in Subscription /\ s.lastSeq \in Nat /\ proc[c][p] \in Process
        /\ proc[c] \in [Procs -> Process] /\ cursor[c] \in Nat /\ known[c] \in SUBSET Nat
        /\ connected[c] \in BOOLEAN
    BY ClientTyped DEF Subscription
  <2>2. rest.lastSeq = s.lastSeq BY <2>1 DEF Subscription
  <2>3. Becomes(c, connected[c], [rest EXCEPT !.lastSeq = Max({rest.lastSeq} \cup ids)], P,
                h, cursor[c], known[c] \cup ids)
    BY <1>1, <1>4 DEF WriteReplayEffect, Writes
  <2>4. Becomes(c, connected[c], t, P, h, cursor[c], known[c] \cup ids) BY <2>2, <2>3
  <2>5. /\ proc[c][p].replay \in SUBSET (1..eventCounter) /\ s.queue \in SUBSET (1..eventCounter)
    BY DEF ClientInv, Local, InRange
  <2>6. eventCounter \in Nat BY HubFacts
  <2>7. /\ ids \subseteq Nat /\ top \in Nat /\ s.lastSeq <= top /\ \A id \in ids : id <= top
        /\ top \in {s.lastSeq} \cup ids /\ h \in Seq(Nat)
    BY <1>4, <2>5, <2>6, WriteFacts
  <2>8. \A id \in proc[c][p].replay \cup s.queue : id <= top
    <3>1. s.queue \in SUBSET Nat /\ proc[c][p].replay \in SUBSET Nat
      BY <2>1 DEF Subscription, Process
    <3> DEFINE m == s.lastSeq
               a == proc[c][p].replay
               b == s.queue
    <3>2. ids = Fresh(m, a, b) /\ \A id \in ids : id <= top BY <2>7
    <3>3. m \in Nat /\ top \in Nat /\ m <= top /\ a \in SUBSET Nat /\ b \in SUBSET Nat
      BY <2>1, <2>7, <3>1
    <3> HIDE DEF top, m, a, b, ids
    <3>4. \A id \in a \cup b : id <= top BY <3>2, <3>3, AllWritten
    <3> QED BY <3>4 DEF a, b
  <2> HIDE DEF top, h, ids
  <2>9. t \in Subscription /\ t.state = "live" /\ t.queue = {} /\ t.lastSeq = top
    BY <2>1, <2>7 DEF Subscription, SubStates
  <2>10. done \in Process /\ done.pc = "complete" /\ done.gap = proc[c][p].gap
    BY <2>1 DEF Process, Labels, IdleProc
  <2> HIDE DEF rest, t, done
  <2>11. P \in [Procs -> Process] /\ P[p] = done /\ \A q \in Procs \ {p} : P[q] = proc[c][q]
    BY <2>10, WithFacts
  <2>12. n \in Nat BY FrontierTyped
  <2>13. s.state \in {"replaying", "live"}
    <3>1. Parked(s, proc[c]) BY DEF ClientInv, Local
    <3>2. s.state # "pending" BY <1>2, <3>1, IdleTyped DEF Parked
    <3>3. s.state \in SubStates BY <2>1 DEF Subscription
    <3> QED BY <1>4, <3>2, <3>3 DEF SubStates
  <2> HIDE DEF s, P, X, n
  <2>14. Handled(s, proc[c], X, n) BY DEF Track, Tracked, s, X, n
  <2>15. Handled(t, P, X, n)
    BY <1>2, <2>1, <2>7, <2>8, <2>9, <2>10, <2>11, <2>12, <2>13, <2>14, WriteHandled
  <2>16. ASSUME c \notin misled' \cup Strangers
         PROVE  Sound(t, P, cursor[c], known[c] \cup ids, X, n)
    <3>1. Sound(s, proc[c], cursor[c], known[c], X, n)
      BY <1>2, <2>16 DEF Track, Tracked, s, X, n
    <3>2. s.state # "none" BY <2>13
    <3>3. ids = Fresh(s.lastSeq, proc[c][p].replay, s.queue) BY DEF ids
    <3> QED BY <1>2, <2>1, <2>7, <2>8, <2>9, <2>10, <2>11, <2>12, <3>1, <3>2, <3>3, WriteSound
  <2>17. known[c] \cup ids \in SUBSET Nat BY <2>1, <2>7
  <2> QED BY <1>1, <1>2, <2>1, <2>4, <2>7, <2>9, <2>11, <2>15, <2>16, <2>17, StillTracked
          DEF X, n
<1> QED BY <1>3, <1>4

(* ... and resume_complete; ...                                            *)
LEMMA ResumeTracked ==
    ASSUME HubInv, ClientTypeOK, \A d \in Clients : Track(d), NEW c \in Clients, ClientInv(c),
           NEW p \in Procs, ResumeComplete(c, p)
    PROVE  \A d \in Clients : Track(d)'
<1> DEFINE P == With(c, p, IdleProc)
           k == IF proc[c][p].gap THEN known[c] \cup 1..Furthest(c) ELSE known[c]
           X == Excused(c)
           n == Frontier(c)
<1>1. Becomes(c, connected[c], sub[c], P, << >>, Furthest(c), k) /\ gaps' \in [Clients -> Nat]
  BY ResumeBecomes DEF ResumeEffect
<1>2. /\ HubStays /\ proc[c][p].pc = "complete"
      /\ misled' = IF \E q \in Procs \ {p} : ~At(c, q, "idle") THEN misled \cup {c} ELSE misled
  BY DEF ResumeComplete, HubStays, At
<1>3. misled \subseteq misled' BY <1>2
<1>4. P \in [Procs -> Process] /\ P[p] = IdleProc /\ \A q \in Procs \ {p} : P[q] = proc[c][q]
  BY IdleTyped, WithFacts
<1>5. Furthest(c) \in Nat /\ k \in SUBSET Nat BY LastTyped, ClientTyped
<1>6. connected[c] \in BOOLEAN /\ sub[c] \in Subscription BY ClientTyped
<1>7. Furthest(c) <= eventCounter \/ got[c] = << >>
  <2> SUFFICES ASSUME got[c] # << >> PROVE Furthest(c) <= eventCounter OBVIOUS
  <2>1. got[c] \in Seq(Nat) BY ClientTyped
  <2>2. Len(got[c]) \in 1..Len(got[c]) /\ DOMAIN got[c] = 1..Len(got[c])
    BY <2>1, EmptySeq, LenProperties
  <2>3. Last(got[c]) \in Elements(got[c]) BY <2>2 DEF Elements, Last
  <2>4. Last(got[c]) \in 1..eventCounter BY <2>3 DEF ClientInv, Local, InRange
  <2> QED BY <2>4, HubFacts DEF Furthest
<1>8. sub[c].state # "none" => sub[c].lastSeq = Furthest(c)
  BY DEF ClientInv, Local, Ordered, Furthest
<1> HIDE DEF P, X, n
<1>9. Handled(sub[c], P, X, n)
  <2>1. Handled(sub[c], proc[c], X, n) BY DEF Track, Tracked, X, n
  <2>2. proc[c][p].pc \notin Restarting \cup {"collect", "replay"} BY <1>2 DEF Restarting
  <2> QED BY <1>4, <2>1, <2>2, CompleteHandled
<1>10. ASSUME c \notin misled' \cup Strangers PROVE Sound(sub[c], P, Furthest(c), k, X, n)
  <2>1. Sound(sub[c], proc[c], cursor[c], known[c], X, n)
    BY <1>3, <1>10 DEF Track, Tracked, X, n
  <2>2. \A q \in Procs \ {p} : proc[c][q].pc = "idle" BY <1>2, <1>10 DEF At
  <2>3. sub[c].state # "none" BY <1>2, <2>1 DEF Sound
  <2>4. sub[c].lastSeq <= eventCounter
    BY <1>7, <1>8, <2>1, <2>3 DEF Sound, Furthest
  <2>5. P[p].pc = "idle" /\ \A q \in Procs \ {p} : P[q] = proc[c][q] /\ proc[c][q].pc = "idle"
    BY <1>4, <2>2, IdleTyped
  <2>6. Sound(sub[c], P, sub[c].lastSeq,
              IF proc[c][p].gap THEN known[c] \cup 1..sub[c].lastSeq ELSE known[c], X, n)
    BY <1>2, <1>6, <2>1, <2>4, <2>5, CompleteSound
  <2> QED BY <1>8, <2>3, <2>6
<1> HIDE DEF k
<1> QED BY <1>1, <1>2, <1>3, <1>4, <1>5, <1>6, <1>9, <1>10, NothingWritten, StillTracked DEF P, X, n

(* ... by a notification, ...                                              *)
LEMMA NotifyVisitTracked ==
    ASSUME HubInv, ClientTypeOK, \A d \in Clients : Track(d), NEW c \in Clients, ClientInv(c),
           NEW k \in 1..MaxInits, NotifyVisit(k, c)
    PROVE  \A d \in Clients : Track(d)'
<1>1. HubStays /\ misled \subseteq misled' /\ UNCHANGED <<connected, clientVars>>
  BY DEF NotifyVisit, HubStays, boundVars
<1>2. CASE sub[c].state # "pending"
  <2>1. UNCHANGED <<sub, proc>> BY <1>2 DEF NotifyVisit
  <2>2. ASSUME NEW d \in Clients PROVE Track(d)'
    <3>1. Slid(d) BY <1>1, HubStill DEF HubStays
    <3>2. eventCounter \in Nat /\ cursor[d] \in Nat BY HubFacts, ClientTyped
    <3>3. eventCounter' = eventCounter /\ toolIds' = toolIds BY <1>1 DEF HubStays, logVars
    <3>4. /\ sub'[d] = sub[d] /\ proc'[d] = proc[d] /\ cursor'[d] = cursor[d]
          /\ known'[d] = known[d]
      BY <1>1, <2>1 DEF clientVars
    <3>5. /\ eventCounter' \in Nat /\ eventCounter <= eventCounter' /\ toolIds \subseteq toolIds'
      BY <3>2, <3>3
    <3> QED BY <1>1, <3>1, <3>2, <3>4, <3>5, TrackOn
  <2> QED BY <2>2
<1>3. CASE sub[c].state = "pending"
  <2> DEFINE s == Turns(c, "replaying")
             r == Goes(c, k, "start")
  <2>0. "replaying" \in SubStates /\ "start" \in Labels BY DEF SubStates, Labels
  <2>1. k \in Procs /\ k # 0 BY DEF Procs
  <2>2. sub' = [sub EXCEPT ![c] = s] BY <1>3, SubGoes DEF NotifyVisit
  <2>3. proc' = [proc EXCEPT ![c] = With(c, k, r)]
    <3>1. GoTo(c, k, "start") BY <1>3 DEF NotifyVisit, GoTo
    <3> QED BY <2>1, <3>1, GoToGoes
  <2>4. Moves(c, s, With(c, k, r)) /\ gaps' \in [Clients -> Nat]
    BY <1>1, <2>2, <2>3, MovesIntro
  <2>5. s \in Subscription /\ s.state = "replaying" /\ s.lastSeq = sub[c].lastSeq
    BY <2>0, TurnsTyped
  <2>6. r \in Process /\ r.pc = "start" BY <2>0, <2>1, GoesTyped
  <2> HIDE DEF s, r
  <2>7. \A q \in Procs : proc[c][q].pc \notin {"replay", "complete"}
    <3>1. Parked(sub[c], proc[c]) BY DEF ClientInv, Local
    <3> QED BY <1>3, <3>1 DEF Parked
  <2>8. r.pc \in Restarting BY <2>6 DEF Restarting
  <2> QED BY <1>1, <1>3, <2>1, <2>4, <2>5, <2>6, <2>7, <2>8, RestartingTracked
<1> QED BY <1>2, <1>3

(* What the client falls back to, it holds.                                *)
LEMMA BackSound ==
    ASSUME ClientTypeOK, NEW c \in Clients, ClientInv(c), eventCounter \in Nat,
           NEW X, NEW m, Sound(sub[c], proc[c], cursor[c], known[c], X, m),
           NEW n \in Retained(c)
    PROVE  Back(c, n) <= eventCounter /\ Holds(Kept(c, n), X, Back(c, n))
<1> DEFINE g == got[c]
           l == Len(g)
<1>1. /\ g \in Seq(Nat) /\ l \in Nat /\ DOMAIN g = 1..l /\ cursor[c] \in Nat
      /\ \A i \in 1..l : g[i] \in Nat
  BY ClientTyped, LenProperties, ElementOfSeq
<1>2. n \in 0..l BY BackTyped
<1>3. /\ \A i, j \in 1..l : i < j => g[i] < g[j]
      /\ l > 0 => g[1] > cursor[c]
      /\ \A i \in 1..l : g[i] <= eventCounter
      /\ sub[c].state # "none" /\ l > 0 => sub[c].lastSeq = g[l]
  <2>1. Ordered(sub[c], g, cursor[c]) /\ InRange(sub[c], proc[c], g) BY DEF ClientInv, Local
  <2>2. l > 0 => g # << >> BY EmptySeq
  <2>3. \A i \in 1..l : g[i] \in 1..eventCounter BY <1>1, <2>1 DEF InRange, Elements
  <2> QED BY <2>1, <2>2, <2>3 DEF Ordered, Increasing, Last
<1>4. Kept(c, n) = known[c] \ {g[i] : i \in (n + 1)..l} BY DEF Kept
<1>5. CASE n = 0
  <2>1. Back(c, n) = cursor[c] BY <1>5 DEF Back
  <2>2. \A i \in 1..l : g[i] > cursor[c]
    <3> SUFFICES ASSUME NEW i \in 1..l PROVE g[i] > cursor[c] OBVIOUS
    <3>1. 1 \in 1..l /\ (i = 1 \/ 1 < i) BY <1>1
    <3> HIDE DEF g, l
    <3> QED BY <1>1, <1>3, <3>1
  <2> HIDE DEF g, l
  <2>3. \A id \in 1..cursor[c] : id \notin {g[i] : i \in (n + 1)..l} BY <1>1, <1>5, <2>2
  <2> QED BY <1>4, <2>1, <2>3 DEF Sound, Holds
<1>6. CASE n # 0
  <2>1. n \in 1..l /\ l \in 1..l /\ l > 0 BY <1>1, <1>2, <1>6
  <2>2. Back(c, n) = g[n] BY <1>6 DEF Back
  <2>3. Streaming(c) BY <1>6 DEF Retained
  <2>4. sub[c].state # "none" /\ ~Told(proc[c]) BY <2>3 DEF Streaming, Completing, Told
  <2>5. Holds(known[c], X, sub[c].lastSeq) BY <2>4 DEF Sound
  <2> HIDE DEF g, l
  <2>6. sub[c].lastSeq = g[l] BY <1>3, <2>1, <2>4
  <2>7. g[n] <= g[l] /\ g[n] \in Nat /\ g[l] \in Nat
    <3>1. n = l \/ n < l BY <2>1
    <3> QED BY <1>1, <1>3, <2>1, <3>1
  <2>8. \A id \in 1..g[n] : id \notin {g[i] : i \in (n + 1)..l}
    <3> SUFFICES ASSUME NEW id \in 1..g[n], NEW i \in (n + 1)..l, id = g[i] PROVE FALSE
      OBVIOUS
    <3>1. i \in 1..l /\ n < i BY <2>1
    <3> QED BY <1>1, <1>3, <2>1, <2>7, <3>1
  <2>9. \A id \in 1..g[n] : id \in known[c] \/ id \in X
    BY <2>5, <2>6, <2>7 DEF Holds
  <2> QED BY <1>3, <1>4, <2>1, <2>2, <2>8, <2>9 DEF Holds
<1> QED BY <1>5, <1>6

(* What a client keeps when it falls back has no hole either.              *)
LEMMA DropsSound ==
    ASSUME ClientTypeOK, NEW c \in Clients, ClientInv(c), eventCounter \in Nat,
           NEW X, NEW m, Sound(sub[c], proc[c], cursor[c], known[c], X, m),
           NEW n \in Retained(c), NEW s, NEW P, NEW i,
           s.state \in {"none", "replaying"},
           s.state = "replaying" => s.lastSeq = Back(c, n),
           \A p \in Procs : P[p].pc = "idle" \/ (P[p].pc = "start" /\ s.state = "replaying")
    PROVE  Sound(s, P, Back(c, n), Kept(c, n), X, i)
<1>1. Back(c, n) <= eventCounter /\ Holds(Kept(c, n), X, Back(c, n)) BY BackSound
<1> QED BY <1>1 DEF Sound

(* A patient client changes a subscription only when nothing completes it. *)
LEMMA ReaderFacts ==
    ASSUME NEW c \in Clients, ReaderFree(c)
    PROVE  /\ misled \subseteq misled' /\ proc[c][0].pc = "idle"
           /\ c \notin misled' => c \notin misled /\ \A p \in Procs : proc[c][p].pc = "idle"
BY DEF ReaderFree, Completing

(* ... by a fresh subscription, ...                                        *)
LEMMA SubscribeTracked ==
    ASSUME HubInv, ClientTypeOK, \A d \in Clients : Track(d), NEW c \in Clients, ClientInv(c),
           Subscribe(c)
    PROVE  \A d \in Clients : Track(d)'
<1> DEFINE r == Goes(c, 0, "start")
           P == With(c, 0, r)
<1>0. "start" \in Labels /\ 0 \in Procs BY IdleTyped DEF Labels
<1>1. PICK n \in Retained(c) :
        Becomes(c, connected[c], [state |-> "replaying", lastSeq |-> Back(c, n), queue |-> {}],
                P, << >>, Back(c, n), Kept(c, n))
  BY SubscribeBecomes
<1> DEFINE s == [state |-> "replaying", lastSeq |-> Back(c, n), queue |-> {}]
<1>2. gaps' \in [Clients -> Nat] BY SubscribeBecomes
<1>3. /\ HubStays /\ misled \subseteq misled'
      /\ c \notin misled' => c \notin misled /\ \A p \in Procs : proc[c][p].pc = "idle"
  BY ReaderFacts DEF Subscribe, HubStays
<1>4. Back(c, n) \in Nat /\ Kept(c, n) \in SUBSET Nat BY BackTyped
<1>5. s \in Subscription /\ s.state = "replaying" /\ s.lastSeq = Back(c, n)
  BY <1>4 DEF Subscription, SubStates
<1>6. r \in Process /\ r.pc = "start" BY <1>0, GoesTyped
<1> HIDE DEF s, r
<1>7. P \in [Procs -> Process] /\ P[0] = r /\ \A q \in Procs \ {0} : P[q] = proc[c][q]
  BY <1>0, <1>6, WithFacts
<1>8. connected[c] \in BOOLEAN BY ClientTyped
<1>9. Becomes(c, connected[c], s, P, << >>, Back(c, n), Kept(c, n)) BY <1>1 DEF s, r
<1> HIDE DEF P
<1>10. Handled(s, P, Excused(c), Frontier(c))
  BY <1>0, <1>6, <1>7, RestartedHandled DEF Restarting
<1>11. ASSUME c \notin misled' \cup Strangers
       PROVE  Sound(s, P, Back(c, n), Kept(c, n), Excused(c), Frontier(c))
  <2>1. Sound(sub[c], proc[c], cursor[c], known[c], Excused(c), Frontier(c))
    BY <1>3, <1>11 DEF Track, Tracked
  <2>2. \A p \in Procs : P[p].pc = "idle" \/ (P[p].pc = "start" /\ s.state = "replaying")
    BY <1>3, <1>5, <1>6, <1>7, <1>11
  <2>3. eventCounter \in Nat BY HubFacts
  <2> QED BY <1>5, <2>1, <2>2, <2>3, DropsSound
<1> QED BY <1>2, <1>3, <1>4, <1>5, <1>7, <1>8, <1>9, <1>10, <1>11, NothingWritten, StillTracked

(* ... by the end of one, ...                                              *)
LEMMA UnsubscribeTracked ==
    ASSUME HubInv, ClientTypeOK, \A d \in Clients : Track(d), NEW c \in Clients, ClientInv(c),
           Unsubscribe(c)
    PROVE  \A d \in Clients : Track(d)'
<1>1. PICK n \in Retained(c) : Becomes(c, connected[c], NoSub, proc[c], << >>, Back(c, n), Kept(c, n))
  BY UnsubscribeBecomes
<1>2. gaps' \in [Clients -> Nat] BY UnsubscribeBecomes
<1>3. /\ HubStays /\ misled \subseteq misled'
      /\ c \notin misled' => c \notin misled /\ \A p \in Procs : proc[c][p].pc = "idle"
  BY ReaderFacts DEF Unsubscribe, HubStays
<1>4. Back(c, n) \in Nat /\ Kept(c, n) \in SUBSET Nat BY BackTyped
<1>5. NoSub \in Subscription /\ NoSub.state = "none" BY IdleTyped
<1>6. connected[c] \in BOOLEAN /\ proc[c] \in [Procs -> Process] BY ClientTyped
<1>7. Handled(NoSub, proc[c], Excused(c), Frontier(c)) BY <1>5, NoneHandled
<1>8. ASSUME c \notin misled' \cup Strangers
      PROVE  Sound(NoSub, proc[c], Back(c, n), Kept(c, n), Excused(c), Frontier(c))
  <2>1. Sound(sub[c], proc[c], cursor[c], known[c], Excused(c), Frontier(c))
    BY <1>3, <1>8 DEF Track, Tracked
  <2>2. eventCounter \in Nat /\ \A p \in Procs : proc[c][p].pc = "idle" BY <1>3, <1>8, HubFacts
  <2>3. NoSub.state \in {"none", "replaying"} /\ NoSub.state # "replaying" BY <1>5
  <2> HIDE DEF NoSub
  <2> QED BY <2>1, <2>2, <2>3, DropsSound
<1> QED BY <1>1, <1>2, <1>3, <1>4, <1>5, <1>6, <1>7, <1>8, NothingWritten, StillTracked

(* A connection is closed, by the client or by an eviction.                *)
LEMMA ClosedTracked ==
    ASSUME HubInv, ClientTypeOK, \A d \in Clients : Track(d), NEW c \in Clients, ClientInv(c),
           Closed(c), drain' = DrainPast(c),
           UNCHANGED <<logVars, hubQueue, hubOverflow, toolIds, misled>>
    PROVE  \A d \in Clients : Track(d)'
<1>1. PICK n \in Retained(c) : Becomes(c, FALSE, NoSub, NoProcs, << >>, Back(c, n), Kept(c, n))
  BY ClosedBecomes
<1>2. gaps' \in [Clients -> Nat] BY ClosedBecomes
<1>3. eventCounter \in Nat /\ UNCHANGED <<eventCounter, toolIds>> BY HubFacts DEF logVars
<1>4. Back(c, n) \in Nat /\ Kept(c, n) \in SUBSET Nat BY BackTyped
<1>5. NoSub \in Subscription /\ NoSub.state = "none" BY IdleTyped
<1>6. NoProcs \in [Procs -> Process] /\ \A p \in Procs : NoProcs[p].pc = "idle"
  BY IdleTyped DEF NoProcs
<1>7. Handled(NoSub, NoProcs, Excused(c), Frontier(c)') BY <1>5, NoneHandled
<1>8. ASSUME c \notin misled' \cup Strangers
      PROVE  Sound(NoSub, NoProcs, Back(c, n), Kept(c, n), Excused(c), Frontier(c)')
  <2>1. Sound(sub[c], proc[c], cursor[c], known[c], Excused(c), Frontier(c))
    BY <1>8 DEF Track, Tracked
  <2>2. NoSub.state \in {"none", "replaying"} /\ NoSub.state # "replaying" BY <1>5
  <2> QED BY <1>3, <1>6, <2>1, <2>2, DropsSound
<1>9. \A d \in Clients \ {c} : Slid(d) BY PastSlides
<1>10. FALSE \in BOOLEAN /\ misled \subseteq misled' OBVIOUS
<1> QED BY <1>1, <1>2, <1>3, <1>4, <1>5, <1>6, <1>7, <1>8, <1>9, <1>10, NothingWritten, TrackStep

(* No client is touched: what the hub did may not take it past an event    *)
(* that a client needs.                                                    *)
LEMMA HubTracked ==
    ASSUME HubInv, HubInv', ClientTypeOK, \A d \in Clients : Track(d),
           UNCHANGED <<sub, proc, cursor, known, misled>>,
           eventCounter <= eventCounter', toolIds \subseteq toolIds',
           \A d \in Clients : Slid(d) \/ Exempt(d)
    PROVE  \A d \in Clients : Track(d)'
<1>1. eventCounter \in Nat /\ eventCounter' \in Nat
  BY HubFacts DEF HubInv, HubTypeOK, LogTypeOK
<1>2. misled \subseteq misled' OBVIOUS
<1>3. ASSUME NEW d \in Clients PROVE Track(d)'
  <2>1. cursor[d] \in Nat BY ClientTyped
  <2> QED BY <1>1, <1>2, <2>1, TrackOn
<1> QED BY <1>3

(* The tracking is kept by the delivery of an event, ...                   *)
LEMMA DeliverTracked ==
    ASSUME HubInv, HubInv', ClientTypeOK, \A d \in Clients : Track(d), NEW c \in Clients,
           ClientInv(c), DrainDeliver(c)
    PROVE  \A d \in Clients : Track(d)'
<1> DEFINE id == drain.event.id
           s == sub[c]
           P == proc[c]
           X == Excused(c)
           n == Frontier(c)
           m == Frontier(c)'
<1>1. DeliverEffect(c) /\ gaps' \in [Clients -> Nat] BY DeliverBecomes
<1>2. /\ drain' = DrainPast(c) /\ drain.pc = "deliver" /\ c \in drain.todo
      /\ UNCHANGED <<logVars, hubQueue, hubOverflow, toolIds, misled>>
  BY DEF DrainDeliver, boundVars
<1>3. /\ eventCounter \in Nat /\ id \in 1..Drained /\ id \in Nat /\ id <= eventCounter
  BY <1>2, HubFacts
<1>4. /\ \A d \in Clients \ {c} : Slid(d)
      /\ n = id - 1 /\ m \in Nat /\ m <= id
  BY <1>2, PastSlides
<1>5. n \in Nat BY FrontierTyped
<1>6. /\ \A i \in 1..m : i \in 1..n \/ i = id
      /\ \A i \in 1..id : i \in 1..n \/ i = id
  <2> HIDE DEF id, n, m
  <2> QED BY <1>3, <1>4, <1>5
<1>7. /\ s \in Subscription /\ P \in [Procs -> Process] /\ got[c] \in Seq(Nat)
      /\ cursor[c] \in Nat /\ known[c] \in SUBSET Nat /\ connected[c] \in BOOLEAN
      /\ s.lastSeq \in Nat
  BY ClientTyped DEF Subscription
<1>8. UNCHANGED <<eventCounter, toolIds>> /\ misled \subseteq misled' BY <1>2 DEF logVars
<1>9. CASE s.state = "replaying"
  <2> DEFINE t == Queued(c, id)
  <2>1. Becomes(c, connected[c], t, P, got[c], cursor[c], known[c])
    BY <1>1, <1>9 DEF DeliverEffect, Moves
  <2>2. /\ t \in Subscription /\ t.state = "replaying" /\ t.lastSeq = s.lastSeq
        /\ t.queue = s.queue \cup {id}
    BY <1>3, <1>7, <1>9 DEF Queued, Subscription
  <2> HIDE DEF t, id, s, P, X, n, m
  <2>3. /\ Handled(s, P, X, n) => Handled(t, P, X, m)
        /\ \A u, k : Sound(s, P, u, k, X, n) => Sound(t, P, u, k, X, m)
    <3>1. s \in Subscription /\ P \in [Procs -> Process] /\ s.state = "replaying" BY <1>7, <1>9
    <3>2. id \in Nat /\ n \in Nat /\ m \in Nat BY <1>3, <1>4, <1>5
    <3>3. t.queue = s.queue \cup {id} BY <2>2
    <3>4. t \in Subscription /\ t.state = "replaying" /\ t.lastSeq = s.lastSeq BY <2>2
    <3> QED BY <1>6, <3>1, <3>2, <3>3, <3>4, QueueTracked
  <2>4. Handled(t, P, X, m) BY <2>3 DEF Track, Tracked, s, P, X, n
  <2>5. c \notin misled' \cup Strangers => Sound(t, P, cursor[c], known[c], X, m)
    BY <1>8, <2>3 DEF Track, Tracked, s, P, X, n
  <2> QED BY <1>1, <1>3, <1>4, <1>7, <1>8, <2>1, <2>2, <2>4, <2>5, TrackStep DEF X, m
<1>10. CASE s.state = "live"
  <2> DEFINE ids == Fresh(s.lastSeq, {}, {id})
             top == Max({s.lastSeq} \cup ids)
             t == [s EXCEPT !.lastSeq = top]
             h == got[c] \o Ascending(ids)
  <2>1. Becomes(c, connected[c], t, P, h, cursor[c], known[c] \cup ids)
    BY <1>1, <1>10 DEF DeliverEffect, Writes
  <2>2. /\ {} \in SUBSET (1..eventCounter) /\ {id} \in SUBSET (1..eventCounter)
        /\ s.state # "none"
    BY <1>3, <1>10
  <2>3. /\ ids \subseteq Nat /\ top \in Nat /\ s.lastSeq <= top /\ \A i \in ids : i <= top
        /\ top \in {s.lastSeq} \cup ids /\ h \in Seq(Nat)
    BY <1>3, <2>2, WriteFacts
  <2>4. id <= top
    <3> DEFINE a == {}
               b == {id}
               l == s.lastSeq
    <3>1. ids = Fresh(l, a, b) /\ a \in SUBSET Nat /\ b \in SUBSET Nat /\ id \in a \cup b
      BY <1>3
    <3>2. l \in Nat /\ top \in Nat /\ l <= top /\ \A i \in ids : i <= top BY <1>7, <2>3
    <3> HIDE DEF a, b, l, ids, top, id
    <3> QED BY <3>1, <3>2, AllWritten
  <2> HIDE DEF top, h
  <2>5. s.queue = {} BY <1>10 DEF ClientInv, Local, Ordered
  <2>6. t \in Subscription /\ t.state = "live" /\ t.queue = {} /\ t.lastSeq = top
    BY <1>7, <1>10, <2>3, <2>5 DEF Subscription
  <2>7. ids \subseteq {id} BY DEF Fresh
  <2> HIDE DEF ids, t, id, s, P, X, n, m
  <2>8. /\ Handled(s, P, X, n) => Handled(t, P, X, m)
        /\ \A u, k : Sound(s, P, u, k, X, n) => Sound(t, P, u, k \cup ids, X, m)
    <3>1. s \in Subscription /\ P \in [Procs -> Process] /\ s.state = "live" BY <1>7, <1>10
    <3>2. id \in Nat /\ n \in Nat /\ m \in Nat BY <1>3, <1>4, <1>5
    <3>3. /\ s.lastSeq <= t.lastSeq /\ t.lastSeq \in {s.lastSeq} \cup ids /\ id <= t.lastSeq
      BY <2>3, <2>4, <2>6
    <3>4. t \in Subscription /\ t.state = "live" /\ t.queue = {} BY <2>6
    <3> QED BY <1>6, <2>5, <2>7, <3>1, <3>2, <3>3, <3>4, LiveTracked
  <2>9. Handled(t, P, X, m) BY <2>8 DEF Track, Tracked, s, P, X, n
  <2>10. c \notin misled' \cup Strangers => Sound(t, P, cursor[c], known[c] \cup ids, X, m)
    BY <1>8, <2>8 DEF Track, Tracked, s, P, X, n
  <2>11. known[c] \cup ids \in SUBSET Nat BY <1>7, <2>3
  <2> QED BY <1>1, <1>3, <1>4, <1>7, <1>8, <2>1, <2>3, <2>6, <2>9, <2>10, <2>11, TrackStep DEF X, m
<1>11. CASE s.state \in {"none", "pending"}
  <2>1. UNCHANGED <<sub, proc, cursor, known>>
    BY <1>1, <1>11 DEF DeliverEffect, clientVars
  <2>2. Exempt(c) BY <1>11, ExemptFacts
  <2>3. eventCounter <= eventCounter' /\ toolIds \subseteq toolIds' BY <1>3, <1>8
  <2>4. \A d \in Clients : Slid(d) \/ Exempt(d) BY <1>4, <2>2
  <2> QED BY <1>2, <2>1, <2>3, <2>4, HubTracked
<1>12. s.state \in SubStates BY <1>7 DEF Subscription
<1> QED BY <1>9, <1>10, <1>11, <1>12 DEF SubStates

(* ... by an eviction, ...                                                 *)
LEMMA EvictTracked ==
    ASSUME HubInv, HubInv', ClientTypeOK, \A d \in Clients : Track(d), NEW c \in Clients,
           ClientInv(c), EvictVisit(c)
    PROVE  \A d \in Clients : Track(d)'
<1>1. /\ drain' = DrainPast(c)
      /\ UNCHANGED <<logVars, hubQueue, hubOverflow, toolIds, misled>>
  BY DEF EvictVisit, boundVars
<1>2. CASE sub[c].state # "none"
  <2>1. Closed(c) BY <1>2 DEF EvictVisit
  <2> QED BY <1>1, <2>1, ClosedTracked
<1>3. CASE sub[c].state = "none"
  <2>1. UNCHANGED <<sub, proc, cursor, known>>
    BY <1>3 DEF EvictVisit, connVars, clientVars
  <2>2. Exempt(c) BY <1>3, ExemptFacts
  <2>3. \A d \in Clients : Slid(d) \/ Exempt(d) BY <1>1, <2>2, PastSlides
  <2>4. eventCounter <= eventCounter' /\ toolIds \subseteq toolIds'
    BY <1>1, HubFacts DEF logVars
  <2> QED BY <1>1, <2>1, <2>3, <2>4, HubTracked
<1> QED BY <1>2, <1>3

(* ... by a new event: if the queue overflows, every frontier goes to      *)
(* zero, ...                                                               *)
LEMMA PushTracked ==
    ASSUME HubInv, HubInv', ClientTypeOK, \A d \in Clients : Track(d),
           NEW kind \in Payloads, PushEvent(kind)
    PROVE  \A d \in Clients : Track(d)'
<1> DEFINE full == Len(hubQueue) >= EventBufferMax
           e == [id |-> eventCounter + 1, payload |-> kind]
<1>1. /\ eventCounter' = eventCounter + 1 /\ toolIds \subseteq toolIds'
      /\ hubQueue' = IF full THEN <<e>> ELSE Append(hubQueue, e)
      /\ hubOverflow' = (hubOverflow \/ full)
      /\ drain' = IF drain.pc = "idle" THEN [drain EXCEPT !.pc = "take"] ELSE drain
      /\ UNCHANGED <<sub, proc, cursor, known, misled>>
  BY DEF PushEvent, Record, QueueHubEvent, connVars, clientVars, boundVars
<1>2. /\ eventCounter \in Nat /\ eventCounter <= eventCounter' /\ Len(hubQueue) \in Nat
      /\ drain \in [pc : DrainLabels, event : Event, todo : SUBSET Clients]
      /\ hubQueue \in Seq(Event) /\ hubOverflow \in BOOLEAN
  BY <1>1, HubFacts DEF HubInv, HubTypeOK
<1>3. /\ drain'.event = drain.event /\ drain'.todo = drain.todo
      /\ drain'.pc = drain.pc \/ (drain.pc = "idle" /\ drain'.pc = "take")
  BY <1>1, <1>2
<1>4. ~full => Drained' = Drained
  <2> SUFFICES ASSUME ~full PROVE Drained' = Drained OBVIOUS
  <2>0. e \in Event
    <3>1. kind \in Kinds OBVIOUS
    <3> QED BY <1>2, <3>1 DEF Event
  <2> HIDE DEF e
  <2>1. hubQueue' = Append(hubQueue, e) BY <1>1
  <2>2. Len(hubQueue') = Len(hubQueue) + 1 BY <1>2, <2>0, <2>1, AppendProperties
  <2> QED BY <1>1, <1>2, <2>2 DEF Drained
<1> HIDE DEF full
<1>5. ASSUME NEW d \in Clients PROVE Slid(d)
  <2>1. CASE drain.pc \in {"target", "deliver"}
    <3>1. Frontier(d)' = Frontier(d) BY <1>3, <2>1 DEF Frontier
    <3> QED BY <3>1 DEF Slid
  <2>2. CASE drain.pc \notin {"target", "deliver"} /\ ~full
    <3>1. hubOverflow' = hubOverflow /\ Drained' = Drained BY <1>1, <1>2, <1>4, <2>2
    <3>2. drain'.pc \notin {"target", "deliver"} BY <1>3, <2>2
    <3>3. Frontier(d)' = Frontier(d) BY <1>3, <2>2, <3>1, <3>2 DEF Frontier
    <3> QED BY <3>3 DEF Slid
  <2>3. CASE drain.pc \notin {"target", "deliver"} /\ full
    <3>1. hubOverflow' = TRUE BY <1>1, <1>2, <2>3
    <3>2. drain'.pc \notin {"target", "deliver"} BY <1>3, <2>3
    <3>3. Frontier(d)' = 0 BY <3>1, <3>2 DEF Frontier
    <3> QED BY <3>3 DEF Slid
  <2> QED BY <2>1, <2>2, <2>3
<1> QED BY <1>1, <1>2, <1>5, HubTracked

(* ... by the drain goroutine taking the next event or starting to evict,  *)
(* ...                                                                     *)
LEMMA TakeTracked ==
    ASSUME HubInv, HubInv', ClientTypeOK, \A d \in Clients : Track(d), DrainTake
    PROVE  \A d \in Clients : Track(d)'
<1>1. /\ UNCHANGED <<eventCounter, toolIds, sub, proc, cursor, known, misled>>
      /\ drain.pc = "take"
  BY DEF DrainTake, logVars, connVars, clientVars, boundVars
<1>2. /\ drain \in [pc : DrainLabels, event : Event, todo : SUBSET Clients]
      /\ hubQueue \in Seq(Event) /\ hubOverflow \in BOOLEAN /\ eventCounter \in Nat
      /\ Len(hubQueue) \in Nat /\ Drained \in Nat
  BY HubFacts DEF HubInv, HubTypeOK
<1>3. ASSUME NEW d \in Clients PROVE Slid(d)
  <2>1. CASE hubOverflow
    <3>1. drain' = [drain EXCEPT !.pc = "overflow"] BY <2>1 DEF DrainTake
    <3>2. drain'.pc = "overflow" BY <1>2, <3>1
    <3>3. Frontier(d)' = 0 BY <3>2 DEF Frontier
    <3> QED BY <3>3 DEF Slid
  <2>2. CASE ~hubOverflow /\ hubQueue = << >>
    <3>1. drain'.pc = "idle" /\ UNCHANGED <<hubOverflow, hubQueue>>
      BY <2>2 DEF DrainTake, IdleDrain
    <3>2. Frontier(d)' = Frontier(d) BY <1>1, <2>2, <3>1 DEF Frontier, Drained
    <3> QED BY <3>2 DEF Slid
  <2>3. CASE ~hubOverflow /\ hubQueue # << >>
    <3>1. drain' = [drain EXCEPT !.pc = "target", !.event = Head(hubQueue)]
      BY <2>3 DEF DrainTake
    <3>2. Head(hubQueue) = hubQueue[1] BY <1>2, <2>3, HeadTailProperties
    <3>3. drain'.pc = "target" /\ drain'.event = hubQueue[1] BY <1>2, <3>1, <3>2
    <3>4. 1 \in 1..Len(hubQueue) BY <1>2, <2>3, EmptySeq
    <3>5. hubQueue[1].id = Drained + 1 BY <3>4 DEF HubInv, QueueIsTail
    <3>6. Frontier(d)' = Drained BY <1>2, <3>3, <3>5 DEF Frontier
    <3>7. Frontier(d) = Drained BY <1>1, <2>3 DEF Frontier
    <3> QED BY <3>6, <3>7 DEF Slid
  <2> QED BY <2>1, <2>2, <2>3
<1>4. eventCounter <= eventCounter' /\ toolIds \subseteq toolIds' BY <1>1, <1>2
<1> QED BY <1>1, <1>3, <1>4, HubTracked

(* Whoever is not a target of the event has no need of it.                 *)
LEMMA TargetTracked ==
    ASSUME HubInv, HubInv', ClientTypeOK, \A d \in Clients : Track(d),
           \A d \in Clients : ClientInv(d), DrainTarget
    PROVE  \A d \in Clients : Track(d)'
<1> DEFINE id == drain.event.id
           targets == Targets(drain.event.payload)
<1>1. /\ UNCHANGED <<eventCounter, hubQueue, hubOverflow, toolIds, sub, proc, cursor, known, misled>>
      /\ drain.pc = "target"
      /\ drain' = IF targets = {} THEN [IdleDrain EXCEPT !.pc = "take"]
                  ELSE [drain EXCEPT !.pc = "deliver", !.todo = targets]
  BY DEF DrainTarget, logVars, connVars, clientVars, boundVars
<1>2. /\ drain \in [pc : DrainLabels, event : Event, todo : SUBSET Clients]
      /\ hubOverflow \in BOOLEAN /\ eventCounter \in Nat
      /\ id \in 1..Drained /\ id \in Nat /\ (hubOverflow \/ id = Drained) /\ Drained \in Nat
      /\ drain.event.payload = "tool" => id \in toolIds
  BY <1>1, HubFacts DEF HubInv, HubTypeOK
<1>3. ASSUME NEW d \in Clients, d \notin targets PROVE Exempt(d) \/ id \in Excused(d)'
  <2>1. CASE d \in Strangers \/ ~ownerKnown \/ sub[d].state = "none" BY <2>1, ExemptFacts
  <2>2. CASE ~connected[d]
    <3>1. sub[d].state = "none" BY <2>2 DEF ClientInv, Local, Attached
    <3> QED BY <3>1, ExemptFacts
  <2>3. CASE d \notin Strangers /\ ownerKnown /\ connected[d] /\ sub[d].state # "none"
    <3>1. drain.event.payload = "tool" /\ d \notin Executors BY <1>3, <2>3 DEF Targets
    <3> QED BY <1>1, <1>2, <3>1 DEF Excused
  <2> QED BY <2>1, <2>2, <2>3
<1> HIDE DEF targets
<1>4. ASSUME NEW d \in Clients PROVE Slid(d) \/ Exempt(d)
  <2>1. Frontier(d) = id - 1 BY <1>1 DEF Frontier
  <2>2. CASE targets = {}
    <3>1. drain'.pc = "take" BY <1>1, <2>2 DEF IdleDrain
    <3>2. Frontier(d)' = IF hubOverflow THEN 0 ELSE Drained
      BY <1>1, <3>1 DEF Frontier, Drained
    <3>3. \A i \in 1..Frontier(d)' : i \in 1..Frontier(d) \/ i = id
      <4> HIDE DEF id
      <4> QED BY <1>2, <2>1, <3>2
    <3> QED BY <1>3, <2>2, <3>3 DEF Slid
  <2>3. CASE targets # {}
    <3>1. drain' = [drain EXCEPT !.pc = "deliver", !.todo = targets] BY <1>1, <2>3
    <3>2. drain'.pc = "deliver" /\ drain'.todo = targets /\ drain'.event = drain.event
      BY <1>2, <3>1
    <3>3. Frontier(d)' = IF d \in targets THEN id - 1 ELSE id BY <3>2 DEF Frontier
    <3>4. \A i \in 1..Frontier(d)' : i \in 1..Frontier(d) \/ (i = id /\ d \notin targets)
      <4> HIDE DEF id
      <4> QED BY <1>2, <2>1, <3>3
    <3> QED BY <1>3, <3>4 DEF Slid
  <2> QED BY <2>2, <2>3
<1>5. eventCounter <= eventCounter' /\ toolIds \subseteq toolIds' BY <1>1, <1>2
<1> QED BY <1>1, <1>4, <1>5, HubTracked

(* ... by the snapshot of the connections to evict, ...                    *)
LEMMA SnapshotTracked ==
    ASSUME HubInv, HubInv', ClientTypeOK, \A d \in Clients : Track(d),
           \A d \in Clients : ClientInv(d), EvictSnapshot
    PROVE  \A d \in Clients : Track(d)'
<1> DEFINE open == {c \in Clients : connected[c]}
<1>1. /\ UNCHANGED <<eventCounter, toolIds, sub, proc, cursor, known, misled>>
      /\ drain.pc = "overflow"
      /\ drain' = IF open = {} THEN [drain EXCEPT !.pc = "take"]
                  ELSE [drain EXCEPT !.pc = "evict", !.todo = open]
  BY DEF EvictSnapshot, logVars, connVars, clientVars, boundVars
<1>2. drain \in [pc : DrainLabels, event : Event, todo : SUBSET Clients] /\ eventCounter \in Nat
  BY HubFacts DEF HubInv, HubTypeOK
<1>3. ASSUME NEW d \in Clients PROVE Slid(d) \/ Exempt(d)
  <2>1. CASE d \notin open
    <3>1. sub[d].state = "none" BY <2>1 DEF ClientInv, Local, Attached
    <3> QED BY <3>1, ExemptFacts
  <2>2. CASE d \in open
    <3>1. drain' = [drain EXCEPT !.pc = "evict", !.todo = open] BY <1>1, <2>2
    <3> HIDE DEF open
    <3>2. drain'.pc = "evict" /\ drain'.todo = open BY <1>2, <3>1
    <3>3. Frontier(d)' = 0 BY <2>2, <3>2 DEF Frontier
    <3> QED BY <3>3 DEF Slid
  <2> QED BY <2>1, <2>2
<1>4. eventCounter <= eventCounter' /\ toolIds \subseteq toolIds' BY <1>1, <1>2
<1> QED BY <1>1, <1>3, <1>4, HubTracked

(* A step that leaves the hub and the clients alone.                       *)
LEMMA IdleTracked ==
    ASSUME HubInv, HubInv', ClientTypeOK, \A d \in Clients : Track(d),
           UNCHANGED <<logVars, hubVars, toolIds, sub, proc, cursor, known, misled>>
    PROVE  \A d \in Clients : Track(d)'
<1>1. \A d \in Clients : Slid(d) BY HubStill
<1>2. eventCounter <= eventCounter' /\ toolIds \subseteq toolIds' BY HubFacts DEF logVars
<1> QED BY <1>1, <1>2, HubTracked

(* Clients without a subscription, that rely on nothing.                   *)
NobodySubscribed ==
    /\ eventCounter = 0
    /\ \A c \in Clients :
          sub[c] = NoSub /\ proc[c] = NoProcs /\ (c \notin misled => cursor[c] = 0)

AllTracked == \A c \in Clients : Track(c)

(* Clients without a subscription are tracked, ...                         *)
LEMMA FreshTracked == NobodySubscribed => AllTracked
<1> SUFFICES ASSUME NobodySubscribed, NEW c \in Clients PROVE Track(c) BY DEF AllTracked
<1>0. sub[c] = NoSub /\ proc[c] = NoProcs /\ eventCounter = 0 BY DEF NobodySubscribed
<1>1. NoSub.state = "none" /\ \A p \in Procs : NoProcs[p].pc = "idle"
  BY IdleTyped DEF NoProcs
<1> HIDE DEF NoSub, NoProcs
<1>2. Handled(sub[c], proc[c], Excused(c), Frontier(c)) BY <1>0, <1>1, NoneHandled
<1>3. ASSUME c \notin misled
      PROVE  Sound(sub[c], proc[c], cursor[c], known[c], Excused(c), Frontier(c))
  <2>1. cursor[c] = 0 /\ 0 <= eventCounter BY <1>0, <1>3 DEF NobodySubscribed
  <2>2. Holds(known[c], Excused(c), 0) BY DEF Holds
  <2> QED BY <1>0, <1>1, <2>1, <2>2 DEF Sound
<1> QED BY <1>2, <1>3 DEF Track, Tracked

(* ... hence all of them after a restart, ...                              *)
LEMMA RestartTracked == ClientTypeOK /\ Restart => AllTracked'
<1>1. ClientTypeOK /\ Restart => NobodySubscribed'
  <2> SUFFICES ASSUME ClientTypeOK, Restart PROVE NobodySubscribed' OBVIOUS
  <2>1. /\ eventCounter' = 0 /\ sub' = [c \in Clients |-> NoSub]
        /\ proc' = [c \in Clients |-> NoProcs] /\ cursor' = [c \in Clients |-> Position(c)]
        /\ misled' = misled \cup {c \in Clients : Position(c) > 0}
    BY DEF Restart, NoProcs
  <2>2. ASSUME NEW d \in Clients, d \notin misled' PROVE cursor'[d] = 0
    <3>1. cursor'[d] = Position(d) /\ Position(d) \in Nat BY <2>1, PositionTyped
    <3> QED BY <2>1, <2>2, <3>1
  <2> HIDE DEF NoSub, NoProcs
  <2>3. ASSUME NEW d \in Clients PROVE sub'[d] = NoSub /\ proc'[d] = NoProcs BY <2>1
  <2> QED BY <2>1, <2>2, <2>3 DEF NobodySubscribed, NoSub, NoProcs, IdleProc
<1> QED BY <1>1, FreshTracked, PTL

(* ... and at the start.                                                   *)
LEMMA InitTracked == Init => AllTracked
<1>1. Init => NobodySubscribed
  BY DEF Init, LogInit, NobodySubscribed, NoProcs
<1> QED BY <1>1, FreshTracked

-----------------------------------------------------------------------------

TrackInv == BaseInv /\ AllTracked

(* Every step of completeSubscribe keeps the tracking, ...                 *)
LEMMA CompleteTracked ==
    ASSUME HubInv, ClientTypeOK, \A d \in Clients : Track(d), \A d \in Clients : ClientInv(d),
           NEW c \in Clients, NEW p \in Procs, CompleteSubscribe(c, p)
    PROVE  \A d \in Clients : Track(d)'
BY CheckOwnerTracked, ParkTracked, RecheckTracked, UnparkTracked, PositionTracked,
   CollectReplayTracked, WriteReplayTracked, ResumeTracked DEF CompleteSubscribe

(* ... and so does every step of the system.                               *)
LEMMA TrackStepAll == TrackInv /\ [Next]_vars => AllTracked'
<1> SUFFICES ASSUME TrackInv, [Next]_vars PROVE AllTracked' OBVIOUS
<1> DEFINE Good == \A d \in Clients : Track(d)'
<1> SUFFICES Good BY DEF AllTracked
<1>1. /\ HubInv /\ ClientTypeOK /\ \A d \in Clients : ClientInv(d)
      /\ \A d \in Clients : Track(d)
  BY DEF TrackInv, BaseInv, AllTracked
<1>2. HubInv' BY <1>1, HubStep
<1>3. ASSUME UNCHANGED <<logVars, hubVars, toolIds, sub, proc, cursor, known, misled>> PROVE Good
  BY <1>1, <1>2, <1>3, IdleTracked
<1>4. CASE Restart BY <1>1, <1>4, RestartTracked DEF AllTracked
<1> HIDE DEF Good
<1>5. ASSUME NEW kind \in Payloads, PushEvent(kind) PROVE Good
  BY <1>1, <1>2, <1>5, PushTracked DEF Good
<1>6. CASE InitOperation BY <1>3, <1>6 DEF InitOperation, clientVars
<1>7. ASSUME NEW k \in 1..MaxInits, NotifyStep(k) PROVE Good
  <2>1. CASE NotifySnapshot(k) BY <1>3, <2>1 DEF NotifySnapshot, clientVars, boundVars
  <2>2. ASSUME NEW c \in Clients, NotifyVisit(k, c) PROVE Good
    BY <1>1, <2>2, NotifyVisitTracked DEF Good
  <2> QED BY <1>7, <2>1, <2>2 DEF NotifyStep
<1>8. CASE DrainStep
  <2>1. ASSUME NEW c \in Clients, DrainDeliver(c) PROVE Good
    BY <1>1, <1>2, <2>1, DeliverTracked DEF Good
  <2>2. ASSUME NEW c \in Clients, EvictVisit(c) PROVE Good
    BY <1>1, <1>2, <2>2, EvictTracked DEF Good
  <2>3. CASE DrainTake BY <1>1, <1>2, <2>3, TakeTracked DEF Good
  <2>4. CASE DrainTarget BY <1>1, <1>2, <2>4, TargetTracked DEF Good
  <2>5. CASE EvictSnapshot BY <1>1, <1>2, <2>5, SnapshotTracked DEF Good
  <2> QED BY <1>8, <2>1, <2>2, <2>3, <2>4, <2>5 DEF DrainStep
<1>9. ASSUME NEW c \in Clients, Connect(c) PROVE Good
  BY <1>3, <1>9 DEF Connect, clientVars, boundVars
<1>10. ASSUME NEW c \in Clients, Disconnect(c) PROVE Good
  BY <1>1, <1>10, ClosedTracked DEF Disconnect, boundVars, Good
<1>11. ASSUME NEW c \in Clients, Subscribe(c) PROVE Good
  BY <1>1, <1>11, SubscribeTracked DEF Good
<1>12. ASSUME NEW c \in Clients, Unsubscribe(c) PROVE Good
  BY <1>1, <1>12, UnsubscribeTracked DEF Good
<1>13. ASSUME NEW c \in Clients, NEW p \in Procs, CompleteSubscribe(c, p) PROVE Good
  BY <1>1, <1>13, CompleteTracked DEF Good
<1>14. CASE UNCHANGED vars
  BY <1>3, <1>14 DEF vars, connVars, clientVars, boundVars
<1> QED BY <1>4, <1>5, <1>6, <1>7, <1>8, <1>9, <1>10, <1>11, <1>12, <1>13, <1>14 DEF Next

(* The layers and the tracking are invariant.                              *)
LEMMA TrackInduction == Spec => []TrackInv
<1>1. Init => TrackInv BY BaseInit, InitTracked DEF TrackInv
<1>2. TrackInv /\ [Next]_vars => TrackInv' BY BaseStep, TrackStepAll DEF TrackInv
<1> QED BY <1>1, <1>2, PTL DEF Spec

(* A subscription that streams is live, and nothing is completing it.      *)
LEMMA StreamingSettled ==
    ASSUME NEW c \in Clients, Streaming(c)
    PROVE  sub[c].state = "live" /\ \A p \in Procs : proc[c][p].pc = "idle"
BY DEF Streaming, Completing

(* A client that streams holds every event up to its position that it      *)
(* needs, or was told of a gap: nothing is lost silently between the       *)
(* replay, the queue that grows meanwhile and the drain goroutine.         *)
THEOREM HubNoSilentLoss == Spec => []NoSilentLoss
<1>1. TrackInv => NoSilentLoss
  <2> SUFFICES ASSUME TrackInv, NEW c \in Clients \ misled, Streaming(c) PROVE Complete(c)
    BY DEF NoSilentLoss
  <2>1. sub[c].state = "live" /\ \A p \in Procs : proc[c][p].pc = "idle" BY StreamingSettled
  <2>2. ClientInv(c) /\ Track(c) /\ ClientTypeOK BY DEF TrackInv, BaseInv, AllTracked
  <2>3. c \notin Strangers BY <2>1, <2>2 DEF ClientInv, Local, Shut
  <2>4. Holds(known[c], Excused(c), sub[c].lastSeq)
    BY <2>1, <2>2, <2>3 DEF Track, Tracked, Sound, Told
  <2>5. sub[c].lastSeq \in Nat BY <2>2, ClientTyped DEF Subscription
  <2>6. ASSUME NEW id \in 1..eventCounter, id <= sub[c].lastSeq
        PROVE  id \in known[c] \cup Excused(c)
    <3>1. id \in 1..sub[c].lastSeq BY <2>5, <2>6
    <3> QED BY <2>4, <3>1 DEF Holds
  <2> QED BY <2>6 DEF Complete
<1> QED BY <1>1, TrackInduction, PTL

(* Where the ids above the frontier are.                                   *)
LEMMA BeyondFrontier ==
    ASSUME HubInv, NEW c \in Clients, NEW id \in 1..eventCounter, ~(id <= Frontier(c))
    PROVE  \/ \E i \in DOMAIN hubQueue : hubQueue[i].id = id
           \/ drain.pc = "target" /\ drain.event.id = id
           \/ drain.pc = "deliver" /\ drain.event.id = id /\ c \in drain.todo
           \/ hubOverflow \/ drain.pc = "overflow"
           \/ drain.pc = "evict" /\ c \in drain.todo
<1> SUFFICES ASSUME ~hubOverflow, drain.pc # "overflow", ~(drain.pc = "evict" /\ c \in drain.todo)
             PROVE  \/ \E i \in DOMAIN hubQueue : hubQueue[i].id = id
                    \/ drain.pc = "target" /\ drain.event.id = id
                    \/ drain.pc = "deliver" /\ drain.event.id = id /\ c \in drain.todo
  OBVIOUS
<1>1. /\ eventCounter \in Nat /\ Len(hubQueue) \in Nat /\ Drained \in Nat
      /\ hubQueue \in Seq(Event) /\ DOMAIN hubQueue = 1..Len(hubQueue)
  BY HubFacts, LenProperties DEF HubInv, HubTypeOK
<1>2. CASE ~(id <= Drained)
  <2>1. id - Drained \in 1..Len(hubQueue) BY <1>1, <1>2 DEF Drained
  <2>2. hubQueue[id - Drained].id = Drained + (id - Drained)
    BY <2>1 DEF HubInv, QueueIsTail
  <2>3. Drained + (id - Drained) = id BY <1>1
  <2> QED BY <1>1, <2>1, <2>2, <2>3
<1>3. CASE id <= Drained
  <2>1. drain.pc \in {"target", "deliver"} BY <1>3 DEF Frontier
  <2>2. drain.event.id = Drained BY <2>1, HubFacts
  <2>3. CASE drain.pc = "deliver" /\ c \notin drain.todo
    BY <1>3, <2>2, <2>3 DEF Frontier
  <2>4. CASE ~(drain.pc = "deliver" /\ c \notin drain.todo)
    <3>1. Frontier(c) = Drained - 1 BY <2>1, <2>2, <2>4 DEF Frontier
    <3>2. id = Drained BY <1>1, <1>3, <3>1
    <3> QED BY <2>1, <2>2, <2>4, <3>2
  <2> QED BY <2>3, <2>4
<1> QED BY <1>2, <1>3

(* An event a live subscription has not been given is in the hub queue, in *)
(* the hands of the drain goroutine, or covered by an eviction.            *)
THEOREM HubNothingForgotten == Spec => []NothingForgotten
<1>1. TrackInv => NothingForgotten
  <2> SUFFICES ASSUME TrackInv, NEW c \in Clients, sub[c].state = "live",
                      Streaming(c) \/ c \notin misled,
                      NEW id \in (sub[c].lastSeq + 1)..eventCounter, id \notin Excused(c)
               PROVE  \/ \E i \in DOMAIN hubQueue : hubQueue[i].id = id
                      \/ drain.pc = "target" /\ drain.event.id = id
                      \/ drain.pc = "deliver" /\ drain.event.id = id /\ c \in drain.todo
                      \/ hubOverflow \/ drain.pc = "overflow"
                      \/ drain.pc = "evict" /\ c \in drain.todo
    BY DEF NothingForgotten
  <2>1. ClientInv(c) /\ Track(c) /\ ClientTypeOK /\ HubInv BY DEF TrackInv, BaseInv, AllTracked
  <2>2. c \notin Strangers BY <2>1 DEF ClientInv, Local, Shut
  <2>3. sub[c].lastSeq \in Nat /\ eventCounter \in Nat /\ Frontier(c) \in Nat
    BY <2>1, ClientTyped, HubFacts, FrontierTyped DEF Subscription
  <2>4. Within(sub[c], Excused(c), Frontier(c))
    <3>1. CASE c \notin misled
      BY <2>1, <2>2, <3>1 DEF Track, Tracked, Sound
    <3>2. CASE Streaming(c)
      <4>1. \A p \in Procs : proc[c][p].pc = "idle" BY <3>2, StreamingSettled
      <4>2. ~Underway(sub[c], proc[c], Excused(c), Frontier(c))
        BY <4>1 DEF Underway, Restarting
      <4> QED BY <2>1, <4>2 DEF Track, Tracked, Handled
    <3> QED BY <3>1, <3>2
  <2>5. id \in 1..eventCounter /\ ~(id <= sub[c].lastSeq) BY <2>3
  <2>6. ASSUME id <= Frontier(c) PROVE FALSE
    <3>1. id \in 1..Frontier(c) BY <2>3, <2>5, <2>6
    <3> QED BY <2>4, <2>5, <3>1 DEF Within
  <2> QED BY <2>1, <2>5, <2>6, BeyondFrontier
<1> QED BY <1>1, TrackInduction, PTL

-----------------------------------------------------------------------------
(* What a client holds is below its cursor, or was written since.          *)

(* Whatever the client holds lies below its cursor or is among what was    *)
(* written since.                                                          *)
Accounted(g, u, k) == k \subseteq 1..u \cup Elements(g)

AccountInv == \A c \in Clients : Accounted(got[c], cursor[c], known[c])

(* The accounting, when only c changes.                                    *)
LEMMA AccountStep ==
    ASSUME ClientTypeOK, AccountInv, NEW c \in Clients,
           NEW o \in BOOLEAN, NEW s \in Subscription, NEW P \in [Procs -> Process],
           NEW g \in Seq(Nat), NEW u \in Nat, NEW k \in SUBSET Nat,
           Becomes(c, o, s, P, g, u, k), gaps' \in [Clients -> Nat], Accounted(g, u, k)
    PROVE  AccountInv'
<1>1. /\ got'[c] = g /\ cursor'[c] = u /\ known'[c] = k
      /\ \A d \in Clients \ {c} :
            got'[d] = got[d] /\ cursor'[d] = cursor[d] /\ known'[d] = known[d]
  BY BecomesFacts
<1>2. ASSUME NEW d \in Clients PROVE Accounted(got'[d], cursor'[d], known'[d])
  <2>1. CASE d = c BY <1>1, <2>1
  <2>2. CASE d # c BY <1>1, <2>2 DEF AccountInv
  <2> QED BY <2>1, <2>2
<1> QED BY <1>2 DEF AccountInv, Accounted, Elements

(* What was written since the cursor, in order and above it.               *)
LEMMA WrittenFacts ==
    ASSUME ClientTypeOK, NEW c \in Clients, ClientInv(c)
    PROVE  /\ Elements(got[c]) \subseteq Nat
           /\ \A id \in Elements(got[c]) : id > cursor[c] /\ id <= Furthest(c)
           /\ cursor[c] <= Furthest(c)
           /\ got[c] # << >> => cursor[c] < Furthest(c)
           /\ sub[c].state # "none" => sub[c].lastSeq = Furthest(c)
           /\ \A n \in 0..Len(got[c]) : \A i \in 1..Len(got[c]) :
                 IF i <= n THEN got[c][i] <= Back(c, n) ELSE got[c][i] > Back(c, n)
           /\ \A n \in 0..Len(got[c]) : cursor[c] <= Back(c, n) /\ Back(c, n) <= Furthest(c)
<1> DEFINE g == got[c]
           l == Len(g)
           u == cursor[c]
<1>1. /\ g \in Seq(Nat) /\ l \in Nat /\ DOMAIN g = 1..l /\ u \in Nat
      /\ \A i \in 1..l : g[i] \in Nat
      /\ g = << >> <=> l = 0
  BY ClientTyped, LenProperties, ElementOfSeq, EmptySeq
<1>2. /\ \A i, j \in 1..l : i < j => g[i] < g[j]
      /\ l > 0 => g[1] > u
      /\ sub[c].state # "none" => sub[c].lastSeq = Furthest(c)
  BY <1>1 DEF ClientInv, Local, Ordered, Increasing, Furthest
<1>3. /\ Elements(g) = {g[i] : i \in 1..l} /\ Furthest(c) = IF l = 0 THEN u ELSE g[l]
      /\ \A n \in 0..l : Back(c, n) = IF n = 0 THEN u ELSE g[n]
  BY <1>1 DEF Elements, Furthest, Last, Back
<1> HIDE DEF g, l, u
<1>4. ASSUME NEW i \in 1..l PROVE g[i] > u /\ g[i] <= g[l] /\ l > 0 /\ l \in 1..l
  <2>1. l > 0 /\ 1 \in 1..l /\ l \in 1..l BY <1>1
  <2>2. (i = 1 \/ 1 < i) /\ (i = l \/ i < l) BY <1>1
  <2>3. g[1] \in Nat /\ g[i] \in Nat /\ g[l] \in Nat BY <1>1, <2>1
  <2>4. g[i] > u
    <3>1. g[1] > u BY <1>2, <2>1
    <3>2. g[1] = g[i] \/ g[1] < g[i] BY <1>2, <2>1, <2>2
    <3> QED BY <1>1, <2>3, <3>1, <3>2
  <2>5. g[i] <= g[l] BY <1>2, <2>1, <2>2, <2>3
  <2> QED BY <2>1, <2>4, <2>5
<1>5. Elements(g) \subseteq Nat /\ \A id \in Elements(g) : id > u /\ id <= Furthest(c)
  BY <1>1, <1>3, <1>4
<1>6. u <= Furthest(c) /\ (g # << >> => u < Furthest(c))
  <2>1. CASE l = 0 BY <1>1, <1>3, <2>1
  <2>2. CASE l # 0
    <3>1. l \in 1..l BY <1>1, <2>2
    <3> QED BY <1>1, <1>3, <1>4, <2>2, <3>1
  <2> QED BY <2>1, <2>2
<1>7. ASSUME NEW n \in 0..l, NEW i \in 1..l
      PROVE  IF i <= n THEN g[i] <= Back(c, n) ELSE g[i] > Back(c, n)
  <2>1. CASE n = 0 BY <1>1, <1>3, <1>4, <2>1
  <2>2. CASE n # 0
    <3>1. n \in 1..l /\ Back(c, n) = g[n] BY <1>1, <1>3, <2>2
    <3>2. i < n \/ i = n \/ n < i BY <1>1
    <3>3. g[i] \in Nat /\ g[n] \in Nat BY <1>1, <3>1
    <3> QED BY <1>1, <1>2, <3>1, <3>2, <3>3
  <2> QED BY <2>1, <2>2
<1>8. ASSUME NEW n \in 0..l PROVE u <= Back(c, n) /\ Back(c, n) <= Furthest(c)
  <2>1. CASE n = 0 BY <1>1, <1>3, <1>6, <2>1
  <2>2. CASE n # 0
    <3>1. n \in 1..l /\ Back(c, n) = g[n] /\ g[n] \in Nat BY <1>1, <1>3, <2>2
    <3>2. l # 0 BY <1>1, <3>1
    <3> QED BY <1>1, <1>3, <1>4, <3>1, <3>2
  <2> QED BY <2>1, <2>2
<1> QED BY <1>2, <1>5, <1>6, <1>7, <1>8 DEF g, l, u

(* Where the client falls back to, it keeps what it held up to there, and  *)
(* nothing else.                                                           *)
LEMMA KeptFacts ==
    ASSUME ClientTypeOK, NEW c \in Clients, ClientInv(c), AccountInv, NEW n \in Retained(c)
    PROVE  Kept(c, n) = known[c] \cap 1..Back(c, n)
<1> DEFINE g == got[c]
           l == Len(g)
           b == Back(c, n)
<1>1. n \in 0..l /\ l \in Nat /\ b \in Nat /\ cursor[c] \in Nat
  BY BackTyped, ClientTyped, LenProperties
<1>2. /\ \A i \in 1..l : IF i <= n THEN g[i] <= b ELSE g[i] > b
      /\ cursor[c] <= b /\ \A i \in 1..l : g[i] \in Nat
  BY <1>1, WrittenFacts, ClientTyped, ElementOfSeq
<1>3. known[c] \subseteq 1..cursor[c] \cup {g[i] : i \in 1..l} /\ known[c] \subseteq Nat
  <2>1. DOMAIN g = 1..l BY ClientTyped, LenProperties
  <2> QED BY <2>1, ClientTyped DEF AccountInv, Accounted, Elements
<1>4. Kept(c, n) = known[c] \ {g[i] : i \in (n + 1)..l} BY DEF Kept
<1>5. \A i \in 1..l : g[i] # 0
  <2>1. Elements(got[c]) \subseteq Nat /\ \A id \in Elements(got[c]) : id > cursor[c]
    BY WrittenFacts
  <2>2. DOMAIN g = 1..l BY ClientTyped, LenProperties
  <2>3. \A i \in 1..l : g[i] \in Elements(got[c]) BY <2>2 DEF Elements
  <2> QED BY <1>1, <2>1, <2>3
<1> HIDE DEF g, l, b
<1>6. ASSUME NEW id \in known[c], id \notin {g[i] : i \in (n + 1)..l} PROVE id \in 1..b
  <2>1. CASE id \in 1..cursor[c] BY <1>1, <1>2, <2>1
  <2>2. CASE \E i \in 1..l : id = g[i]
    <3>1. PICK i \in 1..l : id = g[i] BY <2>2
    <3>2. i <= n BY <1>1, <1>6, <3>1
    <3> QED BY <1>1, <1>2, <1>5, <3>1, <3>2
  <2> QED BY <1>3, <2>1, <2>2
<1>7. ASSUME NEW id \in 1..b PROVE id \notin {g[i] : i \in (n + 1)..l}
  <2> SUFFICES ASSUME NEW i \in (n + 1)..l, id = g[i] PROVE FALSE OBVIOUS
  <2>1. i \in 1..l /\ ~(i <= n) BY <1>1
  <2> QED BY <1>1, <1>2, <2>1
<1> QED BY <1>4, <1>6, <1>7 DEF b

(* What is kept by a client that falls back lies below its new cursor.     *)
LEMMA AccountDrops ==
    ASSUME ClientTypeOK, NEW c \in Clients, ClientInv(c), AccountInv, NEW n \in Retained(c)
    PROVE  Accounted(<< >>, Back(c, n), Kept(c, n))
BY KeptFacts DEF Accounted

(* Ids written to c are accounted for.                                     *)
LEMMA AccountWrites ==
    ASSUME HubInv, ClientTypeOK, NEW c \in Clients, ClientInv(c), AccountInv,
           NEW replay \in SUBSET (1..eventCounter), NEW queued \in SUBSET (1..eventCounter),
           NEW rest, NEW P \in [Procs -> Process], sub[c].state # "none",
           rest \in Subscription, rest.lastSeq = sub[c].lastSeq,
           Writes(c, replay, queued, rest, P), gaps' \in [Clients -> Nat]
    PROVE  AccountInv'
<1> DEFINE ids == Fresh(sub[c].lastSeq, replay, queued)
           top == Max({sub[c].lastSeq} \cup ids)
           h == got[c] \o Ascending(ids)
           t == [rest EXCEPT !.lastSeq = top]
<1>1. Becomes(c, connected[c], t, P, h, cursor[c], known[c] \cup ids) BY DEF Writes
<1>2. eventCounter \in Nat BY HubFacts
<1>3. ids \subseteq Nat /\ top \in Nat /\ h \in Seq(Nat) /\ Elements(h) = Elements(got[c]) \cup ids
  BY <1>2, WriteFacts
<1> HIDE DEF ids, top, h
<1>4. t \in Subscription BY <1>3 DEF Subscription
<1>5. connected[c] \in BOOLEAN /\ cursor[c] \in Nat /\ known[c] \cup ids \in SUBSET Nat
  BY <1>3, ClientTyped
<1>6. Accounted(h, cursor[c], known[c] \cup ids) BY <1>3 DEF AccountInv, Accounted
<1> HIDE DEF t
<1> QED BY <1>1, <1>3, <1>4, <1>5, <1>6, AccountStep

(* The accounting where no client changes.                                 *)
LEMMA AccountSame == AccountInv /\ UNCHANGED clientVars => AccountInv'
BY DEF AccountInv, Accounted, Elements, clientVars

(* The accounting is kept by the delivery of an event, ...                 *)
LEMMA AccountDeliver ==
    ASSUME HubInv, ClientTypeOK, AccountInv, NEW c \in Clients, ClientInv(c), DrainDeliver(c)
    PROVE  AccountInv'
<1> DEFINE id == drain.event.id
<1>1. DeliverEffect(c) /\ gaps' \in [Clients -> Nat] BY DeliverBecomes
<1>2. id \in 1..Drained /\ Drained \in Nat /\ eventCounter \in Nat /\ Drained <= eventCounter
  BY HubFacts DEF DrainDeliver
<1>3. {id} \in SUBSET (1..eventCounter) /\ {} \in SUBSET (1..eventCounter)
  <2> HIDE DEF id
  <2> QED BY <1>2
<1>4. sub[c] \in Subscription /\ proc[c] \in [Procs -> Process] BY ClientTyped
<1>5. CASE sub[c].state = "live"
  <2>1. Writes(c, {}, {id}, sub[c], proc[c]) /\ sub[c].state # "none"
    BY <1>1, <1>5 DEF DeliverEffect
  <2> QED BY <1>1, <1>3, <1>4, <2>1, AccountWrites
<1>6. CASE sub[c].state # "live"
  <2>1. got' = got /\ cursor' = cursor /\ known' = known
    <3>1. UNCHANGED <<got, known, cursor>> BY <1>6 DEF DrainDeliver
    <3> QED BY <3>1
  <2> QED BY <2>1 DEF AccountInv, Accounted, Elements
<1> QED BY <1>5, <1>6

(* ... the writes of a replay, ...                                         *)
LEMMA AccountWriteReplay ==
    ASSUME HubInv, ClientTypeOK, AccountInv, NEW c \in Clients, ClientInv(c), NEW p \in Procs,
           WriteReplay(c, p)
    PROVE  AccountInv'
<1>1. WriteReplayEffect(c, p) /\ gaps' \in [Clients -> Nat] BY WriteReplayWrites
<1>2. CASE sub[c].state = "none"
  <2>1. UNCHANGED <<got, cursor, known>> BY <1>2 DEF WriteReplay
  <2> QED BY <2>1 DEF AccountInv, Accounted, Elements
<1>3. CASE sub[c].state # "none"
  <2> DEFINE done == [IdleProc EXCEPT !.pc = "complete", !.gap = proc[c][p].gap]
             rest == [sub[c] EXCEPT !.queue = {}, !.state = "live"]
             P == With(c, p, done)
  <2>1. Writes(c, proc[c][p].replay, sub[c].queue, rest, P)
    BY <1>1, <1>3 DEF WriteReplayEffect
  <2>2. sub[c] \in Subscription /\ proc[c][p] \in Process BY ClientTyped
  <2>3. rest \in Subscription /\ rest.lastSeq = sub[c].lastSeq
    BY <2>2 DEF Subscription, SubStates
  <2>4. done \in Process BY <2>2 DEF Process, Labels, IdleProc
  <2> HIDE DEF done, rest
  <2>5. P \in [Procs -> Process] BY <2>4, WithFacts
  <2>6. /\ proc[c][p].replay \in SUBSET (1..eventCounter) /\ sub[c].queue \in SUBSET (1..eventCounter)
    BY DEF ClientInv, Local, InRange
  <2> HIDE DEF P
  <2> QED BY <1>1, <1>3, <2>1, <2>3, <2>5, <2>6, AccountWrites
<1> QED BY <1>2, <1>3

(* ... resume_complete, ...                                                *)
LEMMA AccountResume ==
    ASSUME ClientTypeOK, AccountInv, NEW c \in Clients, ClientInv(c), NEW p \in Procs,
           ResumeComplete(c, p)
    PROVE  AccountInv'
<1> DEFINE P == With(c, p, IdleProc)
           k == IF proc[c][p].gap THEN known[c] \cup 1..Furthest(c) ELSE known[c]
<1>1. Becomes(c, connected[c], sub[c], P, << >>, Furthest(c), k) /\ gaps' \in [Clients -> Nat]
  BY ResumeBecomes DEF ResumeEffect
<1>2. P \in [Procs -> Process] BY IdleTyped, WithFacts
<1>3. Furthest(c) \in Nat /\ k \in SUBSET Nat BY LastTyped, ClientTyped
<1>4. connected[c] \in BOOLEAN /\ sub[c] \in Subscription BY ClientTyped
<1>5. known[c] \subseteq 1..Furthest(c)
  <2>1. known[c] \subseteq 1..cursor[c] \cup Elements(got[c]) BY DEF AccountInv, Accounted
  <2>2. /\ cursor[c] <= Furthest(c) /\ cursor[c] \in Nat /\ Elements(got[c]) \subseteq Nat
        /\ \A id \in Elements(got[c]) : id > cursor[c] /\ id <= Furthest(c)
    BY WrittenFacts, ClientTyped
  <2> QED BY <1>3, <2>1, <2>2
<1>6. Accounted(<< >>, Furthest(c), k) BY <1>5 DEF Accounted
<1> HIDE DEF P, k
<1> QED BY <1>1, <1>2, <1>3, <1>4, <1>6, NothingWritten, AccountStep

(* ... the end of a connection, ...                                        *)
LEMMA AccountClosed ==
    ASSUME ClientTypeOK, AccountInv, NEW c \in Clients, ClientInv(c), Closed(c)
    PROVE  AccountInv'
<1>1. PICK n \in Retained(c) : Becomes(c, FALSE, NoSub, NoProcs, << >>, Back(c, n), Kept(c, n))
  BY ClosedBecomes
<1>2. gaps' \in [Clients -> Nat] BY ClosedBecomes
<1>3. Back(c, n) \in Nat /\ Kept(c, n) \in SUBSET Nat BY BackTyped
<1>4. NoSub \in Subscription /\ NoProcs \in [Procs -> Process] BY IdleTyped DEF NoProcs
<1>5. FALSE \in BOOLEAN OBVIOUS
<1> QED BY <1>1, <1>2, <1>3, <1>4, <1>5, AccountDrops, NothingWritten, AccountStep

(* ... a fresh subscription, ...                                           *)
LEMMA AccountSubscribe ==
    ASSUME ClientTypeOK, AccountInv, NEW c \in Clients, ClientInv(c), Subscribe(c)
    PROVE  AccountInv'
<1> DEFINE P == With(c, 0, Goes(c, 0, "start"))
<1>1. PICK n \in Retained(c) :
        Becomes(c, connected[c], [state |-> "replaying", lastSeq |-> Back(c, n), queue |-> {}],
                P, << >>, Back(c, n), Kept(c, n))
  BY SubscribeBecomes
<1> DEFINE s == [state |-> "replaying", lastSeq |-> Back(c, n), queue |-> {}]
<1>2. gaps' \in [Clients -> Nat] BY SubscribeBecomes
<1>3. Back(c, n) \in Nat /\ Kept(c, n) \in SUBSET Nat BY BackTyped
<1>4. s \in Subscription BY <1>3 DEF Subscription, SubStates
<1>5. Goes(c, 0, "start") \in Process
  <2>1. "start" \in Labels /\ 0 \in Procs BY IdleTyped DEF Labels
  <2> QED BY <2>1, GoesTyped
<1>6. P \in [Procs -> Process] BY <1>5, IdleTyped, WithFacts
<1>7. connected[c] \in BOOLEAN BY ClientTyped
<1> HIDE DEF P
<1> QED BY <1>1, <1>2, <1>3, <1>4, <1>6, <1>7, AccountDrops, NothingWritten, AccountStep

(* ... the end of one, ...                                                 *)
LEMMA AccountUnsubscribe ==
    ASSUME ClientTypeOK, AccountInv, NEW c \in Clients, ClientInv(c), Unsubscribe(c)
    PROVE  AccountInv'
<1>1. PICK n \in Retained(c) : Becomes(c, connected[c], NoSub, proc[c], << >>, Back(c, n), Kept(c, n))
  BY UnsubscribeBecomes
<1>2. gaps' \in [Clients -> Nat] BY UnsubscribeBecomes
<1>3. Back(c, n) \in Nat /\ Kept(c, n) \in SUBSET Nat BY BackTyped
<1>4. NoSub \in Subscription /\ proc[c] \in [Procs -> Process] /\ connected[c] \in BOOLEAN
  BY IdleTyped, ClientTyped
<1> QED BY <1>1, <1>2, <1>3, <1>4, AccountDrops, NothingWritten, AccountStep

(* ... and every other step.                                               *)
LEMMA AccountStepAll == BaseInv /\ AccountInv /\ [Next]_vars => AccountInv'
<1> SUFFICES ASSUME BaseInv, AccountInv, [Next]_vars PROVE AccountInv' OBVIOUS
<1>1. HubInv /\ ClientTypeOK /\ \A d \in Clients : ClientInv(d) BY DEF BaseInv
<1>2. CASE UNCHANGED clientVars BY <1>2, AccountSame
<1>3. ASSUME NEW c \in Clients, DrainDeliver(c) PROVE AccountInv' BY <1>1, <1>3, AccountDeliver
<1>4. ASSUME NEW c \in Clients, EvictVisit(c) \/ Disconnect(c) PROVE AccountInv'
  <2>1. CASE Closed(c) BY <1>1, <2>1, AccountClosed
  <2>2. CASE ~Closed(c) BY <1>2, <1>4, <2>2 DEF EvictVisit, Disconnect
  <2> QED BY <2>1, <2>2
<1>5. ASSUME NEW c \in Clients, Subscribe(c) PROVE AccountInv' BY <1>1, <1>5, AccountSubscribe
<1>6. ASSUME NEW c \in Clients, Unsubscribe(c) PROVE AccountInv'
  BY <1>1, <1>6, AccountUnsubscribe
<1>7. ASSUME NEW c \in Clients, NEW p \in Procs, CompleteSubscribe(c, p) PROVE AccountInv'
  <2>1. CASE WriteReplay(c, p) BY <1>1, <2>1, AccountWriteReplay
  <2>2. CASE ResumeComplete(c, p) BY <1>1, <2>2, AccountResume
  <2>3. CASE ~WriteReplay(c, p) /\ ~ResumeComplete(c, p)
    <3>1. UNCHANGED clientVars
      BY <1>7, <2>3 DEF CompleteSubscribe, CheckOwner, Park, RecheckOwner, Unpark, ReadPosition,
                        CollectReplay
    <3> QED BY <1>2, <3>1
  <2> QED BY <2>1, <2>2, <2>3
<1>8. CASE Restart
  <2>1. \A d \in Clients : known'[d] = {} BY <1>8 DEF Restart
  <2> QED BY <2>1 DEF AccountInv, Accounted, Elements
<1>9. CASE DrainTake \/ DrainTarget \/ EvictSnapshot
  BY <1>2, <1>9 DEF DrainTake, DrainTarget, EvictSnapshot
<1>10. ASSUME NEW k \in 1..MaxInits, NotifyStep(k) PROVE AccountInv'
  BY <1>2, <1>10 DEF NotifyStep, NotifySnapshot, NotifyVisit
<1>11. CASE InitOperation \/ (\E kind \in Payloads : PushEvent(kind)) \/ \E c \in Clients : Connect(c)
  BY <1>2, <1>11 DEF InitOperation, PushEvent, Connect
<1>12. CASE UNCHANGED vars BY <1>2, <1>12 DEF vars
<1> QED BY <1>3, <1>4, <1>5, <1>6, <1>7, <1>8, <1>9, <1>10, <1>11, <1>12 DEF Next, DrainStep

(* At the start nothing is held.                                           *)
LEMMA AccountInit == Init => AccountInv
BY DEF Init, AccountInv, Accounted

-----------------------------------------------------------------------------
(* The hub implements the feed.                                            *)

(* What the promised feed says c holds.                                    *)
Held(c) == known[c] \cap 1..Position(c)

(* The feed stutters when no position and nothing held changes.            *)
LEMMA FeedStutters ==
    ASSUME UNCHANGED <<eventCounter, toolIds, gaps>>,
           \A d \in Clients : Position(d)' = Position(d) /\ Held(d)' = Held(d)
    PROVE  UNCHANGED Feed!feedVars
<1>1. [c \in Clients |-> Position(c)]' = [c \in Clients |-> Position(c)] OBVIOUS
<1>2. [c \in Clients |-> known[c] \cap 1..Position(c)]' = [c \in Clients |-> known[c] \cap 1..Position(c)]
  BY DEF Held
<1> QED BY <1>1, <1>2 DEF Feed!feedVars

(* Only c moves.                                                           *)
LEMMA FeedMoves ==
    ASSUME NEW c \in Clients, NEW p, NEW H, Position(c)' = p, Held(c)' = H,
           \A d \in Clients \ {c} : Position(d)' = Position(d) /\ Held(d)' = Held(d)
    PROVE  /\ [d \in Clients |-> Position(d)]' = [[d \in Clients |-> Position(d)] EXCEPT ![c] = p]
           /\ [d \in Clients |-> known[d] \cap 1..Position(d)]'
                = [[d \in Clients |-> known[d] \cap 1..Position(d)] EXCEPT ![c] = H]
<1>1. [d \in Clients |-> Position(d)]' = [[d \in Clients |-> Position(d)] EXCEPT ![c] = p]
  OBVIOUS
<1>2. [d \in Clients |-> Held(d)]' = [[d \in Clients |-> Held(d)] EXCEPT ![c] = H]
  OBVIOUS
<1> QED BY <1>1, <1>2 DEF Held

(* c moves forward over events it holds or does not need, ...              *)
LEMMA FeedReceives ==
    ASSUME NEW c \in Clients, NEW p \in 0..eventCounter, NEW ids \in SUBSET ((Position(c) + 1)..p),
           UNCHANGED <<eventCounter, toolIds, gaps>>,
           Position(c)' = p, p > Position(c), Held(c)' = Held(c) \cup ids,
           \A id \in (Position(c) + 1)..p : id \in ids \/ id \in Excused(c),
           \A d \in Clients \ {c} : Position(d)' = Position(d) /\ Held(d)' = Held(d)
    PROVE  Feed!Next
<1> DEFINE H == Held(c) \cup ids
<1>1. /\ [d \in Clients |-> Position(d)]' = [[d \in Clients |-> Position(d)] EXCEPT ![c] = p]
      /\ [d \in Clients |-> known[d] \cap 1..Position(d)]'
           = [[d \in Clients |-> known[d] \cap 1..Position(d)] EXCEPT ![c] = H]
  BY FeedMoves
<1>2. Feed!Needed(c, (Position(c) + 1)..p) \subseteq ids BY DEF Feed!Needed, Excused
<1>3. /\ [d \in Clients |-> Position(d)][c] = Position(c)
      /\ [d \in Clients |-> known[d] \cap 1..Position(d)][c] = Held(c)
  BY DEF Held
<1>4. Feed!Receive(c, p, ids) BY <1>1, <1>2, <1>3 DEF Feed!Receive
<1> QED BY <1>3, <1>4 DEF Feed!Next

(* ... is told that it missed some, ...                                    *)
LEMMA FeedNotices ==
    ASSUME NEW c \in Clients, NEW p \in 0..eventCounter,
           UNCHANGED <<eventCounter, toolIds>>, gaps' = [gaps EXCEPT ![c] = @ + 1],
           Position(c)' = p, p >= Position(c), Held(c)' = 1..p,
           \A d \in Clients \ {c} : Position(d)' = Position(d) /\ Held(d)' = Held(d)
    PROVE  Feed!Next
<1>1. /\ [d \in Clients |-> Position(d)]' = [[d \in Clients |-> Position(d)] EXCEPT ![c] = p]
      /\ [d \in Clients |-> known[d] \cap 1..Position(d)]'
           = [[d \in Clients |-> known[d] \cap 1..Position(d)] EXCEPT ![c] = 1..p]
  BY FeedMoves
<1>2. [d \in Clients |-> Position(d)][c] = Position(c) OBVIOUS
<1>3. Feed!Notice(c, p) BY <1>1, <1>2 DEF Feed!Notice
<1> QED BY <1>3 DEF Feed!Next

(* ... or falls back.                                                      *)
LEMMA FeedFallsBack ==
    ASSUME NEW c \in Clients, NEW p \in 0..eventCounter, UNCHANGED <<eventCounter, toolIds, gaps>>,
           Position(c)' = p, p < Position(c), NEW H, H = Held(c) \cap 1..p, Held(c)' = H,
           \A d \in Clients \ {c} : Position(d)' = Position(d) /\ Held(d)' = Held(d)
    PROVE  Feed!Next
<1>1. /\ [d \in Clients |-> Position(d)]' = [[d \in Clients |-> Position(d)] EXCEPT ![c] = p]
      /\ [d \in Clients |-> known[d] \cap 1..Position(d)]'
           = [[d \in Clients |-> known[d] \cap 1..Position(d)] EXCEPT ![c] = H]
  BY FeedMoves
<1>2. /\ [d \in Clients |-> Position(d)][c] = Position(c)
      /\ [d \in Clients |-> known[d] \cap 1..Position(d)][c] = Held(c)
  BY DEF Held
<1>3. Feed!FallBack(c, p) BY <1>1, <1>2 DEF Feed!FallBack
<1> QED BY <1>3 DEF Feed!Next

-----------------------------------------------------------------------------

(* A client whose values do not change keeps its position.                 *)
LEMMA SamePosition ==
    ASSUME NEW d \in Clients, sub'[d] = sub[d], proc'[d] = proc[d], got'[d] = got[d],
           cursor'[d] = cursor[d], known'[d] = known[d]
    PROVE  Position(d)' = Position(d) /\ Held(d)' = Held(d)
<1>1. Position(d)' = Position(d) BY DEF Position, Streaming, Completing
<1> QED BY <1>1 DEF Held

(* What becomes of c, and that the others stay where they are.             *)
LEMMA BecomesValues ==
    ASSUME ClientTypeOK, NEW c \in Clients,
           NEW o, NEW s, NEW P, NEW g, NEW u, NEW k, Becomes(c, o, s, P, g, u, k)
    PROVE  /\ sub'[c] = s /\ proc'[c] = P /\ got'[c] = g /\ cursor'[c] = u /\ known'[c] = k
           /\ \A d \in Clients \ {c} : Position(d)' = Position(d) /\ Held(d)' = Held(d)
<1>1. /\ sub'[c] = s /\ proc'[c] = P /\ got'[c] = g /\ cursor'[c] = u /\ known'[c] = k
      /\ \A d \in Clients \ {c} :
            /\ sub'[d] = sub[d] /\ proc'[d] = proc[d] /\ got'[d] = got[d]
            /\ cursor'[d] = cursor[d] /\ known'[d] = known[d]
  BY DEF ClientTypeOK, Becomes
<1> QED BY <1>1, SamePosition

(* A step of c that writes nothing, and through which it does not stream.  *)
LEMMA QuietStep ==
    ASSUME ClientTypeOK, NEW c \in Clients, NEW s, NEW P, Moves(c, s, P),
           ~Streaming(c), s.state # "live" \/ \E p \in Procs : P[p].pc # "idle",
           UNCHANGED <<eventCounter, toolIds, gaps>>
    PROVE  UNCHANGED Feed!feedVars
<1>1. /\ sub'[c] = s /\ proc'[c] = P /\ got'[c] = got[c] /\ cursor'[c] = cursor[c]
      /\ known'[c] = known[c]
      /\ \A d \in Clients \ {c} : Position(d)' = Position(d) /\ Held(d)' = Held(d)
  BY BecomesValues DEF Moves
<1>2. ~Streaming(c)' BY <1>1 DEF Streaming, Completing
<1>3. Position(c)' = Position(c) BY <1>1, <1>2 DEF Position
<1>4. Held(c)' = Held(c) BY <1>1, <1>3 DEF Held
<1> QED BY <1>1, <1>3, <1>4, FeedStutters

(* The steps of a process that write nothing.                              *)
LEMMA FeedProcess ==
    ASSUME ClientTypeOK, NEW c \in Clients, ClientInv(c), NEW p \in Procs,
           CheckOwner(c, p) \/ Park(c, p) \/ RecheckOwner(c, p) \/ Unpark(c, p)
              \/ ReadPosition(c, p) \/ CollectReplay(c, p)
    PROVE  UNCHANGED Feed!feedVars
<1>1. /\ UNCHANGED <<eventCounter, toolIds, gaps>>
      /\ proc[c][p].pc # "idle"
  BY DEF CheckOwner, Park, RecheckOwner, Unpark, ReadPosition, CollectReplay, ProcUnchanged,
         logVars, clientVars, At
<1>2. ~Streaming(c) BY <1>1 DEF Streaming, Completing
<1>3. ASSUME NEW s, NEW r \in Process, r.pc # "idle", Moves(c, s, With(c, p, r))
      PROVE  UNCHANGED Feed!feedVars
  <2>1. With(c, p, r)[p].pc # "idle" BY <1>3, WithFacts
  <2>2. \E q \in Procs : With(c, p, r)[q].pc # "idle" BY <2>1
  <2> HIDE DEF With
  <2> QED BY <1>1, <1>2, <1>3, <2>2, QuietStep
<1>4. ASSUME NEW s, s.state # "live", NEW P, Moves(c, s, P) PROVE UNCHANGED Feed!feedVars
  BY <1>1, <1>2, <1>4, QuietStep
<1>5. CASE CheckOwner(c, p)
  <2>1. CheckOwnerEffect(c, p) BY <1>5, CheckOwnerMoves
  <2>2. "park" \in Labels /\ "position" \in Labels BY DEF Labels
  <2>3. /\ Goes(c, p, "park") \in Process /\ Goes(c, p, "park").pc # "idle"
        /\ Goes(c, p, "position") \in Process /\ Goes(c, p, "position").pc # "idle"
    BY <2>2, GoesTyped
  <2> HIDE DEF Goes
  <2>4. NoSub.state # "live" BY IdleTyped
  <2> HIDE DEF NoSub
  <2> QED BY <1>3, <1>4, <2>1, <2>3, <2>4 DEF CheckOwnerEffect
<1>6. CASE Park(c, p)
  <2>1. ParkEffect(c, p) BY <1>6, ParkMoves
  <2>2. "recheck" \in Labels BY DEF Labels
  <2>3. Goes(c, p, "recheck") \in Process /\ Goes(c, p, "recheck").pc # "idle"
    BY <2>2, GoesTyped
  <2> QED BY <1>3, <2>1, <2>3 DEF ParkEffect
<1>7. CASE RecheckOwner(c, p)
  <2>1. RecheckEffect(c, p) BY <1>7, RecheckMoves
  <2>2. "unpark" \in Labels BY DEF Labels
  <2>3. Goes(c, p, "unpark") \in Process /\ Goes(c, p, "unpark").pc # "idle"
    BY <2>2, GoesTyped
  <2>4. ~ownerKnown => sub[c].state # "live" BY DEF ClientInv, Local, Unowned
  <2> QED BY <1>3, <1>4, <2>1, <2>3, <2>4 DEF RecheckEffect
<1>8. CASE Unpark(c, p)
  <2>1. UnparkEffect(c, p) BY <1>8, UnparkMoves
  <2>2. "start" \in Labels BY DEF Labels
  <2>3. Goes(c, p, "start") \in Process /\ Goes(c, p, "start").pc # "idle"
    BY <2>2, GoesTyped
  <2> QED BY <1>3, <2>1, <2>3 DEF UnparkEffect
<1>9. CASE ReadPosition(c, p)
  <2>1. PositionEffect(c, p) BY <1>9, PositionMoves
  <2> DEFINE r == [proc[c][p] EXCEPT !.pc = "collect", !.since = sub[c].lastSeq]
  <2>2. "collect" \in Labels BY DEF Labels
  <2>3. proc[c][p] \in Process /\ sub[c].lastSeq \in Nat BY ClientTyped DEF Subscription
  <2>4. r \in Process /\ r.pc # "idle" BY <2>2, <2>3 DEF Process
  <2>5. sub[c].state = "none" => sub[c].state # "live" OBVIOUS
  <2>6. \/ sub[c].state = "none" /\ Moves(c, sub[c], With(c, p, IdleProc))
        \/ Moves(c, sub[c], With(c, p, r))
    BY <2>1 DEF PositionEffect
  <2> HIDE DEF r
  <2> QED BY <1>3, <1>4, <2>4, <2>5, <2>6
<1>10. CASE CollectReplay(c, p)
  <2>1. Moves(c, sub[c], With(c, p, Collected(c, p))) BY <1>10, CollectMoves
  <2>2. /\ Collected(c, p).pc # "idle"
        /\ \E q \in Procs : With(c, p, Collected(c, p))[q].pc # "idle"
    <3>1. Collected(c, p).pc = "replay" BY DEF Collected
    <3>2. With(c, p, Collected(c, p))[p] = Collected(c, p)
      BY ClientTyped DEF With
    <3> QED BY <3>1, <3>2
  <2> HIDE DEF With, Collected
  <2> QED BY <1>1, <1>2, <2>1, <2>2, QuietStep
<1> QED BY <1>5, <1>6, <1>7, <1>8, <1>9, <1>10

(* A notification moves nobody.                                            *)
LEMMA FeedNotifyVisit ==
    ASSUME ClientTypeOK, NEW c \in Clients, ClientInv(c), NEW k \in 1..MaxInits, NotifyVisit(k, c)
    PROVE  UNCHANGED Feed!feedVars
<1>1. UNCHANGED <<eventCounter, toolIds, connected, clientVars>> BY DEF NotifyVisit, logVars
<1>2. CASE sub[c].state # "pending"
  <2>1. UNCHANGED <<sub, proc>> BY <1>2 DEF NotifyVisit
  <2>2. \A d \in Clients : Position(d)' = Position(d) /\ Held(d)' = Held(d)
    BY <1>1, <2>1, SamePosition DEF clientVars
  <2> QED BY <1>1, <2>2, FeedStutters DEF clientVars
<1>3. CASE sub[c].state = "pending"
  <2>0. "replaying" \in SubStates BY DEF SubStates
  <2>1. k \in Procs BY DEF Procs
  <2>2. sub' = [sub EXCEPT ![c] = Turns(c, "replaying")] BY <1>3, SubGoes DEF NotifyVisit
  <2>3. proc' = [proc EXCEPT ![c] = With(c, k, Goes(c, k, "start"))]
    <3>1. GoTo(c, k, "start") BY <1>3 DEF NotifyVisit, GoTo
    <3> QED BY <2>1, <3>1, GoToGoes
  <2>4. Moves(c, Turns(c, "replaying"), With(c, k, Goes(c, k, "start")))
    BY <1>1, <2>2, <2>3, MovesIntro
  <2>5. Turns(c, "replaying").state # "live" BY <2>0, TurnsTyped
  <2>6. ~Streaming(c) BY <1>3 DEF Streaming
  <2> QED BY <1>1, <2>4, <2>5, <2>6, QuietStep DEF clientVars
<1> QED BY <1>2, <1>3

(* Nor does a replay: the client relies on it once resume_complete is      *)
(* there.                                                                  *)
LEMMA FeedWriteReplay ==
    ASSUME HubInv, ClientTypeOK, NEW c \in Clients, ClientInv(c), NEW p \in Procs,
           WriteReplay(c, p)
    PROVE  UNCHANGED Feed!feedVars
<1>1. WriteReplayEffect(c, p) BY WriteReplayWrites
<1>2. UNCHANGED <<eventCounter, toolIds, gaps>> /\ proc[c][p].pc # "idle"
  BY DEF WriteReplay, ProcUnchanged, logVars, At
<1>3. ~Streaming(c) BY <1>2 DEF Streaming, Completing
<1>4. CASE sub[c].state = "none"
  <2>1. Moves(c, sub[c], With(c, p, IdleProc)) /\ sub[c].state # "live"
    BY <1>1, <1>4 DEF WriteReplayEffect
  <2> QED BY <1>2, <1>3, <2>1, QuietStep
<1>5. CASE sub[c].state # "none"
  <2> DEFINE ids == Fresh(sub[c].lastSeq, proc[c][p].replay, sub[c].queue)
             rest == [sub[c] EXCEPT !.queue = {}, !.state = "live"]
             done == [IdleProc EXCEPT !.pc = "complete", !.gap = proc[c][p].gap]
             P == With(c, p, done)
             t == [rest EXCEPT !.lastSeq = Max({rest.lastSeq} \cup ids)]
             h == got[c] \o Ascending(ids)
  <2>1. Becomes(c, connected[c], t, P, h, cursor[c], known[c] \cup ids)
    BY <1>1, <1>5 DEF WriteReplayEffect, Writes
  <2>2. P[p].pc = "complete"
    <3>1. P[p] = done BY ClientTyped DEF With
    <3>2. done.pc = "complete" BY DEF IdleProc
    <3> HIDE DEF P, done
    <3> QED BY <3>1, <3>2
  <2>3. /\ proc[c][p].replay \in SUBSET (1..eventCounter) /\ sub[c].queue \in SUBSET (1..eventCounter)
    BY DEF ClientInv, Local, InRange
  <2>4. eventCounter \in Nat BY HubFacts
  <2>5. ids \subseteq Nat /\ \A id \in ids : sub[c].lastSeq < id
    BY <1>5, <2>3, <2>4, WriteFacts
  <2>6. /\ sub[c].lastSeq = Furthest(c) /\ cursor[c] <= Furthest(c)
        /\ Furthest(c) \in Nat /\ cursor[c] \in Nat
    BY <1>5, WrittenFacts, LastTyped, ClientTyped
  <2> HIDE DEF ids, P, t, h
  <2>7. (known[c] \cup ids) \cap 1..cursor[c] = known[c] \cap 1..cursor[c]
    <3>1. \A id \in ids : id \notin 1..cursor[c] BY <2>5, <2>6
    <3> QED BY <3>1
  <2>8. /\ proc'[c] = P /\ cursor'[c] = cursor[c] /\ known'[c] = known[c] \cup ids
        /\ \A d \in Clients \ {c} : Position(d)' = Position(d) /\ Held(d)' = Held(d)
    BY <2>1, BecomesValues
  <2>9. ~Streaming(c)' BY <2>2, <2>8 DEF Streaming, Completing
  <2>10. Position(c) = cursor[c] /\ Position(c)' = cursor[c] BY <1>3, <2>8, <2>9 DEF Position
  <2>11. Held(c)' = Held(c) BY <2>7, <2>8, <2>10 DEF Held
  <2> QED BY <1>2, <2>8, <2>10, <2>11, FeedStutters
<1> QED BY <1>4, <1>5

(* The furthest id written since the cursor is that of an event.           *)
LEMMA FurthestInRange ==
    ASSUME HubInv, ClientTypeOK, NEW c \in Clients, ClientInv(c), got[c] # << >>
    PROVE  Furthest(c) \in 1..eventCounter
<1>1. got[c] \in Seq(Nat) BY ClientTyped
<1>2. DOMAIN got[c] = 1..Len(got[c]) /\ Len(got[c]) \in 1..Len(got[c])
  BY <1>1, LenProperties, EmptySeq
<1>3. Elements(got[c]) \subseteq 1..eventCounter BY DEF ClientInv, Local, InRange
<1>4. got[c][Len(got[c])] \in Elements(got[c]) BY <1>2 DEF Elements
<1> QED BY <1>3, <1>4 DEF Furthest, Last

(* What c is left with when its subscription goes or starts afresh.        *)
LEMMA FeedDrops ==
    ASSUME HubInv, ClientTypeOK, NEW c \in Clients, ClientInv(c), AccountInv,
           NEW n \in Retained(c), NEW o, NEW s, NEW P, s.state # "live",
           Becomes(c, o, s, P, << >>, Back(c, n), Kept(c, n)),
           UNCHANGED <<eventCounter, toolIds, gaps>>
    PROVE  Feed!Next \/ UNCHANGED Feed!feedVars
<1> DEFINE b == Back(c, n)
<1>1. /\ sub'[c] = s /\ got'[c] = << >> /\ cursor'[c] = b /\ known'[c] = Kept(c, n)
      /\ \A d \in Clients \ {c} : Position(d)' = Position(d) /\ Held(d)' = Held(d)
  BY BecomesValues
<1>2. ~Streaming(c)' BY <1>1 DEF Streaming
<1>3. Position(c)' = b BY <1>1, <1>2 DEF Position
<1>4. Kept(c, n) = known[c] \cap 1..b BY KeptFacts
<1>5. Held(c)' = known[c] \cap 1..b BY <1>1, <1>3, <1>4 DEF Held
<1>6. b \in Nat /\ cursor[c] \in Nat /\ n \in 0..Len(got[c]) BY BackTyped, ClientTyped
<1>7. b <= Furthest(c) /\ Furthest(c) \in Nat BY <1>6, WrittenFacts, LastTyped
<1>8. Position(c) = IF Streaming(c) THEN Furthest(c) ELSE cursor[c]
  BY DEF Position, Furthest
<1>9. eventCounter \in Nat /\ (got[c] # << >> => Furthest(c) <= eventCounter)
  BY FurthestInRange, HubFacts
<1> HIDE DEF b
<1>10. CASE b = Position(c)
  <2>1. Position(c)' = Position(c) BY <1>3, <1>10
  <2>2. Held(c)' = Held(c) BY <1>5, <1>10 DEF Held
  <2> QED BY <1>1, <2>1, <2>2, FeedStutters
<1>11. CASE b # Position(c)
  <2>1. Streaming(c)
    <3> SUFFICES ASSUME ~Streaming(c) PROVE FALSE OBVIOUS
    <3>1. n = 0 BY DEF Retained
    <3> QED BY <1>8, <1>11, <3>1 DEF b, Back
  <2>2. b < Position(c) /\ b \in 0..eventCounter
    <3>1. got[c] # << >>
      <4> SUFFICES ASSUME got[c] = << >> PROVE FALSE OBVIOUS
      <4>1. Furthest(c) = cursor[c] BY DEF Furthest
      <4>2. n = 0
        <5>1. Len(got[c]) = 0 BY EmptySeq
        <5> QED BY <1>6, <5>1
      <4> QED BY <1>8, <1>11, <2>1, <4>1, <4>2 DEF b, Back
    <3> QED BY <1>6, <1>7, <1>8, <1>9, <1>11, <2>1, <3>1
  <2>3. \A i : i \in 1..b => i \in 1..Position(c) BY <1>6, <1>7, <1>8, <2>1, <2>2
  <2>4. known[c] \cap 1..b = Held(c) \cap 1..b BY <2>3 DEF Held
  <2> DEFINE H == known[c] \cap 1..b
  <2>5. H = Held(c) \cap 1..b /\ Held(c)' = H BY <1>5, <2>4
  <2> HIDE DEF H
  <2> QED BY <1>1, <1>3, <2>2, <2>5, FeedFallsBack
<1> QED BY <1>10, <1>11

(* An event reaches a live subscription.                                   *)
LEMMA FeedDeliver ==
    ASSUME HubInv, ClientTypeOK, NEW c \in Clients, ClientInv(c), AccountInv, Track(c),
           misled = {}, DrainDeliver(c)
    PROVE  Feed!Next \/ UNCHANGED Feed!feedVars
<1> DEFINE id == drain.event.id
<1>1. DeliverEffect(c) BY DeliverBecomes
<1>2. /\ UNCHANGED <<eventCounter, toolIds, gaps>> /\ drain.pc = "deliver" /\ c \in drain.todo
  BY DEF DrainDeliver, logVars
<1>3. /\ eventCounter \in Nat /\ id \in 1..eventCounter /\ id \in Nat /\ Frontier(c) = id - 1
  <2>1. id \in 1..Drained /\ Drained \in Nat /\ Drained <= eventCounter /\ eventCounter \in Nat
    BY <1>2, HubFacts
  <2>2. Frontier(c) = id - 1 BY <1>2 DEF Frontier
  <2> HIDE DEF id
  <2> QED BY <2>1, <2>2
<1>4. CASE sub[c].state = "replaying"
  <2>1. Moves(c, Queued(c, id), proc[c]) BY <1>1, <1>4 DEF DeliverEffect
  <2>2. Queued(c, id).state = "replaying"
    <3>1. sub[c] \in Subscription BY ClientTyped
    <3> QED BY <1>4, <3>1 DEF Queued, Subscription
  <2>3. ~Streaming(c) BY <1>4 DEF Streaming
  <2> HIDE DEF Queued
  <2> QED BY <1>2, <2>1, <2>2, <2>3, QuietStep
<1>5. CASE sub[c].state \in {"none", "pending"}
  <2>1. UNCHANGED <<sub, proc, clientVars>> BY <1>1, <1>5 DEF DeliverEffect
  <2>2. \A d \in Clients : Position(d)' = Position(d) /\ Held(d)' = Held(d)
    BY <2>1, SamePosition DEF clientVars
  <2> QED BY <1>2, <2>2, FeedStutters
<1>6. CASE sub[c].state = "live"
  <2> DEFINE q == {id}
             e == {}
             ids == Fresh(sub[c].lastSeq, e, q)
             top == Max({sub[c].lastSeq} \cup ids)
             h == got[c] \o Ascending(ids)
             t == [sub[c] EXCEPT !.lastSeq = top]
             l == sub[c].lastSeq
  <2>1. Becomes(c, connected[c], t, proc[c], h, cursor[c], known[c] \cup ids)
    BY <1>1, <1>6 DEF DeliverEffect, Writes
  <2>2. e \in SUBSET (1..eventCounter) /\ q \in SUBSET (1..eventCounter) /\ sub[c].state # "none"
    BY <1>3, <1>6
  <2>3. ids \subseteq {id} /\ \A i \in ids : i = id BY DEF Fresh
  <2>4. id > l => id \in ids BY DEF Fresh
  <2> HIDE DEF e, q
  <2>5. /\ ids \subseteq Nat /\ \A i \in ids : l < i
        /\ top \in Nat /\ l <= top /\ \A i \in ids : i <= top
        /\ top \in {l} \cup ids /\ h \in Seq(Nat)
        /\ top = IF h = << >> THEN cursor[c] ELSE Last(h)
    BY <1>3, <2>2, WriteFacts
  <2>6. l \in Nat /\ cursor[c] \in Nat /\ sub[c] \in Subscription BY ClientTyped DEF Subscription
  <2>7. t.state = "live" BY <1>6, <2>6 DEF Subscription
  <2> HIDE DEF ids, top, h, t, id
  <2>8. /\ sub'[c] = t /\ proc'[c] = proc[c] /\ got'[c] = h /\ cursor'[c] = cursor[c]
        /\ known'[c] = known[c] \cup ids
        /\ \A d \in Clients \ {c} : Position(d)' = Position(d) /\ Held(d)' = Held(d)
    BY <2>1, BecomesValues
  <2>9. Streaming(c)' = Streaming(c) BY <1>6, <2>7, <2>8 DEF Streaming, Completing
  <2>10. l = Furthest(c) /\ cursor[c] <= l BY <2>2, WrittenFacts DEF l
  <2>11. CASE ~Streaming(c)
    <3>1. Position(c)' = cursor[c] /\ Position(c) = cursor[c] BY <2>8, <2>9, <2>11 DEF Position
    <3>2. \A i \in ids : i \notin 1..cursor[c] BY <2>5, <2>6, <2>10
    <3>3. (known[c] \cup ids) \cap 1..cursor[c] = known[c] \cap 1..cursor[c] BY <3>2
    <3>4. Held(c)' = Held(c) BY <2>8, <3>1, <3>3 DEF Held
    <3> QED BY <1>2, <2>8, <3>1, <3>4, FeedStutters
  <2>12. CASE Streaming(c)
    <3>1. Position(c) = l BY <2>10, <2>12 DEF Position, Furthest
    <3>2. Position(c)' = top BY <2>5, <2>8, <2>9, <2>12 DEF Position
    <3>3. known[c] \subseteq 1..l
      <4>1. known[c] \subseteq 1..cursor[c] \cup Elements(got[c]) BY DEF AccountInv, Accounted
      <4>2. Elements(got[c]) \subseteq Nat /\ \A i \in Elements(got[c]) : i > cursor[c] /\ i <= l
        BY <2>10, WrittenFacts
      <4> QED BY <2>6, <2>10, <4>1, <4>2
    <3>4. Held(c) = known[c] BY <3>1, <3>3 DEF Held
    <3>5. \A i \in ids : i \in 1..top BY <2>5, <2>6
    <3>6. \A i : i \in 1..l => i \in 1..top BY <2>5, <2>6
    <3>7. Held(c)' = known[c] \cup ids BY <2>8, <3>2, <3>3, <3>5, <3>6 DEF Held
    <3>8. CASE ids = {}
      <4>1. top = l BY <2>5, <3>8
      <4>2. Held(c)' = Held(c) /\ Position(c)' = Position(c) BY <3>1, <3>2, <3>4, <3>7, <3>8, <4>1
      <4> QED BY <1>2, <2>8, <4>2, FeedStutters
    <3>9. CASE ids # {}
      <4>1. ids = {id} /\ l < id BY <2>3, <2>5, <3>9
      <4>2. top = id BY <1>3, <2>3, <2>5, <4>1
      <4>3. c \notin Strangers BY <1>6 DEF ClientInv, Local, Shut
      <4>4. Within(sub[c], Excused(c), id - 1)
        <5>1. Sound(sub[c], proc[c], cursor[c], known[c], Excused(c), id - 1)
          BY <1>3, <4>3 DEF Track, Tracked
        <5> QED BY <1>6, <5>1 DEF Sound
      <4>5. \A i \in (l + 1)..id : i \in ids \/ i \in Excused(c)
        <5> SUFFICES ASSUME NEW i \in (l + 1)..id, i # id PROVE i \in Excused(c) BY <4>1
        <5>1. i \in 1..(id - 1) /\ ~(i <= l) BY <1>3, <2>6
        <5> QED BY <4>4, <5>1 DEF Within, l
      <4>6. id \in 0..eventCounter /\ id > l /\ ids \in SUBSET ((l + 1)..id)
        BY <1>3, <2>6, <4>1
      <4>7. Position(c)' = id /\ Held(c)' = Held(c) \cup ids BY <3>2, <3>4, <3>7, <4>2
      <4> HIDE DEF l
      <4> QED BY <1>2, <2>8, <3>1, <4>5, <4>6, <4>7, FeedReceives
    <3> QED BY <3>8, <3>9
  <2> QED BY <2>11, <2>12
<1>7. sub[c].state \in SubStates BY ClientTyped DEF Subscription
<1> QED BY <1>4, <1>5, <1>6, <1>7 DEF SubStates

(* resume_complete reaches a client: it moves forward over what was        *)
(* written to it, or it is told of the gap.                                *)
LEMMA FeedResume ==
    ASSUME HubInv, ClientTypeOK, NEW c \in Clients, ClientInv(c), AccountInv, Track(c),
           misled = {}, misled' = {}, NEW p \in Procs, ResumeComplete(c, p)
    PROVE  Feed!Next \/ UNCHANGED Feed!feedVars
<1> DEFINE l == Furthest(c)
           k == IF proc[c][p].gap THEN known[c] \cup 1..l ELSE known[c]
           P == With(c, p, IdleProc)
<1>1. Becomes(c, connected[c], sub[c], P, << >>, l, k) BY ResumeBecomes DEF ResumeEffect
<1>2. /\ UNCHANGED <<eventCounter, toolIds>> /\ proc[c][p].pc = "complete"
      /\ gaps' = [gaps EXCEPT ![c] = IF proc[c][p].gap THEN @ + 1 ELSE @]
      /\ \A q \in Procs \ {p} : proc[c][q].pc = "idle"
  BY DEF ResumeComplete, logVars, At
<1> HIDE DEF P
<1>3. /\ got'[c] = << >> /\ cursor'[c] = l /\ known'[c] = k
      /\ \A d \in Clients \ {c} : Position(d)' = Position(d) /\ Held(d)' = Held(d)
  BY <1>1, BecomesValues
<1>4. Position(c)' = l BY <1>3 DEF Position
<1>5. Position(c) = cursor[c]
  <2>1. ~Streaming(c) BY <1>2 DEF Streaming, Completing
  <2> QED BY <2>1 DEF Position
<1>6. c \notin Strangers
  <2> SUFFICES ASSUME c \in Strangers PROVE FALSE OBVIOUS
  <2>1. proc[c][p].pc \in BeforeOwner BY DEF ClientInv, Local, Shut
  <2> QED BY <1>2, <2>1 DEF BeforeOwner
<1>7. Sound(sub[c], proc[c], cursor[c], known[c], Excused(c), Frontier(c))
  BY <1>6 DEF Track, Tracked
<1>8. l \in Nat /\ cursor[c] \in Nat /\ cursor[c] <= l /\ eventCounter \in Nat
  BY LastTyped, ClientTyped, WrittenFacts, HubFacts
<1>9. l <= eventCounter
  <2>1. CASE got[c] = << >> BY <1>7, <2>1 DEF Sound, Furthest
  <2>2. CASE got[c] # << >> BY <1>8, <2>2, FurthestInRange
  <2> QED BY <2>1, <2>2
<1>10. known[c] \subseteq 1..l
  <2>1. known[c] \subseteq 1..cursor[c] \cup Elements(got[c]) BY DEF AccountInv, Accounted
  <2>2. Elements(got[c]) \subseteq Nat /\ \A i \in Elements(got[c]) : i > cursor[c] /\ i <= l
    BY WrittenFacts
  <2> HIDE DEF l
  <2> QED BY <1>8, <2>1, <2>2
<1> HIDE DEF l
<1>11. CASE proc[c][p].gap
  <2>1. Held(c)' = 1..l BY <1>3, <1>4, <1>10, <1>11 DEF Held
  <2>2. gaps' = [gaps EXCEPT ![c] = @ + 1] BY <1>2, <1>11
  <2>3. l \in 0..eventCounter /\ l >= Position(c) BY <1>5, <1>8, <1>9
  <2> QED BY <1>2, <1>3, <1>4, <2>1, <2>2, <2>3, FeedNotices
<1>12. CASE ~proc[c][p].gap
  <2>1. gaps' = gaps BY <1>2, <1>12 DEF ClientTypeOK
  <2>2. Held(c)' = known[c] BY <1>3, <1>4, <1>10, <1>12 DEF Held
  <2>3. Held(c) = known[c] \cap 1..cursor[c] BY <1>5 DEF Held
  <2>4. CASE l = cursor[c]
    <3>1. Held(c)' = Held(c) /\ Position(c)' = Position(c) BY <1>4, <1>5, <1>10, <2>2, <2>3, <2>4
    <3> QED BY <1>2, <1>3, <2>1, <3>1, FeedStutters
  <2>5. CASE l # cursor[c]
    <3> DEFINE ids == known[c] \cap (cursor[c] + 1)..l
    <3>1. ids \in SUBSET ((Position(c) + 1)..l) BY <1>5
    <3>2. l \in 0..eventCounter /\ l > Position(c) BY <1>5, <1>8, <1>9, <2>5
    <3>3. Held(c)' = Held(c) \cup ids
      <4>1. \A i : i \in 1..l => i \in 1..cursor[c] \/ i \in (cursor[c] + 1)..l BY <1>8
      <4> QED BY <1>10, <2>2, <2>3, <4>1
    <3>4. Holds(known[c], Excused(c), l)
      <4>1. sub[c].state # "none" BY <1>2, <1>7 DEF Sound
      <4>2. sub[c].lastSeq = l BY <4>1, WrittenFacts DEF l
      <4>3. ~Told(proc[c])
        <5> SUFFICES ASSUME NEW q \in Procs, proc[c][q].pc = "complete", proc[c][q].gap PROVE FALSE
          BY DEF Told
        <5> QED BY <1>2, <1>12
      <4> QED BY <1>7, <4>1, <4>2, <4>3 DEF Sound
    <3>5. \A i \in (Position(c) + 1)..l : i \in ids \/ i \in Excused(c)
      <4> SUFFICES ASSUME NEW i \in (cursor[c] + 1)..l PROVE i \in ids \/ i \in Excused(c)
        BY <1>5
      <4>1. i \in 1..l BY <1>8
      <4> QED BY <3>4, <4>1 DEF Holds
    <3> HIDE DEF ids
    <3> QED BY <1>2, <1>3, <1>4, <2>1, <3>1, <3>2, <3>3, <3>5, FeedReceives
  <2> QED BY <2>4, <2>5
<1> QED BY <1>11, <1>12

(* A new event of the operation is one published by the feed.              *)
LEMMA FeedPush ==
    ASSUME HubInv, NEW kind \in Payloads, PushEvent(kind)
    PROVE  Feed!Next
<1>1. /\ eventCounter' = eventCounter + 1
      /\ toolIds' = IF kind = "tool" THEN toolIds \cup {eventCounter + 1} ELSE toolIds
      /\ UNCHANGED <<sub, proc, got, cursor, known, gaps>>
  BY DEF PushEvent, Record, connVars, clientVars
<1>2. \A d \in Clients : Position(d)' = Position(d) /\ Held(d)' = Held(d)
  BY <1>1, SamePosition
<1>3. [c \in Clients |-> Position(c)]' = [c \in Clients |-> Position(c)] BY <1>2
<1>4. [c \in Clients |-> known[c] \cap 1..Position(c)]' = [c \in Clients |-> known[c] \cap 1..Position(c)]
  BY <1>2 DEF Held
<1>5. Feed!Publish BY <1>1, <1>3, <1>4 DEF Feed!Publish
<1> QED BY <1>5 DEF Feed!Next

(* No client and no event is touched.                                      *)
LEMMA FeedIdle ==
    ASSUME UNCHANGED <<eventCounter, toolIds, sub, proc, got, cursor, known, gaps>>
    PROVE  UNCHANGED Feed!feedVars
<1>1. \A d \in Clients : Position(d)' = Position(d) /\ Held(d)' = Held(d)
  BY SamePosition
<1> QED BY <1>1, FeedStutters

(* A connection is closed: what was in flight may be lost.                 *)
LEMMA FeedClosed ==
    ASSUME HubInv, ClientTypeOK, NEW c \in Clients, ClientInv(c), AccountInv, Closed(c),
           UNCHANGED <<eventCounter, toolIds>>
    PROVE  Feed!Next \/ UNCHANGED Feed!feedVars
<1>1. PICK n \in Retained(c) : Becomes(c, FALSE, NoSub, NoProcs, << >>, Back(c, n), Kept(c, n))
  BY ClosedBecomes
<1>2. gaps' = gaps BY DEF Closed, Rewind
<1>3. NoSub.state # "live" BY IdleTyped
<1> HIDE DEF NoSub, NoProcs
<1> QED BY <1>1, <1>2, <1>3, FeedDrops

(* A fresh subscription gives up what was in flight on the old one.        *)
LEMMA FeedSubscribe ==
    ASSUME HubInv, ClientTypeOK, NEW c \in Clients, ClientInv(c), AccountInv, Subscribe(c)
    PROVE  Feed!Next \/ UNCHANGED Feed!feedVars
<1> DEFINE P == With(c, 0, Goes(c, 0, "start"))
<1>1. PICK n \in Retained(c) :
        Becomes(c, connected[c], [state |-> "replaying", lastSeq |-> Back(c, n), queue |-> {}],
                P, << >>, Back(c, n), Kept(c, n))
  BY SubscribeBecomes
<1> DEFINE s == [state |-> "replaying", lastSeq |-> Back(c, n), queue |-> {}]
<1>2. UNCHANGED <<eventCounter, toolIds, gaps>> BY DEF Subscribe, Rewind, logVars
<1>3. s.state # "live" OBVIOUS
<1>4. Becomes(c, connected[c], s, P, << >>, Back(c, n), Kept(c, n)) BY <1>1
<1> HIDE DEF s, P
<1> QED BY <1>2, <1>3, <1>4, FeedDrops

(* So does the end of one.                                                 *)
LEMMA FeedUnsubscribe ==
    ASSUME HubInv, ClientTypeOK, NEW c \in Clients, ClientInv(c), AccountInv, Unsubscribe(c)
    PROVE  Feed!Next \/ UNCHANGED Feed!feedVars
<1>1. PICK n \in Retained(c) : Becomes(c, connected[c], NoSub, proc[c], << >>, Back(c, n), Kept(c, n))
  BY UnsubscribeBecomes
<1>2. UNCHANGED <<eventCounter, toolIds, gaps>> BY DEF Unsubscribe, Rewind, logVars
<1>3. NoSub.state # "live" BY IdleTyped
<1> HIDE DEF NoSub
<1> QED BY <1>1, <1>2, <1>3, FeedDrops

-----------------------------------------------------------------------------

(* Nobody is misled and the process does not restart.                      *)
Faithful == misled = {} /\ restarts = 0

(* Every step of the hub is a step of the feed, or leaves it alone.        *)
LEMMA FeedStep ==
    TrackInv /\ AccountInv /\ Faithful /\ Faithful' /\ [Next]_vars
        => [Feed!Next]_(Feed!feedVars)
<1> DEFINE Good == Feed!Next \/ UNCHANGED Feed!feedVars
<1> SUFFICES ASSUME TrackInv, AccountInv, Faithful, Faithful', [Next]_vars PROVE Good
  OBVIOUS
<1>1. /\ HubInv /\ ClientTypeOK /\ \A d \in Clients : ClientInv(d)
      /\ \A d \in Clients : Track(d)
      /\ misled = {} /\ misled' = {} /\ restarts = 0 /\ restarts' = 0
  BY DEF TrackInv, BaseInv, AllTracked, Faithful
<1>2. ASSUME UNCHANGED <<eventCounter, toolIds, sub, proc, clientVars>> PROVE Good
  BY <1>2, FeedIdle DEF clientVars
<1> HIDE DEF Good
<1>3. ASSUME NEW kind \in Payloads, PushEvent(kind) PROVE Good
  BY <1>1, <1>3, FeedPush DEF Good
<1>4. CASE InitOperation BY <1>2, <1>4 DEF InitOperation, logVars
<1>5. ASSUME NEW k \in 1..MaxInits, NotifyStep(k) PROVE Good
  <2>1. CASE NotifySnapshot(k) BY <1>2, <2>1 DEF NotifySnapshot, logVars
  <2>2. ASSUME NEW c \in Clients, NotifyVisit(k, c) PROVE Good
    BY <1>1, <2>2, FeedNotifyVisit DEF Good
  <2> QED BY <1>5, <2>1, <2>2 DEF NotifyStep
<1>6. ASSUME NEW c \in Clients, DrainDeliver(c) PROVE Good
  BY <1>1, <1>6, FeedDeliver DEF Good
<1>7. ASSUME NEW c \in Clients, EvictVisit(c) \/ Disconnect(c) PROVE Good
  <2>1. UNCHANGED <<eventCounter, toolIds>> BY <1>7 DEF EvictVisit, Disconnect, logVars
  <2>2. CASE Closed(c) BY <1>1, <2>1, <2>2, FeedClosed DEF Good
  <2>3. CASE ~Closed(c)
    <3>1. UNCHANGED <<connVars, clientVars>> BY <1>7, <2>3 DEF EvictVisit, Disconnect
    <3> QED BY <1>2, <2>1, <3>1 DEF connVars
  <2> QED BY <2>2, <2>3
<1>8. CASE DrainTake \/ DrainTarget \/ EvictSnapshot
  BY <1>2, <1>8 DEF DrainTake, DrainTarget, EvictSnapshot, logVars, connVars
<1>9. ASSUME NEW c \in Clients, Connect(c) PROVE Good
  BY <1>2, <1>9 DEF Connect, logVars
<1>10. ASSUME NEW c \in Clients, Subscribe(c) PROVE Good
  BY <1>1, <1>10, FeedSubscribe DEF Good
<1>11. ASSUME NEW c \in Clients, Unsubscribe(c) PROVE Good
  BY <1>1, <1>11, FeedUnsubscribe DEF Good
<1>12. ASSUME NEW c \in Clients, NEW p \in Procs, CompleteSubscribe(c, p) PROVE Good
  <2>1. CASE WriteReplay(c, p) BY <1>1, <2>1, FeedWriteReplay DEF Good
  <2>2. CASE ResumeComplete(c, p) BY <1>1, <2>2, FeedResume DEF Good
  <2>3. CASE ~WriteReplay(c, p) /\ ~ResumeComplete(c, p)
    <3>1. CheckOwner(c, p) \/ Park(c, p) \/ RecheckOwner(c, p) \/ Unpark(c, p)
            \/ ReadPosition(c, p) \/ CollectReplay(c, p)
      BY <1>12, <2>3 DEF CompleteSubscribe
    <3> QED BY <1>1, <3>1, FeedProcess DEF Good
  <2> QED BY <2>1, <2>2, <2>3
<1>13. CASE Restart BY <1>1, <1>13 DEF Restart
<1>14. CASE UNCHANGED vars BY <1>2, <1>14 DEF vars, connVars, logVars
<1> QED BY <1>3, <1>4, <1>5, <1>6, <1>7, <1>8, <1>9, <1>10, <1>11, <1>12, <1>13, <1>14
    DEF Next, DrainStep

(* The hub starts where the feed starts.                                   *)
LEMMA FeedInit == Init => Feed!Init
<1> SUFFICES ASSUME Init PROVE Feed!Init OBVIOUS
<1>1. /\ eventCounter = 0 /\ toolIds = {} /\ gaps = [c \in Clients |-> 0]
      /\ \A c \in Clients : got[c] = << >> /\ cursor[c] = 0 /\ known[c] = {}
  BY DEF Init, LogInit
<1>2. \A c \in Clients : Position(c) = 0 BY <1>1 DEF Position
<1>3. [c \in Clients |-> Position(c)] = [c \in Clients |-> 0] BY <1>2
<1>4. [c \in Clients |-> known[c] \cap 1..Position(c)] = [c \in Clients |-> {}] BY <1>1
<1> QED BY <1>1, <1>3, <1>4 DEF Feed!Init

(* The accounting is invariant.                                            *)
LEMMA AccountInduction == Spec => []AccountInv
<1>1. TrackInv => BaseInv BY DEF TrackInv
<1> QED BY <1>1, TrackInduction, AccountInit, AccountStepAll, PTL DEF Spec

(* As long as no client is misled and the process does not restart, the    *)
(* hub implements the feed that is promised to the subscribers.            *)
THEOREM HubRefinesFeed == Spec /\ []Faithful => ImplementsFeed
<1> QED BY FeedInit, FeedStep, TrackInduction, AccountInduction, PTL
    DEF Spec, ImplementsFeed, Feed!Spec

-----------------------------------------------------------------------------

(* Subscriptions come after init, and one at a time.                       *)
Orderly ==
    /\ Faithful
    /\ \A c \in Clients :
          /\ sub[c].state # "pending"
          /\ sub[c].state # "none" \/ proc[c][0].pc # "idle" => ownerKnown
          /\ proc[c][0].pc \notin {"park", "recheck", "unpark"}
          /\ \A q \in Procs \ {0} : proc[c][q].pc = "idle"

(* Orderly, for the subscription and the processes of one client.          *)
Neat(s, P) ==
    /\ s.state # "pending"
    /\ s.state # "none" \/ P[0].pc # "idle" => ownerKnown
    /\ P[0].pc \notin {"park", "recheck", "unpark"}
    /\ \A q \in Procs \ {0} : P[q].pc = "idle"

(* Orderly, client by client.                                              *)
LEMMA NeatParts == Orderly <=> Faithful /\ \A c \in Clients : Neat(sub[c], proc[c])
BY DEF Orderly, Neat

(* Only c changes, and it stays neat.                                      *)
LEMMA NeatStep ==
    ASSUME ClientTypeOK, \A d \in Clients : Neat(sub[d], proc[d]), ownerKnown' = ownerKnown,
           NEW c \in Clients, NEW o, NEW s, NEW P, NEW g, NEW u, NEW k,
           Becomes(c, o, s, P, g, u, k), Neat(s, P)
    PROVE  \A d \in Clients : Neat(sub[d], proc[d])'
<1>1. /\ sub'[c] = s /\ proc'[c] = P
      /\ \A d \in Clients \ {c} : sub'[d] = sub[d] /\ proc'[d] = proc[d]
  BY DEF ClientTypeOK, Becomes
<1>2. ASSUME NEW d \in Clients PROVE Neat(sub[d], proc[d])'
  <2>1. CASE d = c BY <1>1, <2>1 DEF Neat
  <2>2. CASE d # c
    <3>1. Neat(sub[d], proc[d]) BY DEF ClientTypeOK
    <3> QED BY <1>1, <2>2, <3>1 DEF Neat
  <2> QED BY <2>1, <2>2
<1> QED BY <1>2

(* No client changes.                                                      *)
LEMMA NeatSame ==
    ASSUME \A d \in Clients : Neat(sub[d], proc[d]), UNCHANGED <<sub, proc>>,
           ownerKnown => ownerKnown'
    PROVE  \A d \in Clients : Neat(sub[d], proc[d])'
BY DEF Neat

(* The only process there is, with the owner known.                        *)
LEMMA NeatProcess ==
    ASSUME ClientTypeOK, NEW c \in Clients, Neat(sub[c], proc[c]), NEW p \in Procs,
           proc[c][p].pc # "idle"
    PROVE  /\ p = 0 /\ ownerKnown
           /\ \A s, r : r \in Process /\ s.state # "pending"
                          /\ r.pc \notin {"park", "recheck", "unpark"}
                 => Neat(s, With(c, p, r))
<1>1. p = 0 /\ ownerKnown BY DEF Neat
<1>2. ASSUME NEW s, NEW r \in Process, s.state # "pending",
             r.pc \notin {"park", "recheck", "unpark"}
      PROVE  Neat(s, With(c, p, r))
  <2>1. With(c, p, r)[0] = r /\ \A q \in Procs \ {0} : With(c, p, r)[q] = proc[c][q]
    BY <1>1, <1>2, WithFacts
  <2> HIDE DEF With
  <2> QED BY <1>1, <1>2, <2>1 DEF Neat
<1> QED BY <1>1, <1>2

(* completeSubscribe finds the owner known, and is alone when it           *)
(* completes.                                                              *)
LEMMA NeatComplete ==
    ASSUME HubInv, ClientTypeOK, \A d \in Clients : Neat(sub[d], proc[d]),
           NEW c \in Clients, NEW p \in Procs, CompleteSubscribe(c, p)
    PROVE  /\ \A d \in Clients : Neat(sub[d], proc[d])'
           /\ misled = {} => misled' = {}
           /\ restarts' = restarts
<1> DEFINE Good == \A d \in Clients : Neat(sub[d], proc[d])'
<1>1. proc[c][p].pc # "idle" /\ ownerKnown' = ownerKnown /\ restarts' = restarts
  BY DEF CompleteSubscribe, CheckOwner, Park, RecheckOwner, Unpark, ReadPosition, CollectReplay,
         WriteReplay, ResumeComplete, ProcUnchanged, At, boundVars
<1>2. Neat(sub[c], proc[c]) OBVIOUS
<1>3. /\ p = 0 /\ ownerKnown /\ sub[c].state # "pending"
      /\ proc[c][p].pc \notin {"park", "recheck", "unpark"}
      /\ \A q \in Procs \ {p} : proc[c][q].pc = "idle"
  BY <1>1, <1>2, NeatProcess DEF Neat
<1>4. ASSUME NEW s, NEW r \in Process, s.state # "pending", r.pc \notin {"park", "recheck", "unpark"}
      PROVE  Neat(s, With(c, p, r))
  BY <1>1, <1>2, <1>4, NeatProcess
<1>5. ASSUME NEW o, NEW s, NEW r \in Process, NEW g, NEW u, NEW k, s.state # "pending",
             r.pc \notin {"park", "recheck", "unpark"}, Becomes(c, o, s, With(c, p, r), g, u, k)
      PROVE  Good
  <2> DEFINE P == With(c, p, r)
  <2>1. Neat(s, P) BY <1>4, <1>5
  <2>2. Becomes(c, o, s, P, g, u, k) BY <1>5
  <2> HIDE DEF P
  <2> QED BY <1>1, <2>1, <2>2, NeatStep
<1> HIDE DEF Good
<1>6. IdleProc \in Process /\ IdleProc.pc = "idle" /\ NoSub.state = "none" BY IdleTyped
<1>7. CASE ResumeComplete(c, p)
  <2>1. ResumeEffect(c, p) BY <1>7, ResumeBecomes
  <2>2. Good BY <1>3, <1>5, <1>6, <2>1 DEF ResumeEffect
  <2>3. misled' = misled BY <1>3, <1>7 DEF ResumeComplete, At
  <2> QED BY <1>1, <2>2, <2>3 DEF Good
<1>8. ASSUME Good, ~ResumeComplete(c, p) PROVE Good /\ (misled = {} => misled' = {})
  <2>1. misled' = misled
    BY <1>8 DEF CompleteSubscribe, CheckOwner, Park, RecheckOwner, Unpark, ReadPosition,
                CollectReplay, WriteReplay, ProcUnchanged, boundVars
  <2> QED BY <1>8, <2>1
<1>9. ASSUME CheckOwner(c, p) PROVE Good
  <2>1. CheckOwnerEffect(c, p) BY <1>9, CheckOwnerMoves
  <2>2. "position" \in Labels BY DEF Labels
  <2>3. Goes(c, p, "position") \in Process /\ Goes(c, p, "position").pc = "position"
    BY <2>2, GoesTyped
  <2> HIDE DEF Goes, NoSub, IdleProc
  <2> QED BY <1>3, <1>5, <1>6, <2>1, <2>3 DEF CheckOwnerEffect, Moves
<1>10. ASSUME ReadPosition(c, p) PROVE Good
  <2>1. PositionEffect(c, p) BY <1>10, PositionMoves
  <2> DEFINE r == [proc[c][p] EXCEPT !.pc = "collect", !.since = sub[c].lastSeq]
  <2>2. "collect" \in Labels BY DEF Labels
  <2>3. proc[c][p] \in Process /\ sub[c].lastSeq \in Nat BY ClientTyped DEF Subscription
  <2>4. r \in Process /\ r.pc = "collect" BY <2>2, <2>3 DEF Process
  <2>5. Moves(c, sub[c], With(c, p, IdleProc)) \/ Moves(c, sub[c], With(c, p, r))
    BY <2>1 DEF PositionEffect
  <2> HIDE DEF r
  <2> QED BY <1>3, <1>5, <1>6, <2>4, <2>5 DEF Moves
<1>11. ASSUME CollectReplay(c, p) PROVE Good
  <2> DEFINE r == Collected(c, p)
  <2>1. Moves(c, sub[c], With(c, p, r)) BY <1>11, CollectMoves
  <2>2. r \in Process /\ r.pc = "replay" BY CollectedTyped
  <2> HIDE DEF r
  <2> QED BY <1>3, <1>5, <2>1, <2>2 DEF Moves
<1>12. ASSUME WriteReplay(c, p) PROVE Good
  <2>1. WriteReplayEffect(c, p) BY <1>12, WriteReplayWrites
  <2> DEFINE r == [IdleProc EXCEPT !.pc = "complete", !.gap = proc[c][p].gap]
             rest == [sub[c] EXCEPT !.queue = {}, !.state = "live"]
             ids == Fresh(sub[c].lastSeq, proc[c][p].replay, sub[c].queue)
             t == [rest EXCEPT !.lastSeq = Max({rest.lastSeq} \cup ids)]
  <2>2. proc[c][p] \in Process /\ sub[c] \in Subscription BY ClientTyped
  <2>3. r \in Process /\ r.pc = "complete" BY <2>2 DEF Process, Labels, IdleProc
  <2>4. t.state = "live" BY <2>2 DEF Subscription
  <2>5. CASE sub[c].state = "none"
    <3>1. Moves(c, sub[c], With(c, p, IdleProc)) BY <2>1, <2>5 DEF WriteReplayEffect
    <3> HIDE DEF IdleProc
    <3> QED BY <1>3, <1>5, <1>6, <3>1 DEF Moves
  <2>6. CASE sub[c].state # "none"
    <3>1. Becomes(c, connected[c], t, With(c, p, r), got[c] \o Ascending(ids), cursor[c],
                  known[c] \cup ids)
      BY <2>1, <2>6 DEF WriteReplayEffect, Writes
    <3>2. t.state # "pending" /\ r.pc \notin {"park", "recheck", "unpark"} BY <2>3, <2>4
    <3> DEFINE h == got[c] \o Ascending(ids)
    <3>3. Becomes(c, connected[c], t, With(c, p, r), h, cursor[c], known[c] \cup ids) BY <3>1
    <3> HIDE DEF r, t, ids, rest, h
    <3> QED BY <1>5, <2>3, <3>2, <3>3
  <2> QED BY <2>5, <2>6
<1>13. ASSUME Park(c, p) \/ RecheckOwner(c, p) \/ Unpark(c, p) PROVE Good
  BY <1>3, <1>13 DEF Park, RecheckOwner, Unpark, At
<1>14. CASE ~ResumeComplete(c, p)
  <2>1. Good BY <1>9, <1>10, <1>11, <1>12, <1>13, <1>14 DEF CompleteSubscribe
  <2> QED BY <1>1, <1>8, <1>14, <2>1 DEF Good
<1> QED BY <1>7, <1>14

(* A delivery leaves the state of the subscription alone.                  *)
LEMMA NeatDeliver ==
    ASSUME ClientTypeOK, \A d \in Clients : Neat(sub[d], proc[d]), NEW c \in Clients,
           DrainDeliver(c)
    PROVE  \A d \in Clients : Neat(sub[d], proc[d])'
<1> DEFINE Good == \A d \in Clients : Neat(sub[d], proc[d])'
           id == drain.event.id
<1>1. DeliverEffect(c) BY DeliverBecomes
<1>2. ownerKnown' = ownerKnown /\ Neat(sub[c], proc[c]) BY DEF DrainDeliver
<1>3. sub[c] \in Subscription BY ClientTyped
<1>4. ASSUME NEW s, s.state = sub[c].state, NEW o, NEW g, NEW u, NEW k,
             Becomes(c, o, s, proc[c], g, u, k)
      PROVE  Good
  <2>1. Neat(s, proc[c]) BY <1>2, <1>4 DEF Neat
  <2> QED BY <1>2, <1>4, <2>1, NeatStep
<1> HIDE DEF Good
<1>5. CASE sub[c].state = "replaying"
  <2>1. Moves(c, Queued(c, id), proc[c]) BY <1>1, <1>5 DEF DeliverEffect
  <2>2. Queued(c, id).state = sub[c].state BY <1>3 DEF Queued, Subscription
  <2> HIDE DEF Queued
  <2>3. Good BY <1>4, <2>1, <2>2 DEF Moves
  <2> QED BY <2>3 DEF Good
<1>6. CASE sub[c].state = "live"
  <2> DEFINE ids == Fresh(sub[c].lastSeq, {}, {id})
             t == [sub[c] EXCEPT !.lastSeq = Max({sub[c].lastSeq} \cup ids)]
             h == got[c] \o Ascending(ids)
  <2>1. Becomes(c, connected[c], t, proc[c], h, cursor[c], known[c] \cup ids)
    BY <1>1, <1>6 DEF DeliverEffect, Writes
  <2>2. t.state = sub[c].state BY <1>3 DEF Subscription
  <2> HIDE DEF t, h, ids
  <2>3. Good BY <1>4, <2>1, <2>2
  <2> QED BY <2>3 DEF Good
<1>7. CASE sub[c].state \in {"none", "pending"}
  <2>1. UNCHANGED <<sub, proc>> BY <1>1, <1>7 DEF DeliverEffect
  <2> QED BY <1>2, <2>1, NeatSame
<1>8. sub[c].state \in SubStates BY <1>3 DEF Subscription
<1> QED BY <1>5, <1>6, <1>7, <1>8 DEF SubStates

(* A closed connection leaves nothing behind.                              *)
LEMMA NeatClosed ==
    ASSUME ClientTypeOK, \A d \in Clients : Neat(sub[d], proc[d]), NEW c \in Clients,
           Closed(c), ownerKnown' = ownerKnown
    PROVE  \A d \in Clients : Neat(sub[d], proc[d])'
<1>1. PICK n \in Retained(c) : Becomes(c, FALSE, NoSub, NoProcs, << >>, Back(c, n), Kept(c, n))
  BY ClosedBecomes
<1>2. Neat(NoSub, NoProcs)
  <2>1. \A q \in Procs : NoProcs[q].pc = "idle" BY IdleTyped DEF NoProcs
  <2>2. NoSub.state = "none" /\ 0 \in Procs BY IdleTyped
  <2> HIDE DEF NoSub, NoProcs
  <2> QED BY <2>1, <2>2 DEF Neat
<1> HIDE DEF NoSub, NoProcs
<1> QED BY <1>1, <1>2, NeatStep

(* A patient client is never misled by its own subscriptions.              *)
LEMMA NeatReader ==
    ASSUME NEW c \in Clients, ReaderFree(c), ~Impatient
    PROVE  misled' = misled /\ \A p \in Procs : proc[c][p].pc = "idle"
BY DEF ReaderFree, Completing

(* A subscription after init, when nothing else is completing.             *)
LEMMA NeatSubscribe ==
    ASSUME ClientTypeOK, \A d \in Clients : Neat(sub[d], proc[d]), NEW c \in Clients,
           Subscribe(c), ~Impatient, ~EarlySubscribe
    PROVE  \A d \in Clients : Neat(sub[d], proc[d])'
<1> DEFINE r == Goes(c, 0, "start")
           P == With(c, 0, r)
<1>1. PICK n \in Retained(c) :
        Becomes(c, connected[c], [state |-> "replaying", lastSeq |-> Back(c, n), queue |-> {}],
                P, << >>, Back(c, n), Kept(c, n))
  BY SubscribeBecomes
<1> DEFINE s == [state |-> "replaying", lastSeq |-> Back(c, n), queue |-> {}]
<1>2. ownerKnown /\ ownerKnown' = ownerKnown BY DEF Subscribe
<1>3. \A q \in Procs : proc[c][q].pc = "idle" BY NeatReader DEF Subscribe
<1>4. "start" \in Labels /\ 0 \in Procs BY IdleTyped DEF Labels
<1>5. r \in Process /\ r.pc = "start" BY <1>4, GoesTyped
<1>6. s.state = "replaying" OBVIOUS
<1>7. Becomes(c, connected[c], s, P, << >>, Back(c, n), Kept(c, n)) BY <1>1
<1> HIDE DEF r, s
<1>8. P[0] = r /\ \A q \in Procs \ {0} : P[q] = proc[c][q] BY <1>4, <1>5, WithFacts
<1> HIDE DEF P
<1>9. Neat(s, P) BY <1>2, <1>3, <1>5, <1>6, <1>8 DEF Neat
<1> QED BY <1>2, <1>7, <1>9, NeatStep

(* The end of a subscription.                                              *)
LEMMA NeatUnsubscribe ==
    ASSUME ClientTypeOK, \A d \in Clients : Neat(sub[d], proc[d]), NEW c \in Clients,
           Unsubscribe(c)
    PROVE  \A d \in Clients : Neat(sub[d], proc[d])'
<1>1. PICK n \in Retained(c) : Becomes(c, connected[c], NoSub, proc[c], << >>, Back(c, n), Kept(c, n))
  BY UnsubscribeBecomes
<1>2. ownerKnown' = ownerKnown /\ Neat(sub[c], proc[c]) BY DEF Unsubscribe
<1>3. NoSub.state = "none" BY IdleTyped
<1> HIDE DEF NoSub
<1>4. Neat(NoSub, proc[c]) BY <1>2, <1>3 DEF Neat
<1> QED BY <1>1, <1>2, <1>4, NeatStep

(* With patient clients, after init and without restarts, all stay         *)
(* orderly.                                                                *)
LEMMA OrderlyStep ==
    ASSUME ~Impatient, ~EarlySubscribe, MaxRestarts = 0
    PROVE  BaseInv /\ Orderly /\ [Next]_vars => Orderly'
<1> SUFFICES ASSUME BaseInv, Orderly, [Next]_vars PROVE Orderly' OBVIOUS
<1> DEFINE Nice == \A d \in Clients : Neat(sub[d], proc[d])'
           Good == Nice /\ misled' = {} /\ restarts' = 0
<1>0. Good => Orderly' BY DEF Orderly, Neat, Faithful
<1> SUFFICES Good BY <1>0
<1>1. /\ HubInv /\ ClientTypeOK /\ \A d \in Clients : Neat(sub[d], proc[d])
      /\ misled = {} /\ restarts = 0
  BY NeatParts DEF BaseInv, Faithful
<1>2. ASSUME UNCHANGED <<sub, proc, misled, restarts>>, ownerKnown => ownerKnown' PROVE Good
  BY <1>1, <1>2, NeatSame
<1>3. ASSUME Nice, UNCHANGED <<misled, restarts>> PROVE Good BY <1>1, <1>3
<1> HIDE DEF Good
<1>4. CASE InitOperation BY <1>2, <1>4 DEF InitOperation
<1>5. ASSUME NEW k \in 1..MaxInits, NotifyStep(k) PROVE Good
  <2>1. UNCHANGED <<misled, restarts, ownerKnown>>
    BY <1>5 DEF NotifyStep, NotifySnapshot, NotifyVisit, boundVars
  <2>2. UNCHANGED <<sub, proc>>
    <3>1. \A c \in Clients : sub[c].state # "pending" BY <1>1 DEF Neat
    <3> QED BY <1>5, <3>1 DEF NotifyStep, NotifySnapshot, NotifyVisit
  <2> QED BY <1>2, <2>1, <2>2
<1>6. ASSUME NEW c \in Clients, DrainDeliver(c) PROVE Good
  <2>1. Nice BY <1>1, <1>6, NeatDeliver
  <2> QED BY <1>3, <1>6, <2>1 DEF DrainDeliver, boundVars
<1>7. ASSUME NEW c \in Clients, EvictVisit(c) \/ Disconnect(c) PROVE Good
  <2>1. UNCHANGED <<misled, restarts, ownerKnown>> BY <1>7 DEF EvictVisit, Disconnect, boundVars
  <2>2. CASE Closed(c)
    <3>1. Nice BY <1>1, <2>1, <2>2, NeatClosed
    <3> QED BY <1>3, <2>1, <3>1
  <2>3. CASE ~Closed(c)
    <3>1. UNCHANGED connVars BY <1>7, <2>3 DEF EvictVisit, Disconnect
    <3> QED BY <1>2, <2>1, <3>1 DEF connVars
  <2> QED BY <2>2, <2>3
<1>8. CASE DrainTake \/ DrainTarget \/ EvictSnapshot
  BY <1>2, <1>8 DEF DrainTake, DrainTarget, EvictSnapshot, connVars, boundVars
<1>9. ASSUME NEW c \in Clients, Connect(c) PROVE Good
  BY <1>2, <1>9 DEF Connect, boundVars
<1>10. ASSUME NEW c \in Clients, Subscribe(c) PROVE Good
  <2>1. misled' = misled BY <1>10, NeatReader DEF Subscribe
  <2>2. Nice BY <1>1, <1>10, NeatSubscribe
  <2> QED BY <1>3, <1>10, <2>1, <2>2 DEF Subscribe
<1>11. ASSUME NEW c \in Clients, Unsubscribe(c) PROVE Good
  <2>1. misled' = misled BY <1>11, NeatReader DEF Unsubscribe
  <2>2. Nice BY <1>1, <1>11, NeatUnsubscribe
  <2> QED BY <1>3, <1>11, <2>1, <2>2 DEF Unsubscribe
<1>12. ASSUME NEW c \in Clients, NEW p \in Procs, CompleteSubscribe(c, p) PROVE Good
  BY <1>1, <1>12, NeatComplete DEF Good
<1>13. CASE Restart BY <1>1, <1>13 DEF Restart
<1>14. CASE UNCHANGED vars BY <1>2, <1>14 DEF vars, connVars, boundVars
<1>15. ASSUME NEW kind \in Payloads, PushEvent(kind) PROVE Good
  BY <1>2, <1>15 DEF PushEvent, connVars, boundVars
<1> QED BY <1>4, <1>5, <1>6, <1>7, <1>8, <1>9, <1>10, <1>11, <1>12, <1>13, <1>14, <1>15
    DEF Next, DrainStep

(* Orderly at the start.                                                   *)
LEMMA OrderlyInit == Init => Orderly
<1> SUFFICES ASSUME Init PROVE Orderly OBVIOUS
<1>1. /\ misled = {} /\ restarts = 0
      /\ \A c \in Clients : sub[c] = NoSub /\ proc[c] = NoProcs
  BY DEF Init, NoProcs
<1>2. (\A q \in Procs : NoProcs[q].pc = "idle") /\ 0 \in Procs /\ NoSub.state = "none"
  BY IdleTyped DEF NoProcs
<1> HIDE DEF NoProcs, NoSub
<1> QED BY <1>1, <1>2 DEF Orderly, Faithful

(* With clients that subscribe once init has landed and wait for the       *)
(* completion of a subscription before they change it, in one incarnation  *)
(* of the process, the hub implements the feed that is promised.           *)
THEOREM HubImplementsFeed ==
    ASSUME ~Impatient, ~EarlySubscribe, MaxRestarts = 0
    PROVE  Spec => ImplementsFeed
<1>1. BaseInv /\ Orderly /\ [Next]_vars => Orderly' BY OrderlyStep
<1>2. TrackInv => BaseInv BY DEF TrackInv
<1>3. Spec => []Orderly BY <1>1, <1>2, OrderlyInit, TrackInduction, PTL DEF Spec
<1>4. Orderly => Faithful BY DEF Orderly
<1> QED BY <1>3, <1>4, HubRefinesFeed, PTL
=============================================================================
