-------------------------- MODULE LLMReplay_proofs --------------------------
(***************************************************************************)
(* The relay never disturbs the log it stands on: its specification        *)
(* implements LogSpec, and what EventLog_proofs shows of the log holds of  *)
(* an operation with a relay, for any calls and any buffer sizes.          *)
(*                                                                         *)
(* What a resuming client is handed follows from how the buffer and the    *)
(* open attempts agree: a buffered attempt is the open one of its call,    *)
(* unless that was closed or executed again, and open attempts have ids of *)
(* their own.  Then the ids of what is handed out are distinct, and the    *)
(* list sorted by them has each once (RankLists).                          *)
(***************************************************************************)
EXTENDS LLMReplay, EventLog_proofs, FiniteSetTheorems

USE LLMAssumption

(* Every step of the relay logs one event or leaves the log alone.         *)
LEMMA StepKeepsLog == [Next]_vars => [LogNext]_logVars
<1> SUFFICES ASSUME [Next]_vars PROVE [LogNext]_logVars OBVIOUS
<1>1. NoCall \in Payloads /\ Calls \subseteq Payloads OBVIOUS
<1>2. CASE PushEvent BY <1>1, <1>2 DEF PushEvent, LogNext
<1>3. CASE \E call \in Calls :
              LLMExecute(call) \/ LLMCancel(call) \/ LLMClose(call) \/ Expire(call)
  BY <1>1, <1>3 DEF LLMExecute, LLMCancel, LLMClose, Expire, LogNext, logVars
<1>4. CASE EndOperation BY <1>1, <1>4 DEF EndOperation, LogNext
<1>5. CASE Reopen \/ Resume BY <1>5 DEF Reopen, Resume
<1>6. CASE UNCHANGED vars BY <1>6 DEF vars, logVars
<1> QED BY <1>2, <1>3, <1>4, <1>5, <1>6 DEF Next

(* An operation with a relay implements the log.                           *)
THEOREM RelayImplementsLog == Spec => LogSpec
<1>1. Init => LogInit BY DEF Init
<1> QED BY <1>1, StepKeepsLog, PTL DEF Spec, LogSpec

(* Of an operation with a relay, too, the buffer is a bounded suffix of    *)
(* the log, ...                                                            *)
THEOREM RelayBufferIsSuffix == Spec => []BufferIsSuffix
<1>1. LogTypeOK /\ BufferIsSuffix => BufferIsSuffix OBVIOUS
<1> QED BY <1>1, RelayImplementsLog, LogSuffix, PTL

(* ... the gap flag a resuming client is sent is exact, ...                *)
THEOREM RelayGapIsExact == Spec => []GapIsExact
BY RelayImplementsLog, LogGapIsExact, PTL

(* ... and ids are stable.                                                 *)
THEOREM RelayIdsAreStable == Spec => IdsAreStable
BY RelayImplementsLog, LogIdsAreStable, PTL

(* An open attempt was executed: the type invariant is inductive with it.  *)
OpenIsExecuted == \A c \in Calls : openLLM[c] # 0 => c \in executed

(* The relay's own part of the type invariant, term by term.               *)
OpenTyped == openLLM \in [Calls -> 0..eventCounter]
ExpiredTyped == expired \subseteq {c \in Calls : openLLM[c] # 0}
RetiredTyped == retired \subseteq 1..eventCounter
HistoryTyped == ended \in BOOLEAN /\ executed \subseteq Calls /\ revived \subseteq executed

RInv == LogTypeOK /\ OpenTyped /\ ExpiredTyped /\ RetiredTyped /\ HistoryTyped /\ OpenIsExecuted

(* The ids of open attempts are ids of the log.                            *)
LEMMA OpenIdsLogged == LogTypeOK /\ OpenTyped => OpenIds \subseteq 1..eventCounter
<1> SUFFICES ASSUME LogTypeOK, OpenTyped, NEW c \in Calls, openLLM[c] # 0
             PROVE  openLLM[c] \in 1..eventCounter
  BY DEF OpenIds
<1>1. eventCounter \in Nat BY EventLogAssumption DEF LogTypeOK
<1>2. openLLM[c] \in 0..eventCounter BY DEF OpenTyped
<1> QED BY <1>1, <1>2

(* A step preserves the invariant, given the log's part of it.             *)
LEMMA StepKeepsType == RInv /\ LogTypeOK' /\ [Next]_vars => RInv'
<1> SUFFICES ASSUME RInv, LogTypeOK', [Next]_vars PROVE RInv' OBVIOUS
<1> USE DEF RInv
<1>1. eventCounter \in Nat BY EventLogAssumption DEF LogTypeOK
<1>2. OpenIds \subseteq 1..eventCounter BY OpenIdsLogged
<1>3. ASSUME NEW call \in Calls, openLLM[call] # 0 PROVE openLLM[call] \in 1..eventCounter
  BY <1>2, <1>3 DEF OpenIds
<1>4. ASSUME NEW payload, Record(payload) PROVE eventCounter' = eventCounter + 1
  BY <1>4 DEF Record
<1>5. ASSUME eventCounter' \in {eventCounter, eventCounter + 1}
      PROVE  0..eventCounter \subseteq 0..eventCounter' /\ 1..eventCounter \subseteq 1..eventCounter'
  BY <1>1, <1>5
<1>6. ASSUME UNCHANGED llmVars, eventCounter' \in {eventCounter, eventCounter + 1} PROVE RInv'
  BY <1>5, <1>6 DEF llmVars, OpenTyped, ExpiredTyped, RetiredTyped, HistoryTyped, OpenIsExecuted
<1>7. CASE PushEvent BY <1>4, <1>6, <1>7 DEF PushEvent
<1>8. ASSUME NEW call \in Calls, LLMExecute(call) PROVE RInv'
  <2> USE <1>8 DEF LLMExecute
  <2>1. eventCounter' = eventCounter + 1 BY <1>4
  <2>2. OpenTyped' BY <1>1, <2>1 DEF OpenTyped
  <2>3. ExpiredTyped' BY <1>1 DEF OpenTyped, ExpiredTyped
  <2>4. RetiredTyped' BY <1>5, <2>1 DEF RetiredTyped
  <2>5. HistoryTyped' BY DEF HistoryTyped
  <2>6. OpenIsExecuted' BY DEF OpenTyped, OpenIsExecuted
  <2> QED BY <2>2, <2>3, <2>4, <2>5, <2>6
(* Cancelling, closing or expiring an attempt retires its id.              *)
<1>9. ASSUME NEW call \in Calls, LLMCancel(call) \/ LLMClose(call) \/ Expire(call) PROVE RInv'
  <2>1. eventCounter' \in {eventCounter, eventCounter + 1}
    BY <1>4, <1>9 DEF LLMCancel, LLMClose, Expire, logVars
  <2>2. \/ openLLM' = Deleted(call) /\ expired' = expired \ {call}
        \/ openLLM' = openLLM /\ expired' = expired \cup {call} /\ openLLM[call] # 0
    <3>1. CASE LLMCancel(call) BY <3>1 DEF LLMCancel
    <3>2. CASE LLMClose(call) BY <3>2 DEF LLMClose
    <3>3. CASE Expire(call) BY <3>3 DEF Expire
    <3> QED BY <1>9, <3>1, <3>2, <3>3
  <2>3. retired' \subseteq retired \cup ({openLLM[call]} \ {0})
    BY <1>9 DEF LLMCancel, LLMClose, Expire
  <2>4. OpenTyped' BY <1>1, <1>5, <2>1, <2>2 DEF OpenTyped, Deleted
  <2>5. ExpiredTyped' BY <2>2 DEF OpenTyped, ExpiredTyped, Deleted
  <2>6. RetiredTyped' BY <1>3, <1>5, <2>1, <2>3 DEF RetiredTyped
  <2>7. UNCHANGED <<ended, executed, revived>> BY <1>9 DEF LLMCancel, LLMClose, Expire
  <2>8. HistoryTyped' BY <2>7 DEF HistoryTyped
  <2>9. OpenIsExecuted' BY <2>2, <2>7 DEF OpenTyped, OpenIsExecuted, Deleted
  <2> QED BY <2>4, <2>5, <2>6, <2>8, <2>9
<1>10. CASE EndOperation
  <2> USE <1>10 DEF EndOperation
  <2>1. eventCounter' = eventCounter + 1 BY <1>4
  <2>2. RetiredTyped' BY <1>2, <1>5, <2>1 DEF RetiredTyped
  <2>3. OpenTyped' BY <1>5, <2>1 DEF OpenTyped
  <2>4. ExpiredTyped' /\ HistoryTyped' /\ OpenIsExecuted'
    BY DEF ExpiredTyped, HistoryTyped, OpenIsExecuted
  <2> QED BY <2>2, <2>3, <2>4
<1>11. CASE Reopen
  <2>1. revived' = revived \cup {c \in Calls : openLLM[c] # 0} /\ ended' = FALSE
        /\ UNCHANGED <<eventCounter, openLLM, expired, executed, retired>>
    BY <1>11 DEF Reopen, logVars
  <2>2. HistoryTyped' BY <2>1 DEF HistoryTyped, OpenIsExecuted
  <2> QED BY <2>1, <2>2 DEF OpenTyped, ExpiredTyped, RetiredTyped, OpenIsExecuted
(* A resume only closes attempts, ended or expired.                        *)
<1>12. CASE Resume
  <2>1. /\ openLLM' = Pruned /\ expired' = {}
        /\ UNCHANGED <<eventCounter, ended, executed, retired, revived>>
    BY <1>12 DEF Resume, logVars
  <2>2. OpenTyped' BY <1>1, <2>1 DEF OpenTyped, Pruned
  <2>3. OpenIsExecuted' BY <2>1 DEF OpenIsExecuted, Pruned
  <2> QED BY <2>1, <2>2, <2>3 DEF ExpiredTyped, RetiredTyped, HistoryTyped
<1>13. CASE UNCHANGED vars BY <1>6, <1>13 DEF vars, logVars
<1> QED BY <1>7, <1>8, <1>9, <1>10, <1>11, <1>12, <1>13 DEF Next

(* An operation starts with no attempt.                                    *)
LEMMA RelayInit == ASSUME Init, LogTypeOK PROVE RInv
<1> USE DEF Init, LogInit
<1>1. OpenTyped BY DEF OpenTyped
<1> QED BY <1>1 DEF RInv, ExpiredTyped, RetiredTyped, HistoryTyped, OpenIsExecuted

(* The relay is well typed: an open attempt carries an id of the log, only *)
(* an open one is expired, and only logged ids are retired.                *)
THEOREM RelayTypeOK == Spec => []TypeOK
<1>1. Init /\ LogTypeOK => RInv BY RelayInit
<1>2. Spec => []LogTypeOK
  <2>1. LogTypeOK /\ BufferIsSuffix => LogTypeOK OBVIOUS
  <2> QED BY <2>1, RelayImplementsLog, LogSuffix, PTL
<1>3. RInv => TypeOK
  BY DEF RInv, OpenTyped, ExpiredTyped, RetiredTyped, HistoryTyped, TypeOK
<1> QED BY <1>1, <1>2, <1>3, StepKeepsType, PTL DEF Spec

-----------------------------------------------------------------------------
(* The contents of a replay.                                               *)

(* Elements are listed in the order of their keys, each once, if each is   *)
(* put where the number of those with a smaller key says.                  *)
LEMMA RankLists ==
    ASSUME NEW S, IsFiniteSet(S), NEW key \in [S -> Nat],
           \A x, y \in S : key[x] = key[y] => x = y
    PROVE  LET n == Cardinality(S)
               Below(x) == {y \in S : key[y] < key[x]}
           IN  /\ n \in Nat
               /\ \A i \in 1..n : \E x \in S : Cardinality(Below(x)) = i - 1
               /\ \A f \in [1..n -> S] :
                     (\A i \in 1..n : Cardinality(Below(f[i])) = i - 1) =>
                         /\ \A x \in S : \E i \in 1..n : f[i] = x
                         /\ \A i, j \in 1..n : i < j => key[f[i]] < key[f[j]]
<1> DEFINE n == Cardinality(S)
           Below(x) == {y \in S : key[y] < key[x]}
           place == [x \in S |-> Cardinality(Below(x)) + 1]
<1>1. n \in Nat BY FS_CardinalityType
<1>2. ASSUME NEW x \in S
      PROVE  IsFiniteSet(Below(x)) /\ Cardinality(Below(x)) \in Nat /\ place[x] \in 1..n
  <2>1. Below(x) \subseteq S /\ x \notin Below(x)
    <3>1. key[x] \in Nat /\ ~(key[x] < key[x]) OBVIOUS
    <3> QED BY <3>1
  <2>2. /\ IsFiniteSet(Below(x)) /\ Cardinality(Below(x)) \in Nat
        /\ Cardinality(Below(x)) <= n /\ (Cardinality(Below(x)) = n => Below(x) = S)
    <3> HIDE DEF Below
    <3> QED BY <2>1, FS_Subset, FS_CardinalityType
  <2>3. Cardinality(Below(x)) # n BY <2>1, <2>2
  <2>4. place[x] = Cardinality(Below(x)) + 1 OBVIOUS
  <2> HIDE DEF Below, place
  <2> QED BY <1>1, <2>2, <2>3, <2>4
<1>3. ASSUME NEW x \in S, NEW y \in S, key[x] < key[y] PROVE place[x] < place[y]
  <2>1. Below(x) \subseteq Below(y) /\ x \in Below(y) /\ x \notin Below(x)
    <3>1. \A z \in S : key[z] \in Nat OBVIOUS
    <3>2. \A z \in S : key[z] < key[x] => key[z] < key[y] BY <1>3, <3>1
    <3>3. ~(key[x] < key[x]) BY <3>1
    <3> QED BY <1>3, <3>2, <3>3
  <2>2. /\ Cardinality(Below(x)) <= Cardinality(Below(y))
        /\ Cardinality(Below(x)) = Cardinality(Below(y)) => Below(x) = Below(y)
    <3> HIDE DEF Below
    <3> QED BY <1>2, <2>1, FS_Subset
  <2>3. Cardinality(Below(x)) # Cardinality(Below(y)) BY <2>1, <2>2
  <2>4. place[x] = Cardinality(Below(x)) + 1 /\ place[y] = Cardinality(Below(y)) + 1 OBVIOUS
  <2> HIDE DEF Below, place
  <2> QED BY <1>2, <2>2, <2>3, <2>4
<1>4. \A x, y \in S : place[x] = place[y] => x = y
  <2> SUFFICES ASSUME NEW x \in S, NEW y \in S, place[x] = place[y], x # y PROVE FALSE
    OBVIOUS
  <2>1. key[x] \in Nat /\ key[y] \in Nat /\ key[x] # key[y] OBVIOUS
  <2>2. key[x] < key[y] \/ key[y] < key[x] BY <2>1
  <2>3. place[x] < place[y] \/ place[y] < place[x] BY <1>3, <2>2
  <2>4. place[x] \in 1..n /\ place[y] \in 1..n BY <1>2
  <2> HIDE DEF place
  <2> QED BY <1>1, <2>3, <2>4
<1>5. \A i \in 1..n : \E x \in S : place[x] = i
  <2>1. place \in Injection(S, 1..n)
    <3>1. place \in [S -> 1..n] BY <1>2
    <3> HIDE DEF place
    <3> QED BY <1>4, <3>1 DEF Injection, IsInjective
  <2>2. IsFiniteSet(1..n) /\ Cardinality(1..n) = n BY <1>1, FS_Interval
  <2> HIDE DEF place
  <2>3. place \in Surjection(S, 1..n) BY <2>1, <2>2, FS_Injection
  <2> QED BY <2>3 DEF Surjection
<1>6. ASSUME NEW i \in 1..n PROVE \E x \in S : Cardinality(Below(x)) = i - 1
  <2>1. PICK x \in S : place[x] = i BY <1>5
  <2>2. place[x] = Cardinality(Below(x)) + 1 OBVIOUS
  <2>3. Cardinality(Below(x)) \in Nat BY <1>2
  <2> HIDE DEF Below, place
  <2>4. Cardinality(Below(x)) = i - 1 BY <2>1, <2>2, <2>3
  <2> QED BY <2>4
<1>7. ASSUME NEW f \in [1..n -> S], \A i \in 1..n : Cardinality(Below(f[i])) = i - 1
      PROVE  /\ \A x \in S : \E i \in 1..n : f[i] = x
             /\ \A i, j \in 1..n : i < j => key[f[i]] < key[f[j]]
  <2>1. ASSUME NEW i \in 1..n PROVE f[i] \in S /\ place[f[i]] = i
    <3>1. f[i] \in S /\ Cardinality(Below(f[i])) = i - 1 BY <1>7
    <3>2. place[f[i]] = Cardinality(Below(f[i])) + 1 BY <3>1
    <3> HIDE DEF Below, place
    <3> QED BY <1>1, <3>1, <3>2
  <2>2. ASSUME NEW x \in S PROVE \E i \in 1..n : f[i] = x
    <3>1. place[x] \in 1..n BY <1>2
    <3>2. f[place[x]] \in S /\ place[f[place[x]]] = place[x] BY <2>1, <3>1
    <3>3. f[place[x]] = x BY <1>4, <3>2
    <3> QED BY <3>1, <3>3
  <2>3. ASSUME NEW i \in 1..n, NEW j \in 1..n, i < j PROVE key[f[i]] < key[f[j]]
    <3>1. f[i] \in S /\ place[f[i]] = i /\ f[j] \in S /\ place[f[j]] = j BY <2>1
    <3> HIDE DEF place
    <3>2. key[f[i]] \in Nat /\ key[f[j]] \in Nat BY <3>1
    <3>3. CASE key[f[j]] = key[f[i]] BY <1>1, <2>3, <3>1, <3>3
    <3>4. CASE key[f[j]] < key[f[i]]
      <4>1. place[f[j]] < place[f[i]] BY <1>3, <3>1, <3>4
      <4> QED BY <1>1, <2>3, <3>1, <4>1
    <3> QED BY <3>2, <3>3, <3>4
  <2> QED BY <2>2, <2>3
<1> QED BY <1>1, <1>6, <1>7

(* Two open attempts never carry one id.                                   *)
OpenDistinct ==
    \A c, d \in Calls : (openLLM[c] # 0 /\ openLLM[c] = openLLM[d]) => c = d

(* A retired attempt that is still open is one a resume will prune, unless *)
(* its call was revived.                                                   *)
RetiredIsPruned ==
    \A c \in Calls : openLLM[c] \in retired => ended \/ c \in expired \/ c \in revived

(* A buffered attempt is the open one of its call, unless that was closed  *)
(* or the call was executed again, and never later than it; no other event *)
(* has an attempt's id.                                                    *)
AttemptAgrees(event) ==
    IF event.payload = NoCall
    THEN event.id \notin retired \cup OpenIds
    ELSE /\ event.payload \in executed
         /\ event.payload \notin revived => openLLM[event.payload] \in {0, event.id}
         /\ openLLM[event.payload] = 0 \/ event.id <= openLLM[event.payload]

BufferAgrees == \A i \in DOMAIN eventBuffer : AttemptAgrees(eventBuffer[i])

(* The inductive invariant.                                                *)
ReplayInv == RInv /\ BufferIsSuffix /\ OpenDistinct /\ RetiredIsPruned /\ BufferAgrees

(* What is in the buffer after a step is the event it recorded or was      *)
(* there before, with an id of the log.                                    *)
LEMMA RecordedOrOld ==
    ASSUME LogTypeOK, BufferIsSuffix, NEW p \in Payloads, Record(p)
    PROVE  /\ eventCounter \in Nat /\ eventCounter' = eventCounter + 1
           /\ \A i \in DOMAIN eventBuffer' :
                 \/ eventBuffer'[i] = [id |-> eventCounter + 1, payload |-> p]
                 \/ \E j \in DOMAIN eventBuffer : eventBuffer'[i] = eventBuffer[j]
<1> DEFINE e == [id |-> eventCounter + 1, payload |-> p]
           b == eventBuffer
           r == Buffered(b, e)
           n == Len(r)
<1>1. eventCounter \in Nat /\ b \in Seq(BufferedEvent) /\ Len(b) <= EventBufferMax
  BY EventLogAssumption DEF LogTypeOK, BufferIsSuffix
<1>2. e \in BufferedEvent BY <1>1 DEF BufferedEvent
<1>3. eventCounter' = eventCounter + 1 /\ eventBuffer' = r BY DEF Record
<1> HIDE DEF e
<1>4. /\ r \in Seq(BufferedEvent) /\ 1 <= n /\ r[n] = e
      /\ \A i \in 1..(n - 1) : /\ Len(b) + 1 - n + i \in 1..Len(b)
                               /\ r[i] = b[Len(b) + 1 - n + i]
  BY <1>1, <1>2, BufferedFacts
<1> HIDE DEF r
<1>5. n \in Nat /\ DOMAIN r = 1..n /\ DOMAIN b = 1..Len(b) BY <1>1, <1>4, LenProperties
<1>6. ASSUME NEW i \in 1..n PROVE r[i] = e \/ \E j \in DOMAIN b : r[i] = b[j]
  <2>1. i = n \/ i \in 1..(n - 1)
    <3> HIDE DEF n
    <3> QED BY <1>5
  <2>2. CASE i = n BY <1>4, <2>2
  <2>3. CASE i \in 1..(n - 1)
    <3> DEFINE j == Len(b) + 1 - n + i
    <3>1. j \in 1..Len(b) /\ r[i] = b[j] BY <1>4, <2>3
    <3> HIDE DEF j
    <3> QED BY <1>5, <3>1
  <2> QED BY <2>1, <2>2, <2>3
<1> QED BY <1>1, <1>3, <1>5, <1>6 DEF e

(* The ids of buffered events are those of the log, each once.             *)
LEMMA BufferedIds ==
    ASSUME LogTypeOK, BufferIsSuffix
    PROVE  /\ eventCounter \in Nat
           /\ \A i \in DOMAIN eventBuffer :
                 eventBuffer[i] \in BufferedEvent /\ eventBuffer[i].id \in 1..eventCounter
           /\ \A i, j \in DOMAIN eventBuffer :
                 eventBuffer[i].id = eventBuffer[j].id => i = j
<1>1. eventCounter \in Nat /\ eventBuffer \in Seq(BufferedEvent)
  BY EventLogAssumption DEF LogTypeOK
<1>2. Len(eventBuffer) \in Nat /\ DOMAIN eventBuffer = 1..Len(eventBuffer) BY <1>1, LenProperties
<1>3. \A i \in DOMAIN eventBuffer : eventBuffer[i] \in BufferedEvent BY <1>1, <1>2, ElementOfSeq
<1>4. /\ Len(eventBuffer) <= eventCounter
      /\ \A i \in DOMAIN eventBuffer : eventBuffer[i].id = eventCounter - Len(eventBuffer) + i
  BY DEF BufferIsSuffix
<1>5. \A i \in DOMAIN eventBuffer : eventBuffer[i].id \in 1..eventCounter
  <2> SUFFICES ASSUME NEW i \in 1..Len(eventBuffer)
               PROVE  eventCounter - Len(eventBuffer) + i \in 1..eventCounter
    BY <1>2, <1>4
  <2> QED BY <1>1, <1>2, <1>4
<1>6. ASSUME NEW i \in DOMAIN eventBuffer, NEW j \in DOMAIN eventBuffer,
             eventBuffer[i].id = eventBuffer[j].id
      PROVE  i = j
  <2>1. i \in Int /\ j \in Int BY <1>2
  <2>2. eventCounter - Len(eventBuffer) + i = eventCounter - Len(eventBuffer) + j
    BY <1>4, <1>6
  <2> QED BY <1>1, <1>2, <2>1, <2>2
<1> QED BY <1>1, <1>3, <1>5, <1>6

(* Every step but an execution only closes or retires attempts.            *)
Shrinks ==
    /\ \A c \in Calls : openLLM'[c] \in {0, openLLM[c]}
    /\ retired' \subseteq retired \cup OpenIds
    /\ executed' = executed /\ revived \subseteq revived'

(* What the steps that are no execution do to the attempts and to the log. *)
LEMMA StepShrinks ==
    ASSUME RInv, Next, ~ \E call \in Calls : LLMExecute(call)
    PROVE  Shrinks /\ (Record(NoCall) \/ UNCHANGED logVars)
<1>0. openLLM \in [Calls -> 0..eventCounter] BY DEF RInv, OpenTyped
<1>1. \A c \in Calls : {openLLM[c]} \ {0} \subseteq OpenIds BY DEF OpenIds
<1> USE DEF Shrinks
<1>2. CASE PushEvent BY <1>2 DEF PushEvent, llmVars
<1>3. ASSUME NEW call \in Calls, LLMCancel(call) PROVE Shrinks /\ Record(NoCall)
  BY <1>0, <1>1, <1>3 DEF LLMCancel, Deleted
<1>4. ASSUME NEW call \in Calls, LLMClose(call) PROVE Shrinks /\ UNCHANGED logVars
  BY <1>0, <1>1, <1>4 DEF LLMClose, Deleted
<1>5. ASSUME NEW call \in Calls, Expire(call) PROVE Shrinks /\ UNCHANGED logVars
  BY <1>0, <1>1, <1>5 DEF Expire
<1>6. CASE EndOperation BY <1>6 DEF EndOperation
<1>7. CASE Reopen BY <1>7 DEF Reopen
<1>8. CASE Resume BY <1>8 DEF Resume, Pruned
<1> QED BY <1>2, <1>3, <1>4, <1>5, <1>6, <1>7, <1>8 DEF Next

(* A step that only closes and retires leaves events in agreement.         *)
LEMMA ShrinkAgrees ==
    ASSUME Shrinks, NEW e, e.payload \in Payloads, AttemptAgrees(e)
    PROVE  AttemptAgrees(e)'
<1>1. e.payload = NoCall \/ e.payload \in Calls OBVIOUS
<1>2. OpenIds' \subseteq OpenIds BY DEF Shrinks, OpenIds
<1>3. CASE e.payload = NoCall BY <1>2, <1>3 DEF Shrinks, AttemptAgrees
<1>4. CASE e.payload # NoCall BY <1>1, <1>4 DEF Shrinks, AttemptAgrees
<1> QED BY <1>3, <1>4

(* So does an execution: its id is new, and a call that is executed again  *)
(* is revived.                                                             *)
LEMMA ExecuteAgrees ==
    ASSUME RInv, NEW call \in Calls, LLMExecute(call),
           NEW e, e.payload \in Payloads, e.id \in 1..eventCounter, AttemptAgrees(e)
    PROVE  AttemptAgrees(e)'
<1>1. /\ openLLM \in [Calls -> 0..eventCounter]
      /\ openLLM' = [openLLM EXCEPT ![call] = eventCounter + 1]
      /\ executed' = executed \cup {call} /\ revived' = revived \cup (executed \cap {call})
      /\ retired' = retired
  BY DEF LLMExecute, RInv, OpenTyped
<1>2. CASE e.payload = NoCall
  <2>1. e.id # eventCounter + 1
    <3>1. eventCounter \in Nat BY EventLogAssumption DEF RInv, LogTypeOK
    <3> QED BY <3>1
  <2>2. OpenIds' \subseteq OpenIds \cup {eventCounter + 1} BY <1>1 DEF OpenIds
  <2> QED BY <1>1, <1>2, <2>1, <2>2 DEF AttemptAgrees
<1>3. CASE e.payload = call
  <2>1. eventCounter \in Nat BY EventLogAssumption DEF RInv, LogTypeOK
  <2>2. openLLM'[call] = eventCounter + 1 BY <1>1
  <2>3. e.id <= eventCounter + 1 BY <2>1
  <2>4. e.payload \in executed /\ e.payload \in executed' /\ e.payload \in revived'
    BY <1>1, <1>3 DEF AttemptAgrees
  <2> QED BY <1>3, <2>2, <2>3, <2>4 DEF AttemptAgrees
<1>4. CASE e.payload \in Calls \ {call} BY <1>1, <1>4 DEF AttemptAgrees
<1> QED BY <1>2, <1>3, <1>4

(* The event a step records agrees with the attempts it leaves.            *)
LEMMA NewAgrees ==
    ASSUME RInv, NEW e, e.id = eventCounter + 1,
           \/ e.payload = NoCall /\ Shrinks
           \/ \E call \in Calls : e.payload = call /\ LLMExecute(call)
    PROVE  AttemptAgrees(e)'
<1>1. e.id \notin OpenIds \cup retired
  <2>1. eventCounter \in Nat BY EventLogAssumption DEF RInv, LogTypeOK
  <2>2. OpenIds \subseteq 1..eventCounter /\ retired \subseteq 1..eventCounter
    BY OpenIdsLogged DEF RInv, RetiredTyped
  <2>3. eventCounter + 1 \notin 1..eventCounter BY <2>1
  <2> QED BY <2>2, <2>3
<1>2. CASE e.payload = NoCall /\ Shrinks
  <2>1. OpenIds' \subseteq OpenIds BY <1>2 DEF Shrinks, OpenIds
  <2> QED BY <1>1, <1>2, <2>1 DEF Shrinks, AttemptAgrees
<1>3. ASSUME NEW call \in Calls, e.payload = call, LLMExecute(call) PROVE AttemptAgrees(e)'
  <2>1. eventCounter \in Nat BY EventLogAssumption DEF RInv, LogTypeOK
  <2>2. openLLM'[call] = eventCounter + 1 /\ call \in executed'
    BY <1>3 DEF LLMExecute, RInv, OpenTyped
  <2>3. e.id <= openLLM'[call] BY <2>1, <2>2
  <2> QED BY <1>3, <2>2, <2>3 DEF AttemptAgrees
<1> QED BY <1>2, <1>3

(* Every step leaves the buffer in agreement with the attempts, ...        *)
LEMMA StepAgrees ==
    ASSUME ReplayInv, Next
    PROVE  BufferAgrees'
<1>1. /\ RInv /\ LogTypeOK /\ BufferIsSuffix
      /\ \A i \in DOMAIN eventBuffer : AttemptAgrees(eventBuffer[i])
  BY DEF ReplayInv, RInv, BufferAgrees
<1>2. \A i \in DOMAIN eventBuffer :
         eventBuffer[i].payload \in Payloads /\ eventBuffer[i].id \in 1..eventCounter
  BY <1>1, BufferedIds DEF BufferedEvent
<1> SUFFICES ASSUME NEW i \in DOMAIN eventBuffer' PROVE AttemptAgrees(eventBuffer[i])'
  BY DEF BufferAgrees
<1>3. ASSUME NEW call \in Calls, LLMExecute(call) PROVE AttemptAgrees(eventBuffer[i])'
  <2>1. call \in Payloads /\ Record(call) BY <1>3 DEF LLMExecute
  <2>2. CASE eventBuffer'[i] = [id |-> eventCounter + 1, payload |-> call]
    <3>1. PICK e : e = eventBuffer'[i] /\ e.id = eventCounter + 1 /\ e.payload = call BY <2>2
    <3>2. AttemptAgrees(e)' BY <1>1, <1>3, <3>1, NewAgrees
    <3> QED BY <3>1, <3>2 DEF AttemptAgrees
  <2>3. ASSUME NEW j \in DOMAIN eventBuffer, eventBuffer'[i] = eventBuffer[j]
        PROVE  AttemptAgrees(eventBuffer[i])'
    <3>1. PICK e : e = eventBuffer[j] OBVIOUS
    <3>2. AttemptAgrees(e)' BY <1>1, <1>2, <1>3, <3>1, ExecuteAgrees
    <3> QED BY <2>3, <3>1, <3>2 DEF AttemptAgrees
  <2> QED BY <1>1, <2>1, <2>2, <2>3, RecordedOrOld
<1>4. CASE ~ \E call \in Calls : LLMExecute(call)
  <2>1. Shrinks /\ (Record(NoCall) \/ UNCHANGED logVars) BY <1>1, <1>4, StepShrinks
  <2>2. ASSUME NEW j \in DOMAIN eventBuffer, eventBuffer'[i] = eventBuffer[j]
        PROVE  AttemptAgrees(eventBuffer[i])'
    <3>1. PICK e : e = eventBuffer[j] OBVIOUS
    <3>2. AttemptAgrees(e)' BY <1>1, <1>2, <2>1, <3>1, ShrinkAgrees
    <3> QED BY <2>2, <3>1, <3>2 DEF AttemptAgrees
  <2>3. CASE eventBuffer'[i] = [id |-> eventCounter + 1, payload |-> NoCall]
    <3>1. PICK e : e = eventBuffer'[i] /\ e.id = eventCounter + 1 /\ e.payload = NoCall BY <2>3
    <3>2. AttemptAgrees(e)' BY <1>1, <2>1, <3>1, NewAgrees
    <3> QED BY <3>1, <3>2 DEF AttemptAgrees
  <2>4. CASE Record(NoCall)
    <3>1. NoCall \in Payloads OBVIOUS
    <3> QED BY <1>1, <2>2, <2>3, <2>4, <3>1, RecordedOrOld
  <2>5. CASE UNCHANGED logVars
    <3>1. eventBuffer' = eventBuffer BY <2>5 DEF logVars
    <3>2. i \in DOMAIN eventBuffer /\ eventBuffer'[i] = eventBuffer[i] BY <3>1
    <3> QED BY <2>2, <3>2
  <2> QED BY <2>1, <2>4, <2>5
<1> QED BY <1>3, <1>4

(* ... open attempts with ids of their own, ...                            *)
LEMMA StepDistinct ==
    ASSUME ReplayInv, Next
    PROVE  OpenDistinct'
<1>0. RInv /\ OpenDistinct /\ openLLM \in [Calls -> 0..eventCounter] /\ eventCounter \in Nat
  BY EventLogAssumption DEF ReplayInv, RInv, OpenTyped, LogTypeOK
<1>1. ASSUME NEW call \in Calls, LLMExecute(call) PROVE OpenDistinct'
  <2>1. openLLM' = [openLLM EXCEPT ![call] = eventCounter + 1] BY <1>1 DEF LLMExecute
  <2>2. \A c \in Calls : openLLM[c] # eventCounter + 1
    <3>1. \A c \in Calls : openLLM[c] \in 0..eventCounter BY <1>0
    <3> QED BY <1>0, <3>1
  <2> QED BY <1>0, <2>1, <2>2 DEF OpenDistinct
<1>2. CASE ~ \E call \in Calls : LLMExecute(call)
  <2>1. Shrinks BY <1>0, <1>2, StepShrinks
  <2> QED BY <1>0, <2>1 DEF Shrinks, OpenDistinct
<1> QED BY <1>1, <1>2

(* ... and those that were retired to be pruned.                           *)
LEMMA StepPruned ==
    ASSUME ReplayInv, Next
    PROVE  RetiredIsPruned'
<1>0. /\ openLLM \in [Calls -> 0..eventCounter] /\ eventCounter \in Nat
      /\ OpenDistinct /\ RetiredIsPruned /\ retired \subseteq 1..eventCounter
  BY EventLogAssumption DEF ReplayInv, RInv, OpenTyped, LogTypeOK, RetiredTyped
<1>1. 0 \notin retired /\ eventCounter + 1 \notin retired BY <1>0
<1> USE DEF RetiredIsPruned
<1>2. CASE PushEvent BY <1>0, <1>2 DEF PushEvent, llmVars
<1>3. ASSUME NEW call \in Calls, LLMExecute(call) PROVE RetiredIsPruned'
  BY <1>0, <1>1, <1>3 DEF LLMExecute
<1>4. ASSUME NEW call \in Calls, LLMCancel(call) \/ LLMClose(call) PROVE RetiredIsPruned'
  <2>1. /\ openLLM' = Deleted(call) /\ expired' = expired \ {call}
        /\ retired' \subseteq retired \cup ({openLLM[call]} \ {0})
        /\ UNCHANGED <<ended, revived>>
    BY <1>4 DEF LLMCancel, LLMClose
  <2>2. openLLM'[call] = 0 /\ \A c \in Calls : c # call => openLLM'[c] = openLLM[c]
    BY <1>0, <2>1 DEF Deleted
  <2>3. \A c \in Calls : c # call /\ openLLM[c] # 0 => openLLM[c] # openLLM[call]
    BY <1>0 DEF OpenDistinct
  <2>4. 0 \notin retired' BY <1>1, <2>1
  <2>5. \A c \in Calls : c # call /\ openLLM'[c] \in retired' => openLLM[c] \in retired
    BY <2>1, <2>2, <2>3, <2>4
  <2> QED BY <1>0, <2>1, <2>2, <2>4, <2>5
<1>5. ASSUME NEW call \in Calls, Expire(call) PROVE RetiredIsPruned'
  <2>1. \A c \in Calls : c # call /\ openLLM[c] # 0 => openLLM[c] # openLLM[call]
    BY <1>0 DEF OpenDistinct
  <2>2. /\ openLLM[call] # 0 /\ expired' = expired \cup {call}
        /\ retired' = retired \cup {openLLM[call]} /\ UNCHANGED <<openLLM, ended, revived>>
    BY <1>5 DEF Expire
  <2> QED BY <1>0, <1>1, <2>1, <2>2
<1>6. CASE EndOperation BY <1>6 DEF EndOperation
<1>7. CASE Reopen BY <1>0, <1>1, <1>7 DEF Reopen
<1>8. CASE Resume BY <1>0, <1>1, <1>8 DEF Resume, Pruned
<1> QED BY <1>2, <1>3, <1>4, <1>5, <1>6, <1>7, <1>8 DEF Next

(* Every step preserves the invariant.                                     *)
LEMMA ReplayStep ==
    ASSUME ReplayInv, LogTypeOK', BufferIsSuffix', [Next]_vars
    PROVE  ReplayInv'
<1>1. RInv' BY StepKeepsType DEF ReplayInv
<1>2. CASE Next BY <1>1, <1>2, StepAgrees, StepDistinct, StepPruned DEF ReplayInv
<1>3. CASE UNCHANGED vars
  <2>1. BufferAgrees' BY <1>3 DEF vars, logVars, llmVars, ReplayInv, BufferAgrees, AttemptAgrees,
                                  OpenIds
  <2>2. OpenDistinct' /\ RetiredIsPruned'
    BY <1>3 DEF vars, llmVars, ReplayInv, OpenDistinct, RetiredIsPruned
  <2> QED BY <1>1, <2>1, <2>2 DEF ReplayInv
<1> QED BY <1>2, <1>3

(* What is handed to a client has distinct ids.                            *)
LEMMA HandedIds ==
    ASSUME ReplayInv, NEW since \in Nat
    PROVE  /\ \A x \in Handed(since) : x[1].id \in 1..eventCounter
           /\ \A x, y \in Handed(since) : x[1].id = y[1].id => x = y
           /\ IsFiniteSet(Handed(since))
<1> DEFINE H == Handed(since)
           ids == [x \in H |-> x[1].id]
           B == FromBuffer(since)
           O == {event \in OpenAfter(since) : event.id \notin {e.id : e \in B}}
<1>0. RInv /\ LogTypeOK /\ BufferIsSuffix /\ OpenDistinct BY DEF ReplayInv, RInv
<1>1. /\ eventCounter \in Nat
      /\ \A i \in DOMAIN eventBuffer : eventBuffer[i].id \in 1..eventCounter
      /\ \A i, j \in DOMAIN eventBuffer : eventBuffer[i].id = eventBuffer[j].id => i = j
  BY <1>0, BufferedIds
<1>2. \A e \in B : \E i \in DOMAIN eventBuffer : e = eventBuffer[i]
  BY DEF FromBuffer, EventsAfter
<1>3. H = (B \X {"buffer"}) \cup (O \X {"open"}) BY DEF Handed
<1>4. /\ \A e \in B : e.id \in 1..eventCounter
      /\ \A e, g \in B : e.id = g.id => e = g
  BY <1>1, <1>2
<1>5. /\ \A e \in O : e.id \in 1..eventCounter
      /\ \A e, g \in O : e.id = g.id => e = g
      /\ \A e \in O, g \in B : e.id # g.id
  <2>1. \A c \in Calls : Pruned[c] \in {0, openLLM[c]} /\ openLLM[c] \in 0..eventCounter
    BY <1>0 DEF Pruned, RInv, OpenTyped
  <2>2. \A e \in O : \E c \in Calls :
           /\ e = [id |-> openLLM[c], payload |-> c] /\ openLLM[c] \in 1..eventCounter
    <3> SUFFICES ASSUME NEW c \in Calls, Pruned[c] > since
                 PROVE  Pruned[c] = openLLM[c] /\ openLLM[c] \in 1..eventCounter
      BY DEF OpenAfter
    <3> QED BY <1>1, <2>1
  <2>3. ASSUME NEW e \in O, NEW g \in O, e.id = g.id PROVE e = g
    <3>1. PICK c \in Calls :
             e = [id |-> openLLM[c], payload |-> c] /\ openLLM[c] \in 1..eventCounter
      BY <2>2
    <3>2. PICK d \in Calls :
             g = [id |-> openLLM[d], payload |-> d] /\ openLLM[d] \in 1..eventCounter
      BY <2>2
    <3>3. openLLM[c] = openLLM[d] /\ openLLM[c] # 0 BY <1>1, <2>3, <3>1, <3>2
    <3>4. c = d BY <1>0, <3>3 DEF OpenDistinct
    <3> QED BY <3>1, <3>2, <3>4
  <2>4. \A e \in O : e.id \in 1..eventCounter
    <3> HIDE DEF O
    <3> QED BY <2>2
  <2> QED BY <2>3, <2>4
<1> HIDE DEF B, O, H
<1>6. \A x \in H : \/ x[1] \in B /\ x = <<x[1], "buffer">>
                   \/ x[1] \in O /\ x = <<x[1], "open">>
  BY <1>3
<1>7. \A x \in H : x[1].id \in 1..eventCounter BY <1>4, <1>5, <1>6
<1>8. ASSUME NEW x \in H, NEW y \in H, x[1].id = y[1].id PROVE x = y
  <2>1. \/ x[1] \in B /\ y[1] \in B
        \/ x[1] \in O /\ y[1] \in O
    BY <1>5, <1>6, <1>8
  <2>2. x[1] = y[1] BY <1>4, <1>5, <1>8, <2>1
  <2>3. ~(x[1] \in B /\ x[1] \in O) BY <1>5
  <2> QED BY <1>6, <2>1, <2>2, <2>3
<1>9. IsFiniteSet(H)
  <2>1. ids \in Injection(H, 1..eventCounter)
    <3>1. ids \in [H -> 1..eventCounter] BY <1>7
    <3>2. \A x, y \in H : ids[x] = ids[y] => x = y BY <1>8
    <3> QED BY <3>1, <3>2 DEF Injection, IsInjective
  <2>2. IsFiniteSet(1..eventCounter) BY <1>1, FS_Interval
  <2> HIDE DEF ids
  <2> QED BY <2>1, <2>2, FS_Injection
<1> QED BY <1>7, <1>8, <1>9 DEF H

(* A replay lists what is handed to the client, by ascending id.           *)
LEMMA ReplayLists ==
    ASSUME ReplayInv, NEW since \in Nat
    PROVE  LET r == Replay(since)
               n == Len(r)
           IN  /\ n \in Nat /\ DOMAIN r = 1..n
               /\ \A i \in 1..n : \E x \in Handed(since) : r[i] = x[1]
               /\ \A x \in Handed(since) : \E i \in 1..n : r[i] = x[1]
               /\ \A i, j \in 1..n : i < j => r[i].id < r[j].id
               /\ \A i \in 1..n : r[i].id \in Nat
<1> DEFINE H == Handed(since)
           n == Cardinality(H)
           key == [x \in H |-> x[1].id]
           Below(x) == {y \in H : key[y] < key[x]}
           Before(x) == {y \in H : Precedes(y, x)}
           f == [i \in 1..n |-> CHOOSE x \in H : Cardinality(Before(x)) = i - 1]
           r == Replay(since)
<1>1. /\ \A x \in H : x[1].id \in 1..eventCounter
      /\ \A x, y \in H : x[1].id = y[1].id => x = y
      /\ IsFiniteSet(H) /\ eventCounter \in Nat
  BY HandedIds, BufferedIds DEF ReplayInv, RInv
<1>2. r = [i \in 1..n |-> (CHOOSE x \in H : Cardinality(Before(x)) = i - 1)[1]]
  BY DEF Replay
<1> HIDE DEF H, r
<1>3. key \in [H -> Nat] /\ \A x, y \in H : key[x] = key[y] => x = y BY <1>1
<1>4. \A x \in H : Before(x) = Below(x)
  <2> SUFFICES ASSUME NEW x \in H, NEW y \in H
               PROVE  Precedes(y, x) <=> key[y] < key[x]
    OBVIOUS
  <2>1. x[1].id \in Nat /\ y[1].id \in Nat BY <1>1
  <2>2. CASE x[1].id = y[1].id
    <3>1. x = y /\ ~(key[y] < key[x]) BY <1>1, <2>1, <2>2
    <3> QED BY <2>1, <3>1 DEF Precedes
  <2>3. CASE x[1].id # y[1].id BY <2>1, <2>3 DEF Precedes
  <2> QED BY <2>2, <2>3
<1>5. /\ n \in Nat
      /\ \A i \in 1..n : \E x \in H : Cardinality(Below(x)) = i - 1
      /\ \A g \in [1..n -> H] :
            (\A i \in 1..n : Cardinality(Below(g[i])) = i - 1) =>
                /\ \A x \in H : \E i \in 1..n : g[i] = x
                /\ \A i, j \in 1..n : i < j => key[g[i]] < key[g[j]]
  <2> HIDE DEF key
  <2> QED BY <1>1, <1>3, RankLists
<1> HIDE DEF Before, Below, n
<1>6. ASSUME NEW i \in 1..n PROVE f[i] \in H /\ Cardinality(Below(f[i])) = i - 1
  <2>1. \E x \in H : Cardinality(Before(x)) = i - 1 BY <1>4, <1>5
  <2>2. f[i] = CHOOSE x \in H : Cardinality(Before(x)) = i - 1 OBVIOUS
  <2> HIDE DEF f
  <2>3. f[i] \in H /\ Cardinality(Before(f[i])) = i - 1 BY <2>1, <2>2
  <2> QED BY <1>4, <2>3
<1>7. f \in [1..n -> H] BY <1>6
<1>8. /\ \A x \in H : \E i \in 1..n : f[i] = x
      /\ \A i, j \in 1..n : i < j => key[f[i]] < key[f[j]]
  <2> HIDE DEF f, key
  <2> QED BY <1>5, <1>6, <1>7
<1>9. DOMAIN r = 1..n /\ \A i \in 1..n : r[i] = f[i][1]
  BY <1>2 DEF Before
<1>10. \A i \in 1..n : f[i] \in H /\ key[f[i]] = r[i].id BY <1>6, <1>9
<1>11. Len(r) = n
  <2>1. r = [i \in 1..n |-> r[i]] BY <1>2, <1>9
  <2> QED BY <1>5, <2>1
<1> HIDE DEF f, key
<1>12. \A i \in 1..n : r[i].id \in Nat BY <1>3, <1>10
<1>13. \A x \in H : \E i \in 1..n : r[i] = x[1] BY <1>8, <1>9
<1>14. \A i \in 1..n : \E x \in H : r[i] = x[1] BY <1>9, <1>10
<1>15. \A i, j \in 1..n : i < j => r[i].id < r[j].id BY <1>8, <1>10
<1>16. n \in Nat BY <1>5
<1> QED BY <1>9, <1>11, <1>12, <1>13, <1>14, <1>15, <1>16 DEF H, r

(* A resume hands out what it should, in order and nothing twice.          *)
LEMMA ReplayContents == ReplayInv => ReplayIsExact
<1> SUFFICES ASSUME ReplayInv, NEW since \in 0..eventCounter
             PROVE  /\ ~ended => \A c \in Calls :
                          (openLLM[c] > since /\ c \notin expired)
                              => openLLM[c] \in ReplayIds(since)
                    /\ \A i \in DOMAIN eventBuffer :
                          (eventBuffer[i].id > since /\ eventBuffer[i].payload = NoCall)
                              => eventBuffer[i].id \in ReplayIds(since)
                    /\ \A i \in 2..Len(Replay(since)) :
                          Replay(since)[i - 1].id < Replay(since)[i].id
  BY DEF ReplayIsExact
<1>1. since \in Nat BY EventLogAssumption DEF ReplayInv, RInv, LogTypeOK
<1> DEFINE r == Replay(since)
           n == Len(r)
<1>2. /\ n \in Nat /\ DOMAIN r = 1..n
      /\ \A x \in Handed(since) : \E i \in 1..n : r[i] = x[1]
      /\ \A i, j \in 1..n : i < j => r[i].id < r[j].id
  BY <1>1, ReplayLists
<1> HIDE DEF r
<1>3. \A x \in Handed(since) : x[1].id \in ReplayIds(since) BY <1>2 DEF ReplayIds, r
<1>4. \A e \in FromBuffer(since) : e.id \in ReplayIds(since)
  <2> SUFFICES ASSUME NEW e \in FromBuffer(since) PROVE e.id \in ReplayIds(since) OBVIOUS
  <2>1. <<e, "buffer">> \in Handed(since) BY DEF Handed
  <2>2. <<e, "buffer">>[1] = e OBVIOUS
  <2> QED BY <1>3, <2>1, <2>2
<1>5. \A e \in OpenAfter(since) : e.id \in ReplayIds(since)
  <2> SUFFICES ASSUME NEW e \in OpenAfter(since) PROVE e.id \in ReplayIds(since) OBVIOUS
  <2>1. CASE \E g \in FromBuffer(since) : g.id = e.id BY <1>4, <2>1
  <2>2. CASE ~ \E g \in FromBuffer(since) : g.id = e.id
    <3>1. <<e, "open">> \in Handed(since) BY <2>2 DEF Handed
    <3>2. <<e, "open">>[1] = e OBVIOUS
    <3> QED BY <1>3, <3>1, <3>2
  <2> QED BY <2>1, <2>2
<1>6. ASSUME ~ended, NEW c \in Calls, openLLM[c] > since, c \notin expired
      PROVE  openLLM[c] \in ReplayIds(since)
  <2>1. Pruned[c] = openLLM[c] BY <1>6 DEF Pruned
  <2>2. [id |-> openLLM[c], payload |-> c] \in OpenAfter(since) BY <1>6, <2>1 DEF OpenAfter
  <2> QED BY <1>5, <2>2
<1>7. ASSUME NEW i \in DOMAIN eventBuffer, eventBuffer[i].id > since,
             eventBuffer[i].payload = NoCall
      PROVE  eventBuffer[i].id \in ReplayIds(since)
  <2>1. eventBuffer[i] \in FromBuffer(since) BY <1>7 DEF FromBuffer, EventsAfter, Replayable
  <2> QED BY <1>4, <2>1
<1>8. \A i \in 2..n : r[i - 1].id < r[i].id
  <2> SUFFICES ASSUME NEW i \in 2..n PROVE r[i - 1].id < r[i].id OBVIOUS
  <2>1. i \in 1..n /\ i - 1 \in 1..n /\ i - 1 < i BY <1>2
  <2> QED BY <1>2, <2>1
<1> QED BY <1>6, <1>7, <1>8 DEF r

(* No attempt that was retired is among them, unless its call was revived  *)
(* and is open; and none that is later than the open one.                  *)
LEMMA ReplayOmitsRetired == ReplayInv => RetiredNotReplayed
<1> SUFFICES ASSUME ReplayInv, NEW since \in 0..eventCounter, NEW i \in DOMAIN Replay(since),
                    Replay(since)[i].id \in retired
             PROVE  /\ Replay(since)[i].payload \in revived
                    /\ Replay(since)[i].id <= Pruned[Replay(since)[i].payload]
  BY DEF RetiredNotReplayed
<1>0. /\ RInv /\ LogTypeOK /\ BufferIsSuffix /\ RetiredIsPruned
      /\ \A j \in DOMAIN eventBuffer : AttemptAgrees(eventBuffer[j])
      /\ retired \subseteq 1..eventCounter /\ eventCounter \in Nat
      /\ openLLM \in [Calls -> 0..eventCounter]
  BY EventLogAssumption DEF ReplayInv, RInv, BufferAgrees, LogTypeOK, RetiredTyped, OpenTyped
<1>1. since \in Nat BY <1>0
<1>2. PICK x \in Handed(since) : Replay(since)[i] = x[1] BY <1>1, ReplayLists
<1>3. PICK e : e = x[1] OBVIOUS
<1>4. e.id \in retired BY <1>2, <1>3
<1>5. ASSUME NEW c \in Calls, Pruned[c] # 0
      PROVE  Pruned[c] = openLLM[c] /\ (openLLM[c] \in retired => c \in revived)
  <2>1. ~ended /\ c \notin expired BY <1>5 DEF Pruned
  <2> QED BY <1>0, <1>5, <2>1 DEF RetiredIsPruned, Pruned
<1>6. ASSUME e \in FromBuffer(since) PROVE e.payload \in revived /\ e.id <= Pruned[e.payload]
  <2>1. PICK j \in DOMAIN eventBuffer : e = eventBuffer[j] BY <1>6 DEF FromBuffer, EventsAfter
  <2>2. e.payload \in Payloads /\ e.id \in 1..eventCounter
    BY <1>0, <2>1, BufferedIds DEF BufferedEvent
  <2>3. AttemptAgrees(e) BY <1>0, <2>1
  <2>4. e.payload # NoCall /\ e.payload \in Calls BY <1>4, <2>2, <2>3 DEF AttemptAgrees
  <2>5. Pruned[e.payload] # 0 BY <1>6, <2>4 DEF FromBuffer, Replayable
  <2>6. Pruned[e.payload] = openLLM[e.payload] BY <1>5, <2>4, <2>5
  <2>7. e.id <= openLLM[e.payload] BY <2>3, <2>4, <2>5, <2>6 DEF AttemptAgrees
  <2>8. e.payload \in revived
    <3> SUFFICES ASSUME e.payload \notin revived PROVE FALSE OBVIOUS
    <3>1. openLLM[e.payload] = e.id BY <2>3, <2>4, <2>5, <2>6 DEF AttemptAgrees
    <3> QED BY <1>4, <1>5, <2>4, <2>5, <3>1
  <2> QED BY <2>6, <2>7, <2>8
<1>7. ASSUME e \in OpenAfter(since) PROVE e.payload \in revived /\ e.id <= Pruned[e.payload]
  <2>1. PICK c \in Calls : e = [id |-> Pruned[c], payload |-> c] /\ Pruned[c] > since
    BY <1>7 DEF OpenAfter
  <2>2. e.id = Pruned[c] /\ e.payload = c BY <2>1
  <2>3. e.id \in 1..eventCounter BY <1>0, <1>4
  <2>4. Pruned[c] # 0 BY <1>0, <2>2, <2>3
  <2>5. c \in revived BY <1>4, <1>5, <2>2, <2>4
  <2>6. e.id <= Pruned[c] BY <1>0, <2>2, <2>3
  <2> QED BY <2>2, <2>5, <2>6
<1>8. e \in FromBuffer(since) \/ e \in OpenAfter(since) BY <1>3 DEF Handed
<1> QED BY <1>2, <1>3, <1>6, <1>7, <1>8

(* The replay of a resuming client holds every open attempt and every      *)
(* buffered event after its position, by ascending id, nothing twice.      *)
THEOREM RelayReplayIsExact == Spec => []ReplayIsExact
<1>1. Init /\ LogTypeOK /\ BufferIsSuffix => ReplayInv
  <2> SUFFICES ASSUME Init, LogTypeOK, BufferIsSuffix PROVE ReplayInv OBVIOUS
  <2>1. RInv BY RelayInit
  <2>2. DOMAIN eventBuffer = {} BY DEF Init, LogInit
  <2> QED BY <2>1, <2>2 DEF Init, ReplayInv, OpenDistinct, RetiredIsPruned, BufferAgrees
<1>2. Spec => [](LogTypeOK /\ BufferIsSuffix) BY RelayImplementsLog, LogSuffix, PTL
<1> QED BY <1>1, <1>2, ReplayStep, ReplayContents, PTL DEF Spec

(* An attempt that was cancelled, closed, expired or ended is in no replay *)
(* after that, unless its call was executed again or the operation         *)
(* reopened, and then only while the call is open, not after its open      *)
(* attempt.                                                                *)
THEOREM RelayRetiredNotReplayed == Spec => []RetiredNotReplayed
<1>1. Init /\ LogTypeOK /\ BufferIsSuffix => ReplayInv
  <2> SUFFICES ASSUME Init, LogTypeOK, BufferIsSuffix PROVE ReplayInv OBVIOUS
  <2>1. RInv BY RelayInit
  <2>2. DOMAIN eventBuffer = {} BY DEF Init, LogInit
  <2> QED BY <2>1, <2>2 DEF Init, ReplayInv, OpenDistinct, RetiredIsPruned, BufferAgrees
<1>2. Spec => [](LogTypeOK /\ BufferIsSuffix) BY RelayImplementsLog, LogSuffix, PTL
<1> QED BY <1>1, <1>2, ReplayStep, ReplayOmitsRetired, PTL DEF Spec
=============================================================================
