-------------------------- MODULE EventLog_proofs ---------------------------
(***************************************************************************)
(* What holds of the event log for every buffer size, trim size and        *)
(* payload set.  BufferIsSuffix is inductive together with the type        *)
(* invariant; the exactness of the gap flag follows from it.               *)
(***************************************************************************)
EXTENDS EventLog, SequenceTheorems, TLAPS

(* The inductive invariant.                                                *)
IInv == LogTypeOK /\ BufferIsSuffix

(* Appending one event and trimming leaves a non-empty bounded sequence    *)
(* that ends with the new event and is otherwise a suffix of the old one.  *)
LEMMA BufferedFacts ==
    ASSUME NEW b \in Seq(BufferedEvent), NEW e \in BufferedEvent,
           Len(b) <= EventBufferMax
    PROVE  LET r == Buffered(b, e)
               n == Len(r)
           IN  /\ r \in Seq(BufferedEvent)
               /\ 1 <= n /\ n <= EventBufferMax /\ n <= Len(b) + 1
               /\ r[n] = e
               /\ \A i \in 1..(n - 1) : /\ Len(b) + 1 - n + i \in 1..Len(b)
                                        /\ r[i] = b[Len(b) + 1 - n + i]
<1> DEFINE g == Append(b, e)
           r == Buffered(b, e)
           m == Len(b) + 1
<1>1. g \in Seq(BufferedEvent) /\ Len(g) = m /\ g[m] = e /\ \A i \in 1..Len(b) : g[i] = b[i]
  BY AppendProperties
<1>2. Len(b) \in Nat BY LenProperties
<1>3. CASE m > EventBufferMax
  <2>1. r = SubSeq(g, m - EventBufferTrim + 1, m)
    BY <1>1, <1>3 DEF Buffered
  <2>2. m - EventBufferTrim + 1 \in 1..m /\ EventBufferTrim \in 1..m
    BY <1>2, <1>3, EventLogAssumption
  <2>3. /\ r \in Seq(BufferedEvent)
        /\ Len(r) = EventBufferTrim
        /\ \A i \in 1..EventBufferTrim : r[i] = g[m - EventBufferTrim + i]
    <3> DEFINE lo == m - EventBufferTrim + 1
    <3>1. \A i \in lo..m : g[i] \in BufferedEvent
      <4>1. \A i \in lo..m : i \in 1..Len(g)
        BY <1>1, <1>2, <2>2, EventLogAssumption
      <4> QED BY <1>1, <4>1, ElementOfSeq
    <3>2. lo \in Int /\ m \in Int /\ lo <= m /\ m - lo + 1 = EventBufferTrim
      BY <1>2, <2>2, EventLogAssumption
    <3>3. \A i \in 1..EventBufferTrim : lo + i - 1 = m - EventBufferTrim + i
      BY <1>2, EventLogAssumption
    <3>4. r = SubSeq(g, lo, m) BY <2>1
    <3> HIDE DEF g, lo, m, r
    <3>5. /\ SubSeq(g, lo, m) \in Seq(BufferedEvent)
          /\ Len(SubSeq(g, lo, m)) = IF lo <= m THEN m - lo + 1 ELSE 0
          /\ \A i \in 1..(m - lo + 1) : SubSeq(g, lo, m)[i] = g[lo + i - 1]
      BY <3>1, <3>2, SubSeqProperties
    <3> QED BY <3>2, <3>3, <3>4, <3>5
  <2>4. r[EventBufferTrim] = e
    BY <1>1, <1>2, <2>2, <2>3, EventLogAssumption
  <2>5. \A i \in 1..(EventBufferTrim - 1) :
           /\ m - EventBufferTrim + i \in 1..Len(b)
           /\ r[i] = b[m - EventBufferTrim + i]
    BY <1>1, <1>2, <2>2, <2>3, EventLogAssumption
  <2> HIDE DEF r
  <2> QED BY <1>2, <1>3, <2>2, <2>3, <2>4, <2>5, EventLogAssumption DEF r
<1>4. CASE ~(m > EventBufferMax)
  <2>1. r = g BY <1>1, <1>4 DEF Buffered
  <2>2. \A i \in 1..(m - 1) : m - m + i \in 1..Len(b) /\ r[i] = b[m - m + i]
    BY <1>1, <1>2, <2>1
  <2> HIDE DEF r, g
  <2> QED BY <1>1, <1>2, <1>4, <2>1, <2>2, EventLogAssumption DEF r
<1> QED BY <1>3, <1>4
-----------------------------------------------------------------------------

(* The empty log satisfies the invariant.                                  *)
THEOREM InitInvariant == LogInit => IInv
<1> SUFFICES ASSUME LogInit PROVE IInv OBVIOUS
<1>1. LogTypeOK BY EmptySeq, EventLogAssumption DEF LogInit, LogTypeOK
<1>2. BufferIsSuffix BY EmptySeq, EventLogAssumption DEF LogInit, BufferIsSuffix
<1> QED BY <1>1, <1>2 DEF IInv

(* One logged event preserves both parts of the invariant.                 *)
LEMMA RecordInvariant ==
    ASSUME IInv, NEW payload \in Payloads, Record(payload)
    PROVE  IInv'
<1> DEFINE e == [id |-> eventCounter + 1, payload |-> payload]
           n == Len(eventBuffer')
<1>1. /\ eventCounter \in 0..MaxEvents /\ eventCounter < MaxEvents
      /\ eventCounter' = eventCounter + 1
      /\ eventBuffer' = Buffered(eventBuffer, e)
  BY DEF IInv, LogTypeOK, Record
<1>2. e \in BufferedEvent BY <1>1, EventLogAssumption DEF BufferedEvent
<1>3. /\ eventBuffer \in Seq(BufferedEvent) /\ Len(eventBuffer) \in Nat
      /\ Len(eventBuffer) <= EventBufferMax /\ Len(eventBuffer) <= eventCounter
      /\ \A i \in 1..Len(eventBuffer) :
            eventBuffer[i].id = eventCounter - Len(eventBuffer) + i
  BY LenProperties DEF IInv, LogTypeOK, BufferIsSuffix
<1>4. /\ eventBuffer' \in Seq(BufferedEvent)
      /\ 1 <= n /\ n <= EventBufferMax /\ n <= Len(eventBuffer) + 1
      /\ eventBuffer'[n] = e
      /\ \A i \in 1..(n - 1) :
            /\ Len(eventBuffer) + 1 - n + i \in 1..Len(eventBuffer)
            /\ eventBuffer'[i] = eventBuffer[Len(eventBuffer) + 1 - n + i]
  <2> HIDE DEF e
  <2> QED BY <1>1, <1>2, <1>3, BufferedFacts
<1>5. n \in Nat /\ DOMAIN eventBuffer' = 1..n BY <1>4, LenProperties
<1>6. LogTypeOK'
  BY <1>1, <1>4, EventLogAssumption DEF LogTypeOK
<1>7. BufferIsSuffix'
  <2>1. n <= EventBufferMax /\ n <= eventCounter'
    BY <1>1, <1>3, <1>4, <1>5, EventLogAssumption
  <2>2. eventBuffer' # << >>
    BY <1>4, EmptySeq
  <2>3. ASSUME NEW i \in 1..n
        PROVE  eventBuffer'[i].id = eventCounter' - n + i
    <3>1. CASE i = n BY <1>1, <1>4, <1>5, <3>1, EventLogAssumption
    <3>2. CASE i # n
      <4>1. i \in 1..(n - 1)
        <5> HIDE DEF n
        <5> QED BY <1>5, <3>2
      <4>2. eventBuffer'[i].id
              = eventCounter - Len(eventBuffer) + (Len(eventBuffer) + 1 - n + i)
        BY <1>3, <1>4, <4>1
      <4> QED BY <1>1, <1>3, <1>5, <4>2, EventLogAssumption
    <3> QED BY <3>1, <3>2
  <2> QED BY <1>5, <2>1, <2>2, <2>3 DEF BufferIsSuffix
<1> QED BY <1>6, <1>7 DEF IInv

(* So does every step, stuttering included.                                *)
LEMMA StepInvariant == IInv /\ [LogNext]_logVars => IInv'
<1> SUFFICES ASSUME IInv, [LogNext]_logVars PROVE IInv' OBVIOUS
<1>1. CASE LogNext BY <1>1, RecordInvariant DEF LogNext
<1>2. CASE UNCHANGED logVars
  BY <1>2 DEF logVars, IInv, LogTypeOK, BufferIsSuffix
<1> QED BY <1>1, <1>2

(* What the decision on eventBuffer[0] alone means, given the invariant.   *)
LEMMA GapLemma == IInv => GapIsExact
<1> SUFFICES ASSUME IInv, NEW since \in 0..eventCounter
             PROVE  Gap(since) <=> \E id \in (since + 1)..eventCounter : id \notin RetainedIds
  BY DEF GapIsExact
<1> DEFINE n == Len(eventBuffer)
<1>1. /\ eventCounter \in Nat /\ n \in Nat /\ n <= eventCounter
      /\ eventBuffer = << >> => eventCounter = 0
      /\ DOMAIN eventBuffer = 1..n
      /\ \A i \in 1..n : eventBuffer[i].id = eventCounter - n + i
  BY LenProperties, EventLogAssumption DEF IInv, LogTypeOK, BufferIsSuffix
<1>2. RetainedIds = (eventCounter - n + 1)..eventCounter
  <2>1. \A i \in 1..n : eventBuffer[i].id \in (eventCounter - n + 1)..eventCounter
    BY <1>1
  <2>2. \A id \in (eventCounter - n + 1)..eventCounter :
           /\ id - (eventCounter - n) \in 1..n
           /\ eventBuffer[id - (eventCounter - n)].id = id
    BY <1>1
  <2> QED BY <1>1, <2>1, <2>2 DEF RetainedIds
<1>3. CASE eventBuffer = << >>
  BY <1>1, <1>3 DEF Gap
<1>4. CASE eventBuffer # << >>
  <2>1. n >= 1 BY <1>1, <1>4, EmptySeq DEF IInv, LogTypeOK
  <2>2. eventBuffer[1].id = eventCounter - n + 1 BY <1>1, <2>1
  <2>3. Gap(since) <=> eventCounter - n + 1 > since + 1
    BY <1>4, <2>2 DEF Gap
  <2>4. ASSUME eventCounter - n + 1 > since + 1
        PROVE  since + 1 \in (since + 1)..eventCounter /\ since + 1 \notin RetainedIds
    BY <1>1, <1>2, <2>4
  <2>5. ASSUME ~(eventCounter - n + 1 > since + 1), NEW id \in (since + 1)..eventCounter
        PROVE  id \in RetainedIds
    BY <1>1, <1>2, <2>5
  <2> QED BY <2>3, <2>4, <2>5
<1> QED BY <1>3, <1>4

(* The log is well typed and its buffer is always a bounded suffix.        *)
THEOREM LogSuffix == LogSpec => [](LogTypeOK /\ BufferIsSuffix)
<1>1. LogInit => IInv BY InitInvariant
<1>2. IInv /\ [LogNext]_logVars => IInv' BY StepInvariant
<1>3. IInv => LogTypeOK /\ BufferIsSuffix BY DEF IInv
<1> QED BY <1>1, <1>2, <1>3, PTL DEF LogSpec

(* The gap flag is exact in every reachable state.                         *)
THEOREM LogGapIsExact == LogSpec => []GapIsExact
<1>1. LogInit => IInv BY InitInvariant
<1>2. IInv /\ [LogNext]_logVars => IInv' BY StepInvariant
<1>3. IInv => GapIsExact BY GapLemma
<1> QED BY <1>1, <1>2, <1>3, PTL DEF LogSpec

(* No step renames, rewrites or reuses a logged event.                     *)
THEOREM LogIdsAreStable == LogSpec => IdsAreStable
<1> DEFINE Stable ==
      /\ eventCounter' >= eventCounter
      /\ \A i \in DOMAIN eventBuffer' :
            \/ eventBuffer'[i].id > eventCounter
            \/ \E j \in DOMAIN eventBuffer : eventBuffer[j] = eventBuffer'[i]
<1>1. LogInit => IInv BY InitInvariant
<1>2. IInv /\ [LogNext]_logVars => IInv' BY StepInvariant
<1>3. IInv /\ [LogNext]_logVars => [Stable]_logVars
  <2> SUFFICES ASSUME IInv, LogNext PROVE Stable
    OBVIOUS
  <2>1. PICK payload \in Payloads : Record(payload) BY DEF LogNext
  <2> DEFINE e == [id |-> eventCounter + 1, payload |-> payload]
  <2>2. /\ eventCounter \in Nat /\ eventCounter' = eventCounter + 1
        /\ eventBuffer' = Buffered(eventBuffer, e)
        /\ e \in BufferedEvent /\ e.id = eventCounter + 1
    BY <2>1, EventLogAssumption DEF IInv, LogTypeOK, Record, BufferedEvent
  <2>3. /\ eventBuffer \in Seq(BufferedEvent) /\ Len(eventBuffer) <= EventBufferMax
        /\ DOMAIN eventBuffer = 1..Len(eventBuffer)
    BY LenProperties DEF IInv, LogTypeOK, BufferIsSuffix
  <2> DEFINE r == Buffered(eventBuffer, e)
             n == Len(r)
             b == Len(eventBuffer)
  <2>4. /\ r \in Seq(BufferedEvent) /\ r[n] = e
        /\ \A i \in 1..(n - 1) : /\ b + 1 - n + i \in 1..b
                                 /\ r[i] = eventBuffer[b + 1 - n + i]
    <3> HIDE DEF e
    <3> QED BY <2>2, <2>3, BufferedFacts
  <2>5. n \in Nat /\ DOMAIN r = 1..n
    <3> HIDE DEF r
    <3> QED BY <2>4, LenProperties
  <2>6. \A i \in 1..n : r[i].id > eventCounter \/ \E j \in 1..b : eventBuffer[j] = r[i]
    <3> SUFFICES ASSUME NEW i \in 1..n
                 PROVE  r[i].id > eventCounter \/ \E j \in 1..b : eventBuffer[j] = r[i]
      OBVIOUS
    <3>1. CASE i = n BY <2>2, <2>4, <3>1
    <3>2. CASE i # n
      <4> HIDE DEF r, n, b
      <4>1. i \in 1..(n - 1) BY <2>5, <3>2
      <4> QED BY <2>4, <4>1
    <3> QED BY <3>1, <3>2
  <2>7. eventBuffer' = r BY <2>2
  <2>8. eventCounter' >= eventCounter BY <2>2
  <2> HIDE DEF r, e
  <2> QED BY <2>3, <2>5, <2>6, <2>7, <2>8
<1> QED BY <1>1, <1>2, <1>3, PTL DEF LogSpec, IdsAreStable
=============================================================================
