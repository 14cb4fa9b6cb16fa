------------------------- MODULE DeviceState_proofs -------------------------
(***************************************************************************)
(* What a device gateway keeps in memory of its devices, for any number of *)
(* them: the history of samples (MetricStore), the connections (DeviceHub) *)
(* and the requests that wait for an answer (DeviceDispatch).  The three   *)
(* share nothing; tool calls are in ToolCall_proofs.                       *)
(*                                                                         *)
(* Metrics: the total is exact because a history counts as many entries as *)
(* it has samples (ReplacedCounts, WithoutCounts).  That no accepted       *)
(* sample is lost needs one more fact: what is stored and not expired has  *)
(* been accepted, so that the samples that crowd one out of a trimmed      *)
(* history are accepted ones.                                              *)
(*                                                                         *)
(* Connections: one that is open is the current one of its id, or its      *)
(* successor is about to close it.  Two facts make this inductive: whoever *)
(* removes a connection has closed its socket before, and only a           *)
(* connection that is being registered has predecessors to close.          *)
(*                                                                         *)
(* Requests, with keys reused or not: that a call gets one verdict needs   *)
(* three more facts.  An entry sits under the key its call was made with,  *)
(* so a call has at most one entry; a call that has not started is nowhere *)
(* in the table; and a call that has started, or has a timer, has a key.   *)
(***************************************************************************)
EXTENDS MetricStore, DeviceHub, DeviceDispatch, FiniteSetTheorems, TLAPS

-----------------------------------------------------------------------------
(* The history of samples.                                                 *)

Histories == [Devices -> SUBSET Sample]

(* What is stored and unexpired has been accepted, and nothing accepted is *)
(* expired.                                                                *)
Unexpired(s) == s.at >= now - metricRetention

StoredIsAccepted ==
    \A d \in Devices : /\ \A s \in series[d] : Unexpired(s) => s \in accepted[d]
                       /\ \A s \in accepted[d] : Unexpired(s)

Finite == IsFiniteSet(Held(series)) /\ IsFiniteSet(Entries(series, Devices))

(* The inductive invariant.                                                *)
MetricInv ==
    /\ StoreTypeOK /\ Finite
    /\ TotalIsExact /\ StoredIsTimed /\ AcceptedIsKept /\ StoredIsAccepted

-----------------------------------------------------------------------------
(* Counting.                                                               *)

(* Samples with distinct times are as many as their times, finitely many.  *)
LEMMA CountByTime ==
    ASSUME MetricAssumption, NEW samples \in SUBSET Sample, Distinct(samples)
    PROVE  /\ IsFiniteSet(samples) /\ Cardinality(samples) \in Nat
           /\ IsFiniteSet({s.at : s \in samples})
           /\ Cardinality({s.at : s \in samples}) = Cardinality(samples)
<1> DEFINE times == {s.at : s \in samples}
           f == [s \in samples |-> s.at]
<1>1. IsFiniteSet(Times)
  <2>1. 0 \in Int /\ MaxNow + metricFutureSkew \in Int BY DEF MetricAssumption
  <2> QED BY <2>1, FS_Interval DEF Times
<1>2. times \subseteq Times BY DEF Sample
<1>3. IsFiniteSet(times) BY <1>1, <1>2, FS_Subset
<1>4. f \in Injection(samples, times) /\ f \in Surjection(samples, times)
  BY DEF Distinct, Injection, Surjection, IsInjective
<1>5. IsFiniteSet(samples) /\ (Cardinality(samples) = Cardinality(times))
  <2> HIDE DEF f, times
  <2> QED BY <1>3, <1>4, FS_Injection
<1>6. Cardinality(samples) \in Nat BY <1>5, FS_CardinalityType
<1> QED BY <1>3, <1>5, <1>6

(* The samples of a finite set of positions have a last one.               *)
LEMMA LastPosition ==
    ASSUME NEW n \in Nat, NEW I \in SUBSET (1..n), I # {}
    PROVE  \E j \in I : \A k \in I : k <= j
<1> DEFINE upTo(x) == {y \in I : y <= x}
           m == Cardinality(I)
           rank == [x \in I |-> Cardinality(upTo(x))]
<1>0. 1 \in Int /\ n \in Int OBVIOUS
<1>1. IsFiniteSet(I) /\ m \in Nat
  <2>1. IsFiniteSet(1..n) BY <1>0, FS_Interval
  <2> QED BY <2>1, FS_Subset, FS_CardinalityType
<1>2. ASSUME NEW x \in I
      PROVE  IsFiniteSet(upTo(x)) /\ rank[x] \in 1..m /\ x \in upTo(x) /\ upTo(x) \subseteq I
  <2>1. x \in upTo(x) /\ upTo(x) \subseteq I OBVIOUS
  <2>2. IsFiniteSet(upTo(x)) /\ Cardinality(upTo(x)) \in Nat /\ Cardinality(upTo(x)) <= m
    BY <1>1, <2>1, FS_Subset, FS_CardinalityType
  <2>3. Cardinality(upTo(x)) # 0 BY <2>1, <2>2, FS_EmptySet
  <2> QED BY <1>1, <2>1, <2>2, <2>3
<1>3. ASSUME NEW x \in I, NEW y \in I, x < y
      PROVE  rank[x] # rank[y]
  <2>0. \A z \in I : z \in Int OBVIOUS
  <2>1. upTo(x) \subseteq upTo(y) /\ y \in upTo(y) /\ y \notin upTo(x)
    <3>1. \A z \in I : z <= x => z <= y BY <1>3, <2>0
    <3>2. y <= y /\ ~(y <= x) BY <1>3, <2>0
    <3> QED BY <3>1, <3>2
  <2>2. IsFiniteSet(upTo(y)) BY <1>2
  <2>3. Cardinality(upTo(x)) = Cardinality(upTo(y)) => upTo(x) = upTo(y)
    <3> HIDE DEF upTo
    <3> QED BY <2>1, <2>2, FS_Subset
  <2>4. rank[x] = Cardinality(upTo(x)) /\ rank[y] = Cardinality(upTo(y)) OBVIOUS
  <2> HIDE DEF upTo, rank
  <2> QED BY <2>1, <2>3, <2>4
<1>4. rank \in Injection(I, 1..m)
  <2>1. rank \in [I -> 1..m] BY <1>2
  <2>2. \A x, y \in I : x = y \/ x < y \/ y < x OBVIOUS
  <2> HIDE DEF rank, m
  <2>3. \A x, y \in I : rank[x] = rank[y] => x = y BY <1>3, <2>2
  <2> QED BY <2>1, <2>3 DEF Injection, IsInjective
<1>5. rank \in Surjection(I, 1..m)
  <2>0. m \in Int BY <1>1
  <2>1. IsFiniteSet(1..m) /\ Cardinality(1..m) = m BY <1>0, <1>1, <2>0, FS_Interval
  <2> HIDE DEF rank
  <2> QED BY <1>1, <1>4, <2>1, FS_Injection
<1>6. m \in 1..m BY <1>1, FS_EmptySet
<1>7. PICK j \in I : rank[j] = m
  <2> HIDE DEF rank, m
  <2> QED BY <1>5, <1>6 DEF Surjection
<1>8. upTo(j) = I
  <2>1. Cardinality(upTo(j)) = m BY <1>7
  <2> HIDE DEF upTo
  <2> QED BY <1>1, <1>2, <2>1, FS_Subset
<1> QED BY <1>8

(* Trimming keeps no more samples than it may.                             *)
LEMMA TrimmedBounded ==
    ASSUME MetricAssumption, NEW samples \in SUBSET Sample, Distinct(samples)
    PROVE  Cardinality(Trimmed(samples)) <= metricMaxPerDevice
<1> DEFINE newer(s) == {n \in samples : n.at > s.at}
           kept == Trimmed(samples)
           rank == [s \in kept |-> Cardinality(newer(s))]
           K == metricMaxPerDevice
<1>1. IsFiniteSet(samples) BY CountByTime
<1>2. K \in Nat \ {0} BY DEF MetricAssumption
<1>3. \A s \in samples : s.at \in Int BY DEF Sample, Times
<1>4. ASSUME NEW s \in samples PROVE IsFiniteSet(newer(s)) /\ Cardinality(newer(s)) \in Nat
  BY <1>1, FS_Subset, FS_CardinalityType
<1>5. kept \subseteq samples /\ \A s \in kept : Cardinality(newer(s)) < K BY DEF Trimmed
<1> HIDE DEF kept
<1>6. rank \in [kept -> 0..(K - 1)]
  <2>1. ASSUME NEW s \in kept PROVE Cardinality(newer(s)) \in 0..(K - 1)
    <3> HIDE DEF newer
    <3> QED BY <1>2, <1>4, <1>5
  <2> QED BY <2>1
<1>7. ASSUME NEW s \in kept, NEW u \in kept, s.at > u.at PROVE rank[s] # rank[u]
  <2>1. newer(s) \subseteq newer(u) /\ s \in newer(u) /\ s \notin newer(s)
    BY <1>3, <1>5, <1>7
  <2>2. IsFiniteSet(newer(u)) BY <1>4, <1>5
  <2>3. Cardinality(newer(s)) = Cardinality(newer(u)) => newer(s) = newer(u)
    <3> HIDE DEF newer
    <3> QED BY <2>1, <2>2, FS_Subset
  <2>4. rank[s] = Cardinality(newer(s)) /\ rank[u] = Cardinality(newer(u)) OBVIOUS
  <2> HIDE DEF newer, rank
  <2> QED BY <2>1, <2>3, <2>4
<1>8. rank \in Injection(kept, 0..(K - 1))
  <2>1. \A s, u \in kept : s = u \/ s.at > u.at \/ u.at > s.at
    BY <1>3, <1>5 DEF Distinct
  <2> HIDE DEF rank
  <2>2. \A s, u \in kept : rank[s] = rank[u] => s = u BY <1>7, <2>1
  <2> QED BY <1>6, <2>2 DEF Injection, IsInjective
<1>9. 0 \in Int /\ K - 1 \in Int BY <1>2
<1>10. IsFiniteSet(0..(K - 1)) /\ Cardinality(0..(K - 1)) = K
  <2> DEFINE b == K - 1
  <2>1. b \in Int /\ ~(0 > b) /\ b - 0 + 1 = K BY <1>2
  <2> HIDE DEF b
  <2>2. IsFiniteSet(0..b) /\ Cardinality(0..b) = K BY <1>9, <2>1, FS_Interval
  <2> QED BY <2>2 DEF b
<1> HIDE DEF rank, K
<1>11. Cardinality(kept) <= Cardinality(0..(K - 1)) BY <1>8, <1>10, FS_Injection
<1> QED BY <1>10, <1>11 DEF kept, K

-----------------------------------------------------------------------------
(* The number of stored samples.                                           *)

(* Histories that are taken out whole.                                     *)
LEMMA WithoutCounts ==
    ASSUME NEW h \in Histories, NEW gone \in SUBSET Devices, IsFiniteSet(Entries(h, Devices))
    PROVE  /\ Without(h, gone) \in Histories
           /\ IsFiniteSet(Entries(Without(h, gone), Devices))
           /\ Size(h, Devices) \in Nat /\ Size(h, gone) \in Nat
           /\ Size(Without(h, gone), Devices) = Size(h, Devices) - Size(h, gone)
<1> DEFINE w == Without(h, gone)
           all == Entries(h, Devices)
           part == Entries(h, gone)
           rest == Entries(w, Devices)
<1>1. w \in Histories /\ \A d \in Devices : w[d] = IF d \in gone THEN {} ELSE h[d]
  BY DEF Without, Histories
<1> HIDE DEF w
<1>2. part \subseteq all BY DEF Entries
<1>3. rest = all \ part
  <2>1. ASSUME NEW x \in rest PROVE x \in all /\ x \notin part
    <3>1. PICK d \in Devices : \E s \in w[d] : x = <<d, s>> BY <1>1 DEF Entries
    <3>2. d \notin gone /\ \E s \in h[d] : x = <<d, s>> BY <1>1, <3>1
    <3> QED BY <3>1, <3>2 DEF Entries
  <2>2. ASSUME NEW x \in all, x \notin part PROVE x \in rest
    <3>1. PICK d \in Devices : \E s \in h[d] : x = <<d, s>> BY DEF Entries
    <3>2. d \notin gone BY <2>2, <3>1 DEF Entries
    <3> QED BY <1>1, <3>1, <3>2 DEF Entries
  <2> HIDE DEF all, part, rest
  <2> QED BY <2>1, <2>2
<1> HIDE DEF all, part, rest
<1>4. IsFiniteSet(all) BY DEF all
<1>5. IsFiniteSet(rest) /\ Cardinality(rest) = Cardinality(all) - Cardinality(all \cap part)
  BY <1>3, <1>4, FS_Difference
<1>6. all \cap part = part BY <1>2
<1>7. Cardinality(all) \in Nat /\ Cardinality(part) \in Nat
  BY <1>2, <1>4, FS_Subset, FS_CardinalityType
<1> QED BY <1>1, <1>5, <1>6, <1>7 DEF Size, w, all, part, rest

(* One history is as long as its entries are many.                         *)
LEMMA OneCounts ==
    ASSUME NEW h \in Histories, NEW d \in Devices, IsFiniteSet(h[d])
    PROVE  IsFiniteSet(Entries(h, {d})) /\ Size(h, {d}) = Cardinality(h[d])
<1> DEFINE S == h[d]
           T == Entries(h, {d})
           f == [s \in S |-> <<d, s>>]
<1>1. \A x : x \in T <=> \E s \in S : x = <<d, s>> BY DEF Entries
<1> HIDE DEF S, T
<1>2. f \in Bijection(S, T)
  BY <1>1 DEF Bijection, Injection, Surjection, IsInjective
<1>3. IsFiniteSet(S) BY DEF S
<1>4. ExistsBijection(S, T) BY <1>2 DEF ExistsBijection
<1> QED BY <1>3, <1>4, FS_Bijection DEF Size, S, T

(* One history that is replaced.                                           *)
LEMMA ReplacedCounts ==
    ASSUME NEW h \in Histories, NEW d \in Devices, NEW x \in SUBSET Sample,
           IsFiniteSet(Entries(h, Devices)), IsFiniteSet(h[d]), IsFiniteSet(x)
    PROVE  LET n == [h EXCEPT ![d] = x]
           IN  /\ n \in Histories /\ IsFiniteSet(Entries(n, Devices))
               /\ Size(h, Devices) \in Nat
               /\ Size(n, Devices) = Size(h, Devices) - Cardinality(h[d]) + Cardinality(x)
<1> DEFINE n == [h EXCEPT ![d] = x]
           others == Devices \ {d}
<1>1. n \in Histories /\ n[d] = x /\ \A e \in others : n[e] = h[e] BY DEF Histories
<1> HIDE DEF n
<1>2. IsFiniteSet(n[d]) BY <1>1
<1>3. ASSUME NEW g \in Histories, IsFiniteSet(Entries(g, others)), IsFiniteSet(g[d])
      PROVE  /\ IsFiniteSet(Entries(g, Devices)) /\ Size(g, others) \in Nat
             /\ Cardinality(g[d]) \in Nat
             /\ Size(g, Devices) = Size(g, others) + Cardinality(g[d])
  <2> DEFINE A == Entries(g, others)
             B == Entries(g, {d})
             C == Entries(g, Devices)
  <2>1. IsFiniteSet(B) /\ Cardinality(B) = Cardinality(g[d])
    BY <1>3, OneCounts DEF Size
  <2>2. C = A \cup B
    <3>1. ASSUME NEW y \in C PROVE y \in A \cup B
      <4>1. PICK e \in Devices : \E s \in g[e] : y = <<e, s>> BY DEF Entries
      <4> QED BY <4>1 DEF Entries
    <3>2. A \subseteq C /\ B \subseteq C BY DEF Entries
    <3> HIDE DEF A, B, C
    <3> QED BY <3>1, <3>2
  <2>3. A \cap B = {} BY DEF Entries
  <2> HIDE DEF A, B, C
  <2>4. IsFiniteSet(A) BY <1>3 DEF A
  <2>5. /\ IsFiniteSet(C)
        /\ Cardinality(C) = Cardinality(A) + Cardinality(B) - Cardinality(A \cap B)
    BY <2>1, <2>2, <2>4, FS_Union
  <2>6. Cardinality(A \cap B) = 0 BY <2>3, FS_EmptySet
  <2>7. Cardinality(A) \in Nat /\ Cardinality(B) \in Nat BY <2>1, <2>4, FS_CardinalityType
  <2> QED BY <2>1, <2>5, <2>6, <2>7 DEF Size, A, B, C
<1>4. Entries(h, others) = Entries(n, others)
  <2>1. {{e} \X h[e] : e \in others} = {{e} \X n[e] : e \in others} BY <1>1
  <2> QED BY <2>1 DEF Entries
<1>5. Entries(h, others) \subseteq Entries(h, Devices) BY DEF Entries
<1>6. IsFiniteSet(Entries(h, others)) BY <1>5, FS_Subset
<1>7. IsFiniteSet(Entries(n, others)) BY <1>4, <1>6
<1>8. Size(h, others) = Size(n, others) BY <1>4 DEF Size
<1>9. /\ Size(h, others) \in Nat /\ Cardinality(h[d]) \in Nat
      /\ Size(h, Devices) = Size(h, others) + Cardinality(h[d])
  BY <1>3, <1>6
<1>10. /\ IsFiniteSet(Entries(n, Devices)) /\ Cardinality(x) \in Nat
       /\ Size(n, Devices) = Size(n, others) + Cardinality(x)
  BY <1>1, <1>2, <1>3, <1>7
<1> QED BY <1>1, <1>8, <1>9, <1>10 DEF n

-----------------------------------------------------------------------------
(* What merging and pruning do to one history.                             *)

(* A merged history has distinct times, and no time of the old one is lost.*)
LEMMA MergedFacts ==
    ASSUME NEW samples \in SUBSET Sample, Distinct(samples),
           NEW n \in Nat, NEW batch \in [1..n -> Sample]
    PROVE  /\ Merged(samples, batch) \in SUBSET Sample
           /\ Distinct(Merged(samples, batch))
           /\ \A s \in samples : \E u \in Merged(samples, batch) : u.at = s.at
<1> DEFINE last == {j \in 1..n : \A k \in 1..n : k > j => batch[k].at # batch[j].at}
           old == {s \in samples : \A i \in 1..n : batch[i].at # s.at}
           new == {batch[i] : i \in last}
<1>1. Merged(samples, batch) = old \cup new BY DEF Merged
<1>2. old \subseteq samples /\ new \subseteq Sample OBVIOUS
<1>3. Distinct(old \cup new)
  <2>1. ASSUME NEW s \in old, NEW u \in new PROVE s.at # u.at OBVIOUS
  <2>2. ASSUME NEW s \in new, NEW u \in new, s.at = u.at PROVE s = u
    <3>1. PICK i \in last : s = batch[i] OBVIOUS
    <3>2. PICK j \in last : u = batch[j] OBVIOUS
    <3>3. ~(i > j) /\ ~(j > i) BY <2>2, <3>1, <3>2
    <3>4. i \in Int /\ j \in Int OBVIOUS
    <3>5. i = j BY <3>3, <3>4
    <3> QED BY <3>1, <3>2, <3>5
  <2>3. ASSUME NEW s \in old, NEW u \in old, s.at = u.at PROVE s = u
    BY <2>3 DEF Distinct
  <2> HIDE DEF old, new
  <2> QED BY <2>1, <2>2, <2>3 DEF Distinct
<1>4. ASSUME NEW s \in samples PROVE \E u \in old \cup new : u.at = s.at
  <2> DEFINE I == {i \in 1..n : batch[i].at = s.at}
  <2>1. CASE I = {}
    <3>1. s \in old BY <2>1
    <3> QED BY <3>1
  <2>2. CASE I # {}
    <3>1. I \in SUBSET (1..n) OBVIOUS
    <3>2. PICK j \in I : \A k \in I : k <= j
      <4> HIDE DEF I
      <4> QED BY <2>2, <3>1, LastPosition
    <3>3. \A k \in 1..n : k > j => k \notin I
      <4>1. \A k \in 1..n : k > j => ~(k <= j) OBVIOUS
      <4> QED BY <3>2, <4>1
    <3>4. j \in last BY <3>3
    <3>5. batch[j] \in new /\ batch[j].at = s.at BY <3>4
    <3> QED BY <3>5
  <2> QED BY <2>1, <2>2
<1> QED BY <1>1, <1>2, <1>3, <1>4

(* A pruned store holds what is not too old of each history.               *)
LEMMA PrunedFacts ==
    ASSUME NEW h \in Histories, NEW t
    PROVE  /\ Pruned(h, t) \in Histories
           /\ \A d \in Devices : Pruned(h, t)[d] = {s \in h[d] : s.at >= t - metricRetention}
           /\ Held(Pruned(h, t)) \subseteq Held(h)
           /\ Entries(Pruned(h, t), Devices) \subseteq Entries(h, Devices)
<1> DEFINE p == Pruned(h, t)
<1>1. p \in Histories /\ \A d \in Devices : p[d] = {s \in h[d] : s.at >= t - metricRetention}
  BY DEF Pruned, Histories
<1> HIDE DEF p
<1>2. \A d \in Devices : p[d] \subseteq h[d] BY <1>1
<1>3. Held(p) \subseteq Held(h) BY <1>2 DEF Held
<1>4. Entries(p, Devices) \subseteq Entries(h, Devices) BY <1>2 DEF Entries
<1> QED BY <1>1, <1>3, <1>4 DEF p

(* Pruning by a clock that is not ahead leaves what the invariant says of  *)
(* the store intact.                                                       *)
LEMMA PrunedStore ==
    ASSUME MetricAssumption, MetricInv, NEW t \in Int, t <= now
    PROVE  LET p == Pruned(series, t)
           IN  /\ p \in Histories /\ IsFiniteSet(Held(p)) /\ IsFiniteSet(Entries(p, Devices))
               /\ PrunedTotal(t) = Size(p, Devices) /\ PrunedTotal(t) \in Nat
               /\ PrunedTotal(t) <= metricMaxTotal
               /\ Cardinality(Held(p)) <= metricMaxDevices
               /\ \A d \in Devices :
                     /\ Distinct(p[d]) /\ Cardinality(p[d]) <= metricMaxPerDevice
                     /\ \A s \in p[d] : Unexpired(s) => s \in accepted[d]
                     /\ \A s \in accepted[d] : s \in series[d] => s \in p[d]
<1> DEFINE p == Pruned(series, t)
<1>0. series \in Histories /\ accepted \in Histories /\ now \in Int /\ metricRetention \in Int
  BY DEF MetricInv, StoreTypeOK, Histories, MetricAssumption
<1>1. /\ p \in Histories /\ Held(p) \subseteq Held(series)
      /\ Entries(p, Devices) \subseteq Entries(series, Devices)
      /\ \A d \in Devices : p[d] = {s \in series[d] : s.at >= t - metricRetention}
  BY <1>0, PrunedFacts
<1> HIDE DEF p
<1>2. IsFiniteSet(Held(series)) /\ IsFiniteSet(Entries(series, Devices))
  BY DEF MetricInv, Finite
<1>3. IsFiniteSet(Held(p)) /\ Cardinality(Held(p)) <= metricMaxDevices
  <2>1. /\ IsFiniteSet(Held(p)) /\ Cardinality(Held(p)) <= Cardinality(Held(series))
        /\ Cardinality(Held(p)) \in Nat /\ Cardinality(Held(series)) \in Nat
    BY <1>1, <1>2, FS_Subset, FS_CardinalityType
  <2>2. Cardinality(Held(series)) <= metricMaxDevices /\ metricMaxDevices \in Nat
    BY DEF MetricInv, TotalIsExact, MetricAssumption
  <2> QED BY <2>1, <2>2
<1>4. /\ IsFiniteSet(Entries(p, Devices)) /\ Size(p, Devices) \in Nat
      /\ Size(series, Devices) \in Nat /\ Size(p, Devices) <= Size(series, Devices)
  BY <1>1, <1>2, FS_Subset, FS_CardinalityType DEF Size
<1>5. PrunedTotal(t) = Size(p, Devices) /\ Size(p, Devices) <= metricMaxTotal
  <2>1. total = Size(series, Devices) /\ total <= metricMaxTotal /\ metricMaxTotal \in Nat
    BY DEF MetricInv, TotalIsExact, MetricAssumption
  <2>2. PrunedTotal(t) = total - (Size(series, Devices) - Size(p, Devices))
    BY DEF PrunedTotal, p
  <2> QED BY <1>4, <2>1, <2>2
<1>6. ASSUME NEW d \in Devices
      PROVE  /\ Distinct(p[d]) /\ Cardinality(p[d]) <= metricMaxPerDevice
             /\ \A s \in p[d] : Unexpired(s) => s \in accepted[d]
             /\ \A s \in accepted[d] : s \in series[d] => s \in p[d]
  <2>1. p[d] \subseteq series[d] BY <1>1
  <2>2. Distinct(series[d]) BY DEF MetricInv, StoreTypeOK
  <2>3. Distinct(p[d]) BY <2>1, <2>2 DEF Distinct
  <2>4. Cardinality(p[d]) <= metricMaxPerDevice
    <3>1. series[d] \in SUBSET Sample BY <1>0 DEF Histories
    <3>2. IsFiniteSet(series[d]) BY <2>2, <3>1, CountByTime
    <3>3. /\ Cardinality(p[d]) <= Cardinality(series[d])
          /\ Cardinality(p[d]) \in Nat /\ Cardinality(series[d]) \in Nat
      BY <2>1, <3>2, FS_Subset, FS_CardinalityType
    <3>4. Cardinality(series[d]) <= metricMaxPerDevice /\ metricMaxPerDevice \in Nat
      BY DEF MetricInv, TotalIsExact, MetricAssumption
    <3> QED BY <3>3, <3>4
  <2>5. \A s \in p[d] : Unexpired(s) => s \in accepted[d]
    BY <2>1 DEF MetricInv, StoredIsAccepted
  <2>6. ASSUME NEW s \in accepted[d], s \in series[d] PROVE s \in p[d]
    <3>1. s.at >= now - metricRetention BY DEF MetricInv, StoredIsAccepted, Unexpired
    <3>2. s.at \in Int BY <1>0 DEF Histories, Sample, Times
    <3>3. s.at >= t - metricRetention BY <1>0, <3>1, <3>2
    <3> QED BY <1>1, <2>6, <3>3
  <2> QED BY <2>3, <2>4, <2>5, <2>6
<1> QED BY <1>1, <1>3, <1>4, <1>5, <1>6 DEF p

-----------------------------------------------------------------------------
(* The steps.                                                              *)

(* A step that only prunes, and stops the timer at most when nothing is    *)
(* left.                                                                   *)
LEMMA PruneKeeps ==
    ASSUME MetricAssumption, MetricInv, NEW t \in Int, t <= now,
           series' = Pruned(series, t), total' = PrunedTotal(t), UNCHANGED <<now, accepted>>,
           pruneTimer' \in BOOLEAN, Held(series') # {} => pruneTimer'
    PROVE  MetricInv'
<1> DEFINE p == Pruned(series, t)
<1>1. /\ p \in Histories /\ IsFiniteSet(Held(p)) /\ IsFiniteSet(Entries(p, Devices))
      /\ PrunedTotal(t) = Size(p, Devices) /\ PrunedTotal(t) \in Nat
      /\ PrunedTotal(t) <= metricMaxTotal
      /\ Cardinality(Held(p)) <= metricMaxDevices
      /\ \A d \in Devices :
            /\ Distinct(p[d]) /\ Cardinality(p[d]) <= metricMaxPerDevice
            /\ \A s \in p[d] : Unexpired(s) => s \in accepted[d]
            /\ \A s \in accepted[d] : s \in series[d] => s \in p[d]
  BY PrunedStore
<1>2. series' = p /\ now' = now /\ accepted' = accepted /\ total' = PrunedTotal(t) OBVIOUS
<1> HIDE DEF p
<1>3. StoreTypeOK'
  <2>1. now' \in 0..MaxNow /\ total' \in Nat /\ pruneTimer' \in BOOLEAN
    BY <1>1, <1>2 DEF MetricInv, StoreTypeOK
  <2>2. {series', accepted'} \subseteq [Devices -> SUBSET Sample]
    BY <1>1, <1>2 DEF MetricInv, StoreTypeOK, Histories
  <2>3. \A d \in Devices : Distinct(series'[d]) /\ Distinct(accepted'[d])
    BY <1>1, <1>2 DEF MetricInv, StoreTypeOK
  <2> QED BY <2>1, <2>2, <2>3 DEF StoreTypeOK
<1>4. Finite' BY <1>1, <1>2 DEF Finite
<1>5. TotalIsExact' BY <1>1, <1>2 DEF TotalIsExact
<1>6. StoredIsTimed' BY DEF StoredIsTimed
<1>7. AcceptedIsKept' BY <1>1, <1>2 DEF MetricInv, AcceptedIsKept
<1>8. StoredIsAccepted' BY <1>1, <1>2 DEF MetricInv, StoredIsAccepted, Unexpired
<1> QED BY <1>3, <1>4, <1>5, <1>6, <1>7, <1>8 DEF MetricInv

(* When the clock goes on, what expires has no newer sample that expires   *)
(* later than it does.                                                     *)
LEMMA TickKeeps == ASSUME MetricAssumption, MetricInv, Tick PROVE MetricInv'
<1>0. /\ accepted \in Histories /\ now \in Int /\ now' = now + 1 /\ now' \in 0..MaxNow
      /\ metricRetention \in Int
      /\ accepted' = Pruned(accepted, now') /\ series' = series
  BY DEF Tick, MetricInv, StoreTypeOK, Histories, MetricAssumption
<1>1. /\ accepted' \in Histories
      /\ \A d \in Devices : accepted'[d] = {s \in accepted[d] : s.at >= now' - metricRetention}
  <2>1. /\ Pruned(accepted, now') \in Histories
        /\ \A d \in Devices : Pruned(accepted, now')[d]
                                 = {s \in accepted[d] : s.at >= now' - metricRetention}
    BY <1>0, PrunedFacts
  <2> QED BY <1>0, <2>1
<1>2. \A d \in Devices : \A s \in series[d] \cup accepted[d] : s.at \in Int
  BY DEF MetricInv, StoreTypeOK, Sample, Times
<1>3. StoreTypeOK'
  <2>1. \A d \in Devices : accepted'[d] \subseteq accepted[d] BY <1>1
  <2>2. \A d \in Devices : Distinct(series'[d]) /\ Distinct(accepted'[d])
    BY <1>0, <2>1 DEF MetricInv, StoreTypeOK, Distinct
  <2> QED BY <1>0, <1>1, <2>2 DEF Tick, MetricInv, StoreTypeOK, Histories
<1>4. Finite' BY <1>0 DEF MetricInv, Finite
<1>5. TotalIsExact' BY <1>0 DEF Tick, MetricInv, TotalIsExact
<1>6. StoredIsTimed' BY <1>0 DEF Tick, MetricInv, StoredIsTimed
<1>7. AcceptedIsKept'
  <2> SUFFICES ASSUME NEW d \in Devices, NEW s \in accepted'[d], s \notin series[d]
               PROVE  Cardinality({n \in accepted'[d] : n.at > s.at}) >= metricMaxPerDevice
    BY <1>0 DEF AcceptedIsKept
  <2>1. s \in accepted[d] /\ s.at >= now' - metricRetention BY <1>1
  <2>2. Cardinality({n \in accepted[d] : n.at > s.at}) >= metricMaxPerDevice
    BY <2>1 DEF MetricInv, AcceptedIsKept
  <2>3. \A n \in accepted[d] : n.at > s.at => n \in accepted'[d]
    <3> SUFFICES ASSUME NEW n \in accepted[d], n.at > s.at
                 PROVE  n.at >= now' - metricRetention
      BY <1>1
    <3> QED BY <1>0, <1>2, <2>1
  <2>4. accepted'[d] \subseteq accepted[d] BY <1>1
  <2>5. {n \in accepted'[d] : n.at > s.at} = {n \in accepted[d] : n.at > s.at} BY <2>3, <2>4
  <2> QED BY <2>2, <2>5
<1>8. StoredIsAccepted'
  <2>1. ASSUME NEW d \in Devices, NEW s \in series[d], s.at >= now' - metricRetention
        PROVE  s \in accepted'[d]
    <3>1. s.at >= now - metricRetention BY <1>0, <1>2, <2>1
    <3>2. s \in accepted[d] BY <3>1 DEF MetricInv, StoredIsAccepted, Unexpired
    <3> QED BY <1>1, <2>1, <3>2
  <2>2. \A d \in Devices : \A s \in accepted'[d] : s.at >= now' - metricRetention BY <1>1
  <2> QED BY <1>0, <2>1, <2>2 DEF StoredIsAccepted, Unexpired
<1> QED BY <1>3, <1>4, <1>5, <1>6, <1>7, <1>8 DEF MetricInv

(* What an upload leaves of an accepted sample: it is stored, or as many   *)
(* newer ones have been accepted as may be kept.  An accepted sample that  *)
(* is replaced still counts, by its time.                                  *)
LEMMA UploadedIsKept ==
    ASSUME MetricAssumption, MetricInv, NEW t \in Int, t <= now, NEW d \in Devices,
           NEW n \in Nat, NEW batch \in [1..n -> Sample]
    PROVE  LET stored == Merged(Pruned(series, t)[d], batch)
               taken == {s \in Merged(accepted[d], batch) : s.at >= now - metricRetention}
           IN  /\ \A s \in Trimmed(stored) : Unexpired(s) => s \in taken
               /\ \A s \in taken : \/ s \in Trimmed(stored)
                                   \/ Cardinality({u \in taken : u.at > s.at})
                                         >= metricMaxPerDevice
<1> DEFINE p == Pruned(series, t)
           M == Merged(p[d], batch)
           A == Merged(accepted[d], batch)
           taken == {s \in A : s.at >= now - metricRetention}
           K == metricMaxPerDevice
<1>0. /\ accepted[d] \in SUBSET Sample /\ Distinct(accepted[d])
      /\ now \in Int /\ metricRetention \in Int /\ K \in Nat
  BY DEF MetricInv, StoreTypeOK, MetricAssumption
<1>1. /\ p[d] \in SUBSET Sample /\ Distinct(p[d])
      /\ \A s \in p[d] : Unexpired(s) => s \in accepted[d]
      /\ \A s \in accepted[d] : s \in series[d] => s \in p[d]
  BY PrunedStore DEF Histories
<1> HIDE DEF p
<1>2. /\ M \in SUBSET Sample /\ Distinct(M) BY <1>1, MergedFacts
<1>3. /\ A \in SUBSET Sample /\ Distinct(A)
      /\ \A s \in accepted[d] : \E u \in A : u.at = s.at
  BY <1>0, MergedFacts
<1>4. \A s \in M : Unexpired(s) => s \in A
  BY <1>1 DEF Merged
<1>5. \A s \in A : s \in M \/ (s \in accepted[d] /\ s \notin p[d])
  BY DEF Merged
<1> HIDE DEF M, A
<1>6. taken \in SUBSET Sample /\ Distinct(taken) BY <1>3 DEF Distinct
<1>7. \A s \in M \cup A \cup accepted[d] : s.at \in Int BY <1>0, <1>2, <1>3 DEF Sample, Times
<1>8. IsFiniteSet(taken) BY <1>6, CountByTime
<1>9. \A s \in Trimmed(M) : Unexpired(s) => s \in taken
  <2>1. Trimmed(M) \subseteq M BY DEF Trimmed
  <2> QED BY <1>4, <2>1 DEF Unexpired
<1>10. ASSUME NEW s \in taken, s \notin Trimmed(M)
       PROVE  Cardinality({u \in taken : u.at > s.at}) >= K
  <2> DEFINE newer == {u \in taken : u.at > s.at}
  <2>0. s \in A /\ s.at \in Int /\ s.at >= now - metricRetention BY <1>7
  <2>1. IsFiniteSet(newer) /\ Cardinality(newer) \in Nat
    BY <1>8, FS_Subset, FS_CardinalityType
  <2>2. CASE s \in M
    <3> DEFINE above == {u \in M : u.at > s.at}
    <3>1. ~(Cardinality(above) < K) BY <1>10, <2>2 DEF Trimmed
    <3>2. above \subseteq newer
      <4> SUFFICES ASSUME NEW u \in M, u.at > s.at PROVE u \in taken OBVIOUS
      <4>1. u.at >= now - metricRetention BY <1>0, <1>7, <2>0
      <4> QED BY <1>4, <4>1 DEF Unexpired
    <3> HIDE DEF above, newer
    <3>3. Cardinality(above) \in Nat /\ Cardinality(above) <= Cardinality(newer)
      BY <2>1, <3>2, FS_Subset, FS_CardinalityType
    <3>4. Cardinality(newer) >= K BY <1>0, <2>1, <3>1, <3>3
    <3> QED BY <3>4 DEF newer
  <2>3. CASE s \notin M
    <3> DEFINE above == {u \in accepted[d] : u.at > s.at}
               aboveTimes == {u.at : u \in above}
               newerTimes == {u.at : u \in newer}
    <3>1. s \in accepted[d] /\ s \notin series[d] BY <1>1, <1>5, <2>0, <2>3
    <3>2. Cardinality(above) >= K BY <3>1 DEF MetricInv, AcceptedIsKept
    <3>3. aboveTimes \subseteq newerTimes
      <4> SUFFICES ASSUME NEW u \in accepted[d], u.at > s.at
                   PROVE  \E v \in taken : v.at > s.at /\ v.at = u.at
        OBVIOUS
      <4>1. PICK v \in A : v.at = u.at BY <1>3
      <4>2. v.at >= now - metricRetention BY <1>0, <1>7, <2>0, <4>1
      <4> QED BY <4>1, <4>2
    <3>4. /\ Cardinality(above) \in Nat /\ IsFiniteSet(aboveTimes)
          /\ Cardinality(aboveTimes) = Cardinality(above)
      <4>1. above \in SUBSET Sample /\ Distinct(above) BY <1>0 DEF Distinct
      <4> HIDE DEF above
      <4> QED BY <4>1, CountByTime
    <3>5. /\ IsFiniteSet(newerTimes) /\ Cardinality(newerTimes) = Cardinality(newer)
      <4>1. newer \in SUBSET Sample /\ Distinct(newer) BY <1>6 DEF Distinct
      <4> HIDE DEF newer
      <4> QED BY <4>1, CountByTime
    <3> HIDE DEF above, newer, aboveTimes, newerTimes
    <3>6. Cardinality(aboveTimes) <= Cardinality(newerTimes) BY <3>3, <3>5, FS_Subset
    <3>7. Cardinality(newer) >= K BY <1>0, <2>1, <3>2, <3>4, <3>5, <3>6
    <3> QED BY <3>7 DEF newer
  <2> QED BY <2>2, <2>3
<1> QED BY <1>9, <1>10 DEF p, M, A

(* An upload keeps the invariant, whichever histories it evicts.           *)
LEMMA UploadKeeps ==
    ASSUME MetricAssumption, MetricInv, NEW t \in Int, t <= now, NEW d \in Devices,
           NEW n \in Nat, NEW batch \in [1..n -> Sample], Upload(d, batch, t)
    PROVE  MetricInv'
<1> DEFINE p == Pruned(series, t)
           M == Merged(p[d], batch)
           x == Trimmed(M)
           st == [p EXCEPT ![d] = x]
           sum == PrunedTotal(t) + Cardinality(x) - Cardinality(p[d])
           A == Merged(accepted[d], batch)
           acc == [accepted EXCEPT ![d] = A]
           live == Pruned(acc, now)
<1>1. PICK gone \in SUBSET Held(st) :
        /\ IsEviction(st, sum, gone)
        /\ series' = Without(st, gone)
        /\ total' = sum - Size(st, gone)
        /\ pruneTimer' = (pruneTimer \/ Held(series') # {})
        /\ accepted' = Without(live, gone)
        /\ now' = now
  BY DEF Upload
<1>2. /\ p \in Histories /\ IsFiniteSet(Held(p)) /\ IsFiniteSet(Entries(p, Devices))
      /\ PrunedTotal(t) = Size(p, Devices) /\ PrunedTotal(t) \in Nat
      /\ PrunedTotal(t) <= metricMaxTotal
      /\ Cardinality(Held(p)) <= metricMaxDevices
      /\ \A e \in Devices :
            /\ Distinct(p[e]) /\ Cardinality(p[e]) <= metricMaxPerDevice
            /\ \A s \in p[e] : Unexpired(s) => s \in accepted[e]
            /\ \A s \in accepted[e] : s \in series[e] => s \in p[e]
  BY PrunedStore
<1>3. /\ \A s \in x : Unexpired(s) => s \in A /\ s.at >= now - metricRetention
      /\ \A s \in A : s.at >= now - metricRetention =>
            \/ s \in x
            \/ Cardinality({u \in {v \in A : v.at >= now - metricRetention} : u.at > s.at})
                  >= metricMaxPerDevice
  <2>1. LET taken == {s \in A : s.at >= now - metricRetention}
        IN  /\ \A s \in x : Unexpired(s) => s \in taken
            /\ \A s \in taken : \/ s \in x
                                \/ Cardinality({u \in taken : u.at > s.at})
                                      >= metricMaxPerDevice
    BY UploadedIsKept
  <2> HIDE DEF x, A
  <2> QED BY <2>1
<1>4. accepted \in Histories /\ \A e \in Devices : Distinct(accepted[e])
  BY DEF MetricInv, StoreTypeOK, Histories
<1>5. M \in SUBSET Sample /\ Distinct(M) /\ A \in SUBSET Sample /\ Distinct(A)
  <2>1. p[d] \in SUBSET Sample /\ accepted[d] \in SUBSET Sample BY <1>2, <1>4 DEF Histories
  <2> HIDE DEF p
  <2> QED BY <1>2, <1>4, <2>1, MergedFacts
<1> HIDE DEF p, M, A
<1>6. /\ x \in SUBSET Sample /\ Distinct(x) /\ IsFiniteSet(x) /\ Cardinality(x) \in Nat
      /\ Cardinality(x) <= metricMaxPerDevice
  <2>1. x \subseteq M BY DEF Trimmed
  <2>2. x \in SUBSET Sample /\ Distinct(x) BY <1>5, <2>1 DEF Distinct
  <2>3. Cardinality(x) <= metricMaxPerDevice BY <1>5, TrimmedBounded
  <2> HIDE DEF x
  <2> QED BY <2>2, <2>3, CountByTime
<1> HIDE DEF x
<1>7. acc \in Histories /\ acc[d] = A /\ \A e \in Devices : e # d => acc[e] = accepted[e]
  BY <1>4, <1>5 DEF Histories
<1>8. st \in Histories /\ st[d] = x /\ \A e \in Devices : e # d => st[e] = p[e]
  BY <1>2, <1>6 DEF Histories
<1>9. /\ IsFiniteSet(Entries(st, Devices))
      /\ sum = Size(st, Devices)
  <2>1. IsFiniteSet(p[d]) /\ Cardinality(p[d]) \in Nat
    <3>1. p[d] \in SUBSET Sample BY <1>2 DEF Histories
    <3> QED BY <1>2, <3>1, CountByTime
  <2>2. /\ IsFiniteSet(Entries(st, Devices)) /\ Size(p, Devices) \in Nat
        /\ Size(st, Devices) = Size(p, Devices) - Cardinality(p[d]) + Cardinality(x)
    BY <1>2, <1>6, <2>1, ReplacedCounts
  <2> HIDE DEF st
  <2> QED BY <1>2, <1>6, <2>1, <2>2
<1>10. /\ live \in Histories
       /\ \A e \in Devices : live[e] = {s \in acc[e] : s.at >= now - metricRetention}
  <2> HIDE DEF acc
  <2> QED BY <1>7, PrunedFacts
<1>11. Held(st) \subseteq Held(p) \cup {d} BY <1>8 DEF Held
<1> HIDE DEF st, acc, live
<1>12. gone \in SUBSET Devices BY <1>1 DEF Held
<1>13. /\ series' \in Histories
       /\ \A e \in Devices : series'[e] = IF e \in gone THEN {} ELSE st[e]
  BY <1>1, <1>8 DEF Without, Histories
<1>14. /\ accepted' \in Histories
       /\ \A e \in Devices : accepted'[e] = IF e \in gone THEN {} ELSE live[e]
  BY <1>1, <1>10 DEF Without, Histories
<1>15. /\ IsFiniteSet(Entries(series', Devices))
       /\ total' = Size(series', Devices) /\ total' \in Nat
  <2>1. /\ IsFiniteSet(Entries(Without(st, gone), Devices))
        /\ Size(Without(st, gone), Devices) = Size(st, Devices) - Size(st, gone)
    BY <1>8, <1>9, <1>12, WithoutCounts
  <2>2. /\ IsFiniteSet(Entries(series', Devices))
        /\ total' = Size(series', Devices)
    BY <1>1, <1>9, <2>1
  <2> QED BY <2>2, FS_CardinalityType DEF Size
<1>16. total' <= metricMaxTotal /\ Cardinality(Held(st) \ gone) <= metricMaxDevices
  BY <1>1 DEF IsEviction
<1>17. Held(series') = Held(st) \ gone BY <1>13 DEF Held
<1>18. IsFiniteSet(Held(series'))
  <2>1. Held(series') \subseteq Held(p) \cup {d} BY <1>11, <1>17
  <2>2. IsFiniteSet(Held(p) \cup {d}) BY <1>2, FS_AddElement
  <2> QED BY <2>1, <2>2, FS_Subset
<1>19. Finite' BY <1>15, <1>18 DEF Finite
<1>20. TotalIsExact'
  <2>1. \A e \in Devices : Cardinality(series'[e]) <= metricMaxPerDevice
    <3>1. Cardinality({}) = 0 /\ 0 <= metricMaxPerDevice BY FS_EmptySet DEF MetricAssumption
    <3>2. \A e \in Devices : Cardinality(st[e]) <= metricMaxPerDevice BY <1>2, <1>6, <1>8
    <3> QED BY <1>13, <3>1, <3>2
  <2>2. Cardinality(Held(series')) <= metricMaxDevices BY <1>16, <1>17
  <2> QED BY <1>15, <1>16, <2>1, <2>2 DEF TotalIsExact
<1>21. pruneTimer' \in BOOLEAN BY <1>1 DEF MetricInv, StoreTypeOK
<1>22. StoredIsTimed' BY <1>1 DEF StoredIsTimed
<1>23. StoreTypeOK'
  <2>1. \A e \in Devices : Distinct(series'[e])
    <3>1. \A e \in Devices : Distinct(st[e]) BY <1>2, <1>6, <1>8
    <3>2. Distinct({}) BY DEF Distinct
    <3> QED BY <1>13, <3>1, <3>2
  <2>2. ASSUME NEW e \in Devices PROVE Distinct(accepted'[e])
    <3>1. Distinct(acc[e]) BY <1>4, <1>5, <1>7
    <3>2. accepted'[e] \subseteq acc[e] BY <1>10, <1>14
    <3> QED BY <3>1, <3>2 DEF Distinct
  <2>3. now' \in 0..MaxNow BY <1>1 DEF MetricInv, StoreTypeOK
  <2> QED BY <1>13, <1>14, <1>15, <1>21, <2>1, <2>2, <2>3 DEF StoreTypeOK, Histories
<1>24. AcceptedIsKept'
  <2> SUFFICES ASSUME NEW e \in Devices, NEW s \in accepted'[e], s \notin series'[e]
               PROVE  Cardinality({u \in accepted'[e] : u.at > s.at}) >= metricMaxPerDevice
    BY DEF AcceptedIsKept
  <2>1. e \notin gone /\ accepted'[e] = live[e] /\ series'[e] = st[e] BY <1>13, <1>14
  <2>2. s \in acc[e] /\ s.at >= now - metricRetention BY <1>10, <2>1
  <2>3. CASE e = d
    <3>1. live[e] = {v \in A : v.at >= now - metricRetention} BY <1>7, <1>10, <2>3
    <3>2. s \in A /\ s \notin x BY <1>7, <1>8, <2>1, <2>2, <2>3
    <3>3. Cardinality({u \in {v \in A : v.at >= now - metricRetention} : u.at > s.at})
            >= metricMaxPerDevice
      BY <1>3, <2>2, <3>2
    <3> QED BY <2>1, <3>1, <3>3
  <2>4. CASE e # d
    <3>1. s \in accepted[e] /\ s \notin p[e] BY <1>7, <1>8, <2>1, <2>2, <2>4
    <3>2. s \notin series[e] BY <1>2, <3>1
    <3>3. Cardinality({u \in accepted[e] : u.at > s.at}) >= metricMaxPerDevice
      BY <3>1, <3>2 DEF MetricInv, AcceptedIsKept
    <3>4. accepted'[e] = accepted[e]
      BY <1>7, <1>10, <2>1, <2>4 DEF MetricInv, StoredIsAccepted, Unexpired
    <3> QED BY <3>3, <3>4
  <2> QED BY <2>3, <2>4
<1>25. StoredIsAccepted'
  <2>1. ASSUME NEW e \in Devices, NEW s \in series'[e], Unexpired(s)
        PROVE  s \in accepted'[e]
    <3>1. e \notin gone /\ s \in st[e] BY <1>13, <2>1
    <3>2. s \in acc[e]
      <4>1. CASE e = d BY <1>3, <1>7, <1>8, <2>1, <3>1, <4>1
      <4>2. CASE e # d BY <1>2, <1>7, <1>8, <2>1, <3>1, <4>2
      <4> QED BY <4>1, <4>2
    <3> QED BY <1>10, <1>14, <2>1, <3>1, <3>2 DEF Unexpired
  <2>2. \A e \in Devices : \A s \in accepted'[e] : Unexpired(s)
    BY <1>10, <1>14 DEF Unexpired
  <2> QED BY <1>1, <2>1, <2>2 DEF StoredIsAccepted, Unexpired
<1> QED BY <1>19, <1>20, <1>22, <1>23, <1>24, <1>25 DEF MetricInv

(* The empty store satisfies the invariant.                                *)
LEMMA MetricInit == ASSUME MetricAssumption, StoreInit PROVE MetricInv
<1>1. Held(series) = {} /\ Entries(series, Devices) = {} BY DEF StoreInit, Held, Entries
<1>2. IsFiniteSet({}) /\ Cardinality({}) = 0 BY FS_EmptySet
<1>3. Finite BY <1>1, <1>2 DEF Finite
<1>4. 0 <= metricMaxTotal /\ 0 <= metricMaxDevices /\ 0 <= metricMaxPerDevice /\ 0 \in 0..MaxNow
  BY DEF MetricAssumption
<1>5. \A d \in Devices : Cardinality(series[d]) <= metricMaxPerDevice
  BY <1>2, <1>4 DEF StoreInit
<1>6. TotalIsExact BY <1>1, <1>2, <1>4, <1>5 DEF StoreInit, TotalIsExact, Size
<1>7. StoreTypeOK BY <1>4 DEF StoreInit, StoreTypeOK, Distinct
<1> QED BY <1>1, <1>3, <1>6, <1>7 DEF StoreInit, MetricInv, StoredIsTimed, AcceptedIsKept,
                                     StoredIsAccepted

(* Every step of the store preserves the invariant.                        *)
LEMMA MetricStep == ASSUME MetricAssumption, MetricInv, [StoreNext]_storeVars PROVE MetricInv'
<1>1. now \in Int /\ \A t \in Stamps : t \in Int /\ t <= now
  BY DEF MetricInv, StoreTypeOK, Stamps, MetricAssumption
<1>2. ASSUME NEW t \in Stamps, NEW d \in Devices, NEW batch \in Batches(t), Upload(d, batch, t)
      PROVE  MetricInv'
  <2>1. PICK n \in 0..metricMaxBatch : batch \in [1..n -> Valid(t)] BY DEF Batches
  <2>2. n \in Nat /\ batch \in [1..n -> Sample] BY <2>1 DEF Valid, MetricAssumption
  <2> QED BY <1>1, <1>2, <2>2, UploadKeeps
<1>3. ASSUME NEW t \in Stamps, Read(t) PROVE MetricInv'
  <2>1. t \in Int /\ t <= now BY <1>1
  <2>2. /\ series' = Pruned(series, t) /\ total' = PrunedTotal(t)
        /\ UNCHANGED <<now, pruneTimer, accepted>>
    BY <1>3 DEF Read
  <2>3. pruneTimer' \in BOOLEAN BY <2>2 DEF MetricInv, StoreTypeOK
  <2>4. Held(series') \subseteq Held(series)
    BY <2>2, PrunedFacts DEF MetricInv, StoreTypeOK, Histories
  <2>5. Held(series') # {} => pruneTimer' BY <2>2, <2>4 DEF MetricInv, StoredIsTimed
  <2> QED BY <2>1, <2>2, <2>3, <2>5, PruneKeeps
<1>4. ASSUME Cleanup PROVE MetricInv'
  <2>1. now \in Int /\ now <= now BY <1>1
  <2>2. /\ series' = Pruned(series, now) /\ total' = PrunedTotal(now)
        /\ UNCHANGED <<now, accepted>> /\ pruneTimer' = (Held(series') # {})
    BY <1>4 DEF Cleanup
  <2>3. pruneTimer' \in BOOLEAN /\ (Held(series') # {} => pruneTimer') BY <2>2
  <2> QED BY <2>1, <2>2, <2>3, PruneKeeps
<1>5. CASE UNCHANGED storeVars
  BY <1>5 DEF storeVars, MetricInv, StoreTypeOK, Finite, TotalIsExact, StoredIsTimed,
              AcceptedIsKept, StoredIsAccepted, Unexpired
<1> QED BY <1>2, <1>3, <1>4, <1>5, TickKeeps DEF StoreNext

(* Every variable keeps its type, and the samples of a device differ in    *)
(* their times.                                                            *)
THEOREM MetricTypeOK == StoreSpec => []StoreTypeOK
<1>1. StoreInit => MetricInv BY MetricAssumption, MetricInit
<1>2. MetricInv /\ [StoreNext]_storeVars => MetricInv' BY MetricAssumption, MetricStep
<1>3. MetricInv => StoreTypeOK BY DEF MetricInv
<1> QED BY <1>1, <1>2, <1>3, PTL DEF StoreSpec

(* The running total is what is stored, within the limits, for any limits, *)
(* devices, batches, and clocks read before the lock was taken.            *)
THEOREM MetricTotalIsExact == StoreSpec => []TotalIsExact
<1>1. StoreInit => MetricInv BY MetricAssumption, MetricInit
<1>2. MetricInv /\ [StoreNext]_storeVars => MetricInv' BY MetricAssumption, MetricStep
<1>3. MetricInv => TotalIsExact BY DEF MetricInv
<1> QED BY <1>1, <1>2, <1>3, PTL DEF StoreSpec

(* Whatever is stored has a timer running that will prune it.              *)
THEOREM MetricStoredIsTimed == StoreSpec => []StoredIsTimed
<1>1. StoreInit => MetricInv BY MetricAssumption, MetricInit
<1>2. MetricInv /\ [StoreNext]_storeVars => MetricInv' BY MetricAssumption, MetricStep
<1>3. MetricInv => StoredIsTimed BY DEF MetricInv
<1> QED BY <1>1, <1>2, <1>3, PTL DEF StoreSpec

(* No accepted sample is lost before it expires, but to newer ones of its  *)
(* device or to the eviction of its whole history.                         *)
THEOREM MetricAcceptedIsKept == StoreSpec => []AcceptedIsKept
<1>1. StoreInit => MetricInv BY MetricAssumption, MetricInit
<1>2. MetricInv /\ [StoreNext]_storeVars => MetricInv' BY MetricAssumption, MetricStep
<1>3. MetricInv => AcceptedIsKept BY DEF MetricInv
<1> QED BY <1>1, <1>2, <1>3, PTL DEF StoreSpec

-----------------------------------------------------------------------------
(* The connections.                                                        *)

ClosedFirst ==
    /\ \A t \in removing : sock[t[1]] = "closed"
    /\ \A c \in Conns : reader[c] = "leave" => sock[c] = "closed"

VictimsOfRegister ==
    \A c \in Conns :
        /\ sock[c] = "new" => reader[c] = "none"
        /\ victims[c] # {} => reader[c] = "register"

(* The inductive invariant.                                                *)
HubInv == HubTypeOK /\ ClosedFirst /\ VictimsOfRegister /\ OpenIsCurrent

(* Before anything connects the invariant holds.                           *)
THEOREM HubStarts == HubInit => HubInv
BY DEF HubInit, HubInv, HubTypeOK, Timers, Readers, ClosedFirst, VictimsOfRegister,
       OpenIsCurrent

(* Every step keeps the types.                                             *)
LEMMA HubStepTyped == HubTypeOK /\ [HubNext]_hubVars => HubTypeOK'
<1> SUFFICES ASSUME HubTypeOK, [HubNext]_hubVars PROVE HubTypeOK' OBVIOUS
<1> USE DEF HubTypeOK, Timers, Readers, tableVars, timerVars
<1>1. ASSUME NEW c \in Conns, NEW i \in Ids, Register(c, i) PROVE HubTypeOK'
  BY <1>1 DEF Register, Entry
<1>2. ASSUME NEW c \in Conns,
             Leave(c) \/ FallSilent(c) \/ BeginAuth(c) \/ Heartbeat(c)
      PROVE  HubTypeOK'
  BY <1>2 DEF Leave, FallSilent, BeginAuth, Heartbeat, Reads
<1>3. ASSUME NEW c \in Conns, GoroutineStep(c) PROVE HubTypeOK'
  <2>1. CASE StartReading(c) BY <2>1 DEF StartReading
  <2>2. CASE Greet(c) BY <2>2 DEF Greet
  <2>3. CASE ReaderEnds(c) BY <2>3 DEF ReaderEnds, Remove
  <2> QED BY <1>3, <2>1, <2>2, <2>3 DEF GoroutineStep
<1>4. ASSUME NEW c \in Conns, RefuseAuth(c) \/ Authenticate(c) PROVE HubTypeOK'
  BY <1>4 DEF RefuseAuth, Authenticate
<1>5. ASSUME NEW t \in Timers, TimerExpires(t[1], t[2]) PROVE HubTypeOK'
  BY <1>5 DEF TimerExpires
<1>6. ASSUME NEW t \in Timers, CallbackStep(t) PROVE HubTypeOK'
  BY <1>6 DEF CallbackStep, CallbackCloses, CallbackRemoves, Remove
<1>7. CASE UNCHANGED hubVars BY <1>7 DEF hubVars
<1> QED BY <1>1, <1>2, <1>3, <1>4, <1>5, <1>6, <1>7 DEF HubNext, DeviceStep

(* A device that registers takes the place of the connection of its id,    *)
(* which it is then to close.                                              *)
LEMMA HubRegisterKeeps ==
    ASSUME HubInv, HubTypeOK', NEW c \in Conns, NEW i \in Ids, Register(c, i)
    PROVE  HubInv'
<1> USE DEF HubInv, Register, timerVars
<1>1. ClosedFirst' BY DEF HubTypeOK, Timers, ClosedFirst
<1>2. VictimsOfRegister' BY DEF HubTypeOK, VictimsOfRegister
<1>3. OpenIsCurrent'
  <2> SUFFICES ASSUME NEW d \in Conns, sock'[d] = "open"
               PROVE  d \in entries' \/ \E e \in Conns : d \in victims'[e]
    BY DEF OpenIsCurrent
  <2>1. CASE d = c BY <2>1
  <2>2. CASE d # c
    <3>1. sock[d] = "open" BY <2>2 DEF HubTypeOK
    <3>2. CASE d \in entries
      <4>1. victims'[c] = Entry({i}) BY DEF HubTypeOK
      <4>2. CASE d \in Entry({i}) BY <4>1, <4>2
      <4>3. CASE d \notin Entry({i})
        <5>1. d \in entries' BY <3>2, <4>3
        <5> QED BY <5>1
      <4> QED BY <4>2, <4>3
    <3>3. ASSUME NEW e \in Conns, d \in victims[e] PROVE \E f \in Conns : d \in victims'[f]
      BY <3>3 DEF HubTypeOK, VictimsOfRegister
    <3> QED BY <3>1, <3>2, <3>3 DEF OpenIsCurrent
  <2> QED BY <2>1, <2>2
<1> QED BY <1>1, <1>2, <1>3

(* The predecessors are closed, and nothing else changes hands.            *)
LEMMA HubStartReadingKeeps ==
    ASSUME HubInv, HubTypeOK', NEW c \in Conns, StartReading(c)
    PROVE  HubInv'
<1> USE DEF HubInv, StartReading
<1>1. ClosedFirst' BY DEF HubTypeOK, Timers, ClosedFirst
<1>2. VictimsOfRegister' BY DEF HubTypeOK, VictimsOfRegister
<1>3. OpenIsCurrent' BY DEF HubTypeOK, OpenIsCurrent
<1> QED BY <1>1, <1>2, <1>3

(* What removes a connection finds it closed.                              *)
LEMMA HubRemoveKeeps ==
    ASSUME HubInv, HubTypeOK', NEW c \in Conns, Remove(c), sock[c] = "closed",
           removing' \subseteq removing, UNCHANGED <<victims, sock>>,
           \/ UNCHANGED reader
           \/ reader[c] # "register" /\ reader' = [reader EXCEPT ![c] = "ended"]
    PROVE  HubInv'
<1> USE DEF HubInv
<1>1. ClosedFirst' BY DEF HubTypeOK, ClosedFirst
<1>2. VictimsOfRegister' BY DEF HubTypeOK, VictimsOfRegister
<1>3. OpenIsCurrent' BY DEF HubTypeOK, OpenIsCurrent, Remove
<1> QED BY <1>1, <1>2, <1>3

(* Every step preserves the invariant, stuttering included.                *)
LEMMA HubStep == HubInv /\ [HubNext]_hubVars => HubInv'
<1> SUFFICES ASSUME HubInv, [HubNext]_hubVars PROVE HubInv' OBVIOUS
<1>0. HubTypeOK /\ HubTypeOK' BY HubStepTyped DEF HubInv
<1> USE DEF tableVars, timerVars
<1>1. ASSUME NEW c \in Conns,
             Leave(c) \/ FallSilent(c) \/ BeginAuth(c) \/ Heartbeat(c)
      PROVE  HubInv'
  BY <1>0, <1>1 DEF HubInv, HubTypeOK, ClosedFirst, VictimsOfRegister, OpenIsCurrent,
                    Timers,
                    Leave, FallSilent, BeginAuth, Heartbeat, Reads
<1>2. ASSUME NEW c \in Conns, RefuseAuth(c) \/ Authenticate(c) \/ Greet(c)
      PROVE  HubInv'
  BY <1>0, <1>2 DEF HubInv, HubTypeOK, ClosedFirst, VictimsOfRegister, OpenIsCurrent,
                    Timers,
                    RefuseAuth, Authenticate, Greet
<1>3. ASSUME NEW c \in Conns, ReaderEnds(c) PROVE HubInv'
  <2>1. sock[c] = "closed" /\ reader[c] # "register"
    BY <1>3 DEF ReaderEnds, HubInv, ClosedFirst
  <2> QED BY <1>0, <1>3, <2>1, HubRemoveKeeps DEF ReaderEnds
<1>4. ASSUME NEW t \in Timers, TimerExpires(t[1], t[2]) PROVE HubInv'
  BY <1>0, <1>4 DEF HubInv, ClosedFirst, VictimsOfRegister, OpenIsCurrent, TimerExpires
<1>5. ASSUME NEW t \in Timers, CallbackCloses(t) PROVE HubInv'
  BY <1>0, <1>5 DEF HubInv, HubTypeOK, ClosedFirst, VictimsOfRegister, OpenIsCurrent,
                    Timers,
                    CallbackCloses
<1>6. ASSUME NEW t \in Timers, CallbackRemoves(t) PROVE HubInv'
  <2>1. t[1] \in Conns /\ sock[t[1]] = "closed"
    BY <1>6 DEF CallbackRemoves, HubInv, ClosedFirst, Timers
  <2> QED BY <1>0, <1>6, <2>1, HubRemoveKeeps DEF CallbackRemoves
<1>7. CASE UNCHANGED hubVars
  BY <1>0, <1>7 DEF hubVars, HubInv, ClosedFirst, VictimsOfRegister, OpenIsCurrent
<1> QED BY <1>0, <1>1, <1>2, <1>3, <1>4, <1>5, <1>6, <1>7, HubRegisterKeeps,
           HubStartReadingKeeps DEF HubNext, DeviceStep, GoroutineStep, CallbackStep

(* Every variable keeps its type.                                          *)
THEOREM HubTypes == HubSpec => []HubTypeOK
<1>1. HubInv => HubTypeOK BY DEF HubInv
<1> QED BY <1>1, HubStarts, HubStep, PTL DEF HubSpec

(* An open connection is never taken out of the table by what is left of   *)
(* its predecessor, for any number of reconnects under one id.             *)
THEOREM HubOpenIsCurrent == HubSpec => []OpenIsCurrent
<1>1. HubInv => OpenIsCurrent BY DEF HubInv
<1> QED BY <1>1, HubStarts, HubStep, PTL DEF HubSpec

-----------------------------------------------------------------------------
(* The requests that wait for an answer.                                   *)

EntryUnderOwnKey == \A k \in Keys : pending[k] # NoCall => keyOf[pending[k]] = k

IdleIsUnknown ==
    \A c \in Calls : pc[c] = "idle" =>
        /\ c \notin answered \cup resolving \cup timedOut
        /\ \A k \in Keys : pending[k] # c

StartedHasKey ==
    \A c \in Calls : (timer[c] # "off" \/ pc[c] \in {"write", "clear", "wait"})
                        => keyOf[c] \in Keys

(* The inductive invariant.                                                *)
IInv ==
    /\ TypeOK /\ OneVerdict /\ NoStaleEntry
    /\ EntryUnderOwnKey /\ IdleIsUnknown /\ StartedHasKey

USE PendingAssumption, DispatchAssumption

(* The empty table satisfies the invariant.                                *)
THEOREM InitInvariant == Init => IInv
BY DEF Init, PendingInit, IInv, TypeOK, PendingTypeOK, OneVerdict, NoStaleEntry,
       EntryUnderOwnKey, IdleIsUnknown, StartedHasKey, TimerStates

(* A call that starts enters the table under its key and only replaces     *)
(* what was there.                                                         *)
LEMMA BeginInvariant ==
    ASSUME IInv, NEW c \in Calls, NEW k \in Keys, pc[c] = "idle", SetPending(c, k),
           pc' = [pc EXCEPT ![c] = "write"], UNCHANGED <<sent, outcome>>
    PROVE  IInv'
<1> USE DEF IInv, SetPending
<1>1. TypeOK' BY DEF TypeOK, PendingTypeOK, TimerStates
<1>2. OneVerdict' BY DEF TypeOK, PendingTypeOK, OneVerdict, IdleIsUnknown
<1>3. NoStaleEntry' BY DEF TypeOK, PendingTypeOK, NoStaleEntry
<1>4. EntryUnderOwnKey'
  BY DEF TypeOK, PendingTypeOK, EntryUnderOwnKey, IdleIsUnknown
<1>5. IdleIsUnknown' BY DEF TypeOK, PendingTypeOK, IdleIsUnknown
<1>6. StartedHasKey' BY DEF TypeOK, PendingTypeOK, StartedHasKey
<1> QED BY <1>1, <1>2, <1>3, <1>4, <1>5, <1>6

(* A call that gives up clears its key, whoever holds it by then.          *)
LEMMA OfflineInvariant ==
    ASSUME IInv, NEW c \in Calls, ReturnOffline(c)
    PROVE  IInv'
<1> USE DEF IInv, ReturnOffline, ClearPending
<1>1. TypeOK' BY DEF TypeOK, PendingTypeOK, TimerStates, Stopped
<1>2. OneVerdict' BY DEF TypeOK, PendingTypeOK, OneVerdict
<1>3. NoStaleEntry' BY DEF TypeOK, PendingTypeOK, NoStaleEntry, EntryUnderOwnKey
<1>4. EntryUnderOwnKey' BY DEF TypeOK, PendingTypeOK, EntryUnderOwnKey
<1>5. IdleIsUnknown' BY DEF TypeOK, PendingTypeOK, IdleIsUnknown
<1>6. StartedHasKey' BY DEF TypeOK, PendingTypeOK, StartedHasKey, Stopped
<1> QED BY <1>1, <1>2, <1>3, <1>4, <1>5, <1>6

(* A fired timer takes its own entry or nothing.                           *)
LEMMA TimerRunsInvariant ==
    ASSUME IInv, NEW c \in Calls, TimerRuns(c), UNCHANGED <<pc, sent, outcome>>
    PROVE  IInv'
<1> USE DEF IInv, TimerRuns
<1>1. TypeOK' BY DEF TypeOK, PendingTypeOK, TimerStates
<1>2. OneVerdict'
  BY DEF TypeOK, PendingTypeOK, OneVerdict, EntryUnderOwnKey, StartedHasKey
<1>3. NoStaleEntry' BY DEF TypeOK, PendingTypeOK, NoStaleEntry
<1>4. EntryUnderOwnKey' BY DEF TypeOK, PendingTypeOK, EntryUnderOwnKey
<1>5. IdleIsUnknown' BY DEF TypeOK, PendingTypeOK, IdleIsUnknown, StartedHasKey
<1>6. StartedHasKey' BY DEF TypeOK, PendingTypeOK, StartedHasKey
<1> QED BY <1>1, <1>2, <1>3, <1>4, <1>5, <1>6

(* An answer takes the entry of its key, which no other key shares.        *)
LEMMA AnswerInvariant ==
    ASSUME IInv, NEW k \in Keys, DeviceAnswers(k)
    PROVE  IInv'
<1> USE DEF IInv, DeviceAnswers, ResolveTake
<1>1. TypeOK' BY DEF TypeOK, PendingTypeOK
<1>2. OneVerdict' BY DEF TypeOK, PendingTypeOK, OneVerdict, EntryUnderOwnKey
<1>3. NoStaleEntry' BY DEF TypeOK, PendingTypeOK, NoStaleEntry
<1>4. EntryUnderOwnKey' BY DEF TypeOK, PendingTypeOK, EntryUnderOwnKey
<1>5. IdleIsUnknown' BY DEF TypeOK, PendingTypeOK, IdleIsUnknown
<1>6. StartedHasKey' BY DEF TypeOK, StartedHasKey
<1> QED BY <1>1, <1>2, <1>3, <1>4, <1>5, <1>6

(* Every step preserves the invariant, stuttering included.                *)
LEMMA StepInvariant == IInv /\ [Next]_vars => IInv'
<1> SUFFICES ASSUME IInv, [Next]_vars PROVE IInv' OBVIOUS
<1> USE DEF IInv
<1>1. ASSUME NEW c \in Calls, NoTarget(c) PROVE IInv'
  BY <1>1 DEF NoTarget, pendingVars, TypeOK, PendingTypeOK, OneVerdict, NoStaleEntry,
              EntryUnderOwnKey, IdleIsUnknown, StartedHasKey
<1>2. ASSUME NEW c \in Calls, NEW k \in Keys, BeginRequest(c, k) \/ BeginAgentRun(c, k)
      PROVE  IInv'
  BY <1>2, BeginInvariant DEF BeginRequest, BeginAgentRun
<1>3. ASSUME NEW c \in Calls, Write(c) PROVE IInv'
  BY <1>3 DEF Write, pendingVars, TypeOK, PendingTypeOK, OneVerdict, NoStaleEntry,
              EntryUnderOwnKey, IdleIsUnknown, StartedHasKey
<1>4. ASSUME NEW c \in Calls, Receive(c) PROVE IInv'
  BY <1>4 DEF Receive, pendingVars, TypeOK, PendingTypeOK, OneVerdict, NoStaleEntry,
              EntryUnderOwnKey, IdleIsUnknown, StartedHasKey
<1>5. ASSUME NEW c \in Calls, TimerFires(c), UNCHANGED <<pc, sent, outcome>> PROVE IInv'
  BY <1>5 DEF TimerFires, TypeOK, PendingTypeOK, TimerStates, OneVerdict, NoStaleEntry,
              EntryUnderOwnKey, IdleIsUnknown, StartedHasKey
<1>6. ASSUME NEW c \in Calls, ResolveSend(c), UNCHANGED <<pc, sent, outcome>> PROVE IInv'
  BY <1>6 DEF ResolveSend, Stopped, TypeOK, PendingTypeOK, TimerStates, OneVerdict,
              NoStaleEntry, EntryUnderOwnKey, IdleIsUnknown, StartedHasKey
<1>7. CASE UNCHANGED vars
  BY <1>7 DEF vars, pendingVars, TypeOK, PendingTypeOK, OneVerdict, NoStaleEntry,
              EntryUnderOwnKey, IdleIsUnknown, StartedHasKey
<1>8. CASE Next
  <2> HIDE DEF IInv
  <2>1. ASSUME NEW c \in Calls, CallStep(c) PROVE IInv'
    BY <1>3, <1>4, <2>1, OfflineInvariant DEF CallStep
  <2>2. ASSUME NEW c \in Calls, TableStep(c) PROVE IInv'
    BY <1>5, <1>6, <2>2, TimerRunsInvariant DEF TableStep, PendingStep
  <2> QED BY <1>1, <1>2, <1>8, <2>1, <2>2, AnswerInvariant DEF Next
<1> QED BY <1>7, <1>8

(* Every variable keeps its type, for any calls and keys.                  *)
THEOREM DispatchTypeOK == Spec => []TypeOK
<1>1. IInv => TypeOK BY DEF IInv
<1> QED BY <1>1, InitInvariant, StepInvariant, PTL DEF Spec

(* No call is ever both answered and timed out, or resolved while it still *)
(* has an entry, also when agent runs share an operation id.               *)
THEOREM DispatchOneVerdict == Spec => []OneVerdict
<1>1. IInv => OneVerdict BY DEF IInv
<1> QED BY <1>1, InitInvariant, StepInvariant, PTL DEF Spec

(* No entry of the table outlives the call that made it.                   *)
THEOREM DispatchNoStaleEntry == Spec => []NoStaleEntry
<1>1. IInv => NoStaleEntry BY DEF IInv
<1> QED BY <1>1, InitInvariant, StepInvariant, PTL DEF Spec
=============================================================================
