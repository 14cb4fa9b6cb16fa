---------------------------- MODULE MetricStore ----------------------------
(***************************************************************************)
(* The in-memory history of device health samples (metrics.go): uploads    *)
(* merge by sampling time, histories are trimmed, pruned by age and        *)
(* evicted whole under global pressure, and a timer prunes what nobody     *)
(* reads any more.  Every action is one critical section of metricStore.mu.*)
(* A history is a set of samples with distinct times; the code keeps it    *)
(* sorted by time.  The clock is read before the lock is taken.            *)
(***************************************************************************)
EXTENDS Integers, Sequences, FiniteSets, FiniteSetsExt

CONSTANTS
    Devices,         \* user and device id of a history
    Readings,        \* what a sample says besides its time
    MaxNow,          \* bound: the clock
    MaxLag,          \* bound: age of a clock value once the lock is held
    metricRetention, metricFutureSkew,
    metricMaxBatch, metricMaxPerDevice, metricMaxTotal, metricMaxDevices

ASSUME MetricAssumption ==
    /\ {MaxNow, MaxLag, metricRetention, metricFutureSkew} \subseteq Nat
    /\ {metricMaxBatch, metricMaxPerDevice, metricMaxTotal, metricMaxDevices} \subseteq Nat \ {0}

VARIABLES
    now,        \* the clock
    series,     \* [Devices -> set of samples], empty if there is no entry
    total,      \* s.total
    pruneTimer, \* s.timer # nil
    accepted    \* history: [Devices -> samples accepted since the device was
                \*   last evicted, the last of a time, not yet expired]

storeVars == <<now, series, total, pruneTimer, accepted>>

Times == 0..(MaxNow + metricFutureSkew)
Sample == [at : Times, reading : Readings]

StoreInit ==
    /\ now = 0 /\ total = 0 /\ pruneTimer = FALSE
    /\ series = [d \in Devices |-> {}]
    /\ accepted = [d \in Devices |-> {}]

(* The values time.Now() may have had when the caller read it.             *)
Stamps == {t \in (now - MaxLag)..now : t >= 0}

Newest(samples) == Max({s.at : s \in samples})
Held(histories) == {d \in Devices : histories[d] # {}}
Entries(histories, devices) == UNION {{d} \X histories[d] : d \in devices}
Size(histories, devices) == Cardinality(Entries(histories, devices))

Without(histories, devices) ==
    [d \in Devices |-> IF d \in devices THEN {} ELSE histories[d]]

(* pruneLocked: the samples older than the retention go.                   *)
Pruned(histories, t) ==
    [d \in Devices |-> {s \in histories[d] : s.at >= t - metricRetention}]

PrunedTotal(t) == total - (Size(series, Devices) - Size(Pruned(series, t), Devices))

(* Mutation: samples are added to those there are.                         *)
MergedNotReplaced(samples, batch) == samples \cup {batch[i] : i \in DOMAIN batch}

(* store: a later sample replaces one of the same time.                    *)
Merged(samples, batch) ==
    {s \in samples : \A i \in DOMAIN batch : batch[i].at # s.at}
      \cup {batch[i] : i \in {j \in DOMAIN batch :
                                 \A k \in DOMAIN batch : k > j => batch[k].at # batch[j].at}}

(* Mutation: the oldest samples are kept.                                  *)
TrimmedOldest(samples) ==
    {s \in samples : Cardinality({n \in samples : n.at < s.at}) < metricMaxPerDevice}

(* The newest samples of a device are kept.                                *)
Trimmed(samples) ==
    {s \in samples : Cardinality({n \in samples : n.at > s.at}) < metricMaxPerDevice}

(* store's loop over evictOldestLocked: the devices that go are those with *)
(* the oldest latest sample, no more of them than needed; of several with  *)
(* the same latest sample any may be taken.                                *)
IsEviction(histories, sum, gone) ==
    LET Fits(devices) == /\ sum - Size(histories, devices) <= metricMaxTotal
                         /\ Cardinality(Held(histories) \ devices) <= metricMaxDevices
        Last(d) == \A e \in gone : Newest(histories[e]) <= Newest(histories[d])
    IN  /\ Fits(gone)
        /\ \A d \in gone, e \in Held(histories) \ gone :
              Newest(histories[d]) <= Newest(histories[e])
        /\ gone # {} => \E d \in gone : Last(d) /\ ~Fits(gone \ {d})

(* Mutation: the total counts the samples of the batch.                    *)
UploadCountsBatch(d, batch, t) ==
    LET pruned == Pruned(series, t)
        samples == Trimmed(Merged(pruned[d], batch))
        stored == [pruned EXCEPT ![d] = samples]
        sum == PrunedTotal(t) + Len(batch)
    IN  \E gone \in SUBSET Held(stored) :
          /\ IsEviction(stored, sum, gone)
          /\ series' = Without(stored, gone)
          /\ total' = sum - Size(stored, gone)
          /\ pruneTimer' = (pruneTimer \/ Held(series') # {})
          /\ accepted' = Without(Pruned([accepted EXCEPT ![d] = Merged(@, batch)], now), gone)
          /\ UNCHANGED now

(* handleDeviceMetrics and store, with the samples that are valid at t and *)
(* among the first metricMaxBatch.                                         *)
Upload(d, batch, t) ==
    LET pruned == Pruned(series, t)
        samples == Trimmed(Merged(pruned[d], batch))
        stored == [pruned EXCEPT ![d] = samples]
        sum == PrunedTotal(t) + Cardinality(samples) - Cardinality(pruned[d])
    IN  \E gone \in SUBSET Held(stored) :
          /\ IsEviction(stored, sum, gone)
          /\ series' = Without(stored, gone)
          /\ total' = sum - Size(stored, gone)
          /\ pruneTimer' = (pruneTimer \/ Held(series') # {})
          /\ accepted' = Without(Pruned([accepted EXCEPT ![d] = Merged(@, batch)], now), gone)
          /\ UNCHANGED now

Valid(t) == {s \in Sample : s.at >= t - metricRetention /\ s.at <= t + metricFutureSkew}

Batches(t) == UNION {[1..n -> Valid(t)] : n \in 0..metricMaxBatch}

(* read prunes too; what it answers is the part of the history it leaves   *)
(* that is not before `since'.                                             *)
Read(t) ==
    /\ series' = Pruned(series, t)
    /\ total' = PrunedTotal(t)
    /\ UNCHANGED <<now, pruneTimer, accepted>>

(* Mutation: the timer is not started again.                               *)
CleanupOnce ==
    /\ pruneTimer
    /\ series' = Pruned(series, now)
    /\ total' = PrunedTotal(now)
    /\ pruneTimer' = FALSE
    /\ UNCHANGED <<now, accepted>>

(* The timer's callback, with a fresh clock: prune, and schedule again if  *)
(* there is anything left.                                                 *)
Cleanup ==
    /\ pruneTimer
    /\ series' = Pruned(series, now)
    /\ total' = PrunedTotal(now)
    /\ pruneTimer' = (Held(series') # {})
    /\ UNCHANGED <<now, accepted>>

Tick ==
    /\ now < MaxNow
    /\ now' = now + 1
    /\ accepted' = Pruned(accepted, now')
    /\ UNCHANGED <<series, total, pruneTimer>>

StoreNext ==
    \/ \E t \in Stamps :
          \/ \E d \in Devices, batch \in Batches(t) : Upload(d, batch, t)
          \/ Read(t)
    \/ Cleanup
    \/ Tick

StoreSpec == StoreInit /\ [][StoreNext]_storeVars

-----------------------------------------------------------------------------

(* Samples with distinct times.                                            *)
Distinct(samples) == \A s, u \in samples : s.at = u.at => s = u

StoreTypeOK ==
    /\ now \in 0..MaxNow /\ total \in Nat /\ pruneTimer \in BOOLEAN
    /\ {series, accepted} \subseteq [Devices -> SUBSET Sample]
    /\ \A d \in Devices : Distinct(series[d]) /\ Distinct(accepted[d])

(* The running total never drifts from what is stored, and the three       *)
(* limits hold after every call.                                           *)
TotalIsExact ==
    /\ total = Size(series, Devices)
    /\ total <= metricMaxTotal /\ Cardinality(Held(series)) <= metricMaxDevices
    /\ \A d \in Devices : Cardinality(series[d]) <= metricMaxPerDevice

(* What is stored is always going to be pruned: the timer is on.           *)
StoredIsTimed == Held(series) # {} => pruneTimer

(* An accepted sample is there, with its last reading, until it expires,   *)
(* unless its device has as many newer ones as it may keep or its whole    *)
(* history was evicted after it came.  No prune with an outdated clock and *)
(* no merge loses one.                                                     *)
AcceptedIsKept ==
    \A d \in Devices : \A s \in accepted[d] :
        \/ s \in series[d]
        \/ Cardinality({n \in accepted[d] : n.at > s.at}) >= metricMaxPerDevice
=============================================================================
