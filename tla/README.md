# TLA+ models of the LobeHub gateway

Models, TLC runs and TLAPS proofs for `lobehub-gateway-go`: one process that
hosts two services. The **agent gateway** relays the event stream of agent
operations from the LobeHub backend (HTTP) to browsers (WebSocket). The
**device gateway** relays requests from the backend (HTTP) to users' devices
(WebSocket) and their answers back. All state is in memory; goroutines share it
under a few mutexes and talk to sockets, timers and the backend outside them.

Below, `A/` is `src/agent-gateway-go/internal/gateway/`, `D/` is
`src/device-gateway-go/internal/gateway/`.

## 1. The system

| Component | State | Operations | What makes it hard, and correct |
|---|---|---|---|
| Event log (`A/operation.go`) | `eventCounter`, `eventBuffer` of an operation | every producer assigns an id and buffers; `collectReplay` reads | trimming at a limit; the gap flag must be exact, ids stable |
| v2 delivery (`A/v2.go`, `A/operation.go`) | `hubQueue`, `hubOverflow`, `hubDispatch` per operation; `subs` per connection; `v2Connections` | queue, drain, deliver, subscribe, `completeSubscribe`, evict, `notifyLifecycle`, close | replay races live delivery, init races subscribe, the queue overflows, clients reconnect: nothing lost silently, twice or out of order, nothing to strangers, nobody stuck |
| LLM relay (`A/llm.go`) | `openLLM` per operation | execute, cancel, close, expiry, prune and merge on resume | attempts outlive the buffer; a retired one must not be replayed |
| Operation lifecycle (`A/operation.go`, `A/server.go`) | registry, status, `lastEventAt`, watchdog and cleanup timers | init, events, status updates, `fireWatchdog`, `cleanup` | timers that cannot be stopped in flight, a decision taken before an HTTP call and applied after it, requests holding removed objects |
| Pending confirmations and inputs (`A/operation.go`) | `pendingConf`, `pendingInput`, a timer and a channel per request | request, answer, time out | answer and timeout race, and `resolve*` stops the timer after it has let go of the lock; one key may be used twice |
| v1 sessions (`A/operation.go`, `A/server.go`) | `connections` per operation; auth state, auth timer and heartbeat timer of each | auth message, auth timer, heartbeat, resume, broadcast | broadcast outside the lock; authentication that waits for init; timers whose callbacks cannot be called back |
| Device request table (`D/hub.go`, `D/server.go`) | `hub.pending` | `setPending`, timer callback, `clearPending`, `resolvePending`, `dispatch` | answer, timer and failed write race; agent runs may share a key |
| Tool calls (`D/hub.go`) | the variables of `dispatchToolCall`, shared with read loops through `retry` | first attempt, retransmission when a device authenticates, timeout | one installation only, no device overlooked, an outcome that tells what happened |
| Device connections (`D/connection.go`, `D/hub.go`) | `hub.connections`, two timers per connection | register, authenticate, heartbeat, remove | replacement by a reconnect; what is left of the old connection must not take the new one out |
| Device metrics (`D/metrics.go`) | `series`, `total`, `timer` | `store`, `read`, `cleanup` | three limits kept through a running total; a clock read before the lock |
| Supervisor (`src/cmd/gateway/main.go`) | two servers, an error channel, an exit code | start, fail, shut down | one deadline for both, while requests wait for people |
| Authentication (`auth.go` of both), framing (`ws.go` of both), HTTP and config | none that is shared | verify, frame, decode | not concurrent |

Interactions: backend requests call operations directly (a lock per operation,
`operationsMu` for the registry). An operation hands events to its drain
goroutine through `hubQueue`; the goroutine looks up target connections
(`v2Mu`) and serves each under the connection's own mutex. `notifyLifecycle`
runs on the goroutine of whoever changed the status and starts goroutines that
complete parked subscriptions. On the device side a backend request waits on a
channel which the read loop of a device, or a timer, writes to.

## 2. Modules

| Module | Models | State and actions |
|---|---|---|
| `EventLog` | id counter, buffer, `bufferLocked`, the gap decision | `Record` is the critical section every producer shares |
| `LLMReplay` | extends `EventLog` with `llm.go` | one action per request and per change of status; `Replay(since)` is `collectReplay` as an operator, so every client position is examined in every state. What is `Handed` out keeps its source (buffer or open attempts), so that an event handed out twice would show, and is listed by the number of those that sort before it |
| `OperationFeed` | abstract: what subscribers are promised | published events, a position and the ids held per client; no queue, lock or connection |
| `HubDelivery` | extends `EventLog`; hub queue and drain goroutine, connections, subscriptions, `completeSubscribe`, `notifyLifecycle`, restart | a replay and the queue of a subscription are sets of ids, written in `Ascending` order; one action per critical section: `PushEvent`; `DrainTake`, `DrainTarget`, `DrainDeliver`, `EvictSnapshot`, `EvictVisit`; `CheckOwner` ... `ResumeComplete`; `NotifySnapshot`, `NotifyVisit`; `Connect`, `Disconnect`, `Subscribe`, `Unsubscribe`; `Restart` |
| `OpLifecycle` | registry, status, both timers, requests that look up first and act later | time is one bit per object: has its window passed; `Ask` is what leaves `lastEventAt` alone (request-confirmation, request-input, llm-close) |
| `DevicePending` | the pending table, its timer callbacks and answers | extended by the next two |
| `DeviceDispatch` | `dispatch` and the handlers that use it | `pc` of each calling goroutine |
| `ToolCall` | `dispatchToolCall`, `retryPending`, the life of an installation's connection | the call's mutex is `holder`; the write happens between `EnterRetry` and `WriteRequest`; `stale` counts connections that left the table before their read loop came to `retryPending`, which still runs |
| `PendingAnswers` | `requestConfirmation`, `requestInput` and their `resolve*` | an entry is taken by one resolver (`hand`), which stops the timer later; `stage` of each caller, its timer and its one-place channel; `Resolve`, `Deliver` against `Expire`, `Forget` |
| `Supervisor` | extends `PendingAnswers` with `runServices` and `shutdownServices` | the requests run as long as the process does; listeners fail, a signal comes, `Shutdown` waits for requests in flight, the deadline passes |
| `V1Session` | v1 connections of one operation, with init and broadcast | one action per critical section and per callback step; `auth`, `reader` (where the read loop is), timers that run and callbacks that have decided |
| `DeviceHub` | `hub.connections` and the life of device connections | as above; `victims` are connections replaced and not closed yet |
| `MetricStore`, `MCMetricStore` | `metrics.go` | a history is a set of samples with distinct times, the total counts its `Entries`; the MC module adds the symmetry sets |
| `*_proofs` | theorems | section 5 |

In each module the operators next to an action whose comment begins with
"Mutation:" are deliberately wrong variants of it. No specification uses them;
substituted for the original, each makes TLC find the property it is paired
with violated, which is how it is known that the property says something about
that line of the code.

### What is abstracted

- Payloads are opaque; in `HubDelivery` an event is an ordinary one or a
  `tool_execute`, in `LLMReplay` an attempt of a call or something else.
- A socket write succeeds or fails as a whole. A client that fails, times out
  or is evicted is a `Disconnect` (or `EvictVisit`); all processes that hold
  its connection end then, since nothing they do has an effect any more.
- A v2 client has at most one connection at a time and resumes from the last id
  of a subscription whose `resume_complete` it has seen, or of a live stream; a
  replay cut short is not kept. When it is told of a gap it recovers the rest
  from storage. This is how the protocol asks clients to behave.
- Timers are those of Go 1.23 and later (`go.mod`: 1.26): a tick of
  `time.NewTimer` is received or withdrawn by `Stop`, which therefore fails
  only when the waiter has it. An `AfterFunc` callback that has started cannot
  be stopped.
- `Supervisor` has the requests of the device service as a `Shutdown` that may
  take any time. A `Shutdown` that returns an error after the deadline is
  covered by `GiveUp`, with the same exit code. What listeners report once the
  process is stopping is not read by the code and not modelled.
- `V1Session` models what the gateway writes to an open socket; v1 ignores
  write errors. Its events are those v1 clients get, which `message_patch` is
  not, and the log is not trimmed (`EventLog` does that).
- A handler that looks an operation up and acts on it is two steps in
  `OpLifecycle`. In the other modules there is one operation object, and its
  init is always for one user: a second init with another `userId`, which the
  code takes over (`A/operation.go:83`), is not modelled.
- Some steps of the code are one action where nothing the properties tell apart
  can come between them. `DrainTarget`: `operationTargets` takes each
  connection's mutex in turn; a subscription that changes between two of them
  is read before or after its change, as it is in one snapshot taken earlier or
  later, and delivery looks at it again under its own mutex. `CheckOwner`: the
  owner does not change once set, so that a subscription dropped a moment after
  the comparison is dropped for the same reason. `EvictVisit`: a subscription
  that goes between the check and the close makes an eviction that nobody
  needed, which a `Disconnect` is as well. `ClearPending`: `timer.Stop` after
  the unlock leaves the callback a moment to start, which then finds its entry
  gone, as one that had started earlier does. `TimerRuns`: the `onTimeout`
  after the unlock only fills a channel the caller alone reads, which is the
  caller reading it later.
- History variables (`got`, `known`, `gaps`, `misled`, `toolIds`; `executed`,
  `retired`, `revived`; `revived` of `OpLifecycle`; `received`, `outcome`;
  `accepted`; `first`, `verdict`; `written`, `since`, `before`) record what
  happened and never enable an action.

## 3. Runs

| Run | Question | Bounds |
|---|---|---|
| `HubDelivery` | Do replay, queue, drain, overflow and reconnects lose anything? Does the hub implement `OperationFeed`? | 2 clients (1 executor), queue and buffer of 1, 2 events of 2 kinds, 1 init, 3 subscriptions; clients wait for init |
| `HubDelivery_early` | Subscriptions before init, by the owner and by a stranger, impatient clients, a restart: are parked subscriptions completed, is nothing repeated or reordered even if two goroutines complete one subscription, does everybody who stays catch up, does the stranger see nothing? | 1 client and 1 stranger, queue and buffer of 1, 2 events, 1 init and 1 restart, 2 subscriptions |
| `LLMReplay` | Is the log a suffix, the gap flag exact, the replay exact and free of retired attempts, for every position? | 2 calls, 6 events, buffer 3 trimmed to 2 |
| `DeviceDispatch` | Does a call get one verdict and return, and is nothing left in the table? | 3 calls, 2 of them agent runs with one possible operation id, 1 other key |
| `ToolCall` | Is the call bound to one installation, is no waiting device overlooked, does the outcome match what was sent, does the caller return? | 1 call, 2 installations connecting twice each, 2 attempts (4 in the code) |
| `OpLifecycle` | Is everything active watched, everything ended cleaned up, only what has ended torn down, everything silent removed? | 2 requests at a time, 4 in all, 2 objects |
| `MetricStore` | Is the total exact, do the limits hold, is an accepted sample kept? | 3 devices, 2 readings, clock to 4 with a lag of 1, limits 2 / 2 / 3, retention 2 |
| `Supervisor` | Does every caller get the first answer or a timeout, does a request without a rival stay answerable, does every request return, does the process end, and when may it report success? | 2 requests, 1 tool call id they may share, 1 input id, 2 answers |
| `V1Session` | Do only the owner's connections get events after init, does a resumed client miss none, is what is dead dropped? | 1 connection, the owner's or not, 3 events |
| `DeviceHub` | Does a connection survive its predecessor's end, is what is dead dropped? | 2 connections, 2 ids they may share |

The bounds are small on purpose and meet every case: a buffer of one overflows
and trims at the second event; two events suffice for a hole, a repetition and
an inversion; two subscriptions of a client for a resume, three between two
clients for a resume while the other is live; two objects for a removal that
meets a successor. In `MetricStore` the device limit (2) and the total limit (3)
bind separately, since two devices may hold four samples. Calls of `ToolCall`
do not interact but through the table, whose keys are distinct there. Two
requests suffice in `Supervisor`, since one meets another only through a key
they share; two connections in `DeviceHub`, since a connection meets its
predecessor and its successor only. Connections of `V1Session` meet only
through the owner, init's snapshot and the log, so that what is said of each
shows with one; `OwnerVerified` and `NothingMissed` are proved for any number.
Type invariants that a theorem states are checked by a run only where TLC gets
to them cheaply.

`CHECK_DEADLOCK FALSE` is set everywhere: once the bounds are used up and all
clients are quiet, these systems have nothing to do.

### Runs that end in a counterexample

Each of these shows a disagreement between the code and its documentation; the
property with its exception (`NoSilentLoss`, `CallsWithOwnKeyReturn`)
holds in a passing run.

| Run | What TLC shows |
|---|---|
| `HubDelivery_restart` | A client resumes after a restart with an id from before. Ids start at 1 again, `collectReplay` (`A/operation.go:361`) sees no gap, and delivery skips the new events up to the client's id (`A/v2.go:384`). The agent README promises `gap: true` when the history is not contiguous, and excludes only events buffered before the restart. `NoSilentLoss` excepts such clients (`misled`). |
| `DeviceDispatch_samekey` | Two agent runs with one operation id: one overwrites or clears the entry and the timer of the other, which then waits for ever (`D/hub.go:208`, `212-222`). `CallsWithOwnKeyReturn` excepts calls that share a key. |

Known limits that no run shows; where a property would not hold because of one
it names the exception:

- Init lands while `completeSubscribe` parks a subscription: the call itself
  (`A/v2.go:154-163`) and the goroutine of `notifyLifecycle`
  (`A/v2.go:349-362`) both complete it; the one that replays nothing may say
  `gap: false` before the other says `gap: true`. A client that subscribes
  again while its previous subscription is completing may likewise get the
  replay of the older one (`A/v2.go:187-207`). `NoSilentLoss` excepts both
  (`misled`).
- The agent README (line 54) says that only open attempts are replayed and that
  a cancellation stops the replay. A buffered attempt is replayed when its call
  id is open (`A/llm.go:54-61`): cancel an attempt and execute its call id
  again, and the cancelled one comes back along with the new; and an ended
  operation that runs again replays what its end had stopped.
  `RetiredNotReplayed` excepts such calls (`revived`), but only while they are
  open, and never lets a retired attempt come after the open one.
- The agent README (line 56) says that every backend activity refreshes the
  watchdog's window. `request-confirmation`, `request-input`
  (`A/operation.go:234-283`) and `llm-close` (`A/llm.go:126-130`) do not (`Ask`
  in `OpLifecycle`), so that the watchdog may end an operation that was asked
  something a moment ago. The watchdog properties speak of what does refresh.
- After a terminal status, an `update-status` to running does not call off the
  scheduled cleanup, which tears the running operation down
  (`A/operation.go:595`); only init calls it off, and not when the callback has
  started. `CleanupFollowsTheEnd` excepts both (`revived`) and nothing else.
- v1 clients may get a live event before older ones of a replay that is still
  being written, and two broadcasts in either order: both are written outside
  the lock (`A/operation.go:156-160`, `854-862`). `NothingMissed` says that
  there is no hole, not that there is an order.
- A second confirmation of the same tool call takes the entry of the first, and
  the timeout of either deletes whatever entry the key has by then
  (`A/operation.go:242`, `253`): both return, but one cannot be answered.
  `OpenIsAnswerable` excepts requests that share a key.
- `tool_execute` events are replayed to subscribers that are not executors
  (`A/v2.go:178`).
- A tool call may be answered `DEVICE_OFFLINE` although a retransmission that
  was let in before `finished` was set goes out afterwards (`D/hub.go:284`,
  `327`); see the comment of `OutcomeTellsDelivery`.
- A v1 client that authenticates when its timer has just fired is told that it
  succeeded and closed at once (`A/operation.go:707`), a device likewise: the
  callback decides first and closes later.
- `Shutdown` does not close WebSockets, and waits at most the shutdown timeout
  for confirmations that may take a minute (`A/server.go:229`): such a process
  exits with code 1.

## 4. Fairness

Safety runs use `Spec`. Liveness is stated under `FairSpec`, which assumes only
what the gateway itself guarantees:

- goroutines that can take a step do (`WF` on the drain goroutine, each
  fan-out, each `completeSubscribe`, each handler and callback): no lock is
  held for ever, since every socket write under one has a 5 second deadline and
  the backend call of the watchdog is made outside the lock with its own;
- armed timers fire, time passes; a heartbeat timer only if its client has
  fallen silent, since a client may reset it for ever;
- in `ToolCall`, `SF` for the steps that take the call's mutex, because its
  holder changes: `sync.Mutex` hands itself over to a waiter that has been
  waiting for a millisecond, so nobody starves.

Nothing is assumed of browsers, devices or the backend: they need not connect,
answer or come back, except where a property is conditional on it
(`LiveCatchesUp` is about subscribers that stay). The token check
(`auth.resolve`) need not return either: `NobodyLoiters` holds although it may
hang. Nobody need answer a request for confirmation, its timer ends it.

## 5. Proofs

Eight modules of proofs. TLAPS proves the following for every value of the
constants that satisfies the modules' named assumptions (`EventLogAssumption`,
`LLMAssumption`, `HubAssumption`, `PendingAssumption`, `DispatchAssumption`,
`ToolAssumption`, `LifecycleAssumption`, `SessionAssumption`,
`AnswersAssumption`, `MetricAssumption`). Every invariant a passing run checks is
among it.

- `EventLog_proofs`: `LogSuffix`, `LogGapIsExact`, `LogIdsAreStable`. The
  inductive invariant is the type invariant and `BufferIsSuffix`: the buffer is
  the last `Len(eventBuffer)` events, non-empty once anything was logged. The
  last clause is what lets `collectReplay` decide from `eventBuffer[0]` alone;
  it needs `EventBufferTrim >= 1`. The lemma `BufferedFacts` describes append
  and trim once; the gap flag's exactness and the stability of ids follow.
- `LLMReplay_proofs`: every step of the relay is a step of the log or leaves it
  alone (`RelayImplementsLog`), so those results carry over
  (`RelayBufferIsSuffix`, `RelayGapIsExact`, `RelayIdsAreStable`). For
  `RelayTypeOK` the type invariant is not inductive: reopening an operation
  adds all open calls to `revived`, so that an open call has been executed
  (`OpenIsExecuted`) is carried along. `RelayReplayIsExact` and
  `RelayRetiredNotReplayed` need how the buffer and `openLLM` agree: open
  attempts have distinct ids (`OpenDistinct`); a buffered attempt is the open
  one of its call, unless that was closed or executed again (`BufferAgrees`);
  it is never later than that one; one that is retired and still open will be
  pruned (`RetiredIsPruned`). The
  lemma `RankLists` says what sorting by distinct keys yields, without
  induction over the list.
- `HubDelivery_proofs`, in layers. `HubInv` says of the hub alone that the queue
  is the tail of the log, up to what overflowed, and that the drain goroutine
  holds the event it took last; `ClientInv` says of each client that every id
  its replay or its subscription's queue holds is a logged one, that a live
  subscription's `lastSeq` is at least all that was written to it, and that
  nobody gets past the owner check who is not the owner. Together (`BaseInv`)
  they give `HubTypes`, `HubDeliversInOrder` and `HubStrangersSeeNothing`.
  `TrackInv` relates that to what the client knows: each event after a
  subscription's starting point has been written, is in its replay or queue, is
  in the hub queue or the drain goroutine's hands, or the hub queue has
  overflowed and the client is to be evicted. It gives `HubNoSilentLoss` and
  `HubNothingForgotten` for clients that are not `misled`. `AccountInv` relates
  the state to `OperationFeed`, of which every step of the hub is a step or a
  stutter: `HubRefinesFeed` as long as nobody is misled and nothing restarts,
  and `HubImplementsFeed` in the setting of the run `HubDelivery` (clients that
  wait for init and for the end of their subscription, no restart), where
  nobody is ever misled. A client that is misled may lose events; that part of
  the specification is not claimed.
- `ToolCall_proofs`: `ToolTypeOK`, `ToolBoundToOne`, `ToolNoDeviceOverlooked`,
  `ToolOutcomeTellsDelivery`. Whatever was offered to or received by an
  installation was so while the call was bound to it (`AttemptsAreBound`); a
  call is marked delivered when an installation has received it, and only
  then answered (`HistoryAgrees`), so that offline is said when nothing has
  gone out and nobody holds the mutex to write; an entry sits under its call's own key
  (`KeyIsCall`), and that of a waiting call has its retry function
  (`WaitingIsOffered`).
- `OpLifecycle_proofs`: `LifecycleTypeOK`, `LifecycleActiveIsWatched`,
  `LifecycleCleanupFollowsTheEnd`, `LifecycleOnlyTheCleanedLeave`, `LifecycleSparesTheRefreshed`. The invariant adds where a request stands
  (`RequestsTyped`) and where a cleanup comes from (`CleanupIsOfTouched`): an
  object whose cleanup is armed or running was touched, and one being removed
  was cleaned. Without it nothing would rule out a cleanup timer on an object
  that does not exist yet.
- `Supervisor_proofs`: `PendingVerdictIsFirstAnswer`, `PendingNoStaleEntry`,
  `PendingOpenIsAnswerable` for `PendingAnswers`, and by
  `SupervisorImplementsPending` for the process; `SupervisorExitAnswersEverybody`.
  One follows an answer: an entry is taken once, so that its resolver holds the
  only answer (`HandIsFirst`) until it stops the timer or finds that the caller
  has received the tick; the state of the timer follows from where the caller
  is (`TimerFollowsStage`). That the process leaves nobody unanswered needs
  that `Shutdown` has returned only when all had returned
  (`DrainedIsAnswered`), and that a caller that returned stays returned.
- `V1Session_proofs`: `SessionOwnerVerified`, `SessionNothingMissed`. A
  connection that authenticated without a known owner is in the snapshot init
  takes when it sets the owner (`PendingIsVisited`), since what is open is
  registered (`OpenIsRegistered`); one that authenticates later is compared
  under the same lock. And what was on its way to another user's connection by
  then was logged before init returned (`StrangersGotEarly`).
- `DeviceState_proofs`, for three states of the device gateway that share
  nothing; it extends all three modules, whose specifications are therefore
  named apart (`StoreSpec`, `HubSpec`, and `Spec` of `DeviceDispatch`). `MetricTypeOK`, `MetricTotalIsExact`, `MetricStoredIsTimed`,
  `MetricAcceptedIsKept`: the lemmas `ReplacedCounts` and `WithoutCounts` say
  what replacing or evicting a history does to the number of entries,
  `TrimmedBounded` that trimming keeps within the limit. That no accepted sample
  is lost needs that what is stored and not expired has been accepted
  (`StoredIsAccepted`), and is counted by times: a sample that was replaced by
  one of the same time still stands for a newer one (`UploadedIsKept`).
  `HubOpenIsCurrent`: whoever removes a connection has closed its socket before
  (`ClosedFirst`), and only a connection being registered has predecessors to
  close (`VictimsOfRegister`). `DispatchTypeOK`, `DispatchOneVerdict`,
  `DispatchNoStaleEntry`, also for agent runs that share an operation id: an
  entry sits under the key its call was made with, a call not yet started is
  nowhere in the table, and a started one has a key.

Model-checked only: the leads-to properties (`PendingIsCompleted`,
`LiveCatchesUp`, `SilentIsRemoved`, `CallsWithOwnKeyReturn`, `EveryCallReturns`,
`EveryRequestReturns`, `StopEnds`, `NobodyLoiters` of both modules). Liveness
under fairness is out of the prover's reach. So is induction over data, which
is why batches, replays and queues are stated as sets, or as lists given by the
rank of their elements, and not as folds.

## 6. Plan

Written, in this order: `EventLog`, `HubDelivery` with `OperationFeed`,
`LLMReplay`, `DevicePending`, `DeviceDispatch`, `ToolCall`, `OpLifecycle`,
`MetricStore`, `PendingAnswers`, `Supervisor`, `V1Session`, `DeviceHub`, and the
eight proof modules.

Next, if the system grows or these parts change:

1. Composition of `HubDelivery` with `OpLifecycle`: two incarnations of one
   operation id, `op_lifecycle` messages and their order, the gone notification
   of an old object.
2. Recipients of LLM attempts (`operationTargets`, `deliverOperationEvent`'s
   count), and executors on replay.
3. The status and device list queries and the priority order of `target()`.

Next theorems: what an eviction in `MetricStore` may take (`IsEviction`, as an
action property); what the exceptions of `NoSilentLoss` leave to a misled
client.

## 7. Not modelled

- Authentication (`auth.go` of both): verification of a token without shared
  state but a parsed key; its verdict, and that it may take any time, is an
  input of `V1Session` and `DeviceHub`.
- WebSocket framing (`ws.go` of both): I/O. A write here succeeds or fails as a
  whole.
- Closing of v1 connections by `cleanup`, `op_lifecycle` messages, recipients
  of LLM attempts, forwarding of clients' messages to the backend, status
  queries: see section 6 and the notes of the components.
- Configuration, facades, packaging: no behaviour of their own.
