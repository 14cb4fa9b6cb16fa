---------------------------- MODULE HubDelivery ----------------------------
(***************************************************************************)
(* Delivery of one operation's event log to its protocol-v2 subscribers:   *)
(* the hub queue and the goroutine that drains it (operation.go), the      *)
(* subscriptions of the multiplexed connections and completeSubscribe      *)
(* (v2.go), and the lifecycle fan-out that completes parked subscriptions  *)
(* when the operation is initialised.                                      *)
(*                                                                         *)
(* One action is one critical section (operation.mu, v2Mu or the mutex of  *)
(* one hubConnection); the code between two of them may interleave with    *)
(* everything.  A client has at most one connection at a time; closing a   *)
(* connection empties its subscriptions, after which nothing that still    *)
(* holds it has any effect, so its processes end with it.                  *)
(***************************************************************************)
EXTENDS EventLog, FiniteSets, SequencesExt

CONSTANTS
    Clients,          \* browser tabs, each resuming by its last event id
    Strangers,        \* those of them that belong to another user
    Executors,        \* those that subscribe with executor: true
    MaxInits,         \* bound: /api/operations/init calls per incarnation
    MaxSubscribes,    \* bound: subscribe messages
    MaxRestarts,      \* bound: process restarts
    EarlySubscribe,   \* may clients subscribe before init has landed?
    Impatient         \* do clients change a subscription still completing?

Kinds == {"event", "tool"}    \* tool: a tool_execute event

ASSUME HubAssumption ==
    /\ Strangers \subseteq Clients /\ Executors \subseteq Clients
    /\ Payloads \subseteq Kinds
    /\ MaxInits \in Nat \ {0} /\ MaxSubscribes \in Nat /\ MaxRestarts \in Nat
    /\ EarlySubscribe \in BOOLEAN /\ Impatient \in BOOLEAN

VARIABLES
    ownerKnown,   \* record.UserID is set: init has landed
    hubQueue,     \* events waiting for the drain goroutine
    hubOverflow,  \* the queue overflowed and its subscribers must go
    drain,        \* the drain goroutine; hubDispatch <=> drain.pc # "idle"
    connected,    \* [Clients -> BOOLEAN]: registered in v2Connections
    sub,          \* [Clients -> subscription], state "none" if absent
    proc,         \* running completeSubscribe calls, see Procs
    notifier,     \* running notifyLifecycle(running) calls, one per init
    \* the client's side and the bounds
    got,          \* ids written to the client and not yet acknowledged by it
    cursor,       \* the lastEventId it would resume from
    known,        \* ids of this incarnation it holds, or was told it lacks
    gaps,         \* resume_complete messages with gap: true it received
    misled,       \* clients that may rely on an id they should not: one
                  \*   from before a restart, or of a subscription they
                  \*   changed, or saw completed, while it was completing
    toolIds,      \* ids of the tool_execute events
    inits, subscribes, restarts

hubVars == <<hubQueue, hubOverflow, drain>>
connVars == <<connected, sub, proc, notifier>>
clientVars == <<got, cursor, known, gaps>>
boundVars == <<misled, inits, subscribes, restarts>>
vars == <<logVars, ownerKnown, hubVars, connVars, clientVars, toolIds, boundVars>>

(* completeSubscribe runs on the read loop of a connection (0), and on a   *)
(* goroutine started by the k-th init's notifyLifecycle.                   *)
Procs == 0..MaxInits

Event == [id : Nat, payload : Kinds]
NoEvent == [id |-> 0, payload |-> "event"]

(* A replay, and the queue of a subscription, are sets of ids: the code    *)
(* sorts both by id before it writes them.                                 *)
IdleProc == [pc |-> "idle", since |-> 0, replay |-> {}, gap |-> FALSE]
NoSub == [state |-> "none", lastSeq |-> 0, queue |-> {}]
IdleDrain == [pc |-> "idle", event |-> NoEvent, todo |-> {}]
IdleNotifier == [pc |-> "idle", todo |-> {}]

Init ==
    /\ LogInit
    /\ ownerKnown = FALSE
    /\ hubQueue = << >> /\ hubOverflow = FALSE /\ drain = IdleDrain
    /\ connected = [c \in Clients |-> FALSE]
    /\ sub = [c \in Clients |-> NoSub]
    /\ proc = [c \in Clients |-> [p \in Procs |-> IdleProc]]
    /\ notifier = [k \in 1..MaxInits |-> IdleNotifier]
    /\ got = [c \in Clients |-> << >>]
    /\ cursor = [c \in Clients |-> 0]
    /\ known = [c \in Clients |-> {}]
    /\ gaps = [c \in Clients |-> 0]
    /\ toolIds = {} /\ misled = {}
    /\ inits = 0 /\ restarts = 0
    /\ subscribes = 0

-----------------------------------------------------------------------------
(* Producing.                                                              *)

(* Mutation: the queue grows without bound.                                *)
QueueHubEventUnbounded(event) ==
    /\ hubQueue' = Append(hubQueue, event)
    /\ drain' = IF drain.pc = "idle" THEN [drain EXCEPT !.pc = "take"] ELSE drain
    /\ UNCHANGED hubOverflow

(* queueHubEventLocked: a full queue is thrown away and marked, then the   *)
(* event is queued; the drain goroutine is started if none is running.     *)
QueueHubEvent(event) ==
    LET full == Len(hubQueue) >= EventBufferMax
    IN  /\ hubQueue' = IF full THEN <<event>> ELSE Append(hubQueue, event)
        /\ hubOverflow' = (hubOverflow \/ full)
        /\ drain' = IF drain.pc = "idle" THEN [drain EXCEPT !.pc = "take"] ELSE drain

(* pushEvent, broadcastToolExecute and the other producers, up to the      *)
(* unlock: assign the id, buffer, queue for the hub, in one section.       *)
PushEvent(kind) ==
    /\ Record(kind)
    /\ QueueHubEvent([id |-> eventCounter + 1, payload |-> kind])
    /\ toolIds' = IF kind = "tool" THEN toolIds \cup {eventCounter + 1} ELSE toolIds
    /\ UNCHANGED <<ownerKnown, connVars, clientVars, boundVars>>

(* operation.init: the owner becomes known, then notifyLifecycle runs.  An *)
(* update-status to running does no less once the owner is known.          *)
InitOperation ==
    /\ inits < MaxInits
    /\ inits' = inits + 1
    /\ ownerKnown' = TRUE
    /\ notifier' = [notifier EXCEPT ![inits + 1].pc = "snapshot"]
    /\ UNCHANGED <<logVars, hubVars, connected, sub, proc, clientVars, toolIds,
                   misled, subscribes, restarts>>

(* notifyLifecycle: userHubConnections(owner), ...                         *)
NotifySnapshot(k) ==
    /\ notifier[k].pc = "snapshot"
    /\ notifier' = [notifier EXCEPT ![k] =
           [pc |-> "visit", todo |-> {c \in Clients \ Strangers : connected[c]}]]
    /\ UNCHANGED <<logVars, ownerKnown, hubVars, connected, sub, proc,
                   clientVars, toolIds, boundVars>>

(* ... then each of them: a parked subscription goes back to replaying and *)
(* a goroutine completes it.                                               *)
NotifyVisit(k, c) ==
    LET parked == sub[c].state = "pending"
    IN  /\ notifier[k].pc = "visit" /\ c \in notifier[k].todo
        /\ notifier' = [notifier EXCEPT ![k].todo = @ \ {c}]
        /\ sub' = IF parked THEN [sub EXCEPT ![c].state = "replaying", ![c].queue = {}]
                            ELSE sub
        /\ proc' = IF parked THEN [proc EXCEPT ![c][k].pc = "start"] ELSE proc
        /\ UNCHANGED <<logVars, ownerKnown, hubVars, connected, clientVars,
                       toolIds, boundVars>>

-----------------------------------------------------------------------------
(* Delivering.                                                             *)

(* deliverLocked over a replay, and then what was queued meanwhile: an id  *)
(* at or below the last delivered one is skipped.                          *)
Fresh(lastSeq, replay, queued) ==
    {id \in replay : id > lastSeq}
        \cup {id \in queued : id > lastSeq /\ \A r \in replay : r < id}

(* Each batch is sorted by id before it is written.                        *)
Ascending(ids) ==
    CHOOSE s \in [1..Cardinality(ids) -> ids] :
        \A i, j \in DOMAIN s : i < j => s[i] < s[j]

(* Write them to c, and leave c's subscription as `rest' says, at the last *)
(* id written.                                                             *)
WriteTo(c, replay, queued, rest) ==
    LET ids == Fresh(sub[c].lastSeq, replay, queued)
    IN  /\ got' = [got EXCEPT ![c] = @ \o Ascending(ids)]
        /\ known' = [known EXCEPT ![c] = @ \cup ids]
        /\ sub' = [sub EXCEPT ![c] = [rest EXCEPT !.lastSeq = Max({@} \cup ids)]]

(* Mutation: executors are preferred for every event.                      *)
TargetsAlwaysExecutors(kind) ==
    LET all == {c \in Clients \ Strangers :
                    ownerKnown /\ connected[c] /\ sub[c].state # "none"}
    IN  IF all \cap Executors # {} THEN all \cap Executors ELSE all

(* operationTargets: the owner's open subscribed connections, narrowed to  *)
(* the executors for a tool_execute event if there is one.                 *)
Targets(kind) ==
    LET all == {c \in Clients \ Strangers :
                    ownerKnown /\ connected[c] /\ sub[c].state # "none"}
        executors == all \cap Executors
    IN  IF kind = "tool" /\ executors # {} THEN executors ELSE all

(* Mutation: after an overflow nobody is evicted.                          *)
DrainTakeNoEviction ==
    /\ drain.pc = "take"
    /\ \/ /\ hubOverflow
          /\ hubOverflow' = FALSE /\ hubQueue' = << >> /\ UNCHANGED drain
       \/ /\ ~hubOverflow /\ hubQueue = << >>
          /\ drain' = IdleDrain /\ UNCHANGED <<hubOverflow, hubQueue>>
       \/ /\ ~hubOverflow /\ hubQueue # << >>
          /\ drain' = [drain EXCEPT !.pc = "target", !.event = Head(hubQueue)]
          /\ hubQueue' = Tail(hubQueue) /\ UNCHANGED hubOverflow
    /\ UNCHANGED <<logVars, ownerKnown, connVars, clientVars, toolIds, boundVars>>

(* drainHubEvents, one turn under operation.mu: evict on overflow, stop on *)
(* an empty queue, otherwise take the head and release the lock.           *)
DrainTake ==
    /\ drain.pc = "take"
    /\ \/ /\ hubOverflow
          /\ hubOverflow' = FALSE /\ hubQueue' = << >>
          /\ drain' = [drain EXCEPT !.pc = "overflow"]
       \/ /\ ~hubOverflow /\ hubQueue = << >>
          /\ drain' = IdleDrain
          /\ UNCHANGED <<hubOverflow, hubQueue>>
       \/ /\ ~hubOverflow /\ hubQueue # << >>
          /\ drain' = [drain EXCEPT !.pc = "target", !.event = Head(hubQueue)]
          /\ hubQueue' = Tail(hubQueue)
          /\ UNCHANGED hubOverflow
    /\ UNCHANGED <<logVars, ownerKnown, connVars, clientVars, toolIds, boundVars>>

(* deliverOperationEvent: choose the targets, ...                          *)
DrainTarget ==
    LET targets == Targets(drain.event.payload)
    IN  /\ drain.pc = "target"
        /\ drain' = IF targets = {} THEN [IdleDrain EXCEPT !.pc = "take"]
                                    ELSE [drain EXCEPT !.pc = "deliver", !.todo = targets]
        /\ UNCHANGED <<logVars, ownerKnown, hubQueue, hubOverflow, connVars,
                       clientVars, toolIds, boundVars>>

(* The state of the drain goroutine once it is done with c.                *)
DrainPast(c) ==
    IF drain.pc \in {"deliver", "evict"} /\ drain.todo \subseteq {c}
    THEN [IdleDrain EXCEPT !.pc = "take"]
    ELSE [drain EXCEPT !.todo = @ \ {c}]

(* Mutation: a replaying subscription is not given a queue.                *)
DrainDeliverLiveOnly(c) ==
    /\ drain.pc = "deliver" /\ c \in drain.todo
    /\ drain' = DrainPast(c)
    /\ IF sub[c].state = "live" THEN WriteTo(c, {}, {drain.event.id}, sub[c])
                                ELSE UNCHANGED <<sub, got, known>>
    /\ UNCHANGED <<logVars, ownerKnown, hubQueue, hubOverflow, connected, proc,
                   notifier, cursor, gaps, toolIds, boundVars>>

(* ... then serve them one by one, each under its own mutex: a replaying   *)
(* subscription queues the event, a live one is written to.                *)
DrainDeliver(c) ==
    /\ drain.pc = "deliver" /\ c \in drain.todo
    /\ drain' = DrainPast(c)
    /\ \/ /\ sub[c].state = "replaying"
          /\ sub' = [sub EXCEPT ![c].queue = @ \cup {drain.event.id}]
          /\ UNCHANGED <<got, known>>
       \/ /\ sub[c].state = "live"
          /\ WriteTo(c, {}, {drain.event.id}, sub[c])
       \/ /\ sub[c].state \in {"none", "pending"}
          /\ UNCHANGED <<sub, got, known>>
    /\ UNCHANGED <<logVars, ownerKnown, hubQueue, hubOverflow, connected, proc,
                   notifier, cursor, gaps, toolIds, boundVars>>

(* closeOperationHubSubscribers: snapshot the connections, ...             *)
EvictSnapshot ==
    LET open == {c \in Clients : connected[c]}
    IN  /\ drain.pc = "overflow"
        /\ drain' = IF open = {} THEN [drain EXCEPT !.pc = "take"]
                                 ELSE [drain EXCEPT !.pc = "evict", !.todo = open]
        /\ UNCHANGED <<logVars, ownerKnown, hubQueue, hubOverflow, connVars,
                       clientVars, toolIds, boundVars>>

-----------------------------------------------------------------------------
(* Connections.                                                            *)

Completing(c) == \E p \in Procs : proc[c][p].pc # "idle"

Streaming(c) == sub[c].state = "live" /\ ~Completing(c)

(* The id of the last message the client can rely on.                      *)
Position(c) == IF Streaming(c) /\ got[c] # << >> THEN Last(got[c]) ELSE cursor[c]

(* What the client keeps when its subscription ends.  Messages in flight   *)
(* are lost from some point on; a replay whose resume_complete it has not  *)
(* seen is not kept at all, and it resumes from where it started.          *)
Retained(c) == IF Streaming(c) THEN 0..Len(got[c]) ELSE {0}

Rewind(c, n) ==
    /\ cursor' = [cursor EXCEPT ![c] = IF n = 0 THEN @ ELSE got[c][n]]
    /\ known' = [known EXCEPT ![c] = @ \ {got[c][i] : i \in (n + 1)..Len(got[c])}]
    /\ got' = [got EXCEPT ![c] = << >>]
    /\ UNCHANGED gaps

(* handleV2WebSocket: an authenticated upgrade registers the connection.   *)
Connect(c) ==
    /\ ~connected[c]
    /\ subscribes < MaxSubscribes
    /\ connected' = [connected EXCEPT ![c] = TRUE]
    /\ UNCHANGED <<logVars, ownerKnown, hubVars, sub, proc, notifier, clientVars,
                   toolIds, boundVars>>

(* hubConnection.close: the subscriptions go, and the connection leaves    *)
(* the hub.                                                                *)
Closed(c) ==
    /\ connected' = [connected EXCEPT ![c] = FALSE]
    /\ sub' = [sub EXCEPT ![c] = NoSub]
    /\ proc' = [proc EXCEPT ![c] = [p \in Procs |-> IdleProc]]
    /\ notifier' = [k \in 1..MaxInits |-> [notifier[k] EXCEPT !.todo = @ \ {c}]]
    /\ \E n \in Retained(c) : Rewind(c, n)

(* The client goes away, its heartbeat times out or a write to it fails.   *)
Disconnect(c) ==
    /\ connected[c]
    /\ Closed(c)
    /\ drain' = DrainPast(c)
    /\ UNCHANGED <<logVars, ownerKnown, hubQueue, hubOverflow, toolIds, boundVars>>

(* ... and close those of the snapshot that are subscribed.                *)
EvictVisit(c) ==
    /\ drain.pc = "evict" /\ c \in drain.todo
    /\ drain' = DrainPast(c)
    /\ IF sub[c].state # "none" THEN Closed(c) ELSE UNCHANGED <<connVars, clientVars>>
    /\ UNCHANGED <<logVars, ownerKnown, hubQueue, hubOverflow, toolIds, boundVars>>

(* The read loop takes the next message of the client once it is done with *)
(* the last one.  A patient client also waits for the completion of its    *)
(* previous subscription before it subscribes or unsubscribes.             *)
ReaderFree(c) ==
    /\ connected[c] /\ proc[c][0].pc = "idle"
    /\ Impatient \/ ~Completing(c)
    /\ misled' = IF Completing(c) THEN misled \cup {c} ELSE misled

(* hubConnection.subscribe: a fresh subscription at the client's last      *)
(* event id, replacing any earlier one.                                    *)
Subscribe(c) ==
    /\ ReaderFree(c) /\ (EarlySubscribe \/ ownerKnown)
    /\ subscribes < MaxSubscribes
    /\ subscribes' = subscribes + 1
    /\ \E n \in Retained(c) : Rewind(c, n)
    /\ sub' = [sub EXCEPT ![c] = [state |-> "replaying", lastSeq |-> cursor'[c], queue |-> {}]]
    /\ proc' = [proc EXCEPT ![c][0].pc = "start"]
    /\ UNCHANGED <<logVars, ownerKnown, hubVars, connected, notifier, toolIds,
                   inits, restarts>>

(* readLoop, "unsubscribe".                                                *)
Unsubscribe(c) ==
    /\ ReaderFree(c) /\ sub[c].state # "none"
    /\ sub' = [sub EXCEPT ![c] = NoSub]
    /\ \E n \in Retained(c) : Rewind(c, n)
    /\ UNCHANGED <<logVars, ownerKnown, hubVars, connected, proc, notifier,
                   toolIds, inits, subscribes, restarts>>

-----------------------------------------------------------------------------
(* completeSubscribe, one critical section at a time.                      *)

ProcUnchanged == UNCHANGED <<logVars, ownerKnown, hubVars, connected, notifier,
                             toolIds, boundVars>>

At(c, p, label) == proc[c][p].pc = label
GoTo(c, p, label) == proc' = [proc EXCEPT ![c][p].pc = label]
Return(c, p) == proc' = [proc EXCEPT ![c][p] = IdleProc]

(* Mutation: a known owner is not compared with the connection's user.     *)
CheckOwnerUnchecked(c, p) ==
    /\ At(c, p, "start")
    /\ GoTo(c, p, IF ownerKnown THEN "position" ELSE "park")
    /\ ProcUnchanged /\ UNCHANGED <<sub, clientVars>>

(* The owner snapshot: a stranger is refused, an unowned operation parks   *)
(* the subscription, the owner goes on to the replay.                      *)
CheckOwner(c, p) ==
    /\ At(c, p, "start")
    /\ \/ /\ ownerKnown /\ c \in Strangers
          /\ sub' = [sub EXCEPT ![c] = NoSub] /\ Return(c, p)
       \/ /\ ~ownerKnown
          /\ GoTo(c, p, "park") /\ UNCHANGED sub
       \/ /\ ownerKnown /\ c \notin Strangers
          /\ GoTo(c, p, "position") /\ UNCHANGED sub
    /\ ProcUnchanged /\ UNCHANGED clientVars

Park(c, p) ==
    /\ At(c, p, "park")
    /\ sub' = IF sub[c].state = "none" THEN sub
              ELSE [sub EXCEPT ![c].state = "pending", ![c].queue = {}]
    /\ GoTo(c, p, "recheck")
    /\ ProcUnchanged /\ UNCHANGED clientVars

(* Mutation: the owner is not read again after parking.                    *)
RecheckOwnerNever(c, p) ==
    /\ At(c, p, "recheck")
    /\ Return(c, p)
    /\ ProcUnchanged /\ UNCHANGED <<sub, clientVars>>

(* The owner is read again: init may have landed before the parking.  If   *)
(* not, resume_complete with pending: true is written and the call ends.   *)
RecheckOwner(c, p) ==
    /\ At(c, p, "recheck")
    /\ IF ownerKnown THEN GoTo(c, p, "unpark") ELSE Return(c, p)
    /\ ProcUnchanged /\ UNCHANGED <<sub, clientVars>>

Unpark(c, p) ==
    /\ At(c, p, "unpark")
    /\ sub' = IF sub[c].state = "pending"
              THEN [sub EXCEPT ![c].state = "replaying", ![c].queue = {}] ELSE sub
    /\ GoTo(c, p, "start")
    /\ ProcUnchanged /\ UNCHANGED clientVars

ReadPosition(c, p) ==
    /\ At(c, p, "position")
    /\ IF sub[c].state = "none" THEN Return(c, p)
       ELSE proc' = [proc EXCEPT ![c][p].pc = "collect", ![c][p].since = sub[c].lastSeq]
    /\ ProcUnchanged /\ UNCHANGED <<sub, clientVars>>

RetainedAfter(since) == {id \in RetainedIds : id > since}

(* Mutation: the gap is not reported.                                      *)
CollectReplayNoGap(c, p) ==
    /\ At(c, p, "collect")
    /\ proc' = [proc EXCEPT ![c][p] =
           [pc |-> "replay", since |-> @.since,
            replay |-> RetainedAfter(@.since), gap |-> FALSE]]
    /\ ProcUnchanged /\ UNCHANGED <<sub, clientVars>>

(* collectReplay, under operation.mu.                                      *)
CollectReplay(c, p) ==
    /\ At(c, p, "collect")
    /\ proc' = [proc EXCEPT ![c][p] =
           [pc |-> "replay", since |-> @.since,
            replay |-> RetainedAfter(@.since), gap |-> Gap(@.since)]]
    /\ ProcUnchanged /\ UNCHANGED <<sub, clientVars>>

(* Mutation: ids are compared with the position read before the replay was *)
(* collected, which another completion may have passed meanwhile.          *)
WriteReplaySince(c, p) ==
    LET ids == Fresh(proc[c][p].since, proc[c][p].replay, sub[c].queue)
    IN  /\ At(c, p, "replay")
        /\ IF sub[c].state = "none" THEN Return(c, p) /\ UNCHANGED <<sub, got, known>>
           ELSE /\ got' = [got EXCEPT ![c] = @ \o Ascending(ids)]
                /\ known' = [known EXCEPT ![c] = @ \cup ids]
                /\ sub' = [sub EXCEPT ![c] = [state |-> "live", queue |-> {},
                                             lastSeq |-> Max({@.lastSeq} \cup ids)]]
                /\ proc' = [proc EXCEPT ![c][p] =
                       [IdleProc EXCEPT !.pc = "complete", !.gap = proc[c][p].gap]]
        /\ ProcUnchanged /\ UNCHANGED <<cursor, gaps>>

(* Under the connection's mutex: write the replay and what was queued in   *)
(* the meantime, in id order, and go live.                                 *)
WriteReplay(c, p) ==
    /\ At(c, p, "replay")
    /\ \/ /\ sub[c].state = "none"
          /\ Return(c, p) /\ UNCHANGED <<sub, got, known>>
       \/ /\ sub[c].state # "none"
          /\ WriteTo(c, proc[c][p].replay, sub[c].queue,
                     [sub[c] EXCEPT !.queue = {}, !.state = "live"])
          /\ proc' = [proc EXCEPT ![c][p] =
                 [IdleProc EXCEPT !.pc = "complete", !.gap = proc[c][p].gap]]
    /\ ProcUnchanged /\ UNCHANGED <<cursor, gaps>>

(* resume_complete reaches the client: what it received so far is kept,    *)
(* and a reported gap makes it recover the rest from storage.              *)
ResumeComplete(c, p) ==
    LET last == IF got[c] = << >> THEN cursor[c] ELSE Last(got[c])
    IN  /\ At(c, p, "complete")
        /\ Return(c, p)
        /\ got' = [got EXCEPT ![c] = << >>]
        /\ cursor' = [cursor EXCEPT ![c] = last]
        /\ known' = [known EXCEPT ![c] = IF proc[c][p].gap THEN @ \cup 1..last ELSE @]
        /\ gaps' = [gaps EXCEPT ![c] = IF proc[c][p].gap THEN @ + 1 ELSE @]
        /\ misled' = IF \E q \in Procs \ {p} : ~At(c, q, "idle")
                     THEN misled \cup {c} ELSE misled
        /\ UNCHANGED <<logVars, ownerKnown, hubVars, connected, sub, notifier,
                       toolIds, inits, subscribes, restarts>>

CompleteSubscribe(c, p) ==
    \/ CheckOwner(c, p)
    \/ Park(c, p)
    \/ RecheckOwner(c, p)
    \/ Unpark(c, p)
    \/ ReadPosition(c, p)
    \/ CollectReplay(c, p)
    \/ WriteReplay(c, p)
    \/ ResumeComplete(c, p)

-----------------------------------------------------------------------------
(* The gateway process restarts: everything it held is gone, the clients   *)
(* keep the last event id they know, and events are numbered from 1 again. *)
Restart ==
    /\ restarts < MaxRestarts
    /\ restarts' = restarts + 1
    /\ eventCounter' = 0 /\ eventBuffer' = << >>
    /\ ownerKnown' = FALSE
    /\ hubQueue' = << >> /\ hubOverflow' = FALSE /\ drain' = IdleDrain
    /\ connected' = [c \in Clients |-> FALSE]
    /\ sub' = [c \in Clients |-> NoSub]
    /\ proc' = [c \in Clients |-> [p \in Procs |-> IdleProc]]
    /\ notifier' = [k \in 1..MaxInits |-> IdleNotifier]
    /\ got' = [c \in Clients |-> << >>]
    /\ cursor' = [c \in Clients |-> Position(c)]
    /\ known' = [c \in Clients |-> {}]
    /\ misled' = misled \cup {c \in Clients : Position(c) > 0}
    /\ toolIds' = {}
    /\ inits' = 0
    /\ UNCHANGED <<gaps, subscribes>>

DrainStep ==
    \/ DrainTake
    \/ DrainTarget
    \/ EvictSnapshot
    \/ \E c \in Clients : DrainDeliver(c) \/ EvictVisit(c)

NotifyStep(k) == NotifySnapshot(k) \/ \E c \in Clients : NotifyVisit(k, c)

Next ==
    \/ \E kind \in Payloads : PushEvent(kind)
    \/ InitOperation
    \/ \E k \in 1..MaxInits : NotifyStep(k)
    \/ DrainStep
    \/ \E c \in Clients :
          \/ Connect(c)
          \/ Disconnect(c)
          \/ Subscribe(c)
          \/ Unsubscribe(c)
          \/ \E p \in Procs : CompleteSubscribe(c, p)
    \/ Restart

Spec == Init /\ [][Next]_vars

(* The gateway's own goroutines make progress: no lock is held for ever    *)
(* and every socket write ends within its 5 second deadline.  Nothing is   *)
(* assumed of the clients or of the backend.                               *)
FairSpec ==
    /\ Spec
    /\ WF_vars(DrainStep)
    /\ \A k \in 1..MaxInits : WF_vars(NotifyStep(k))
    /\ \A c \in Clients, p \in Procs : WF_vars(CompleteSubscribe(c, p))

-----------------------------------------------------------------------------

SubStates == {"none", "pending", "replaying", "live"}
Labels == {"idle", "start", "park", "recheck", "unpark", "position", "collect",
           "replay", "complete"}
DrainLabels == {"idle", "take", "target", "deliver", "overflow", "evict"}

Subscription == [state : SubStates, lastSeq : Nat, queue : SUBSET Nat]
Process == [pc : Labels, since : Nat, replay : SUBSET Nat, gap : BOOLEAN]

TypeOK ==
    /\ LogTypeOK
    /\ ownerKnown \in BOOLEAN /\ hubOverflow \in BOOLEAN
    /\ hubQueue \in Seq(Event) /\ Len(hubQueue) <= EventBufferMax
    /\ drain \in [pc : DrainLabels, event : Event, todo : SUBSET Clients]
    /\ connected \in [Clients -> BOOLEAN]
    /\ sub \in [Clients -> Subscription] /\ proc \in [Clients -> [Procs -> Process]]
    /\ notifier \in [1..MaxInits ->
           [pc : {"idle", "snapshot", "visit"}, todo : SUBSET Clients]]
    /\ got \in [Clients -> Seq(Nat)] /\ cursor \in [Clients -> Nat]
    /\ known \in [Clients -> SUBSET Nat] /\ gaps \in [Clients -> Nat]
    /\ toolIds \subseteq 1..eventCounter /\ misled \subseteq Clients
    /\ inits \in 0..MaxInits /\ restarts \in 0..MaxRestarts
    /\ subscribes \in 0..MaxSubscribes

(* Events a client does not need: tool_execute is for executors.           *)
Excused(c) == IF c \in Executors THEN {} ELSE toolIds

Complete(c) ==
    \A id \in 1..eventCounter : id <= sub[c].lastSeq => id \in known[c] \cup Excused(c)

(* A client whose subscription is live and whose resume_complete has been  *)
(* written holds every event up to its position, or was told of the gap.   *)
NoSilentLoss == \A c \in Clients \ misled : Streaming(c) => Complete(c)

(* The same also for a client that resumes after a restart of the process: *)
(* "replay ends with resume_complete, including gap: true when the         *)
(* in-memory buffer no longer contains a contiguous history".              *)
ResumeLosesNothing == \A c \in Clients : Streaming(c) => Complete(c)

(* What a client receives between two acknowledged points is strictly      *)
(* increasing and starts after the id it resumed from: no event is         *)
(* written twice or late, whatever replay, queue and drain race.           *)
DeliveredInOrder ==
    \A c \in Clients :
        /\ \A i \in 2..Len(got[c]) : got[c][i - 1] < got[c][i]
        /\ got[c] # << >> => got[c][1] > cursor[c]

(* An event a live subscription has not been given is still on its way:    *)
(* queued, being delivered to it, or covered by an eviction in progress.   *)
(* Of a misled client this is said once its subscription is complete.      *)
NothingForgotten ==
    \A c \in Clients : sub[c].state = "live" /\ (Streaming(c) \/ c \notin misled) =>
        \A id \in (sub[c].lastSeq + 1)..eventCounter :
            \/ id \in Excused(c)
            \/ \E i \in DOMAIN hubQueue : hubQueue[i].id = id
            \/ drain.pc = "target" /\ drain.event.id = id
            \/ drain.pc = "deliver" /\ drain.event.id = id /\ c \in drain.todo
            \/ hubOverflow \/ drain.pc = "overflow"
            \/ drain.pc = "evict" /\ c \in drain.todo

(* A client of another user never receives an event of this operation, in  *)
(* particular not through a subscription made before the owner was known.  *)
StrangersSeeNothing ==
    \A c \in Strangers : got[c] = << >> /\ known[c] = {} /\ sub[c].state # "live"

(* A subscription parked because it came before init is completed once     *)
(* the operation is initialised, however the two raced.                    *)
PendingIsCompleted ==
    \A c \in Clients \ Strangers :
        (sub[c].state = "pending" /\ ownerKnown) ~> sub[c].state # "pending"

(* A subscriber that stays gets every event that is not excused: it is     *)
(* never left live but stuck, nor replaying for ever.                      *)
LiveCatchesUp ==
    \A c \in Clients \ Strangers :
        <>[](c \notin misled /\ sub[c].state \in {"live", "replaying"})
            => <>[](1..eventCounter \subseteq known[c] \cup Excused(c))

Feed == INSTANCE OperationFeed WITH
            published <- eventCounter,
            optional <- toolIds,
            pos <- [c \in Clients |-> Position(c)],
            held <- [c \in Clients |-> known[c] \cap 1..Position(c)],
            notices <- gaps

(* Within one incarnation of the operation, everything the hub does is a   *)
(* step of the promised feed: a client only ever moves forward over events *)
(* it holds or over a gap it is told of.                                   *)
ImplementsFeed == Feed!Spec
=============================================================================
