------------------------------ MODULE ToolCall ------------------------------
(***************************************************************************)
(* hub.dispatchToolCall and retryPending: a tool call survives reconnects  *)
(* of its device.  The call sends its request to one installation (device  *)
(* id and connection id) and binds to it; when a connection of the hub     *)
(* authenticates, every waiting call is offered it and may retransmit.     *)
(*                                                                         *)
(* The attempts of one call are serialised by a mutex of the call, which   *)
(* is held during the socket write; the caller takes it too when it has    *)
(* timed out, and again, deferred, when it has decided what to return.     *)
(***************************************************************************)
EXTENDS DevicePending

CONSTANTS
    Installations,    \* device id and connection id of possible connections
    Wanted,           \* those whose device the calls may go to
    MaxAttempts,      \* 4: the first attempt and three retransmissions
    MaxConnects       \* bound: times an installation connects

NoInstallation == "none"
Caller == "caller"

ASSUME ToolAssumption ==
    /\ Keys = Calls   \* every call draws its own random request id
    /\ Wanted \subseteq Installations
    /\ {NoInstallation, Caller} \cap Installations = {}
    /\ MaxAttempts \in Nat \ {0} /\ MaxConnects \in Nat

VARIABLES
    conn,       \* [Installations -> state of its entry in hub.connections]
    connects,   \* [Installations -> number of connections so far]
    stale,      \* [Installations -> connections that left the table before
                \*   their read loop came to retryPending]
    pc,         \* [Calls -> where the calling goroutine is]
    hasRetry,   \* calls whose table entry has its retry function
    offers,     \* [Calls -> [Installations -> retry(conn) calls not yet run]]
    holder,     \* [Calls -> who is inside retry, NoInstallation if nobody]
    target,     \* [Calls -> installation being written to by the holder]
    bound, attempts, delivered, finished,   \* dispatchToolCall's variables
    received,   \* history: [Calls -> [Installations -> requests sent there]]
    outcome     \* [Calls -> what dispatchToolCall returned]

hubVars == <<conn, connects, stale>>
callVars == <<pc, hasRetry, outcome>>
retryVars == <<offers, holder, target, bound, attempts, delivered, finished, received>>
vars == <<pendingVars, hubVars, callVars, retryVars>>

Init ==
    /\ PendingInit
    /\ conn = [i \in Installations |-> "absent"]
    /\ connects = [i \in Installations |-> 0]
    /\ stale = [i \in Installations |-> 0]
    /\ pc = [c \in Calls |-> "idle"]
    /\ hasRetry = {}
    /\ offers = [c \in Calls |-> [i \in Installations |-> 0]]
    /\ holder = [c \in Calls |-> NoInstallation]
    /\ target = [c \in Calls |-> NoInstallation]
    /\ bound = [c \in Calls |-> NoInstallation]
    /\ attempts = [c \in Calls |-> 0]
    /\ delivered = {} /\ finished = {}
    /\ received = [c \in Calls |-> [i \in Installations |-> 0]]
    /\ outcome = [c \in Calls |-> "none"]

-----------------------------------------------------------------------------
(* Connections: register, the auth message, retryPending, remove.          *)

Authenticated(i) == conn[i] \in {"marked", "ready"}

(* The entry's connection leaves it; if it has not run retryPending yet,   *)
(* its read loop, perhaps in the middle of the auth message, still may.    *)
LeaveEntry(i) ==
    stale' = IF conn[i] \in {"open", "marked"} THEN [stale EXCEPT ![i] = @ + 1] ELSE stale

(* register: a new connection takes the place of an earlier one, which is  *)
(* closed and can no longer remove the entry.                              *)
Register(i) ==
    /\ connects[i] < MaxConnects
    /\ connects' = [connects EXCEPT ![i] = @ + 1]
    /\ conn' = [conn EXCEPT ![i] = "open"]
    /\ LeaveEntry(i)
    /\ UNCHANGED <<pendingVars, callVars, retryVars>>

MarkAuthenticated(i) ==
    /\ conn[i] = "open"
    /\ conn' = [conn EXCEPT ![i] = "marked"]
    /\ UNCHANGED <<connects, stale, pendingVars, callVars, retryVars>>

(* The snapshot of the table's retry functions, each to be run with a      *)
(* connection of installation i, whatever becomes of that.                 *)
Offered(i) ==
    [c \in Calls |-> IF pending[c] = c /\ c \in hasRetry
                     THEN [offers[c] EXCEPT ![i] = @ + 1] ELSE offers[c]]

(* retryPending, in the read loop of the connection in the table ...       *)
RetryPending(i) ==
    /\ conn[i] = "marked"
    /\ conn' = [conn EXCEPT ![i] = "ready"]
    /\ offers' = Offered(i)
    /\ UNCHANGED <<connects, stale, pendingVars, callVars, holder, target, bound, attempts,
                   delivered, finished, received>>

(* ... and in that of one that was replaced or removed meanwhile.          *)
StaleRetryPending(i) ==
    /\ stale[i] > 0
    /\ stale' = [stale EXCEPT ![i] = @ - 1]
    /\ offers' = Offered(i)
    /\ UNCHANGED <<conn, connects, pendingVars, callVars, holder, target, bound, attempts,
                   delivered, finished, received>>

Remove(i) ==
    /\ conn[i] # "absent"
    /\ conn' = [conn EXCEPT ![i] = "absent"]
    /\ LeaveEntry(i)
    /\ UNCHANGED <<connects, pendingVars, callVars, retryVars>>

-----------------------------------------------------------------------------
(* retry, called by `who': the caller itself, or an installation's read    *)
(* loop.                                                                   *)

(* Mutation: the call is not bound to its first installation.              *)
ReachableAny(c) == {i \in Wanted : Authenticated(i)}

(* The installations retry may write to: any authenticated one of the      *)
(* wanted device first (hub.target picks by priority), then the bound one. *)
Reachable(c) == IF bound[c] = NoInstallation THEN {i \in Wanted : Authenticated(i)}
                ELSE {i \in {bound[c]} : Authenticated(i)}

(* Mutation: no limit on the attempts.                                     *)
RefusedUnlimited(c, who) ==
    \/ c \in finished
    \/ bound[c] # NoInstallation /\ who # Caller /\ who # bound[c]
    \/ Reachable(c) = {}

(* The early returns of retry.                                             *)
Refused(c, who) ==
    \/ c \in finished
    \/ attempts[c] >= MaxAttempts
    \/ bound[c] # NoInstallation /\ who # Caller /\ who # bound[c]
    \/ Reachable(c) = {}

(* Under the mutex: return early, or choose the target, bind and count.    *)
EnterRetry(c, who) ==
    /\ holder[c] = NoInstallation
    /\ \/ /\ Refused(c, who)
          /\ UNCHANGED <<holder, target, bound, attempts>>
       \/ /\ ~Refused(c, who)
          /\ \E i \in Reachable(c) :
                /\ target' = [target EXCEPT ![c] = i]
                /\ bound' = [bound EXCEPT ![c] = i]
          /\ holder' = [holder EXCEPT ![c] = who]
          /\ attempts' = [attempts EXCEPT ![c] = @ + 1]
    /\ UNCHANGED <<delivered, finished, received>>

(* The socket write, which the mutex is held for; it may fail, and it may  *)
(* succeed on a connection that is gone by now.                            *)
WriteRequest(c) ==
    /\ holder[c] # NoInstallation
    /\ holder' = [holder EXCEPT ![c] = NoInstallation]
    /\ target' = [target EXCEPT ![c] = NoInstallation]
    /\ \/ /\ delivered' = delivered \cup {c}
          /\ received' = [received EXCEPT ![c][target[c]] = @ + 1]
       \/ UNCHANGED <<delivered, received>>
    /\ UNCHANGED <<offers, bound, attempts, finished>>

(* A read loop runs one of the retry functions of its snapshot.            *)
Offer(c, i) ==
    /\ offers[c][i] > 0
    /\ EnterRetry(c, i)
    /\ offers' = [offers EXCEPT ![c][i] = @ - 1]
    /\ UNCHANGED <<pendingVars, hubVars, callVars>>

WriteStep(c) ==
    /\ WriteRequest(c)
    /\ pc' = IF holder[c] = Caller THEN [pc EXCEPT ![c] = "wait"] ELSE pc
    /\ UNCHANGED <<pendingVars, hubVars, hasRetry, outcome>>

-----------------------------------------------------------------------------
(* dispatchToolCall, in the order of the code.                             *)

Begin(c) ==
    /\ pc[c] = "idle"
    /\ SetPending(c, c)
    /\ pc' = [pc EXCEPT ![c] = "attach"]
    /\ UNCHANGED <<hubVars, hasRetry, outcome, retryVars>>

(* Mutation: the first attempt is made before the entry can be retried.    *)
AttachRetryNever(c) ==
    /\ pc[c] = "attach"
    /\ pc' = [pc EXCEPT ![c] = "first"]
    /\ UNCHANGED <<pendingVars, hubVars, hasRetry, outcome, retryVars>>

(* The entry, if it is still there, gets the retry function.               *)
AttachRetry(c) ==
    /\ pc[c] = "attach"
    /\ hasRetry' = IF pending[c] = c THEN hasRetry \cup {c} ELSE hasRetry
    /\ pc' = [pc EXCEPT ![c] = "first"]
    /\ UNCHANGED <<pendingVars, hubVars, outcome, retryVars>>

(* retry(nil)                                                              *)
FirstAttempt(c) ==
    /\ pc[c] = "first"
    /\ EnterRetry(c, Caller)
    /\ pc' = [pc EXCEPT ![c] = IF holder'[c] = Caller THEN "writing" ELSE "wait"]
    /\ UNCHANGED <<pendingVars, hubVars, hasRetry, outcome, offers>>

(* The select.  On expiry the mutex is taken to read `delivered'; a result *)
(* is returned at once.                                                    *)
ReceiveResult(c) ==
    /\ pc[c] = "wait" /\ c \in answered
    /\ outcome' = [outcome EXCEPT ![c] = "ok"]
    /\ pc' = [pc EXCEPT ![c] = "finish"]
    /\ UNCHANGED <<pendingVars, hubVars, hasRetry, retryVars>>

(* Mutation: `delivered' is read without the mutex.                        *)
ReceiveExpiredUnlocked(c) ==
    /\ pc[c] = "wait" /\ c \in timedOut
    /\ outcome' = [outcome EXCEPT ![c] = IF c \in delivered THEN "timeout" ELSE "offline"]
    /\ pc' = [pc EXCEPT ![c] = "finish"]
    /\ UNCHANGED <<pendingVars, hubVars, hasRetry, retryVars>>

ReceiveExpired(c) ==
    /\ pc[c] = "wait" /\ c \in timedOut
    /\ holder[c] = NoInstallation
    /\ outcome' = [outcome EXCEPT ![c] = IF c \in delivered THEN "timeout" ELSE "offline"]
    /\ pc' = [pc EXCEPT ![c] = "finish"]
    /\ UNCHANGED <<pendingVars, hubVars, hasRetry, retryVars>>

(* The deferred function, a second acquisition of the mutex.               *)
Finish(c) ==
    /\ pc[c] = "finish"
    /\ holder[c] = NoInstallation
    /\ finished' = finished \cup {c}
    /\ pc' = [pc EXCEPT ![c] = "done"]
    /\ UNCHANGED <<pendingVars, hubVars, hasRetry, outcome, offers, holder, target,
                   bound, attempts, delivered, received>>

(* The device answers a request it received, perhaps late or repeatedly.   *)
DeviceAnswers(c) ==
    /\ \E i \in Installations : received[c][i] > 0
    /\ ResolveTake(c)
    /\ UNCHANGED <<hubVars, callVars, retryVars>>

TableStep(c) == PendingStep(c) /\ UNCHANGED <<hubVars, callVars, retryVars>>

CallStep(c) ==
    \/ AttachRetry(c)
    \/ FirstAttempt(c)
    \/ ReceiveResult(c)
    \/ ReceiveExpired(c)
    \/ Finish(c)

Next ==
    \/ \E i \in Installations :
          \/ Register(i)
          \/ MarkAuthenticated(i)
          \/ RetryPending(i)
          \/ StaleRetryPending(i)
          \/ Remove(i)
    \/ \E c \in Calls :
          \/ Begin(c)
          \/ CallStep(c)
          \/ WriteStep(c)
          \/ TableStep(c)
          \/ DeviceAnswers(c)
          \/ \E i \in Installations : Offer(c, i)

Spec == Init /\ [][Next]_vars

(* Goroutines run, timers expire, a write ends within its deadline, and    *)
(* sync.Mutex does not starve a waiter: it hands the lock over to one that *)
(* has waited for a millisecond.  Devices owe nothing.                     *)
FairSpec ==
    /\ Spec
    /\ \A c \in Calls :
          /\ SF_vars(CallStep(c)) /\ WF_vars(WriteStep(c)) /\ WF_vars(TableStep(c))
          /\ \A i \in Installations : SF_vars(Offer(c, i))
    /\ \A i \in Installations : WF_vars(RetryPending(i))

-----------------------------------------------------------------------------

TypeOK ==
    /\ PendingTypeOK
    /\ conn \in [Installations -> {"absent", "open", "marked", "ready"}]
    /\ connects \in [Installations -> 0..MaxConnects]
    /\ stale \in [Installations -> Nat]
    /\ pc \in [Calls -> {"idle", "attach", "first", "writing", "wait", "finish", "done"}]
    /\ hasRetry \subseteq Calls /\ delivered \subseteq Calls /\ finished \subseteq Calls
    /\ holder \in [Calls -> Installations \cup {Caller, NoInstallation}]
    /\ bound \in [Calls -> Wanted \cup {NoInstallation}]
    /\ target \in [Calls -> Wanted \cup {NoInstallation}]
    /\ attempts \in [Calls -> 0..MaxAttempts]
    /\ offers \in [Calls -> [Installations -> Nat]]
    /\ received \in [Calls -> [Installations -> Nat]]
    /\ outcome \in [Calls -> {"none", "ok", "timeout", "offline"}]

(* The request of a call reaches one installation only, whatever connects, *)
(* and at most MaxAttempts times.                                          *)
BoundToOne ==
    \A c \in Calls : /\ Cardinality({i \in Installations : received[c][i] > 0}) <= 1
                     /\ \A i \in Installations : received[c][i] <= MaxAttempts

(* A device that is there is not overlooked: while an unbound call waits,  *)
(* a connection of its device that has been authenticated and run its      *)
(* retryPending has been offered the call, or the offer is still to run.   *)
NoDeviceOverlooked ==
    \A c \in Calls, i \in Wanted :
        (pc[c] = "wait" /\ bound[c] = NoInstallation /\ pending[c] = c /\ conn[i] = "ready")
            => \E j \in Wanted : offers[c][j] > 0

(* When the outcome is decided it says what has happened so far: offline   *)
(* if and only if no request has gone out and none is on its way, however  *)
(* writes of retransmissions and the timer race.  (One let in before       *)
(* `finished' is set may still go out after the decision: offline is no    *)
(* promise that the device never sees the request.)                        *)
OutcomeTellsDelivery ==
    [][\A c \in Calls : outcome'[c] # outcome[c] =>
           (outcome'[c] = "offline" <=>
                /\ holder[c] = NoInstallation
                /\ \A i \in Installations : received[c][i] = 0)]_vars

(* Every tool call returns.                                                *)
EveryCallReturns == \A c \in Calls : pc[c] # "idle" ~> pc[c] = "done"
=============================================================================
