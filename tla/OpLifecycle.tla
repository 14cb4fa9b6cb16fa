---------------------------- MODULE OpLifecycle ----------------------------
(***************************************************************************)
(* The life of the operation objects behind one operation id: created on   *)
(* first use, ended by the backend or by the inactivity watchdog, cleaned  *)
(* up a fixed delay later and taken out of the registry (server.go,        *)
(* operation.go).  A request looks its object up and acts on it in         *)
(* separate critical sections, so it may act on an object that is being    *)
(* cleaned up or is gone; the timers' callbacks run on their own and a     *)
(* Stop does not reach one that has started.                               *)
(*                                                                         *)
(* Time is one bit per object, whether its inactivity window has passed.   *)
(***************************************************************************)
EXTENDS Naturals, FiniteSets

CONSTANTS
    Requests,       \* concurrent backend requests and client connections
    MaxObjects,     \* bound: objects created for the id
    MaxRequests     \* bound: requests made, and events of batches

ASSUME LifecycleAssumption == MaxObjects \in Nat /\ MaxRequests \in Nat

Objects == 1..MaxObjects
NoObject == 0

VARIABLES
    registry,   \* s.operations[id], NoObject if absent
    created,    \* objects created so far
    status,     \* [Objects -> "unset" (before init), "running" or "ended"]
    touched,    \* objects whose lastEventAt is set
    idle,       \* objects whose lastEventAt is longer ago than their window
    watchdog,   \* [Objects -> the timer field: "nil", "armed" or "fired"]
    firing,     \* [Objects -> where their fireWatchdog is, "no" if nowhere]
    cleanupTimer, cleaning,     \* the same for cleanup
    cleaned,    \* objects cleanup has run on
    revived,    \* history: objects set running when their cleanup could not
                \*   be called off any more, or was not
    req,        \* [Requests -> the request's object and its next section]
    made        \* requests made so far

registryVars == <<registry, created>>
timeVars == <<touched, idle>>
watchVars == <<timeVars, watchdog, firing>>
cleanVars == <<cleanupTimer, cleaning, cleaned, revived>>
reqVars == <<req, made>>
vars == <<registryVars, status, watchVars, cleanVars, reqVars>>

IdleRequest == [obj |-> NoObject, next |-> "none"]

Init ==
    /\ registry = NoObject /\ created = 0
    /\ status = [o \in Objects |-> "unset"]
    /\ touched = {} /\ idle = {}
    /\ watchdog = [o \in Objects |-> "nil"]
    /\ firing = [o \in Objects |-> "no"]
    /\ cleanupTimer = [o \in Objects |-> "nil"]
    /\ cleaning = [o \in Objects |-> "no"]
    /\ cleaned = {} /\ revived = {}
    /\ req = [r \in Requests |-> IdleRequest]
    /\ made = 0

-----------------------------------------------------------------------------
(* Timers.                                                                 *)

Ended(o) == status[o] = "ended"

(* lastEventAt = now, then scheduleWatchdogLocked: an ended operation's    *)
(* watchdog is left alone, any other is armed or armed again.              *)
Refresh(o) ==
    /\ touched' = touched \cup {o}
    /\ idle' = idle \ {o}
    /\ watchdog' = IF status'[o] = "ended" THEN watchdog
                                           ELSE [watchdog EXCEPT ![o] = "armed"]

(* scheduleCleanupLocked                                                   *)
ScheduleCleanup(o) ==
    /\ watchdog' = [watchdog EXCEPT ![o] = "nil"]
    /\ cleanupTimer' = [cleanupTimer EXCEPT ![o] = "armed"]

CleanupPending(o) == cleanupTimer[o] = "armed" \/ cleaning[o] = "start"

(* The window since lastEventAt passes.  It is far longer than the 5       *)
(* seconds the callback's HTTP call may take.                              *)
FallIdle(o) ==
    /\ o \in touched \ idle /\ firing[o] = "no"
    /\ idle' = idle \cup {o}
    /\ UNCHANGED <<registryVars, status, touched, watchdog, firing, cleanVars, reqVars>>

(* An armed watchdog fires once the window it was armed for has passed.    *)
WatchdogFires(o) ==
    /\ watchdog[o] = "armed" /\ o \in idle /\ firing[o] = "no"
    /\ watchdog' = [watchdog EXCEPT ![o] = "fired"]
    /\ firing' = [firing EXCEPT ![o] = "check"]
    /\ UNCHANGED <<registryVars, status, timeVars, cleanVars, reqVars>>

(* fireWatchdog, up to the unlock before callFinalizeAbandoned.            *)
WatchdogCheck(o) ==
    /\ firing[o] = "check"
    /\ \/ /\ Ended(o)
          /\ firing' = [firing EXCEPT ![o] = "no"] /\ UNCHANGED watchdog
       \/ /\ ~Ended(o) /\ o \notin idle
          /\ firing' = [firing EXCEPT ![o] = "no"]
          /\ watchdog' = [watchdog EXCEPT ![o] = "armed"]
       \/ /\ ~Ended(o) /\ o \in idle
          /\ firing' = [firing EXCEPT ![o] = "call"] /\ UNCHANGED watchdog
    /\ UNCHANGED <<registryVars, status, timeVars, cleanVars, reqVars>>

(* Mutation: the operation is ended without reading lastEventAt again.     *)
WatchdogFinishBlindly(o) ==
    /\ firing[o] = "call"
    /\ firing' = [firing EXCEPT ![o] = "no"]
    /\ IF Ended(o) THEN UNCHANGED <<status, watchdog, cleanupTimer>>
       ELSE status' = [status EXCEPT ![o] = "ended"] /\ ScheduleCleanup(o)
    /\ UNCHANGED <<registryVars, timeVars, cleaning, cleaned, revived, reqVars>>

(* fireWatchdog after the call, which an answer, an error or its deadline  *)
(* ended: everything is read again.                                        *)
WatchdogFinish(o) ==
    /\ firing[o] = "call"
    /\ firing' = [firing EXCEPT ![o] = "no"]
    /\ \/ Ended(o) /\ UNCHANGED <<status, watchdog, cleanupTimer>>
       \/ /\ ~Ended(o) /\ o \notin idle
          /\ watchdog' = [watchdog EXCEPT ![o] = "armed"]
          /\ UNCHANGED <<status, cleanupTimer>>
       \/ /\ ~Ended(o) /\ o \in idle
          /\ status' = [status EXCEPT ![o] = "ended"]
          /\ ScheduleCleanup(o)
    /\ UNCHANGED <<registryVars, timeVars, cleaning, cleaned, revived, reqVars>>

CleanupFires(o) ==
    /\ cleanupTimer[o] = "armed" /\ cleaning[o] = "no"
    /\ cleanupTimer' = [cleanupTimer EXCEPT ![o] = "fired"]
    /\ cleaning' = [cleaning EXCEPT ![o] = "start"]
    /\ UNCHANGED <<registryVars, status, watchVars, cleaned, revived, reqVars>>

(* cleanup under operation.mu: both timers go, whatever the status is.     *)
CleanupStart(o) ==
    /\ cleaning[o] = "start"
    /\ cleaning' = [cleaning EXCEPT ![o] = "remove"]
    /\ cleanupTimer' = [cleanupTimer EXCEPT ![o] = "nil"]
    /\ watchdog' = [watchdog EXCEPT ![o] = "nil"]
    /\ cleaned' = cleaned \cup {o}
    /\ UNCHANGED <<registryVars, status, timeVars, firing, revived, reqVars>>

(* Mutation: the registry entry goes, whosever it is.                      *)
CleanupRemoveAny(o) ==
    /\ cleaning[o] = "remove"
    /\ cleaning' = [cleaning EXCEPT ![o] = "no"]
    /\ registry' = NoObject
    /\ UNCHANGED <<created, status, watchVars, cleanupTimer, cleaned, revived, reqVars>>

(* ... then removeOperation, if the registry still has this very object.   *)
CleanupRemove(o) ==
    /\ cleaning[o] = "remove"
    /\ cleaning' = [cleaning EXCEPT ![o] = "no"]
    /\ registry' = IF registry = o THEN NoObject ELSE registry
    /\ UNCHANGED <<created, status, watchVars, cleanupTimer, cleaned, revived, reqVars>>

CallbackStep(o) ==
    \/ WatchdogFires(o)
    \/ WatchdogCheck(o)
    \/ WatchdogFinish(o)
    \/ CleanupFires(o)
    \/ CleanupStart(o)
    \/ CleanupRemove(o)

-----------------------------------------------------------------------------
(* Requests.                                                               *)

(* getOrCreateOperation, for a request that goes on with section `next'.   *)
Lookup(r, next) ==
    /\ req[r] = IdleRequest /\ made < MaxRequests
    /\ made' = made + 1
    /\ \/ /\ registry # NoObject
          /\ req' = [req EXCEPT ![r] = [obj |-> registry, next |-> next]]
          /\ UNCHANGED registryVars
       \/ /\ registry = NoObject /\ created < MaxObjects
          /\ created' = created + 1 /\ registry' = created + 1
          /\ req' = [req EXCEPT ![r] = [obj |-> created + 1, next |-> next]]
    /\ UNCHANGED <<status, watchVars, cleanVars>>

At(r, section) == req[r].next = section
Finished(r) == req' = [req EXCEPT ![r] = IdleRequest] /\ UNCHANGED made

(* Mutation: the watchdog is scheduled before the status is set, so that   *)
(* an operation that had ended is not watched.                             *)
InitOperationLate(r) ==
    LET o == req[r].obj
    IN  /\ At(r, "init")
        /\ status' = [status EXCEPT ![o] = "running"]
        /\ touched' = touched \cup {o} /\ idle' = idle \ {o}
        /\ watchdog' = IF Ended(o) THEN watchdog ELSE [watchdog EXCEPT ![o] = "armed"]
        /\ cleanupTimer' = [cleanupTimer EXCEPT ![o] = "nil"]
        /\ Finished(r)
        /\ UNCHANGED <<registryVars, firing, cleaning, cleaned, revived>>

(* Mutation: a scheduled cleanup is not called off.                        *)
InitKeepsCleanup(r) ==
    LET o == req[r].obj
    IN  /\ At(r, "init")
        /\ status' = [status EXCEPT ![o] = "running"]
        /\ Refresh(o)
        /\ revived' = IF cleaning[o] = "start" THEN revived \cup {o} ELSE revived \ {o}
        /\ Finished(r)
        /\ UNCHANGED <<registryVars, firing, cleanupTimer, cleaning, cleaned>>

(* operation.init: a scheduled cleanup is called off, unless it has fired. *)
InitOperation(r) ==
    LET o == req[r].obj
    IN  /\ At(r, "init")
        /\ status' = [status EXCEPT ![o] = "running"]
        /\ Refresh(o)
        /\ cleanupTimer' = [cleanupTimer EXCEPT ![o] = "nil"]
        /\ revived' = IF cleaning[o] = "start" THEN revived \cup {o} ELSE revived \ {o}
        /\ Finished(r)
        /\ UNCHANGED <<registryVars, firing, cleaning, cleaned>>

(* The request goes on with the next event of its batch.                   *)
NextEvent(r) ==
    /\ made < MaxRequests
    /\ made' = made + 1
    /\ req' = [req EXCEPT ![r].next = "event"]

(* pushEvent, broadcastToolExecute and the llm-execute and llm-cancel of   *)
(* handleLLM; an agent_runtime_end goes on with the end of the session.    *)
PushEvent(r) ==
    LET o == req[r].obj
    IN  /\ At(r, "event")
        /\ UNCHANGED status
        /\ Refresh(o)
        /\ \/ Finished(r)
           \/ req' = [req EXCEPT ![r].next = "sessionEnd"] /\ UNCHANGED made
           \/ NextEvent(r)
        /\ UNCHANGED <<registryVars, firing, cleanVars>>

(* handleSessionEnd, after which a batch goes on.                          *)
SessionEnd(r) ==
    LET o == req[r].obj
    IN  /\ At(r, "sessionEnd")
        /\ status' = [status EXCEPT ![o] = "ended"]
        /\ ScheduleCleanup(o)
        /\ Finished(r) \/ NextEvent(r)
        /\ UNCHANGED <<registryVars, timeVars, firing, cleaning, cleaned, revived>>

(* updateStatus with a status that is not terminal; a cleanup that is      *)
(* scheduled or has fired stays so, ...                                    *)
UpdateRunning(r) ==
    LET o == req[r].obj
    IN  /\ At(r, "status")
        /\ status' = [status EXCEPT ![o] = "running"]
        /\ Refresh(o)
        /\ revived' = IF CleanupPending(o) THEN revived \cup {o} ELSE revived
        /\ Finished(r)
        /\ UNCHANGED <<registryVars, firing, cleanupTimer, cleaning, cleaned>>

(* ... and with a terminal one.                                            *)
UpdateEnded(r) ==
    LET o == req[r].obj
    IN  /\ At(r, "status")
        /\ status' = [status EXCEPT ![o] = "ended"]
        /\ touched' = touched \cup {o} /\ idle' = idle \ {o}
        /\ ScheduleCleanup(o)
        /\ Finished(r)
        /\ UNCHANGED <<registryVars, firing, cleaning, cleaned, revived>>

(* requestConfirmation and requestInput log an event and wait for a        *)
(* client, llm-close retires an attempt: all of them without touching      *)
(* lastEventAt or a timer.                                                 *)
Ask(r) ==
    /\ At(r, "ask")
    /\ Finished(r)
    /\ UNCHANGED <<registryVars, status, watchVars, cleanVars>>

(* A client that subscribes or connects only looks the object up.          *)
Join(r) ==
    /\ At(r, "join")
    /\ Finished(r)
    /\ UNCHANGED <<registryVars, status, watchVars, cleanVars>>

Act(r) ==
    \/ InitOperation(r)
    \/ PushEvent(r)
    \/ SessionEnd(r)
    \/ UpdateRunning(r)
    \/ UpdateEnded(r)
    \/ Ask(r)
    \/ Join(r)

Next ==
    \/ \E o \in Objects : FallIdle(o) \/ CallbackStep(o)
    \/ \E r \in Requests :
          \/ \E next \in {"init", "event", "status", "ask", "join"} : Lookup(r, next)
          \/ Act(r)

Spec == Init /\ [][Next]_vars

(* Time passes, timers fire, callbacks and handlers run to their end.      *)
FairSpec ==
    /\ Spec
    /\ \A o \in Objects : WF_vars(FallIdle(o)) /\ WF_vars(CallbackStep(o))
    /\ \A r \in Requests : WF_vars(Act(r))

-----------------------------------------------------------------------------

TypeOK ==
    /\ registry \in Objects \cup {NoObject} /\ created \in 0..MaxObjects
    /\ registry <= created
    /\ status \in [Objects -> {"unset", "running", "ended"}]
    /\ touched \subseteq 1..created /\ idle \subseteq touched
    /\ cleaned \subseteq touched /\ revived \subseteq touched
    /\ watchdog \in [Objects -> {"nil", "armed", "fired"}]
    /\ firing \in [Objects -> {"no", "check", "call"}]
    /\ cleanupTimer \in [Objects -> {"nil", "armed", "fired"}]
    /\ cleaning \in [Objects -> {"no", "start", "remove"}]
    /\ \A r \in Requests : req[r] = IdleRequest \/ req[r].obj \in 1..created

(* An operation that was initialised, or had an event or a change of       *)
(* status, and has not ended is watched: its watchdog is armed or          *)
(* deciding.  Re-arming, stopping and callbacks in flight never combine so *)
(* that it would wait for ever.  (The cleanup of an operation takes its    *)
(* watchdog away for good; what only asks something of clients, Ask, does  *)
(* not start one.)                                                         *)
ActiveIsWatched ==
    \A o \in touched \ cleaned :
        Ended(o) \/ watchdog[o] = "armed" \/ firing[o] # "no"

(* An operation that has ended is about to be cleaned up, or was.          *)
EndedIsCleanedUp ==
    \A o \in Objects \ cleaned :
        Ended(o) => cleanupTimer[o] = "armed" \/ cleaning[o] # "no"

(* The converse: what is about to be cleaned up has ended.  No order of    *)
(* endings, the watchdog's verdict, callbacks in flight and init tears a   *)
(* running operation down, but for those set running when their cleanup    *)
(* had fired already, or by an update-status, which leaves it scheduled.   *)
OnlyTheEndedAreTornDown ==
    \A o \in Objects : CleanupPending(o) => Ended(o) \/ o \in revived

(* Cleanup follows the status, in both directions.                         *)
CleanupFollowsTheEnd == EndedIsCleanedUp /\ OnlyTheEndedAreTornDown

(* No operation in use is taken out of the registry in place of another:   *)
(* every object there was put there and has not been removed since.        *)
OnlyTheCleanedLeave ==
    [][registry # NoObject /\ registry' # registry => registry \in cleaned]_vars

(* Activity that arrives while fireWatchdog waits for the backend to       *)
(* finalize the operation is not lost: the watchdog ends no operation that *)
(* was refreshed within its window.  (The agent README has every activity  *)
(* refresh it; what Ask stands for does not, and does not stop it.)        *)
WatchdogSparesTheRefreshed ==
    [][\A o \in touched \ idle : firing[o] = "call" /\ firing'[o] = "no"
           => status'[o] = status[o]]_vars

(* An operation that was active once, and then is no more, is ended and    *)
(* leaves the registry.                                                    *)
SilentIsRemoved ==
    \A o \in Objects : (registry = o /\ o \in touched) ~> registry # o
=============================================================================
