------------------------- MODULE OpLifecycle_proofs -------------------------
(***************************************************************************)
(* What holds of operation objects and their timers for any number of      *)
(* objects and requests.  Beside the invariants themselves, the induction  *)
(* needs to know where a cleanup can come from: an object with a cleanup   *)
(* scheduled or running has been touched, so has one whose session is      *)
(* about to be ended by its last event, and an object being removed has    *)
(* been cleaned.                                                           *)
(***************************************************************************)
EXTENDS OpLifecycle, TLAPS

Sections == {"none", "init", "event", "status", "ask", "join", "sessionEnd"}

RequestsTyped ==
    /\ req \in [Requests -> [obj : Objects \cup {NoObject}, next : Sections]]
    /\ \A r \in Requests : req[r].next = "sessionEnd" => req[r].obj \in touched

CleanupIsOfTouched ==
    \A o \in Objects :
        /\ cleanupTimer[o] = "armed" \/ cleaning[o] # "no" => o \in touched
        /\ cleaning[o] = "remove" => o \in cleaned

(* The inductive invariant.                                                *)
IInv ==
    /\ TypeOK /\ RequestsTyped /\ CleanupIsOfTouched
    /\ ActiveIsWatched /\ EndedIsCleanedUp /\ OnlyTheEndedAreTornDown

USE LifecycleAssumption DEF Objects, NoObject

(* No object exists yet.                                                   *)
LEMMA InitInvariant == Init => IInv
BY DEF Init, IInv, TypeOK, RequestsTyped, CleanupIsOfTouched, ActiveIsWatched,
       EndedIsCleanedUp, OnlyTheEndedAreTornDown, CleanupPending, Ended, IdleRequest, Sections

(* A request that is in a section has an object.                           *)
LEMMA RequestHasObject ==
    ASSUME IInv, NEW r \in Requests, NEW s \in Sections \ {"none"}, At(r, s)
    PROVE  req[r].obj \in 1..created /\ req[r].obj \in Objects
BY DEF IInv, TypeOK, RequestsTyped, At, IdleRequest, Sections

(* The timers' callbacks: no object is created and none touched.           *)
LEMMA CallbackInvariant == ASSUME IInv, NEW o \in Objects, CallbackStep(o) PROVE IInv'
<1> USE DEF IInv, TypeOK, RequestsTyped, CleanupIsOfTouched, ActiveIsWatched,
            EndedIsCleanedUp, OnlyTheEndedAreTornDown, CleanupPending, Ended,
            registryVars, timeVars, watchVars, cleanVars, reqVars
<1>1. CASE WatchdogFires(o) BY <1>1 DEF WatchdogFires
<1>2. CASE WatchdogCheck(o)
  <2>1. TypeOK' BY <1>2 DEF WatchdogCheck
  <2>2. RequestsTyped' BY <1>2 DEF WatchdogCheck
  <2>3. CleanupIsOfTouched' BY <1>2 DEF WatchdogCheck
  <2>4. ActiveIsWatched' BY <1>2 DEF WatchdogCheck
  <2>5. EndedIsCleanedUp' BY <1>2 DEF WatchdogCheck
  <2>6. OnlyTheEndedAreTornDown' BY <1>2 DEF WatchdogCheck
  <2> QED BY <2>1, <2>2, <2>3, <2>4, <2>5, <2>6
<1>3. CASE WatchdogFinish(o)
  <2> USE <1>3 DEF WatchdogFinish, ScheduleCleanup
  <2>1. TypeOK'
    <3>1. status' \in [Objects -> {"unset", "running", "ended"}] OBVIOUS
    <3>2. watchdog' \in [Objects -> {"nil", "armed", "fired"}] OBVIOUS
    <3>3. firing' \in [Objects -> {"no", "check", "call"}] OBVIOUS
    <3>4. cleanupTimer' \in [Objects -> {"nil", "armed", "fired"}] OBVIOUS
    <3> QED BY <3>1, <3>2, <3>3, <3>4
  <2>2. RequestsTyped' OBVIOUS
  <2>3. CleanupIsOfTouched' OBVIOUS
  <2>4. ActiveIsWatched' OBVIOUS
  <2>5. EndedIsCleanedUp' OBVIOUS
  <2>6. OnlyTheEndedAreTornDown' OBVIOUS
  <2> QED BY <2>1, <2>2, <2>3, <2>4, <2>5, <2>6
<1>4. CASE CleanupFires(o) BY <1>4 DEF CleanupFires
<1>5. CASE CleanupStart(o) BY <1>5 DEF CleanupStart
<1>6. CASE CleanupRemove(o) BY <1>6 DEF CleanupRemove
<1> QED BY <1>1, <1>2, <1>3, <1>4, <1>5, <1>6 DEF CallbackStep

(* The next step of a request: it is done, or goes on with its object.     *)
LEMMA RequestMoves ==
    ASSUME IInv, NEW r \in Requests, NEW x, NEW s \in Sections \ {"none"},
           \/ req' = [req EXCEPT ![r] = IdleRequest]
           \/ x \in 1..created' /\ req' = [req EXCEPT ![r] = [obj |-> x, next |-> s]],
           created' \in created..MaxObjects, touched \subseteq touched',
           s = "sessionEnd" => x \in touched'
    PROVE  /\ RequestsTyped'
           /\ \A q \in Requests : req'[q] = IdleRequest \/ req'[q].obj \in 1..created'
<1> USE DEF RequestsTyped
<1>1. /\ req \in [Requests -> [obj : Objects \cup {NoObject}, next : Sections]]
      /\ created \in Nat /\ created' \in Nat
      /\ \A q \in Requests : req[q] = IdleRequest \/ req[q].obj \in 1..created
  BY DEF IInv, TypeOK
<1>2. IdleRequest \in [obj : Objects \cup {NoObject}, next : Sections] /\ IdleRequest.next = "none"
  BY DEF IdleRequest, Sections
<1>3. CASE req' = [req EXCEPT ![r] = IdleRequest]
  <2> HIDE DEF Sections
  <2>1. RequestsTyped' BY <1>1, <1>2, <1>3 DEF IInv
  <2>2. \A q \in Requests : req'[q] = IdleRequest \/ req'[q].obj \in 1..created'
    BY <1>1, <1>3
  <2> QED BY <2>1, <2>2
<1>4. CASE x \in 1..created' /\ req' = [req EXCEPT ![r] = [obj |-> x, next |-> s]]
  <2>1. [obj |-> x, next |-> s] \in [obj : Objects \cup {NoObject}, next : Sections]
    BY <1>1, <1>4
  <2>2. RequestsTyped' BY <1>1, <1>4, <2>1 DEF IInv
  <2>3. \A q \in Requests : req'[q] = IdleRequest \/ req'[q].obj \in 1..created'
    BY <1>1, <1>4
  <2> QED BY <2>2, <2>3
<1> QED BY <1>3, <1>4

(* getOrCreateOp finds the registered object or registers a new one; the   *)
(* request goes on with it.                                                *)
LEMMA LookupInvariant ==
    ASSUME IInv, NEW r \in Requests, NEW next \in Sections \ {"none", "sessionEnd"},
           Lookup(r, next)
    PROVE  IInv'
<1> USE DEF IInv, registryVars, timeVars, watchVars, cleanVars, Lookup
<1>1. PICK x : req' = [req EXCEPT ![r] = [obj |-> x, next |-> next]] /\ x \in 1..created'
               /\ created' \in created..MaxObjects /\ registry' \in 1..created'
  <2>1. registry \in 0..MaxObjects /\ created \in 0..MaxObjects /\ registry <= created
    BY DEF TypeOK
  <2>2. CASE registry # NoObject /\ UNCHANGED registryVars
             /\ req' = [req EXCEPT ![r] = [obj |-> registry, next |-> next]]
    <3>1. registry \in 1..created' /\ created' \in created..MaxObjects /\ registry' \in 1..created'
      BY <2>1, <2>2
    <3> QED BY <2>2, <3>1
  <2>3. CASE /\ created < MaxObjects
             /\ created' = created + 1 /\ registry' = created + 1
             /\ req' = [req EXCEPT ![r] = [obj |-> created + 1, next |-> next]]
    <3>1. created + 1 \in 1..created' /\ created' \in created..MaxObjects /\ registry' \in 1..created'
      BY <2>1, <2>3
    <3> QED BY <2>3, <3>1
  <2> QED BY <2>2, <2>3
<1>2. next # "sessionEnd" /\ next \in Sections \ {"none"} /\ touched' = touched
  BY DEF Sections
<1>3. /\ RequestsTyped'
      /\ \A q \in Requests : req'[q] = IdleRequest \/ req'[q].obj \in 1..created'
  <2> HIDE DEF IInv, Lookup
  <2> QED BY <1>1, <1>2, RequestMoves
<1>4. TypeOK' BY <1>1, <1>3 DEF TypeOK
<1>5. CleanupIsOfTouched' /\ ActiveIsWatched' /\ EndedIsCleanedUp' /\ OnlyTheEndedAreTornDown'
  BY DEF CleanupIsOfTouched, ActiveIsWatched, EndedIsCleanedUp, OnlyTheEndedAreTornDown,
         CleanupPending, Ended
<1> QED BY <1>3, <1>4, <1>5

(* The handlers: whatever ends an object schedules its cleanup, and        *)
(* whatever touches one that has not ended arms its watchdog.              *)
LEMMA ActInvariant == ASSUME IInv, NEW r \in Requests, Act(r) PROVE IInv'
<1> DEFINE o == req[r].obj
<1> USE DEF IInv, TypeOK, RequestsTyped, CleanupIsOfTouched, ActiveIsWatched,
            EndedIsCleanedUp, OnlyTheEndedAreTornDown, CleanupPending, Ended,
            registryVars, timeVars, watchVars, cleanVars,
            Finished, NextEvent, IdleRequest, Sections
<1>1. CASE InitOperation(r)
  <2>1. o \in 1..created /\ o \in Objects BY <1>1, RequestHasObject DEF InitOperation
  <2> USE <1>1, <2>1 DEF InitOperation, Refresh
  <2>2. TypeOK' OBVIOUS
  <2>3. RequestsTyped' OBVIOUS
  <2>4. CleanupIsOfTouched' OBVIOUS
  <2>5. ActiveIsWatched' OBVIOUS
  <2>6. EndedIsCleanedUp' OBVIOUS
  <2>7. OnlyTheEndedAreTornDown' OBVIOUS
  <2> QED BY <2>2, <2>3, <2>4, <2>5, <2>6, <2>7
<1>2. CASE PushEvent(r)
  <2>1. o \in 1..created /\ o \in Objects BY <1>2, RequestHasObject DEF PushEvent
  <2>2. /\ RequestsTyped'
        /\ \A q \in Requests : req'[q] = IdleRequest \/ req'[q].obj \in 1..created'
    <3>1. touched' = touched \cup {o} /\ created' = created
      BY <1>2 DEF PushEvent, Refresh
    <3>2. PICK s \in {"event", "sessionEnd"} :
              \/ req' = [req EXCEPT ![r] = IdleRequest]
              \/ req' = [req EXCEPT ![r] = [obj |-> o, next |-> s]]
      BY <1>2 DEF PushEvent
    <3>3. created \in 0..MaxObjects OBVIOUS
    <3> HIDE DEF IInv, o, IdleRequest
    <3> QED BY <2>1, <3>1, <3>2, <3>3, RequestMoves
  <2> USE <1>2, <2>1 DEF PushEvent, Refresh
  <2>3. TypeOK' BY <2>2
  <2>4. CleanupIsOfTouched' OBVIOUS
  <2>5. ActiveIsWatched' OBVIOUS
  <2>6. EndedIsCleanedUp' OBVIOUS
  <2>7. OnlyTheEndedAreTornDown' OBVIOUS
  <2> QED BY <2>2, <2>3, <2>4, <2>5, <2>6, <2>7
<1>3. CASE SessionEnd(r)
  <2>1. o \in 1..created /\ o \in Objects BY <1>3, RequestHasObject DEF SessionEnd
  <2>2. o \in touched BY <1>3 DEF SessionEnd, At
  <2> USE <1>3, <2>1, <2>2 DEF SessionEnd, ScheduleCleanup
  <2>3. /\ RequestsTyped'
        /\ \A q \in Requests : req'[q] = IdleRequest \/ req'[q].obj \in 1..created'
    <3>1. touched' = touched /\ created' = created BY <1>3 DEF SessionEnd
    <3>2. \/ req' = [req EXCEPT ![r] = IdleRequest]
          \/ req' = [req EXCEPT ![r] = [obj |-> o, next |-> "event"]]
      BY <1>3 DEF SessionEnd
    <3>3. created \in 0..MaxObjects OBVIOUS
    <3> HIDE DEF IInv, o, IdleRequest
    <3> QED BY <2>1, <3>1, <3>2, <3>3, RequestMoves
  <2>4. TypeOK' BY <2>3
  <2>5. CleanupIsOfTouched' OBVIOUS
  <2>6. ActiveIsWatched' OBVIOUS
  <2>7. EndedIsCleanedUp' OBVIOUS
  <2>8. OnlyTheEndedAreTornDown' OBVIOUS
  <2> QED BY <2>3, <2>4, <2>5, <2>6, <2>7, <2>8
<1>4. CASE UpdateRunning(r)
  <2>1. o \in 1..created /\ o \in Objects BY <1>4, RequestHasObject DEF UpdateRunning
  <2> USE <1>4, <2>1 DEF UpdateRunning, Refresh
  <2>2. TypeOK' OBVIOUS
  <2>3. RequestsTyped' OBVIOUS
  <2>4. CleanupIsOfTouched' OBVIOUS
  <2>5. ActiveIsWatched' OBVIOUS
  <2>6. EndedIsCleanedUp' OBVIOUS
  <2>7. OnlyTheEndedAreTornDown' OBVIOUS
  <2> QED BY <2>2, <2>3, <2>4, <2>5, <2>6, <2>7
<1>5. CASE UpdateEnded(r)
  <2>1. o \in 1..created /\ o \in Objects BY <1>5, RequestHasObject DEF UpdateEnded
  <2> USE <1>5, <2>1 DEF UpdateEnded, ScheduleCleanup
  <2>2. TypeOK' OBVIOUS
  <2>3. RequestsTyped' OBVIOUS
  <2>4. CleanupIsOfTouched' OBVIOUS
  <2>5. ActiveIsWatched' OBVIOUS
  <2>6. EndedIsCleanedUp' OBVIOUS
  <2>7. OnlyTheEndedAreTornDown' OBVIOUS
  <2> QED BY <2>2, <2>3, <2>4, <2>5, <2>6, <2>7
<1>6. CASE Ask(r) BY <1>6 DEF Ask
<1>7. CASE Join(r) BY <1>7 DEF Join
<1> QED BY <1>1, <1>2, <1>3, <1>4, <1>5, <1>6, <1>7 DEF Act

(* Every step preserves the invariant.                                     *)
LEMMA StepInvariant == IInv /\ [Next]_vars => IInv'
<1> SUFFICES ASSUME IInv, [Next]_vars PROVE IInv' OBVIOUS
<1>1. ASSUME NEW o \in Objects, FallIdle(o) PROVE IInv'
  BY <1>1 DEF FallIdle, IInv, TypeOK, RequestsTyped, CleanupIsOfTouched, ActiveIsWatched,
              EndedIsCleanedUp, OnlyTheEndedAreTornDown, CleanupPending, Ended,
              registryVars, cleanVars, reqVars
<1>2. CASE UNCHANGED vars
  BY <1>2 DEF vars, IInv, TypeOK, RequestsTyped, CleanupIsOfTouched, ActiveIsWatched,
              EndedIsCleanedUp, OnlyTheEndedAreTornDown, CleanupPending, Ended,
            registryVars, timeVars, watchVars, cleanVars, reqVars
<1>3. {"init", "event", "status", "ask", "join"} \subseteq Sections \ {"none", "sessionEnd"}
  BY DEF Sections
<1> HIDE DEF IInv
<1> QED BY <1>1, <1>2, <1>3, CallbackInvariant, LookupInvariant, ActInvariant DEF Next

(* The registry, the timers and the requests are well typed.               *)
THEOREM LifecycleTypeOK == Spec => []TypeOK
<1>1. IInv => TypeOK BY DEF IInv
<1> QED BY <1>1, InitInvariant, StepInvariant, PTL DEF Spec

(* An operation that was active and has not ended is always watched.       *)
THEOREM LifecycleActiveIsWatched == Spec => []ActiveIsWatched
<1>1. IInv => ActiveIsWatched BY DEF IInv
<1> QED BY <1>1, InitInvariant, StepInvariant, PTL DEF Spec

(* An operation that has ended is about to be cleaned up, or was; and what *)
(* is about to be cleaned up has ended, but for the named cases of         *)
(* operations set running when the cleanup could not be called off any     *)
(* more, or was not.                                                       *)
THEOREM LifecycleCleanupFollowsTheEnd == Spec => []CleanupFollowsTheEnd
<1>1. IInv => CleanupFollowsTheEnd BY DEF IInv, CleanupFollowsTheEnd
<1> QED BY <1>1, InitInvariant, StepInvariant, PTL DEF Spec

(* Only an object that has been cleaned leaves the registry.               *)
THEOREM LifecycleOnlyTheCleanedLeave == Spec => OnlyTheCleanedLeave
<1> DEFINE Leave == registry # NoObject /\ registry' # registry => registry \in cleaned
<1>1. IInv /\ [Next]_vars => [Leave]_vars
  <2> SUFFICES ASSUME IInv, Next PROVE Leave OBVIOUS
  <2>1. ASSUME NEW o \in Objects, CleanupRemove(o) PROVE Leave
    BY <2>1 DEF CleanupRemove, IInv, CleanupIsOfTouched
  <2>2. ASSUME NEW o \in Objects, FallIdle(o) \/ CallbackStep(o), ~CleanupRemove(o) PROVE Leave
    BY <2>2 DEF FallIdle, CallbackStep, WatchdogFires, WatchdogCheck, WatchdogFinish,
                CleanupFires, CleanupStart, registryVars
  <2>3. ASSUME NEW r \in Requests, NEW next, Lookup(r, next) PROVE Leave
    BY <2>3 DEF Lookup, registryVars
  <2>4. ASSUME NEW r \in Requests, Act(r) PROVE Leave
    BY <2>4 DEF Act, InitOperation, PushEvent, SessionEnd, UpdateRunning, UpdateEnded, Ask,
                Join, registryVars
  <2> QED BY <2>1, <2>2, <2>3, <2>4 DEF Next
<1> QED BY <1>1, InitInvariant, StepInvariant, PTL DEF Spec, OnlyTheCleanedLeave

(* The watchdog ends no operation that was refreshed while the backend was *)
(* being asked.                                                            *)
THEOREM LifecycleSparesTheRefreshed == Spec => WatchdogSparesTheRefreshed
<1> DEFINE Spares == \A o \in touched \ idle : firing[o] = "call" /\ firing'[o] = "no"
                         => status'[o] = status[o]
<1>1. IInv /\ [Next]_vars => [Spares]_vars
  <2> SUFFICES ASSUME IInv, Next PROVE Spares OBVIOUS
  <2> USE DEF IInv, TypeOK
  <2>1. ASSUME NEW o \in Objects, WatchdogFinish(o) PROVE Spares
    BY <2>1 DEF WatchdogFinish, ScheduleCleanup
  <2>2. ASSUME NEW o \in Objects, FallIdle(o) \/ CallbackStep(o), ~WatchdogFinish(o) PROVE Spares
    BY <2>2 DEF FallIdle, CallbackStep, WatchdogFires, WatchdogCheck,
                CleanupFires, CleanupStart, CleanupRemove, watchVars
  <2>3. ASSUME NEW r \in Requests, NEW next, Lookup(r, next) PROVE Spares
    BY <2>3 DEF Lookup, watchVars
  <2>4. ASSUME NEW r \in Requests, Act(r) PROVE UNCHANGED firing
    BY <2>4 DEF Act, InitOperation, PushEvent, SessionEnd, UpdateRunning, UpdateEnded, Ask,
                Join, watchVars
  <2>5. ASSUME UNCHANGED firing PROVE Spares BY <2>5
  <2> QED BY <2>1, <2>2, <2>3, <2>4, <2>5 DEF Next
<1> QED BY <1>1, InitInvariant, StepInvariant, PTL DEF Spec, WatchdogSparesTheRefreshed
=============================================================================
