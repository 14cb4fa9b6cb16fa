--------------------------- MODULE DevicePending ---------------------------
(***************************************************************************)
(* The table of requests a device hub is waiting for (hub.go): setPending, *)
(* its timer callback, clearPending and resolvePending.  DeviceDispatch    *)
(* and ToolCall add the goroutines that use it.  The table is accessed     *)
(* under hub.mu; a timer callback or a device's answer that has removed an *)
(* entry sends to the one-place channel of its caller after the unlock.    *)
(***************************************************************************)
EXTENDS Naturals, FiniteSets

CONSTANTS
    Calls,      \* calls of dispatch or dispatchToolCall
    Keys,       \* request ids, and operation ids for agent runs
    NoCall, NoKey

ASSUME PendingAssumption == NoCall \notin Calls /\ NoKey \notin Keys

VARIABLES
    pending,    \* [Keys -> Calls \cup {NoCall}]: hub.pending
    keyOf,      \* [Calls -> Keys \cup {NoKey}]: the key a call was made with
    timer,      \* [Calls -> state of the entry's time.AfterFunc timer]
    resolving,  \* calls whose entry an answer has taken but not yet resolved
    answered,   \* calls with a message in their result channel
    timedOut    \* calls with a message in their timeout channel

pendingVars == <<pending, keyOf, timer, resolving, answered, timedOut>>

TimerStates == {"off", "armed", "firing", "dead"}

PendingInit ==
    /\ pending = [k \in Keys |-> NoCall]
    /\ keyOf = [c \in Calls |-> NoKey]
    /\ timer = [c \in Calls |-> "off"]
    /\ resolving = {} /\ answered = {} /\ timedOut = {}

(* Mutation: no timer is started for the entry.                            *)
SetPendingNoTimer(c, k) ==
    /\ pending' = [pending EXCEPT ![k] = c]
    /\ keyOf' = [keyOf EXCEPT ![c] = k]
    /\ UNCHANGED <<timer, resolving, answered, timedOut>>

(* setPending: whatever entry the key had is replaced.                     *)
SetPending(c, k) ==
    /\ pending' = [pending EXCEPT ![k] = c]
    /\ keyOf' = [keyOf EXCEPT ![c] = k]
    /\ timer' = [timer EXCEPT ![c] = "armed"]
    /\ UNCHANGED <<resolving, answered, timedOut>>

Stopped(t) == IF t = "armed" THEN "dead" ELSE t

(* clearPending: drop the entry of the key, whosever it is, and its timer. *)
ClearPending(k) ==
    /\ pending' = [pending EXCEPT ![k] = NoCall]
    /\ timer' = [c \in Calls |-> IF c = pending[k] THEN Stopped(timer[c]) ELSE timer[c]]
    /\ UNCHANGED <<keyOf, resolving, answered, timedOut>>

(* The timer of c expires and its callback is started ...                  *)
TimerFires(c) ==
    /\ timer[c] = "armed"
    /\ timer' = [timer EXCEPT ![c] = "firing"]
    /\ UNCHANGED <<pending, keyOf, resolving, answered, timedOut>>

(* Mutation: the callback does not look whether the entry is still its own.*)
TimerRunsBlindly(c) ==
    /\ timer[c] = "firing"
    /\ timer' = [timer EXCEPT ![c] = "dead"]
    /\ pending' = [pending EXCEPT ![keyOf[c]] = NoCall]
    /\ timedOut' = timedOut \cup {c}
    /\ UNCHANGED <<keyOf, resolving, answered>>

(* ... and acts only if the key still has this very entry.                 *)
TimerRuns(c) ==
    /\ timer[c] = "firing"
    /\ timer' = [timer EXCEPT ![c] = "dead"]
    /\ IF pending[keyOf[c]] = c
       THEN /\ pending' = [pending EXCEPT ![keyOf[c]] = NoCall]
            /\ timedOut' = timedOut \cup {c}
       ELSE UNCHANGED <<pending, timedOut>>
    /\ UNCHANGED <<keyOf, resolving, answered>>

(* resolvePending: an answer takes the entry of its key, ...               *)
ResolveTake(k) ==
    /\ pending[k] # NoCall
    /\ pending' = [pending EXCEPT ![k] = NoCall]
    /\ resolving' = resolving \cup {pending[k]}
    /\ UNCHANGED <<keyOf, timer, answered, timedOut>>

(* ... and after the unlock stops its timer and wakes its caller.          *)
ResolveSend(c) ==
    /\ c \in resolving
    /\ resolving' = resolving \ {c}
    /\ timer' = [timer EXCEPT ![c] = Stopped(@)]
    /\ answered' = answered \cup {c}
    /\ UNCHANGED <<pending, keyOf, timedOut>>

PendingStep(c) == TimerFires(c) \/ TimerRuns(c) \/ ResolveSend(c)

PendingTypeOK ==
    /\ pending \in [Keys -> Calls \cup {NoCall}]
    /\ keyOf \in [Calls -> Keys \cup {NoKey}]
    /\ timer \in [Calls -> TimerStates]
    /\ resolving \subseteq Calls /\ answered \subseteq Calls /\ timedOut \subseteq Calls

(* A call gets at most one verdict, whatever its timer, the device's       *)
(* (possibly repeated) answers and other calls' entries do: it is either   *)
(* in the table, or being resolved, or answered, or timed out.             *)
OneVerdict ==
    \A c \in Calls :
        /\ c \in answered \cup resolving => c \notin timedOut
        /\ c \in answered => c \notin resolving
        /\ c \in answered \cup resolving \cup timedOut => \A k \in Keys : pending[k] # c
=============================================================================
