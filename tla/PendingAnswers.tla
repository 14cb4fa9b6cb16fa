--------------------------- MODULE PendingAnswers ---------------------------
(***************************************************************************)
(* Backend requests that wait for a person: requestConfirmation and        *)
(* requestInput (operation.go) with the answers clients send.  The two     *)
(* differ in where the key comes from: a confirmation is known by the      *)
(* backend's tool call id, which two requests may share, an input by a     *)
(* random id of its own.                                                   *)
(*                                                                         *)
(* Each waits on a one-place channel and on the channel of a timer.        *)
(* resolve* takes the entry under the lock and stops the timer after it,   *)
(* so that an answer and the timeout race.  With the timers of Go 1.23 and *)
(* later (go.mod: 1.26) a tick is handed to its receiver or withdrawn by   *)
(* Stop: Stop fails only if the waiter has received the tick.              *)
(***************************************************************************)
EXTENDS Naturals, FiniteSets

CONSTANTS
    Requests,   \* calls of requestConfirmation and requestInput
    ToolCalls,  \* tool call ids, the keys of confirmations
    InputIds,   \* random request ids, the keys of inputs
    Answers     \* what a person may answer

Keys == ToolCalls \cup InputIds

ASSUME AnswersAssumption == ToolCalls \cap InputIds = {}

VARIABLES
    stage,      \* [Requests -> where the caller is]
    keyOf,      \* [Requests -> its key], the empty set before it is called
    entries,    \* requests that pendingConf or pendingInput hold under their key
    timer,      \* [Requests -> its timer]
    hand,       \* [Requests -> answers of resolvers that have taken its entry]
    ch,         \* [Requests -> content of its channel]
    verdict,    \* [Requests -> the answer returned], empty if none was
    first       \* [Requests -> the first answer that found its entry]: history

answerVars == <<hand, ch>>
pendingVars == <<stage, keyOf, entries, timer, answerVars, verdict, first>>

Stages == {"idle", "sending", "waiting", "expired", "answered", "timedOut"}
Timers == {"off", "armed", "stopped", "received"}
Returned == {"answered", "timedOut"}

InFlight(r) == stage[r] \notin Returned \cup {"idle"}
SharesKey(r) == \E q \in Requests \ {r} : keyOf[q] = keyOf[r]

PendingInit ==
    /\ stage = [r \in Requests |-> "idle"]
    /\ keyOf = [r \in Requests |-> {}]
    /\ entries = {}
    /\ timer = [r \in Requests |-> "off"]
    /\ hand = [r \in Requests |-> {}]
    /\ ch = [r \in Requests |-> {}]
    /\ verdict = [r \in Requests |-> {}]
    /\ first = [r \in Requests |-> {}]

(* delete(pendingConf, key)                                                *)
Without(key) == {r \in entries : keyOf[r] # key}

(* Mutation: the entry is made only once the request has been broadcast,   *)
(* when an answer may already have come.                                   *)
RequestLate(r, k) ==
    /\ stage[r] = "idle"
    /\ stage' = [stage EXCEPT ![r] = "sending"]
    /\ keyOf' = [keyOf EXCEPT ![r] = {k}]
    /\ timer' = [timer EXCEPT ![r] = "armed"]
    /\ UNCHANGED <<entries, answerVars, verdict, first>>

(* The critical section of a request: it is logged, and its entry replaces *)
(* any other of its key.  The timer was started just before.               *)
Request(r, k) ==
    /\ stage[r] = "idle"
    /\ stage' = [stage EXCEPT ![r] = "sending"]
    /\ keyOf' = [keyOf EXCEPT ![r] = {k}]
    /\ entries' = Without({k}) \cup {r}
    /\ timer' = [timer EXCEPT ![r] = "armed"]
    /\ UNCHANGED <<answerVars, verdict, first>>

RequestConfirmation(r) == \E k \in ToolCalls : Request(r, k)

RequestInput(r) ==
    \E k \in InputIds : (\A q \in Requests : keyOf[q] # {k}) /\ Request(r, k)

(* The broadcast is done; the caller selects.                              *)
StartWait(r) ==
    /\ stage[r] = "sending"
    /\ stage' = [stage EXCEPT ![r] = "waiting"]
    /\ UNCHANGED <<keyOf, entries, timer, answerVars, verdict, first>>

(* resolve*, locked: a client's answer takes the entry of its key.  An     *)
(* answer that finds none changes nothing.                                 *)
Resolve(k, a) ==
    \E r \in entries :
        /\ keyOf[r] = {k}
        /\ entries' = Without({k})
        /\ hand' = [hand EXCEPT ![r] = @ \cup {a}]
        /\ first' = IF first[r] = {} THEN [first EXCEPT ![r] = {a}] ELSE first
        /\ UNCHANGED <<stage, keyOf, timer, ch, verdict>>

(* Mutation: the result of Stop is ignored.                                *)
DeliverBlindly(r) ==
    \E a \in hand[r] :
        /\ hand' = [hand EXCEPT ![r] = @ \ {a}]
        /\ timer' = IF timer[r] = "armed" THEN [timer EXCEPT ![r] = "stopped"] ELSE timer
        /\ ch' = [ch EXCEPT ![r] = @ \cup {a}]
        /\ UNCHANGED <<stage, keyOf, entries, verdict, first>>

(* Mutation: the channel has no place, and an answer is dropped unless the *)
(* caller is already at its select.                                        *)
DeliverToSelect(r) ==
    \E a \in hand[r] :
        /\ hand' = [hand EXCEPT ![r] = @ \ {a}]
        /\ timer' = IF timer[r] = "armed" THEN [timer EXCEPT ![r] = "stopped"] ELSE timer
        /\ ch' = IF timer[r] = "armed" /\ stage[r] = "waiting"
                    THEN [ch EXCEPT ![r] = @ \cup {a}] ELSE ch
        /\ UNCHANGED <<stage, keyOf, entries, verdict, first>>

(* resolve*, after the unlock: the answer is passed on if Stop succeeds.   *)
Deliver(r) ==
    \E a \in hand[r] :
        /\ hand' = [hand EXCEPT ![r] = @ \ {a}]
        /\ IF timer[r] = "armed"
              THEN /\ timer' = [timer EXCEPT ![r] = "stopped"]
                   /\ ch' = [ch EXCEPT ![r] = @ \cup {a}]
              ELSE UNCHANGED <<timer, ch>>
        /\ UNCHANGED <<stage, keyOf, entries, verdict, first>>

(* The select of the caller receives an answer ...                         *)
Receive(r) ==
    /\ stage[r] = "waiting" /\ ch[r] # {}
    /\ stage' = [stage EXCEPT ![r] = "answered"]
    /\ verdict' = [verdict EXCEPT ![r] = ch[r]]
    /\ ch' = [ch EXCEPT ![r] = {}]
    /\ UNCHANGED <<keyOf, entries, timer, hand, first>>

(* ... or the tick.                                                        *)
Expire(r) ==
    /\ stage[r] = "waiting" /\ timer[r] = "armed"
    /\ stage' = [stage EXCEPT ![r] = "expired"]
    /\ timer' = [timer EXCEPT ![r] = "received"]
    /\ UNCHANGED <<keyOf, entries, answerVars, verdict, first>>

(* Mutation: the caller returns and its entry stays.                       *)
ForgetNothing(r) ==
    /\ stage[r] = "expired"
    /\ stage' = [stage EXCEPT ![r] = "timedOut"]
    /\ UNCHANGED <<keyOf, entries, timer, answerVars, verdict, first>>

(* The caller deletes the entry of its key, whosever it is by now, and     *)
(* reports the timeout.                                                    *)
Forget(r) ==
    /\ stage[r] = "expired"
    /\ stage' = [stage EXCEPT ![r] = "timedOut"]
    /\ entries' = Without(keyOf[r])
    /\ UNCHANGED <<keyOf, timer, answerVars, verdict, first>>

(* What a request's own goroutine and timer, and resolvers, do unasked.    *)
WaitStep(r) == StartWait(r) \/ Receive(r) \/ Expire(r) \/ Forget(r)

Ask(r) == RequestConfirmation(r) \/ RequestInput(r)
Reply == \E k \in Keys, a \in Answers : Resolve(k, a)

PendingNext == Reply \/ \E r \in Requests : Ask(r) \/ WaitStep(r) \/ Deliver(r)

PendingSpec == PendingInit /\ [][PendingNext]_pendingVars

-----------------------------------------------------------------------------
(* Properties.                                                             *)

TypeOK ==
    /\ stage \in [Requests -> Stages]
    /\ keyOf \in [Requests -> SUBSET Keys]
    /\ entries \subseteq Requests
    /\ timer \in [Requests -> Timers]
    /\ hand \in [Requests -> SUBSET Answers]
    /\ ch \in [Requests -> SUBSET Answers]
    /\ verdict \in [Requests -> SUBSET Answers]
    /\ first \in [Requests -> SUBSET Answers]

(* A caller is told exactly what the first client to answer it said, and   *)
(* TIMEOUT only if no resolver that stopped its timer has passed an answer *)
(* on: however resolvers and the tick interleave, no answer is accepted    *)
(* and then lost (resolveConfirmation and the select).                     *)
VerdictIsFirstAnswer ==
    \A r \in Requests :
        /\ ch[r] # {} => stage[r] \in {"sending", "waiting"} /\ ch[r] = first[r]
        /\ stage[r] = "answered" => verdict[r] # {} /\ verdict[r] = first[r]
        /\ timer[r] = "stopped" => ch[r] # {} \/ stage[r] = "answered"

(* While a request can still be answered, from the moment clients can know *)
(* of it, it has its entry or a resolver has taken it, unless another      *)
(* request used its key: that one's entry replaces it, or its timeout      *)
(* deletes it (requestConfirmation, whose keys the backend chooses).       *)
OpenIsAnswerable ==
    \A r \in Requests :
        /\ stage[r] \in {"sending", "waiting"} /\ timer[r] = "armed"
        /\ ~SharesKey(r)
        => r \in entries \/ hand[r] # {}

(* No entry outlives its request, so that a late answer finds nothing;     *)
(* also when requests share a key and each deletes by key alone.           *)
NoStaleEntry == \A r \in entries : InFlight(r) /\ first[r] = {}
=============================================================================
