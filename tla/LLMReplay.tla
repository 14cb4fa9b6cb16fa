----------------------------- MODULE LLMReplay -----------------------------
(***************************************************************************)
(* The LLM relay of one operation (llm.go) on top of its event log:        *)
(* attempts are logged like any event, and kept in openLLM so that a       *)
(* resuming client is handed the open ones even after the buffer has       *)
(* dropped them.  Every action is one critical section of operation.mu.    *)
(***************************************************************************)
EXTENDS EventLog, FiniteSets

CONSTANTS
    Calls, NoCall      \* call ids; NoCall marks an event that is no attempt

(* The payload of an llm_execute event is its call, of any other NoCall.   *)
ASSUME LLMAssumption == NoCall \notin Calls /\ Payloads = Calls \cup {NoCall}

VARIABLES
    openLLM,           \* [Calls -> id of the open attempt, 0 if none]
    expired,           \* calls whose open attempt is past its expiresAt
    ended,             \* isTerminalStatus(record.Status)
    executed,          \* history: calls executed so far
    retired,           \* history: ids of attempts no longer to be executed
    revived            \* history: calls executed again, or open when the
                       \*   operation left its terminal status

llmVars == <<openLLM, expired, ended, executed, retired, revived>>
vars == <<logVars, llmVars>>

Init ==
    /\ LogInit
    /\ openLLM = [c \in Calls |-> 0]
    /\ expired = {} /\ ended = FALSE
    /\ executed = {} /\ retired = {} /\ revived = {}

OpenIds == {openLLM[c] : c \in Calls} \ {0}

(* delete(op.openLLM, callID)                                              *)
Deleted(call) == [openLLM EXCEPT ![call] = 0]

(* Any producer but the relay: pushEvent, updateStatus(running), ...       *)
PushEvent ==
    /\ Record(NoCall)
    /\ UNCHANGED llmVars

(* llm-execute; an ended operation answers 409 and changes nothing.        *)
LLMExecute(call) ==
    /\ ~ended
    /\ Record(call)
    /\ openLLM' = [openLLM EXCEPT ![call] = eventCounter + 1]
    /\ expired' = expired \ {call}
    /\ executed' = executed \cup {call}
    /\ revived' = revived \cup (executed \cap {call})
    /\ UNCHANGED <<ended, retired>>

(* Mutation: a cancelled attempt stays open.                               *)
LLMCancelKeepsOpen(call) ==
    /\ Record(NoCall)
    /\ retired' = retired \cup ({openLLM[call]} \ {0})
    /\ UNCHANGED <<openLLM, expired, ended, executed, revived>>

LLMCancel(call) ==
    /\ Record(NoCall)
    /\ openLLM' = Deleted(call)
    /\ expired' = expired \ {call}
    /\ retired' = retired \cup ({openLLM[call]} \ {0})
    /\ UNCHANGED <<ended, executed, revived>>

LLMClose(call) ==
    /\ openLLM[call] # 0
    /\ openLLM' = Deleted(call)
    /\ expired' = expired \ {call}
    /\ retired' = retired \cup {openLLM[call]}
    /\ UNCHANGED <<logVars, ended, executed, revived>>

(* Time passes the deadline of an open attempt.                            *)
Expire(call) ==
    /\ openLLM[call] # 0 /\ call \notin expired
    /\ expired' = expired \cup {call}
    /\ retired' = retired \cup {openLLM[call]}
    /\ UNCHANGED <<logVars, openLLM, ended, executed, revived>>

(* A terminal status, logged by updateStatus, handleSessionEnd and the     *)
(* watchdog.                                                               *)
EndOperation ==
    /\ Record(NoCall)
    /\ ended' = TRUE
    /\ retired' = retired \cup OpenIds
    /\ UNCHANGED <<openLLM, expired, executed, revived>>

(* operation.init on an ended operation sets it running and logs nothing;  *)
(* an update-status to running does the same after logging an event.       *)
Reopen ==
    /\ ended
    /\ ended' = FALSE
    /\ revived' = revived \cup {c \in Calls : openLLM[c] # 0}
    /\ UNCHANGED <<logVars, openLLM, expired, executed, retired>>

(* pruneLLMLocked                                                          *)
Pruned == [c \in Calls |-> IF ended \/ c \in expired THEN 0 ELSE openLLM[c]]

(* collectReplay: what changes is that closed attempts are pruned.         *)
Resume ==
    /\ openLLM' = Pruned
    /\ expired' = {}
    /\ UNCHANGED <<logVars, ended, executed, retired, revived>>

(* replayableLLMLocked: an attempt is replayed if its call is open.        *)
Replayable(event) == event.payload # NoCall => Pruned[event.payload] # 0

FromBuffer(since) == {event \in EventsAfter(since) : Replayable(event)}

OpenAfter(since) ==
    {[id |-> Pruned[c], payload |-> c] : c \in {d \in Calls : Pruned[d] > since}}

(* Mutation: open attempts are added without looking whether the buffer    *)
(* already gave them.                                                      *)
HandedUnmerged(since) == (FromBuffer(since) \X {"buffer"}) \cup (OpenAfter(since) \X {"open"})

(* collectReplay: the buffered events that may be replayed, and the open   *)
(* attempts that are not among them.                                       *)
Handed(since) ==
    LET seen == {event.id : event \in FromBuffer(since)}
        unseen == {event \in OpenAfter(since) : event.id \notin seen}
    IN  (FromBuffer(since) \X {"buffer"}) \cup (unseen \X {"open"})

(* They are sorted by id, an attempt after a buffered event of its id.     *)
Precedes(x, y) ==
    \/ x[1].id < y[1].id
    \/ x[1].id = y[1].id /\ x[2] = "buffer" /\ y[2] = "open"

(* What a client positioned at `since' is handed, in this order.           *)
Replay(since) ==
    LET handed == Handed(since)
        Before(x) == {y \in handed : Precedes(y, x)}
    IN  [i \in 1..Cardinality(handed) |->
            (CHOOSE x \in handed : Cardinality(Before(x)) = i - 1)[1]]

ReplayIds(since) == {Replay(since)[i].id : i \in DOMAIN Replay(since)}

Next ==
    \/ PushEvent
    \/ \E call \in Calls :
          LLMExecute(call) \/ LLMCancel(call) \/ LLMClose(call) \/ Expire(call)
    \/ EndOperation
    \/ Reopen
    \/ Resume

Spec == Init /\ [][Next]_vars

-----------------------------------------------------------------------------

TypeOK ==
    /\ LogTypeOK
    /\ openLLM \in [Calls -> 0..eventCounter]
    /\ expired \subseteq {c \in Calls : openLLM[c] # 0}
    /\ ended \in BOOLEAN /\ retired \subseteq 1..eventCounter
    /\ executed \subseteq Calls /\ revived \subseteq executed

(* A resume hands out every open, unexpired attempt after the client's     *)
(* position, also when the buffer has trimmed it away, and every buffered  *)
(* event that is not an attempt; in id order and nothing twice, so that    *)
(* the deduplication by id downstream (deliverLocked) drops none of it.    *)
ReplayIsExact ==
    \A since \in 0..eventCounter :
        /\ ~ended => \A c \in Calls :
               (openLLM[c] > since /\ c \notin expired) => openLLM[c] \in ReplayIds(since)
        /\ \A i \in DOMAIN eventBuffer :
               (eventBuffer[i].id > since /\ eventBuffer[i].payload = NoCall)
                   => eventBuffer[i].id \in ReplayIds(since)
        /\ \A i \in 2..Len(Replay(since)) : Replay(since)[i - 1].id < Replay(since)[i].id

(* An attempt that was cancelled, closed, expired or ended with its        *)
(* operation is not handed to a resuming client again, unless the backend  *)
(* executed the same call id again or set the ended operation running: the *)
(* code asks whether the call is open, not whether this attempt of it is   *)
(* (replayableLLMLocked).  Even then it comes back only while its call is  *)
(* open, and never after the open attempt, which a client that takes the   *)
(* events in order therefore is left with.                                 *)
RetiredNotReplayed ==
    \A since \in 0..eventCounter : \A i \in DOMAIN Replay(since) :
        LET event == Replay(since)[i]
        IN  event.id \in retired =>
                event.payload \in revived /\ event.id <= Pruned[event.payload]
=============================================================================
