------------------------------ MODULE EventLog ------------------------------
(***************************************************************************)
(* The event log of one operation of the agent gateway: the id counter     *)
(* and the bounded in-memory buffer every stream message goes through      *)
(* before it is delivered (operation.go: nextEventIDLocked, bufferLocked,  *)
(* and the part of collectReplay that reads the buffer).  A payload is     *)
(* opaque.  The log is written and read only under operation.mu, so one    *)
(* action is one critical section.                                         *)
(***************************************************************************)
EXTENDS Naturals, Sequences

CONSTANTS
    Payloads,         \* what a backend call can put in the log
    EventBufferMax,   \* eventBufferMax: the buffer never holds more
    EventBufferTrim,  \* eventBufferTrim: what is kept when it would
    MaxEvents         \* bound of the model: number of events ever logged

ASSUME EventLogAssumption ==
    /\ EventBufferMax \in Nat /\ EventBufferTrim \in Nat /\ MaxEvents \in Nat
    /\ 1 <= EventBufferTrim /\ EventBufferTrim <= EventBufferMax

VARIABLES
    eventCounter,     \* id of the last event
    eventBuffer       \* the retained suffix of the log, oldest first

logVars == <<eventCounter, eventBuffer>>

BufferedEvent == [id : Nat \ {0}, payload : Payloads]

LogInit == eventCounter = 0 /\ eventBuffer = << >>

(* Mutation: the oldest events are kept instead of the newest.             *)
BufferedOldest(buffer, event) ==
    LET grown == Append(buffer, event)
    IN  IF Len(grown) > EventBufferMax THEN SubSeq(grown, 1, EventBufferTrim) ELSE grown

(* bufferLocked: append, and keep the last EventBufferTrim when the buffer *)
(* has grown past EventBufferMax.                                          *)
Buffered(buffer, event) ==
    LET grown == Append(buffer, event)
    IN  IF Len(grown) > EventBufferMax
        THEN SubSeq(grown, Len(grown) - EventBufferTrim + 1, Len(grown))
        ELSE grown

(* nextEventIDLocked followed by bufferLocked, as every producer does.     *)
Record(payload) ==
    /\ eventCounter < MaxEvents
    /\ eventCounter' = eventCounter + 1
    /\ eventBuffer' = Buffered(eventBuffer, [id |-> eventCounter + 1, payload |-> payload])

(* collectReplay: the buffered events after `since', ...                   *)
EventsAfter(since) ==
    {eventBuffer[i] : i \in {j \in DOMAIN eventBuffer : eventBuffer[j].id > since}}

(* Mutation: the comparison is off by one.                                 *)
GapLate(since) == eventBuffer # << >> /\ eventBuffer[1].id > since + 2

(* ... and whether the buffer starts too late to continue from there.      *)
Gap(since) ==
    IF eventBuffer = << >> THEN eventCounter > since
                           ELSE eventBuffer[1].id > since + 1

LogNext == \E payload \in Payloads : Record(payload)

LogSpec == LogInit /\ [][LogNext]_logVars

-----------------------------------------------------------------------------

RetainedIds == {eventBuffer[i].id : i \in DOMAIN eventBuffer}

LogTypeOK ==
    /\ eventCounter \in 0..MaxEvents
    /\ eventBuffer \in Seq(BufferedEvent)

(* The buffer is always the last Len(eventBuffer) events of the log, in    *)
(* order and without a hole, it is bounded, and once something was logged  *)
(* it is never empty again: trimming may not leave a hole, and what        *)
(* collectReplay decides from eventBuffer[0] alone is decided soundly.     *)
BufferIsSuffix ==
    /\ Len(eventBuffer) <= EventBufferMax
    /\ Len(eventBuffer) <= eventCounter
    /\ eventBuffer = << >> => eventCounter = 0
    /\ \A i \in DOMAIN eventBuffer :
           eventBuffer[i].id = eventCounter - Len(eventBuffer) + i

(* collectReplay's gap flag is exact: it is raised for a client positioned *)
(* at `since' if and only if an event that client has not seen is no       *)
(* longer in the buffer.  A false negative loses events silently, a false  *)
(* positive sends the client to recover from storage for nothing.          *)
GapIsExact ==
    \A since \in 0..eventCounter :
        Gap(since) <=> \E id \in (since + 1)..eventCounter : id \notin RetainedIds

(* An id names one event for ever: an event still in the buffer keeps its  *)
(* id and payload, and a logged id is never given out a second time.       *)
IdsAreStable ==
    [][ /\ eventCounter' >= eventCounter
        /\ \A i \in DOMAIN eventBuffer' :
              \/ eventBuffer'[i].id > eventCounter
              \/ \E j \in DOMAIN eventBuffer : eventBuffer[j] = eventBuffer'[i] ]_logVars
=============================================================================
