--------------------------- MODULE OperationFeed ---------------------------
(***************************************************************************)
(* What the agent gateway promises the v2 subscribers of one operation,    *)
(* with no queue, buffer, connection or lock in it: events are published   *)
(* with consecutive ids, and each client has a position up to which it     *)
(* holds every event it needs.  A client moves forward by receiving all    *)
(* it needs up to a new position, or by being told that it missed some;    *)
(* it falls back when a connection is lost.  HubDelivery implements it.    *)
(***************************************************************************)
EXTENDS Naturals, FiniteSets

CONSTANTS
    Clients,
    Executors     \* clients that need the tool_execute events too

VARIABLES
    published,    \* number of events published
    optional,     \* ids only executors need
    pos,          \* [Clients -> position]
    held,         \* [Clients -> ids held, all at or below the position]
    notices       \* [Clients -> number of gap notices received]

feedVars == <<published, optional, pos, held, notices>>

Init ==
    /\ published = 0 /\ optional = {}
    /\ pos = [c \in Clients |-> 0]
    /\ held = [c \in Clients |-> {}]
    /\ notices = [c \in Clients |-> 0]

Needed(c, ids) == IF c \in Executors THEN ids ELSE ids \ optional

Publish ==
    /\ published' = published + 1
    /\ optional' \in {optional, optional \cup {published + 1}}
    /\ UNCHANGED <<pos, held, notices>>

(* Move c to position p, which is above its own, with the ids it receives. *)
Receive(c, p, ids) ==
    /\ p > pos[c]
    /\ Needed(c, (pos[c] + 1)..p) \subseteq ids
    /\ pos' = [pos EXCEPT ![c] = p]
    /\ held' = [held EXCEPT ![c] = @ \cup ids]
    /\ UNCHANGED <<published, optional, notices>>

(* c is told that it missed events; it recovers everything up to p.        *)
Notice(c, p) ==
    /\ p >= pos[c]
    /\ pos' = [pos EXCEPT ![c] = p]
    /\ held' = [held EXCEPT ![c] = 1..p]
    /\ notices' = [notices EXCEPT ![c] = @ + 1]
    /\ UNCHANGED <<published, optional>>

(* c loses its connection and with it what had not reached it.             *)
FallBack(c, p) ==
    /\ p < pos[c]
    /\ pos' = [pos EXCEPT ![c] = p]
    /\ held' = [held EXCEPT ![c] = @ \cap 1..p]
    /\ UNCHANGED <<published, optional, notices>>

Next ==
    \/ Publish
    \/ \E c \in Clients, p \in 0..published :
          \/ \E ids \in SUBSET ((pos[c] + 1)..p) : Receive(c, p, ids)
          \/ Notice(c, p)
          \/ FallBack(c, p)

Spec == Init /\ [][Next]_feedVars
=============================================================================
