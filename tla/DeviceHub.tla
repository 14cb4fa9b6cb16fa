----------------------------- MODULE DeviceHub -----------------------------
(***************************************************************************)
(* The connections of a user's devices (device hub.go, connection.go,      *)
(* server.go).  hub.connections holds one connection per connection id; a  *)
(* device that reconnects registers a new connection under the id of its   *)
(* old one, which is closed outside the lock and whose read loop and       *)
(* timers end in their own time, each removing the connection it is of.    *)
(*                                                                         *)
(* The auth timer is never stopped: its callback looks whether the         *)
(* connection has authenticated.                                           *)
(***************************************************************************)
EXTENDS FiniteSets

CONSTANTS
    Conns,      \* connection objects
    Ids         \* connection ids

VARIABLES
    idOf,       \* [Conns -> its id], the empty set before it connects
    entries,    \* connections that hub.connections holds under their id
    victims,    \* [Conns -> connections it replaced and has yet to close]
    authed,     \* connections whose att.Authenticated is set
    sock,       \* [Conns -> "new", "open" or "closed"]
    reader,     \* [Conns -> where its goroutine is]
    armed,      \* timers that are running, as <<connection, kind>>
    closing,    \* timers whose callback has decided to close ...
    removing,   \* ... and has closed, but not removed its connection
    silent      \* connections whose device will send nothing more

tableVars == <<idOf, entries, victims, authed>>
timerVars == <<armed, closing, removing>>
hubVars == <<tableVars, sock, reader, timerVars, silent>>

Timers == Conns \X {"auth", "heartbeat"}
Readers == {"none", "register", "read", "resolve", "greet", "leave", "ended"}

HubInit ==
    /\ idOf = [c \in Conns |-> {}]
    /\ entries = {} /\ authed = {} /\ silent = {}
    /\ victims = [c \in Conns |-> {}]
    /\ sock = [c \in Conns |-> "new"]
    /\ reader = [c \in Conns |-> "none"]
    /\ armed = {} /\ closing = {} /\ removing = {}

Entry(i) == {c \in entries : idOf[c] = i}

-----------------------------------------------------------------------------
(* register, and the end of a connection.                                  *)

(* handleWebSocket and register, locked: the new connection takes the      *)
(* place of the old one.                                                   *)
Register(c, i) ==
    /\ sock[c] = "new"
    /\ sock' = [sock EXCEPT ![c] = "open"]
    /\ idOf' = [idOf EXCEPT ![c] = {i}]
    /\ entries' = (entries \ Entry({i})) \cup {c}
    /\ victims' = [victims EXCEPT ![c] = Entry({i})]
    /\ reader' = [reader EXCEPT ![c] = "register"]
    /\ UNCHANGED <<authed, timerVars, silent>>

(* register, unlocked: the old connection is closed; then the auth timer   *)
(* and the read loop of the new one are started.                           *)
StartReading(c) ==
    /\ reader[c] = "register"
    /\ sock' = [d \in Conns |-> IF d \in victims[c] THEN "closed" ELSE sock[d]]
    /\ victims' = [victims EXCEPT ![c] = {}]
    /\ armed' = armed \cup {<<c, "auth">>}
    /\ reader' = [reader EXCEPT ![c] = "read"]
    /\ UNCHANGED <<idOf, entries, authed, closing, removing, silent>>

(* Mutation: remove does not look whether the entry is its connection.     *)
RemoveById(c) ==
    /\ entries' = entries \ Entry(idOf[c])
    /\ armed' = armed \ {<<c, "heartbeat">>}

(* remove: the entry goes if it is this connection.                        *)
Remove(c) ==
    /\ entries' = entries \ {c}
    /\ armed' = armed \ {<<c, "heartbeat">>}

-----------------------------------------------------------------------------
(* Timers.                                                                 *)

TimerExpires(c, kind) ==
    /\ <<c, kind>> \in armed
    /\ armed' = armed \ {<<c, kind>>}
    /\ closing' = IF kind = "auth" /\ c \in authed THEN closing
                                                   ELSE closing \cup {<<c, kind>>}
    /\ UNCHANGED <<tableVars, sock, reader, removing, silent>>

CallbackCloses(t) ==
    /\ t \in closing
    /\ closing' = closing \ {t} /\ removing' = removing \cup {t}
    /\ sock' = [sock EXCEPT ![t[1]] = "closed"]
    /\ UNCHANGED <<tableVars, reader, armed, silent>>

CallbackRemoves(t) ==
    /\ t \in removing
    /\ removing' = removing \ {t}
    /\ Remove(t[1])
    /\ UNCHANGED <<idOf, victims, authed, sock, reader, closing, silent>>

-----------------------------------------------------------------------------
(* The device and the read loop of its connection.  Messages received      *)
(* before the socket was closed are still handled.                         *)

Leave(c) ==
    /\ sock[c] = "open"
    /\ sock' = [sock EXCEPT ![c] = "closed"]
    /\ UNCHANGED <<tableVars, reader, timerVars, silent>>

FallSilent(c) ==
    /\ sock[c] = "open" /\ c \notin silent
    /\ silent' = silent \cup {c}
    /\ UNCHANGED <<tableVars, sock, reader, timerVars>>

Reads(c) == reader[c] = "read" /\ c \notin silent

(* An auth message, up to auth.resolve, which may ask a server ...         *)
BeginAuth(c) ==
    /\ Reads(c) /\ c \notin authed
    /\ reader' = [reader EXCEPT ![c] = "resolve"]
    /\ UNCHANGED <<tableVars, sock, timerVars, silent>>

(* ... and the read loop ends if it refuses ...                            *)
RefuseAuth(c) ==
    /\ reader[c] = "resolve"
    /\ sock' = [sock EXCEPT ![c] = "closed"]
    /\ reader' = [reader EXCEPT ![c] = "leave"]
    /\ UNCHANGED <<tableVars, timerVars, silent>>

(* ... or else markAuthenticated.                                          *)
Authenticate(c) ==
    /\ reader[c] = "resolve"
    /\ authed' = authed \cup {c}
    /\ reader' = [reader EXCEPT ![c] = "greet"]
    /\ UNCHANGED <<idOf, entries, victims, sock, timerVars, silent>>

(* Mutation: no heartbeat timer is started.                                *)
GreetOnly(c) ==
    /\ reader[c] = "greet"
    /\ reader' = [reader EXCEPT ![c] = "read"]
    /\ UNCHANGED <<tableVars, sock, timerVars, silent>>

(* auth_success and startHeartbeatTimer (retryPending is in ToolCall).     *)
Greet(c) ==
    /\ reader[c] = "greet"
    /\ armed' = armed \cup {<<c, "heartbeat">>}
    /\ reader' = [reader EXCEPT ![c] = "read"]
    /\ UNCHANGED <<tableVars, sock, closing, removing, silent>>

(* A heartbeat arms the timer again, even if it has just fired.            *)
Heartbeat(c) ==
    /\ Reads(c) /\ c \in authed
    /\ armed' = armed \cup {<<c, "heartbeat">>}
    /\ UNCHANGED <<tableVars, sock, reader, closing, removing, silent>>

(* readMessage fails on a closed socket; remove is deferred.               *)
ReaderEnds(c) ==
    /\ reader[c] = "leave" \/ (reader[c] = "read" /\ sock[c] = "closed")
    /\ reader' = [reader EXCEPT ![c] = "ended"]
    /\ Remove(c)
    /\ UNCHANGED <<idOf, victims, authed, sock, closing, removing, silent>>

DeviceStep(c) ==
    \/ \E i \in Ids : Register(c, i)
    \/ Leave(c) \/ FallSilent(c) \/ BeginAuth(c) \/ Heartbeat(c)
GoroutineStep(c) == StartReading(c) \/ Greet(c) \/ ReaderEnds(c)
CallbackStep(t) == CallbackCloses(t) \/ CallbackRemoves(t)

HubNext ==
    \/ \E c \in Conns : DeviceStep(c) \/ GoroutineStep(c) \/ RefuseAuth(c) \/ Authenticate(c)
    \/ \E t \in Timers : TimerExpires(t[1], t[2]) \/ CallbackStep(t)

HubSpec == HubInit /\ [][HubNext]_hubVars

(* Goroutines run, and timers expire that nobody resets: an auth timer,    *)
(* and the heartbeat timer of a silent device.  auth.resolve need never    *)
(* return, and devices need do nothing.                                    *)
HubFairSpec ==
    /\ HubSpec
    /\ \A c \in Conns :
        /\ WF_hubVars(GoroutineStep(c)) /\ WF_hubVars(TimerExpires(c, "auth"))
        /\ WF_hubVars(c \in silent /\ TimerExpires(c, "heartbeat"))
    /\ \A t \in Timers : WF_hubVars(CallbackStep(t))

-----------------------------------------------------------------------------
(* Properties.                                                             *)

HubTypeOK ==
    /\ idOf \in [Conns -> SUBSET Ids]
    /\ entries \subseteq Conns /\ authed \subseteq Conns /\ silent \subseteq Conns
    /\ victims \in [Conns -> SUBSET Conns]
    /\ sock \in [Conns -> {"new", "open", "closed"}]
    /\ reader \in [Conns -> Readers]
    /\ armed \subseteq Timers /\ closing \subseteq Timers /\ removing \subseteq Timers

(* A connection that is open can be dispatched to once it authenticates:   *)
(* it is the entry of its id, unless a successor is about to close it.     *)
(* Whatever ends late of a predecessor (read loop, auth or heartbeat       *)
(* timer) takes only itself out of the table (register, remove).           *)
OpenIsCurrent ==
    \A c \in Conns : sock[c] = "open" => c \in entries \/ \E d \in Conns : c \in victims[d]

(* A connection that never authenticates, whose device has fallen silent   *)
(* or whose socket is closed leaves the table, even if auth.resolve hangs  *)
(* (startAuthTimer, startHeartbeatTimer, readLoop).                        *)
Loiters(c) == c \in entries /\ (c \in silent \/ c \notin authed \/ sock[c] = "closed")

NobodyLoiters == \A c \in Conns : Loiters(c) ~> ~Loiters(c)
=============================================================================
