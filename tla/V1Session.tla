----------------------------- MODULE V1Session -----------------------------
(***************************************************************************)
(* Protocol v1: WebSocket connections to one operation (operation.go,      *)
(* server.go).  A connection is registered before it authenticates, and    *)
(* may authenticate before init has named the operation's owner; init then *)
(* verifies it.  Events are broadcast outside the operation's lock, to the *)
(* connections that were authenticated when the event was logged, while    *)
(* the read loop of a connection may be replaying the same events to it.   *)
(*                                                                         *)
(* v1 ignores the error of a write: a client whose socket stays open may   *)
(* miss an event that was written to it.  What is modelled is what the     *)
(* gateway writes.  The log is never trimmed here, see EventLog.           *)
(***************************************************************************)
EXTENDS Naturals, FiniteSets

CONSTANTS
    Conns,      \* WebSocket connections
    MaxEvents   \* bound: events pushed

ASSUME SessionAssumption == MaxEvents \in Nat

VARIABLES
    mine,       \* connections whose token is of the user that init names
    owner,      \* record.UserID is set
    initPc,     \* where operation.init is: "no", "verify" or "done"
    toVerify,   \* connections of its snapshot that it has not visited
    before,     \* events pushed before init returned: history
    connections,    \* operation.connections
    auth,       \* [Conns -> "no", "pending" (PendingOwner) or "yes"]
    sock,       \* [Conns -> "new", "open" or "closed"]
    reader,     \* [Conns -> where readLoop is]
    armed,      \* timers that are running, as <<connection, kind>>
    expiring,   \* timers whose callback has decided to close
    silent,     \* connections whose client will send nothing more
    log,        \* number of events logged
    outgoing,   \* [Events -> connections it is still to be broadcast to]
    replay,     \* [Conns -> events that handleResume has still to write]
    since,      \* [Conns -> last event id given on resume], MaxEvents + 1 if none
    written     \* [Conns -> events written to it while it was open]: history

Events == 1..MaxEvents
NotResumed == MaxEvents + 1

initVars == <<mine, owner, initPc, toVerify, before>>
timerVars == <<armed, expiring>>
eventVars == <<log, outgoing>>
resumeVars == <<replay, since>>
sentVars == <<eventVars, resumeVars, written>>
socketVars == <<connections, auth, sock, silent>>
connVars == <<socketVars, reader>>
vars == <<initVars, connVars, timerVars, sentVars>>

Init ==
    /\ mine \in SUBSET Conns
    /\ owner = FALSE /\ initPc = "no" /\ toVerify = {} /\ before = 0
    /\ connections = {}
    /\ auth = [c \in Conns |-> "no"]
    /\ sock = [c \in Conns |-> "new"]
    /\ reader = [c \in Conns |-> "none"]
    /\ armed = {} /\ expiring = {} /\ silent = {}
    /\ log = 0
    /\ outgoing = [e \in Events |-> {}]
    /\ replay = [c \in Conns |-> {}]
    /\ since = [c \in Conns |-> NotResumed]
    /\ written = [c \in Conns |-> {}]

-----------------------------------------------------------------------------
(* Timers and the end of a connection.                                     *)

Timers == Conns \X {"auth", "heartbeat"}

(* operation.remove and stopTimers.                                        *)
Remove(c) ==
    /\ connections' = connections \ {c}
    /\ armed' = {t \in armed : t[1] # c}

(* close, then remove.  What ends is only written to from here on.         *)
CloseAndRemove(c) == sock' = [sock EXCEPT ![c] = "closed"] /\ Remove(c)

(* The callback of the auth timer: a connection that has authenticated is  *)
(* left alone ...                                                          *)
AuthTimerFires(c) ==
    /\ <<c, "auth">> \in armed
    /\ armed' = armed \ {<<c, "auth">>}
    /\ expiring' = IF auth[c] = "no" THEN expiring \cup {<<c, "auth">>} ELSE expiring
    /\ UNCHANGED <<initVars, connVars, sentVars>>

HeartbeatFires(c) ==
    /\ <<c, "heartbeat">> \in armed
    /\ armed' = armed \ {<<c, "heartbeat">>}
    /\ expiring' = expiring \cup {<<c, "heartbeat">>}
    /\ UNCHANGED <<initVars, connVars, sentVars>>

(* ... any other is told so and closed, though by now it may authenticate, *)
(* or send a heartbeat that arms its timer again.                          *)
CallbackCloses(c) ==
    /\ \E t \in expiring : t[1] = c /\ expiring' = expiring \ {t}
    /\ CloseAndRemove(c)
    /\ UNCHANGED <<initVars, auth, reader, silent, sentVars>>

-----------------------------------------------------------------------------
(* The client and the read loop of its connection.  Messages that were     *)
(* received before the socket was closed are still handled; a resume among *)
(* them writes to nobody and is left out.                                  *)

(* handleWebSocket: register, startAuthTimer, go readLoop.                 *)
Connect(c) ==
    /\ sock[c] = "new"
    /\ sock' = [sock EXCEPT ![c] = "open"]
    /\ connections' = connections \cup {c}
    /\ armed' = armed \cup {<<c, "auth">>}
    /\ reader' = [reader EXCEPT ![c] = "read"]
    /\ UNCHANGED <<initVars, auth, silent, expiring, sentVars>>

Leave(c) ==
    /\ sock[c] = "open"
    /\ sock' = [sock EXCEPT ![c] = "closed"]
    /\ UNCHANGED <<initVars, connections, auth, reader, silent, timerVars, sentVars>>

FallSilent(c) ==
    /\ sock[c] = "open" /\ c \notin silent
    /\ silent' = silent \cup {c}
    /\ UNCHANGED <<initVars, connections, auth, sock, reader, timerVars, sentVars>>

Reads(c) == reader[c] = "read" /\ c \notin silent

(* handleAuth, up to auth.resolve, which may ask a server.                 *)
BeginAuth(c) ==
    /\ Reads(c) /\ auth[c] = "no"
    /\ reader' = [reader EXCEPT ![c] = "resolve"]
    /\ UNCHANGED <<initVars, socketVars, timerVars, sentVars>>

(* A token that is refused closes the socket; an expired one does not.     *)
RefuseAuth(c) ==
    /\ reader[c] = "resolve"
    /\ reader' = [reader EXCEPT ![c] = "read"]
    /\ \/ sock' = [sock EXCEPT ![c] = "closed"]
       \/ UNCHANGED sock
    /\ UNCHANGED <<initVars, connections, auth, silent, timerVars, sentVars>>

(* Mutation: the owner is not read again after resolve; that it was unset  *)
(* before then decides.                                                    *)
AuthenticateStale(c) ==
    /\ reader[c] = "resolve"
    /\ auth' = [auth EXCEPT ![c] = "pending"]
    /\ reader' = [reader EXCEPT ![c] = "greet"]
    /\ UNCHANGED <<initVars, connections, sock, silent, timerVars, sentVars>>

(* authenticateConnection reads the owner again, under the lock that init  *)
(* sets it under.  A user other than the owner is refused, RefuseAuth.     *)
Authenticate(c) ==
    /\ reader[c] = "resolve" /\ (owner => c \in mine)
    /\ auth' = [auth EXCEPT ![c] = IF owner THEN "yes" ELSE "pending"]
    /\ reader' = [reader EXCEPT ![c] = "greet"]
    /\ UNCHANGED <<initVars, connections, sock, silent, timerVars, sentVars>>

(* Mutation: no heartbeat timer is started.                                *)
GreetOnly(c) ==
    /\ reader[c] = "greet"
    /\ reader' = [reader EXCEPT ![c] = "read"]
    /\ armed' = armed \ {<<c, "auth">>}
    /\ UNCHANGED <<initVars, socketVars, expiring, sentVars>>

(* The rest of handleAuth: the auth timer is stopped, auth_success written *)
(* and the heartbeat timer started.                                        *)
Greet(c) ==
    /\ reader[c] = "greet"
    /\ reader' = [reader EXCEPT ![c] = "read"]
    /\ armed' = (armed \ {<<c, "auth">>}) \cup {<<c, "heartbeat">>}
    /\ UNCHANGED <<initVars, socketVars, expiring, sentVars>>

(* A heartbeat arms the timer again, even if it has just fired.            *)
Heartbeat(c) ==
    /\ Reads(c) /\ auth[c] # "no"
    /\ armed' = armed \cup {<<c, "heartbeat">>}
    /\ UNCHANGED <<initVars, connVars, expiring, sentVars>>

(* handleResume takes the events after s from the log ...                  *)
Resume(c, s) ==
    /\ Reads(c) /\ auth[c] # "no" /\ sock[c] = "open"
    /\ reader' = [reader EXCEPT ![c] = "replay"]
    /\ replay' = [replay EXCEPT ![c] = (s + 1)..log]
    /\ since' = [since EXCEPT ![c] = s]
    /\ UNCHANGED <<initVars, socketVars, timerVars, eventVars, written>>

(* A write of event e to c.                                                *)
WriteTo(c, e) ==
    written' = IF sock[c] = "open" THEN [written EXCEPT ![c] = @ \cup {e}] ELSE written

(* ... and writes them one by one.                                         *)
Replay(c) ==
    /\ reader[c] = "replay"
    /\ \/ /\ replay[c] = {}
          /\ reader' = [reader EXCEPT ![c] = "read"]
          /\ UNCHANGED <<replay, written>>
       \/ \E e \in replay[c] :
             /\ \A later \in replay[c] : e <= later
             /\ WriteTo(c, e)
             /\ replay' = [replay EXCEPT ![c] = @ \ {e}]
             /\ UNCHANGED reader
    /\ UNCHANGED <<initVars, socketVars, timerVars, eventVars, since>>

(* readMessage fails on a closed socket: remove, deferred.                 *)
ReaderEnds(c) ==
    /\ reader[c] = "read" /\ sock[c] = "closed"
    /\ reader' = [reader EXCEPT ![c] = "ended"]
    /\ Remove(c)
    /\ UNCHANGED <<initVars, auth, sock, silent, expiring, sentVars>>

-----------------------------------------------------------------------------
(* The backend: init and pushEvent.                                        *)

InitOperation ==
    /\ initPc = "no"
    /\ owner' = TRUE /\ initPc' = "verify" /\ toVerify' = connections
    /\ UNCHANGED <<mine, before, connVars, timerVars, sentVars>>

(* verifyPendingOwner of a connection of the snapshot.                     *)
VerifyPendingOwner(c) ==
    /\ c \in toVerify
    /\ toVerify' = toVerify \ {c}
    /\ IF auth[c] = "pending" /\ c \notin mine
          THEN CloseAndRemove(c) /\ UNCHANGED auth
          ELSE /\ auth' = [auth EXCEPT ![c] = IF @ = "pending" THEN "yes" ELSE @]
               /\ UNCHANGED <<sock, connections, armed>>
    /\ UNCHANGED <<mine, owner, initPc, before, reader, silent, expiring, sentVars>>

InitReturns ==
    /\ initPc = "verify" /\ toVerify = {}
    /\ initPc' = "done" /\ before' = log
    /\ UNCHANGED <<mine, owner, toVerify, connVars, timerVars, sentVars>>

(* Mutation: connections whose owner is not yet verified are passed over.  *)
PushToVerified ==
    /\ log < MaxEvents
    /\ log' = log + 1
    /\ outgoing' = [outgoing EXCEPT ![log + 1] = {c \in connections : auth[c] = "yes"}]
    /\ UNCHANGED <<initVars, connVars, timerVars, resumeVars, written>>

(* pushEvent, locked: log the event and take the connections it is for.    *)
PushEvent ==
    /\ log < MaxEvents
    /\ log' = log + 1
    /\ outgoing' = [outgoing EXCEPT ![log + 1] = {c \in connections : auth[c] # "no"}]
    /\ UNCHANGED <<initVars, connVars, timerVars, resumeVars, written>>

(* broadcast writes it to each of them, in any order.                      *)
Broadcast(e) ==
    \E c \in outgoing[e] :
        /\ WriteTo(c, e)
        /\ outgoing' = [outgoing EXCEPT ![e] = @ \ {c}]
        /\ UNCHANGED <<initVars, connVars, timerVars, log, resumeVars>>

ClientStep(c) == Connect(c) \/ Leave(c) \/ FallSilent(c)
MessageStep(c) == BeginAuth(c) \/ Heartbeat(c) \/ \E s \in 0..log : Resume(c, s)
ReaderStep(c) == Greet(c) \/ Replay(c) \/ ReaderEnds(c)
TimerStep(c) == AuthTimerFires(c) \/ HeartbeatFires(c) \/ CallbackCloses(c)
InitStep == InitReturns \/ \E c \in Conns : VerifyPendingOwner(c)
PushStep == PushEvent \/ \E e \in Events : Broadcast(e)

Next ==
    \/ \E c \in Conns : ClientStep(c) \/ MessageStep(c) \/ ReaderStep(c) \/ TimerStep(c)
                        \/ RefuseAuth(c) \/ Authenticate(c)
    \/ InitOperation \/ InitStep \/ PushStep

Spec == Init /\ [][Next]_vars

(* Read loops and callbacks run, and timers expire that nobody resets: an  *)
(* auth timer, and the heartbeat timer of a silent client.  auth.resolve   *)
(* need never return, nor need a client or the backend do anything.        *)
FairSpec ==
    /\ Spec
    /\ \A c \in Conns :
        /\ WF_vars(ReaderStep(c)) /\ WF_vars(AuthTimerFires(c)) /\ WF_vars(CallbackCloses(c))
        /\ WF_vars(c \in silent /\ HeartbeatFires(c))

-----------------------------------------------------------------------------
(* Properties.                                                             *)

TypeOK ==
    /\ mine \subseteq Conns /\ owner \in BOOLEAN /\ initPc \in {"no", "verify", "done"}
    /\ toVerify \subseteq Conns /\ connections \subseteq Conns /\ silent \subseteq Conns
    /\ log \in 0..MaxEvents /\ before \in 0..log
    /\ auth \in [Conns -> {"no", "pending", "yes"}]
    /\ sock \in [Conns -> {"new", "open", "closed"}]
    /\ reader \in [Conns -> {"none", "read", "resolve", "greet", "replay", "ended"}]
    /\ armed \subseteq Timers /\ expiring \subseteq Timers
    /\ outgoing \in [Events -> SUBSET Conns]
    /\ replay \in [Conns -> SUBSET Events]
    /\ since \in [Conns -> 0..NotResumed]
    /\ written \in [Conns -> SUBSET Events]

(* Once init has returned, a connection that receives events is the        *)
(* owner's, and no event pushed later reaches another user: neither an     *)
(* authentication that started before init nor one that was granted before *)
(* it slips through (authenticateConnection, verifyPendingOwner).          *)
OwnerVerified ==
    initPc = "done" =>
        /\ \A c \in connections : auth[c] # "no" => auth[c] = "yes" /\ c \in mine
        /\ \A c \in Conns \ mine : written[c] \subseteq 1..before

(* To a client that is connected and has resumed, every event after the    *)
(* one it resumed from has been written or still will be: replay and       *)
(* broadcast overlap and never leave a hole between them (handleResume,    *)
(* pushEvent).                                                             *)
NothingMissed ==
    \A c \in Conns : sock[c] = "open" /\ since[c] # NotResumed =>
        \A e \in (since[c] + 1)..log :
            e \in written[c] \cup replay[c] \/ c \in outgoing[e]

(* A connection that never authenticates, whose client has fallen silent   *)
(* or whose socket is closed leaves the operation, even if auth.resolve    *)
(* hangs (startAuthTimer, startHeartbeatTimer, readLoop).                  *)
Loiters(c) == c \in connections /\ (c \in silent \/ auth[c] = "no" \/ sock[c] = "closed")

NobodyLoiters == \A c \in Conns : Loiters(c) ~> ~Loiters(c)
=============================================================================
