-------------------------- MODULE V1Session_proofs --------------------------
(***************************************************************************)
(* Once init has returned only connections of the operation's owner get    *)
(* its events, for any number of connections and events.  The argument: a  *)
(* connection that is authenticated without a known owner is in the        *)
(* snapshot init takes when it sets the owner, since it is registered      *)
(* before it authenticates (PendingIsVisited); one that authenticates      *)
(* later is compared with the owner under the same lock (YesIsMine).       *)
(* And a client that resumes misses nothing: it is authenticated, so that  *)
(* what is logged after its replay was collected is broadcast to it.       *)
(***************************************************************************)
EXTENDS V1Session, TLAPS

OpenIsRegistered ==
    \A c \in Conns :
        /\ sock[c] = "open" => c \in connections
        /\ sock[c] = "new" => auth[c] = "no" /\ reader[c] = "none"
        /\ reader[c] = "replay" => auth[c] # "no"

OwnerFollowsInit ==
    /\ owner <=> initPc # "no"
    /\ initPc = "done" => toVerify = {}

PendingIsVisited == owner => \A c \in connections : auth[c] = "pending" => c \in toVerify

YesIsMine == \A c \in connections : auth[c] = "yes" => c \in mine

(* What is on its way to a connection, or has reached it, was logged; and, *)
(* for a connection of another user, before init returned.                 *)
SentUpTo(c, last) ==
    /\ written[c] \subseteq 1..last /\ replay[c] \subseteq 1..last
    /\ \A e \in Events : c \in outgoing[e] => e <= last

SentIsLogged == \A c \in Conns : SentUpTo(c, log)

StrangersGotEarly == initPc = "done" => \A c \in Conns \ mine : SentUpTo(c, before)

(* The inductive invariant.                                                *)
Registered == OpenIsRegistered /\ OwnerFollowsInit /\ PendingIsVisited /\ YesIsMine

IInv == TypeOK /\ Registered /\ SentIsLogged /\ StrangersGotEarly

USE SessionAssumption DEF Events, NotResumed

(* Before anything connects the invariant holds.                           *)
THEOREM InitInvariant == Init => IInv
<1> SUFFICES ASSUME Init PROVE IInv OBVIOUS
<1> USE DEF Init
<1>1. TypeOK
  <2>1. since \in [Conns -> 0..NotResumed] OBVIOUS
  <2>2. outgoing \in [Events -> SUBSET Conns] OBVIOUS
  <2>3. replay \in [Conns -> SUBSET Events] /\ written \in [Conns -> SUBSET Events] OBVIOUS
  <2>4. log \in 0..MaxEvents /\ before \in 0..log OBVIOUS
  <2> HIDE DEF Events, NotResumed
  <2> QED BY <2>1, <2>2, <2>3, <2>4 DEF TypeOK, Timers
<1>2. Registered
  BY DEF Registered, OpenIsRegistered, OwnerFollowsInit, PendingIsVisited, YesIsMine
<1>3. SentIsLogged /\ StrangersGotEarly BY DEF SentIsLogged, SentUpTo, StrangersGotEarly
<1> QED BY <1>1, <1>2, <1>3 DEF IInv

(* Every step keeps the types.                                             *)
LEMMA StepTyped == TypeOK /\ [Next]_vars => TypeOK'
<1> SUFFICES ASSUME TypeOK, [Next]_vars PROVE TypeOK' OBVIOUS
<1> USE DEF TypeOK, Timers, initVars, timerVars, eventVars, resumeVars,
            sentVars, socketVars, connVars
<1>1. ASSUME NEW c \in Conns, ClientStep(c) PROVE TypeOK'
  <2>1. CASE Connect(c) BY <2>1 DEF Connect
  <2>2. CASE Leave(c) BY <2>2 DEF Leave
  <2>3. CASE FallSilent(c) BY <2>3 DEF FallSilent
  <2> QED BY <1>1, <2>1, <2>2, <2>3 DEF ClientStep
<1>2. ASSUME NEW c \in Conns, BeginAuth(c) \/ Heartbeat(c) PROVE TypeOK'
  BY <1>2 DEF BeginAuth, Heartbeat, Reads
<1>3. ASSUME NEW c \in Conns, NEW s \in 0..log, Resume(c, s) PROVE TypeOK'
  BY <1>3 DEF Resume, Reads
<1>4. ASSUME NEW c \in Conns, ReaderStep(c) PROVE TypeOK'
  <2>1. CASE Greet(c) BY <2>1 DEF Greet
  <2>2. CASE Replay(c)
    <3>1. CASE UNCHANGED <<replay, written>>
      <4>1. /\ reader' = reader \/ reader' = [reader EXCEPT ![c] = "read"]
            /\ UNCHANGED <<initVars, socketVars, timerVars, eventVars, since>>
        <5> HIDE DEF TypeOK
        <5> QED BY <2>2, <3>1 DEF Replay
      <4>2. reader' \in [Conns -> {"none", "read", "resolve", "greet", "replay", "ended"}]
        BY <4>1
      <4> QED BY <3>1, <4>1, <4>2
    <3>2. ASSUME NEW e \in replay[c], WriteTo(c, e),
                 replay' = [replay EXCEPT ![c] = @ \ {e}], UNCHANGED reader
          PROVE  TypeOK'
      <4>1. written' \in [Conns -> SUBSET Events] BY <3>2 DEF WriteTo
      <4>2. replay' \in [Conns -> SUBSET Events] BY <3>2
      <4> QED BY <2>2, <3>2, <4>1, <4>2 DEF Replay
    <3> QED BY <2>2, <3>1, <3>2 DEF Replay
  <2>3. CASE ReaderEnds(c) BY <2>3 DEF ReaderEnds, Remove
  <2> QED BY <1>4, <2>1, <2>2, <2>3 DEF ReaderStep
<1>5. ASSUME NEW c \in Conns, TimerStep(c) PROVE TypeOK'
  <2>1. CASE AuthTimerFires(c) BY <2>1 DEF AuthTimerFires
  <2>2. CASE HeartbeatFires(c) BY <2>2 DEF HeartbeatFires
  <2>3. CASE CallbackCloses(c) BY <2>3 DEF CallbackCloses, CloseAndRemove, Remove
  <2> QED BY <1>5, <2>1, <2>2, <2>3 DEF TimerStep
<1>6. ASSUME NEW c \in Conns, RefuseAuth(c) \/ Authenticate(c) PROVE TypeOK'
  <2>1. CASE RefuseAuth(c) BY <2>1 DEF RefuseAuth
  <2>2. CASE Authenticate(c) BY <2>2 DEF Authenticate
  <2> QED BY <1>6, <2>1, <2>2
<1>7. ASSUME InitOperation \/ InitReturns PROVE TypeOK'
  <2>1. CASE InitOperation BY <2>1 DEF InitOperation
  <2>2. CASE InitReturns BY <2>2 DEF InitReturns
  <2> QED BY <1>7, <2>1, <2>2
<1>8. ASSUME NEW c \in Conns, VerifyPendingOwner(c) PROVE TypeOK'
  BY <1>8 DEF VerifyPendingOwner, CloseAndRemove, Remove
<1>9. CASE PushEvent BY <1>9 DEF PushEvent
<1>10. ASSUME NEW e \in Events, Broadcast(e) PROVE TypeOK'
  BY <1>10 DEF Broadcast, WriteTo
<1>11. CASE UNCHANGED vars BY <1>11 DEF vars
<1> QED BY <1>1, <1>2, <1>3, <1>4, <1>5, <1>6, <1>7, <1>8, <1>9, <1>10, <1>11
        DEF Next, MessageStep, InitStep, PushStep

-----------------------------------------------------------------------------
(* Registration and ownership.                                             *)

(* Only what is closed is removed, so that init misses nothing open.       *)
LEMMA StepRegistered == TypeOK /\ Registered /\ [Next]_vars => Registered'
<1> SUFFICES ASSUME TypeOK, Registered, [Next]_vars PROVE Registered' OBVIOUS
<1> USE DEF TypeOK, Registered, OpenIsRegistered, OwnerFollowsInit,
            PendingIsVisited,
            YesIsMine, initVars, timerVars, eventVars, resumeVars, sentVars, socketVars, connVars
<1>1. ASSUME NEW c \in Conns, ClientStep(c) PROVE Registered'
  BY <1>1 DEF ClientStep, Connect, Leave, FallSilent
<1>2. ASSUME NEW c \in Conns, BeginAuth(c) \/ Heartbeat(c) PROVE Registered'
  BY <1>2 DEF BeginAuth, Heartbeat, Reads
<1>3. ASSUME NEW c \in Conns, NEW s \in 0..log, Resume(c, s) PROVE Registered'
  BY <1>3 DEF Resume, Reads
<1>4. ASSUME NEW c \in Conns, ReaderStep(c) PROVE Registered'
  BY <1>4 DEF ReaderStep, Greet, Replay, ReaderEnds, Remove
<1>5. ASSUME NEW c \in Conns, TimerStep(c) PROVE Registered'
  BY <1>5 DEF TimerStep, AuthTimerFires, HeartbeatFires, CallbackCloses, CloseAndRemove,
              Remove
<1>6. ASSUME NEW c \in Conns, RefuseAuth(c) PROVE Registered'
  BY <1>6 DEF RefuseAuth
<1>7. ASSUME NEW c \in Conns, Authenticate(c) PROVE Registered'
  BY <1>7 DEF Authenticate
<1>8. CASE InitOperation \/ InitReturns
  BY <1>8 DEF InitOperation, InitReturns
<1>9. ASSUME NEW c \in Conns, VerifyPendingOwner(c) PROVE Registered'
  BY <1>9 DEF VerifyPendingOwner, CloseAndRemove, Remove
<1>10. CASE PushEvent BY <1>10 DEF PushEvent
<1>11. ASSUME NEW e \in Events, Broadcast(e) PROVE Registered'
  BY <1>11 DEF Broadcast
<1>12. CASE UNCHANGED vars BY <1>12 DEF vars
<1> QED BY <1>1, <1>2, <1>3, <1>4, <1>5, <1>6, <1>7, <1>8, <1>9, <1>10, <1>11, <1>12
        DEF Next, MessageStep, InitStep, PushStep

(* After init an authenticated connection of the operation is the owner's. *)
LEMMA AuthenticatedIsMine ==
    ASSUME TypeOK, Registered, initPc = "done", NEW c \in connections, auth[c] # "no"
    PROVE  auth[c] = "yes" /\ c \in mine
BY DEF TypeOK, Registered, OwnerFollowsInit, PendingIsVisited, YesIsMine

-----------------------------------------------------------------------------
(* Events.                                                                 *)

(* The steps that send nothing leave alone all that SentUpTo mentions.     *)
Quiet == UNCHANGED <<written, replay, outgoing, log>>

(* They leave what was sent logged, and strangers without late events.     *)
LEMMA QuietStep ==
    ASSUME IInv, Quiet, UNCHANGED <<initPc, before, mine>>
    PROVE  SentIsLogged' /\ StrangersGotEarly'
BY DEF IInv, Quiet, SentUpTo, SentIsLogged, StrangersGotEarly

(* A resume takes logged events, and after init it is the owner's.         *)
LEMMA ResumeStep ==
    ASSUME IInv, NEW c \in Conns, NEW s \in 0..log, Resume(c, s)
    PROVE  SentIsLogged' /\ StrangersGotEarly'
<1> USE DEF IInv, TypeOK, Resume, eventVars, initVars
<1>1. SentIsLogged' BY DEF SentIsLogged, SentUpTo
<1>2. initPc = "done" => c \in mine
  BY AuthenticatedIsMine DEF Registered, OpenIsRegistered
<1>3. StrangersGotEarly' BY <1>2 DEF StrangersGotEarly, SentUpTo
<1> QED BY <1>1, <1>3

(* What is written was on its way.                                         *)
LEMMA ReplayStep ==
    ASSUME IInv, NEW c \in Conns, Replay(c)
    PROVE  SentIsLogged' /\ StrangersGotEarly'
<1> USE DEF IInv, Replay, eventVars, initVars
<1>1. CASE UNCHANGED <<replay, written>>
  BY <1>1, QuietStep DEF Quiet
<1>2. ASSUME NEW e \in replay[c], WriteTo(c, e), replay' = [replay EXCEPT ![c] = @ \ {e}]
      PROVE  SentIsLogged' /\ StrangersGotEarly'
  <2> USE <1>2 DEF TypeOK, WriteTo, SentUpTo
  <2>1. SentIsLogged' BY DEF SentIsLogged
  <2>2. StrangersGotEarly' BY DEF StrangersGotEarly
  <2> QED BY <2>1, <2>2
<1> QED BY <1>1, <1>2

(* A broadcast sends logged events, after init only to the owner.          *)
LEMMA BroadcastStep ==
    ASSUME IInv, NEW e \in Events, Broadcast(e)
    PROVE  SentIsLogged' /\ StrangersGotEarly'
<1> USE DEF IInv, TypeOK, Broadcast, WriteTo, SentUpTo, resumeVars, initVars
<1>1. SentIsLogged' BY DEF SentIsLogged
<1>2. StrangersGotEarly' BY DEF StrangersGotEarly
<1> QED BY <1>1, <1>2

(* After init an event is pushed to connections of the owner only.         *)
LEMMA PushStepLemma ==
    ASSUME IInv, PushEvent
    PROVE  SentIsLogged' /\ StrangersGotEarly'
<1> USE DEF IInv, TypeOK, PushEvent, SentUpTo, resumeVars, initVars
<1>1. SentIsLogged' BY DEF SentIsLogged
<1>2. initPc = "done" => \A c \in connections : auth[c] # "no" => c \in mine
  BY AuthenticatedIsMine
<1>3. StrangersGotEarly' BY <1>2 DEF StrangersGotEarly
<1> QED BY <1>1, <1>3

(* Every step preserves the invariant, stuttering included.                *)
LEMMA StepInvariant == IInv /\ [Next]_vars => IInv'
<1> SUFFICES ASSUME IInv, [Next]_vars PROVE SentIsLogged' /\ StrangersGotEarly'
  BY StepTyped, StepRegistered DEF IInv
<1> USE DEF initVars, timerVars, eventVars, resumeVars, sentVars, socketVars,
            connVars
<1>1. ASSUME NEW c \in Conns, ClientStep(c) \/ TimerStep(c) \/ RefuseAuth(c) \/ Authenticate(c)
      PROVE  SentIsLogged' /\ StrangersGotEarly'
  BY <1>1, QuietStep DEF Quiet, ClientStep, Connect, Leave, FallSilent, TimerStep,
       AuthTimerFires, HeartbeatFires, CallbackCloses, RefuseAuth, Authenticate
<1>2. ASSUME NEW c \in Conns, BeginAuth(c) \/ Heartbeat(c) \/ Greet(c) \/ ReaderEnds(c)
      PROVE  SentIsLogged' /\ StrangersGotEarly'
  BY <1>2, QuietStep DEF Quiet, BeginAuth, Heartbeat, Greet, ReaderEnds
<1>3. CASE InitOperation
  <2>1. initPc' # "done" BY <1>3 DEF InitOperation
  <2>2. SentIsLogged' BY <1>3 DEF IInv, InitOperation, SentIsLogged, SentUpTo
  <2> QED BY <2>1, <2>2 DEF StrangersGotEarly
<1>4. CASE InitReturns
  BY <1>4 DEF InitReturns, IInv, SentIsLogged, StrangersGotEarly, SentUpTo
<1>5. ASSUME NEW c \in Conns, VerifyPendingOwner(c)
      PROVE  SentIsLogged' /\ StrangersGotEarly'
  BY <1>5, QuietStep DEF Quiet, VerifyPendingOwner
<1>6. CASE UNCHANGED vars BY <1>6, QuietStep DEF Quiet, vars
<1> QED BY <1>1, <1>2, <1>3, <1>4, <1>5, <1>6, ResumeStep, ReplayStep, BroadcastStep,
           PushStepLemma DEF Next, MessageStep, ReaderStep, InitStep, PushStep

-----------------------------------------------------------------------------
(* Replay and broadcast.                                                   *)

(* Only an authenticated connection resumes, so that every event logged    *)
(* from then on is broadcast to it.                                        *)
ResumedIsAuthenticated ==
    \A c \in Conns : since[c] # NotResumed => auth[c] # "no"

(* One step keeps replay and broadcast together.                           *)
LEMMA StepMissesNothing ==
    TypeOK /\ Registered /\ ResumedIsAuthenticated /\ NothingMissed /\ [Next]_vars
        => ResumedIsAuthenticated' /\ NothingMissed'
<1> SUFFICES ASSUME TypeOK, Registered, ResumedIsAuthenticated, NothingMissed, [Next]_vars
             PROVE  ResumedIsAuthenticated' /\ NothingMissed'
  OBVIOUS
<1> USE DEF TypeOK, initVars, timerVars, eventVars, resumeVars, sentVars,
            socketVars, connVars
<1> DEFINE Safe == ResumedIsAuthenticated' /\ NothingMissed'
<1>0. \A c \in Conns : /\ sock[c] = "new" => since[c] = NotResumed
                       /\ sock[c] = "open" => c \in connections
  BY DEF Registered, OpenIsRegistered, ResumedIsAuthenticated
<1>1. ASSUME UNCHANGED <<since, log, written, replay, outgoing>>,
             \A c \in Conns : sock'[c] = "open" => sock[c] \in {"new", "open"},
             \A c \in Conns : auth[c] # "no" => auth'[c] # "no"
      PROVE  Safe
  BY <1>0, <1>1 DEF ResumedIsAuthenticated, NothingMissed
<1>2. ASSUME NEW c \in Conns, ClientStep(c) \/ BeginAuth(c) \/ Heartbeat(c) PROVE Safe
  BY <1>1, <1>2 DEF ClientStep, Connect, Leave, FallSilent, BeginAuth, Heartbeat
<1>3. ASSUME NEW c \in Conns, TimerStep(c) \/ RefuseAuth(c) \/ Authenticate(c) PROVE Safe
  BY <1>1, <1>3 DEF TimerStep, AuthTimerFires, HeartbeatFires, CallbackCloses,
                    CloseAndRemove, RefuseAuth, Authenticate
<1>4. ASSUME NEW c \in Conns, NEW s \in 0..log, Resume(c, s) PROVE Safe
  BY <1>4 DEF Resume, ResumedIsAuthenticated, NothingMissed
<1>5. ASSUME NEW c \in Conns, Greet(c) \/ ReaderEnds(c) PROVE Safe
  BY <1>1, <1>5 DEF Greet, ReaderEnds
<1>6. ASSUME NEW c \in Conns, Replay(c) PROVE Safe
  <2>1. CASE UNCHANGED <<replay, written>> BY <1>1, <1>6, <2>1 DEF Replay
  <2>2. ASSUME NEW e \in replay[c], WriteTo(c, e), replay' = [replay EXCEPT ![c] = @ \ {e}]
        PROVE  Safe
    BY <1>6, <2>2 DEF Replay, WriteTo, ResumedIsAuthenticated, NothingMissed
  <2> QED BY <1>6, <2>1, <2>2 DEF Replay
<1>7. CASE InitOperation \/ InitReturns BY <1>1, <1>7 DEF InitOperation, InitReturns
<1>8. ASSUME NEW c \in Conns, VerifyPendingOwner(c) PROVE Safe
  BY <1>1, <1>8 DEF VerifyPendingOwner, CloseAndRemove
<1>9. CASE PushEvent
  BY <1>0, <1>9 DEF PushEvent, ResumedIsAuthenticated, NothingMissed
<1>10. ASSUME NEW e \in Events, Broadcast(e) PROVE Safe
  BY <1>10 DEF Broadcast, WriteTo, ResumedIsAuthenticated, NothingMissed
<1>11. CASE UNCHANGED vars BY <1>1, <1>11 DEF vars
<1> QED BY <1>2, <1>3, <1>4, <1>5, <1>6, <1>7, <1>8, <1>9, <1>10, <1>11
        DEF Next, MessageStep, ReaderStep, InitStep, PushStep

(* Every variable keeps its type.                                          *)
THEOREM SessionTypeOK == Spec => []TypeOK
<1>1. IInv => TypeOK BY DEF IInv
<1> QED BY <1>1, InitInvariant, StepInvariant, PTL DEF Spec

(* Once init has returned, only the owner's connections receive events,    *)
(* however authentications, init and broadcasts interleave.                *)
THEOREM SessionOwnerVerified == Spec => []OwnerVerified
<1>1. IInv => OwnerVerified
  BY AuthenticatedIsMine DEF IInv, OwnerVerified, StrangersGotEarly, SentUpTo
<1> QED BY <1>1, InitInvariant, StepInvariant, PTL DEF Spec

(* A client that stays connected misses no event after the one it resumed  *)
(* from, for any number of connections, events and resumes.                *)
THEOREM SessionNothingMissed == Spec => []NothingMissed
<1>1. Init => ResumedIsAuthenticated /\ NothingMissed
  BY DEF Init, ResumedIsAuthenticated, NothingMissed
<1>2. IInv => TypeOK /\ Registered BY DEF IInv
<1> QED BY <1>1, <1>2, InitInvariant, StepInvariant, StepMissesNothing, PTL DEF Spec
=============================================================================
