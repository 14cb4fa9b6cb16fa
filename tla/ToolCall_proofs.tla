-------------------------- MODULE ToolCall_proofs ---------------------------
(***************************************************************************)
(* What holds of tool calls, for any number of them, of installations and  *)
(* of attempts.  The attempts of a call, what devices received of it and   *)
(* what its caller knows are tied together by AttemptsAreBound,            *)
(* HistoryAgrees and WaitingIsOffered.                                     *)
(***************************************************************************)
EXTENDS ToolCall, FiniteSetTheorems, TLAPS

USE PendingAssumption, ToolAssumption

(* A tool call's entry, if there is one, sits under its own request id.    *)
KeyIsCall == \A k \in Calls : pending[k] \in {k, NoCall}

(* Every attempt so far was made on the installation the call is bound to, *)
(* the one in progress included.                                           *)
AttemptsAreBound ==
    \A c \in Calls :
        /\ attempts[c] > 0 => bound[c] # NoInstallation
        /\ holder[c] # NoInstallation => target[c] = bound[c] /\ bound[c] # NoInstallation
        /\ \A i \in Installations :
              /\ received[c][i] <= attempts[c]
              /\ holder[c] # NoInstallation => received[c][i] < attempts[c]
              /\ received[c][i] > 0 => i = bound[c]

(* What the call has been told agrees with what devices received.          *)
HistoryAgrees ==
    \A c \in Calls :
        /\ c \in delivered <=> \E i \in Installations : received[c][i] > 0
        /\ c \in resolving \cup answered => c \in delivered

(* A waiting call has its retry function in the table, and has not ended.  *)
WaitingIsOffered ==
    \A c \in Calls :
        /\ c \in finished <=> pc[c] = "done"
        /\ pc[c] \in {"first", "writing", "wait"} /\ pending[c] = c => c \in hasRetry
        /\ pc[c] = "writing" <=> holder[c] = Caller

(* The inductive invariant of tool calls.                                  *)
ToolInv ==
    /\ TypeOK
    /\ KeyIsCall /\ AttemptsAreBound /\ HistoryAgrees /\ WaitingIsOffered
    /\ NoDeviceOverlooked

(* The idle system satisfies the invariant.                                *)
LEMMA ToolInit == Init => ToolInv
<1> SUFFICES ASSUME Init PROVE ToolInv OBVIOUS
<1> USE DEF Init, PendingInit, NoInstallation, Caller
<1>1. TypeOK BY DEF TypeOK, PendingTypeOK, TimerStates
<1>2. KeyIsCall BY DEF KeyIsCall
<1>3. AttemptsAreBound BY DEF AttemptsAreBound
<1>4. HistoryAgrees BY DEF HistoryAgrees
<1>5. WaitingIsOffered BY DEF WaitingIsOffered
<1>6. NoDeviceOverlooked BY DEF NoDeviceOverlooked
<1> QED BY <1>1, <1>2, <1>3, <1>4, <1>5, <1>6 DEF ToolInv

(* What happens to connections.                                            *)
LEMMA ToolConnections ==
    ASSUME ToolInv, NEW i \in Installations,
           Register(i) \/ MarkAuthenticated(i) \/ Remove(i)
    PROVE  ToolInv'
<1> USE DEF ToolInv, pendingVars, callVars, retryVars
<1>1. /\ UNCHANGED <<pending, keyOf, timer, resolving, answered, timedOut>>
      /\ UNCHANGED <<pc, hasRetry, outcome>>
      /\ UNCHANGED <<offers, holder, target, bound, attempts, delivered, finished, received>>
  BY DEF Register, MarkAuthenticated, Remove
<1>2. /\ conn' \in [Installations -> {"absent", "open", "marked", "ready"}]
      /\ connects' \in [Installations -> 0..MaxConnects]
      /\ stale' \in [Installations -> Nat]
      /\ \A j \in Installations : conn'[j] = "ready" => conn[j] = "ready"
  <2>1. /\ conn \in [Installations -> {"absent", "open", "marked", "ready"}]
        /\ connects \in [Installations -> 0..MaxConnects]
        /\ stale \in [Installations -> Nat]
    BY DEF TypeOK
  <2>2. CASE Register(i)
    <3>1. connects[i] + 1 \in 0..MaxConnects BY <2>1, <2>2 DEF Register
    <3> QED BY <2>1, <2>2, <3>1 DEF Register, LeaveEntry
  <2>3. CASE MarkAuthenticated(i) BY <2>1, <2>3 DEF MarkAuthenticated
  <2>4. CASE Remove(i) BY <2>1, <2>4 DEF Remove, LeaveEntry
  <2> QED BY <2>2, <2>3, <2>4
<1>3. TypeOK' BY <1>1, <1>2 DEF TypeOK, PendingTypeOK
<1>4. KeyIsCall' BY <1>1 DEF KeyIsCall
<1>5. AttemptsAreBound' BY <1>1 DEF AttemptsAreBound
<1>6. HistoryAgrees' BY <1>1 DEF HistoryAgrees
<1>7. WaitingIsOffered' BY <1>1 DEF WaitingIsOffered
<1>8. NoDeviceOverlooked' BY <1>1, <1>2 DEF NoDeviceOverlooked
<1> QED BY <1>3, <1>4, <1>5, <1>6, <1>7, <1>8

(* retryPending offers the connection to every call in the table, whether  *)
(* the connection is still in the hub's table or not.                      *)
LEMMA ToolRetryPending ==
    ASSUME ToolInv, NEW i \in Installations, RetryPending(i) \/ StaleRetryPending(i)
    PROVE  ToolInv'
<1> USE DEF ToolInv
<1>0. /\ offers' = Offered(i) /\ UNCHANGED connects
      /\ conn' \in [Installations -> {"absent", "open", "marked", "ready"}]
      /\ stale' \in [Installations -> Nat]
      /\ \A j \in Installations \ {i} : conn'[j] = conn[j]
      /\ UNCHANGED <<pendingVars, callVars, holder, target, bound, attempts,
                     delivered, finished, received>>
  <2>1. /\ conn \in [Installations -> {"absent", "open", "marked", "ready"}]
        /\ stale \in [Installations -> Nat]
    BY DEF TypeOK
  <2>2. CASE RetryPending(i) BY <2>1, <2>2 DEF RetryPending
  <2>3. CASE StaleRetryPending(i) BY <2>1, <2>3 DEF StaleRetryPending
  <2> QED BY <2>2, <2>3
<1> USE <1>0 DEF pendingVars, callVars
<1>1. TypeOK'
  <2>1. offers \in [Calls -> [Installations -> Nat]] BY DEF TypeOK
  <2>2. offers' \in [Calls -> [Installations -> Nat]] BY <2>1 DEF Offered
  <2> QED BY <2>2 DEF TypeOK, PendingTypeOK
<1>2. KeyIsCall' BY DEF KeyIsCall
<1>3. AttemptsAreBound' BY DEF AttemptsAreBound
<1>4. HistoryAgrees' BY DEF HistoryAgrees
<1>5. WaitingIsOffered' BY DEF WaitingIsOffered
<1>6. NoDeviceOverlooked'
  <2> SUFFICES ASSUME NEW c \in Calls, NEW j \in Wanted, pc[c] = "wait",
                      bound[c] = NoInstallation, pending[c] = c, conn'[j] = "ready"
               PROVE  \E k \in Wanted : offers'[c][k] > 0
    BY DEF NoDeviceOverlooked
  <2>1. c \in hasRetry BY DEF WaitingIsOffered
  <2>2. offers \in [Calls -> [Installations -> Nat]] BY DEF TypeOK
  <2>3. offers'[c] = [offers[c] EXCEPT ![i] = @ + 1] BY <2>1 DEF Offered
  <2>4. CASE j = i BY <2>2, <2>3, <2>4
  <2>5. CASE j # i
    <3>1. conn[j] = "ready" BY <2>5 DEF TypeOK
    <3>2. PICK k \in Wanted : offers[c][k] > 0 BY <3>1 DEF NoDeviceOverlooked
    <3>3. offers'[c][k] > 0 BY <2>2, <2>3, <3>2
    <3> QED BY <3>3
  <2> QED BY <2>4, <2>5
<1> QED BY <1>1, <1>2, <1>3, <1>4, <1>5, <1>6

(* A new call enters the table.                                            *)
LEMMA ToolBegin ==
    ASSUME ToolInv, NEW c \in Calls, Begin(c)
    PROVE  ToolInv'
<1> USE DEF ToolInv, hubVars, retryVars, Begin, SetPending
<1>1. TypeOK' BY DEF TypeOK, PendingTypeOK, TimerStates
<1>2. KeyIsCall' BY DEF KeyIsCall, TypeOK, PendingTypeOK
<1>3. AttemptsAreBound' BY DEF AttemptsAreBound
<1>4. HistoryAgrees' BY DEF HistoryAgrees
<1>5. WaitingIsOffered' BY DEF WaitingIsOffered, TypeOK, PendingTypeOK, KeyIsCall
<1>6. NoDeviceOverlooked'
  BY DEF NoDeviceOverlooked, TypeOK, PendingTypeOK
<1> QED BY <1>1, <1>2, <1>3, <1>4, <1>5, <1>6

(* The entry gets its retry function.                                      *)
LEMMA ToolAttach ==
    ASSUME ToolInv, NEW c \in Calls, AttachRetry(c)
    PROVE  ToolInv'
<1> USE DEF ToolInv, pendingVars, hubVars, retryVars, AttachRetry
<1>1. TypeOK' BY DEF TypeOK, PendingTypeOK
<1>2. KeyIsCall' BY DEF KeyIsCall
<1>3. AttemptsAreBound' BY DEF AttemptsAreBound
<1>4. HistoryAgrees' BY DEF HistoryAgrees
<1>5. WaitingIsOffered' BY DEF WaitingIsOffered, TypeOK
<1>6. NoDeviceOverlooked' BY DEF NoDeviceOverlooked, TypeOK
<1> QED BY <1>1, <1>2, <1>3, <1>4, <1>5, <1>6

(* A step of the table: its timers, and the answers taken from it.         *)
LEMMA ToolTable ==
    ASSUME ToolInv, NEW c \in Calls,
           TableStep(c) \/ DeviceAnswers(c)
    PROVE  ToolInv'
<1> USE DEF ToolInv
<1>1. /\ UNCHANGED <<conn, connects, stale, pc, hasRetry, outcome>>
      /\ UNCHANGED <<offers, holder, target, bound, attempts, delivered, finished, received>>
  BY DEF TableStep, DeviceAnswers, hubVars, callVars, retryVars
<1>2. /\ pending' \in [Calls -> Calls \cup {NoCall}] /\ UNCHANGED keyOf
      /\ timer' \in [Calls -> TimerStates]
      /\ resolving' \subseteq Calls /\ answered' \subseteq Calls /\ timedOut' \subseteq Calls
      /\ \A d \in Calls : pending'[d] \in {pending[d], NoCall}
      /\ \A d \in Calls : d \in resolving' \cup answered' => d \in delivered
  <2> USE DEF TypeOK, PendingTypeOK
  <2>1. CASE TimerFires(c)
    BY <2>1 DEF TimerFires, TimerStates, HistoryAgrees
  <2>2. CASE TimerRuns(c)
    <3>1. pending' \in {pending, [pending EXCEPT ![keyOf[c]] = NoCall]}
      BY <2>2 DEF TimerRuns
    <3>2. /\ pending' \in [Calls -> Calls \cup {NoCall}]
          /\ \A d \in Calls : pending'[d] \in {pending[d], NoCall}
      BY <3>1
    <3>3. timer' \in [Calls -> TimerStates] /\ timedOut' \subseteq Calls
      BY <2>2 DEF TimerRuns, TimerStates
    <3> QED BY <2>2, <3>2, <3>3 DEF TimerRuns, HistoryAgrees
  <2>3. CASE ResolveSend(c)
    BY <2>3 DEF ResolveSend, Stopped, TimerStates, HistoryAgrees
  <2>4. CASE DeviceAnswers(c)
    <3>1. pending[c] = c /\ c \in delivered
      BY <2>4 DEF DeviceAnswers, ResolveTake, KeyIsCall, HistoryAgrees
    <3> QED BY <2>4, <3>1 DEF DeviceAnswers, ResolveTake, HistoryAgrees
  <2> QED BY <2>1, <2>2, <2>3, <2>4 DEF TableStep, PendingStep
<1>3. TypeOK' BY <1>1, <1>2 DEF TypeOK, PendingTypeOK
<1>4. KeyIsCall' BY <1>2 DEF KeyIsCall
<1>5. AttemptsAreBound' BY <1>1 DEF AttemptsAreBound
<1>6. HistoryAgrees' BY <1>1, <1>2 DEF HistoryAgrees
<1>7. WaitingIsOffered' BY <1>1, <1>2 DEF WaitingIsOffered
<1>8. NoDeviceOverlooked'
  <2>1. \A d \in Calls : pending'[d] = d => pending[d] = d BY <1>2
  <2> QED BY <1>1, <2>1 DEF NoDeviceOverlooked
<1> QED BY <1>3, <1>4, <1>5, <1>6, <1>7, <1>8

(* The caller decides what it returns, and returns.                        *)
LEMMA ToolReturns ==
    ASSUME ToolInv, NEW c \in Calls,
           ReceiveResult(c) \/ ReceiveExpired(c) \/ Finish(c)
    PROVE  ToolInv'
<1> USE DEF ToolInv
<1>1. /\ UNCHANGED <<pending, keyOf, timer, resolving, answered, timedOut>>
      /\ UNCHANGED <<conn, connects, stale, hasRetry, offers, holder, target, bound, attempts>>
      /\ UNCHANGED <<delivered, received>>
      /\ pc[c] \in {"wait", "finish"}
      /\ \/ pc' = [pc EXCEPT ![c] = "finish"] /\ UNCHANGED finished
         \/ pc' = [pc EXCEPT ![c] = "done"] /\ finished' = finished \cup {c}
      /\ \E o \in {"ok", "timeout", "offline"} :
            outcome' \in {outcome, [outcome EXCEPT ![c] = o]}
  BY DEF ReceiveResult, ReceiveExpired, Finish, pendingVars,
         hubVars, retryVars
<1>2. TypeOK'
  <2>1. pc' \in [Calls -> {"idle", "attach", "first", "writing", "wait", "finish", "done"}]
    <3>1. pc \in [Calls -> {"idle", "attach", "first", "writing", "wait", "finish", "done"}]
      BY DEF TypeOK
    <3>2. pc' = [pc EXCEPT ![c] = "finish"] \/ pc' = [pc EXCEPT ![c] = "done"] BY <1>1
    <3> HIDE DEF ToolInv
    <3> QED BY <3>1, <3>2
  <2>2. outcome' \in [Calls -> {"none", "ok", "timeout", "offline"}]
    BY <1>1 DEF TypeOK
  <2>3. finished' \subseteq Calls BY <1>1 DEF TypeOK
  <2> QED BY <1>1, <2>1, <2>2, <2>3 DEF TypeOK, PendingTypeOK
<1>3. KeyIsCall' BY <1>1 DEF KeyIsCall
<1>4. AttemptsAreBound' BY <1>1 DEF AttemptsAreBound
<1>5. HistoryAgrees' BY <1>1 DEF HistoryAgrees
<1>6. WaitingIsOffered' BY <1>1 DEF WaitingIsOffered, TypeOK
<1>7. NoDeviceOverlooked' BY <1>1 DEF NoDeviceOverlooked, TypeOK
<1> QED BY <1>2, <1>3, <1>4, <1>5, <1>6, <1>7

(* retry either returns at once, or binds the call to an installation of   *)
(* the wanted device, the one it is bound to already if there is one.      *)
LEMMA EnterFacts ==
    ASSUME ToolInv, NEW c \in Calls,
           NEW who \in Installations \cup {Caller}, EnterRetry(c, who)
    PROVE  /\ holder[c] = NoInstallation
           /\ \/ /\ Refused(c, who) /\ UNCHANGED <<holder, target, bound, attempts>>
              \/ /\ attempts[c] < MaxAttempts
                 /\ \E i \in Wanted :
                       /\ bound[c] \in {NoInstallation, i}
                       /\ target' = [target EXCEPT ![c] = i]
                       /\ bound' = [bound EXCEPT ![c] = i]
                 /\ holder' = [holder EXCEPT ![c] = who]
                 /\ attempts' = [attempts EXCEPT ![c] = @ + 1]
<1>1. CASE Refused(c, who) BY <1>1 DEF EnterRetry
<1>2. CASE ~Refused(c, who)
  <2>1. PICK i \in Reachable(c) : /\ target' = [target EXCEPT ![c] = i]
                                       /\ bound' = [bound EXCEPT ![c] = i]
    BY <1>2 DEF EnterRetry
  <2>2. i \in Wanted /\ bound[c] \in {NoInstallation, i}
    BY DEF Reachable, ToolInv, TypeOK
  <2>3. attempts[c] < MaxAttempts
    BY <1>2 DEF Refused, ToolInv, TypeOK
  <2> QED BY <1>2, <2>1, <2>2, <2>3 DEF EnterRetry
<1> QED BY <1>1, <1>2

(* Whoever enters retry keeps the bookkeeping of attempts; a call it       *)
(* leaves unbound found no device.                                         *)
LEMMA EnterKeeps ==
    ASSUME ToolInv, NEW c \in Calls,
           NEW who \in Installations \cup {Caller}, EnterRetry(c, who)
    PROVE  /\ holder' \in [Calls -> Installations \cup {Caller, NoInstallation}]
           /\ bound' \in [Calls -> Wanted \cup {NoInstallation}]
           /\ target' \in [Calls -> Wanted \cup {NoInstallation}]
           /\ attempts' \in [Calls -> 0..MaxAttempts]
           /\ AttemptsAreBound'
           /\ holder[c] = NoInstallation
           /\ \A d \in Calls \ {c} : holder'[d] = holder[d] /\ bound'[d] = bound[d]
           /\ holder'[c] \in {NoInstallation, who}
           /\ bound'[c] = NoInstallation /\ pc[c] # "done" =>
                 /\ bound[c] = NoInstallation /\ holder'[c] = NoInstallation
                 /\ \A i \in Wanted : conn[i] # "ready"
<1>1. /\ holder \in [Calls -> Installations \cup {Caller, NoInstallation}]
      /\ bound \in [Calls -> Wanted \cup {NoInstallation}]
      /\ target \in [Calls -> Wanted \cup {NoInstallation}]
      /\ attempts \in [Calls -> 0..MaxAttempts]
      /\ received \in [Calls -> [Installations -> Nat]]
  BY DEF ToolInv, TypeOK
<1>2. /\ Wanted \subseteq Installations /\ NoInstallation \notin Installations
      /\ Caller # NoInstallation /\ MaxAttempts \in Nat \ {0} /\ Keys = Calls
  BY DEF Caller, NoInstallation
<1>3. holder[c] = NoInstallation BY EnterFacts
<1>4. received' = received BY DEF EnterRetry
<1>5. CASE Refused(c, who) /\ UNCHANGED <<holder, target, bound, attempts>>
  <2>1. AttemptsAreBound' BY <1>4, <1>5 DEF ToolInv, AttemptsAreBound
  <2>2. ASSUME bound[c] = NoInstallation, pc[c] # "done" PROVE \A i \in Wanted : conn[i] # "ready"
    <3>1. c \notin finished BY <2>2 DEF ToolInv, WaitingIsOffered
    <3>2. ~(attempts[c] >= MaxAttempts)
      BY <1>1, <1>2, <2>2 DEF ToolInv, AttemptsAreBound
    <3>3. Reachable(c) = {} BY <1>5, <2>2, <3>1, <3>2 DEF Refused
    <3> QED BY <2>2, <3>3 DEF Reachable, Authenticated
  <2> QED BY <1>1, <1>3, <1>5, <2>1, <2>2
<1>6. CASE ~(Refused(c, who) /\ UNCHANGED <<holder, target, bound, attempts>>)
  <2>1. attempts[c] < MaxAttempts BY <1>6, EnterFacts
  <2>2. PICK i \in Wanted :
           /\ bound[c] \in {NoInstallation, i}
           /\ target' = [target EXCEPT ![c] = i]
           /\ bound' = [bound EXCEPT ![c] = i]
           /\ holder' = [holder EXCEPT ![c] = who]
           /\ attempts' = [attempts EXCEPT ![c] = @ + 1]
    BY <1>6, EnterFacts
  <2>3. attempts[c] \in Nat /\ attempts[c] + 1 \in 0..MaxAttempts BY <1>1, <1>2, <2>1
  <2>4. AttemptsAreBound'
    <3> SUFFICES ASSUME NEW d \in Calls
                 PROVE  /\ attempts'[d] > 0 => bound'[d] # NoInstallation
                        /\ holder'[d] # NoInstallation =>
                              target'[d] = bound'[d] /\ bound'[d] # NoInstallation
                        /\ \A j \in Installations :
                              /\ received[d][j] <= attempts'[d]
                              /\ holder'[d] # NoInstallation => received[d][j] < attempts'[d]
                              /\ received[d][j] > 0 => j = bound'[d]
      BY <1>4 DEF AttemptsAreBound
    <3>1. /\ attempts[d] > 0 => bound[d] # NoInstallation
          /\ holder[d] # NoInstallation => target[d] = bound[d] /\ bound[d] # NoInstallation
          /\ \A j \in Installations :
                /\ received[d][j] <= attempts[d]
                /\ holder[d] # NoInstallation => received[d][j] < attempts[d]
                /\ received[d][j] > 0 => j = bound[d]
      BY DEF ToolInv, AttemptsAreBound
    <3>2. CASE d # c BY <1>1, <2>2, <3>1, <3>2
    <3>3. CASE d = c
      <4>1. bound'[c] = i /\ target'[c] = i /\ attempts'[c] = attempts[c] + 1 /\ i # NoInstallation
        BY <1>1, <1>2, <2>2
      <4>2. \A j \in Installations : received[c][j] \in Nat BY <1>1
      <4>3. \A j \in Installations : received[c][j] > 0 => j = i
        BY <2>2, <2>3, <3>1, <3>3, <4>2
      <4> QED BY <2>3, <3>1, <3>3, <4>1, <4>2, <4>3
    <3> QED BY <3>2, <3>3
  <2>5. /\ holder' \in [Calls -> Installations \cup {Caller, NoInstallation}]
        /\ bound' \in [Calls -> Wanted \cup {NoInstallation}]
        /\ target' \in [Calls -> Wanted \cup {NoInstallation}]
        /\ attempts' \in [Calls -> 0..MaxAttempts]
    BY <1>1, <2>2, <2>3
  <2>6. bound'[c] # NoInstallation BY <1>1, <1>2, <2>2
  <2>7. holder'[c] = who /\ \A d \in Calls \ {c} : holder'[d] = holder[d] /\ bound'[d] = bound[d]
    BY <1>1, <2>2
  <2> QED BY <1>3, <2>4, <2>5, <2>6, <2>7
<1> QED BY <1>5, <1>6

(* A read loop offers its connection to the call.                          *)
LEMMA ToolOffer ==
    ASSUME ToolInv, NEW c \in Calls, NEW i \in Installations,
           Offer(c, i)
    PROVE  ToolInv'
<1>1. /\ EnterRetry(c, i) /\ offers[c][i] > 0
      /\ offers' = [offers EXCEPT ![c][i] = @ - 1]
      /\ UNCHANGED <<pending, keyOf, timer, resolving, answered, timedOut>>
      /\ UNCHANGED <<conn, connects, stale, pc, hasRetry, outcome, delivered, finished, received>>
  BY DEF Offer, EnterRetry, pendingVars, hubVars, callVars
<1>2. offers \in [Calls -> [Installations -> Nat]] BY DEF ToolInv, TypeOK
<1>3. offers' \in [Calls -> [Installations -> Nat]]
  <2>1. offers[c][i] - 1 \in Nat BY <1>1, <1>2
  <2>2. [offers[c] EXCEPT ![i] = @ - 1] \in [Installations -> Nat] BY <1>2, <2>1
  <2> QED BY <1>1, <1>2, <2>2
<1>4. /\ holder' \in [Calls -> Installations \cup {Caller, NoInstallation}]
      /\ bound' \in [Calls -> Wanted \cup {NoInstallation}]
      /\ target' \in [Calls -> Wanted \cup {NoInstallation}]
      /\ attempts' \in [Calls -> 0..MaxAttempts]
      /\ AttemptsAreBound'
  BY <1>1, EnterKeeps
<1>5. /\ holder[c] = NoInstallation /\ holder'[c] \in {NoInstallation, i}
      /\ \A d \in Calls \ {c} : holder'[d] = holder[d] /\ bound'[d] = bound[d]
      /\ bound'[c] = NoInstallation /\ pc[c] # "done" => \A j \in Wanted : conn[j] # "ready"
  BY <1>1, EnterKeeps
<1>6. TypeOK'
  BY <1>1, <1>3, <1>4 DEF ToolInv, TypeOK, PendingTypeOK
<1>7. KeyIsCall' /\ HistoryAgrees' BY <1>1 DEF ToolInv, KeyIsCall, HistoryAgrees
<1>8. WaitingIsOffered'
  <2>1. i # Caller /\ NoInstallation # Caller
    BY DEF Caller, NoInstallation
  <2>2. \A d \in Calls : holder'[d] = Caller <=> holder[d] = Caller
    BY <1>5, <2>1
  <2> QED BY <1>1, <2>2 DEF ToolInv, WaitingIsOffered
<1>9. NoDeviceOverlooked'
  <2> SUFFICES ASSUME NEW d \in Calls, NEW j \in Wanted, pc[d] = "wait",
                      bound'[d] = NoInstallation, pending[d] = d, conn[j] = "ready"
               PROVE  \E k \in Wanted : offers'[d][k] > 0
    BY <1>1 DEF NoDeviceOverlooked
  <2>1. d # c BY <1>5
  <2>2. offers'[d] = offers[d] /\ bound[d] = NoInstallation BY <1>1, <1>2, <1>5, <2>1
  <2> QED BY <2>2 DEF ToolInv, NoDeviceOverlooked
<1> QED BY <1>4, <1>6, <1>7, <1>8, <1>9 DEF ToolInv

(* The caller makes the first attempt.                                     *)
LEMMA ToolFirst ==
    ASSUME ToolInv, NEW c \in Calls, FirstAttempt(c)
    PROVE  ToolInv'
<1>1. /\ EnterRetry(c, Caller) /\ pc[c] = "first"
      /\ pc' = [pc EXCEPT ![c] = IF holder'[c] = Caller THEN "writing" ELSE "wait"]
      /\ UNCHANGED <<pending, keyOf, timer, resolving, answered, timedOut, offers>>
      /\ UNCHANGED <<conn, connects, stale, hasRetry, outcome, delivered, finished, received>>
  BY DEF FirstAttempt, EnterRetry, pendingVars, hubVars
<1>2. pc \in [Calls -> {"idle", "attach", "first", "writing", "wait", "finish", "done"}]
  BY DEF ToolInv, TypeOK
<1>4. /\ holder' \in [Calls -> Installations \cup {Caller, NoInstallation}]
      /\ bound' \in [Calls -> Wanted \cup {NoInstallation}]
      /\ target' \in [Calls -> Wanted \cup {NoInstallation}]
      /\ attempts' \in [Calls -> 0..MaxAttempts]
      /\ AttemptsAreBound'
  BY <1>1, EnterKeeps
<1>5. /\ \A d \in Calls \ {c} : holder'[d] = holder[d] /\ bound'[d] = bound[d]
      /\ bound'[c] = NoInstallation /\ pc[c] # "done" => \A j \in Wanted : conn[j] # "ready"
  BY <1>1, EnterKeeps
<1>3. pc' \in [Calls -> {"idle", "attach", "first", "writing", "wait", "finish", "done"}]
  BY <1>1, <1>2
<1>6. TypeOK'
  BY <1>1, <1>3, <1>4 DEF ToolInv, TypeOK, PendingTypeOK
<1>7. KeyIsCall' /\ HistoryAgrees' BY <1>1 DEF ToolInv, KeyIsCall, HistoryAgrees
<1>8. WaitingIsOffered'
  <2> SUFFICES ASSUME NEW d \in Calls
               PROVE  /\ d \in finished <=> pc'[d] = "done"
                      /\ pc'[d] \in {"first", "writing", "wait"} /\ pending[d] = d => d \in hasRetry
                      /\ pc'[d] = "writing" <=> holder'[d] = Caller
    BY <1>1 DEF WaitingIsOffered
  <2>1. /\ d \in finished <=> pc[d] = "done"
        /\ pc[d] \in {"first", "writing", "wait"} /\ pending[d] = d => d \in hasRetry
        /\ pc[d] = "writing" <=> holder[d] = Caller
    BY DEF ToolInv, WaitingIsOffered
  <2>2. CASE d = c BY <1>1, <1>2, <2>1, <2>2
  <2>3. CASE d # c BY <1>1, <1>2, <1>5, <2>1, <2>3
  <2> QED BY <2>2, <2>3
<1>9. NoDeviceOverlooked'
  <2> SUFFICES ASSUME NEW d \in Calls, NEW j \in Wanted, pc'[d] = "wait",
                      bound'[d] = NoInstallation, pending[d] = d, conn[j] = "ready"
               PROVE  \E k \in Wanted : offers[d][k] > 0
    BY <1>1 DEF NoDeviceOverlooked
  <2>1. d # c BY <1>1, <1>5
  <2>2. pc[d] = "wait" /\ bound[d] = NoInstallation BY <1>1, <1>2, <1>5, <2>1
  <2> QED BY <2>2 DEF ToolInv, NoDeviceOverlooked
<1> QED BY <1>4, <1>6, <1>7, <1>8, <1>9 DEF ToolInv

(* The write of the attempt in progress ends, well or not.                 *)
LEMMA ToolWrite ==
    ASSUME ToolInv, NEW c \in Calls, WriteStep(c)
    PROVE  ToolInv'
<1> DEFINE i == target[c]
<1>1. /\ holder[c] # NoInstallation /\ holder' = [holder EXCEPT ![c] = NoInstallation]
      /\ target' = [target EXCEPT ![c] = NoInstallation]
      /\ \/ /\ delivered' = delivered \cup {c}
            /\ received' = [received EXCEPT ![c][i] = @ + 1]
         \/ UNCHANGED <<delivered, received>>
      /\ pc' = IF holder[c] = Caller THEN [pc EXCEPT ![c] = "wait"] ELSE pc
      /\ UNCHANGED <<pending, keyOf, timer, resolving, answered, timedOut>>
      /\ UNCHANGED <<conn, connects, stale, hasRetry, outcome, offers, bound, attempts, finished>>
  BY DEF WriteStep, WriteRequest, pendingVars, hubVars
<1>2. /\ holder \in [Calls -> Installations \cup {Caller, NoInstallation}]
      /\ target \in [Calls -> Wanted \cup {NoInstallation}]
      /\ received \in [Calls -> [Installations -> Nat]]
      /\ attempts \in [Calls -> 0..MaxAttempts] /\ delivered \subseteq Calls
      /\ pc \in [Calls -> {"idle", "attach", "first", "writing", "wait", "finish", "done"}]
  BY DEF ToolInv, TypeOK
<1>3. /\ Wanted \subseteq Installations /\ NoInstallation \notin Installations
      /\ Caller # NoInstallation
  BY DEF Caller, NoInstallation
<1>4. i = bound[c] /\ i # NoInstallation /\ i \in Installations
  BY <1>1, <1>2, <1>3 DEF ToolInv, AttemptsAreBound
<1> HIDE DEF i
<1>5. /\ received' \in [Calls -> [Installations -> Nat]]
      /\ \A d \in Calls \ {c} : received'[d] = received[d]
      /\ \A j \in Installations \ {i} : received'[c][j] = received[c][j]
      /\ received'[c][i] \in {received[c][i], received[c][i] + 1}
      /\ \A j \in Installations : received'[c][j] >= received[c][j]
  <2>1. CASE received' = [received EXCEPT ![c][i] = @ + 1]
    <3>1. [received[c] EXCEPT ![i] = @ + 1] \in [Installations -> Nat] BY <1>2, <1>4
    <3>2. received'[c] = [received[c] EXCEPT ![i] = @ + 1] BY <1>2, <2>1
    <3>3. received'[c][i] = received[c][i] + 1 BY <1>2, <1>4, <3>2
    <3>4. received' \in [Calls -> [Installations -> Nat]] BY <1>2, <2>1, <3>1
    <3>5. \A d \in Calls \ {c} : received'[d] = received[d] BY <1>2, <2>1
    <3>6. \A j \in Installations \ {i} : received'[c][j] = received[c][j] BY <1>2, <3>2
    <3>7. \A j \in Installations : received[c][j] \in Nat BY <1>2
    <3>8. \A j \in Installations : received'[c][j] >= received[c][j]
      BY <3>3, <3>6, <3>7
    <3> QED BY <3>3, <3>4, <3>5, <3>6, <3>8
  <2>2. CASE UNCHANGED received BY <1>2, <2>2
  <2> QED BY <1>1, <2>1, <2>2
<1>6. /\ holder' \in [Calls -> Installations \cup {Caller, NoInstallation}]
      /\ target' \in [Calls -> Wanted \cup {NoInstallation}]
      /\ delivered' \subseteq Calls
      /\ pc' \in [Calls -> {"idle", "attach", "first", "writing", "wait", "finish", "done"}]
  BY <1>1, <1>2
<1>7. TypeOK'
  BY <1>1, <1>5, <1>6 DEF ToolInv, TypeOK, PendingTypeOK
<1>8. KeyIsCall' BY <1>1 DEF ToolInv, KeyIsCall
<1>9. AttemptsAreBound'
  <2> SUFFICES ASSUME NEW d \in Calls
               PROVE  /\ attempts[d] > 0 => bound[d] # NoInstallation
                      /\ holder'[d] # NoInstallation =>
                            target'[d] = bound[d] /\ bound[d] # NoInstallation
                      /\ \A j \in Installations :
                            /\ received'[d][j] <= attempts[d]
                            /\ holder'[d] # NoInstallation => received'[d][j] < attempts[d]
                            /\ received'[d][j] > 0 => j = bound[d]
    BY <1>1 DEF AttemptsAreBound
  <2>1. /\ attempts[d] > 0 => bound[d] # NoInstallation
        /\ holder[d] # NoInstallation => target[d] = bound[d] /\ bound[d] # NoInstallation
        /\ \A j \in Installations :
              /\ received[d][j] <= attempts[d]
              /\ holder[d] # NoInstallation => received[d][j] < attempts[d]
              /\ received[d][j] > 0 => j = bound[d]
    BY DEF ToolInv, AttemptsAreBound
  <2>2. CASE d # c BY <1>1, <1>2, <1>5, <2>1, <2>2
  <2>3. CASE d = c
    <3>1. holder'[c] = NoInstallation BY <1>1, <1>2
    <3>2. \A j \in Installations : received[c][j] \in Nat /\ attempts[c] \in Nat BY <1>2
    <3>3. \A j \in Installations :
             received'[c][j] <= attempts[c] /\ (received'[c][j] > 0 => j = bound[c])
      BY <1>1, <1>4, <1>5, <2>1, <2>3, <3>2
    <3> QED BY <2>1, <2>3, <3>1, <3>3
  <2> QED BY <2>2, <2>3
<1>10. HistoryAgrees'
  <2> SUFFICES ASSUME NEW d \in Calls
               PROVE  /\ d \in delivered' <=> \E j \in Installations : received'[d][j] > 0
                      /\ d \in resolving \cup answered => d \in delivered'
    BY <1>1 DEF HistoryAgrees
  <2>1. /\ d \in delivered <=> \E j \in Installations : received[d][j] > 0
        /\ d \in resolving \cup answered => d \in delivered
    BY DEF ToolInv, HistoryAgrees
  <2>2. CASE UNCHANGED <<delivered, received>> BY <2>1, <2>2
  <2>3. CASE delivered' = delivered \cup {c} /\ received' = [received EXCEPT ![c][i] = @ + 1]
    <3>1. received'[c][i] = received[c][i] + 1 /\ received[c][i] \in Nat
      BY <1>2, <1>4, <2>3
    <3>2. received'[c][i] > 0 BY <3>1
    <3> QED BY <1>4, <1>5, <2>1, <2>3, <3>2
  <2> QED BY <1>1, <2>2, <2>3
<1>11. WaitingIsOffered'
  <2> SUFFICES ASSUME NEW d \in Calls
               PROVE  /\ d \in finished <=> pc'[d] = "done"
                      /\ pc'[d] \in {"first", "writing", "wait"} /\ pending[d] = d => d \in hasRetry
                      /\ pc'[d] = "writing" <=> holder'[d] = Caller
    BY <1>1 DEF WaitingIsOffered
  <2>1. /\ d \in finished <=> pc[d] = "done"
        /\ pc[d] \in {"first", "writing", "wait"} /\ pending[d] = d => d \in hasRetry
        /\ pc[d] = "writing" <=> holder[d] = Caller
    BY DEF ToolInv, WaitingIsOffered
  <2>2. CASE d = c BY <1>1, <1>2, <1>3, <2>1, <2>2
  <2>3. CASE d # c BY <1>1, <1>2, <2>1, <2>3
  <2> QED BY <2>2, <2>3
<1>12. NoDeviceOverlooked'
  <2> SUFFICES ASSUME NEW d \in Calls, NEW j \in Wanted, pc'[d] = "wait",
                      bound[d] = NoInstallation, pending[d] = d, conn[j] = "ready"
               PROVE  \E k \in Wanted : offers[d][k] > 0
    BY <1>1 DEF NoDeviceOverlooked
  <2>1. d # c BY <1>4
  <2>2. pc[d] = "wait" BY <1>1, <1>2, <2>1
  <2> QED BY <2>2 DEF ToolInv, NoDeviceOverlooked
<1> QED BY <1>7, <1>8, <1>9, <1>10, <1>11, <1>12 DEF ToolInv

(* Every step preserves the invariant, stuttering included.                *)
LEMMA ToolStep == ToolInv /\ [Next]_vars => ToolInv'
<1> SUFFICES ASSUME ToolInv, [Next]_vars PROVE ToolInv' OBVIOUS
<1>1. CASE UNCHANGED vars
  BY <1>1 DEF vars, pendingVars, hubVars, callVars, retryVars, ToolInv,
              TypeOK, PendingTypeOK, KeyIsCall, AttemptsAreBound, HistoryAgrees,
              WaitingIsOffered, NoDeviceOverlooked
<1>2. ASSUME NEW c \in Calls,
             \/ Begin(c) \/ CallStep(c) \/ WriteStep(c) \/ TableStep(c)
             \/ DeviceAnswers(c) \/ \E i \in Installations : Offer(c, i)
      PROVE  ToolInv'
  BY <1>2, ToolBegin, ToolAttach, ToolFirst, ToolReturns, ToolWrite, ToolTable, ToolOffer
  DEF CallStep
<1>3. ASSUME NEW i \in Installations,
             \/ Register(i) \/ MarkAuthenticated(i) \/ Remove(i)
             \/ RetryPending(i) \/ StaleRetryPending(i)
      PROVE  ToolInv'
  BY <1>3, ToolConnections, ToolRetryPending
<1> QED BY <1>1, <1>2, <1>3 DEF Next

(* Tool calls and the connections they use are well typed; no call makes   *)
(* more than MaxAttempts attempts.                                         *)
THEOREM ToolTypeOK == Spec => []TypeOK
<1>1. Init => ToolInv BY ToolInit
<1>2. ToolInv /\ [Next]_vars => ToolInv' BY ToolStep
<1>3. ToolInv => TypeOK BY DEF ToolInv
<1> QED BY <1>1, <1>2, <1>3, PTL DEF Spec

(* One installation receives the request of a call, at most MaxAttempts    *)
(* times, whatever connects, reconnects and retransmits.                   *)
THEOREM ToolBoundToOne == Spec => []BoundToOne
<1>1. Init => ToolInv BY ToolInit
<1>2. ToolInv /\ [Next]_vars => ToolInv' BY ToolStep
<1>3. ToolInv => BoundToOne
  <2> SUFFICES ASSUME ToolInv, NEW c \in Calls
               PROVE  LET served == {i \in Installations : received[c][i] > 0}
                      IN  /\ Cardinality(served) <= 1
                          /\ \A i \in Installations : received[c][i] <= MaxAttempts
    BY DEF BoundToOne
  <2> DEFINE served == {i \in Installations : received[c][i] > 0}
  <2>1. served \subseteq {bound[c]} BY DEF ToolInv, AttemptsAreBound
  <2>2. /\ \A i \in Installations : received[c][i] <= attempts[c] /\ received[c][i] \in Nat
        /\ attempts[c] \in 0..MaxAttempts
    BY DEF ToolInv, AttemptsAreBound, TypeOK
  <2>3. Cardinality(served) <= 1
    <3> HIDE DEF served
    <3>1. IsFiniteSet({bound[c]}) /\ Cardinality({bound[c]}) = 1 BY FS_Singleton
    <3> QED BY <2>1, <3>1, FS_Subset
  <2>4. \A i \in Installations : received[c][i] <= MaxAttempts BY <2>2
  <2> QED BY <2>3, <2>4
<1> QED BY <1>1, <1>2, <1>3, PTL DEF Spec

(* A device of the wanted id that is there, while an unbound call waits,   *)
(* has been offered the call or is about to be.                            *)
THEOREM ToolNoDeviceOverlooked == Spec => []NoDeviceOverlooked
<1>1. Init => ToolInv BY ToolInit
<1>2. ToolInv /\ [Next]_vars => ToolInv' BY ToolStep
<1>3. ToolInv => NoDeviceOverlooked BY DEF ToolInv
<1> QED BY <1>1, <1>2, <1>3, PTL DEF Spec

(* A caller is told `offline' if and only if no device has received its    *)
(* request by then and nobody is writing it to one.                        *)
THEOREM ToolOutcomeTellsDelivery == Spec => OutcomeTellsDelivery
<1> DEFINE Told == \A c \in Calls : outcome'[c] # outcome[c] =>
              (outcome'[c] = "offline" <=>
                   /\ holder[c] = NoInstallation
                   /\ \A i \in Installations : received[c][i] = 0)
<1>1. Init => ToolInv BY ToolInit
<1>2. ToolInv /\ [Next]_vars => ToolInv' BY ToolStep
<1>3. ToolInv /\ [Next]_vars => [Told]_vars
  <2> SUFFICES ASSUME ToolInv, Next PROVE Told OBVIOUS
  <2>1. \A d \in Calls : d \in delivered <=> \E i \in Installations : received[d][i] # 0
    BY DEF ToolInv, TypeOK, HistoryAgrees
  <2>2. \A d \in answered : d \in delivered
    BY DEF ToolInv, HistoryAgrees, TypeOK, PendingTypeOK
  <2>3. outcome \in [Calls -> {"none", "ok", "timeout", "offline"}] BY DEF ToolInv, TypeOK
  <2>4. CASE UNCHANGED outcome BY <2>4
  <2>5. ASSUME NEW c \in Calls, ReceiveResult(c) PROVE Told
    BY <2>1, <2>2, <2>3, <2>5 DEF ReceiveResult
  <2>6. ASSUME NEW c \in Calls, ReceiveExpired(c) PROVE Told
    BY <2>1, <2>3, <2>6 DEF ReceiveExpired
  <2>7. \/ UNCHANGED outcome
        \/ \E c \in Calls : ReceiveResult(c) \/ ReceiveExpired(c)
    BY DEF Next, Register, MarkAuthenticated, RetryPending, StaleRetryPending, Remove,
           Begin, CallStep, AttachRetry, FirstAttempt, Finish,
           WriteStep, TableStep, DeviceAnswers, Offer, callVars
  <2> QED BY <2>4, <2>5, <2>6, <2>7
<1> QED BY <1>1, <1>2, <1>3, PTL DEF Spec, OutcomeTellsDelivery
=============================================================================
