--------------------------- MODULE DeviceDispatch ---------------------------
(***************************************************************************)
(* hub.dispatch: how system-info, rpc, message and agent-run requests are  *)
(* sent to the chosen device and wait for its answer (hub.go, server.go).  *)
(* System-info, rpc and message calls draw a fresh random key; an agent    *)
(* run uses the operation id the backend sent (server.go, handleAgentRun). *)
(* Which connection is chosen does not matter here: any device of the user *)
(* may answer any key.                                                     *)
(***************************************************************************)
EXTENDS DevicePending

CONSTANTS
    AgentRuns,      \* the calls that are agent runs
    Operations      \* the keys that are operation ids

ASSUME DispatchAssumption == AgentRuns \subseteq Calls /\ Operations \subseteq Keys

VARIABLES
    pc,         \* [Calls -> where the calling goroutine is]
    sent,       \* keys a device has been sent a request for
    outcome     \* [Calls -> what dispatch returned, "none" before]

vars == <<pendingVars, pc, sent, outcome>>

Init ==
    /\ PendingInit
    /\ pc = [c \in Calls |-> "idle"]
    /\ sent = {}
    /\ outcome = [c \in Calls |-> "none"]

(* The handler finds no authenticated connection, or none of the device.   *)
NoTarget(c) ==
    /\ pc[c] = "idle"
    /\ pc' = [pc EXCEPT ![c] = "done"]
    /\ outcome' = [outcome EXCEPT ![c] = "offline"]
    /\ UNCHANGED <<pendingVars, sent>>

Unused(k) == \A c \in Calls : keyOf[c] # k

(* A system-info, rpc or message handler calls dispatch with a fresh key,  *)
(* which enters it in the table before anything is written.                *)
BeginRequest(c, k) ==
    /\ pc[c] = "idle" /\ c \notin AgentRuns
    /\ k \in Keys \ Operations /\ Unused(k)
    /\ SetPending(c, k)
    /\ pc' = [pc EXCEPT ![c] = "write"]
    /\ UNCHANGED <<sent, outcome>>

(* handleAgentRun does so with the operation id, which the backend may     *)
(* have sent in an earlier request that still waits.                       *)
BeginAgentRun(c, k) ==
    /\ pc[c] = "idle" /\ c \in AgentRuns
    /\ k \in Operations
    /\ SetPending(c, k)
    /\ pc' = [pc EXCEPT ![c] = "write"]
    /\ UNCHANGED <<sent, outcome>>

(* target.writeJSON: the request goes out, or the write fails.             *)
Write(c) ==
    /\ pc[c] = "write"
    /\ \/ /\ pc' = [pc EXCEPT ![c] = "wait"] /\ sent' = sent \cup {keyOf[c]}
       \/ /\ pc' = [pc EXCEPT ![c] = "clear"] /\ UNCHANGED sent
    /\ UNCHANGED <<pendingVars, outcome>>

(* Mutation: the entry of a request that was not written is left.          *)
ReturnOfflineKeeps(c) ==
    /\ pc[c] = "clear"
    /\ pc' = [pc EXCEPT ![c] = "done"]
    /\ outcome' = [outcome EXCEPT ![c] = "offline"]
    /\ UNCHANGED <<pendingVars, sent>>

(* clearPending, then DEVICE_OFFLINE.                                      *)
ReturnOffline(c) ==
    /\ pc[c] = "clear"
    /\ ClearPending(keyOf[c])
    /\ pc' = [pc EXCEPT ![c] = "done"]
    /\ outcome' = [outcome EXCEPT ![c] = "offline"]
    /\ UNCHANGED sent

(* The select: whichever channel has a message.                            *)
Receive(c) ==
    /\ pc[c] = "wait"
    /\ \/ c \in answered /\ outcome' = [outcome EXCEPT ![c] = "ok"]
       \/ c \in timedOut /\ outcome' = [outcome EXCEPT ![c] = "timeout"]
    /\ pc' = [pc EXCEPT ![c] = "done"]
    /\ UNCHANGED <<pendingVars, sent>>

(* The device answers a request it received, perhaps late or repeatedly.   *)
DeviceAnswers(k) ==
    /\ k \in sent
    /\ ResolveTake(k)
    /\ UNCHANGED <<pc, sent, outcome>>

TableStep(c) == PendingStep(c) /\ UNCHANGED <<pc, sent, outcome>>

CallStep(c) == Write(c) \/ ReturnOffline(c) \/ Receive(c)

Next ==
    \/ \E c \in Calls :
          \/ NoTarget(c)
          \/ \E k \in Keys : BeginRequest(c, k) \/ BeginAgentRun(c, k)
          \/ CallStep(c)
          \/ TableStep(c)
    \/ \E k \in Keys : DeviceAnswers(k)

Spec == Init /\ [][Next]_vars

(* Goroutines run and timers expire; a device need not answer.             *)
FairSpec ==
    /\ Spec
    /\ \A c \in Calls : WF_vars(CallStep(c)) /\ WF_vars(TableStep(c))

-----------------------------------------------------------------------------

TypeOK ==
    /\ PendingTypeOK
    /\ pc \in [Calls -> {"idle", "write", "clear", "wait", "done"}]
    /\ sent \subseteq Keys
    /\ outcome \in [Calls -> {"none", "ok", "timeout", "offline"}]

(* Every entry of the table belongs to a call that is still waiting for    *)
(* it: nothing is left behind by a call that has returned.                 *)
NoStaleEntry ==
    \A k \in Keys : pending[k] # NoCall => pc[pending[k]] \in {"write", "clear", "wait"}

(* Every call returns, with an answer, a timeout or offline, unless it     *)
(* shares its key with another one.                                        *)
CallsWithOwnKeyReturn ==
    \A c \in Calls : pc[c] = "write" ~>
        pc[c] = "done" \/ \E d \in Calls \ {c} : keyOf[d] = keyOf[c]

(* Every call returns, without the exception: a device that never answers  *)
(* costs its caller no more than the timeout.                              *)
EveryCallReturns == \A c \in Calls : pc[c] = "write" ~> pc[c] = "done"
=============================================================================
