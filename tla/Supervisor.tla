----------------------------- MODULE Supervisor -----------------------------
(***************************************************************************)
(* The process that runs both services (src/cmd/gateway/main.go) and how   *)
(* it stops while requests of PendingAnswers are in flight.  It waits for  *)
(* a signal or for the first listener that fails, then shuts both services *)
(* down at the same time under one deadline.  http.Server.Shutdown closes  *)
(* the listeners and waits for the requests already accepted; upgraded     *)
(* WebSockets are not its business, so people can still answer.            *)
(***************************************************************************)
EXTENDS PendingAnswers

VARIABLES
    failed,     \* services whose listener failed, their error is in errCh
    signalled,  \* a signal came while runServices was waiting for one
    arrived,    \* requests of the agent service that were accepted
    main,       \* where runServices is
    down,       \* [Services -> where the Shutdown of each is]
    deadline,   \* the deadline of shutdownServices has passed
    exitCode

stopVars == <<failed, signalled>>
mainVars == <<main, exitCode>>
vars == <<pendingVars, stopVars, arrived, mainVars, down, deadline>>

Services == {"agent", "device"}

Init ==
    /\ PendingInit
    /\ failed = {} /\ signalled = FALSE
    /\ arrived = {}
    /\ main = "running" /\ exitCode = 0
    /\ down = [s \in Services |-> "no"]
    /\ deadline = FALSE

Alive == main # "exited"
Unanswered == {r \in arrived : stage[r] \notin Returned}

-----------------------------------------------------------------------------
(* The services.  A listener may fail, at once or later; that matters      *)
(* while runServices waits for it.                                         *)
ListenFails(s) ==
    /\ main = "running" /\ s \notin failed
    /\ failed' = failed \cup {s}
    /\ UNCHANGED <<pendingVars, signalled, arrived, mainVars, down, deadline>>

Arrive(r) ==
    /\ Alive /\ "agent" \notin failed /\ down["agent"] = "no" /\ r \notin arrived
    /\ arrived' = arrived \cup {r}
    /\ UNCHANGED <<pendingVars, stopVars, mainVars, down, deadline>>

(* Steps of the requests, while there is a process to take them.           *)
Handle(r) ==
    /\ Alive
    /\ \/ r \in arrived /\ Ask(r)
       \/ WaitStep(r)
       \/ Deliver(r)
    /\ UNCHANGED <<stopVars, arrived, mainVars, down, deadline>>

Answered ==
    /\ Alive /\ Reply
    /\ UNCHANGED <<stopVars, arrived, mainVars, down, deadline>>

-----------------------------------------------------------------------------
(* runServices and shutdownServices.                                       *)

Signal ==
    /\ main = "running" /\ ~signalled
    /\ signalled' = TRUE
    /\ UNCHANGED <<pendingVars, failed, arrived, mainVars, down, deadline>>

(* The select of runServices; with both ready it may take either.  What    *)
(* else is in errCh is never received.                                     *)
StopOnSignal ==
    /\ main = "running" /\ signalled
    /\ main' = "stopping"
    /\ UNCHANGED <<pendingVars, stopVars, arrived, exitCode, down, deadline>>

StopOnFailure ==
    /\ main = "running" /\ failed # {}
    /\ main' = "stopping" /\ exitCode' = 1
    /\ UNCHANGED <<pendingVars, stopVars, arrived, down, deadline>>

(* Shutdown(ctx) of a service: it stops accepting ...                      *)
CloseListener(s) ==
    /\ main = "stopping" /\ down[s] = "no"
    /\ down' = [down EXCEPT ![s] = "closing"]
    /\ UNCHANGED <<pendingVars, stopVars, arrived, mainVars, deadline>>

(* ... and returns once nothing is in flight, which for the requests of    *)
(* the device service may be at any time.  (If the deadline passes first   *)
(* it returns an error: then, as with GiveUp, the exit code is 1.)         *)
ShutdownReturns(s) ==
    /\ Alive /\ down[s] = "closing"
    /\ s = "agent" => Unanswered = {}
    /\ down' = [down EXCEPT ![s] = "done"]
    /\ UNCHANGED <<pendingVars, stopVars, arrived, mainVars, deadline>>

(* Mutation: the context has no timeout.                                   *)
NoDeadline == FALSE /\ UNCHANGED vars

DeadlinePasses ==
    /\ main = "stopping" /\ ~deadline
    /\ deadline' = TRUE
    /\ UNCHANGED <<pendingVars, stopVars, arrived, mainVars, down>>

(* Mutation: the first result ends the loop.                               *)
CollectOne ==
    /\ main = "stopping" /\ \E s \in Services : down[s] = "done"
    /\ main' = "exited"
    /\ UNCHANGED <<pendingVars, stopVars, arrived, exitCode, down, deadline>>

(* The loop of shutdownServices has received all results, and the process  *)
(* exits ...                                                               *)
CollectAll ==
    /\ main = "stopping" /\ \A s \in Services : down[s] = "done"
    /\ main' = "exited"
    /\ UNCHANGED <<pendingVars, stopVars, arrived, exitCode, down, deadline>>

(* ... and at the deadline without waiting for the rest.                   *)
GiveUp ==
    /\ main = "stopping" /\ deadline
    /\ main' = "exited" /\ exitCode' = 1
    /\ UNCHANGED <<pendingVars, stopVars, arrived, down, deadline>>

ServiceStep == \E s \in Services :
    ListenFails(s) \/ CloseListener(s) \/ ShutdownReturns(s)
MainStep == StopOnSignal \/ StopOnFailure \/ GiveUp \/ CollectAll
CallStep == \E r \in Requests : Arrive(r) \/ Handle(r)

Next == ServiceStep \/ MainStep \/ CallStep \/ Answered \/ Signal \/ DeadlinePasses

Spec == Init /\ [][Next]_vars

(* Goroutines run and time passes.  Requests of the device service may be  *)
(* in flight for ever, and nobody need answer or signal.                   *)
FairSpec ==
    /\ Spec
    /\ WF_vars(MainStep) /\ WF_vars(DeadlinePasses)
    /\ \A s \in Services : WF_vars(CloseListener(s))
    /\ \A r \in Requests : WF_vars(Handle(r))

-----------------------------------------------------------------------------
(* Properties.                                                             *)

(* The process exits before its deadline, or with code 0, only when every  *)
(* request for an answer it had accepted has returned, and with code 0     *)
(* only if it was told to stop (runServices, shutdownServices).            *)
ExitAnswersEverybody ==
    main = "exited" /\ (exitCode = 0 \/ ~deadline) =>
        /\ Unanswered = {}
        /\ exitCode = 0 => signalled

(* Once a signal has come or a listener has failed the process ends, even  *)
(* if a request never does (the deadline of shutdownServices).             *)
StopEnds == signalled \/ failed # {} ~> ~Alive

(* Every accepted request for a confirmation or an input returns, answered *)
(* or not and also when its key is shared, unless the process ends first:  *)
(* each has a timer of its own.                                            *)
EveryRequestReturns ==
    \A r \in Requests : r \in arrived ~> stage[r] \in Returned \/ ~Alive
=============================================================================
