-------------------------- MODULE Supervisor_proofs --------------------------
(***************************************************************************)
(* What holds of requests that wait for a person, for any number of them   *)
(* and of keys, keys shared or not; that the process which runs them       *)
(* implements PendingAnswers, so that it holds there too; and with what    *)
(* exit code that process ends.                                            *)
(*                                                                         *)
(* For the verdict one has to follow an answer: an entry is taken once, by *)
(* one resolver, which holds the only answer (HandIsFirst) until it finds  *)
(* the timer either running, and stops it, or received.                    *)
(***************************************************************************)
EXTENDS Supervisor, TLAPS

(* Where a caller is tells the state of its timer; an answer has stopped   *)
(* it.                                                                     *)
TimerFollowsStage ==
    \A r \in Requests :
        /\ stage[r] = "idle" <=> timer[r] = "off"
        /\ stage[r] \in {"sending", "waiting"} => timer[r] \in {"armed", "stopped"}
        /\ stage[r] = "answered" => timer[r] = "stopped"
        /\ stage[r] \in {"expired", "timedOut"} => timer[r] = "received"
        /\ ch[r] # {} => timer[r] = "stopped"

IdleIsUnknown ==
    \A r \in Requests :
        /\ stage[r] = "idle" => first[r] = {} /\ hand[r] = {}
        /\ stage[r] = "idle" <=> keyOf[r] = {}

FirstIsOne == \A r \in Requests : first[r] = {} \/ \E a \in Answers : first[r] = {a}

HandIsFirst ==
    \A r \in Requests : hand[r] # {} =>
        /\ hand[r] = first[r] /\ r \notin entries
        /\ timer[r] # "stopped" /\ ch[r] = {}

(* The inductive invariant of the requests.                                *)
PInv ==
    /\ TypeOK /\ TimerFollowsStage /\ IdleIsUnknown /\ FirstIsOne /\ HandIsFirst
    /\ VerdictIsFirstAnswer /\ NoStaleEntry

(* Before any request the invariant holds, and none is unanswerable.       *)
THEOREM PendingInitInvariant == PendingInit => PInv /\ OpenIsAnswerable
BY DEF PendingInit, PInv, TypeOK, Stages, Timers, TimerFollowsStage, IdleIsUnknown,
       FirstIsOne, HandIsFirst, VerdictIsFirstAnswer, NoStaleEntry, OpenIsAnswerable

(* A new request has no answer, and replaces entries of its key only.      *)
LEMMA RequestInvariant ==
    ASSUME PInv, NEW r \in Requests, NEW k \in Keys, Request(r, k)
    PROVE  PInv'
<1> USE DEF PInv, Request, answerVars
<1>1. TypeOK' BY DEF TypeOK, Stages, Timers, Without
<1>2. TimerFollowsStage' BY DEF TypeOK, TimerFollowsStage
<1>3. IdleIsUnknown' BY DEF TypeOK, IdleIsUnknown
<1>4. FirstIsOne' BY DEF FirstIsOne
<1>5. HandIsFirst' BY DEF TypeOK, HandIsFirst, IdleIsUnknown, Without
<1>6. VerdictIsFirstAnswer' BY DEF TypeOK, VerdictIsFirstAnswer, TimerFollowsStage
<1>7. NoStaleEntry'
  BY DEF TypeOK, NoStaleEntry, InFlight, Returned, IdleIsUnknown, Without
<1> QED BY <1>1, <1>2, <1>3, <1>4, <1>5, <1>6, <1>7

(* An answer takes an entry that had none.                                 *)
LEMMA ResolveInvariant ==
    ASSUME PInv, NEW k \in Keys, NEW a \in Answers, Resolve(k, a)
    PROVE  PInv'
<1> USE DEF PInv
<1>1. PICK r \in entries :
        /\ keyOf[r] = {k}
        /\ entries' = Without({k})
        /\ hand' = [hand EXCEPT ![r] = @ \cup {a}]
        /\ first' = IF first[r] = {} THEN [first EXCEPT ![r] = {a}] ELSE first
        /\ UNCHANGED <<stage, keyOf, timer, ch, verdict>>
  BY DEF Resolve
<1>2. r \in Requests /\ first[r] = {} /\ hand[r] = {} /\ InFlight(r)
  BY <1>1 DEF TypeOK, NoStaleEntry, HandIsFirst
<1>3. ch[r] = {} /\ timer[r] # "stopped" /\ stage[r] # "idle" /\ stage[r] # "answered"
  BY <1>2 DEF VerdictIsFirstAnswer, InFlight, Returned
<1>4. first' = [first EXCEPT ![r] = {a}] /\ hand' = [hand EXCEPT ![r] = {a}]
  BY <1>1, <1>2
<1>5. r \notin entries' BY <1>1 DEF Without
<1>6. TypeOK' BY <1>1, <1>2, <1>4 DEF TypeOK, Without
<1>7. TimerFollowsStage' BY <1>1 DEF TimerFollowsStage
<1>8. IdleIsUnknown' BY <1>1, <1>2, <1>3, <1>4 DEF TypeOK, IdleIsUnknown
<1>9. FirstIsOne' BY <1>2, <1>4 DEF TypeOK, FirstIsOne
<1>10. HandIsFirst'
  BY <1>1, <1>2, <1>3, <1>4, <1>5 DEF TypeOK, HandIsFirst, Without
<1>11. VerdictIsFirstAnswer' BY <1>1, <1>2, <1>3, <1>4 DEF TypeOK, VerdictIsFirstAnswer
<1>12. NoStaleEntry'
  BY <1>1, <1>2, <1>4, <1>5 DEF TypeOK, NoStaleEntry, InFlight, Without
<1> QED BY <1>6, <1>7, <1>8, <1>9, <1>10, <1>11, <1>12

(* The resolver of an entry passes on the first answer, or nothing.        *)
LEMMA DeliverInvariant ==
    ASSUME PInv, NEW r \in Requests, Deliver(r)
    PROVE  PInv'
<1> USE DEF PInv
<1>1. PICK a \in hand[r] :
        /\ hand' = [hand EXCEPT ![r] = @ \ {a}]
        /\ IF timer[r] = "armed"
              THEN /\ timer' = [timer EXCEPT ![r] = "stopped"]
                   /\ ch' = [ch EXCEPT ![r] = @ \cup {a}]
              ELSE UNCHANGED <<timer, ch>>
        /\ UNCHANGED <<stage, keyOf, entries, verdict, first>>
  BY DEF Deliver
<1>2. a \in Answers /\ first[r] = {a} /\ hand[r] = {a} /\ ch[r] = {}
  BY <1>1 DEF TypeOK, HandIsFirst, FirstIsOne
<1>3. hand' = [hand EXCEPT ![r] = {}] BY <1>1, <1>2
<1>4. r \notin entries /\ timer[r] # "stopped" BY <1>2 DEF HandIsFirst
<1>5. stage[r] # "idle" BY <1>2 DEF IdleIsUnknown
<1>6. timer[r] = "armed" =>
        /\ stage[r] \in {"sending", "waiting"}
        /\ timer' = [timer EXCEPT ![r] = "stopped"] /\ ch' = [ch EXCEPT ![r] = {a}]
  BY <1>1, <1>2 DEF TypeOK, Stages, TimerFollowsStage
<1>7. timer[r] # "armed" => UNCHANGED <<timer, ch>> BY <1>1
<1>8. TypeOK' BY <1>1, <1>2, <1>3, <1>6, <1>7 DEF TypeOK, Timers
<1>9. TimerFollowsStage' BY <1>1, <1>6, <1>7 DEF TypeOK, TimerFollowsStage
<1>10. IdleIsUnknown' BY <1>1, <1>3 DEF TypeOK, IdleIsUnknown
<1>11. FirstIsOne' BY <1>1 DEF FirstIsOne
<1>12. HandIsFirst' BY <1>1, <1>3, <1>6, <1>7 DEF TypeOK, HandIsFirst
<1>13. VerdictIsFirstAnswer'
  BY <1>1, <1>2, <1>6, <1>7 DEF TypeOK, VerdictIsFirstAnswer
<1>14. NoStaleEntry' BY <1>1 DEF NoStaleEntry, InFlight
<1> QED BY <1>8, <1>9, <1>10, <1>11, <1>12, <1>13, <1>14

(* The select of the caller takes the answer of its resolver or the tick,  *)
(* which no resolver can stop any more.                                    *)
LEMMA WaitInvariant ==
    ASSUME PInv, NEW r \in Requests, WaitStep(r)
    PROVE  PInv'
<1> USE DEF PInv, answerVars
<1>1. CASE StartWait(r)
  <2> USE <1>1 DEF StartWait
  <2>1. TypeOK' /\ TimerFollowsStage' /\ IdleIsUnknown' /\ FirstIsOne' /\ HandIsFirst'
    BY DEF TypeOK, Stages, TimerFollowsStage, IdleIsUnknown, FirstIsOne, HandIsFirst
  <2>2. VerdictIsFirstAnswer' BY DEF TypeOK, VerdictIsFirstAnswer
  <2>3. NoStaleEntry' BY DEF TypeOK, NoStaleEntry, InFlight, Returned
  <2> QED BY <2>1, <2>2, <2>3
<1>2. CASE Receive(r)
  <2> USE <1>2 DEF Receive
  <2>1. timer[r] = "stopped" /\ first[r] = ch[r] /\ hand[r] = {} /\ r \notin entries
    BY DEF TypeOK, TimerFollowsStage, HandIsFirst, VerdictIsFirstAnswer, NoStaleEntry
  <2>2. TypeOK' BY DEF TypeOK, Stages
  <2>3. TimerFollowsStage' BY <2>1 DEF TypeOK, TimerFollowsStage
  <2>4. IdleIsUnknown' /\ FirstIsOne' BY DEF TypeOK, IdleIsUnknown, FirstIsOne
  <2>5. HandIsFirst' BY <2>1 DEF TypeOK, HandIsFirst
  <2>6. VerdictIsFirstAnswer' BY <2>1 DEF TypeOK, VerdictIsFirstAnswer
  <2>7. NoStaleEntry' BY <2>1 DEF TypeOK, NoStaleEntry, InFlight, Returned
  <2> QED BY <2>2, <2>3, <2>4, <2>5, <2>6, <2>7
<1>3. CASE Expire(r)
  <2> USE <1>3 DEF Expire
  <2>1. ch[r] = {}
    BY DEF TypeOK, VerdictIsFirstAnswer, TimerFollowsStage
  <2>2. TypeOK' BY DEF TypeOK, Stages, Timers
  <2>3. TimerFollowsStage' BY DEF TypeOK, TimerFollowsStage
  <2>4. IdleIsUnknown' /\ FirstIsOne' BY DEF TypeOK, IdleIsUnknown, FirstIsOne
  <2>5. HandIsFirst' BY DEF TypeOK, HandIsFirst
  <2>6. VerdictIsFirstAnswer' BY <2>1 DEF TypeOK, VerdictIsFirstAnswer
  <2>7. NoStaleEntry' BY DEF TypeOK, NoStaleEntry, InFlight, Returned
  <2> QED BY <2>2, <2>3, <2>4, <2>5, <2>6, <2>7
<1>4. CASE Forget(r)
  <2> USE <1>4 DEF Forget
  <2>1. TypeOK' BY DEF TypeOK, Stages, Without
  <2>2. TimerFollowsStage' BY DEF TypeOK, TimerFollowsStage
  <2>3. IdleIsUnknown' /\ FirstIsOne' BY DEF TypeOK, IdleIsUnknown, FirstIsOne
  <2>4. HandIsFirst' BY DEF TypeOK, HandIsFirst, Without
  <2>5. VerdictIsFirstAnswer' BY DEF TypeOK, VerdictIsFirstAnswer
  <2>6. NoStaleEntry' BY DEF TypeOK, NoStaleEntry, InFlight, Returned, Without
  <2> QED BY <2>1, <2>2, <2>3, <2>4, <2>5, <2>6
<1> QED BY <1>1, <1>2, <1>3, <1>4 DEF WaitStep

(* Every step preserves the invariant, stuttering included.                *)
LEMMA PendingStepInvariant == PInv /\ [PendingNext]_pendingVars => PInv'
<1> SUFFICES ASSUME PInv, [PendingNext]_pendingVars PROVE PInv' OBVIOUS
<1>1. CASE UNCHANGED pendingVars
  BY <1>1 DEF pendingVars, answerVars, PInv, TypeOK, TimerFollowsStage, IdleIsUnknown,
              FirstIsOne, HandIsFirst, VerdictIsFirstAnswer, NoStaleEntry, InFlight
<1>2. ASSUME NEW r \in Requests, Ask(r) PROVE PInv'
  BY <1>2, RequestInvariant DEF Ask, RequestConfirmation, RequestInput, Keys
<1> QED BY <1>1, <1>2, ResolveInvariant, DeliverInvariant, WaitInvariant
        DEF PendingNext, Reply

(* A request loses its entry to a resolver, to its own timeout or to a     *)
(* request with the same key.                                              *)
LEMMA AnswerableStep ==
    PInv /\ OpenIsAnswerable /\ [PendingNext]_pendingVars => OpenIsAnswerable'
<1> SUFFICES ASSUME PInv, OpenIsAnswerable, [PendingNext]_pendingVars,
                    NEW q \in Requests, stage'[q] \in {"sending", "waiting"},
                    timer'[q] = "armed", ~SharesKey(q)'
             PROVE  q \in entries' \/ hand'[q] # {}
  BY DEF OpenIsAnswerable
<1> USE DEF PInv, answerVars
<1>1. CASE UNCHANGED pendingVars
  BY <1>1 DEF pendingVars, OpenIsAnswerable, SharesKey
<1>2. ASSUME NEW r \in Requests, NEW k \in Keys, Request(r, k)
      PROVE  q \in entries' \/ hand'[q] # {}
  <2> USE <1>2 DEF Request
  <2>1. CASE q = r BY <2>1
  <2>2. CASE q # r
    <3>1. keyOf[q] # {k} /\ stage[q] \in {"sending", "waiting"} /\ timer[q] = "armed"
      BY <2>2 DEF TypeOK, SharesKey
    <3>2. ~SharesKey(q)
      BY <2>2, <3>1 DEF TypeOK, SharesKey, IdleIsUnknown
    <3> QED BY <3>1, <3>2 DEF OpenIsAnswerable, Without
  <2> QED BY <2>1, <2>2
<1>3. ASSUME NEW k \in Keys, NEW a \in Answers, Resolve(k, a)
      PROVE  q \in entries' \/ hand'[q] # {}
  BY <1>3 DEF Resolve, TypeOK, OpenIsAnswerable, SharesKey, Without
<1>4. ASSUME NEW r \in Requests, Deliver(r) PROVE q \in entries' \/ hand'[q] # {}
  BY <1>4 DEF Deliver, TypeOK, OpenIsAnswerable, SharesKey
<1>5. ASSUME NEW r \in Requests, WaitStep(r) PROVE q \in entries' \/ hand'[q] # {}
  BY <1>5 DEF WaitStep, StartWait, Receive, Expire, Forget, TypeOK, OpenIsAnswerable,
              SharesKey, Without
<1>6. ASSUME NEW r \in Requests, Ask(r) PROVE q \in entries' \/ hand'[q] # {}
  BY <1>2, <1>6 DEF Ask, RequestConfirmation, RequestInput, Keys
<1> QED BY <1>1, <1>3, <1>4, <1>5, <1>6 DEF PendingNext, Reply

(* A caller is told what the first client to answer it said, whatever      *)
(* races with its timeout and whatever keys the backend chooses.           *)
THEOREM PendingVerdictIsFirstAnswer == PendingSpec => []VerdictIsFirstAnswer
<1>1. PInv => VerdictIsFirstAnswer BY DEF PInv
<1> QED BY <1>1, PendingInitInvariant, PendingStepInvariant, PTL DEF PendingSpec

(* The requests and what they wait on keep their types.                    *)
THEOREM PendingTypeOK == PendingSpec => []TypeOK
<1>1. PInv => TypeOK BY DEF PInv
<1> QED BY <1>1, PendingInitInvariant, PendingStepInvariant, PTL DEF PendingSpec

(* No entry outlives its request.                                          *)
THEOREM PendingNoStaleEntry == PendingSpec => []NoStaleEntry
<1>1. PInv => NoStaleEntry BY DEF PInv
<1> QED BY <1>1, PendingInitInvariant, PendingStepInvariant, PTL DEF PendingSpec

(* A request whose key nobody else used can be answered while it waits.    *)
THEOREM PendingOpenIsAnswerable == PendingSpec => []OpenIsAnswerable
BY PendingInitInvariant, PendingStepInvariant, AnswerableStep, PTL DEF PendingSpec

-----------------------------------------------------------------------------

(* Every step of the process is one of a request, or leaves them alone.    *)
LEMMA SupervisorStep == [Next]_vars => [PendingNext]_pendingVars
BY DEF Next, vars, ServiceStep, MainStep, CallStep, ListenFails, CloseListener,
       ShutdownReturns, StopOnSignal, StopOnFailure, GiveUp, CollectAll, Arrive, Handle,
       Answered, Signal, DeadlinePasses, PendingNext

(* The process implements PendingAnswers, so the results above hold in it. *)
THEOREM SupervisorImplementsPending == Spec => PendingSpec
<1>1. Init => PendingInit BY DEF Init
<1> QED BY <1>1, SupervisorStep, PTL DEF Spec, PendingSpec

(* In the running process a caller is told what the first client said.     *)
THEOREM SupervisorVerdictIsFirstAnswer == Spec => []VerdictIsFirstAnswer
BY SupervisorImplementsPending, PendingVerdictIsFirstAnswer, PTL

-----------------------------------------------------------------------------

(* How the process stops.                                                  *)
StopTyped ==
    /\ main \in {"running", "stopping", "exited"} /\ exitCode \in {0, 1}
    /\ down \in [Services -> {"no", "closing", "done"}]
    /\ arrived \subseteq Requests /\ deadline \in BOOLEAN /\ signalled \in BOOLEAN

DrainedIsAnswered == down["agent"] = "done" => Unanswered = {}
ExitHasReason ==
    main = "exited" => (\A s \in Services : down[s] = "done") \/ (deadline /\ exitCode = 1)
ZeroIsSignalled == main # "running" /\ exitCode = 0 => signalled

SInv == PInv /\ StopTyped /\ DrainedIsAnswered /\ ExitHasReason /\ ZeroIsSignalled

(* A request that has returned does not wait again.                        *)
LEMMA ReturnedStays ==
    ASSUME PInv, [PendingNext]_pendingVars, NEW r \in Requests, stage[r] \in Returned
    PROVE  stage'[r] \in Returned
<1> USE DEF PInv, TypeOK, Returned
<1>1. CASE UNCHANGED pendingVars BY <1>1 DEF pendingVars
<1>2. CASE Reply BY <1>2 DEF Reply, Resolve
<1>3. ASSUME NEW q \in Requests, Ask(q) \/ WaitStep(q) \/ Deliver(q)
      PROVE  stage'[r] \in Returned
  BY <1>3 DEF Ask, RequestConfirmation, RequestInput, Request, WaitStep, StartWait,
              Receive, Expire, Forget, Deliver
<1> QED BY <1>1, <1>2, <1>3 DEF PendingNext

(* Every step of the process preserves its invariant.                      *)
LEMMA SupervisorStepInvariant == SInv /\ [Next]_vars => SInv'
<1> SUFFICES ASSUME SInv, [Next]_vars PROVE SInv' OBVIOUS
<1> USE DEF SInv
<1>1. PInv' BY SupervisorStep, PendingStepInvariant
<1> USE DEF Next, vars, stopVars, mainVars, ServiceStep, MainStep, CallStep, ListenFails,
            CloseListener, ShutdownReturns, StopOnSignal, StopOnFailure, GiveUp,
            CollectAll, Arrive, Handle, Answered, Signal, DeadlinePasses, Services, Alive
<1>2. StopTyped'
  <2> USE DEF StopTyped
  <2>1. main' \in {"running", "stopping", "exited"} /\ exitCode' \in {0, 1} OBVIOUS
  <2>2. down' \in [Services -> {"no", "closing", "done"}] OBVIOUS
  <2>3. arrived' \subseteq Requests OBVIOUS
  <2>4. deadline' \in BOOLEAN /\ signalled' \in BOOLEAN OBVIOUS
  <2> QED BY <2>1, <2>2, <2>3, <2>4
<1>3. DrainedIsAnswered'
  <2> SUFFICES ASSUME down'["agent"] = "done" PROVE Unanswered' = {}
    BY DEF DrainedIsAnswered
  <2>1. Unanswered = {} /\ arrived' = arrived
    BY DEF StopTyped, DrainedIsAnswered
  <2>2. \A r \in arrived : stage'[r] \in Returned
    BY <2>1, SupervisorStep, ReturnedStays DEF Unanswered, StopTyped
  <2> QED BY <2>1, <2>2 DEF Unanswered
<1>4. ExitHasReason' BY DEF StopTyped, ExitHasReason
<1>5. ZeroIsSignalled' BY DEF StopTyped, ZeroIsSignalled
<1> QED BY <1>1, <1>2, <1>3, <1>4, <1>5

(* The process exits before its deadline, or with code 0, only with every  *)
(* accepted request answered, and with code 0 only when told to stop.      *)
THEOREM SupervisorExitAnswersEverybody == Spec => []ExitAnswersEverybody
<1>1. Init => SInv
  BY PendingInitInvariant DEF Init, SInv, StopTyped, DrainedIsAnswered, ExitHasReason,
                              ZeroIsSignalled, Services
<1>2. SInv => ExitAnswersEverybody
  BY DEF SInv, StopTyped, DrainedIsAnswered, ExitHasReason, ZeroIsSignalled, Services,
         ExitAnswersEverybody
<1> QED BY <1>1, <1>2, SupervisorStepInvariant, PTL DEF Spec
=============================================================================
