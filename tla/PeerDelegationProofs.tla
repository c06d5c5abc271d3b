------------------------ MODULE PeerDelegationProofs ------------------------
(***************************************************************************)
(* Theorems about PeerDelegation, for every value of its constants: first  *)
(* about timers, claims and what wakes a task, then about its turns.       *)
(***************************************************************************)
EXTENDS PeerDelegation, FiniteSetTheorems, TLAPS

\* The calls of a turn are finitely many, so they can be counted.
LEMMA CallsAreFinite ==
    \A calls \in SUBSET Call : Cardinality(calls) \in Nat
  BY CallAssumption, FS_Subset, FS_CardinalityType

\* A new run is recorded with a program counter and a cause of its type.
LEMMA StartedType ==
    ASSUME TypeOK, NEW j \in Invocation, NEW pc \in RunPC,
           NEW cause \in Invocation \cup {NoCause}
    PROVE  Started(j, pc, cause) \in
               [Invocation -> [pc : RunPC, cause : Invocation \cup {NoCause}]]
  BY DEF TypeOK, Started

\* Recording results keeps the counters of the invocation well typed.
LEMMA StoreType ==
    ASSUME TypeOK, NEW i \in Invocation, NEW calls \in SUBSET Call,
           NEW kind \in Kind, Store(i, calls, kind)
    PROVE  /\ results' \in [Invocation -> SUBSET (Call \X Kind)]
           /\ completed' \in [Invocation -> Nat]
  <1>1. Cardinality(calls) \in Nat
    BY CallsAreFinite
  <1>2. completed' \in [Invocation -> Nat]
    BY <1>1 DEF TypeOK, Store
  <1>3. results' \in [Invocation -> SUBSET (Call \X Kind)]
    BY DEF TypeOK, Store
  <1> QED
    BY <1>2, <1>3

\* ... and so does the retrigger that may follow.
LEMMA RecordResultType ==
    ASSUME TypeOK, NEW s \in SubTask, NEW kind \in Kind, RecordResult(s, kind)
    PROVE  /\ results' \in [Invocation -> SUBSET (Call \X Kind)]
           /\ completed' \in [Invocation -> Nat]
           /\ run' \in [Invocation -> [pc : RunPC, cause : Invocation \cup {NoCause}]]
           /\ paused' \in BOOLEAN
  <1>1. s[1] \in Invocation /\ {s[2]} \in SUBSET Call
    BY DEF SubTask
  <1>2. CASE s[1] \notin tracked
    BY <1>2 DEF RecordResult, TypeOK
  <1>3. CASE s[1] \in tracked
    <2>1. Store(s[1], {s[2]}, kind)
      BY <1>3 DEF RecordResult
    <2>2. CASE AllCallsComplete(s[1])
      <3>1. PICK j \in Invocation : run' = Started(j, "getSession", s[1])
        BY <1>3, <2>2 DEF RecordResult, Retrigger
      <3>2. "getSession" \in RunPC
        BY DEF RunPC
      <3>3. run' \in [Invocation -> [pc : RunPC, cause : Invocation \cup {NoCause}]]
        BY <1>1, <3>1, <3>2, StartedType
      <3> QED
        BY <1>1, <1>3, <2>1, <2>2, <3>3, StoreType DEF RecordResult, Retrigger
    <2>3. CASE ~AllCallsComplete(s[1])
      BY <1>1, <1>3, <2>1, <2>3, StoreType DEF RecordResult, TypeOK
    <2> QED
      BY <2>2, <2>3
  <1> QED
    BY <1>2, <1>3

-----------------------------------------------------------------------------
(* Type correctness.                                                       *)

\* The types hold before the request.
LEMMA InitType == Init => TypeOK
  <1> SUFFICES ASSUME Init PROVE TypeOK
    OBVIOUS
  <1>1. /\ total \in [Invocation -> Nat]
        /\ completed \in [Invocation -> Nat]
        /\ results \in [Invocation -> SUBSET (Call \X Kind)]
    BY DEF Init
  <1>2. run \in [Invocation -> [pc : RunPC, cause : Invocation \cup {NoCause}]]
    BY DEF Init, RunPC
  <1>3. fin \in [Finalizer -> [pc : FinPC, outcome : Outcome]]
    BY DEF Init, FinPC, Outcome
  <1> QED
    BY <1>1, <1>2, <1>3 DEF Init, TypeOK

\* Steps of an ADK run, from the request to the end of the run.
LEMMA RunStepType ==
    ASSUME TypeOK, NEW i \in Invocation, ReceiveRequest(i) \/ RunStep(i)
    PROVE  TypeOK'
  <1> USE DEF RunPC, FinPC, Outcome, Finalizer
  <1>1. CASE ReceiveRequest(i)
    <2>1. run' \in [Invocation -> [pc : RunPC, cause : Invocation \cup {NoCause}]]
      BY <1>1, StartedType DEF ReceiveRequest
    <2> QED
      BY <1>1, <2>1 DEF ReceiveRequest, TypeOK, counters, timers, mesh
  <1>2. CASE PrepareRequest(i)
    BY <1>2 DEF PrepareRequest, TypeOK, context, counters, timers, mesh
  <1>3. CASE RejectRequest(i)
    BY <1>3 DEF RejectRequest, TypeOK, context, counters, timers, mesh
  <1>4. ASSUME NEW called \in SUBSET Call, CallPeers(i, called)
        PROVE  TypeOK'
    <2>1. Cardinality(called) \in Nat
      BY CallsAreFinite
    <2>2. /\ tracked' \subseteq Invocation
          /\ total' \in [Invocation -> Nat]
      <3>1. CASE active
        BY <1>4, <2>1, <3>1 DEF CallPeers, Preregister, TypeOK
      <3>2. CASE ~active
        BY <1>4, <3>2 DEF CallPeers, TypeOK
      <3> QED
        BY <3>1, <3>2
    <2>3. tool' \in [SubTask -> {"idle", "called", "sent", "failed"}]
      BY <1>4 DEF CallPeers, TypeOK
    <2>4. run' \in [Invocation -> [pc : RunPC, cause : Invocation \cup {NoCause}]]
      BY <1>4 DEF CallPeers, TypeOK
    <2> QED
      BY <1>4, <2>2, <2>3, <2>4 DEF CallPeers, TypeOK, context, timers, mesh
  <1>5. CASE PauseRun(i)
    <2>1. /\ results' \in [Invocation -> SUBSET (Call \X Kind)]
          /\ completed' \in [Invocation -> Nat]
      <3>1. CASE lastInvocation \in tracked
        <4>1. lastInvocation \in Invocation /\ Calls(i, "failed") \in SUBSET Call
          BY <3>1 DEF TypeOK, Calls
        <4> QED
          BY <1>5, <3>1, <4>1, StoreType DEF PauseRun, Kind
      <3>2. CASE lastInvocation \notin tracked
        BY <1>5, <3>2 DEF PauseRun, TypeOK
      <3> QED
        BY <3>1, <3>2
    <2>2. run' \in [Invocation -> [pc : RunPC, cause : Invocation \cup {NoCause}]]
      BY <1>5 DEF PauseRun, RunLeaves, TypeOK
    <2>3. tracked' \subseteq Invocation
      BY <1>5 DEF PauseRun, RunLeaves, TypeOK
    <2> QED
      BY <1>5, <2>1, <2>2, <2>3 DEF PauseRun, TypeOK, timers, mesh
  <1>6. ASSUME NEW j \in Invocation, RerunAfterSyncResults(i, j)
        PROVE  TypeOK'
    <2>1. run[i].cause \in Invocation \cup {NoCause}
      BY DEF TypeOK
    <2>2. Started(j, "llm", run[i].cause) \in
              [Invocation -> [pc : RunPC, cause : Invocation \cup {NoCause}]]
      BY <2>1, StartedType
    <2>3. run' \in [Invocation -> [pc : RunPC, cause : Invocation \cup {NoCause}]]
      BY <1>6, <2>2 DEF RerunAfterSyncResults
    <2> QED
      BY <1>6, <2>3 DEF RerunAfterSyncResults, TypeOK, context, counters, timers, mesh
  <1>7. CASE AnswerUser(i)
    BY <1>7 DEF AnswerUser, RunLeaves, Schedule, TypeOK, context, timers, mesh
  <1>8. ASSUME NEW outcome \in {"limit", "error"}, RunRaises(i, outcome)
        PROVE  TypeOK'
    BY <1>8 DEF RunRaises, RunLeaves, Schedule, TypeOK, context, timers, mesh
  <1>9. CASE CancelRun(i)
    <2>1. run' \in [Invocation -> [pc : RunPC, cause : Invocation \cup {NoCause}]]
      BY <1>9 DEF CancelRun, RunLeaves, TypeOK
    <2>2. fin' \in [Finalizer -> [pc : FinPC, outcome : Outcome]]
      BY <1>9 DEF CancelRun, Schedule, TypeOK
    <2>3. tracked' \subseteq Invocation /\ cancelsSent' \subseteq SubTask \X CancelId
      BY <1>9 DEF CancelRun, RunLeaves, TypeOK, CancelId
    <2> QED
      BY <1>9, <2>1, <2>2, <2>3 DEF CancelRun, TypeOK, context, timers
  <1>10. CASE ResumeRun(i)
    <2>1. /\ run' = [run EXCEPT ![i].pc = "llm"] \/ run' = [run EXCEPT ![i].pc = "done"]
          /\ tracked' \subseteq tracked
      BY <1>10 DEF ResumeRun, RunLeaves
    <2>2. run' \in [Invocation -> [pc : RunPC, cause : Invocation \cup {NoCause}]]
      <3>1. run \in [Invocation -> [pc : RunPC, cause : Invocation \cup {NoCause}]]
        BY DEF TypeOK
      <3> QED
        BY <2>1, <3>1
    <2> QED
      BY <1>10, <2>1, <2>2 DEF ResumeRun, TypeOK, context, timers, mesh
  <1>11. CASE ResumeFails(i)
    <2>1. run' \in [Invocation -> [pc : RunPC, cause : Invocation \cup {NoCause}]]
      <3>1. run \in [Invocation -> [pc : RunPC, cause : Invocation \cup {NoCause}]] /\ run' = [run EXCEPT ![i].pc = "done"]
        BY <1>11 DEF ResumeFails, TypeOK
      <3> QED
        BY <3>1
    <2>2. fin' \in [Finalizer -> [pc : FinPC, outcome : Outcome]]
      BY <1>11 DEF ResumeFails, Schedule, TypeOK
    <2> QED
      BY <1>11, <2>1, <2>2 DEF ResumeFails, TypeOK, context, counters, timers, mesh
  <1> QED
    BY <1>1, <1>2, <1>3, <1>4, <1>5, <1>6, <1>7, <1>8, <1>9, <1>10, <1>11 DEF RunStep

\* Steps about one sub-task: its submission, its answers and its timeout.
SubTaskStep(s) ==
    \/ ToolStep(s)
    \/ ReceiveStatus(s) \/ ReceiveFinal(s)
    \/ ResponseStep(s)
    \/ ExpireTimer(s) \/ TimeoutStep(s)
    \/ DeliverCancel(s)

\* The steps of one call keep the types.
LEMMA SubTaskStepType ==
    ASSUME TypeOK, NEW s \in SubTask, SubTaskStep(s)
    PROVE  TypeOK'
  <1>1. CASE SubmitCall(s)
    BY <1>1 DEF SubmitCall, RegisterSubTask, TypeOK, counters
  <1>2. CASE FailCallEarly(s)
    BY <1>2 DEF FailCallEarly, TypeOK, context, counters, timers, mesh
  <1>3. CASE FailCallLate(s)
    BY <1>3 DEF FailCallLate, RegisterSubTask, TypeOK, counters, mesh
  <1>4. CASE ReceiveStatus(s)
    BY <1>4 DEF ReceiveStatus, TypeOK, counters, mesh
  <1>5. CASE ReceiveFinal(s)
    BY <1>5 DEF ReceiveFinal, Claim, TypeOK, counters
  <1>6. CASE LookUpContext(s)
    BY <1>6 DEF LookUpContext, TypeOK, context, counters, timers, mesh
  <1>7. CASE RecordResponse(s)
    <2>1. RecordResult(s, "response") /\ "response" \in Kind
      BY <1>7 DEF RecordResponse, Kind
    <2> QED
      BY <1>7, <2>1, RecordResultType DEF RecordResponse, TypeOK, timers, mesh
  <1>8. CASE ExpireTimer(s)
    BY <1>8 DEF ExpireTimer, TypeOK, context, counters, mesh
  <1>9. CASE HandleTimeout(s)
    <2>1. RecordResult(s, "timeout") /\ "timeout" \in Kind
      BY <1>9 DEF HandleTimeout, Kind
    <2>2. cancelsSent' \subseteq SubTask \X CancelId
      BY <1>9 DEF HandleTimeout, TypeOK, CancelId
    <2> QED
      BY <1>9, <2>1, <2>2, RecordResultType DEF HandleTimeout, Claim, TypeOK
  <1>10. CASE IgnoreTimeout(s)
    BY <1>10 DEF IgnoreTimeout, TypeOK, context, counters, mesh
  <1>11. CASE DeliverCancel(s)
    BY <1>11 DEF DeliverCancel, TypeOK, context, counters, timers
  <1> QED
    BY <1>1, <1>2, <1>3, <1>4, <1>5, <1>6, <1>7, <1>8, <1>9, <1>10, <1>11
       DEF SubTaskStep, ToolStep, ResponseStep, TimeoutStep

\* Cancellation requests, and finalizations.
LEMMA CancelType ==
    ASSUME TypeOK, NEW q \in CancelRequest, ReceiveCancel(q)
    PROVE  TypeOK'
  <1>1. cancelsSent' \subseteq SubTask \X CancelId
    BY DEF ReceiveCancel, TypeOK, CancelId
  <1>2. fin' \in [Finalizer -> [pc : FinPC, outcome : Outcome]]
    BY DEF ReceiveCancel, Schedule, TypeOK, Finalizer, FinPC, Outcome
  <1> QED
    BY <1>1, <1>2 DEF ReceiveCancel, TypeOK, counters, timers

\* So do those of a finalization.
LEMMA FinalizerStepType ==
    ASSUME TypeOK, NEW f \in Finalizer, FinalizerStep(f)
    PROVE  TypeOK'
  <1> USE DEF TypeOK, FinPC, Outcome, counters, timers, mesh
  <1>1. CASE StartFinalization(f)
    <2>1. fin' \in [Finalizer -> [pc : FinPC, outcome : Outcome]]
      <3>1. \/ fin' = [fin EXCEPT ![f].pc = "deleting"]
            \/ fin' = [fin EXCEPT ![f].pc = "done"]
            \/ fin' = [fin EXCEPT ![f].pc = "awaiting"]
        BY <1>1 DEF StartFinalization, Published
      <3> QED
        BY <3>1
    <2>2. active' \in BOOLEAN
      BY <1>1 DEF StartFinalization, Published
    <2> QED
      BY <1>1, <2>1, <2>2 DEF StartFinalization
  <1>2. CASE PublishFinalResponse(f)
    <2>1. \/ fin' = [fin EXCEPT ![f].pc = "done"]
          \/ fin' = [fin EXCEPT ![f].pc = "deleting"]
      BY <1>2 DEF PublishFinalResponse, Published
    <2>2. active' = active \/ active' = FALSE
      BY <1>2 DEF PublishFinalResponse, Published
    <2> QED
      <3>1. fin' \in [Finalizer -> [pc : FinPC, outcome : Outcome]]
        BY <2>1
      <3>2. active' \in BOOLEAN
        BY <2>2
      <3> QED
        BY <1>2, <3>1, <3>2 DEF PublishFinalResponse
  <1>3. CASE RemoveContext(f)
    BY <1>3 DEF RemoveContext
  <1> QED
    BY <1>1, <1>2, <1>3 DEF FinalizerStep

\* Every step keeps the types.
LEMMA NextType == TypeOK /\ [Next]_vars => TypeOK'
  <1> SUFFICES ASSUME TypeOK, [Next]_vars
               PROVE  TypeOK'
    OBVIOUS
  <1>1. ASSUME NEW i \in Invocation, ReceiveRequest(i) \/ RunStep(i)
        PROVE  TypeOK'
    BY <1>1, RunStepType
  <1>2. ASSUME NEW s \in SubTask, SubTaskStep(s)
        PROVE  TypeOK'
    BY <1>2, SubTaskStepType
  <1>3. ASSUME NEW q \in CancelRequest, ReceiveCancel(q)
        PROVE  TypeOK'
    BY <1>3, CancelType
  <1>4. ASSUME NEW f \in Finalizer, FinalizerStep(f)
        PROVE  TypeOK'
    BY <1>4, FinalizerStepType
  <1>5. CASE UNCHANGED vars
    BY <1>5 DEF TypeOK, vars, context, counters, timers, mesh
  <1> QED
    BY <1>1, <1>2, <1>3, <1>4, <1>5 DEF Next, SubTaskStep, Terminated

\* The state of a task always has its type: in particular no counter of
\* parallel calls becomes negative and every finalization has an outcome.
THEOREM TypeCorrect == Spec => []TypeOK
  BY InitType, NextType, PTL DEF Spec

-----------------------------------------------------------------------------
(* A silent peer cannot hold the task.  Inductive: nothing is registered   *)
(* before the request, and while the context exists every registered       *)
(* sub-task has its timer or its timeout.                                  *)

NothingBeforeRequest == (\A i \in Invocation : run[i].pc = "unused") => subTasks = {}

TimerInv == TypeOK /\ TimerCoversSubTask /\ NothingBeforeRequest

\* A retrigger leaves no run where there was none before: recording a result
\* starts at most a fresh run and touches no other.
LEMMA RecordResultRuns ==
    ASSUME TypeOK, NEW s \in SubTask, NEW kind \in Kind, RecordResult(s, kind),
           NEW i \in Invocation
    PROVE  \/ run'[i] = run[i]
           \/ run[i].pc = "unused" /\ run'[i].pc = "getSession"
  <1>1. CASE run' = run
    BY <1>1
  <1>2. ASSUME NEW j \in Invocation, Fresh(j), run' = Started(j, "getSession", s[1])
        PROVE  \/ run'[i] = run[i]
               \/ run[i].pc = "unused" /\ run'[i].pc = "getSession"
    BY <1>2 DEF TypeOK, Started, Fresh
  <1> QED
    BY <1>1, <1>2 DEF RecordResult, Retrigger

\* A run registers nothing without a timer.
LEMMA RunStepKeepsTimers ==
    ASSUME TimerInv, TypeOK', NEW i \in Invocation, ReceiveRequest(i) \/ RunStep(i)
    PROVE  TimerCoversSubTask' /\ NothingBeforeRequest'
  <1> USE DEF TimerInv, TimerCoversSubTask, NothingBeforeRequest,
              context, counters, timers, mesh
  <1>1. CASE ReceiveRequest(i)
    BY <1>1 DEF ReceiveRequest
  <1>2. CASE PrepareRequest(i)
    BY <1>2 DEF PrepareRequest, TypeOK
  <1>3. CASE RejectRequest(i)
    BY <1>3 DEF RejectRequest, TypeOK
  <1>4. ASSUME NEW called \in SUBSET Call, CallPeers(i, called)
        PROVE  TimerCoversSubTask' /\ NothingBeforeRequest'
    BY <1>4 DEF CallPeers, TypeOK
  <1>5. CASE PauseRun(i)
    BY <1>5 DEF PauseRun, ToolsReturned, RunLeaves, TypeOK
  <1>6. ASSUME NEW j \in Invocation, RerunAfterSyncResults(i, j)
        PROVE  TimerCoversSubTask' /\ NothingBeforeRequest'
    BY <1>6 DEF RerunAfterSyncResults, Started, TypeOK
  <1>7. CASE AnswerUser(i)
    BY <1>7 DEF AnswerUser, RunLeaves, TypeOK
  <1>8. ASSUME NEW outcome \in {"limit", "error"}, RunRaises(i, outcome)
        PROVE  TimerCoversSubTask' /\ NothingBeforeRequest'
    BY <1>8 DEF RunRaises, RunLeaves, TypeOK
  <1>9. CASE CancelRun(i)
    BY <1>9 DEF CancelRun, RunLeaves, TypeOK
  <1>10. CASE ResumeRun(i)
    BY <1>10 DEF ResumeRun, RunLeaves, TypeOK
  <1>11. CASE ResumeFails(i)
    BY <1>11 DEF ResumeFails, TypeOK
  <1> QED
    BY <1>1, <1>2, <1>3, <1>4, <1>5, <1>6, <1>7, <1>8, <1>9, <1>10, <1>11 DEF RunStep

\* A call is registered with its timer, and leaves with it.
LEMMA SubTaskStepKeepsTimers ==
    ASSUME TimerInv, TypeOK', NEW s \in SubTask, SubTaskStep(s)
    PROVE  TimerCoversSubTask' /\ NothingBeforeRequest'
  <1> USE DEF TimerInv, TimerCoversSubTask, NothingBeforeRequest,
              context, counters, timers, mesh
  <1>0. s[1] \in Invocation
    BY DEF SubTask
  <1>1. CASE SubmitCall(s)
    BY <1>0, <1>1 DEF SubmitCall, RegisterSubTask, TypeOK
  <1>2. CASE FailCallEarly(s)
    BY <1>2 DEF FailCallEarly
  <1>3. CASE FailCallLate(s)
    BY <1>0, <1>3 DEF FailCallLate, RegisterSubTask, TypeOK
  <1>4. CASE ReceiveStatus(s)
    BY <1>4 DEF ReceiveStatus
  <1>5. CASE ReceiveFinal(s)
    BY <1>5 DEF ReceiveFinal, Claim
  <1>6. CASE LookUpContext(s)
    BY <1>6 DEF LookUpContext
  <1>7. CASE RecordResponse(s)
    <2>1. RecordResult(s, "response") /\ "response" \in Kind
      BY <1>7 DEF RecordResponse, Kind
    <2>2. NothingBeforeRequest'
      BY <1>7, <2>1, RecordResultRuns DEF RecordResponse
    <2> QED
      BY <1>7, <2>2 DEF RecordResponse
  <1>8. CASE ExpireTimer(s)
    BY <1>8 DEF ExpireTimer
  <1>9. CASE HandleTimeout(s)
    <2>1. RecordResult(s, "timeout") /\ "timeout" \in Kind
      BY <1>9 DEF HandleTimeout, Kind
    <2>2. NothingBeforeRequest'
      BY <1>9, <2>1, RecordResultRuns DEF HandleTimeout, Claim
    <2> QED
      BY <1>9, <2>2 DEF HandleTimeout, Claim
  <1>10. CASE IgnoreTimeout(s)
    BY <1>10 DEF IgnoreTimeout
  <1>11. CASE DeliverCancel(s)
    BY <1>11 DEF DeliverCancel
  <1> QED
    BY <1>1, <1>2, <1>3, <1>4, <1>5, <1>6, <1>7, <1>8, <1>9, <1>10, <1>11
       DEF SubTaskStep, ToolStep, ResponseStep, TimeoutStep

\* Every step keeps a timer or a timeout for every registered sub-task.
LEMMA TimerInvInductive == TimerInv /\ [Next]_vars => TimerInv'
  <1> SUFFICES ASSUME TimerInv, [Next]_vars
               PROVE  TimerInv'
    OBVIOUS
  <1>1. TypeOK'
    BY NextType DEF TimerInv
  <1> USE DEF TimerInv
  <1>2. ASSUME NEW i \in Invocation, ReceiveRequest(i) \/ RunStep(i)
        PROVE  TimerInv'
    BY <1>1, <1>2, RunStepKeepsTimers
  <1>3. ASSUME NEW s \in SubTask, SubTaskStep(s)
        PROVE  TimerInv'
    BY <1>1, <1>3, SubTaskStepKeepsTimers
  <1>4. ASSUME NEW q \in CancelRequest, ReceiveCancel(q)
        PROVE  TimerInv'
    BY <1>1, <1>4 DEF ReceiveCancel, TimerCoversSubTask, NothingBeforeRequest, timers
  <1>5. ASSUME NEW f \in Finalizer, FinalizerStep(f)
        PROVE  TimerInv'
    <2>1. /\ active' \in {active, FALSE}
          /\ UNCHANGED <<run, subTasks, armed, expired>>
      BY <1>5 DEF FinalizerStep, StartFinalization, PublishFinalResponse, RemoveContext,
                  Published, timers
    <2> QED
      BY <1>1, <2>1 DEF TypeOK, TimerCoversSubTask, NothingBeforeRequest
  <1>6. CASE UNCHANGED vars
    BY <1>1, <1>6 DEF vars, context, timers, TimerCoversSubTask, NothingBeforeRequest
  <1> QED
    BY <1>2, <1>3, <1>4, <1>5, <1>6 DEF Next, SubTaskStep, Terminated

\* No registered sub-task is left without a timer or a timeout on its way,
\* whatever fails and whenever the task is cancelled.
THEOREM TimersCover == Spec => []TimerCoversSubTask
  <1>1. Init => TimerInv
    BY InitType DEF Init, TimerInv, TimerCoversSubTask, NothingBeforeRequest
  <1>2. TimerInv => TimerCoversSubTask
    BY DEF TimerInv
  <1> QED
    BY <1>1, <1>2, TimerInvInductive, PTL DEF Spec

-----------------------------------------------------------------------------
(* One claim per sub-task.  Inductive: a run that has not reached its      *)
(* tools has called nobody; a sub-task that was not submitted is neither   *)
(* registered nor claimed; a registered one is unclaimed; and a recorded   *)
(* response or timeout shows what became of the claim.                     *)

BeforeTools == {"unused", "prepare", "getSession", "llm"}
IdleBeforeTools ==
    \A s \in SubTask : run[s[1]].pc \in BeforeTools => tool[s] = "idle"
UnsubmittedIsUnclaimed ==
    \A s \in SubTask : tool[s] \in {"idle", "called"}
                            => s \notin subTasks /\ claim[s] = "none"
RegisteredIsUnclaimed == \A s \in subTasks : claim[s] = "none"
ResultsShowClaim ==
    \A i \in Invocation, c \in Call :
        /\ <<c, "response">> \in results[i] => claim[<<i, c>>] = "recorded"
        /\ <<c, "timeout">> \in results[i] => claim[<<i, c>>] = "timedOut"

ClaimInv ==
    /\ TypeOK
    /\ IdleBeforeTools
    /\ UnsubmittedIsUnclaimed
    /\ RegisteredIsUnclaimed
    /\ ResultsShowClaim

\* A stored result is one of those that were given, under its invocation.
LEMMA StoreAddsOnly ==
    ASSUME TypeOK, NEW i \in Invocation, NEW calls \in SUBSET Call,
           NEW kind \in Kind, Store(i, calls, kind),
           NEW j \in Invocation, NEW c \in Call, NEW k \in Kind,
           <<c, k>> \in results'[j], <<c, k>> \notin results[j]
    PROVE  j = i /\ c \in calls /\ k = kind
  BY DEF Store, TypeOK

\* Recording a result adds that result and no other.
LEMMA RecordResultAddsOnly ==
    ASSUME TypeOK, NEW s \in SubTask, NEW kind \in Kind, RecordResult(s, kind),
           NEW j \in Invocation, NEW c \in Call, NEW k \in Kind,
           <<c, k>> \in results'[j], <<c, k>> \notin results[j]
    PROVE  <<j, c>> = s /\ k = kind
  <1>1. s[1] \in Invocation /\ {s[2]} \in SUBSET Call /\ s = <<s[1], s[2]>>
    BY DEF SubTask
  <1>2. Store(s[1], {s[2]}, kind)
    BY DEF RecordResult
  <1>3. j = s[1] /\ c \in {s[2]} /\ k = kind
    BY <1>1, <1>2, StoreAddsOnly
  <1> QED
    BY <1>1, <1>3

\* Steps of a run touch no claim: the sub-tasks they concern were never
\* submitted, and the only results they add are synchronous.
LEMMA RunStepKeepsClaims ==
    ASSUME ClaimInv, TypeOK', NEW i \in Invocation, ReceiveRequest(i) \/ RunStep(i)
    PROVE  ClaimInv'
  <1> USE DEF ClaimInv, BeforeTools
  <1>1. UNCHANGED <<subTasks, claim>>
    BY DEF ReceiveRequest, RunStep, PrepareRequest, RejectRequest, CallPeers, PauseRun,
           RerunAfterSyncResults, AnswerUser, RunRaises, CancelRun, ResumeRun,
           ResumeFails, context
  <1>2. IdleBeforeTools' /\ UnsubmittedIsUnclaimed'
    <2>1. CASE \E called \in SUBSET Call : CallPeers(i, called)
      <3>1. PICK called \in SUBSET Call : CallPeers(i, called)
        BY <2>1
      <3>2. run[i].pc = "llm" /\ run'[i].pc = "tools"
        BY <3>1 DEF CallPeers, TypeOK
      <3>3. \A j \in Invocation \ {i} : run'[j] = run[j]
        BY <3>1 DEF CallPeers, TypeOK
      <3>4. \A s \in SubTask : tool'[s] = tool[s] \/ (s[1] = i /\ tool'[s] = "called")
        BY <3>1 DEF CallPeers
      <3>5. \A s \in SubTask : s[1] \in Invocation
        BY DEF SubTask
      <3>6. \A s \in SubTask : tool'[s] = "called" => tool[s] \in {"idle", "called"}
        BY <3>2, <3>4 DEF IdleBeforeTools
      <3>7. IdleBeforeTools'
        BY <3>2, <3>3, <3>4, <3>5 DEF IdleBeforeTools
      <3>8. UnsubmittedIsUnclaimed'
        BY <1>1, <3>4, <3>6 DEF UnsubmittedIsUnclaimed
      <3> QED
        BY <3>7, <3>8
    <2>2. CASE ~ \E called \in SUBSET Call : CallPeers(i, called)
      <3>1. tool' = tool
        BY <2>2 DEF ReceiveRequest, RunStep, PrepareRequest, RejectRequest, PauseRun,
               RerunAfterSyncResults, AnswerUser, RunRaises, CancelRun, ResumeRun,
               ResumeFails
      <3>2. \A j \in Invocation : run'[j].pc \in BeforeTools => run[j].pc \in BeforeTools
        BY <2>2 DEF ReceiveRequest, RunStep, PrepareRequest, RejectRequest, PauseRun,
               RerunAfterSyncResults, AnswerUser, RunRaises, CancelRun, ResumeRun,
               ResumeFails, RunLeaves, Started, Fresh, TypeOK
      <3> QED
        BY <1>1, <3>1, <3>2 DEF IdleBeforeTools, UnsubmittedIsUnclaimed, SubTask
    <2> QED
      BY <2>1, <2>2
  <1>3. ResultsShowClaim'
    <2>1. CASE PauseRun(i) /\ lastInvocation \in tracked
      <3>1. lastInvocation \in Invocation /\ Calls(i, "failed") \in SUBSET Call
        BY <2>1 DEF TypeOK, Calls
      <3>2. Store(lastInvocation, Calls(i, "failed"), "sync")
        BY <2>1 DEF PauseRun
      <3>3. ASSUME NEW j \in Invocation, NEW c \in Call, NEW k \in {"response", "timeout"},
                   <<c, k>> \in results'[j]
            PROVE  <<c, k>> \in results[j]
        <4>1. k \in Kind /\ "sync" \in Kind /\ k # "sync"
          BY DEF Kind
        <4> QED
          BY <3>1, <3>2, <3>3, <4>1, StoreAddsOnly
      <3> QED
        BY <1>1, <3>3 DEF ResultsShowClaim
    <2>2. CASE ~(PauseRun(i) /\ lastInvocation \in tracked)
      <3>1. results' = results
        BY <2>2 DEF ReceiveRequest, RunStep, PrepareRequest, RejectRequest, CallPeers,
               PauseRun, RerunAfterSyncResults, AnswerUser, RunRaises, CancelRun,
               ResumeRun, ResumeFails, counters
      <3> QED
        BY <1>1, <3>1 DEF ResultsShowClaim
    <2> QED
      BY <2>1, <2>2
  <1> QED
    BY <1>1, <1>2, <1>3 DEF RegisteredIsUnclaimed

\* Steps about a sub-task: the submission registers an unclaimed one, a claim
\* takes it out of the registry, and only its owner records a result.
LEMMA SubTaskStepKeepsClaims ==
    ASSUME ClaimInv, TypeOK', NEW s \in SubTask, SubTaskStep(s)
    PROVE  ClaimInv'
  <1> USE DEF ClaimInv, BeforeTools, IdleBeforeTools, UnsubmittedIsUnclaimed,
              RegisteredIsUnclaimed
  <1>0. s[1] \in Invocation /\ s[2] \in Call /\ s = <<s[1], s[2]>>
    BY DEF SubTask
  <1>1. ASSUME \/ SubmitCall(s) \/ FailCallLate(s)
        PROVE  ClaimInv'
    <2>1. /\ tool[s] = "called" /\ tool'[s] \in {"sent", "failed"}
          /\ \A t \in SubTask \ {s} : tool'[t] = tool[t]
          /\ run[s[1]].pc = "tools"
          /\ subTasks' = subTasks \cup {s}
          /\ UNCHANGED <<run, claim, results>>
      BY <1>1 DEF SubmitCall, FailCallLate, RegisterSubTask, TypeOK, counters
    <2> QED
      BY <2>1 DEF ResultsShowClaim, TypeOK
  <1>2. CASE FailCallEarly(s)
    <2>1. /\ tool[s] = "called" /\ tool'[s] = "failed"
          /\ \A t \in SubTask \ {s} : tool'[t] = tool[t]
          /\ run[s[1]].pc = "tools"
          /\ UNCHANGED <<run, subTasks, claim, results>>
      BY <1>2 DEF FailCallEarly, TypeOK, context, counters
    <2> QED
      BY <2>1 DEF ResultsShowClaim
  <1>3. CASE ReceiveStatus(s)
    BY <1>3 DEF ReceiveStatus, ResultsShowClaim, counters
  <1>4. CASE ReceiveFinal(s)
    <2>1. UNCHANGED <<run, tool, results>>
      BY <1>4 DEF ReceiveFinal, counters
    <2>2. \/ UNCHANGED <<subTasks, claim>>
          \/ /\ s \in subTasks /\ subTasks' = subTasks \ {s}
             /\ claim' = [claim EXCEPT ![s] = "claimed"]
      BY <1>4 DEF ReceiveFinal, Claim
    <2>3. claim \in [SubTask -> {"none", "claimed", "summarizing", "recorded",
                               "dropped", "timedOut"}]
      BY DEF TypeOK
    <2>4. \A t \in SubTask : \/ claim'[t] = claim[t]
                             \/ t = s /\ claim[s] = "none" /\ s \notin subTasks'
      <3>1. CASE claim' = claim
        BY <3>1
      <3>2. CASE claim' # claim
        <4>1. claim[s] = "none" /\ s \notin subTasks'
          BY <2>2, <3>2
        <4>2. \A t \in SubTask \ {s} : claim'[t] = claim[t]
          BY <2>2, <2>3, <3>2
        <4> QED
          BY <4>1, <4>2
      <3> QED
        BY <3>1, <3>2
    <2>5. ResultsShowClaim'
      <3>1. ASSUME NEW i \in Invocation, NEW c \in Call, claim[<<i, c>>] # "none"
            PROVE  claim'[<<i, c>>] = claim[<<i, c>>]
        <4>1. <<i, c>> \in SubTask
          BY DEF SubTask
        <4> QED
          BY <2>4, <3>1, <4>1
      <3>2. ASSUME NEW i \in Invocation, NEW c \in Call
            PROVE  /\ <<c, "response">> \in results[i] => claim'[<<i, c>>] = "recorded"
                   /\ <<c, "timeout">> \in results[i] => claim'[<<i, c>>] = "timedOut"
        BY <3>1 DEF ResultsShowClaim
      <3> QED
        BY <2>1, <3>2 DEF ResultsShowClaim
    <2>6. subTasks' \subseteq subTasks /\ (s \in subTasks => tool[s] \notin {"idle", "called"})
      BY <2>2
    <2> QED
      BY <2>1, <2>2, <2>4, <2>5, <2>6 DEF TypeOK
  <1>5. CASE LookUpContext(s)
    <2>1. /\ UNCHANGED <<run, tool, results, subTasks>>
          /\ claim[s] = "claimed"
          /\ \A t \in SubTask \ {s} : claim'[t] = claim[t]
      BY <1>5 DEF LookUpContext, context, counters, TypeOK
    <2>2. ResultsShowClaim'
      BY <2>1 DEF ResultsShowClaim, SubTask
    <2> QED
      BY <2>1, <2>2 DEF TypeOK
  <1>6. CASE RecordResponse(s)
    <2>1. /\ UNCHANGED <<tool, subTasks>>
          /\ claim[s] = "summarizing" /\ claim'[s] = "recorded"
          /\ \A t \in SubTask \ {s} : claim'[t] = claim[t]
          /\ RecordResult(s, "response") /\ "response" \in Kind
      BY <1>6 DEF RecordResponse, TypeOK, Kind
    <2>2. \A i \in Invocation : run'[i].pc \in BeforeTools => run[i].pc \in BeforeTools
      BY <2>1, RecordResultRuns
    <2>3. ResultsShowClaim'
      <3>1. ASSUME NEW i \in Invocation, NEW c \in Call, NEW k \in {"response", "timeout"},
                   <<c, k>> \in results'[i], <<c, k>> \notin results[i]
            PROVE  <<i, c>> = s /\ k = "response"
        BY <2>1, <3>1, RecordResultAddsOnly DEF Kind
      <3>2. ASSUME NEW i \in Invocation, NEW c \in Call
            PROVE  /\ <<c, "response">> \in results'[i] => claim'[<<i, c>>] = "recorded"
                   /\ <<c, "timeout">> \in results'[i] => claim'[<<i, c>>] = "timedOut"
        <4>1. <<i, c>> \in SubTask
          BY DEF SubTask
        <4>2. CASE <<i, c>> = s
          BY <2>1, <3>1, <4>2 DEF ResultsShowClaim
        <4>3. CASE <<i, c>> # s
          BY <2>1, <3>1, <4>1, <4>3 DEF ResultsShowClaim
        <4> QED
          BY <4>2, <4>3
      <3> QED
        BY <3>2 DEF ResultsShowClaim
    <2> QED
      BY <2>1, <2>2, <2>3 DEF TypeOK, SubTask
  <1>7. CASE ExpireTimer(s)
    BY <1>7 DEF ExpireTimer, ResultsShowClaim, context, counters
  <1>8. CASE HandleTimeout(s)
    <2>1. /\ UNCHANGED tool
          /\ s \in subTasks /\ subTasks' = subTasks \ {s}
          /\ claim[s] = "none" /\ claim'[s] = "timedOut"
          /\ \A t \in SubTask \ {s} : claim'[t] = claim[t]
          /\ RecordResult(s, "timeout") /\ "timeout" \in Kind
      BY <1>8 DEF HandleTimeout, Claim, TypeOK, Kind
    <2>2. \A i \in Invocation : run'[i].pc \in BeforeTools => run[i].pc \in BeforeTools
      BY <2>1, RecordResultRuns
    <2>3. ResultsShowClaim'
      <3>1. ASSUME NEW i \in Invocation, NEW c \in Call, NEW k \in {"response", "timeout"},
                   <<c, k>> \in results'[i], <<c, k>> \notin results[i]
            PROVE  <<i, c>> = s /\ k = "timeout"
        BY <2>1, <3>1, RecordResultAddsOnly DEF Kind
      <3>2. ASSUME NEW i \in Invocation, NEW c \in Call
            PROVE  /\ <<c, "response">> \in results'[i] => claim'[<<i, c>>] = "recorded"
                   /\ <<c, "timeout">> \in results'[i] => claim'[<<i, c>>] = "timedOut"
        <4>1. <<i, c>> \in SubTask
          BY DEF SubTask
        <4>2. CASE <<i, c>> = s
          BY <2>1, <3>1, <4>2 DEF ResultsShowClaim
        <4>3. CASE <<i, c>> # s
          BY <2>1, <3>1, <4>1, <4>3 DEF ResultsShowClaim
        <4> QED
          BY <4>2, <4>3
      <3> QED
        BY <3>2 DEF ResultsShowClaim
    <2> QED
      BY <2>1, <2>2, <2>3 DEF TypeOK, SubTask
  <1>9. CASE IgnoreTimeout(s)
    BY <1>9 DEF IgnoreTimeout, ResultsShowClaim, context, counters
  <1>10. CASE DeliverCancel(s)
    BY <1>10 DEF DeliverCancel, ResultsShowClaim, context, counters
  <1> QED
    BY <1>1, <1>2, <1>3, <1>4, <1>5, <1>6, <1>7, <1>8, <1>9, <1>10
       DEF SubTaskStep, ToolStep, ResponseStep, TimeoutStep

\* Every step keeps what a result says of the claim that brought it.
LEMMA ClaimInvInductive == ClaimInv /\ [Next]_vars => ClaimInv'
  <1> SUFFICES ASSUME ClaimInv, [Next]_vars
               PROVE  ClaimInv'
    OBVIOUS
  <1>1. TypeOK'
    BY NextType DEF ClaimInv
  <1>2. ASSUME NEW i \in Invocation, ReceiveRequest(i) \/ RunStep(i)
        PROVE  ClaimInv'
    BY <1>1, <1>2, RunStepKeepsClaims
  <1>3. ASSUME NEW s \in SubTask, SubTaskStep(s)
        PROVE  ClaimInv'
    BY <1>1, <1>3, SubTaskStepKeepsClaims
  <1>4. ASSUME UNCHANGED <<run, tool, subTasks, claim, results>>
        PROVE  ClaimInv'
    BY <1>1, <1>4 DEF ClaimInv, IdleBeforeTools, UnsubmittedIsUnclaimed,
                      RegisteredIsUnclaimed, ResultsShowClaim
  <1>5. ASSUME NEW q \in CancelRequest, ReceiveCancel(q)
        PROVE  ClaimInv'
    BY <1>4, <1>5 DEF ReceiveCancel, counters
  <1>6. ASSUME NEW f \in Finalizer, FinalizerStep(f)
        PROVE  ClaimInv'
    BY <1>4, <1>6 DEF FinalizerStep, StartFinalization, PublishFinalResponse,
                      RemoveContext, counters
  <1>7. CASE UNCHANGED vars
    BY <1>4, <1>7 DEF vars, context, counters
  <1> QED
    BY <1>2, <1>3, <1>5, <1>6, <1>7 DEF Next, SubTaskStep, Terminated

\* The response and the timeout of a sub-task never both count, although late
\* failures of the submission, duplicated responses and cancellations may occur.
THEOREM ClaimsAreExclusive == Spec => []ClaimedOnce
  <1>1. Init => ClaimInv
    BY InitType DEF Init, ClaimInv, IdleBeforeTools, UnsubmittedIsUnclaimed,
                    RegisteredIsUnclaimed, ResultsShowClaim
  <1>2. ClaimInv => ClaimedOnce
    BY DEF ClaimInv, ResultsShowClaim, ClaimedOnce
  <1> QED
    BY <1>1, <1>2, ClaimInvInductive, PTL DEF Spec

-----------------------------------------------------------------------------
(* A task is never forgotten, when no call fails before its registration   *)
(* and no request or resumption is given up.  Inductive: invocations are   *)
(* taken in order; while the context exists no finalization is over and    *)
(* no answer was dropped; and until a finalization is scheduled the latest *)
(* invocation runs, or waits for a call that is not settled, because its   *)
(* counter is at least the number of the settled calls.                    *)

WakeAssumption ==
    "early" \notin SubmitFailures /\ {"session", "prepare"} \cap Failures = {}

Issued(i) == Call \ Calls(i, "idle")
Settled(i) == {c \in Call : claim[<<i, c>>] \in {"recorded", "timedOut"}}
Used(i) == run[i].pc # "unused"
Latest(i) == Used(i) /\ \A j \in Invocation : Used(j) => j <= i
NoneEnded == \A f \in Finalizer : fin[f].pc = "none"

RunsInOrder ==
    /\ \A i, j \in Invocation : i < j /\ Used(j) => Used(i)
    /\ \A j \in Invocation : run[j].cause < j /\ run[j].pc # "rejected"
NothingEndedBefore ==
    (\A i \in Invocation : ~Used(i)) =>
        session /\ \A f \in Finalizer : fin[f].pc = "none" /\ fin[f].outcome = "success"
ContextLives ==
    active => /\ session /\ \E i \in Invocation : Latest(i)
              /\ \A f \in Finalizer : fin[f].pc # "done" /\ fin[f].outcome # "retriggerError"
              /\ \A s \in SubTask :
                    /\ claim[s] # "dropped"
                    /\ tool[s] \in {"sent", "failed"} => s \in subTasks \/ claim[s] # "none"
Waits(i) ==
    /\ run[i].pc \in {"tools", "done"} =>
          /\ i \in tracked /\ total[i] = Cardinality(Issued(i))
          /\ completed[i] >= Cardinality(Settled(i)) /\ ~(Issued(i) \subseteq Settled(i))
    /\ run[i].pc = "done" => Calls(i, "called") = {}
LatestWaits == active /\ NoneEnded => \A i \in Invocation : Latest(i) => Waits(i)

WakeInv == ClaimInv /\ RunsInOrder /\ NothingEndedBefore /\ ContextLives /\ LatestWaits

\* What the sets say of one call.
LEMMA CallSets ==
    ASSUME NEW i \in Invocation, NEW c \in Call
    PROVE  /\ <<i, c>> \in SubTask
           /\ c \in Issued(i) <=> tool[<<i, c>>] # "idle"
           /\ \A st : c \in Calls(i, st) <=> tool[<<i, c>>] = st
  BY DEF SubTask, Issued, Calls

\* The settled calls are finitely many.
LEMMA SettledCount ==
    \A S \in SUBSET Call :
        /\ Cardinality(S) \in Nat
        /\ \A c \in Call : Cardinality(S \cup {c}) <= Cardinality(S) + 1
        /\ \A T \in SUBSET S : Cardinality(T) <= Cardinality(S)
  <1> SUFFICES ASSUME NEW S \in SUBSET Call
               PROVE  /\ Cardinality(S) \in Nat
                      /\ \A c \in Call : Cardinality(S \cup {c}) <= Cardinality(S) + 1
                      /\ \A T \in SUBSET S : Cardinality(T) <= Cardinality(S)
    OBVIOUS
  <1>1. IsFiniteSet(S) /\ Cardinality(S) \in Nat
    BY CallAssumption, FS_Subset, FS_CardinalityType
  <1>2. ASSUME NEW c \in Call
        PROVE  Cardinality(S \cup {c}) <= Cardinality(S) + 1
    <2>1. CASE c \in S
      <3>1. S \cup {c} = S
        BY <2>1
      <3>2. Cardinality(S \cup {c}) = Cardinality(S)
        BY <3>1
      <3> QED
        BY <1>1, <3>2
    <2>2. CASE c \notin S
      <3>1. Cardinality(S \cup {c}) = Cardinality(S) + 1
        BY <1>1, <2>2, FS_AddElement
      <3> QED
        BY <1>1, <3>1
    <2> QED
      BY <2>1, <2>2
  <1>3. \A T \in SUBSET S : Cardinality(T) <= Cardinality(S)
    BY <1>1, FS_Subset
  <1> QED
    BY <1>1, <1>2, <1>3

\* A new invocation is the latest.
LEMMA NewIsLatest ==
    ASSUME WakeInv, NEW j \in Invocation, Fresh(j), NEW pc \in {"prepare", "getSession", "llm"},
           run'[j].pc = pc, run'[j].cause < j,
           \A i \in Invocation \ {j} :
              /\ run'[i].cause = run[i].cause
              /\ run'[i].pc = run[i].pc \/ (run[i].pc = "tools" /\ run'[i].pc = "done")
    PROVE  RunsInOrder' /\ Latest(j)' /\ LatestWaits'
  <1>1. \A i \in Invocation : Used(i)' <=> Used(i) \/ i = j
    BY DEF Used
  <1>2. /\ ~Used(j) /\ \A i \in Invocation : i < j => Used(i)
        /\ \A i \in Invocation : i \in Int /\ j \in Int
    BY DEF Fresh, Used, Invocation
  <1>3. \A i \in Invocation : Used(i) => i < j
    BY <1>2 DEF WakeInv, RunsInOrder
  <1>4. \A i, k \in Invocation : i < k /\ Used(k)' => Used(i)'
    BY <1>1, <1>2, <1>3
  <1>5. \A i \in Invocation : run'[i].cause < i /\ run'[i].pc # "rejected"
    BY DEF WakeInv, RunsInOrder
  <1>6. \A i \in Invocation : Latest(i)' <=> i = j
    BY <1>1, <1>2, <1>3 DEF Latest
  <1>7. Waits(j)'
    BY DEF Waits
  <1> QED
    BY <1>4, <1>5, <1>6, <1>7 DEF RunsInOrder, LatestWaits

\* The latest invocation stays the one that it is, and goes on waiting.
LEMMA StaysLatest ==
    ASSUME WakeInv, NoneEnded' /\ active' => NoneEnded /\ active,
           \A i \in Invocation :
              /\ run'[i].cause = run[i].cause /\ run'[i].pc # "rejected"
              /\ Used(i)' <=> Used(i)
              /\ Issued(i)' = Issued(i) /\ Settled(i)' = Settled(i)
              /\ Calls(i, "called")' \subseteq Calls(i, "called"),
           NoneEnded' /\ active' => \A i \in Invocation :
              /\ \/ run'[i].pc = run[i].pc
                 \/ run'[i].pc \notin {"tools", "done"}
                 \/ run[i].pc = "tools" /\ run'[i].pc = "done" /\ Calls(i, "called")' = {}
              /\ Latest(i) /\ i \in tracked => i \in tracked'
              /\ total'[i] = total[i] /\ completed'[i] >= completed[i],
           completed \in [Invocation -> Nat], completed' \in [Invocation -> Nat]
    PROVE  RunsInOrder' /\ (\A i \in Invocation : Latest(i)' <=> Latest(i)) /\ LatestWaits'
  <1>1. RunsInOrder'
    BY DEF WakeInv, RunsInOrder
  <1>2. \A i \in Invocation : Latest(i)' <=> Latest(i)
    BY DEF Latest
  <1>3. ASSUME NoneEnded', active', NEW i \in Invocation, Latest(i)
        PROVE  Waits(i)'
    <2>1. Waits(i)
      BY <1>3 DEF WakeInv, LatestWaits
    <2>2. CASE run'[i].pc \in {"tools", "done"}
      <3>1. /\ i \in tracked /\ total[i] = Cardinality(Issued(i))
            /\ completed[i] >= Cardinality(Settled(i)) /\ ~(Issued(i) \subseteq Settled(i))
        BY <1>3, <2>1, <2>2 DEF Waits
      <3>2. Cardinality(Settled(i)) \in Nat /\ completed[i] \in Nat /\ completed'[i] \in Nat
        BY SettledCount DEF Settled
      <3>3. completed'[i] >= Cardinality(Settled(i))
        BY <1>3, <3>1, <3>2
      <3>4. run'[i].pc = "done" => Calls(i, "called")' = {}
        BY <1>3, <2>1 DEF Waits
      <3> QED
        BY <1>3, <3>1, <3>3, <3>4 DEF Waits
    <2>3. CASE run'[i].pc \notin {"tools", "done"}
      BY <2>3 DEF Waits
    <2> QED
      BY <2>2, <2>3
  <1> QED
    BY <1>1, <1>2, <1>3 DEF LatestWaits

\* Steps of a run.
LEMMA RunWakes ==
    ASSUME WakeAssumption, WakeInv, TypeOK', NEW i \in Invocation, ReceiveRequest(i) \/ RunStep(i)
    PROVE  RunsInOrder' /\ NothingEndedBefore' /\ ContextLives' /\ LatestWaits'
  <1>1. /\ TypeOK
        /\ run \in [Invocation -> [pc : RunPC, cause : Invocation \cup {NoCause}]]
        /\ fin \in [Finalizer -> [pc : FinPC, outcome : Outcome]]
        /\ completed \in [Invocation -> Nat] /\ completed' \in [Invocation -> Nat]
        /\ i \in Finalizer
    BY DEF WakeInv, ClaimInv, TypeOK, Finalizer
  <1>2. UNCHANGED <<session, claim, subTasks>>
    BY DEF ReceiveRequest, RunStep, PrepareRequest, RejectRequest, CallPeers, PauseRun,
           RerunAfterSyncResults, AnswerUser, RunRaises, CancelRun, ResumeRun,
           ResumeFails, context
  <1>3. CASE ReceiveRequest(i)
    <2>1. /\ \A j \in Invocation : run[j].pc = "unused"
          /\ Fresh(i) /\ run' = Started(i, "prepare", NoCause) /\ UNCHANGED <<fin, tool>>
      BY <1>3 DEF ReceiveRequest
    <2>2. /\ run'[i] = [pc |-> "prepare", cause |-> NoCause]
          /\ \A j \in Invocation \ {i} : run'[j] = run[j]
      BY <1>1, <2>1 DEF Started
    <2>3. NoCause < i
      BY DEF NoCause, Invocation
    <2>4. RunsInOrder' /\ Latest(i)' /\ LatestWaits'
      BY <2>1, <2>2, <2>3, NewIsLatest
    <2>5. \A s \in SubTask : tool[s] = "idle" /\ claim[s] = "none"
      BY <2>1 DEF WakeInv, ClaimInv, IdleBeforeTools, UnsubmittedIsUnclaimed, BeforeTools, SubTask
    <2>6. ContextLives'
      BY <1>2, <2>1, <2>4, <2>5 DEF WakeInv, NothingEndedBefore, ContextLives, Used
    <2>7. NothingEndedBefore'
      BY <2>2 DEF NothingEndedBefore, Used
    <2> QED
      BY <2>4, <2>6, <2>7
  <1>4. ASSUME RunStep(i)
        PROVE  /\ active' = active
               /\ \A s \in SubTask : tool'[s] \in {"sent", "failed"} => tool'[s] = tool[s]
    BY <1>4 DEF RunStep, PrepareRequest, RejectRequest, CallPeers, PauseRun,
           RerunAfterSyncResults, AnswerUser, RunRaises, CancelRun, ResumeRun,
           ResumeFails, context
  <1>5. CASE \E j \in Invocation : RerunAfterSyncResults(i, j)
    <2>1. PICK j \in Invocation : RerunAfterSyncResults(i, j)
      BY <1>5
    <2>2. /\ Fresh(j) /\ run[i].pc = "tools" /\ i # j /\ UNCHANGED <<fin, tool, active>>
          /\ run' = [Started(j, "llm", run[i].cause) EXCEPT ![i].pc = "done"]
      BY <2>1 DEF RerunAfterSyncResults, ToolsReturned, Fresh, context
    <2>3. /\ run'[j].pc = "llm" /\ run'[j].cause = run[i].cause
          /\ run'[i].pc = "done" /\ run'[i].cause = run[i].cause
          /\ \A x \in Invocation \ {i, j} : run'[x] = run[x]
      BY <1>1, <2>2 DEF Started
    <2>4. run[i].cause < j
      <3>1. i < j
        BY <2>2 DEF WakeInv, RunsInOrder, Used, Fresh, Invocation
      <3>2. run[i].cause < i /\ run[i].cause \in Int /\ i \in Int /\ j \in Int
        BY <1>1 DEF WakeInv, RunsInOrder, Invocation, NoCause
      <3> QED
        BY <3>1, <3>2
    <2>5. RunsInOrder' /\ Latest(j)' /\ LatestWaits'
      BY <2>2, <2>3, <2>4, NewIsLatest
    <2>6. ContextLives'
      BY <1>2, <2>2, <2>5 DEF WakeInv, ContextLives
    <2>7. NothingEndedBefore'
      BY <2>3 DEF NothingEndedBefore, Used
    <2> QED
      BY <2>5, <2>6, <2>7
  <1>6. ASSUME UNCHANGED <<tool, active>>, Used(i), NEW p \in RunPC \ {"unused", "rejected"},
               run' = [run EXCEPT ![i].pc = p],
               \A j \in Invocation : total'[j] = total[j] /\ completed'[j] >= completed[j],
               tracked \ {run[i].cause} \subseteq tracked',
               fin' = fin \/ (\E outcome \in Outcome \ {"retriggerError"} : Schedule(i, outcome))
                          \/ ~active,
               NoneEnded' /\ active => /\ NoneEnded
                             /\ \/ p \notin {"tools", "done"}
                                \/ run[i].pc = "tools" /\ p = "done" /\ Calls(i, "called") = {}
        PROVE  RunsInOrder' /\ NothingEndedBefore' /\ ContextLives' /\ LatestWaits'
    <2>1. /\ run'[i].pc = p /\ run'[i].cause = run[i].cause
          /\ \A j \in Invocation \ {i} : run'[j] = run[j]
      BY <1>1, <1>6
    <2>2. \A j \in Invocation : /\ Issued(j)' = Issued(j) /\ Settled(j)' = Settled(j)
                                /\ Calls(j, "called")' = Calls(j, "called")
      BY <1>2, <1>6 DEF Issued, Settled, Calls
    <2>3. \A j \in Invocation : /\ run'[j].cause = run[j].cause /\ run'[j].pc # "rejected"
                                /\ Used(j)' <=> Used(j)
      BY <1>6, <2>1 DEF WakeInv, RunsInOrder, Used
    <2>4. ASSUME NEW j \in Invocation, Latest(j), j \in tracked
          PROVE  j \in tracked'
      <3>1. run[i].cause < i /\ i <= j /\ run[i].cause \in Int /\ i \in Int /\ j \in Int
        BY <1>1, <1>6, <2>4 DEF WakeInv, RunsInOrder, Latest, Invocation, NoCause
      <3>2. run[i].cause # j
        BY <3>1
      <3> QED
        BY <1>6, <2>4, <3>2
    <2>5. NoneEnded' /\ active' => NoneEnded /\ active
      BY <1>6
    <2>6. RunsInOrder' /\ (\A j \in Invocation : Latest(j)' <=> Latest(j)) /\ LatestWaits'
      BY <1>1, <1>6, <2>1, <2>2, <2>3, <2>4, <2>5, StaysLatest
    <2>7. active => \A f \in Finalizer : fin'[f].pc # "done" /\ fin'[f].outcome # "retriggerError"
      BY <1>1, <1>6 DEF WakeInv, ContextLives, Schedule
    <2>8. ContextLives'
      BY <1>2, <1>6, <2>6, <2>7 DEF WakeInv, ContextLives
    <2>9. NothingEndedBefore'
      BY <1>6, <2>3 DEF NothingEndedBefore
    <2> QED
      BY <2>6, <2>8, <2>9
  <1>7. ASSUME NEW outcome \in Outcome, Schedule(i, outcome)
        PROVE  ~NoneEnded'
    BY <1>1, <1>7 DEF Schedule, NoneEnded
  <1>0. completed' = completed => \A j \in Invocation : completed'[j] >= completed[j]
    BY <1>1
  <1>8. CASE PrepareRequest(i)
    <2>1. /\ UNCHANGED <<tool, active, total, completed, tracked, fin>> /\ Used(i)
          /\ run' = [run EXCEPT ![i].pc = "llm"] /\ "llm" \in RunPC \ {"unused", "rejected"}
      BY <1>8 DEF PrepareRequest, context, counters, Used, RunPC
    <2> QED
      BY <1>0, <1>6, <2>1 DEF NoneEnded
  <1>9. CASE PauseRun(i)
    <2>1. /\ UNCHANGED <<tool, active, total, fin>> /\ Used(i)
          /\ run[i].pc = "tools" /\ Calls(i, "called") = {}
          /\ run' = [run EXCEPT ![i].pc = "done"] /\ "done" \in RunPC \ {"unused", "rejected"}
          /\ tracked' = tracked \ {run[i].cause}
      BY <1>9 DEF PauseRun, ToolsReturned, RunLeaves, Used, RunPC
    <2>2. \A j \in Invocation : completed'[j] >= completed[j]
      <3>1. CASE lastInvocation \in tracked
        <4>1. PICK l \in Invocation :
                 completed' = [completed EXCEPT ![l] = @ + Cardinality(Calls(i, "failed"))]
          BY <1>1, <1>9, <3>1 DEF PauseRun, Store, TypeOK
        <4>2. Cardinality(Calls(i, "failed")) \in Nat
          BY CallsAreFinite DEF Calls
        <4> QED
          BY <1>1, <4>1, <4>2
      <3>2. CASE lastInvocation \notin tracked
        BY <1>1, <1>9, <3>2 DEF PauseRun
      <3> QED
        BY <3>1, <3>2
    <2> QED
      BY <1>1, <1>6, <2>1, <2>2 DEF NoneEnded
  <1>10. CASE AnswerUser(i) \/ (\E outcome \in {"limit", "error"} : RunRaises(i, outcome))
              \/ CancelRun(i)
    <2>1. PICK outcome \in Outcome \ {"retriggerError"} : Schedule(i, outcome)
      BY <1>10 DEF AnswerUser, RunRaises, CancelRun, Outcome
    <2>2. /\ UNCHANGED <<tool, active, total, completed>> /\ Used(i)
          /\ run' = [run EXCEPT ![i].pc = "done"] /\ "done" \in RunPC \ {"unused", "rejected"}
          /\ tracked' = tracked \ {run[i].cause}
      BY <1>10 DEF AnswerUser, RunRaises, CancelRun, RunLeaves, Used, RunPC, context
    <2>3. ~NoneEnded'
      BY <1>7, <2>1
    <2> QED
      BY <1>0, <1>6, <2>1, <2>2, <2>3
  <1>11. CASE ResumeRun(i)
    <2>1. PICK p \in {"llm", "done"} :
             /\ UNCHANGED <<tool, active, total, completed, fin>> /\ Used(i)
             /\ run' = [run EXCEPT ![i].pc = p] /\ p \in RunPC \ {"unused", "rejected"}
             /\ tracked \ {run[i].cause} \subseteq tracked'
             /\ active => p = "llm"
      BY <1>11 DEF ResumeRun, RunLeaves, Used, RunPC, context
    <2> QED
      BY <1>0, <1>6, <2>1 DEF NoneEnded
  <1>12. CASE ResumeFails(i)
    <2>1. /\ UNCHANGED <<tool, active, total, completed, tracked>> /\ Used(i)
          /\ run' = [run EXCEPT ![i].pc = "done"] /\ "done" \in RunPC \ {"unused", "rejected"}
          /\ ~session
      BY <1>12 DEF ResumeFails, context, counters, Used, RunPC, WakeAssumption
    <2>2. ~active
      BY <2>1 DEF WakeInv, ContextLives
    <2> QED
      BY <1>0, <1>6, <2>1, <2>2
  <1>13. CASE RejectRequest(i)
    BY <1>13 DEF RejectRequest, WakeAssumption
  <1>14. CASE \E called \in SUBSET Call : CallPeers(i, called)
    <2>1. PICK called \in SUBSET Call : CallPeers(i, called)
      BY <1>14
    <2>2. /\ run[i].pc = "llm" /\ called # {} /\ UNCHANGED <<completed, fin, active>>
          /\ run' = [run EXCEPT ![i].pc = "tools"]
          /\ tool' = [s \in SubTask |->
                         IF s[1] = i /\ s[2] \in called THEN "called" ELSE tool[s]]
      BY <2>1 DEF CallPeers, context
    <2>3. /\ run'[i].pc = "tools" /\ run'[i].cause = run[i].cause
          /\ \A j \in Invocation \ {i} : run'[j] = run[j]
      BY <1>1, <2>2
    <2>4. \A c \in Call : tool[<<i, c>>] = "idle" /\ claim[<<i, c>>] = "none"
      BY <2>2, CallSets
         DEF WakeInv, ClaimInv, IdleBeforeTools, UnsubmittedIsUnclaimed, BeforeTools
    <2>5. Issued(i)' = called /\ Settled(i)' = {}
      BY <1>2, <2>2, <2>4, CallSets DEF Issued, Calls, Settled
    <2>6. \A j \in Invocation \ {i} :
             /\ Issued(j)' = Issued(j) /\ Settled(j)' = Settled(j)
             /\ Calls(j, "called")' = Calls(j, "called")
      BY <1>2, <2>2, CallSets DEF Issued, Calls, Settled
    <2>7. \A j \in Invocation : /\ run'[j].cause = run[j].cause /\ run'[j].pc # "rejected"
                                /\ Used(j)' <=> Used(j)
      BY <2>2, <2>3 DEF WakeInv, RunsInOrder, Used
    <2>8. RunsInOrder' /\ \A j \in Invocation : Latest(j)' <=> Latest(j)
      BY <2>7 DEF WakeInv, RunsInOrder, Latest
    <2>9. ASSUME active, NoneEnded, NEW j \in Invocation, Latest(j)
          PROVE  Waits(j)'
      <3>1. /\ tracked' = tracked \cup {i}
            /\ total' = [total EXCEPT ![i] = Cardinality(called)]
            /\ total \in [Invocation -> Nat]
        BY <1>1, <2>1, <2>9 DEF CallPeers, Preregister, TypeOK
      <3>2. CASE j = i
        <4>1. Cardinality({}) = 0 /\ completed'[i] >= 0
          BY <1>1, FS_EmptySet
        <4> QED
          BY <2>2, <2>3, <2>5, <3>1, <3>2, <4>1 DEF Waits
      <3>3. CASE j # i
        <4>1. Waits(j)
          BY <2>9 DEF WakeInv, LatestWaits
        <4>2. run'[j] = run[j] /\ total'[j] = total[j] /\ completed'[j] = completed[j]
          BY <2>2, <2>3, <3>1, <3>3
        <4> QED
          BY <2>6, <3>1, <3>3, <4>1, <4>2 DEF Waits
      <3> QED
        BY <3>2, <3>3
    <2>10. LatestWaits'
      BY <2>2, <2>8, <2>9 DEF LatestWaits, NoneEnded
    <2>11. ContextLives'
      BY <1>2, <1>4, <1>14, <2>2, <2>8 DEF WakeInv, ContextLives, RunStep
    <2>12. NothingEndedBefore'
      BY <2>3 DEF NothingEndedBefore, Used
    <2> QED
      BY <2>8, <2>10, <2>11, <2>12
  <1> QED
    BY <1>3, <1>5, <1>8, <1>9, <1>10, <1>11, <1>12, <1>13, <1>14 DEF RunStep

\* The result of a sub-task: while calls of the latest invocation are unsettled, the
\* counter is below the total, and the call that completes it starts a new invocation.
LEMMA RecordWakes ==
    ASSUME WakeInv, TypeOK', NEW s \in SubTask, NEW kind \in {"response", "timeout"},
           RecordResult(s, kind), tool[s] # "idle",
           claim' = [claim EXCEPT ![s] = IF kind = "response" THEN "recorded" ELSE "timedOut"],
           UNCHANGED <<active, fin, tool, tracked, total>>
    PROVE  /\ RunsInOrder' /\ LatestWaits'
           /\ (\E i \in Invocation : Latest(i)) => \E i \in Invocation : Latest(i)'
           /\ \A i \in Invocation : Used(i) => Used(i)'
  <1> DEFINE i == s[1]  c == s[2]
  <1>1. /\ i \in Invocation /\ c \in Call /\ s = <<i, c>> /\ {c} \in SUBSET Call
        /\ TypeOK /\ kind \in Kind
        /\ run \in [Invocation -> [pc : RunPC, cause : Invocation \cup {NoCause}]]
        /\ completed \in [Invocation -> Nat] /\ completed' \in [Invocation -> Nat]
        /\ total \in [Invocation -> Nat]
        /\ claim \in [SubTask -> {"none", "claimed", "summarizing", "recorded",
                                 "dropped", "timedOut"}]
    BY DEF SubTask, WakeInv, ClaimInv, TypeOK, Kind
  <1>2. run[i].pc \in {"tools", "done"} /\ c \in Issued(i)
    <2>1. run[i].pc \notin BeforeTools
      BY <1>1 DEF WakeInv, ClaimInv, IdleBeforeTools
    <2>2. run[i].pc # "rejected" /\ run[i].pc \in RunPC
      BY <1>1 DEF WakeInv, RunsInOrder
    <2> QED
      BY <1>1, <2>1, <2>2, CallSets DEF BeforeTools, RunPC
  <1>3. \A j \in Invocation : /\ Issued(j)' = Issued(j)
                              /\ Calls(j, "called")' = Calls(j, "called")
    BY DEF Issued, Calls
  <1>4. /\ Settled(i)' = Settled(i) \cup {c}
        /\ \A j \in Invocation \ {i} : Settled(j)' = Settled(j)
    <2>1. \A j \in Invocation, x \in Call :
             claim'[<<j, x>>] = IF j = i /\ x = c
                                THEN IF kind = "response" THEN "recorded" ELSE "timedOut"
                                ELSE claim[<<j, x>>]
      <3> TAKE j \in Invocation, x \in Call
      <3>1. <<j, x>> \in SubTask /\ (<<j, x>> = s) = (j = i /\ x = c)
        BY <1>1, CallSets
      <3> QED
        BY <1>1, <3>1
    <2> QED
      BY <1>1, <2>1 DEF Settled
  <1>5. Settled(i) \in SUBSET Call /\ Settled(i)' \in SUBSET Call
        /\ Issued(i) \in SUBSET Call
    BY DEF Settled, Issued
  <1>6. /\ Cardinality(Settled(i)) \in Nat /\ Cardinality(Settled(i)') \in Nat
        /\ Cardinality(Settled(i)') <= Cardinality(Settled(i)) + 1
    <2>1. Cardinality(Settled(i) \cup {c}) <= Cardinality(Settled(i)) + 1
      BY <1>1, <1>5, SettledCount
    <2> QED
      BY <1>4, <1>5, <2>1, SettledCount
  <1>7. CASE run' = run
    <2>1. \A j \in Invocation : Used(j)' <=> Used(j)
      BY <1>7 DEF Used
    <2>2. RunsInOrder' /\ \A j \in Invocation : Latest(j)' <=> Latest(j)
      BY <1>7, <2>1 DEF WakeInv, RunsInOrder, Latest
    <2>3. ASSUME active, NoneEnded, NEW j \in Invocation, Latest(j)
          PROVE  Waits(j)'
      <3>1. Waits(j)
        BY <2>3 DEF WakeInv, LatestWaits
      <3>2. CASE j = i
        <4>1. /\ i \in tracked /\ total[i] = Cardinality(Issued(i))
              /\ completed[i] >= Cardinality(Settled(i))
          BY <1>2, <3>1, <3>2 DEF Waits
        <4>2. ~AllCallsComplete(i)
          <5>1. ASSUME AllCallsComplete(i)
                PROVE  FALSE
            <6>1. PICK k \in Invocation : Fresh(k) /\ run' = Started(k, "getSession", i)
              BY <4>1, <5>1 DEF RecordResult, Retrigger
            <6> QED
              BY <1>1, <1>7, <6>1 DEF Fresh, Started
          <5> QED
            BY <5>1
        <4>3. completed'[i] = completed[i] + 1
          <5>1. Cardinality({c}) = 1
            BY FS_Singleton
          <5> QED
            BY <1>1, <4>1, <5>1 DEF RecordResult, Store
        <4>4. completed[i] + 1 < Cardinality(Issued(i))
          BY <1>1, <4>1, <4>2 DEF AllCallsComplete
        <4>5. completed'[i] >= Cardinality(Settled(i)')
          BY <1>1, <1>6, <4>1, <4>3
        <4>6. ~(Issued(i) \subseteq Settled(i)')
          <5>1. ASSUME Issued(i) \subseteq Settled(i)'
                PROVE  FALSE
            <6>1. Cardinality(Issued(i)) <= Cardinality(Settled(i)')
              BY <1>5, <5>1, SettledCount
            <6>2. Cardinality(Issued(i)) \in Nat
              BY <1>5, SettledCount
            <6> QED
              BY <1>1, <1>6, <4>3, <4>4, <4>5, <6>1, <6>2
          <5> QED
            BY <5>1
        <4> QED
          BY <1>3, <1>7, <3>1, <3>2, <4>1, <4>5, <4>6 DEF Waits
      <3>3. CASE j # i
        <4>1. completed'[j] = completed[j]
          BY <1>1, <3>3 DEF RecordResult, Store
        <4>2. Issued(j)' = Issued(j) /\ Settled(j)' = Settled(j)
              /\ Calls(j, "called")' = Calls(j, "called")
          BY <1>3, <1>4, <3>3
        <4> QED
          BY <1>7, <3>1, <4>1, <4>2 DEF Waits
      <3> QED
        BY <3>2, <3>3
    <2>4. LatestWaits'
      BY <2>2, <2>3 DEF LatestWaits, NoneEnded
    <2> QED
      BY <2>1, <2>2, <2>4
  <1>8. ASSUME NEW k \in Invocation, Fresh(k), run' = Started(k, "getSession", i)
        PROVE  /\ RunsInOrder' /\ LatestWaits' /\ Latest(k)'
               /\ \A j \in Invocation : Used(j) => Used(j)'
    <2>1. /\ run'[k].pc = "getSession" /\ run'[k].cause = i
          /\ \A j \in Invocation \ {k} : run'[j] = run[j]
      BY <1>1, <1>8 DEF Started
    <2>2. i < k
      BY <1>1, <1>2, <1>8 DEF WakeInv, RunsInOrder, Used, Fresh, Invocation
    <2>3. RunsInOrder' /\ LatestWaits' /\ Latest(k)'
      BY <1>8, <2>1, <2>2, NewIsLatest
    <2>4. \A j \in Invocation : Used(j) => Used(j)'
      BY <2>1 DEF Used
    <2> QED
      BY <2>3, <2>4
  <1> QED
    BY <1>7, <1>8 DEF RecordResult, Retrigger

\* Steps about a sub-task.
LEMMA SubTaskWakes ==
    ASSUME WakeAssumption, WakeInv, TypeOK', NEW s \in SubTask, SubTaskStep(s)
    PROVE  RunsInOrder' /\ NothingEndedBefore' /\ ContextLives' /\ LatestWaits'
  <1>1. /\ tool \in [SubTask -> {"idle", "called", "sent", "failed"}]
        /\ claim \in [SubTask -> {"none", "claimed", "summarizing", "recorded",
                                 "dropped", "timedOut"}]
        /\ completed \in [Invocation -> Nat] /\ completed' \in [Invocation -> Nat]
    BY DEF WakeInv, ClaimInv, TypeOK
  <1>2. UNCHANGED <<active, fin, session>>
    BY DEF SubTaskStep, ToolStep, ResponseStep, TimeoutStep, SubmitCall, FailCallEarly,
           FailCallLate, ReceiveStatus, ReceiveFinal, LookUpContext, RecordResponse,
           ExpireTimer, HandleTimeout, IgnoreTimeout, DeliverCancel, context
  <1>3. ASSUME active
        PROVE  \A t \in SubTask :
                  /\ claim'[t] # "dropped"
                  /\ tool'[t] \in {"sent", "failed"} => t \in subTasks' \/ claim'[t] # "none"
    <2>1. \A t \in SubTask :
             /\ claim[t] # "dropped"
             /\ tool[t] \in {"sent", "failed"} => t \in subTasks \/ claim[t] # "none"
      BY <1>3 DEF WakeInv, ContextLives
    <2>2. CASE SubmitCall(s) \/ FailCallLate(s)
      <3>1. /\ claim' = claim /\ subTasks' = subTasks \cup {s}
            /\ \A t \in SubTask \ {s} : tool'[t] = tool[t]
        BY <1>1, <2>2 DEF SubmitCall, FailCallLate, RegisterSubTask
      <3> QED
        BY <2>1, <3>1
    <2>3. CASE FailCallEarly(s)
      BY <1>3, <2>3 DEF FailCallEarly, WakeAssumption
    <2>4. CASE ReceiveFinal(s) \/ HandleTimeout(s) \/ LookUpContext(s) \/ RecordResponse(s)
      <3>1. tool' = tool
        BY <2>4 DEF ReceiveFinal, HandleTimeout, LookUpContext, RecordResponse
      <3>2. \/ UNCHANGED <<claim, subTasks>>
            \/ /\ \E v \in {"claimed", "timedOut", "summarizing", "recorded"} :
                     claim' = [claim EXCEPT ![s] = v]
               /\ subTasks \ {s} \subseteq subTasks'
        BY <1>3, <2>4 DEF ReceiveFinal, HandleTimeout, LookUpContext, RecordResponse, Claim, context
      <3> QED
        BY <1>1, <2>1, <3>1, <3>2
    <2>5. CASE ReceiveStatus(s) \/ ExpireTimer(s) \/ IgnoreTimeout(s) \/ DeliverCancel(s)
      <3>1. UNCHANGED <<tool, claim, subTasks>>
        BY <2>5 DEF ReceiveStatus, ExpireTimer, IgnoreTimeout, DeliverCancel, context
      <3> QED
        BY <2>1, <3>1
    <2> QED
      BY <2>2, <2>3, <2>4, <2>5 DEF SubTaskStep, ToolStep, ResponseStep, TimeoutStep
  <1>4. CASE RecordResponse(s) \/ HandleTimeout(s)
    <2>1. PICK kind \in {"response", "timeout"} :
             /\ RecordResult(s, kind) /\ UNCHANGED <<tool, tracked, total>>
             /\ claim' = [claim EXCEPT ![s] = IF kind = "response" THEN "recorded" ELSE "timedOut"]
             /\ claim[s] = "summarizing" \/ s \in subTasks
      BY <1>4 DEF RecordResponse, HandleTimeout, Claim
    <2>2. /\ RunsInOrder' /\ LatestWaits'
          /\ (\E i \in Invocation : Latest(i)) => \E i \in Invocation : Latest(i)'
          /\ \A i \in Invocation : Used(i) => Used(i)'
      <3>1. tool[s] # "idle"
        BY <2>1 DEF WakeInv, ClaimInv, UnsubmittedIsUnclaimed
      <3> QED
        BY <1>2, <2>1, <3>1, RecordWakes
    <2> QED
      BY <1>2, <1>3, <2>2 DEF WakeInv, ContextLives, NothingEndedBefore
  <1>5. CASE ~(RecordResponse(s) \/ HandleTimeout(s))
    <2>1. UNCHANGED <<run, tracked, total, completed>>
      BY <1>5 DEF SubTaskStep, ToolStep, ResponseStep, TimeoutStep, SubmitCall, FailCallEarly,
           FailCallLate, ReceiveStatus, ReceiveFinal, LookUpContext,
           ExpireTimer, IgnoreTimeout, DeliverCancel, counters
    <2>2. \A t \in SubTask :
             /\ \/ tool'[t] = tool[t]
                \/ tool[t] = "called" /\ tool'[t] \in {"sent", "failed"}
             /\ \/ claim'[t] = claim[t]
                \/ claim[t] \in {"none", "claimed"}
                   /\ claim'[t] \in {"claimed", "summarizing", "dropped"}
      <3>1. CASE SubmitCall(s) \/ FailCallLate(s) \/ FailCallEarly(s)
        BY <1>1, <3>1 DEF SubmitCall, FailCallLate, FailCallEarly
      <3>2. CASE ReceiveFinal(s)
        <4>1. s \in subTasks => claim[s] = "none"
          BY DEF WakeInv, ClaimInv, RegisteredIsUnclaimed
        <4> QED
          BY <1>1, <3>2, <4>1 DEF ReceiveFinal, Claim
      <3>3. CASE LookUpContext(s)
        BY <1>1, <3>3 DEF LookUpContext
      <3>4. CASE ReceiveStatus(s) \/ ExpireTimer(s) \/ IgnoreTimeout(s) \/ DeliverCancel(s)
        BY <3>4 DEF ReceiveStatus, ExpireTimer, IgnoreTimeout, DeliverCancel
      <3> QED
        BY <1>5, <3>1, <3>2, <3>3, <3>4 DEF SubTaskStep, ToolStep, ResponseStep, TimeoutStep
    <2>3. \A i \in Invocation : /\ Issued(i)' = Issued(i) /\ Settled(i)' = Settled(i)
                                /\ Calls(i, "called")' \subseteq Calls(i, "called")
      BY <2>2, CallSets DEF Issued, Settled, Calls
    <2>4. \A i \in Invocation : completed'[i] >= completed[i]
      BY <1>1, <2>1
    <2>5. RunsInOrder' /\ (\A i \in Invocation : Latest(i)' <=> Latest(i)) /\ LatestWaits'
      <3>1. \A i \in Invocation : run[i].pc # "rejected"
        BY DEF WakeInv, RunsInOrder
      <3> QED
        BY <1>1, <1>2, <2>1, <2>3, <2>4, <3>1, StaysLatest DEF Used, NoneEnded
    <2> QED
      BY <1>2, <1>3, <2>1, <2>5 DEF WakeInv, ContextLives, NothingEndedBefore, Used
  <1> QED
    BY <1>4, <1>5

\* Steps that touch neither the runs nor the calls: cancels and finalizations.
LEMMA OtherWakes ==
    ASSUME WakeInv, UNCHANGED <<run, tool, claim, subTasks, tracked, total, completed>>,
           active' => active /\ session' = session,
           active' => \A f \in Finalizer : fin'[f].pc # "done" /\ fin'[f].outcome # "retriggerError",
           NoneEnded' => NoneEnded, \E i \in Invocation : Used(i)
    PROVE  RunsInOrder' /\ NothingEndedBefore' /\ ContextLives' /\ LatestWaits'
  <1>1. \A i \in Invocation : /\ (Used(i)' <=> Used(i)) /\ (Latest(i)' <=> Latest(i))
                              /\ Waits(i)' <=> Waits(i)
    BY DEF Used, Latest, Waits, Issued, Settled, Calls
  <1>2. RunsInOrder' /\ NothingEndedBefore' /\ LatestWaits'
    BY <1>1 DEF WakeInv, RunsInOrder, NothingEndedBefore, LatestWaits
  <1>3. ContextLives'
    BY <1>1 DEF WakeInv, ContextLives
  <1> QED
    BY <1>2, <1>3

\* A finalization that has begun was scheduled after the request, and when the context
\* exists it was not scheduled by a failed resumption.
LEMMA FinalizerWakes ==
    ASSUME WakeInv, NEW f \in Finalizer, FinalizerStep(f)
    PROVE  RunsInOrder' /\ NothingEndedBefore' /\ ContextLives' /\ LatestWaits'
  <1>1. fin \in [Finalizer -> [pc : FinPC, outcome : Outcome]]
    BY DEF WakeInv, ClaimInv, TypeOK
  <1>2. /\ UNCHANGED <<run, tool, claim, subTasks, tracked, total, completed>>
        /\ fin[f].pc # "none"
    BY DEF FinalizerStep, StartFinalization, PublishFinalResponse, RemoveContext, counters
  <1>3. \E i \in Invocation : Used(i)
    BY <1>2 DEF WakeInv, NothingEndedBefore
  <1>4. /\ active' => active /\ session' = session
        /\ active' => \E p \in {"awaiting", "deleting"} : fin' = [fin EXCEPT ![f].pc = p]
        /\ \E p \in {"awaiting", "deleting", "done"} : fin' = [fin EXCEPT ![f].pc = p]
    <2>1. CASE StartFinalization(f)
      BY <2>1 DEF StartFinalization, Published
    <2>2. CASE PublishFinalResponse(f)
      <3>1. active => fin[f].outcome # "retriggerError"
        BY DEF WakeInv, ContextLives
      <3> QED
        BY <2>2, <3>1 DEF PublishFinalResponse, Published
    <2>3. CASE RemoveContext(f)
      BY <2>3 DEF RemoveContext
    <2> QED
      BY <2>1, <2>2, <2>3 DEF FinalizerStep
  <1>5. active' => \A g \in Finalizer : fin'[g].pc # "done" /\ fin'[g].outcome # "retriggerError"
    BY <1>1, <1>4 DEF WakeInv, ContextLives
  <1>6. NoneEnded' => NoneEnded
    BY <1>1, <1>4 DEF NoneEnded
  <1> QED
    BY <1>2, <1>3, <1>4, <1>5, <1>6, OtherWakes

\* Every step keeps the task awake.
LEMMA WakeNext == WakeAssumption /\ WakeInv /\ [Next]_vars => WakeInv'
  <1> SUFFICES ASSUME WakeAssumption, WakeInv, [Next]_vars
               PROVE  WakeInv'
    OBVIOUS
  <1> DEFINE Kept == RunsInOrder /\ NothingEndedBefore /\ ContextLives /\ LatestWaits
  <1>1. ClaimInv' /\ TypeOK'
    BY ClaimInvInductive DEF WakeInv, ClaimInv
  <1>2. ASSUME NEW i \in Invocation, ReceiveRequest(i) \/ RunStep(i)
        PROVE  Kept'
    BY <1>1, <1>2, RunWakes
  <1>3. ASSUME NEW s \in SubTask, SubTaskStep(s)
        PROVE  Kept'
    BY <1>1, <1>3, SubTaskWakes
  <1>4. ASSUME NEW f \in Finalizer, FinalizerStep(f)
        PROVE  Kept'
    BY <1>4, FinalizerWakes
  <1>5. ASSUME NEW q \in CancelRequest, ReceiveCancel(q)
        PROVE  Kept'
    <2>1. UNCHANGED <<run, tool, claim, subTasks, tracked, total, completed, active, session>>
      BY <1>5 DEF ReceiveCancel, counters
    <2>2. CASE UNCHANGED fin
      <3>1. \A i \in Invocation : /\ (Used(i)' <=> Used(i)) /\ (Latest(i)' <=> Latest(i))
                                  /\ Waits(i)' <=> Waits(i)
        BY <2>1 DEF Used, Latest, Waits, Issued, Settled, Calls
      <3> QED
        BY <2>1, <2>2, <3>1
           DEF WakeInv, RunsInOrder, NothingEndedBefore, ContextLives, LatestWaits, NoneEnded
    <2>3. CASE active /\ Schedule(q, "canceled")
      <3>1. fin \in [Finalizer -> [pc : FinPC, outcome : Outcome]] /\ q \in Finalizer
        BY DEF WakeInv, ClaimInv, TypeOK, Finalizer
      <3>2. \A f \in Finalizer : fin'[f].pc # "done" /\ fin'[f].outcome # "retriggerError"
        BY <2>3, <3>1 DEF Schedule, WakeInv, ContextLives
      <3>3. \E i \in Invocation : Used(i)
        BY <2>3 DEF WakeInv, ContextLives, Latest
      <3>4. ~NoneEnded'
        BY <2>3, <3>1 DEF Schedule, NoneEnded
      <3> QED
        BY <2>1, <3>2, <3>3, <3>4, OtherWakes
    <2> QED
      BY <1>5, <2>2, <2>3 DEF ReceiveCancel
  <1>6. ASSUME UNCHANGED vars
        PROVE  Kept'
    <2>1. UNCHANGED <<run, tool, claim, subTasks, tracked, total, completed, active, session, fin>>
      BY <1>6 DEF vars, context, counters
    <2>2. \A i \in Invocation : /\ (Used(i)' <=> Used(i)) /\ (Latest(i)' <=> Latest(i))
                                /\ Waits(i)' <=> Waits(i)
      BY <2>1 DEF Used, Latest, Waits, Issued, Settled, Calls
    <2> QED
      BY <2>1, <2>2
         DEF WakeInv, RunsInOrder, NothingEndedBefore, ContextLives, LatestWaits, NoneEnded
  <1> HIDE DEF Kept
  <1>7. Kept'
    BY <1>2, <1>3, <1>4, <1>5, <1>6 DEF Next, SubTaskStep, Terminated
  <1> QED
    BY <1>1, <1>7 DEF WakeInv, Kept

\* A task whose context exists is never forgotten, although submissions may fail after
\* the registration, the model may raise, and cancels arrive at any time.
THEOREM TaskIsWoken == WakeAssumption => (Spec => []SomethingWakesTask)
  <1> SUFFICES ASSUME WakeAssumption
               PROVE  Spec => []SomethingWakesTask
    OBVIOUS
  <1>1. Init => WakeInv
    <2> SUFFICES ASSUME Init PROVE WakeInv
      OBVIOUS
    <2>1. ClaimInv
      BY InitType DEF Init, ClaimInv, IdleBeforeTools, UnsubmittedIsUnclaimed,
                      RegisteredIsUnclaimed, ResultsShowClaim
    <2>2. \A i \in Invocation : run[i] = [pc |-> "unused", cause |-> NoCause] /\ NoCause < i
      BY DEF Init, NoCause, Invocation
    <2> QED
      BY <2>1, <2>2
         DEF Init, WakeInv, RunsInOrder, NothingEndedBefore, ContextLives, LatestWaits, Used, Latest
  <1>2. WakeInv /\ [Next]_vars => WakeInv'
    BY WakeNext
  <1>3. WakeInv => SomethingWakesTask
    <2> SUFFICES ASSUME WakeInv, active,
                        \A i \in Invocation : run[i].pc \in {"unused", "done", "rejected"},
                        \A f \in Finalizer : fin[f].pc \notin {"scheduled", "awaiting", "deleting"}
                 PROVE  \/ \E s \in SubTask : claim[s] \in {"claimed", "summarizing"}
                        \/ subTasks # {}
      BY DEF SomethingWakesTask
    <2>1. NoneEnded
      BY DEF WakeInv, ContextLives, ClaimInv, TypeOK, FinPC, NoneEnded
    <2>2. PICK i \in Invocation : Latest(i)
      BY DEF WakeInv, ContextLives
    <2>3. run[i].pc = "done" /\ Waits(i)
      BY <2>1, <2>2 DEF WakeInv, RunsInOrder, LatestWaits, Latest, Used
    <2>4. PICK c \in Issued(i) : c \notin Settled(i)
      BY <2>3 DEF Waits
    <2>5. /\ <<i, c>> \in SubTask /\ tool[<<i, c>>] \in {"sent", "failed"}
          /\ claim[<<i, c>>] \notin {"recorded", "timedOut"}
      BY <2>3, <2>4, CallSets DEF Waits, Issued, Calls, Settled, WakeInv, ClaimInv, TypeOK
    <2>6. claim[<<i, c>>] # "dropped" /\ (<<i, c>> \in subTasks \/ claim[<<i, c>>] # "none")
      BY <2>5 DEF WakeInv, ContextLives
    <2> QED
      BY <2>5, <2>6 DEF WakeInv, ClaimInv, TypeOK
  <1> QED
    BY <1>1, <1>2, <1>3, PTL DEF Spec

-----------------------------------------------------------------------------
(***************************************************************************)
(* The results of the peer calls, for tasks whose calls do not fail after  *)
(* they were registered: with such a failure one call may have two         *)
(* results.                                                                *)
(***************************************************************************)
NoLateFailure == "late" \notin SubmitFailures

-----------------------------------------------------------------------------
(* The inductive invariant.                                                *)

Answered(i) == {c \in Call : \E k \in Kind : <<c, k>> \in results[i]}
Waiting(i) == Issued(i) \ Answered(i)

\* An invocation whose run, or whose calls, may still go on.
Early == {"prepare", "getSession", "llm"}
Busy(i) ==
    \/ run[i].pc \in Early
    \/ run[i].pc = "tools" /\ Waiting(i) # {}
    \/ run[i].pc = "done" /\ Calls(i, "sent") \cap Waiting(i) # {}

\* There is one at a time, although the results of a turn may resume the agent while
\* the run of that turn has not ended; the shared invocation id is its own; and a run
\* is started with the results of a turn that has them all.
OneBusy == \A i, j \in Invocation : Busy(i) /\ Busy(j) => i = j
LastIsBusy ==
    \A i \in Invocation : run[i].pc = "tools" /\ Waiting(i) # {} => lastInvocation = i
IssuedByTurn == \A i \in Invocation : run[i].pc = "tools" => Issued(i) # {}
CauseIsAnswered ==
    /\ \A j \in Invocation : /\ run[j].pc = "unused" => run[j].cause = NoCause
                             /\ run[j].pc = "getSession" => run[j].cause # NoCause
    /\ \A i, j \in Invocation :
          run[j].cause = i => Waiting(i) = {} /\ run[i].pc \in {"tools", "done"}

TurnInv == OneBusy /\ LastIsBusy /\ IssuedByTurn /\ CauseIsAnswered

\* A call that failed synchronously was never registered, its result is stored when
\* the run pauses, and every counter is the number of the calls it is about.
FailedIsUnclaimed ==
    \A s \in SubTask : tool[s] = "failed" => s \notin subTasks /\ claim[s] = "none"
SyncOfFailed ==
    \A i \in Invocation, c \in Call :
        <<c, "sync">> \in results[i] => tool[<<i, c>>] = "failed" /\ run[i].pc = "done"
Counted ==
    \A i \in Invocation :
        /\ completed[i] = Cardinality(results[i]) /\ completed[i] = Cardinality(Answered(i))
        /\ i \in tracked =>
              run[i].pc \in {"tools", "done"} /\ total[i] = Cardinality(Issued(i))

RecordInv == FailedIsUnclaimed /\ SyncOfFailed /\ Counted

JoinInv == ClaimInv /\ TurnInv /\ RecordInv

-----------------------------------------------------------------------------
(* Calls and their results.                                                *)

\* A call with a result was submitted or failed, and has that result only.
LEMMA AnsweredCall ==
    ASSUME JoinInv, NEW i \in Invocation, NEW c \in Call, NEW k \in Kind,
           <<c, k>> \in results[i]
    PROVE  /\ k = "response" => claim[<<i, c>>] = "recorded"
           /\ k = "timeout" => claim[<<i, c>>] = "timedOut"
           /\ k = "sync" => claim[<<i, c>>] = "none"
           /\ k # "sync" => tool[<<i, c>>] = "sent"
           /\ k = "sync" => tool[<<i, c>>] = "failed"
           /\ c \in Issued(i) /\ run[i].pc \in {"tools", "done", "rejected"}
  <1>1. /\ <<i, c>> \in SubTask
        /\ tool[<<i, c>>] \in {"idle", "called", "sent", "failed"}
        /\ run[i].pc \in RunPC
    BY DEF SubTask, JoinInv, ClaimInv, TypeOK
  <1>2. /\ k = "response" => claim[<<i, c>>] = "recorded"
        /\ k = "timeout" => claim[<<i, c>>] = "timedOut"
        /\ k = "sync" => tool[<<i, c>>] = "failed"
    BY DEF JoinInv, ClaimInv, ResultsShowClaim, RecordInv, SyncOfFailed
  <1>3. /\ tool[<<i, c>>] = "failed" => claim[<<i, c>>] = "none"
        /\ tool[<<i, c>>] \in {"idle", "called"} => claim[<<i, c>>] = "none"
    BY <1>1 DEF JoinInv, ClaimInv, UnsubmittedIsUnclaimed, RecordInv, FailedIsUnclaimed
  <1>4. k # "sync" => tool[<<i, c>>] = "sent"
    BY <1>1, <1>2, <1>3 DEF Kind
  <1>5. run[i].pc \in BeforeTools => tool[<<i, c>>] = "idle"
    BY <1>1 DEF JoinInv, ClaimInv, IdleBeforeTools
  <1> QED
    BY <1>1, <1>2, <1>3, <1>4, <1>5, CallSets DEF BeforeTools, RunPC, Kind

\* A call has at most one result.
LEMMA OneResult ==
    ASSUME JoinInv, NEW i \in Invocation, NEW c \in Call, NEW k \in Kind, NEW m \in Kind,
           <<c, k>> \in results[i], <<c, m>> \in results[i]
    PROVE  k = m
  BY AnsweredCall DEF Kind

\* Storing results of calls that have none counts each of them once.
LEMMA StoreCounts ==
    ASSUME TypeOK, NEW i \in Invocation, NEW calls \in SUBSET Call, NEW kind \in Kind,
           Store(i, calls, kind), calls \cap Answered(i) = {},
           completed[i] = Cardinality(results[i]), completed[i] = Cardinality(Answered(i))
    PROVE  /\ Answered(i)' = Answered(i) \cup calls
           /\ completed'[i] = completed[i] + Cardinality(calls)
           /\ completed'[i] = Cardinality(results'[i])
           /\ completed'[i] = Cardinality(Answered(i)')
           /\ \A j \in Invocation \ {i} :
                 results'[j] = results[j] /\ completed'[j] = completed[j]
  <1>1. /\ results \in [Invocation -> SUBSET (Call \X Kind)]
        /\ completed \in [Invocation -> Nat]
    BY DEF TypeOK
  <1>2. /\ results'[i] = results[i] \cup (calls \X {kind})
        /\ completed'[i] = completed[i] + Cardinality(calls)
        /\ \A j \in Invocation \ {i} :
              results'[j] = results[j] /\ completed'[j] = completed[j]
    BY <1>1 DEF Store
  <1>3. Answered(i)' = Answered(i) \cup calls
    BY <1>1, <1>2 DEF Answered
  <1>4. (calls \X {kind}) \cap results[i] = {}
    BY <1>1 DEF Answered
  <1>5. IsFiniteSet(calls) /\ Cardinality(calls) \in Nat /\ IsFiniteSet({kind})
        /\ Cardinality({kind}) = 1
    BY CallAssumption, FS_Subset, FS_CardinalityType, FS_Singleton
  <1>6. IsFiniteSet(calls \X {kind}) /\ Cardinality(calls \X {kind}) = Cardinality(calls)
    <2>1. IsFiniteSet(calls \X {kind})
          /\ Cardinality(calls \X {kind}) = Cardinality(calls) * Cardinality({kind})
      BY <1>5, FS_Product
    <2>2. Cardinality(calls) * Cardinality({kind}) = Cardinality(calls)
      BY <1>5
    <2> QED
      BY <2>1, <2>2
  <1>7. IsFiniteSet(Call \X Kind)
    <2>1. IsFiniteSet({"response", "timeout", "sync"})
      <3>1. IsFiniteSet({"response"} \cup {"timeout"}) 
        BY FS_Singleton, FS_Union
      <3>2. IsFiniteSet(({"response"} \cup {"timeout"}) \cup {"sync"})
        BY <3>1, FS_Singleton, FS_Union
      <3>3. ({"response"} \cup {"timeout"}) \cup {"sync"} = {"response", "timeout", "sync"}
        OBVIOUS
      <3> QED
        BY <3>2, <3>3
    <2> QED
      BY <2>1, CallAssumption, FS_Product DEF Kind
  <1>8. IsFiniteSet(results[i]) /\ IsFiniteSet(Answered(i))
    <2>1. results[i] \in SUBSET (Call \X Kind) /\ Answered(i) \in SUBSET Call
      BY <1>1 DEF Answered
    <2> QED
      BY <1>7, <2>1, CallAssumption, FS_Subset
  <1>9. Cardinality({}) = 0
    BY FS_EmptySet
  <1>10. Cardinality(results[i] \cup (calls \X {kind})) = Cardinality(results[i]) + Cardinality(calls)
    <2>1. Cardinality(results[i] \cap (calls \X {kind})) = 0
      <3>1. results[i] \cap (calls \X {kind}) = {}
        BY <1>4
      <3> QED
        BY <1>9, <3>1
    <2>2. Cardinality(results[i]) \in Nat
      BY <1>8, FS_CardinalityType
    <2>3. Cardinality(results[i] \cup (calls \X {kind}))
             = Cardinality(results[i]) + Cardinality(calls \X {kind})
                 - Cardinality(results[i] \cap (calls \X {kind}))
      BY <1>6, <1>8, FS_Union
    <2> QED
      BY <1>5, <1>6, <2>1, <2>2, <2>3
  <1>11. Cardinality(Answered(i) \cup calls) = Cardinality(Answered(i)) + Cardinality(calls)
    <2>1. Cardinality(Answered(i) \cap calls) = 0
      <3>1. Answered(i) \cap calls = {}
        OBVIOUS
      <3> QED
        BY <1>9, <3>1
    <2>2. Cardinality(Answered(i)) \in Nat
      BY <1>8, FS_CardinalityType
    <2>3. Cardinality(Answered(i) \cup calls)
             = Cardinality(Answered(i)) + Cardinality(calls) - Cardinality(Answered(i) \cap calls)
      BY <1>5, <1>8, FS_Union
    <2> QED
      BY <1>5, <2>1, <2>2, <2>3
  <1> QED
    BY <1>2, <1>3, <1>10, <1>11

\* When as many calls have a result as were issued, all of them have one.
LEMMA AllCounted ==
    ASSUME NEW issued \in SUBSET Call, NEW answered, answered \subseteq issued,
           Cardinality(answered) >= Cardinality(issued)
    PROVE  issued = answered
  <1>1. IsFiniteSet(issued) /\ Cardinality(issued) \in Nat
    BY CallAssumption, FS_Subset, FS_CardinalityType
  <1>2. Cardinality(answered) <= Cardinality(issued) /\ Cardinality(answered) \in Nat
    BY <1>1, FS_Subset, FS_CardinalityType
  <1>3. Cardinality(issued) = Cardinality(answered)
    BY <1>1, <1>2
  <1> QED
    BY <1>1, <1>3, FS_Subset

-----------------------------------------------------------------------------
(* Steps that start no run and issue no call.                              *)

\* A run goes on or ends, results come in.
Calm ==
    /\ \A i \in Invocation :
          /\ run'[i].cause = run[i].cause
          /\ \/ run'[i].pc = run[i].pc
             \/ run[i].pc \in Early /\ run'[i].pc \in {"llm", "done", "rejected"}
             \/ run[i].pc = "tools" /\ run'[i].pc = "done"
          /\ Issued(i)' = Issued(i) /\ Answered(i) \subseteq Answered(i)'
          /\ run[i].pc = "done" => Calls(i, "sent")' = Calls(i, "sent")
    /\ \/ lastInvocation' = lastInvocation
       \/ \E j \in Invocation :
             lastInvocation' = j /\ run[j].pc \in Early /\ run'[j].pc = "done"

\* A step that touches no turn keeps what is known of every turn.
LEMMA CalmTurn ==
    ASSUME JoinInv, Calm
    PROVE  TurnInv'
  <1>2. \A i \in Invocation : Waiting(i)' \subseteq Waiting(i)
    BY DEF Calm, Waiting
  <1>3. ASSUME NEW i \in Invocation, Busy(i)'
        PROVE  Busy(i)
    <2>1. CASE run'[i].pc \in Early
      BY <1>3, <2>1 DEF Calm, Busy, Early
    <2>2. CASE run'[i].pc = "tools"
      BY <1>2, <1>3, <2>2 DEF Calm, Busy, Early
    <2>3. CASE run'[i].pc = "done"
      <3>1. Calls(i, "sent")' \cap Waiting(i)' # {}
        BY <1>3, <2>3 DEF Busy, Early
      <3>2. CASE run[i].pc = "done"
        BY <1>2, <3>1, <3>2 DEF Calm, Busy
      <3>3. CASE run[i].pc = "tools"
        BY <1>2, <3>1, <3>3 DEF Busy
      <3>4. CASE run[i].pc \in Early
        BY <3>4 DEF Busy
      <3> QED
        BY <2>3, <3>2, <3>3, <3>4 DEF Calm
    <2> QED
      BY <1>3, <2>1, <2>2, <2>3 DEF Busy
  <1>4. OneBusy'
    BY <1>3 DEF JoinInv, TurnInv, OneBusy
  <1>5. LastIsBusy'
    <2> SUFFICES ASSUME NEW i \in Invocation, run'[i].pc = "tools", Waiting(i)' # {}
                 PROVE  lastInvocation' = i
      BY DEF LastIsBusy
    <2>1. run[i].pc = "tools" /\ Waiting(i) # {}
      BY <1>2 DEF Calm, Early
    <2>2. lastInvocation = i /\ Busy(i)
      BY <2>1 DEF JoinInv, TurnInv, LastIsBusy, Busy
    <2>3. ASSUME NEW j \in Invocation, run[j].pc \in Early
          PROVE  FALSE
      <3>1. Busy(j)
        BY <2>3 DEF Busy
      <3>2. i = j
        BY <2>2, <3>1 DEF JoinInv, TurnInv, OneBusy
      <3> QED
        BY <2>1, <2>3, <3>2 DEF Early
    <2> QED
      BY <2>2, <2>3 DEF Calm
  <1>6. IssuedByTurn'
    BY DEF JoinInv, TurnInv, IssuedByTurn, Calm, Early
  <1>7. CauseIsAnswered'
    <2>1. \A i \in Invocation : run'[i].cause = run[i].cause
      BY DEF Calm
    <2>2. \A i \in Invocation : run'[i].pc = "unused" => run[i].pc = "unused"
      BY DEF Calm, Early
    <2>3. \A i \in Invocation :
             run[i].pc \in {"tools", "done"} => run'[i].pc \in {"tools", "done"}
      BY DEF Calm, Early
    <2>4. \A i \in Invocation : run'[i].pc = "getSession" => run[i].pc = "getSession"
      BY DEF Calm
    <2> QED
      BY <1>2, <2>1, <2>2, <2>3, <2>4 DEF JoinInv, TurnInv, CauseIsAnswered
  <1> QED
    BY <1>4, <1>5, <1>6, <1>7 DEF TurnInv

-----------------------------------------------------------------------------
(* Steps that start a run or issue calls.                                  *)

\* The invocation that was busy hands over to a new one.
LEMMA NewRunTurn ==
    ASSUME JoinInv, NEW j \in Invocation, NEW pc \in Early, NEW k \in Invocation \cup {NoCause},
           run[j].pc = "unused", run'[j] = [pc |-> pc, cause |-> k],
           pc = "getSession" => k # NoCause,
           lastInvocation' = lastInvocation,
           \A i \in Invocation \ {j} :
              /\ ~Busy(i)' /\ run'[i].cause = run[i].cause
              /\ run'[i].pc = run[i].pc \/ (run[i].pc = "tools" /\ run'[i].pc = "done"),
           \A i \in Invocation :
              Issued(i)' = Issued(i) /\ Answered(i) \subseteq Answered(i)',
           k \in Invocation => Waiting(k)' = {} /\ run'[k].pc \in {"tools", "done"}
    PROVE  TurnInv'
  <1>1. \A i \in Invocation : Waiting(i)' \subseteq Waiting(i)
    BY DEF Waiting
  <1>2. run'[j].pc \in Early /\ run'[j].pc \notin {"unused", "tools", "done"} /\ run'[j].cause = k
    BY DEF Early
  <1>3. OneBusy'
    BY DEF OneBusy
  <1>4. LastIsBusy'
    <2> SUFFICES ASSUME NEW i \in Invocation, run'[i].pc = "tools", Waiting(i)' # {}
                 PROVE  FALSE
      BY DEF LastIsBusy
    <2>1. Busy(i)' /\ i # j
      BY <1>2 DEF Busy
    <2> QED
      BY <2>1
  <1>5. IssuedByTurn'
    BY <1>2 DEF JoinInv, TurnInv, IssuedByTurn
  <1>6. CauseIsAnswered'
    <2>1. \A i \in Invocation : /\ run'[i].pc = "unused" => run'[i].cause = NoCause
                                /\ run'[i].pc = "getSession" => run'[i].cause # NoCause
      BY <1>2 DEF JoinInv, TurnInv, CauseIsAnswered
    <2>2. ASSUME NEW i \in Invocation, NEW x \in Invocation \ {j}, run'[x].cause = i
          PROVE  Waiting(i)' = {} /\ run'[i].pc \in {"tools", "done"}
      <3>1. Waiting(i) = {} /\ run[i].pc \in {"tools", "done"}
        BY <2>2 DEF JoinInv, TurnInv, CauseIsAnswered
      <3> QED
        BY <1>1, <3>1
    <2> QED
      BY <1>2, <2>1, <2>2 DEF CauseIsAnswered
  <1> QED
    BY <1>3, <1>4, <1>5, <1>6 DEF TurnInv

\* The busy invocation issues its calls.
LEMMA CallTurn ==
    ASSUME JoinInv, NEW i \in Invocation, NEW called \in SUBSET Call, CallPeers(i, called)
    PROVE  TurnInv' /\ RecordInv'
  <1>1. TypeOK /\ IdleBeforeTools
    BY DEF JoinInv, ClaimInv
  <1>2. /\ run[i].pc = "llm" /\ run'[i].pc = "tools" /\ called # {} /\ lastInvocation' = i
        /\ \A j \in Invocation \ {i} : run'[j] = run[j]
        /\ run'[i].cause = run[i].cause
        /\ UNCHANGED <<completed, results, subTasks, claim>>
    BY <1>1 DEF CallPeers, TypeOK, context
  <1>3. \A s \in SubTask : tool'[s] = IF s[1] = i /\ s[2] \in called THEN "called" ELSE tool[s]
    BY DEF CallPeers
  <1>4. \A c \in Call : tool[<<i, c>>] = "idle"
    BY <1>1, <1>2, CallSets DEF IdleBeforeTools, BeforeTools
  <1>5. \A j \in Invocation : Answered(j)' = Answered(j)
    BY <1>2 DEF Answered
  <1>6. /\ \A j \in Invocation \ {i} :
              Issued(j)' = Issued(j) /\ Calls(j, "sent")' = Calls(j, "sent")
        /\ Issued(i)' = called
    BY <1>3, <1>4, CallSets DEF Issued, Calls
  <1>7. \A j \in Invocation \ {i} : Waiting(j)' = Waiting(j)
    BY <1>5, <1>6 DEF Waiting
  <1>8. Busy(i) /\ \A j \in Invocation \ {i} : ~Busy(j)' /\ ~Busy(j)
    <2>1. Busy(i)
      BY <1>2 DEF Busy, Early
    <2>2. \A j \in Invocation \ {i} : ~Busy(j)
      BY <2>1 DEF JoinInv, TurnInv, OneBusy
    <2> QED
      BY <1>2, <1>6, <1>7, <2>1, <2>2 DEF Busy
  <1>9. OneBusy'
    BY <1>8 DEF OneBusy
  <1>10. LastIsBusy'
    BY <1>2, <1>8 DEF LastIsBusy, Busy
  <1>11. IssuedByTurn'
    BY <1>2, <1>6 DEF JoinInv, TurnInv, IssuedByTurn
  <1>12. CauseIsAnswered'
    <2>1. \A j \in Invocation : run'[j].cause = run[j].cause
      BY <1>2
    <2>2. \A j \in Invocation : /\ run'[j].pc = "unused" => run[j].pc = "unused"
                                /\ run'[j].pc = "getSession" => run[j].pc = "getSession"
      BY <1>2
    <2>3. \A j, k \in Invocation : run[k].cause = j => j # i
      BY <1>2 DEF JoinInv, TurnInv, CauseIsAnswered
    <2> QED
      BY <1>2, <1>7, <2>1, <2>2, <2>3 DEF JoinInv, TurnInv, CauseIsAnswered
  <1>13. FailedIsUnclaimed'
    BY <1>2, <1>3 DEF JoinInv, RecordInv, FailedIsUnclaimed
  <1>14. SyncOfFailed'
    <2>1. \A c \in Call : <<c, "sync">> \notin results[i]
      BY <1>2 DEF JoinInv, RecordInv, SyncOfFailed
    <2> QED
      BY <1>2, <1>3, <2>1 DEF JoinInv, RecordInv, SyncOfFailed, SubTask
  <1>15. Counted'
    <2>1. i \notin tracked
      BY <1>2 DEF JoinInv, RecordInv, Counted
    <2>2. /\ tracked' \subseteq tracked \cup {i}
          /\ i \in tracked' => total'[i] = Cardinality(called)
          /\ \A j \in Invocation \ {i} : total'[j] = total[j]
      BY <1>1, <2>1 DEF CallPeers, Preregister, TypeOK
    <2> QED
      BY <1>2, <1>5, <1>6, <2>2 DEF JoinInv, RecordInv, Counted
  <1> QED
    BY <1>9, <1>10, <1>11, <1>12, <1>13, <1>14, <1>15 DEF TurnInv, RecordInv

-----------------------------------------------------------------------------
(* Results.                                                                *)

\* Nothing is stored and no call is issued.
LEMMA NothingStored ==
    ASSUME JoinInv, results' = results, completed' = completed, total' = total,
           tracked' \subseteq tracked,
           \A i \in Invocation :
              /\ Issued(i)' = Issued(i)
              /\ run[i].pc \in {"tools", "done"} => run'[i].pc \in {run[i].pc, "done"}
              /\ Calls(i, "failed") \subseteq Calls(i, "failed")'
    PROVE  SyncOfFailed' /\ Counted'
  <1>1. \A i \in Invocation : Answered(i)' = Answered(i)
    BY DEF Answered
  <1>2. Counted'
    BY <1>1 DEF JoinInv, RecordInv, Counted
  <1>3. SyncOfFailed'
    <2> SUFFICES ASSUME NEW i \in Invocation, NEW c \in Call, <<c, "sync">> \in results[i]
                 PROVE  tool'[<<i, c>>] = "failed" /\ run'[i].pc = "done"
      BY DEF SyncOfFailed
    <2>1. tool[<<i, c>>] = "failed" /\ run[i].pc = "done"
      BY DEF JoinInv, RecordInv, SyncOfFailed
    <2>2. c \in Calls(i, "failed")'
      BY <2>1 DEF Calls
    <2> QED
      BY <2>1, <2>2 DEF Calls
  <1> QED
    BY <1>2, <1>3

\* The result of a submitted call that has none is counted, and the last one resumes
\* the agent.
LEMMA RecordResultJoin ==
    ASSUME JoinInv, NEW s \in SubTask, NEW kind \in {"response", "timeout"},
           RecordResult(s, kind), tool[s] = "sent", claim[s] \in {"none", "summarizing"},
           UNCHANGED <<tool, tracked, total, lastInvocation>>
    PROVE  /\ TurnInv' /\ SyncOfFailed' /\ Counted'
           /\ s[2] \in Waiting(s[1])
           /\ \/ UNCHANGED <<results, run>>
              \/ /\ Answered(s[1])' = Answered(s[1]) \cup {s[2]}
                 /\ \A j \in Invocation \ {s[1]} : results'[j] = results[j]
                 /\ \/ run' = run
                    \/ /\ Waiting(s[1])' = {}
                       /\ \E j \in Invocation :
                             /\ run[j].pc = "unused"
                             /\ run' = Started(j, "getSession", s[1])
  <1> DEFINE i == s[1]  c == s[2]
  <1>1. i \in Invocation /\ c \in Call /\ s = <<i, c>> /\ {c} \in SUBSET Call
        /\ kind \in Kind /\ kind # "sync"
    BY DEF SubTask, Kind
  <1>2. TypeOK /\ run \in [Invocation -> [pc : RunPC, cause : Invocation \cup {NoCause}]]
    BY DEF JoinInv, ClaimInv, TypeOK
  <1>3. \A j \in Invocation : /\ Issued(j)' = Issued(j)
                              /\ \A st : Calls(j, st)' = Calls(j, st)
    BY DEF Issued, Calls
  <1>4. c \in Issued(i) /\ c \notin Answered(i)
    <2>1. c \in Issued(i)
      BY <1>1, CallSets
    <2>2. ASSUME NEW k \in Kind, <<c, k>> \in results[i]
          PROVE  FALSE
      BY <1>1, <2>2, AnsweredCall DEF Kind
    <2> QED
      BY <2>1, <2>2 DEF Answered
  <1>5. c \in Waiting(i) /\ c \in Calls(i, "sent")
    BY <1>1, <1>4, CallSets DEF Waiting
  <1>6. CASE i \notin tracked
    <2>1. UNCHANGED <<results, completed, run>>
      BY <1>6 DEF RecordResult
    <2>2. Calm
      BY <1>3, <2>1 DEF Calm, Answered
    <2> QED
      BY <1>3, <1>5, <2>1, <2>2, CalmTurn, NothingStored
  <1>7. CASE i \in tracked
    <2>1. Store(i, {c}, kind)
      BY <1>7 DEF RecordResult
    <2>2. /\ completed[i] = Cardinality(results[i]) /\ completed[i] = Cardinality(Answered(i))
          /\ run[i].pc \in {"tools", "done"} /\ total[i] = Cardinality(Issued(i))
      BY <1>1, <1>7 DEF JoinInv, RecordInv, Counted
    <2>3. /\ Answered(i)' = Answered(i) \cup {c}
          /\ completed'[i] = completed[i] + Cardinality({c})
          /\ completed'[i] = Cardinality(results'[i])
          /\ completed'[i] = Cardinality(Answered(i)')
          /\ \A j \in Invocation \ {i} :
                results'[j] = results[j] /\ completed'[j] = completed[j]
      <3>1. {c} \cap Answered(i) = {}
        BY <1>4
      <3> QED
        BY <1>1, <1>2, <2>1, <2>2, <3>1, StoreCounts
    <2>4. \A j \in Invocation \ {i} : Answered(j)' = Answered(j) /\ Waiting(j)' = Waiting(j)
      BY <1>3, <2>3 DEF Answered, Waiting
    <2>5. \A j \in Invocation : Answered(j) \subseteq Answered(j)'
      BY <2>3, <2>4
    <2>6. ASSUME NEW j \in Invocation, NEW x \in Call, <<x, "sync">> \in results'[j]
          PROVE  <<x, "sync">> \in results[j]
      <3>1. "sync" \in Kind
        BY DEF Kind
      <3>2. <<x, "sync">> \notin results[j] => j = i /\ x \in {c} /\ "sync" = kind
        BY <1>1, <1>2, <2>1, <2>6, <3>1, StoreAddsOnly
      <3> QED
        BY <1>1, <3>2
    <2>7. CASE ~AllCallsComplete(i)
      <3>1. run' = run
        BY <1>7, <2>7 DEF RecordResult
      <3>2. Calm
        BY <1>3, <2>5, <3>1 DEF Calm
      <3>3. SyncOfFailed'
        BY <2>6, <3>1 DEF JoinInv, RecordInv, SyncOfFailed
      <3>4. Counted'
        BY <1>3, <2>3, <2>4, <3>1, ZenonT(60) DEF JoinInv, RecordInv, Counted
      <3> QED
        BY <1>5, <2>3, <3>1, <3>2, <3>3, <3>4, CalmTurn
    <2>8. CASE AllCallsComplete(i)
      <3>1. PICK j \in Invocation : Fresh(j) /\ run' = Started(j, "getSession", i)
        BY <1>7, <2>8 DEF RecordResult, Retrigger
      <3>2. /\ run[j].pc = "unused" /\ run'[j] = [pc |-> "getSession", cause |-> i]
            /\ \A x \in Invocation \ {j} : run'[x] = run[x]
        BY <1>2, <3>1 DEF Fresh, Started
      <3>3. j # i /\ j \notin tracked
        BY <2>2, <3>2 DEF JoinInv, RecordInv, Counted
      <3>4. Waiting(i)' = {}
        <4>1. Cardinality({c}) = 1 /\ completed[i] \in Nat /\ total[i] \in Nat
          BY <1>1, <1>2, FS_Singleton DEF TypeOK
        <4>2. completed'[i] >= total[i]
          BY <2>3, <2>8, <4>1 DEF AllCallsComplete
        <4>3. Answered(i) \subseteq Issued(i)
          BY <1>1, AnsweredCall DEF Answered
        <4>4. Answered(i)' \subseteq Issued(i) /\ Issued(i) \in SUBSET Call
          BY <1>4, <2>3, <4>3 DEF Issued
        <4>5. Issued(i) = Answered(i)'
          BY <2>2, <2>3, <4>2, <4>4, AllCounted
        <4> QED
          BY <1>1, <1>3, <4>5 DEF Waiting
      <3>5. \A x \in Invocation \ {j} : ~Busy(x)'
        <4>1. Busy(i)
          BY <1>5, <2>2 DEF Busy
        <4>2. \A x \in Invocation \ {i} : ~Busy(x)
          BY <1>1, <4>1 DEF JoinInv, TurnInv, OneBusy
        <4>3. \A x \in Invocation \ {i, j} : ~Busy(x)'
          BY <1>3, <2>4, <3>2, <4>2 DEF Busy
        <4>4. ~Busy(i)'
          BY <1>1, <2>2, <3>2, <3>3, <3>4 DEF Busy, Early
        <4> QED
          BY <4>3, <4>4
      <3>6. "getSession" \in Early /\ i # NoCause /\ run'[i].pc \in {"tools", "done"}
        BY <1>1, <2>2, <3>2, <3>3 DEF Early, Invocation, NoCause
      <3>7. TurnInv'
        BY <1>1, <1>3, <2>5, <3>2, <3>4, <3>5, <3>6, NewRunTurn
      <3>8. SyncOfFailed'
        BY <2>6, <3>2 DEF JoinInv, RecordInv, SyncOfFailed
      <3>9. Counted'
        <4>1. ASSUME NEW x \in Invocation \ {j}
              PROVE  /\ completed'[x] = Cardinality(results'[x])
                     /\ completed'[x] = Cardinality(Answered(x)')
                     /\ x \in tracked => run[x].pc \in {"tools", "done"}
                                       /\ total[x] = Cardinality(Issued(x))
          <5>1. /\ completed[x] = Cardinality(results[x])
                /\ completed[x] = Cardinality(Answered(x))
                /\ x \in tracked => run[x].pc \in {"tools", "done"}
                                  /\ total[x] = Cardinality(Issued(x))
            BY DEF JoinInv, RecordInv, Counted
          <5>2. CASE x = i
            BY <2>3, <5>1, <5>2
          <5>3. CASE x # i
            BY <2>3, <2>4, <5>1, <5>3
          <5> QED
            BY <5>2, <5>3
        <4>2. /\ completed'[j] = Cardinality(results'[j])
              /\ completed'[j] = Cardinality(Answered(j)')
          BY <2>3, <2>4, <3>3 DEF JoinInv, RecordInv, Counted
        <4> QED
          BY <1>3, <3>2, <3>3, <4>1, <4>2, ZenonT(60) DEF Counted
      <3> QED
        BY <1>5, <2>3, <3>1, <3>2, <3>4, <3>7, <3>8, <3>9
    <2> QED
      BY <2>7, <2>8
  <1> QED
    BY <1>6, <1>7

\* When a run pauses, the calls that failed have no result, and the invocation id that
\* the results are stored under is its own.
LEMMA FailedWaits ==
    ASSUME JoinInv, NEW i \in Invocation, PauseRun(i)
    PROVE  /\ Calls(i, "failed") \subseteq Waiting(i)
           /\ Calls(i, "failed") # {} => lastInvocation = i
  <1>1. run[i].pc = "tools"
    BY DEF PauseRun, ToolsReturned
  <1>2. Calls(i, "failed") \subseteq Waiting(i)
    <2> SUFFICES ASSUME NEW c \in Calls(i, "failed"), NEW k \in Kind, <<c, k>> \in results[i]
                 PROVE  FALSE
      BY CallSets DEF Waiting, Answered, Issued, Calls
    <2>1. c \in Call /\ tool[<<i, c>>] = "failed"
      BY DEF Calls
    <2>2. k = "sync"
      BY <2>1, AnsweredCall
    <2> QED
      BY <1>1, <2>1, <2>2 DEF JoinInv, RecordInv, SyncOfFailed
  <1> QED
    BY <1>1, <1>2 DEF JoinInv, TurnInv, LastIsBusy

\* A run that pauses stores the synchronous results under its own invocation.
LEMMA PauseJoin ==
    ASSUME JoinInv, NEW i \in Invocation, PauseRun(i)
    PROVE  TurnInv' /\ RecordInv'
  <1> DEFINE failed == Calls(i, "failed")
  <1>1. /\ TypeOK /\ "sync" \in Kind /\ failed \in SUBSET Call
        /\ run \in [Invocation -> [pc : RunPC, cause : Invocation \cup {NoCause}]]
    BY DEF JoinInv, ClaimInv, TypeOK, Kind, Calls
  <1>2. /\ run[i].pc = "tools" /\ run' = [run EXCEPT ![i].pc = "done"]
        /\ tracked' \subseteq tracked
        /\ UNCHANGED <<subTasks, total, lastInvocation, tool, claim>>
    BY DEF PauseRun, ToolsReturned, RunLeaves
  <1>3. /\ run'[i].pc = "done" /\ run'[i].cause = run[i].cause
        /\ \A j \in Invocation \ {i} : run'[j] = run[j]
    BY <1>1, <1>2
  <1>4. failed \subseteq Waiting(i)
    BY FailedWaits
  <1>5. failed # {} => lastInvocation = i
    BY FailedWaits
  <1>6. \A j \in Invocation : /\ Issued(j)' = Issued(j)
                              /\ \A st : Calls(j, st)' = Calls(j, st)
    BY <1>2 DEF Issued, Calls
  <1>7. FailedIsUnclaimed'
    BY <1>2 DEF JoinInv, RecordInv, FailedIsUnclaimed
  <1>8. CASE lastInvocation \notin tracked
    <2>1. results' = results /\ completed' = completed
      BY <1>8 DEF PauseRun
    <2>2. Calm
      BY <1>2, <1>3, <1>6, <2>1 DEF Calm, Answered
    <2>3. SyncOfFailed' /\ Counted'
      BY <1>2, <1>3, <1>6, <2>1, NothingStored
    <2> QED
      BY <1>7, <2>2, <2>3, CalmTurn DEF RecordInv
  <1>9. CASE lastInvocation \in tracked
    <2>1. PICK l \in Invocation : l = lastInvocation /\ Store(l, failed, "sync")
      BY <1>1, <1>9 DEF PauseRun, TypeOK
    <2>2. failed \cap Answered(l) = {}
      BY <1>4, <1>5, <2>1 DEF Waiting
    <2>3. /\ completed[l] = Cardinality(results[l]) /\ completed[l] = Cardinality(Answered(l))
      BY <2>1 DEF JoinInv, RecordInv, Counted
    <2>4. /\ Answered(l)' = Answered(l) \cup failed
          /\ completed'[l] = Cardinality(results'[l])
          /\ completed'[l] = Cardinality(Answered(l)')
          /\ \A j \in Invocation \ {l} :
                results'[j] = results[j] /\ completed'[j] = completed[j]
      BY <1>1, <2>1, <2>2, <2>3, StoreCounts
    <2>5. \A j \in Invocation \ {l} : Answered(j)' = Answered(j)
      BY <2>4 DEF Answered
    <2>6. Calm
      BY <1>2, <1>3, <1>6, <2>4, <2>5 DEF Calm
    <2>7. SyncOfFailed'
      <3> SUFFICES ASSUME NEW j \in Invocation, NEW c \in Call, <<c, "sync">> \in results'[j]
                   PROVE  tool[<<j, c>>] = "failed" /\ run'[j].pc = "done"
        BY <1>2 DEF SyncOfFailed
      <3>1. CASE <<c, "sync">> \in results[j]
        BY <1>3, <3>1 DEF JoinInv, RecordInv, SyncOfFailed
      <3>2. CASE <<c, "sync">> \notin results[j]
        <4>1. j = l /\ c \in failed
          BY <1>1, <2>1, <3>2, StoreAddsOnly
        <4> QED
          BY <1>3, <1>5, <2>1, <4>1 DEF Calls
      <3> QED
        BY <3>1, <3>2
    <2>8. Counted'
      <3> SUFFICES ASSUME NEW j \in Invocation
                   PROVE  /\ completed'[j] = Cardinality(results'[j])
                          /\ completed'[j] = Cardinality(Answered(j)')
                          /\ j \in tracked' => run'[j].pc \in {"tools", "done"}
                                             /\ total[j] = Cardinality(Issued(j))
        BY <1>2, <1>6 DEF Counted
      <3>1. /\ completed[j] = Cardinality(results[j])
            /\ completed[j] = Cardinality(Answered(j))
            /\ j \in tracked => run[j].pc \in {"tools", "done"}
                              /\ total[j] = Cardinality(Issued(j))
        BY DEF JoinInv, RecordInv, Counted
      <3>2. j \in tracked' => run'[j].pc \in {"tools", "done"}
                            /\ total[j] = Cardinality(Issued(j))
        BY <1>2, <1>3, <3>1
      <3>3. completed'[j] = Cardinality(results'[j]) /\ completed'[j] = Cardinality(Answered(j)')
        <4>1. CASE j = l
          BY <2>4, <4>1
        <4>2. CASE j # l
          BY <2>4, <2>5, <3>1, <4>2
        <4> QED
          BY <4>1, <4>2
      <3> QED
        BY <3>2, <3>3
    <2> QED
      BY <1>7, <2>6, <2>7, <2>8, CalmTurn DEF RecordInv
  <1> QED
    BY <1>8, <1>9

\* A run whose calls all failed waits for the results that it has not stored.
LEMMA RerunWaits ==
    ASSUME JoinInv, NEW i \in Invocation, NEW j \in Invocation, RerunAfterSyncResults(i, j)
    PROVE  Waiting(i) # {}
  <1>1. run[i].pc = "tools" /\ Calls(i, "sent") = {} /\ Calls(i, "called") = {}
    BY DEF RerunAfterSyncResults, ToolsReturned
  <1>2. PICK c \in Call : tool[<<i, c>>] # "idle"
    BY <1>1 DEF JoinInv, TurnInv, IssuedByTurn, Issued, Calls
  <1>3. tool[<<i, c>>] = "failed"
    BY <1>1, <1>2 DEF Calls, JoinInv, ClaimInv, TypeOK, SubTask
  <1>4. ASSUME NEW k \in Kind, <<c, k>> \in results[i]
        PROVE  FALSE
    <2>1. k = "sync"
      BY <1>3, <1>4, AnsweredCall
    <2> QED
      BY <1>1, <1>4, <2>1 DEF JoinInv, RecordInv, SyncOfFailed
  <1> QED
    BY <1>2, <1>4, CallSets DEF Waiting, Answered

\* When every call failed synchronously, a new invocation takes over.
LEMMA RerunJoin ==
    ASSUME JoinInv, NEW i \in Invocation, NEW j \in Invocation, RerunAfterSyncResults(i, j)
    PROVE  TurnInv' /\ RecordInv'
  <1>1. run \in [Invocation -> [pc : RunPC, cause : Invocation \cup {NoCause}]]
    BY DEF JoinInv, ClaimInv, TypeOK
  <1>2. /\ run[i].pc = "tools" /\ Calls(i, "sent") = {} /\ Calls(i, "called") = {}
        /\ run[j].pc = "unused" /\ i # j
        /\ UNCHANGED <<tracked, total, completed, results, lastInvocation, subTasks, tool, claim>>
    BY DEF RerunAfterSyncResults, ToolsReturned, Fresh, counters, context
  <1>3. /\ run'[j] = [pc |-> "llm", cause |-> run[i].cause]
        /\ run'[i].pc = "done" /\ run'[i].cause = run[i].cause
        /\ \A x \in Invocation \ {i, j} : run'[x] = run[x]
    BY <1>1, <1>2 DEF RerunAfterSyncResults, Started
  <1>4. \A x \in Invocation : /\ Issued(x)' = Issued(x) /\ Answered(x)' = Answered(x)
                              /\ \A st : Calls(x, st)' = Calls(x, st)
    BY <1>2 DEF Issued, Calls, Answered
  <1>5. Waiting(i) # {}
    BY RerunWaits
  <1>6. \A x \in Invocation \ {j} : ~Busy(x)'
    <2>1. Busy(i)
      BY <1>2, <1>5 DEF Busy
    <2>2. \A x \in Invocation \ {i} : ~Busy(x)
      BY <2>1 DEF JoinInv, TurnInv, OneBusy
    <2>3. \A x \in Invocation \ {i, j} : ~Busy(x)'
      BY <1>3, <1>4, <2>2 DEF Busy, Waiting
    <2>4. ~Busy(i)'
      BY <1>2, <1>3, <1>4 DEF Busy, Early
    <2> QED
      BY <2>3, <2>4
  <1>7. ASSUME NEW k \in Invocation, run[i].cause = k
        PROVE  Waiting(k)' = {} /\ run'[k].pc \in {"tools", "done"}
    <2>1. Waiting(k) = {} /\ run[k].pc \in {"tools", "done"}
      BY <1>7 DEF JoinInv, TurnInv, CauseIsAnswered
    <2> QED
      BY <1>2, <1>3, <1>4, <2>1 DEF Waiting
  <1>8. TurnInv'
    <2> DEFINE k == run[i].cause
    <2>1. "llm" \in Early /\ k \in Invocation \cup {NoCause}
      BY <1>1 DEF Early
    <2>2. \A x \in Invocation \ {j} :
             /\ ~Busy(x)' /\ run'[x].cause = run[x].cause
             /\ run'[x].pc = run[x].pc \/ (run[x].pc = "tools" /\ run'[x].pc = "done")
      BY <1>2, <1>3, <1>6
    <2>3. \A x \in Invocation : Issued(x)' = Issued(x) /\ Answered(x) \subseteq Answered(x)'
      BY <1>4
    <2>4. ASSUME NEW m \in Invocation \cup {NoCause}, m = k
          PROVE  TurnInv'
      <3>1. m \in Invocation => Waiting(m)' = {} /\ run'[m].pc \in {"tools", "done"}
        BY <1>7, <2>4
      <3>2. run'[j] = [pc |-> "llm", cause |-> m]
        BY <1>3, <2>4
      <3> QED
        BY <1>2, <2>1, <2>2, <2>3, <3>1, <3>2, NewRunTurn
    <2> QED
      BY <2>1, <2>4
  <1>9. SyncOfFailed' /\ Counted'
    <2>1. \A x \in Invocation :
             run[x].pc \in {"tools", "done"} => run'[x].pc \in {run[x].pc, "done"}
      BY <1>2, <1>3
    <2> QED
      BY <1>2, <1>4, <2>1, NothingStored
  <1> QED
    BY <1>2, <1>8, <1>9 DEF JoinInv, RecordInv, FailedIsUnclaimed

\* The other steps of a run
LEMMA RunJoin ==
    ASSUME JoinInv, NEW i \in Invocation, ReceiveRequest(i) \/ RunStep(i)
    PROVE  TurnInv' /\ RecordInv'
  <1>1. run \in [Invocation -> [pc : RunPC, cause : Invocation \cup {NoCause}]]
    BY DEF JoinInv, ClaimInv, TypeOK
  <1>2. ASSUME UNCHANGED <<tool, claim, subTasks, results, completed, total>>,
               tracked' \subseteq tracked
        PROVE  /\ \A x \in Invocation : /\ Issued(x)' = Issued(x) /\ Answered(x)' = Answered(x)
                                       /\ \A st : Calls(x, st)' = Calls(x, st)
               /\ FailedIsUnclaimed'
               /\ (\A x \in Invocation : run[x].pc \in {"tools", "done"} =>
                                          run'[x].pc \in {run[x].pc, "done"})
                  => SyncOfFailed' /\ Counted'
    <2>1. \A x \in Invocation : /\ Issued(x)' = Issued(x) /\ Answered(x)' = Answered(x)
                                /\ \A st : Calls(x, st)' = Calls(x, st)
      BY <1>2 DEF Issued, Calls, Answered
    <2>2. FailedIsUnclaimed'
      BY <1>2 DEF JoinInv, RecordInv, FailedIsUnclaimed
    <2> QED
      BY <1>2, <2>1, <2>2, NothingStored
  <1>3. CASE ReceiveRequest(i)
    <2>1. /\ \A x \in Invocation : run[x].pc = "unused"
          /\ run'[i] = [pc |-> "prepare", cause |-> NoCause]
          /\ \A x \in Invocation \ {i} : run'[x] = run[x]
          /\ UNCHANGED <<tool, claim, subTasks, results, completed, total, tracked,
                         lastInvocation>>
      BY <1>1, <1>3 DEF ReceiveRequest, Started, counters
    <2>2. \A x \in Invocation \ {i} : ~Busy(x)'
      BY <2>1 DEF Busy, Early
    <2>3. "prepare" \in Early /\ NoCause \notin Invocation
      BY DEF Early, Invocation, NoCause
    <2>4. TurnInv'
      BY <1>2, <2>1, <2>2, <2>3, NewRunTurn
    <2> QED
      BY <1>2, <2>1, <2>4 DEF RecordInv
  <1>4. ASSUME NEW p \in {"llm", "done", "rejected"},
               run[i].pc \in Early \/ (run[i].pc = "tools" /\ p = "done"),
               run' = [run EXCEPT ![i].pc = p], tracked' \subseteq tracked,
               UNCHANGED <<tool, claim, subTasks, results, completed, total>>,
               \/ lastInvocation' = lastInvocation
               \/ lastInvocation' = i /\ run[i].pc \in Early /\ p = "done"
        PROVE  TurnInv' /\ RecordInv'
    <2>1. /\ run'[i].pc = p /\ run'[i].cause = run[i].cause
          /\ \A x \in Invocation \ {i} : run'[x] = run[x]
      BY <1>1, <1>4
    <2>2. \A x \in Invocation :
             /\ Issued(x)' = Issued(x) /\ Answered(x)' = Answered(x)
             /\ \A st : Calls(x, st)' = Calls(x, st)
      BY <1>2, <1>4
    <2>3. Calm
      BY <1>4, <2>1, <2>2 DEF Calm
    <2>4. \A x \in Invocation :
             run[x].pc \in {"tools", "done"} => run'[x].pc \in {run[x].pc, "done"}
      BY <1>4, <2>1 DEF Early
    <2> QED
      BY <1>2, <1>4, <2>3, <2>4, CalmTurn DEF RecordInv
  <1>5. CASE \/ PrepareRequest(i) \/ RejectRequest(i) \/ AnswerUser(i)
             \/ (\E outcome \in {"limit", "error"} : RunRaises(i, outcome))
             \/ CancelRun(i) \/ ResumeRun(i) \/ ResumeFails(i)
    <2>1. \E p \in {"llm", "done", "rejected"} :
             /\ run[i].pc \in Early \/ (run[i].pc = "tools" /\ p = "done")
             /\ run' = [run EXCEPT ![i].pc = p] /\ tracked' \subseteq tracked
             /\ \/ lastInvocation' = lastInvocation
                \/ lastInvocation' = i /\ run[i].pc \in Early /\ p = "done"
      <3>1. CASE PrepareRequest(i)
        BY <3>1 DEF PrepareRequest, Early, counters
      <3>2. CASE RejectRequest(i)
        BY <3>2 DEF RejectRequest, Early, counters
      <3>3. CASE AnswerUser(i)
        BY <3>3 DEF AnswerUser, RunLeaves, Early
      <3>4. CASE \E outcome \in {"limit", "error"} : RunRaises(i, outcome)
        BY <3>4 DEF RunRaises, RunLeaves, Early
      <3>5. CASE CancelRun(i)
        BY <3>5 DEF CancelRun, RunLeaves, Early
      <3>6. CASE ResumeRun(i)
        BY <3>6 DEF ResumeRun, RunLeaves, Early
      <3>7. CASE ResumeFails(i)
        BY <3>7 DEF ResumeFails, Early, counters
      <3> QED
        BY <1>5, <3>1, <3>2, <3>3, <3>4, <3>5, <3>6, <3>7
    <2>2. UNCHANGED <<tool, claim, subTasks, results, completed, total>>
      BY <1>5 DEF PrepareRequest, RejectRequest, AnswerUser, RunRaises, CancelRun, ResumeRun,
                  ResumeFails, context, counters
    <2> QED
      BY <1>4, <2>1, <2>2
  <1> QED
    BY <1>3, <1>5, CallTurn, PauseJoin, RerunJoin DEF RunStep

-----------------------------------------------------------------------------
(* Steps about a sub-task.                                                 *)

\* No result is recorded; a call may be submitted, or fail.
LEMMA QuietJoin ==
    ASSUME JoinInv, NEW s \in SubTask,
           UNCHANGED <<run, results, completed, total, tracked, lastInvocation>>,
           \A t \in SubTask :
              \/ tool'[t] = tool[t]
              \/ /\ t = s /\ run[s[1]].pc = "tools"
                 /\ tool[s] = "called" /\ tool'[s] \in {"sent", "failed"}
    PROVE  TurnInv' /\ SyncOfFailed' /\ Counted'
  <1>1. ASSUME NEW i \in Invocation, NEW c \in Call
        PROVE  /\ tool'[<<i, c>>] = "idle" <=> tool[<<i, c>>] = "idle"
               /\ tool[<<i, c>>] = "failed" => tool'[<<i, c>>] = "failed"
               /\ run[i].pc = "done" => tool'[<<i, c>>] = tool[<<i, c>>]
    BY DEF SubTask
  <1>2. \A i \in Invocation : /\ Issued(i)' = Issued(i)
                              /\ Calls(i, "failed") \subseteq Calls(i, "failed")'
                              /\ run[i].pc = "done" => Calls(i, "sent")' = Calls(i, "sent")
    BY <1>1 DEF Issued, Calls
  <1>3. Calm
    BY <1>2 DEF Calm, Answered
  <1> QED
    BY <1>2, <1>3, CalmTurn, NothingStored

\* A claimed sub-task, or a registered one, is about a call that was submitted.
LEMMA ClaimedIsSent ==
    ASSUME JoinInv, NEW s \in SubTask, s \in subTasks \/ claim[s] # "none"
    PROVE  tool[s] = "sent"
  <1>1. tool[s] \in {"idle", "called", "sent", "failed"}
    BY DEF JoinInv, ClaimInv, TypeOK
  <1> QED
    BY <1>1 DEF JoinInv, ClaimInv, UnsubmittedIsUnclaimed, RecordInv, FailedIsUnclaimed

\* The steps of one call keep the turns and the records.
LEMMA SubTaskJoin ==
    ASSUME JoinInv, NoLateFailure, NEW s \in SubTask, SubTaskStep(s)
    PROVE  TurnInv' /\ RecordInv'
  <1>1. /\ tool \in [SubTask -> {"idle", "called", "sent", "failed"}]
        /\ claim \in [SubTask -> {"none", "claimed", "summarizing", "recorded",
                                 "dropped", "timedOut"}]
    BY DEF JoinInv, ClaimInv, TypeOK
  <1>2. FailedIsUnclaimed
    BY DEF JoinInv, RecordInv
  <1>3. CASE SubmitCall(s)
    <2>1. /\ UNCHANGED <<run, results, completed, total, tracked, lastInvocation, claim>>
          /\ run[s[1]].pc = "tools" /\ tool[s] = "called"
          /\ tool' = [tool EXCEPT ![s] = "sent"] /\ subTasks' = subTasks \cup {s}
      BY <1>3 DEF SubmitCall, RegisterSubTask, counters
    <2>2. FailedIsUnclaimed'
      BY <1>1, <1>2, <2>1 DEF FailedIsUnclaimed
    <2> QED
      BY <1>1, <2>1, <2>2, QuietJoin DEF RecordInv
  <1>4. CASE FailCallEarly(s)
    <2>1. /\ UNCHANGED <<run, results, completed, total, tracked, lastInvocation, claim, subTasks>>
          /\ run[s[1]].pc = "tools" /\ tool[s] = "called"
          /\ tool' = [tool EXCEPT ![s] = "failed"]
      BY <1>4 DEF FailCallEarly, counters, context
    <2>2. s \notin subTasks /\ claim[s] = "none"
      BY <2>1 DEF JoinInv, ClaimInv, UnsubmittedIsUnclaimed
    <2>3. FailedIsUnclaimed'
      BY <1>1, <1>2, <2>1, <2>2 DEF FailedIsUnclaimed
    <2> QED
      BY <1>1, <2>1, <2>3, QuietJoin DEF RecordInv
  <1>5. CASE FailCallLate(s)
    BY <1>5 DEF FailCallLate, NoLateFailure
  <1>6. CASE ReceiveStatus(s) \/ ExpireTimer(s) \/ IgnoreTimeout(s) \/ DeliverCancel(s)
    <2>1. UNCHANGED <<run, results, completed, total, tracked, lastInvocation, tool, claim,
                      subTasks>>
      BY <1>6 DEF ReceiveStatus, ExpireTimer, IgnoreTimeout, DeliverCancel, counters, context
    <2> QED
      BY <1>2, <2>1, QuietJoin DEF RecordInv, FailedIsUnclaimed
  <1>7. CASE ReceiveFinal(s) \/ LookUpContext(s)
    <2>1. /\ UNCHANGED <<run, results, completed, total, tracked, lastInvocation, tool>>
          /\ subTasks' \subseteq subTasks
          /\ \A t \in SubTask \ {s} : claim'[t] = claim[t]
          /\ claim'[s] = claim[s] \/ s \in subTasks \/ claim[s] # "none"
      BY <1>1, <1>7 DEF ReceiveFinal, LookUpContext, Claim, counters, context
    <2>2. claim'[s] = claim[s] \/ tool[s] # "failed"
      BY <2>1, ClaimedIsSent
    <2>3. FailedIsUnclaimed'
      BY <1>2, <2>1, <2>2 DEF FailedIsUnclaimed
    <2> QED
      BY <2>1, <2>3, QuietJoin DEF RecordInv
  <1>8. CASE RecordResponse(s) \/ HandleTimeout(s)
    <2>1. PICK kind \in {"response", "timeout"} : RecordResult(s, kind)
      BY <1>8 DEF RecordResponse, HandleTimeout
    <2>2. /\ UNCHANGED <<tool, tracked, total, lastInvocation>>
          /\ subTasks' \subseteq subTasks
          /\ \A t \in SubTask \ {s} : claim'[t] = claim[t]
          /\ claim[s] = "summarizing" \/ s \in subTasks
      BY <1>1, <1>8 DEF RecordResponse, HandleTimeout, Claim
    <2>3. tool[s] = "sent" /\ claim[s] \in {"none", "summarizing"}
      BY <2>2, ClaimedIsSent DEF JoinInv, ClaimInv, RegisteredIsUnclaimed
    <2>4. FailedIsUnclaimed'
      BY <1>2, <2>2, <2>3 DEF FailedIsUnclaimed
    <2>5. TurnInv' /\ SyncOfFailed' /\ Counted'
      BY <2>1, <2>2, <2>3, RecordResultJoin
    <2> QED
      BY <2>4, <2>5 DEF RecordInv
  <1> QED
    BY <1>3, <1>4, <1>5, <1>6, <1>7, <1>8 DEF SubTaskStep, ToolStep, ResponseStep, TimeoutStep

-----------------------------------------------------------------------------
(* The theorems.                                                           *)

\* Every step keeps the join of an invocation's results.
LEMMA JoinNext == JoinInv /\ NoLateFailure /\ [Next]_vars => JoinInv'
  <1> SUFFICES ASSUME JoinInv, NoLateFailure, [Next]_vars
               PROVE  JoinInv'
    OBVIOUS
  <1>1. ClaimInv'
    BY ClaimInvInductive DEF JoinInv
  <1>2. ASSUME NEW i \in Invocation, ReceiveRequest(i) \/ RunStep(i)
        PROVE  TurnInv' /\ RecordInv'
    BY <1>2, RunJoin
  <1>3. ASSUME NEW s \in SubTask, SubTaskStep(s)
        PROVE  TurnInv' /\ RecordInv'
    BY <1>3, SubTaskJoin
  <1>4. ASSUME UNCHANGED <<run, counters, tool, claim, subTasks>>
        PROVE  TurnInv' /\ RecordInv'
    <2>1. UNCHANGED <<run, tool, claim, subTasks, tracked, total, completed, results,
                      lastInvocation>>
      BY <1>4 DEF counters
    <2>2. \A i \in Invocation : /\ Issued(i)' = Issued(i) /\ Answered(i)' = Answered(i)
                                /\ \A st : Calls(i, st)' = Calls(i, st)
      BY <2>1 DEF Issued, Calls, Answered
    <2>3. Calm
      BY <2>1, <2>2 DEF Calm
    <2>4. SyncOfFailed' /\ Counted'
      BY <2>1, <2>2, NothingStored
    <2> QED
      BY <2>1, <2>3, <2>4, CalmTurn DEF JoinInv, RecordInv, FailedIsUnclaimed
  <1>5. ASSUME NEW q \in CancelRequest, ReceiveCancel(q)
        PROVE  TurnInv' /\ RecordInv'
    BY <1>4, <1>5 DEF ReceiveCancel
  <1>6. ASSUME NEW f \in Finalizer, FinalizerStep(f)
        PROVE  TurnInv' /\ RecordInv'
    BY <1>4, <1>6 DEF FinalizerStep, StartFinalization, PublishFinalResponse, RemoveContext
  <1>7. ASSUME UNCHANGED vars
        PROVE  TurnInv' /\ RecordInv'
    <2>1. UNCHANGED <<run, counters, tool, claim, subTasks>>
      BY <1>7 DEF vars, context
    <2> QED
      BY <1>4, <2>1
  <1>8. TurnInv' /\ RecordInv'
    BY <1>2, <1>3, <1>5, <1>6, <1>7 DEF Next, SubTaskStep, Terminated
  <1> QED
    BY <1>1, <1>8 DEF JoinInv

\* Nothing is busy and nothing counted before the request.
LEMMA JoinInit == Init => JoinInv
  <1> SUFFICES ASSUME Init PROVE JoinInv
    OBVIOUS
  <1>1. ClaimInv
    BY InitType DEF Init, ClaimInv, IdleBeforeTools, UnsubmittedIsUnclaimed,
                    RegisteredIsUnclaimed, ResultsShowClaim
  <1>2. \A i \in Invocation : /\ run[i] = [pc |-> "unused", cause |-> NoCause]
                              /\ results[i] = {} /\ completed[i] = 0
                              /\ Answered(i) = {}
    BY DEF Init, Answered
  <1>3. NoCause \notin Invocation
    BY DEF Invocation, NoCause
  <1>4. TurnInv
    BY <1>2, <1>3 DEF TurnInv, OneBusy, LastIsBusy, IssuedByTurn, CauseIsAnswered, Busy, Early
  <1>5. Cardinality({}) = 0
    BY FS_EmptySet
  <1>6. Counted
    BY <1>2, <1>5 DEF Counted, Init
  <1>7. FailedIsUnclaimed /\ SyncOfFailed
    BY <1>2 DEF Init, FailedIsUnclaimed, SyncOfFailed
  <1> QED
    BY <1>1, <1>4, <1>6, <1>7 DEF JoinInv, RecordInv

\* The join invariant always holds when no call fails late.
LEMMA JoinAlways == NoLateFailure => (Spec => []JoinInv)
  <1> SUFFICES ASSUME NoLateFailure
               PROVE  Spec => []JoinInv
    OBVIOUS
  <1>1. JoinInv /\ [Next]_vars => JoinInv'
    BY JoinNext
  <1> QED
    BY <1>1, JoinInit, PTL DEF Spec

\* A peer call contributes one result to its invocation, and the counter that decides
\* the retrigger counts the calls that have one.
THEOREM ResultsAreCounted == NoLateFailure => (Spec => []OneResultPerCall)
  <1>1. JoinInv => OneResultPerCall
    <2> SUFFICES ASSUME JoinInv, NEW i \in Invocation
                 PROVE  /\ completed[i] = Cardinality(results[i])
                        /\ \A r1, r2 \in results[i] : r1[1] = r2[1] => r1 = r2
      BY DEF JoinInv, ClaimInv, TypeOK, OneResultPerCall
    <2>1. results[i] \in SUBSET (Call \X Kind)
      BY DEF JoinInv, ClaimInv, TypeOK
    <2>2. ASSUME NEW r1 \in results[i], NEW r2 \in results[i], r1[1] = r2[1]
          PROVE  r1 = r2
      <3>1. PICK c \in Call, k \in Kind, m \in Kind : r1 = <<c, k>> /\ r2 = <<c, m>>
        BY <2>1, <2>2
      <3> QED
        BY <3>1, OneResult
    <2> QED
      BY <2>2 DEF JoinInv, RecordInv, Counted
  <1> QED
    BY <1>1, JoinAlways, PTL

\* The agent is resumed only with a result for every call of the paused invocation.
THEOREM ResumesWithAll == NoLateFailure => (Spec => []ResumeHasEveryResult)
  <1>1. JoinInv => ResumeHasEveryResult
    <2> SUFFICES ASSUME JoinInv, NEW j \in Invocation, run[j].pc = "getSession",
                        NEW c \in Call \ Calls(run[j].cause, "idle")
                 PROVE  \E k \in Kind : <<c, k>> \in results[run[j].cause]
      BY DEF ResumeHasEveryResult
    <2>1. PICK i \in Invocation : run[j].cause = i
      BY DEF JoinInv, ClaimInv, TypeOK, TurnInv, CauseIsAnswered
    <2>2. Waiting(i) = {}
      BY <2>1 DEF JoinInv, TurnInv, CauseIsAnswered
    <2> QED
      BY <2>1, <2>2 DEF Waiting, Answered, Issued
  <1> QED
    BY <1>1, JoinAlways, PTL

-----------------------------------------------------------------------------
(* PeerDelegation implements FanOutJoin.                                   *)

JoinIssued == [i \in Invocation |-> Call \ Calls(i, "idle")]
JoinAnswered == [i \in Invocation |-> {r[1] : r \in results[i]}]
JoinResumed == {run[j].cause : j \in Invocation} \ {NoCause}

\* The calls with a result are the first components of the stored results.
LEMMA AnsweredIsFirst ==
    ASSUME NEW R, R \subseteq Call \X Kind
    PROVE  {r[1] : r \in R} = {c \in Call : \E k \in Kind : <<c, k>> \in R}
  <1>1. ASSUME NEW r \in R
        PROVE  r[1] \in Call /\ \E k \in Kind : <<r[1], k>> \in R
    <2>1. r[1] \in Call /\ r[2] \in Kind /\ r = <<r[1], r[2]>>
      OBVIOUS
    <2> QED
      BY <2>1
  <1>2. ASSUME NEW c \in Call, NEW k \in Kind, <<c, k>> \in R
        PROVE  c \in {r[1] : r \in R}
    <2>1. <<c, k>>[1] = c
      OBVIOUS
    <2> QED
      BY <1>2, <2>1
  <1> QED
    BY <1>1, <1>2

\* The refinement mapping, one invocation at a time.
LEMMA JoinMapping ==
    ASSUME TypeOK
    PROVE  /\ JoinIssued = [i \in Invocation |-> Issued(i)]
           /\ JoinAnswered = [i \in Invocation |-> Answered(i)]
  <1>1. \A i \in Invocation : {r[1] : r \in results[i]} = Answered(i)
    BY AnsweredIsFirst DEF TypeOK, Answered
  <1> QED
    BY <1>1 DEF JoinIssued, JoinAnswered, Issued

\* Nothing is issued, answered or resumed.
LEMMA JoinStutters ==
    ASSUME results' = results, JoinResumed' = JoinResumed,
           \A i \in Invocation : Issued(i)' = Issued(i)
    PROVE  UNCHANGED Join!vars
  BY DEF Join!vars, JoinResumed, Issued

\* Waiting calls of one invocation are answered, and the last answer may resume it.
LEMMA JoinAnswers ==
    ASSUME JoinInv, TypeOK', NEW i \in Invocation, NEW calls \in SUBSET Call,
           calls # {}, calls \subseteq Waiting(i), Answered(i)' = Answered(i) \cup calls,
           \A j \in Invocation \ {i} : Answered(j)' = Answered(j),
           \A j \in Invocation : Issued(j)' = Issued(j),
           \/ JoinResumed' = JoinResumed
           \/ Waiting(i)' = {} /\ JoinResumed' = JoinResumed \cup {i}
    PROVE  Join!Next
  <1>1. TypeOK
    BY DEF JoinInv, ClaimInv
  <1>2. /\ JoinIssued = [j \in Invocation |-> Issued(j)]
        /\ JoinAnswered = [j \in Invocation |-> Answered(j)]
    BY <1>1, JoinMapping
  <1>3. /\ JoinIssued' = [j \in Invocation |-> Issued(j)']
        /\ JoinAnswered' = [j \in Invocation |-> Answered(j)']
    <2>1. \A j \in Invocation : {r[1] : r \in results'[j]} = Answered(j)'
      BY AnsweredIsFirst DEF TypeOK, Answered
    <2> QED
      BY <2>1 DEF JoinIssued, JoinAnswered, Issued
  <1>4. JoinIssued' = JoinIssued
    BY <1>2, <1>3
  <1>5. JoinAnswered' = [JoinAnswered EXCEPT ![i] = @ \cup calls]
    BY <1>2, <1>3
  <1>6. calls \subseteq JoinIssued[i] \ JoinAnswered[i]
    BY <1>2 DEF Waiting
  <1>7. Waiting(i)' = {} => JoinAnswered'[i] = JoinIssued[i]
    <2>1. Answered(i) \subseteq Issued(i)
      BY AnsweredCall DEF Answered
    <2>2. Answered(i)' \subseteq Issued(i)
      BY <2>1 DEF Waiting
    <2>3. Waiting(i)' = {} => Issued(i) \subseteq Answered(i)'
      BY DEF Waiting
    <2> QED
      BY <1>2, <1>3, <2>2, <2>3
  <1>8. Join!Answer(i, calls)
    BY <1>4, <1>5, <1>6, <1>7 DEF Join!Answer, JoinIssued, JoinAnswered, JoinResumed
  <1> QED
    BY <1>8 DEF Join!Next

\* What the run of an invocation does to the causes.
LEMMA CausesKept ==
    ASSUME \A j \in Invocation : run'[j].cause = run[j].cause
    PROVE  JoinResumed' = JoinResumed
  BY DEF JoinResumed

\* Steps of a run: a turn issues its calls together, a pause answers the failed ones.
LEMMA RunRefines ==
    ASSUME JoinInv, TypeOK', NEW i \in Invocation, ReceiveRequest(i) \/ RunStep(i)
    PROVE  Join!Next \/ UNCHANGED Join!vars
  <1>1. TypeOK /\ run \in [Invocation -> [pc : RunPC, cause : Invocation \cup {NoCause}]]
    BY DEF JoinInv, ClaimInv, TypeOK
  <1>2. \A j \in Invocation : run[j].pc = "unused" => run[j].cause = NoCause
    BY DEF JoinInv, TurnInv, CauseIsAnswered
  <1>3. ASSUME NEW called \in SUBSET Call, CallPeers(i, called)
        PROVE  Join!Next
    <2>1. /\ run[i].pc = "llm" /\ called # {} /\ results' = results
          /\ run' = [run EXCEPT ![i].pc = "tools"]
          /\ tool' = [s \in SubTask |->
                         IF s[1] = i /\ s[2] \in called THEN "called" ELSE tool[s]]
      BY <1>3 DEF CallPeers
    <2>2. \A c \in Call : tool[<<i, c>>] = "idle"
      BY <2>1, CallSets DEF JoinInv, ClaimInv, IdleBeforeTools, BeforeTools
    <2>3. Issued(i) = {} /\ Issued(i)' = called
      BY <2>1, <2>2, CallSets DEF Issued, Calls
    <2>4. \A j \in Invocation \ {i} : Issued(j)' = Issued(j)
      BY <2>1, CallSets DEF Issued, Calls
    <2>5. JoinIssued[i] = {} /\ JoinIssued' = [JoinIssued EXCEPT ![i] = called]
      BY <2>3, <2>4 DEF JoinIssued, Issued
    <2>6. JoinAnswered' = JoinAnswered
      BY <2>1 DEF JoinAnswered
    <2>7. JoinResumed' = JoinResumed
      BY <1>1, <2>1, CausesKept
    <2>8. Join!Issue(i, called)
      BY <2>1, <2>5, <2>6, <2>7 DEF Join!Issue, JoinIssued, JoinAnswered, JoinResumed
    <2> QED
      BY <2>8 DEF Join!Next
  <1>4. CASE PauseRun(i)
    <2> DEFINE failed == Calls(i, "failed")
    <2>1. /\ run[i].pc = "tools" /\ UNCHANGED tool
          /\ run' = [run EXCEPT ![i].pc = "done"]
      BY <1>4 DEF PauseRun, ToolsReturned, RunLeaves
    <2>2. JoinResumed' = JoinResumed
      BY <1>1, <2>1, CausesKept
    <2>3. \A j \in Invocation : Issued(j)' = Issued(j)
      BY <2>1 DEF Issued, Calls
    <2>4. CASE results' = results
      BY <2>2, <2>3, <2>4, JoinStutters
    <2>5. CASE results' # results
      <3>1. PICK l \in Invocation : l = lastInvocation /\ Store(l, failed, "sync")
        BY <1>1, <1>4, <2>5 DEF PauseRun, TypeOK
      <3>2. /\ results' = [results EXCEPT ![l] = @ \cup (failed \X {"sync"})]
            /\ results \in [Invocation -> SUBSET (Call \X Kind)] /\ "sync" \in Kind
        BY <1>1, <3>1 DEF Store, TypeOK, Kind
      <3>3. failed # {} /\ failed \in SUBSET Call
        BY <2>5, <3>2 DEF Calls
      <3>4. failed \subseteq Waiting(i) /\ l = i
        BY <1>4, <3>1, <3>3, FailedWaits
      <3>5. /\ Answered(l)' = Answered(l) \cup failed
            /\ \A j \in Invocation \ {l} : Answered(j)' = Answered(j)
        BY <3>2, <3>3 DEF Answered
      <3> QED
        BY <2>2, <2>3, <3>3, <3>4, <3>5, JoinAnswers
    <2> QED
      BY <2>4, <2>5
  <1>5. ASSUME NEW j \in Invocation, RerunAfterSyncResults(i, j)
        PROVE  UNCHANGED Join!vars
    <2>1. /\ UNCHANGED <<results, tool>> /\ run[j].pc = "unused" /\ i # j
          /\ run' = [Started(j, "llm", run[i].cause) EXCEPT ![i].pc = "done"]
      BY <1>5 DEF RerunAfterSyncResults, counters, ToolsReturned, Fresh
    <2>2. /\ run'[j].cause = run[i].cause /\ run'[i].cause = run[i].cause
          /\ \A x \in Invocation \ {i, j} : run'[x] = run[x]
      BY <1>1, <2>1 DEF Started
    <2>3. run[j].cause = NoCause
      BY <1>2, <2>1
    <2>4. JoinResumed' = JoinResumed
      <3>1. ASSUME NEW x \in Invocation
            PROVE  run'[x].cause \in JoinResumed \cup {NoCause}
        BY <2>2 DEF JoinResumed
      <3>2. ASSUME NEW x \in Invocation
            PROVE  run[x].cause \in JoinResumed' \cup {NoCause}
        BY <2>2, <2>3 DEF JoinResumed
      <3> QED
        BY <3>1, <3>2 DEF JoinResumed
    <2> QED
      BY <2>1, <2>4, JoinStutters DEF Issued, Calls
  <1>6. CASE ReceiveRequest(i)
    <2>1. /\ UNCHANGED <<results, tool>> /\ run[i].pc = "unused"
          /\ run' = Started(i, "prepare", NoCause)
      BY <1>6 DEF ReceiveRequest, counters
    <2>2. JoinResumed' = JoinResumed
      BY <1>1, <1>2, <2>1, CausesKept DEF Started
    <2> QED
      BY <2>1, <2>2, JoinStutters DEF Issued, Calls
  <1>7. CASE \/ PrepareRequest(i) \/ RejectRequest(i) \/ AnswerUser(i)
             \/ (\E outcome \in {"limit", "error"} : RunRaises(i, outcome))
             \/ CancelRun(i) \/ ResumeRun(i) \/ ResumeFails(i)
    <2>1. /\ UNCHANGED <<results, tool>>
          /\ \E p \in RunPC : run' = [run EXCEPT ![i].pc = p]
      BY <1>7 DEF PrepareRequest, RejectRequest, AnswerUser, RunRaises, CancelRun, ResumeRun,
                  ResumeFails, RunLeaves, counters, RunPC
    <2>2. JoinResumed' = JoinResumed
      BY <1>1, <2>1, CausesKept
    <2> QED
      BY <2>1, <2>2, JoinStutters DEF Issued, Calls
  <1> QED
    BY <1>3, <1>4, <1>5, <1>6, <1>7 DEF RunStep

\* Steps about a sub-task: only a recorded result is seen.
LEMMA SubTaskRefines ==
    ASSUME JoinInv, TypeOK', NoLateFailure, NEW s \in SubTask, SubTaskStep(s)
    PROVE  Join!Next \/ UNCHANGED Join!vars
  <1>1. /\ tool \in [SubTask -> {"idle", "called", "sent", "failed"}]
        /\ run \in [Invocation -> [pc : RunPC, cause : Invocation \cup {NoCause}]]
    BY DEF JoinInv, ClaimInv, TypeOK
  <1>2. CASE RecordResponse(s) \/ HandleTimeout(s)
    <2>1. PICK kind \in {"response", "timeout"} : RecordResult(s, kind)
      BY <1>2 DEF RecordResponse, HandleTimeout
    <2>2. /\ UNCHANGED <<tool, tracked, total, lastInvocation>>
          /\ claim[s] = "summarizing" \/ s \in subTasks
      BY <1>2 DEF RecordResponse, HandleTimeout, Claim
    <2>3. tool[s] = "sent" /\ claim[s] \in {"none", "summarizing"}
      BY <2>2, ClaimedIsSent DEF JoinInv, ClaimInv, RegisteredIsUnclaimed
    <2>4. \A j \in Invocation : Issued(j)' = Issued(j)
      BY <2>2 DEF Issued, Calls
    <2>5. CASE UNCHANGED <<results, run>>
      BY <2>4, <2>5, CausesKept, JoinStutters
    <2>6. CASE /\ Answered(s[1])' = Answered(s[1]) \cup {s[2]}
               /\ \A j \in Invocation \ {s[1]} : results'[j] = results[j]
               /\ \/ run' = run
                  \/ /\ Waiting(s[1])' = {}
                     /\ \E j \in Invocation :
                           /\ run[j].pc = "unused"
                           /\ run' = Started(j, "getSession", s[1])
      <3>1. s[1] \in Invocation /\ {s[2]} \in SUBSET Call
        BY DEF SubTask
      <3>2. s[2] \in Waiting(s[1])
        BY <2>1, <2>2, <2>3, RecordResultJoin
      <3>3. \A j \in Invocation \ {s[1]} : Answered(j)' = Answered(j)
        BY <2>6 DEF Answered
      <3>4. \/ JoinResumed' = JoinResumed
            \/ Waiting(s[1])' = {} /\ JoinResumed' = JoinResumed \cup {s[1]}
        <4>1. CASE run' = run
          BY <4>1, CausesKept
        <4>2. ASSUME NEW j \in Invocation, run[j].pc = "unused",
                     run' = Started(j, "getSession", s[1])
              PROVE  JoinResumed' = JoinResumed \cup {s[1]}
          <5>1. /\ run[j].cause = NoCause /\ run'[j].cause = s[1] /\ s[1] # NoCause
                /\ \A x \in Invocation \ {j} : run'[x] = run[x]
            BY <1>1, <3>1, <4>2 DEF Started, JoinInv, TurnInv, CauseIsAnswered, Invocation, NoCause
          <5> QED
            BY <5>1 DEF JoinResumed
        <4> QED
          BY <2>6, <4>1, <4>2
      <3>5. {s[2]} # {} /\ {s[2]} \subseteq Waiting(s[1])
        BY <3>2
      <3>6. Answered(s[1])' = Answered(s[1]) \cup {s[2]}
        BY <2>6
      <3> QED
        BY <2>4, <3>1, <3>3, <3>4, <3>5, <3>6, JoinAnswers
    <2> QED
      BY <2>1, <2>2, <2>3, <2>5, <2>6, RecordResultJoin
  <1>3. CASE ~(RecordResponse(s) \/ HandleTimeout(s))
    <2>1. UNCHANGED <<run, results>>
      BY <1>3 DEF SubTaskStep, ToolStep, ResponseStep, TimeoutStep, SubmitCall, FailCallEarly,
                  FailCallLate, ReceiveStatus, ReceiveFinal, LookUpContext, ExpireTimer,
                  IgnoreTimeout, DeliverCancel, counters
    <2>2. \/ tool' = tool
          \/ tool[s] = "called" /\ \E v \in {"sent", "failed"} : tool' = [tool EXCEPT ![s] = v]
      BY <1>3 DEF SubTaskStep, ToolStep, ResponseStep, TimeoutStep, SubmitCall, FailCallEarly,
                  FailCallLate, ReceiveStatus, ReceiveFinal, LookUpContext, ExpireTimer,
                  IgnoreTimeout, DeliverCancel
    <2>3. \A i \in Invocation : Issued(i)' = Issued(i)
      BY <1>1, <2>2 DEF Issued, Calls, SubTask
    <2> QED
      BY <2>1, <2>3, CausesKept, JoinStutters
  <1> QED
    BY <1>2, <1>3

\* Every step issues a turn, answers waiting calls, or is not seen.
LEMMA StepRefines == JoinInv /\ NoLateFailure /\ [Next]_vars => [Join!Next]_(Join!vars)
  <1> SUFFICES ASSUME JoinInv, NoLateFailure, [Next]_vars
               PROVE  Join!Next \/ UNCHANGED Join!vars
    OBVIOUS
  <1>1. TypeOK'
    BY NextType DEF JoinInv, ClaimInv
  <1>2. ASSUME NEW i \in Invocation, ReceiveRequest(i) \/ RunStep(i)
        PROVE  Join!Next \/ UNCHANGED Join!vars
    BY <1>1, <1>2, RunRefines
  <1>3. ASSUME NEW s \in SubTask, SubTaskStep(s)
        PROVE  Join!Next \/ UNCHANGED Join!vars
    BY <1>1, <1>3, SubTaskRefines
  <1>4. ASSUME UNCHANGED <<run, tool, counters>>
        PROVE  UNCHANGED Join!vars
    <2>1. UNCHANGED <<run, tool, results>>
      BY <1>4 DEF counters
    <2> QED
      BY <2>1, CausesKept, JoinStutters DEF Issued, Calls
  <1>5. ASSUME NEW q \in CancelRequest, ReceiveCancel(q)
        PROVE  UNCHANGED Join!vars
    BY <1>4, <1>5 DEF ReceiveCancel
  <1>6. ASSUME NEW f \in Finalizer, FinalizerStep(f)
        PROVE  UNCHANGED Join!vars
    BY <1>4, <1>6 DEF FinalizerStep, StartFinalization, PublishFinalResponse, RemoveContext
  <1>7. ASSUME UNCHANGED vars
        PROVE  UNCHANGED Join!vars
    <2>1. UNCHANGED <<run, tool, counters>>
      BY <1>7 DEF vars
    <2> QED
      BY <1>4, <2>1
  <1> QED
    BY <1>2, <1>3, <1>5, <1>6, <1>7 DEF Next, SubTaskStep, Terminated

\* The initial states are those of the join.
LEMMA InitRefines == Init => Join!Init
  <1> SUFFICES ASSUME Init PROVE Join!Init
    OBVIOUS
  <1>1. \A i \in Invocation : Issued(i) = {} /\ results[i] = {} /\ run[i].cause = NoCause
    BY CallSets DEF Init, Issued, Calls
  <1>2. JoinIssued = [i \in Invocation |-> {}] /\ JoinAnswered = [i \in Invocation |-> {}]
    BY <1>1 DEF JoinIssued, JoinAnswered, Issued
  <1>3. JoinResumed = {}
    BY <1>1 DEF JoinResumed
  <1> QED
    BY <1>2, <1>3 DEF Join!Init, JoinIssued, JoinAnswered, JoinResumed

\* The results of each turn are joined as FanOutJoin promises: the calls of a turn are
\* issued once, each is answered once, and the agent is resumed with the last answer.
THEOREM ImplementsJoin == NoLateFailure => (Spec => JoinSpec)
  <1> SUFFICES ASSUME NoLateFailure
               PROVE  Spec => JoinSpec
    OBVIOUS
  <1>1. Spec => []JoinInv
    BY JoinAlways
  <1>2. JoinInv /\ [Next]_vars => [Join!Next]_(Join!vars)
    BY StepRefines
  <1> QED
    BY <1>1, <1>2, InitRefines, PTL DEF Spec, JoinSpec, Join!Spec

-----------------------------------------------------------------------------
(* One final response, when nobody cancels.  Inductive: at most one        *)
(* invocation ended the task, and then none is busy any more.              *)

NoCancel == CancelRequest = {}

Ended(f) == fin[f].pc # "none" \/ run[f].pc = "rejected"
NoneBusy == \A i \in Invocation : ~Busy(i)
EndInv ==
    /\ ~cancelled
    /\ \A f, g \in Invocation : Ended(f) /\ Ended(g) => f = g
    /\ \A f \in Invocation : Ended(f) => run[f].pc # "unused" /\ NoneBusy

\* The task goes on as before, or it has not ended yet.
LEMMA GoesOn ==
    ASSUME EndInv, ~cancelled',
           \A f \in Invocation : Ended(f)' => Ended(f),
           \A f \in Invocation : run'[f].pc = "unused" => run[f].pc = "unused",
           NoneBusy => NoneBusy'
    PROVE  EndInv'
  BY DEF EndInv

\* The busy invocation ends the task.
LEMMA EndsTask ==
    ASSUME JoinInv, EndInv, ~cancelled', NEW i \in Invocation, run[i].pc \in Early,
           run'[i].pc \in {"done", "rejected"}, UNCHANGED <<tool, results>>,
           \A f \in Invocation \ {i} : run'[f] = run[f] /\ fin'[f] = fin[f]
    PROVE  EndInv'
  <1>1. Busy(i)
    BY DEF Busy
  <1>2. \A j \in Invocation \ {i} : ~Busy(j)
    BY <1>1 DEF JoinInv, TurnInv, OneBusy
  <1>3. \A f \in Invocation : ~Ended(f)
    BY <1>1 DEF EndInv, NoneBusy
  <1>4. \A j \in Invocation : Waiting(j)' = Waiting(j) /\ Calls(j, "sent")' = Calls(j, "sent")
    BY DEF Waiting, Issued, Answered, Calls
  <1>5. Calls(i, "sent") = {}
    BY CallSets DEF JoinInv, ClaimInv, IdleBeforeTools, BeforeTools, Early, Calls
  <1>6. NoneBusy'
    BY <1>2, <1>4, <1>5 DEF NoneBusy, Busy, Early
  <1>7. \A f \in Invocation \ {i} : ~Ended(f)'
    BY <1>3 DEF Ended
  <1> QED
    BY <1>6, <1>7 DEF EndInv

\* Steps of a run.
LEMMA RunEnds ==
    ASSUME JoinInv, EndInv, NEW i \in Invocation, ReceiveRequest(i) \/ RunStep(i)
    PROVE  EndInv'
  <1>1. /\ run \in [Invocation -> [pc : RunPC, cause : Invocation \cup {NoCause}]]
        /\ fin \in [Finalizer -> [pc : FinPC, outcome : Outcome]]
        /\ i \in Finalizer
    BY DEF JoinInv, ClaimInv, TypeOK, Finalizer
  <1>2. ~cancelled
    BY DEF EndInv
  <1>3. CASE ReceiveRequest(i)
    <2>1. /\ \A f \in Invocation : run[f].pc = "unused"
          /\ run' = Started(i, "prepare", NoCause) /\ fin' = fin /\ cancelled' = cancelled
      BY <1>3 DEF ReceiveRequest
    <2>2. \A f \in Invocation : ~Ended(f)
      BY <2>1 DEF EndInv
    <2>3. \A f \in Invocation : ~Ended(f)'
      BY <1>1, <2>1, <2>2 DEF Ended, Started
    <2> QED
      BY <1>2, <2>1, <2>3 DEF EndInv
  <1>4. ASSUME run[i].pc \in Early \/ (run[i].pc = "tools" /\ Waiting(i) # {}),
               fin' = fin, cancelled' = cancelled,
               \A f \in Invocation : run'[f].pc = "rejected" => run[f].pc = "rejected"
        PROVE  EndInv'
    <2>1. Busy(i)
      BY <1>4 DEF Busy
    <2>2. \A f \in Invocation : ~Ended(f)
      BY <2>1 DEF EndInv, NoneBusy
    <2>3. \A f \in Invocation : ~Ended(f)'
      BY <1>4, <2>2 DEF Ended
    <2> QED
      BY <1>2, <1>4, <2>3 DEF EndInv
  <1>5. CASE PrepareRequest(i)
    BY <1>1, <1>4, <1>5 DEF PrepareRequest, context, Early
  <1>6. CASE RejectRequest(i)
    <2>1. /\ run[i].pc \in Early /\ run' = [run EXCEPT ![i].pc = "rejected"]
          /\ UNCHANGED <<cancelled, tool, results, fin>>
      BY <1>6 DEF RejectRequest, context, counters, Early
    <2> QED
      BY <1>1, <1>2, <2>1, EndsTask
  <1>7. ASSUME NEW called \in SUBSET Call, CallPeers(i, called)
        PROVE  EndInv'
    BY <1>1, <1>4, <1>7 DEF CallPeers, context, Early
  <1>8. CASE PauseRun(i)
    <2>1. /\ run[i].pc = "tools" /\ UNCHANGED <<tool, fin, cancelled>>
          /\ run' = [run EXCEPT ![i].pc = "done"]
      BY <1>8 DEF PauseRun, ToolsReturned, RunLeaves
    <2>2. CASE Waiting(i) # {}
      BY <1>1, <1>4, <2>1, <2>2
    <2>3. CASE Waiting(i) = {}
      <3>1. Calls(i, "failed") = {}
        BY <1>8, <2>3, FailedWaits
      <3>2. results' = results
        <4>1. CASE lastInvocation \in tracked
          <5>1. results' = [results EXCEPT ![lastInvocation] =
                               @ \cup (Calls(i, "failed") \X {"sync"})]
            BY <1>8, <4>1 DEF PauseRun, Store
          <5>2. Calls(i, "failed") \X {"sync"} = {}
            BY <3>1
          <5>3. results \in [Invocation -> SUBSET (Call \X Kind)]
            BY DEF JoinInv, ClaimInv, TypeOK
          <5> QED
            BY <5>1, <5>2, <5>3
        <4>2. CASE lastInvocation \notin tracked
          BY <1>8, <4>2 DEF PauseRun
        <4> QED
          BY <4>1, <4>2
      <3>3. \A j \in Invocation : Waiting(j)' = Waiting(j) /\ Calls(j, "sent")' = Calls(j, "sent")
        BY <2>1, <3>2 DEF Waiting, Issued, Answered, Calls
      <3>4. /\ run'[i].pc = "done"
            /\ \A j \in Invocation \ {i} : run'[j] = run[j]
        BY <1>1, <2>1
      <3>5. NoneBusy => NoneBusy'
        BY <2>3, <3>3, <3>4 DEF NoneBusy, Busy, Early
      <3> QED
        BY <1>2, <2>1, <3>4, <3>5, GoesOn DEF Ended
    <2> QED
      BY <2>2, <2>3
  <1>9. ASSUME NEW j \in Invocation, RerunAfterSyncResults(i, j)
        PROVE  EndInv'
    <2>1. Waiting(i) # {}
      BY <1>9, RerunWaits
    <2> QED
      BY <1>1, <1>4, <1>9, <2>1 DEF RerunAfterSyncResults, ToolsReturned, Started, context
  <1>10. CASE CancelRun(i)
    BY <1>2, <1>10 DEF CancelRun
  <1>11. CASE ResumeRun(i)
    <2>1. /\ run[i].pc \in Early /\ UNCHANGED <<cancelled, fin>>
          /\ \E p \in {"llm", "done"} : run' = [run EXCEPT ![i].pc = p]
      BY <1>11 DEF ResumeRun, RunLeaves, context, Early
    <2> QED
      BY <1>1, <1>4, <2>1
  <1>12. CASE \/ AnswerUser(i) \/ ResumeFails(i)
              \/ (\E outcome \in {"limit", "error"} : RunRaises(i, outcome))
    <2>1. /\ run[i].pc \in Early /\ run' = [run EXCEPT ![i].pc = "done"]
          /\ UNCHANGED <<cancelled, tool, results>>
          /\ \E outcome : Schedule(i, outcome)
      BY <1>12 DEF AnswerUser, ResumeFails, RunRaises, RunLeaves, context, counters, Early
    <2>2. \A f \in Invocation \ {i} : fin'[f] = fin[f]
      BY <1>1, <2>1 DEF Schedule, Finalizer
    <2>3. /\ run'[i].pc = "done"
          /\ \A f \in Invocation \ {i} : run'[f] = run[f]
      BY <1>1, <2>1
    <2> QED
      BY <1>2, <2>1, <2>2, <2>3, EndsTask
  <1> QED
    BY <1>3, <1>5, <1>6, <1>7, <1>8, <1>9, <1>10, <1>11, <1>12 DEF RunStep

\* Steps about a sub-task.
LEMMA SubTaskEnds ==
    ASSUME JoinInv, EndInv, NoLateFailure, NEW s \in SubTask, SubTaskStep(s)
    PROVE  EndInv'
  <1>1. /\ tool \in [SubTask -> {"idle", "called", "sent", "failed"}]
        /\ run \in [Invocation -> [pc : RunPC, cause : Invocation \cup {NoCause}]]
        /\ s[1] \in Invocation /\ s[2] \in Call /\ s = <<s[1], s[2]>>
    BY DEF JoinInv, ClaimInv, TypeOK, SubTask
  <1>2. UNCHANGED <<cancelled, fin>> /\ ~cancelled
    BY DEF SubTaskStep, ToolStep, ResponseStep, TimeoutStep, SubmitCall, FailCallEarly,
           FailCallLate, ReceiveStatus, ReceiveFinal, LookUpContext, RecordResponse,
           ExpireTimer, HandleTimeout, IgnoreTimeout, DeliverCancel, context, EndInv
  <1>3. \A i \in Invocation : \/ run'[i] = run[i]
                              \/ run[i].pc = "unused" /\ run'[i].pc = "getSession"
    <2>1. CASE run' = run
      BY <2>1
    <2>2. CASE run' # run
      <3>1. PICK kind \in Kind : RecordResult(s, kind)
        BY <2>2 DEF SubTaskStep, ToolStep, ResponseStep, TimeoutStep, SubmitCall, FailCallEarly,
           FailCallLate, ReceiveStatus, ReceiveFinal, LookUpContext, RecordResponse,
           ExpireTimer, HandleTimeout, IgnoreTimeout, DeliverCancel, Kind
      <3> QED
        BY <3>1, RecordResultRuns DEF JoinInv, ClaimInv
    <2> QED
      BY <2>1, <2>2
  <1>4. \A f \in Invocation : /\ Ended(f)' => Ended(f)
                              /\ run'[f].pc = "unused" => run[f].pc = "unused"
    BY <1>2, <1>3 DEF Ended
  <1>5. CASE RecordResponse(s) \/ HandleTimeout(s)
    <2>1. PICK kind \in {"response", "timeout"} : RecordResult(s, kind)
      BY <1>5 DEF RecordResponse, HandleTimeout
    <2>2. /\ UNCHANGED <<tool, tracked, total, lastInvocation>>
          /\ claim[s] = "summarizing" \/ s \in subTasks
      BY <1>5 DEF RecordResponse, HandleTimeout, Claim
    <2>3. tool[s] = "sent" /\ claim[s] \in {"none", "summarizing"}
      BY <2>2, ClaimedIsSent DEF JoinInv, ClaimInv, RegisteredIsUnclaimed
    <2>4. CASE UNCHANGED <<results, run>>
      <3>1. NoneBusy' = NoneBusy
        BY <2>2, <2>4 DEF NoneBusy, Busy, Waiting, Issued, Answered, Calls
      <3> QED
        BY <1>2, <1>4, <3>1, GoesOn
    <2>5. CASE s[1] \in tracked
      <3>1. run[s[1]].pc \in {"tools", "done"}
        BY <1>1, <2>5 DEF JoinInv, RecordInv, Counted
      <3>2. s[2] \in Waiting(s[1])
        BY <2>1, <2>2, <2>3, RecordResultJoin
      <3>3. s[2] \in Calls(s[1], "sent")
        BY <1>1, <2>3 DEF Calls
      <3>4. Busy(s[1])
        BY <3>1, <3>2, <3>3 DEF Busy
      <3> QED
        BY <1>1, <1>2, <1>4, <3>4, GoesOn DEF NoneBusy
    <2> QED
      BY <2>1, <2>4, <2>5 DEF RecordResult
  <1>6. CASE SubmitCall(s) \/ FailCallEarly(s)
    <2>1. run[s[1]].pc = "tools" /\ tool[s] = "called"
      BY <1>6 DEF SubmitCall, FailCallEarly
    <2>2. s[2] \in Waiting(s[1])
      <3>1. s[2] \in Issued(s[1])
        BY <1>1, <2>1, CallSets
      <3>2. ASSUME NEW k \in Kind, <<s[2], k>> \in results[s[1]]
            PROVE  FALSE
        BY <1>1, <2>1, <3>2, AnsweredCall
      <3> QED
        BY <3>1, <3>2 DEF Waiting, Answered
    <2>3. Busy(s[1])
      BY <2>1, <2>2 DEF Busy
    <2> QED
      BY <1>1, <1>2, <1>4, <2>3, GoesOn DEF NoneBusy
  <1>7. CASE ~(RecordResponse(s) \/ HandleTimeout(s) \/ SubmitCall(s) \/ FailCallEarly(s))
    <2>1. UNCHANGED <<run, tool, results>>
      BY <1>7 DEF SubTaskStep, ToolStep, ResponseStep, TimeoutStep, FailCallLate, NoLateFailure,
                  ReceiveStatus, ReceiveFinal, LookUpContext, ExpireTimer, IgnoreTimeout,
                  DeliverCancel, counters
    <2>2. NoneBusy' = NoneBusy
      BY <2>1 DEF NoneBusy, Busy, Waiting, Issued, Answered, Calls
    <2> QED
      BY <1>2, <1>4, <2>2, GoesOn
  <1> QED
    BY <1>5, <1>6, <1>7

\* Every step keeps the end of a task that nobody cancels.
LEMMA EndNext == JoinInv /\ EndInv /\ NoLateFailure /\ NoCancel /\ [Next]_vars => EndInv'
  <1> SUFFICES ASSUME JoinInv, EndInv, NoLateFailure, NoCancel, [Next]_vars
               PROVE  EndInv'
    OBVIOUS
  <1>1. ASSUME NEW i \in Invocation, ReceiveRequest(i) \/ RunStep(i)
        PROVE  EndInv'
    BY <1>1, RunEnds
  <1>2. ASSUME NEW s \in SubTask, SubTaskStep(s)
        PROVE  EndInv'
    BY <1>2, SubTaskEnds
  <1>3. ASSUME UNCHANGED <<run, tool, results, cancelled>>,
               \A f \in Invocation : fin[f].pc = "none" => fin'[f] = fin[f]
        PROVE  EndInv'
    <2>1. NoneBusy' = NoneBusy
      BY <1>3 DEF NoneBusy, Busy, Waiting, Issued, Answered, Calls
    <2>2. \A f \in Invocation : Ended(f)' => Ended(f)
      BY <1>3 DEF Ended
    <2> QED
      BY <1>3, <2>1, <2>2, GoesOn DEF EndInv
  <1>4. ASSUME NEW f \in Finalizer, FinalizerStep(f)
        PROVE  EndInv'
    <2>1. fin \in [Finalizer -> [pc : FinPC, outcome : Outcome]]
      BY DEF JoinInv, ClaimInv, TypeOK
    <2>2. /\ UNCHANGED <<run, tool, results, cancelled>> /\ fin[f].pc # "none"
          /\ \E p : fin' = [fin EXCEPT ![f].pc = p]
      BY <1>4 DEF FinalizerStep, StartFinalization, PublishFinalResponse, RemoveContext,
                  Published, counters
    <2>3. \A g \in Invocation : fin[g].pc = "none" => fin'[g] = fin[g]
      BY <2>1, <2>2 DEF Finalizer
    <2> QED
      BY <1>3, <2>2, <2>3
  <1>5. ASSUME UNCHANGED vars
        PROVE  EndInv'
    <2>1. UNCHANGED <<run, tool, results, cancelled, fin>>
      BY <1>5 DEF vars, context, counters
    <2> QED
      BY <1>3, <2>1
  <1> QED
    BY <1>1, <1>2, <1>4, <1>5 DEF Next, SubTaskStep, Terminated, NoCancel

\* The requester of a task that nobody cancels gets one final response, whatever
\* raises and however the answers and the timeouts of the peers interleave.
THEOREM OneResponse == NoLateFailure /\ NoCancel => (Spec => []OneFinalResponse)
  <1> SUFFICES ASSUME NoLateFailure, NoCancel
               PROVE  Spec => []OneFinalResponse
    OBVIOUS
  <1>1. Init => EndInv
    BY DEF Init, EndInv, Ended, NoneBusy, Finalizer
  <1>2. JoinInv /\ EndInv /\ [Next]_vars => EndInv'
    BY EndNext
  <1>3. EndInv => OneFinalResponse
    <2> SUFFICES ASSUME EndInv
                 PROVE  Cardinality(FinalResponses) <= 1
      BY DEF OneFinalResponse
    <2>1. \A f \in FinalResponses : f \in Invocation /\ Ended(f)
      BY DEF FinalResponses, Finalizer, NoCancel, Ended
    <2>2. CASE FinalResponses = {}
      <3>1. Cardinality({}) = 0
        BY FS_EmptySet
      <3> QED
        BY <2>2, <3>1
    <2>3. ASSUME NEW f \in FinalResponses
          PROVE  Cardinality(FinalResponses) <= 1
      <3>1. FinalResponses = {f}
        BY <2>1 DEF EndInv
      <3>2. Cardinality({f}) = 1
        BY FS_Singleton
      <3> QED
        BY <3>1, <3>2
    <2> QED
      BY <2>2, <2>3
  <1>4. Spec => []JoinInv
    BY JoinAlways
  <1> QED
    BY <1>1, <1>2, <1>3, <1>4, PTL DEF Spec
=============================================================================
