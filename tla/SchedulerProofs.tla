--------------------------- MODULE SchedulerProofs ----------------------------
(***************************************************************************)
(* Theorems about Scheduler, for every value of its constants.             *)
(***************************************************************************)
EXTENDS Scheduler, FiniteSetTheorems, TLAPS

-----------------------------------------------------------------------------
(* Type correctness.  Inductive with what makes the number of an attempt   *)
(* stay in its range: a run sleeps only if it has an attempt left.         *)

SleepersMayRetry == \A r \in Run : phase[r] = "sleeping" => attempt[r] < MaxRetries

TypeInv == TypeOK /\ SleepersMayRetry

Phases == {"none", "new", "waiting", "notifying", "sleeping", "reporting", "ended"}

\* Whatever a run does at the end of an attempt, it moves itself alone and
\* leaves locks to runs.
LEMMA EndRunType ==
    ASSUME TypeInv, NEW r \in Run, EndRun(r)
    PROVE  /\ phase' \in [Run -> Phases] /\ phase'[r] # "sleeping"
           /\ \A s \in Run \ {r} : phase'[s] = phase[s]
           /\ lock' \in [Task -> Run \cup {Nobody}]
  BY DEF EndRun, TypeInv, TypeOK, Phases

\* The locks after a run has given up its own.
LEMMA HeldType ==
    ASSUME TypeInv, NEW r \in Run
    PROVE  Held(r) \in [Task -> Run \cup {Nobody}]
  BY DEF Held, TypeInv, TypeOK

\* Starting an attempt keeps the types.
LEMMA StartAttemptType ==
    ASSUME TypeInv, NEW r \in Run, NEW n \in 0 .. MaxRetries, StartAttempt(r, n)
    PROVE  TypeInv'
  <1> DEFINE e == <<r, n>>
  <1>1. e \in Execution
    BY DEF Execution
  <1>2. /\ phase' \in [Run -> Phases]
        /\ phase'[r] = "sleeping" => n < MaxRetries
        /\ \A s \in Run \ {r} : phase'[s] = phase[s]
        /\ lock' \in [Task -> Run \cup {Nobody}]
    <2>1. CASE EndRun(r)
      BY <2>1, EndRunType
    <2>2. CASE phase' = [phase EXCEPT ![r] = "waiting"] /\ lock' = Held(r)
      BY <2>2, HeldType DEF TypeInv, TypeOK, Phases
    <2>3. CASE SleepOr(r, n, EndRun(r)) /\ ~EndRun(r)
      BY <2>3, HeldType DEF SleepOr, TypeInv, TypeOK, Phases
    <2> QED
      BY <2>1, <2>2, <2>3 DEF StartAttempt
  <1>3. /\ status' \in [Execution -> {"none", "pending", "running", "completed",
                                      "failed", "timeout", "skipped"}]
        /\ running' \subseteq Execution
        /\ submission' \in [Execution -> {"none", "created", "opened", "waiting",
                                          "signalled", "raised", "over"}]
        /\ errors' \in 0 .. MaxErrors
    BY <1>1, BoundAssumption DEF StartAttempt, Raise, TypeInv, TypeOK
  <1>4. attempt' \in [Run -> 0 .. MaxRetries] /\ attempt'[r] = n
        /\ \A s \in Run \ {r} : attempt'[s] = attempt[s]
    BY DEF StartAttempt, TypeInv, TypeOK
  <1>5. UNCHANGED <<up, task, detached, pending, published, edits, crashes>>
    BY DEF StartAttempt
  <1>6. TypeOK'
    BY <1>2, <1>3, <1>4, <1>5 DEF TypeInv, TypeOK, Phases
  <1> QED
    BY <1>2, <1>4, <1>6 DEF TypeInv, SleepersMayRetry

\* The steps of a run.
LEMMA RunStepType ==
    ASSUME TypeInv, NEW r \in Run, RunStep(r)
    PROVE  TypeInv'
  <1> USE DEF TypeInv, TypeOK, Phases, SleepersMayRetry
  <1>0. Current(r) \in Execution
    BY DEF Current, Execution
  <1>1. CASE Begin(r)
    BY <1>1, StartAttemptType, LimitAssumption DEF Begin
  <1>2. CASE Overlap(r)
    BY <1>2, EndRunType DEF Overlap, exeVars
  <1>3. CASE Retry(r)
    <2>1. attempt[r] + 1 \in 0 .. MaxRetries
      BY <1>3, LimitAssumption DEF Retry
    <2> QED
      BY <1>3, <2>1, StartAttemptType DEF Retry
  <1>4. CASE Resume(r)
    <2>1. /\ phase' \in [Run -> Phases] /\ lock' \in [Task -> Run \cup {Nobody}]
          /\ phase'[r] = "sleeping" => attempt[r] < MaxRetries
          /\ \A s \in Run \ {r} : phase'[s] = phase[s]
      BY <1>4, EndRunType, HeldType DEF Resume, Report, SleepOr
    <2> QED
      BY <1>0, <1>4, <2>1 DEF Resume
  <1>5. CASE TimeOut(r)
    <2>1. /\ phase' \in [Run -> Phases] /\ lock' \in [Task -> Run \cup {Nobody}]
          /\ phase'[r] = "sleeping" => attempt[r] < MaxRetries
          /\ \A s \in Run \ {r} : phase'[s] = phase[s]
      BY <1>5, HeldType DEF TimeOut, Report, SleepOr
    <2> QED
      BY <1>0, <1>5, <2>1 DEF TimeOut, Cancel
  <1>6. CASE FailAttempt(r)
    <2>1. /\ phase' \in [Run -> Phases] /\ lock' \in [Task -> Run \cup {Nobody}]
          /\ phase'[r] = "sleeping" => attempt[r] < MaxRetries
          /\ \A s \in Run \ {r} : phase'[s] = phase[s]
      BY <1>6, EndRunType, HeldType DEF FailAttempt, SleepOr
    <2> QED
      BY <1>0, <1>6, <2>1, BoundAssumption DEF FailAttempt, Cancel, Raise
  <1>7. CASE Notified(r)
    BY <1>7, EndRunType DEF Notified
  <1> QED
    BY <1>1, <1>2, <1>3, <1>4, <1>5, <1>6, <1>7 DEF RunStep

\* Submissions, responses and the cleaner.
ExecutionStep(e) == SubmitStep(e) \/ CleanStale(e) \/ Respond(e)

\* So do the steps of a submission.
LEMMA ExecutionStepType ==
    ASSUME TypeInv, NEW e \in Execution, ExecutionStep(e)
    PROVE  TypeInv'
  <1> USE BoundAssumption DEF TypeInv, TypeOK, SleepersMayRetry, runVars
  <1>1. CASE Open(e)
    BY <1>1 DEF Open
  <1>2. CASE Publish(e)
    BY <1>2 DEF Publish
  <1>3. CASE SubmissionRaises(e)
    BY <1>3 DEF SubmissionRaises, Raise
  <1>4. CASE CleanStale(e)
    BY <1>4 DEF CleanStale, SignalStale, Signal
  <1>5. CASE Respond(e)
    BY <1>5 DEF Respond, Signal, Raise
  <1> QED
    BY <1>1, <1>2, <1>3, <1>4, <1>5 DEF ExecutionStep, SubmitStep

\* Every step keeps the types.
LEMMA NextType == TypeInv /\ [Next]_vars => TypeInv'
  <1> SUFFICES ASSUME TypeInv, [Next]_vars
               PROVE  TypeInv'
    OBVIOUS
  <1> USE BoundAssumption DEF TypeInv, TypeOK, SleepersMayRetry, runVars, exeVars
  <1>1. ASSUME NEW r \in Run, RunStep(r)
        PROVE  TypeInv'
    BY <1>1, RunStepType
  <1>2. ASSUME NEW e \in Execution, ExecutionStep(e)
        PROVE  TypeInv'
    BY <1>2, ExecutionStepType
  <1>3. ASSUME NEW r \in Run, Trigger(r)
        PROVE  TypeInv'
    BY <1>3 DEF Trigger
  <1>4. ASSUME NEW t \in Task, Edit(t)
        PROVE  TypeInv'
    BY <1>4 DEF Edit, Unschedule
  <1>5. CASE Crash
    <2>1. /\ phase' \in [Run -> Phases] /\ \A r \in Run : phase'[r] # "sleeping"
          /\ lock' \in [Task -> Run \cup {Nobody}]
      BY <1>5 DEF Crash, Phases
    <2>2. submission' \in [Execution -> {"none", "created", "opened", "waiting",
                                        "signalled", "raised", "over"}]
      BY <1>5 DEF Crash
    <2>3. /\ running' \subseteq Execution /\ pending' \subseteq Execution
          /\ published' \subseteq Execution /\ detached' \subseteq Run
          /\ up' \in BOOLEAN
          /\ UNCHANGED <<task, attempt, status, errors, edits>>
      BY <1>5 DEF Crash
    <2>4. crashes' \in 0 .. MaxCrashes
      BY <1>5 DEF Crash
    <2>5. TypeOK'
      BY <2>1, <2>2, <2>3, <2>4 DEF Phases
    <2> QED
      BY <2>1, <2>5
  <1>6. CASE Start
    BY <1>6 DEF Start, Raise
  <1>7. CASE UNCHANGED vars
    BY <1>7 DEF vars
  <1> QED
    BY <1>1, <1>2, <1>3, <1>4, <1>5, <1>6, <1>7
       DEF Next, ServiceStep, ExecutionStep

\* They hold before the first trigger.
LEMMA InitType == Init => TypeInv
  BY LimitAssumption, BoundAssumption DEF Init, TypeInv, TypeOK, SleepersMayRetry

\* The state of the scheduler always has its type: in particular no run is tried
\* more often than max_retries allows, through errors, edits and restarts.
THEOREM TypeCorrect == Spec => []TypeOK
  <1>1. TypeInv => TypeOK
    BY DEF TypeInv
  <1> QED
    BY <1>1, InitType, NextType, PTL DEF Spec

-----------------------------------------------------------------------------
(* The limit of concurrent executions.  Inductive: the table of running    *)
(* executions is never larger than the limit, and every submission that is *)
(* under way is in it; its run waits for it, in the attempt it belongs to. *)

Live == {e \in Execution :
           submission[e] \in {"created", "opened", "waiting", "signalled"}}

TableWithinLimit == IsFiniteSet(running) /\ Cardinality(running) <= MaxConcurrent
LiveIsInTable == Live \subseteq running
LiveIsAwaited == \A e \in Live : phase[e[1]] = "waiting" /\ e = Current(e[1])

SlotInv == TypeInv /\ TableWithinLimit /\ LiveIsInTable /\ LiveIsAwaited

\* Executions that leave the table keep it within the limit.
LEMMA SmallerTable ==
    ASSUME SlotInv, running' \subseteq running
    PROVE  TableWithinLimit'
  BY TypeInv, LimitAssumption, FS_Subset, FS_CardinalityType
     DEF SlotInv, TableWithinLimit

\* A step that ends the only submission of a run, if it has one, and moves no
\* other run.
LEMMA SubmissionEnds ==
    ASSUME SlotInv, TypeInv', NEW r \in Run,
           running' \subseteq running,
           running \ running' \subseteq {Current(r)},
           Live' \subseteq Live \ {Current(r)},
           \A s \in Run \ {r} : phase'[s] = phase[s] /\ attempt'[s] = attempt[s]
    PROVE  SlotInv'
  <1>1. TableWithinLimit'
    BY SmallerTable
  <1>2. LiveIsInTable'
    BY DEF SlotInv, LiveIsInTable
  <1>3. \A e \in Live' : e \in Live /\ e[1] \in Run \ {r}
    BY DEF SlotInv, LiveIsAwaited, Live, Execution, Current
  <1>4. LiveIsAwaited'
    BY <1>3 DEF SlotInv, LiveIsAwaited, Current
  <1> QED
    BY <1>1, <1>2, <1>4 DEF SlotInv

\* A run that starts an attempt has no submission under way, and takes a slot
\* only if there is one.
LEMMA StartAttemptKeepsSlots ==
    ASSUME SlotInv, TypeInv', NEW r \in Run, NEW n \in 0 .. MaxRetries,
           phase[r] \in {"new", "sleeping"}, StartAttempt(r, n)
    PROVE  SlotInv'
  <1> DEFINE e == <<r, n>>
  <1>1. /\ e \in Execution /\ attempt'[r] = n
        /\ \A s \in Run \ {r} : attempt'[s] = attempt[s]
    BY DEF StartAttempt, Execution, SlotInv, TypeInv, TypeOK
  <1>2. \A s \in Run \ {r} : phase'[s] = phase[s]
    BY DEF StartAttempt, EndRun, SleepOr, SlotInv, TypeInv, TypeOK
  <1>3. \A d \in Live : d[1] \in Run \ {r}
    BY DEF SlotInv, LiveIsAwaited, Live, Execution
  <1>4. CASE UNCHANGED <<running, submission>>
    <2>1. Live' = Live
      BY <1>4 DEF Live
    <2>2. Live' \subseteq Live \ {Current(r)}
      BY <1>3, <2>1 DEF Current
    <2> QED
      BY <1>1, <1>2, <1>4, <2>2, SubmissionEnds
  <1>5. CASE /\ HasRoom
             /\ running' = running \cup {e}
             /\ submission' = [submission EXCEPT ![e] = "created"]
             /\ phase' = [phase EXCEPT ![r] = "waiting"]
    <2>1. Live' = Live \cup {e}
      BY <1>1, <1>5 DEF Live, SlotInv, TypeInv, TypeOK
    <2>2. TableWithinLimit'
      <3>1. IsFiniteSet(running) /\ Cardinality(running) \in Nat
        BY FS_CardinalityType DEF SlotInv, TableWithinLimit
      <3>2. /\ IsFiniteSet(running \cup {e})
            /\ Cardinality(running \cup {e}) \in {Cardinality(running), Cardinality(running) + 1}
        BY <3>1, FS_AddElement
      <3> QED
        BY <1>5, <3>1, <3>2, LimitAssumption DEF HasRoom, TableWithinLimit
    <2>3. LiveIsInTable'
      BY <1>5, <2>1 DEF SlotInv, LiveIsInTable
    <2>4. phase'[r] = "waiting"
      BY <1>5 DEF SlotInv, TypeInv, TypeOK
    <2>5. LiveIsAwaited'
      BY <1>1, <1>2, <1>3, <2>1, <2>4 DEF SlotInv, LiveIsAwaited, Current
    <2> QED
      BY <2>2, <2>3, <2>5 DEF SlotInv
  <1> QED
    BY <1>4, <1>5 DEF StartAttempt

\* A run takes a slot only while there is one, and leaves it with its attempt.
LEMMA RunStepKeepsSlots ==
    ASSUME SlotInv, TypeInv', NEW r \in Run, RunStep(r)
    PROVE  SlotInv'
  <1> USE DEF SlotInv, TypeInv, TypeOK
  <1>0. Current(r) \in Execution
    BY DEF Current, Execution
  <1>1. CASE Begin(r)
    BY <1>1, StartAttemptKeepsSlots, LimitAssumption DEF Begin
  <1>2. CASE Overlap(r)
    <2>1. Live' = Live /\ running' = running /\ attempt' = attempt
      BY <1>2 DEF Overlap, Live, exeVars
    <2>2. Current(r) \notin Live
      BY <1>2 DEF Overlap, LiveIsAwaited, Current
    <2> QED
      BY <1>2, <2>1, <2>2, SubmissionEnds DEF Overlap, EndRun
  <1>3. CASE Retry(r)
    <2>1. attempt[r] + 1 \in 0 .. MaxRetries
      BY <1>3, LimitAssumption DEF Retry, SleepersMayRetry
    <2> QED
      BY <1>3, <2>1, StartAttemptKeepsSlots DEF Retry
  <1>4. CASE Resume(r) \/ TimeOut(r) \/ FailAttempt(r)
    <2>1. submission' = [submission EXCEPT ![Current(r)] = "over"]
      BY <1>4 DEF Resume, TimeOut, FailAttempt, Cancel
    <2>2. Live' \subseteq Live \ {Current(r)}
      BY <1>0, <2>1 DEF Live
    <2>3. running' \subseteq running /\ running \ running' \subseteq {Current(r)}
      BY <1>4 DEF Resume, TimeOut, FailAttempt
    <2>4. \A s \in Run \ {r} : phase'[s] = phase[s] /\ attempt'[s] = attempt[s]
      BY <1>4 DEF Resume, TimeOut, FailAttempt, SleepOr, Report, EndRun
    <2> QED
      BY <2>2, <2>3, <2>4, SubmissionEnds
  <1>5. CASE Notified(r)
    <2>1. Live' = Live /\ attempt' = attempt
      BY <1>5 DEF Notified, Live
    <2>2. Current(r) \notin Live
      BY <1>5 DEF Notified, LiveIsAwaited, Current
    <2>3. running' \subseteq running /\ running \ running' \subseteq {Current(r)}
      BY <1>5 DEF Notified
    <2> QED
      BY <1>5, <2>1, <2>2, <2>3, SubmissionEnds DEF Notified, EndRun
  <1> QED
    BY <1>1, <1>2, <1>3, <1>4, <1>5 DEF RunStep

\* Submissions and responses take no slot and make nothing live that was not.
LEMMA ExecutionStepKeepsSlots ==
    ASSUME SlotInv, TypeInv', NEW e \in Execution, ExecutionStep(e)
    PROVE  SlotInv'
  <1>1. Live' \subseteq Live
    BY DEF ExecutionStep, SubmitStep, Open, Publish, SubmissionRaises, CleanStale,
           Respond, SignalStale, Signal, Live, SlotInv, TypeInv, TypeOK
  <1>2. UNCHANGED <<running, phase, attempt>>
    BY DEF ExecutionStep, SubmitStep, Open, Publish, SubmissionRaises, CleanStale,
           Respond, runVars
  <1> QED
    BY <1>1, <1>2, SmallerTable DEF SlotInv, LiveIsInTable, LiveIsAwaited, Current

\* Every step keeps the table of running executions exact enough.
LEMMA SlotInvInductive == SlotInv /\ [Next]_vars => SlotInv'
  <1> SUFFICES ASSUME SlotInv, [Next]_vars
               PROVE  SlotInv'
    OBVIOUS
  <1>1. TypeInv'
    BY NextType DEF SlotInv
  <1>2. ASSUME NEW r \in Run, RunStep(r)
        PROVE  SlotInv'
    BY <1>1, <1>2, RunStepKeepsSlots
  <1>3. ASSUME NEW e \in Execution, ExecutionStep(e)
        PROVE  SlotInv'
    BY <1>1, <1>3, ExecutionStepKeepsSlots
  <1>4. ASSUME NEW r \in Run, Trigger(r)
        PROVE  SlotInv'
    BY <1>1, <1>4 DEF Trigger, SlotInv, TypeInv, TypeOK, TableWithinLimit,
                      LiveIsInTable, LiveIsAwaited, Live, Current, Execution, exeVars
  <1>5. CASE Crash
    BY <1>1, <1>5, FS_EmptySet, LimitAssumption
       DEF Crash, SlotInv, TableWithinLimit, LiveIsInTable, LiveIsAwaited, Live
  <1>6. ASSUME UNCHANGED <<running, submission, phase, attempt>>
        PROVE  SlotInv'
    BY <1>1, <1>6 DEF SlotInv, TableWithinLimit, LiveIsInTable, LiveIsAwaited, Live,
                      Current
  <1>7. CASE \/ \E t \in Task : Edit(t)
             \/ Start \/ UNCHANGED vars
    BY <1>6, <1>7 DEF Edit, Start, vars, runVars, exeVars
  <1> QED
    BY <1>2, <1>3, <1>4, <1>5, <1>7 DEF Next, ServiceStep, ExecutionStep

\* max_concurrent_executions limits the submissions that are really under way,
\* whatever times out, raises, is retried or restarted.
THEOREM LimitHolds == Spec => []ConcurrencyLimit
  <1>1. Init => SlotInv
    BY InitType, FS_EmptySet, LimitAssumption
       DEF Init, SlotInv, TableWithinLimit, LiveIsInTable, LiveIsAwaited, Live
  <1>2. SlotInv => ConcurrencyLimit
    BY FS_Subset, FS_CardinalityType, LimitAssumption
       DEF SlotInv, TableWithinLimit, LiveIsInTable, Live, ConcurrencyLimit
  <1> QED
    BY <1>1, <1>2, SlotInvInductive, PTL DEF Spec

-----------------------------------------------------------------------------
(* Who waits for a response can get it.  With its type this is inductive.  *)

\* Every step keeps a waiting submission registered.
LEMMA WaiterInductive ==
    TypeInv /\ WaiterIsPending /\ [Next]_vars => WaiterIsPending'
  <1> SUFFICES ASSUME TypeInv, WaiterIsPending, [Next]_vars
               PROVE  WaiterIsPending'
    OBVIOUS
  <1> USE DEF TypeInv, TypeOK, WaiterIsPending
  <1>1. ASSUME NEW r \in Run, RunStep(r)
        PROVE  WaiterIsPending'
    <2>1. UNCHANGED <<pending, published>>
      BY <1>1 DEF RunStep, Begin, Overlap, Retry, StartAttempt, Resume, TimeOut,
                  FailAttempt, Notified, exeVars
    <2>2. \A e \in Execution : submission'[e] = "waiting" => submission[e] = "waiting"
      <3>1. \/ submission' = submission
            \/ \E e \in Execution : \E s \in {"created", "over"} :
                  submission' = [submission EXCEPT ![e] = s]
        <4>1. <<r, 0>> \in Execution /\ Current(r) \in Execution
          BY LimitAssumption DEF Execution, Current
        <4>2. CASE Retry(r)
          <5>1. <<r, attempt[r] + 1>> \in Execution
            BY <4>2, LimitAssumption DEF Retry, SleepersMayRetry, Execution
          <5> QED
            BY <4>2, <5>1 DEF Retry, StartAttempt
        <4> QED
          BY <1>1, <4>1, <4>2 DEF RunStep, Begin, Overlap, StartAttempt, Resume,
                              TimeOut, FailAttempt, Notified, Cancel, exeVars
      <3> QED
        BY <3>1
    <2> QED
      BY <2>1, <2>2
  <1>2. ASSUME NEW e \in Execution, ExecutionStep(e)
        PROVE  WaiterIsPending'
    BY <1>2 DEF ExecutionStep, SubmitStep, Open, Publish, SubmissionRaises,
                CleanStale, Respond, SignalStale, Signal
  <1>3. CASE Crash
    BY <1>3 DEF Crash
  <1>4. CASE \/ \E r \in Run : Trigger(r)
             \/ \E t \in Task : Edit(t)
             \/ Start \/ UNCHANGED vars
    BY <1>4 DEF Trigger, Edit, Start, vars, exeVars
  <1> QED
    BY <1>1, <1>2, <1>3, <1>4 DEF Next, ServiceStep, ExecutionStep

\* Whatever takes an execution from the table of pending ones wakes the coroutine
\* that waits for it: the response handler and the cleaner may come in any order.
THEOREM WaitersAreWoken == Spec => []WaiterIsPending
  <1>1. Init => WaiterIsPending
    BY DEF Init, WaiterIsPending
  <1> QED
    BY <1>1, InitType, NextType, WaiterInductive, PTL DEF Spec

-----------------------------------------------------------------------------
(* Overlaps.  Inductive: a run in flight whose lock was not forgotten      *)
(* holds it.                                                               *)

FlyersHoldLock ==
    \A r \in Run \ detached : InFlight(r) => lock[TaskOf[r]] = r

LockInv == TypeInv /\ FlyersHoldLock

\* A run in flight holds its lock, or the lock was forgotten.
LEMMA RunStepKeepsLocks ==
    ASSUME LockInv, NEW r \in Run, RunStep(r)
    PROVE  FlyersHoldLock'
  <1> USE RunAssumption DEF LockInv, TypeInv, TypeOK, FlyersHoldLock, InFlight
  <1>0. detached' = detached
    BY DEF RunStep, Begin, Overlap, Retry, StartAttempt, Resume, TimeOut,
           FailAttempt, Notified
  <1>1. ASSUME EndRun(r)
        PROVE  FlyersHoldLock'
    BY <1>0, <1>1 DEF EndRun
  <1>2. ASSUME phase[r] = "new" => LockFree(r),
               NEW p \in {"waiting", "sleeping"}, phase[r] \in {"new"} \/ InFlight(r),
               phase' = [phase EXCEPT ![r] = p], lock' = Held(r)
        PROVE  FlyersHoldLock'
    BY <1>0, <1>2 DEF LockFree, Held
  <1>3. ASSUME InFlight(r), NEW how \in {"notifying", "reporting"}, Report(r, how)
        PROVE  FlyersHoldLock'
    BY <1>0, <1>3 DEF Report
  <1>4. CASE Begin(r) \/ Retry(r)
    BY <1>1, <1>2, <1>4 DEF Begin, Retry, StartAttempt, SleepOr
  <1>5. CASE Overlap(r) \/ Notified(r)
    BY <1>1, <1>5 DEF Overlap, Notified
  <1>6. CASE Resume(r)
    BY <1>1, <1>2, <1>3, <1>6 DEF Resume, SleepOr
  <1>7. CASE TimeOut(r) \/ FailAttempt(r)
    BY <1>1, <1>2, <1>3, <1>7 DEF TimeOut, FailAttempt, SleepOr
  <1> QED
    BY <1>4, <1>5, <1>6, <1>7 DEF RunStep

\* Every step keeps the locks of the runs in flight.
LEMMA LockInvInductive == LockInv /\ [Next]_vars => LockInv'
  <1> SUFFICES ASSUME LockInv, [Next]_vars
               PROVE  LockInv'
    OBVIOUS
  <1>1. TypeInv'
    BY NextType DEF LockInv
  <1>2. SUFFICES FlyersHoldLock'
    BY <1>1 DEF LockInv
  <1> USE DEF LockInv, TypeInv, TypeOK, FlyersHoldLock, InFlight
  <1>3. ASSUME NEW r \in Run, RunStep(r)
        PROVE  FlyersHoldLock'
    BY <1>3, RunStepKeepsLocks
  <1>4. ASSUME NEW t \in Task, Edit(t)
        PROVE  FlyersHoldLock'
    BY <1>4, RunAssumption DEF Edit, Unschedule, runVars
  <1>5. ASSUME NEW r \in Run, Trigger(r)
        PROVE  FlyersHoldLock'
    BY <1>5 DEF Trigger
  <1>6. CASE Crash
    BY <1>6 DEF Crash
  <1>7. CASE \/ \E e \in Execution : ExecutionStep(e)
             \/ Start \/ UNCHANGED vars
    BY <1>7 DEF ExecutionStep, SubmitStep, Open, Publish, SubmissionRaises,
                CleanStale, Respond, Start, vars, runVars
  <1> QED
    BY <1>3, <1>4, <1>5, <1>6, <1>7 DEF Next, ServiceStep, ExecutionStep

\* Two runs of a task overlap only if the task was edited while one of them held
\* its lock.
THEOREM OnlyEditsOverlap == Spec => []OverlapNeedsEdit
  <1>1. Init => LockInv
    BY InitType DEF Init, LockInv, FlyersHoldLock, InFlight
  <1>2. LockInv => OverlapNeedsEdit
    BY DEF LockInv, FlyersHoldLock, OverlapNeedsEdit
  <1> QED
    BY <1>1, <1>2, LockInvInductive, PTL DEF Spec
=============================================================================
