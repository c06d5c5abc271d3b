------------------------------ MODULE Scheduler -----------------------------
(***************************************************************************)
(* Scheduled tasks of the web gateway: triggers, the runs they start, the  *)
(* attempts of a run and the responses of the agents.                      *)
(*                                                                         *)
(* Everything runs on one event loop.  An action is what a coroutine does  *)
(* between two points where it really waits: the service's locks are never *)
(* held across one, so they are always free, and messages to browsers do   *)
(* not wait.  The statements that record a failure succeed; any other may  *)
(* raise.                                                                  *)
(*                                                                         *)
(*   triggers, runs, timeouts, cleaner    scheduler_service.py             *)
(*   responses                            result_handler.py                *)
(*   edits                                routers/scheduled_tasks.py       *)
(***************************************************************************)
EXTENDS Integers, FiniteSets

CONSTANTS
    Task,
    Run,            \* bound: the triggers that fire
    TaskOf,         \* the task of each
    Manual,         \* those of a user; the others are the job runner's
    MaxRetries,     \* max_retries, of every task
    MaxConcurrent,  \* max_concurrent_executions
    MaxErrors,      \* bound: statements and calls that raise
    MaxEdits,       \* bound: how often a user edits a task
    MaxCrashes      \* bound: how often the gateway stops or crashes

Nobody == "nobody"
ASSUME RunAssumption == /\ TaskOf \in [Run -> Task] /\ Manual \subseteq Run
                        /\ Nobody \notin Run
ASSUME LimitAssumption == MaxRetries \in Nat /\ MaxConcurrent \in Nat \ {0}
ASSUME BoundAssumption == /\ MaxErrors \in Nat /\ MaxEdits \in Nat
                          /\ MaxCrashes \in Nat

Execution == Run \X (0 .. MaxRetries)  \* an attempt of a run

VARIABLES
    up,         \* the service has started
    task,       \* each task's row
    lock,       \* _task_locks: who holds the lock of each task
    phase,      \* the next step of each run
    attempt,    \* the attempt it is in
    detached,   \* history: running runs whose lock was forgotten
    status,     \* the row of each execution
    running,    \* running_executions
    submission, \* the coroutine that submits an execution
    pending,    \* pending_executions
    published,  \* requests whose responses may still come
    errors, edits, crashes

runVars == <<phase, attempt>>
exeVars == <<status, running, submission, pending, published>>
vars == <<up, task, lock, runVars, detached, exeVars, errors, edits, crashes>>

Init ==
    /\ up = TRUE
    /\ task = [t \in Task |-> "enabled"]
    /\ lock = [t \in Task |-> Nobody]
    /\ phase = [r \in Run |-> "none"]
    /\ attempt = [r \in Run |-> 0]
    /\ detached = {}
    /\ status = [e \in Execution |-> "none"]
    /\ submission = [e \in Execution |-> "none"]
    /\ running = {} /\ pending = {} /\ published = {}
    /\ errors = 0 /\ edits = 0 /\ crashes = 0

Current(r) == <<r, attempt[r]>>
Raise == errors < MaxErrors /\ errors' = errors + 1

-----------------------------------------------------------------------------
(* Triggers.                                                               *)

\* The job runner, a library, fires the job of a task, which exists while the
\* task is enabled, and not again while its last coroutine runs.
MayFire(r) ==
    /\ task[TaskOf[r]] = "enabled"
    /\ \A o \in Run \ Manual : TaskOf[o] = TaskOf[r] => phase[o] \in {"none", "ended"}

\* trigger_task_now: "Run Now" is refused while the lock is taken.
MayTrigger(r) == task[TaskOf[r]] # "deleted" /\ lock[TaskOf[r]] = Nobody

Trigger(r) ==
    /\ up /\ phase[r] = "none"
    /\ IF r \in Manual THEN MayTrigger(r) ELSE MayFire(r)
    /\ phase' = [phase EXCEPT ![r] = "new"]
    /\ UNCHANGED <<up, task, lock, attempt, detached, exeVars, errors, edits,
                   crashes>>

-----------------------------------------------------------------------------
(* A run: _execute_scheduled_task and its loop over the attempts.          *)

\* Its lock, which the first attempt takes
Held(r) == [lock EXCEPT ![TaskOf[r]] = IF phase[r] = "new" THEN r ELSE @]

EndRunLocked(r) ==  \* mutant: the lock is not released
    phase' = [phase EXCEPT ![r] = "ended"] /\ lock' = Held(r)

\* It returns and releases its lock, if that still is the lock of the task.
EndRun(r) ==
    /\ phase' = [phase EXCEPT ![r] = "ended"]
    /\ lock' = [t \in Task |-> IF lock[t] = r THEN Nobody ELSE lock[t]]

SleepOnceMore(r, n, last) ==  \* mutant: an attempt too many
    IF n <= MaxRetries
      THEN phase' = [phase EXCEPT ![r] = "sleeping"] /\ lock' = Held(r)
      ELSE last

\* Attempt n failed: sleep before the next one, or do what follows the last.
SleepOr(r, n, last) ==
    IF n < MaxRetries
      THEN phase' = [phase EXCEPT ![r] = "sleeping"] /\ lock' = Held(r)
      ELSE last

MayRun(r) ==
    \/ task[TaskOf[r]] = "enabled"
    \/ task[TaskOf[r]] = "disabled" /\ r \in Manual

HasRoomForOneMore == Cardinality(running) <= MaxConcurrent  \* mutant: off by one

HasRoom == Cardinality(running) < MaxConcurrent

\* Under the execution lock: the count, the row, the submission.  What raises
\* before the first attempt ends the run, in an attempt it only fails that.
StartAttempt(r, n) ==
    LET e == <<r, n>> IN
    /\ attempt' = [attempt EXCEPT ![r] = n]
    /\ \/ /\ ~HasRoom
          /\ status' = [status EXCEPT ![e] = "skipped"]
          /\ EndRun(r)
          /\ UNCHANGED <<running, submission, errors>>
       \/ /\ HasRoom /\ ~MayRun(r)
          /\ EndRun(r)
          /\ UNCHANGED <<status, running, submission, errors>>
       \/ /\ HasRoom /\ MayRun(r)
          /\ status' = [status EXCEPT ![e] = "pending"]
          /\ running' = running \cup {e}
          /\ submission' = [submission EXCEPT ![e] = "created"]
          /\ phase' = [phase EXCEPT ![r] = "waiting"]
          /\ lock' = Held(r)
          /\ UNCHANGED errors
       \/ /\ Raise
          /\ \/ phase[r] = "new" /\ EndRun(r)
             \/ SleepOr(r, n, EndRun(r))
          /\ UNCHANGED <<status, running, submission>>
    /\ UNCHANGED <<up, task, detached, pending, published, edits, crashes>>

LockIgnored(r) == TRUE  \* mutant: the lock is not looked at

LockFree(r) == lock[TaskOf[r]] = Nobody

Begin(r) == phase[r] = "new" /\ LockFree(r) /\ StartAttempt(r, 0)

\* The lock was taken since the trigger: the run is silently given up.
Overlap(r) ==
    /\ phase[r] = "new" /\ ~LockFree(r)
    /\ EndRun(r)
    /\ UNCHANGED <<up, task, attempt, detached, exeVars, errors, edits, crashes>>

Retry(r) == phase[r] = "sleeping" /\ StartAttempt(r, attempt[r] + 1)

Report(r, how) == phase' = [phase EXCEPT ![r] = how] /\ UNCHANGED lock

\* The submission is over: read how the execution ended.  Only a failure is
\* tried again; a completed one is reported while it still counts as running.
Resume(r) ==
    LET e == Current(r) IN
    /\ phase[r] = "waiting" /\ submission[e] = "signalled"
    /\ submission' = [submission EXCEPT ![e] = "over"]
    /\ running' = IF status[e] = "completed" THEN running ELSE running \ {e}
    /\ CASE status[e] = "completed" ->
              Report(r, "notifying")
         [] status[e] = "failed" ->
              SleepOr(r, attempt[r], Report(r, "reporting"))
         [] OTHER -> EndRun(r)
    /\ UNCHANGED <<up, task, attempt, detached, status, pending, published,
                   errors, edits, crashes>>

Cancel(e) == submission' = [submission EXCEPT ![e] = "over"]

\* wait_for: the submission is cancelled, its response still expected.  Timeouts
\* are a minute at least, so it has begun; it may have been signalled just now.
TimeOut(r) ==
    LET e == Current(r) IN
    /\ phase[r] = "waiting" /\ submission[e] \in {"opened", "waiting", "signalled"}
    /\ Cancel(e)
    /\ status' = [status EXCEPT ![e] = "timeout"]
    /\ running' = running \ {e}
    /\ SleepOr(r, attempt[r], Report(r, "reporting"))
    /\ UNCHANGED <<up, task, attempt, detached, pending, published, errors,
                   edits, crashes>>

\* An exception of the submission, or of a statement or a notification of the
\* run, fails the attempt, whatever its row said.
FailAttempt(r) ==
    LET e == Current(r) IN
    /\ \/ /\ phase[r] = "waiting" /\ submission[e] = "raised"
          /\ UNCHANGED errors
       \/ /\ phase[r] = "waiting" /\ submission[e] = "signalled" /\ Raise
       \/ /\ phase[r] \in {"notifying", "reporting"} /\ Raise
    /\ status' = [status EXCEPT ![e] = "failed"]
    /\ running' = running \ {e}
    /\ Cancel(e)
    /\ SleepOr(r, attempt[r], EndRun(r))
    /\ UNCHANGED <<up, task, attempt, detached, pending, published, edits, crashes>>

\* The notification of a completed or of a finally failed execution was sent.
Notified(r) ==
    /\ phase[r] \in {"notifying", "reporting"}
    /\ running' = running \ {Current(r)}
    /\ EndRun(r)
    /\ UNCHANGED <<up, task, attempt, detached, status, submission, pending,
                   published, errors, edits, crashes>>

RunStep(r) ==
    \/ Begin(r) \/ Overlap(r) \/ Retry(r) \/ Resume(r)
    \/ TimeOut(r) \/ FailAttempt(r) \/ Notified(r)

-----------------------------------------------------------------------------
(* _submit_task_to_agent_mesh                                              *)

\* The session and the status, in one transaction.
Open(e) ==
    /\ submission[e] = "created"
    /\ submission' = [submission EXCEPT ![e] = "opened"]
    /\ status' = [status EXCEPT ![e] = "running"]
    /\ UNCHANGED <<up, task, lock, runVars, detached, running, pending, published,
                   errors, edits, crashes>>

\* The user's configuration was resolved: register and publish.
Publish(e) ==
    /\ submission[e] = "opened"
    /\ submission' = [submission EXCEPT ![e] = "waiting"]
    /\ pending' = pending \cup {e}
    /\ published' = published \cup {e}
    /\ UNCHANGED <<up, task, lock, runVars, detached, status, running, errors,
                   edits, crashes>>

\* Either raises; if it is the publishing, the registration stays.
SubmissionRaises(e) ==
    /\ submission[e] \in {"created", "opened"} /\ Raise
    /\ submission' = [submission EXCEPT ![e] = "raised"]
    /\ status' = [status EXCEPT ![e] = "failed"]
    /\ pending' \in {pending} \cup
                    (IF submission[e] = "opened" THEN {pending \cup {e}} ELSE {})
    /\ UNCHANGED <<up, task, lock, runVars, detached, running, published, edits,
                   crashes>>

SubmitStep(e) == Open(e) \/ Publish(e) \/ SubmissionRaises(e)

-----------------------------------------------------------------------------
(* Responses and the cleaner.                                              *)

\* The completion event of an execution is set.
Signal(e) ==
    submission' = [submission EXCEPT ![e] = IF @ = "waiting" THEN "signalled" ELSE @]

\* handle_response: a result, an error or a request for input, in time or late.
\* The entry in pending makes a second delivery harmless.
Respond(e) ==
    /\ up /\ e \in published \cap pending
    /\ \/ /\ \E s \in {"completed", "failed"} : status' = [status EXCEPT ![e] = s]
          /\ UNCHANGED errors
       \/ Raise /\ UNCHANGED status
    /\ pending' = pending \ {e}
    /\ Signal(e)
    /\ UNCHANGED <<up, task, lock, runVars, detached, running, published, edits,
                   crashes>>

StaleIfTracked(e) ==  \* mutant: only executions in memory are looked at
    status[e] = "running" /\ e \in pending

\* A row that says running since longer than stale_execution_timeout_seconds
Stale(e) == status[e] = "running"

SignalNobody(e) == UNCHANGED submission  \* mutant: the event is dropped unset

SignalStale(e) == Signal(e)

CleanStale(e) ==
    /\ up /\ Stale(e)
    /\ status' = [status EXCEPT ![e] = "timeout"]
    /\ pending' = pending \ {e}
    /\ SignalStale(e)
    /\ UNCHANGED <<up, task, lock, runVars, detached, running, published, errors,
                   edits, crashes>>

-----------------------------------------------------------------------------
(* Users and restarts.                                                     *)

\* unschedule_task forgets the lock of the task, held or not.
Unschedule(t) ==
    /\ lock' = [lock EXCEPT ![t] = Nobody]
    /\ detached' = detached \cup ({lock[t]} \ {Nobody})

Edit(t) ==
    /\ up /\ edits < MaxEdits
    /\ edits' = edits + 1
    /\ \/ /\ task[t] = "enabled"    \* a new schedule
          /\ Unschedule(t)
          /\ UNCHANGED task
       \/ /\ task[t] # "deleted"
          /\ \E s \in {"disabled", "deleted"} : task' = [task EXCEPT ![t] = s]
          /\ Unschedule(t)
       \/ /\ task[t] = "disabled"
          /\ task' = [task EXCEPT ![t] = "enabled"]
          /\ UNCHANGED <<lock, detached>>
    /\ UNCHANGED <<up, runVars, exeVars, errors, crashes>>

\* stop, or a crash: the rows stay as they are, the agents go on, but what they
\* answer later finds nothing to complete.
Crash ==
    /\ up /\ crashes < MaxCrashes
    /\ crashes' = crashes + 1
    /\ up' = FALSE
    /\ lock' = [t \in Task |-> Nobody]
    /\ phase' = [r \in Run |-> IF phase[r] = "none" THEN "none" ELSE "ended"]
    /\ submission' = [e \in Execution |->
                        IF submission[e] = "none" THEN "none" ELSE "over"]
    /\ running' = {} /\ pending' = {} /\ published' = {} /\ detached' = {}
    /\ UNCHANGED <<task, attempt, status, errors, edits>>

\* start: _recover_orphaned_executions, whose failure is only logged.
Start ==
    /\ ~up
    /\ up' = TRUE
    /\ \/ /\ status' = [e \in Execution |->
               IF status[e] \in {"pending", "running"} THEN "failed" ELSE status[e]]
          /\ UNCHANGED errors
       \/ Raise /\ UNCHANGED status
    /\ UNCHANGED <<task, lock, runVars, detached, running, submission, pending,
                   published, edits, crashes>>

-----------------------------------------------------------------------------
ServiceStep ==
    \/ \E r \in Run : RunStep(r)
    \/ \E e \in Execution : SubmitStep(e) \/ CleanStale(e)
    \/ Start

Next ==
    \/ ServiceStep
    \/ \E r \in Run : Trigger(r)
    \/ \E e \in Execution : Respond(e)
    \/ \E t \in Task : Edit(t)
    \/ Crash

Spec == Init /\ [][Next]_vars

\* Timers fire, the cleaner comes round and a stopped gateway is started again.
\* Nothing is assumed of the agents: responses may never come.
FairSpec == Spec /\ WF_vars(ServiceStep)

-----------------------------------------------------------------------------
(* Properties.                                                             *)

TypeOK ==
    /\ up \in BOOLEAN
    /\ task \in [Task -> {"enabled", "disabled", "deleted"}]
    /\ lock \in [Task -> Run \cup {Nobody}]
    /\ phase \in [Run -> {"none", "new", "waiting", "notifying", "sleeping",
                          "reporting", "ended"}]
    /\ attempt \in [Run -> 0 .. MaxRetries]
    /\ detached \subseteq Run
    /\ status \in [Execution -> {"none", "pending", "running", "completed",
                                 "failed", "timeout", "skipped"}]
    /\ submission \in [Execution -> {"none", "created", "opened", "waiting",
                                     "signalled", "raised", "over"}]
    /\ running \subseteq Execution /\ pending \subseteq Execution
    /\ published \subseteq Execution
    /\ errors \in 0 .. MaxErrors /\ edits \in 0 .. MaxEdits
    /\ crashes \in 0 .. MaxCrashes

InFlight(r) == phase[r] \in {"waiting", "notifying", "sleeping", "reporting"}

\* The limit holds for the submissions that are really under way, through
\* timeouts, retries, exceptions and restarts, not only for the table's size.
ConcurrencyLimit ==
    Cardinality({e \in Execution :
        submission[e] \in {"created", "opened", "waiting", "signalled"}})
      <= MaxConcurrent

\* Two runs of a task are in flight at once only if the task was edited while
\* one of them held its lock.
OverlapNeedsEdit ==
    \A r, s \in Run : InFlight(r) /\ InFlight(s) /\ r # s /\ TaskOf[r] = TaskOf[s]
       => r \in detached \/ s \in detached

\* Who waits for a response can still get it: whatever takes an execution from
\* the table of pending ones wakes the coroutine that waits for it.
WaiterIsPending ==
    \A e \in Execution : submission[e] = "waiting" => e \in pending \cap published

\* Every run ends and lets the next one of its task start, even if agents never
\* answer and statements raise.
RunsEnd ==
    \A r \in Run : []<>(phase[r] \in {"none", "ended"} /\ lock[TaskOf[r]] # r)

\* No row of a run says running for ever: what the run, the recovery or the
\* response handler leave behind, the cleaner ends.
Unended(r) == \E n \in 0 .. MaxRetries : status[<<r, n>>] = "running"
RowsEnd == \A r \in Run : []<>~Unended(r)

-----------------------------------------------------------------------------
(* What a comment of the code says and the model refutes.                  *)

\* "A per-task lock ensures only one execution is in-flight at a time"
\* (scheduler_service.py, _execute_scheduled_task).
OneInFlight ==
    \A r, s \in Run : InFlight(r) /\ InFlight(s) /\ TaskOf[r] = TaskOf[s] => r = s
=============================================================================
