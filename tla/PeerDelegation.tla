--------------------------- MODULE PeerDelegation ---------------------------
(***************************************************************************)
(* One task of an agent host that delegates work to peer agents.           *)
(*                                                                         *)
(* The agent runs its model (an ADK run), which may call several peers at  *)
(* once.  The run ends "paused", the peers answer or time out, and when    *)
(* every call of the invocation has a result the agent is run again with   *)
(* the results.  All of it happens on one asyncio loop: an action below is *)
(* what the code does between two suspension points.                       *)
(*                                                                         *)
(*   TaskExecutionContext    agent/sac/task_execution_context.py           *)
(*   claim, timeout, resume  agent/sac/component.py                        *)
(*   request, response       agent/protocol/event_handlers.py              *)
(*   ADK run and its end     agent/adk/runner.py                           *)
(*   peer tool               agent/tools/peer_agent_tool.py                *)
(***************************************************************************)
EXTENDS Integers, FiniteSets

CONSTANTS
    MaxInvocations,   \* bound: ADK invocations of the task
    MaxTurns,         \* bound: invocations that call peers
    Call,             \* function-call slots of one model turn
    CancelRequest,    \* bound: the tasks/cancel messages that may arrive
    RunBased,         \* the request is RUN_BASED: its session is temporary
    SubmitFailures,   \* how a peer call may fail synchronously
    Failures          \* the exceptions that the services may raise

Invocation == 1 .. MaxInvocations
SubTask    == Invocation \X Call
Finalizer  == Invocation \cup CancelRequest
NoCause    == 0

ASSUME BoundsAssumption ==
    /\ MaxInvocations \in Nat \ {0}
    /\ MaxTurns \in Nat
ASSUME CallAssumption == IsFiniteSet(Call)
ASSUME CancelAssumption == CancelRequest \cap Invocation = {}
ASSUME FailureAssumption ==
    /\ RunBased \in BOOLEAN
    \* early: before the sub-task is registered (no card, no context)
    \* late:  after it, while publishing (message too large, access denied)
    /\ SubmitFailures \subseteq {"early", "late"}
    /\ Failures \subseteq {"limit", "error", "session", "prepare"}

VARIABLES
    \* the TaskExecutionContext
    active,         \* it is in component.active_tasks
    cancelled,      \* cancellation_event is set
    paused,         \* is_paused
    subTasks,       \* keys of active_peer_sub_tasks
    peerTaskKnown,  \* sub-tasks whose correlation data has a peer_task_id
    tracked,        \* keys of parallel_tool_calls
    total, completed, results,  \* ... and the fields of each entry
    lastInvocation, \* invocation_id of the a2a_context shared by the runs
    \* the cache service: the timer of each sub-task
    armed, expired,
    \* coroutines of the host
    run,            \* ADK runs, one per invocation
    tool,           \* the peer tool calls of each run
    claim,          \* what became of each sub-task
    fin,            \* finalizations
    session,        \* the ADK session exists
    \* the rest of the mesh
    cancelsSeen,    \* tasks/cancel messages already delivered to this agent
    peer,           \* the peers' tasks
    cancelsSent     \* tasks/cancel messages this agent published

context == <<active, cancelled, paused, subTasks, peerTaskKnown>>
counters == <<tracked, total, completed, results, lastInvocation>>
timers == <<armed, expired>>
mesh == <<cancelsSeen, peer, cancelsSent>>
vars == <<context, counters, timers, run, tool, claim, fin, session, mesh>>

Kind == {"response", "timeout", "sync"}
RunPC == {"unused", "prepare", "getSession", "llm", "tools", "done", "rejected"}
FinPC == {"none", "scheduled", "awaiting", "deleting", "done"}
Outcome == {"success", "canceled", "limit", "error", "retriggerError"}
CancelId == {"subTaskId", "strippedId"}

TypeOK ==
    /\ active \in BOOLEAN /\ cancelled \in BOOLEAN /\ paused \in BOOLEAN
    /\ subTasks \subseteq SubTask
    /\ peerTaskKnown \subseteq SubTask
    /\ tracked \subseteq Invocation
    /\ total \in [Invocation -> Nat]
    /\ completed \in [Invocation -> Nat]
    /\ results \in [Invocation -> SUBSET (Call \X Kind)]
    /\ lastInvocation \in Invocation \cup {NoCause}
    /\ armed \subseteq SubTask /\ expired \subseteq SubTask
    /\ run \in [Invocation -> [pc : RunPC, cause : Invocation \cup {NoCause}]]
    /\ tool \in [SubTask -> {"idle", "called", "sent", "failed"}]
    /\ claim \in [SubTask -> {"none", "claimed", "summarizing", "recorded",
                              "dropped", "timedOut"}]
    /\ fin \in [Finalizer -> [pc : FinPC, outcome : Outcome]]
    /\ session \in BOOLEAN
    /\ cancelsSeen \subseteq CancelRequest
    /\ peer \in [SubTask -> {"none", "working", "canceling", "answered"}]
    /\ cancelsSent \subseteq SubTask \X CancelId

Init ==
    /\ active = FALSE /\ cancelled = FALSE /\ paused = FALSE
    /\ subTasks = {} /\ peerTaskKnown = {}
    /\ tracked = {}
    /\ total = [i \in Invocation |-> 0]
    /\ completed = [i \in Invocation |-> 0]
    /\ results = [i \in Invocation |-> {}]
    /\ lastInvocation = NoCause
    /\ armed = {} /\ expired = {}
    /\ run = [i \in Invocation |-> [pc |-> "unused", cause |-> NoCause]]
    /\ tool = [s \in SubTask |-> "idle"]
    /\ claim = [s \in SubTask |-> "none"]
    /\ fin = [f \in Finalizer |-> [pc |-> "none", outcome |-> "success"]]
    /\ session = TRUE
    /\ cancelsSeen = {}
    /\ peer = [s \in SubTask |-> "none"]
    /\ cancelsSent = {}

-----------------------------------------------------------------------------
(* Runs.                                                                   *)

\* Invocation ids are taken in order.
Fresh(j) == run[j].pc = "unused" /\ \A k \in 1 .. (j - 1) : run[k].pc # "unused"

Started(j, pc, cause) == [run EXCEPT ![j] = [pc |-> pc, cause |-> cause]]

\* The run leaves the wrapper; a retrigger then clears the state of the
\* invocation whose results it injected.
RunLeaves(i, next) ==
    /\ run' = next
    /\ tracked' = tracked \ {run[i].cause}

Schedule(f, outcome) ==
    fin' = [fin EXCEPT ![f] = [pc |-> "scheduled", outcome |-> outcome]]

\* A message/send request: the context is created, the content and the session
\* are prepared (both awaited) before the runner starts.
ReceiveRequest(i) ==
    /\ \A j \in Invocation : run[j].pc = "unused"
    /\ Fresh(i)
    /\ active' = TRUE
    /\ run' = Started(i, "prepare", NoCause)
    /\ UNCHANGED <<cancelled, paused, subTasks, peerTaskKnown, counters, timers,
                   tool, claim, fin, session, mesh>>

PrepareRequest(i) ==
    /\ run[i].pc = "prepare"
    /\ run' = [run EXCEPT ![i].pc = "llm"]
    /\ UNCHANGED <<context, counters, timers, tool, claim, fin, session, mesh>>

\* An exception while preparing: the error response goes out from the request
\* handler, which knows nothing of the context it stored.
RejectRequest(i) ==
    /\ "prepare" \in Failures
    /\ run[i].pc = "prepare"
    /\ run' = [run EXCEPT ![i].pc = "rejected"]
    /\ UNCHANGED <<context, counters, timers, tool, claim, fin, session, mesh>>

\* The model answers with peer calls: all of them are registered before any
\* tool runs.
Turns == {i \in Invocation : \E c \in Call : tool[<<i, c>>] # "idle"}

PreregisterFirst(i, n) ==  \* mutant: only one call is counted
    /\ tracked' = tracked \cup {i}
    /\ total' = [total EXCEPT ![i] = 1]

Preregister(i, n) ==
    /\ tracked' = tracked \cup {i}
    /\ total' = [total EXCEPT ![i] = n]

CallPeers(i, called) ==
    /\ run[i].pc = "llm" /\ ~cancelled
    /\ called # {} /\ Cardinality(Turns) < MaxTurns
    /\ run' = [run EXCEPT ![i].pc = "tools"]
    /\ tool' = [s \in SubTask |->
                   IF s[1] = i /\ s[2] \in called THEN "called" ELSE tool[s]]
    /\ IF active
       THEN Preregister(i, Cardinality(called))
       ELSE UNCHANGED <<tracked, total>>
    /\ lastInvocation' = i
    /\ UNCHANGED <<completed, results>>
    /\ UNCHANGED <<context, timers, claim, fin, session, mesh>>

RegisterWithoutTimer(s) ==  \* mutant: no timeout tracking
    /\ subTasks' = subTasks \cup {s}
    /\ UNCHANGED armed

RegisterSubTask(s) ==
    /\ subTasks' = subTasks \cup {s}
    /\ armed' = armed \cup {s}

\* PeerAgentTool.run_async: the sub-task and its timer are registered, then the
\* request is published.
SubmitCall(s) ==
    /\ run[s[1]].pc = "tools" /\ tool[s] = "called" /\ active
    /\ RegisterSubTask(s)
    /\ tool' = [tool EXCEPT ![s] = "sent"]
    /\ peer' = [peer EXCEPT ![s] = "working"]
    /\ UNCHANGED <<active, cancelled, paused, peerTaskKnown, counters, expired,
                   run, claim, fin, session, cancelsSeen, cancelsSent>>

\* ... or it returns an error result at once, before the registration
FailCallEarly(s) ==
    /\ run[s[1]].pc = "tools" /\ tool[s] = "called"
    /\ ~active \/ "early" \in SubmitFailures
    /\ tool' = [tool EXCEPT ![s] = "failed"]
    /\ UNCHANGED <<context, counters, timers, run, claim, fin, session, mesh>>

\* ... or after it, and then the registration stays.
FailCallLate(s) ==
    /\ run[s[1]].pc = "tools" /\ tool[s] = "called" /\ active
    /\ "late" \in SubmitFailures
    /\ RegisterSubTask(s)
    /\ tool' = [tool EXCEPT ![s] = "failed"]
    /\ UNCHANGED <<active, cancelled, paused, peerTaskKnown, counters, expired,
                   run, claim, fin, session, mesh>>

Calls(i, st) == {c \in Call : tool[<<i, c>>] = st}
ToolsReturned(i) == run[i].pc = "tools" /\ Calls(i, "called") = {} /\ ~cancelled

StoreCountingDown(i, calls, kind) ==  \* mutant: counts the open calls
    /\ results' = [results EXCEPT ![i] = @ \cup (calls \X {kind})]
    /\ completed' = [completed EXCEPT ![i] = @ - Cardinality(calls)]

\* record_parallel_result, once per call.
Store(i, calls, kind) ==
    /\ results' = [results EXCEPT ![i] = @ \cup (calls \X {kind})]
    /\ completed' = [completed EXCEPT ![i] = @ + Cardinality(calls)]

\* Some call waits for its peer: the synchronous results are recorded, whatever
\* record_parallel_result returns, and the task is marked as paused.
PauseRun(i) ==
    /\ ToolsReturned(i) /\ Calls(i, "sent") # {}
    /\ IF lastInvocation \in tracked
       THEN Store(lastInvocation, Calls(i, "failed"), "sync")
       ELSE UNCHANGED <<results, completed>>
    /\ paused' = TRUE
    /\ RunLeaves(i, [run EXCEPT ![i].pc = "done"])
    /\ UNCHANGED <<active, cancelled, subTasks, peerTaskKnown, total,
                   lastInvocation, timers, tool, claim, fin, session, mesh>>

\* Every call failed synchronously: the model is run again at once, in the same
\* wrapper, as a new invocation.
RerunAfterSyncResults(i, j) ==
    /\ ToolsReturned(i) /\ Calls(i, "sent") = {}
    /\ Fresh(j)
    /\ run' = [Started(j, "llm", run[i].cause) EXCEPT ![i].pc = "done"]
    /\ UNCHANGED <<context, counters, timers, tool, claim, fin, session, mesh>>

AnswerUser(i) ==
    /\ run[i].pc = "llm" /\ ~cancelled
    /\ Schedule(i, "success")
    /\ RunLeaves(i, [run EXCEPT ![i].pc = "done"])
    /\ lastInvocation' = i
    /\ UNCHANGED <<context, total, completed, results, timers, tool, claim,
                   session, mesh>>

\* The model call raises: the call limit of the task, or any other error.
RunRaises(i, outcome) ==
    /\ run[i].pc = "llm" /\ outcome \in Failures \cap {"limit", "error"}
    /\ Schedule(i, outcome)
    /\ RunLeaves(i, [run EXCEPT ![i].pc = "done"])
    /\ UNCHANGED <<context, total, completed, results, lastInvocation, timers,
                   tool, claim, session, mesh>>

\* The run sees the cancellation event while it waits for the next ADK event.
\* The peers are told to cancel, under the sub-task id without its prefix.
CancelRun(i) ==
    /\ run[i].pc \in {"llm", "tools"} /\ cancelled
    /\ cancelsSent' = cancelsSent \cup (subTasks \X {"strippedId"})
    /\ Schedule(i, "canceled")
    /\ RunLeaves(i, [run EXCEPT ![i].pc = "done"])
    /\ UNCHANGED <<context, total, completed, results, lastInvocation, timers,
                   tool, claim, session, cancelsSeen, peer>>

-----------------------------------------------------------------------------
(* Results of the peer calls.                                              *)

AllCallsCompleteEarly(i) == completed[i] + 2 >= total[i]  \* mutants: off by
AllCallsCompleteLate(i) == completed[i] + 1 > total[i]    \* one either way

\* What record_parallel_result returns when it adds one result.
AllCallsComplete(i) == completed[i] + 1 >= total[i]

Retrigger(i) ==
    /\ paused' = FALSE
    /\ \E j \in Invocation : Fresh(j) /\ run' = Started(j, "getSession", i)

RecordResult(s, kind) ==
    LET i == s[1] IN
    IF i \in tracked
    THEN /\ Store(i, {s[2]}, kind)
         /\ IF AllCallsComplete(i)
            THEN Retrigger(i)
            ELSE UNCHANGED <<paused, run>>
    ELSE UNCHANGED <<results, completed, paused, run>>

\* The retrigger awaits get_session and starts the wrapper, which gives up
\* when the context is gone.
ResumeRun(i) ==
    /\ run[i].pc = "getSession" /\ session
    /\ IF active
       THEN run' = [run EXCEPT ![i].pc = "llm"] /\ UNCHANGED tracked
       ELSE RunLeaves(i, [run EXCEPT ![i].pc = "done"])
    /\ UNCHANGED <<context, total, completed, results, lastInvocation, timers,
                   tool, claim, fin, session, mesh>>

\* get_session finds nothing, or raises: finalize_task_error is scheduled by
\* itself, without the cleanup.
ResumeFails(i) ==
    /\ run[i].pc = "getSession" /\ (~session \/ "session" \in Failures)
    /\ run' = [run EXCEPT ![i].pc = "done"]
    /\ Schedule(i, "retriggerError")
    /\ UNCHANGED <<context, counters, timers, tool, claim, session, mesh>>

\* An intermediate status of the peer: its task id is stored when first seen,
\* the timer restarts.
ReceiveStatus(s) ==
    /\ peer[s] = "working"
    /\ s \in armed /\ active /\ s \in subTasks
    /\ peerTaskKnown' = peerTaskKnown \cup {s}
    \* the cache's own thread may expire the entry while it is being renewed
    /\ expired' \in {expired, expired \cup {s}}
    /\ UNCHANGED <<active, cancelled, paused, subTasks, counters, armed, run,
                   tool, claim, fin, session, mesh>>

ClaimByReading(s) ==  \* mutant: the sub-task is looked up, not popped
    /\ active /\ s \in subTasks
    /\ UNCHANGED <<subTasks, armed>>

\* _claim_peer_sub_task_completion: whoever removes the sub-task owns it.
Claim(s) ==
    /\ active /\ s \in subTasks
    /\ subTasks' = subTasks \ {s}
    /\ armed' = armed \ {s}

\* The final response of a peer, possibly delivered again.  Without a cache
\* entry it is dropped: the timeout has it.  The result is handled by a
\* coroutine of its own.
ReceiveFinal(s) ==
    /\ peer[s] \in {"working", "canceling", "answered"}
    /\ peer' = [peer EXCEPT ![s] = "answered"]
    /\ \/ /\ s \in armed
          /\ Claim(s)
          /\ claim' = [claim EXCEPT ![s] = "claimed"]
       \/ /\ s \in armed /\ ~active
          /\ armed' = armed \ {s}
          /\ UNCHANGED <<subTasks, claim>>
       \/ /\ s \notin armed \/ (active /\ s \notin subTasks)
          /\ UNCHANGED <<armed, subTasks, claim>>
    /\ UNCHANGED <<active, cancelled, paused, peerTaskKnown, counters, expired,
                   run, tool, fin, session, cancelsSeen, cancelsSent>>

\* _handle_final_peer_response looks the context up, awaits the artifact
\* summary and the notification, and records the result.
LookUpContext(s) ==
    /\ claim[s] = "claimed"
    /\ claim' = [claim EXCEPT ![s] = IF active THEN "summarizing" ELSE "dropped"]
    /\ UNCHANGED <<context, counters, timers, run, tool, fin, session, mesh>>

RecordResponse(s) ==
    /\ claim[s] = "summarizing"
    /\ claim' = [claim EXCEPT ![s] = "recorded"]
    /\ RecordResult(s, "response")
    /\ UNCHANGED <<active, cancelled, subTasks, peerTaskKnown, tracked, total,
                   lastInvocation, timers, tool, fin, session, mesh>>

\* The timer of a sub-task fires; the event is handled later on the loop.
ExpireTimer(s) ==
    /\ s \in armed
    /\ armed' = armed \ {s}
    /\ expired' = expired \cup {s}
    /\ UNCHANGED <<context, counters, run, tool, claim, fin, session, mesh>>

HandleTimeout(s) ==
    /\ s \in expired
    /\ expired' = expired \ {s}
    /\ Claim(s)
    /\ claim' = [claim EXCEPT ![s] = "timedOut"]
    /\ cancelsSent' = cancelsSent \cup {<<s, "strippedId">>}
    /\ RecordResult(s, "timeout")
    /\ UNCHANGED <<active, cancelled, peerTaskKnown, tracked, total, lastInvocation,
                   tool, fin, session, cancelsSeen, peer>>

IgnoreTimeout(s) ==
    /\ s \in expired /\ ~(active /\ s \in subTasks)
    /\ expired' = expired \ {s}
    /\ armed' = armed \ (IF active THEN {} ELSE {s})
    /\ UNCHANGED <<context, counters, run, tool, claim, fin, session, mesh>>

-----------------------------------------------------------------------------
(* Cancellation and finalization.                                          *)

\* tasks/cancel: signal the run, forward the request to the peers whose task id
\* is known; a paused task without sub-tasks is finalized right here.
ReceiveCancel(q) ==
    /\ q \notin cancelsSeen
    /\ cancelsSeen' = cancelsSeen \cup {q}
    /\ \/ /\ active /\ subTasks # {}
          /\ cancelled' = TRUE
          /\ cancelsSent' = cancelsSent \cup ((subTasks \cap peerTaskKnown) \X {"subTaskId"})
          /\ UNCHANGED <<paused, fin>>
       \/ /\ active /\ subTasks = {} /\ paused
          /\ cancelled' = TRUE
          /\ paused' = FALSE
          /\ Schedule(q, "canceled")
          /\ UNCHANGED cancelsSent
       \/ /\ active /\ subTasks = {} /\ ~paused
          /\ cancelled' = TRUE
          /\ UNCHANGED <<paused, fin, cancelsSent>>
       \/ /\ ~active
          /\ UNCHANGED <<cancelled, paused, fin, cancelsSent>>
    /\ UNCHANGED <<active, subTasks, peerTaskKnown, counters, timers, run, tool,
                   claim, session, peer>>

\* The peer knows its task by the request id, which is the sub-task id.
PeerTaskId == "subTaskId"

DeliverCancel(s) ==
    /\ <<s, PeerTaskId>> \in cancelsSent /\ peer[s] = "working"
    /\ peer' = [peer EXCEPT ![s] = "canceling"]
    /\ UNCHANGED <<context, counters, timers, run, tool, claim, fin, session,
                   cancelsSeen, cancelsSent>>

\* What finalize_task_with_cleanup does after the response is out: a RUN_BASED
\* session is deleted (awaited) before the context is removed.
Published(f) ==
    /\ IF RunBased
       THEN /\ fin' = [fin EXCEPT ![f].pc = "deleting"]
            /\ UNCHANGED active
       ELSE /\ fin' = [fin EXCEPT ![f].pc = "done"]
            /\ active' = FALSE

\* Two outcomes publish at once, the others await the session service first.
StartFinalization(f) ==
    /\ fin[f].pc = "scheduled"
    /\ IF fin[f].outcome \in {"canceled", "limit"}
       THEN Published(f)
       ELSE fin' = [fin EXCEPT ![f].pc = "awaiting"] /\ UNCHANGED active
    /\ UNCHANGED <<cancelled, paused, subTasks, peerTaskKnown, counters, timers,
                   run, tool, claim, session, mesh>>

PublishFinalResponse(f) ==
    /\ fin[f].pc = "awaiting"
    /\ IF fin[f].outcome = "retriggerError"
       THEN fin' = [fin EXCEPT ![f].pc = "done"] /\ UNCHANGED active
       ELSE Published(f)
    /\ UNCHANGED <<cancelled, paused, subTasks, peerTaskKnown, counters, timers,
                   run, tool, claim, session, mesh>>

RemoveContext(f) ==
    /\ fin[f].pc = "deleting"
    /\ session' = FALSE
    /\ fin' = [fin EXCEPT ![f].pc = "done"]
    /\ active' = FALSE
    /\ UNCHANGED <<cancelled, paused, subTasks, peerTaskKnown, counters, timers,
                   run, tool, claim, mesh>>

-----------------------------------------------------------------------------
RunStep(i) ==
    \/ PrepareRequest(i)
    \/ RejectRequest(i)
    \/ \E called \in SUBSET Call : CallPeers(i, called)
    \/ PauseRun(i)
    \/ \E j \in Invocation : RerunAfterSyncResults(i, j)
    \/ AnswerUser(i)
    \/ \E outcome \in {"limit", "error"} : RunRaises(i, outcome)
    \/ CancelRun(i)
    \/ ResumeRun(i)
    \/ ResumeFails(i)

ToolStep(s) == SubmitCall(s) \/ FailCallEarly(s) \/ FailCallLate(s)
ResponseStep(s) == LookUpContext(s) \/ RecordResponse(s)
TimeoutStep(s) == HandleTimeout(s) \/ IgnoreTimeout(s)
FinalizerStep(f) == StartFinalization(f) \/ PublishFinalResponse(f) \/ RemoveContext(f)

\* Every coroutine has ended, the context is gone and no timer is left.
Quiescent ==
    /\ ~active
    /\ \A i \in Invocation : run[i].pc \in {"unused", "done", "rejected"}
    /\ \A f \in Finalizer : fin[f].pc \in {"none", "done"}
    /\ armed = {} /\ expired = {}
    /\ run[1].pc # "unused"

Terminated == Quiescent /\ UNCHANGED vars

Next ==
    \/ \E i \in Invocation : ReceiveRequest(i) \/ RunStep(i)
    \/ \E s \in SubTask : \/ ToolStep(s)
                          \/ ReceiveStatus(s) \/ ReceiveFinal(s)
                          \/ ResponseStep(s)
                          \/ ExpireTimer(s) \/ TimeoutStep(s)
                          \/ DeliverCancel(s)
    \/ \E q \in CancelRequest : ReceiveCancel(q)
    \/ \E f \in Finalizer : FinalizerStep(f)
    \/ Terminated

Spec == Init /\ [][Next]_vars

\* The loop runs every ready coroutine, the model answers or raises, a timer
\* fires unless its entry is removed, a published cancel is delivered.  The
\* peers, and whoever sends requests and cancels, owe nothing.
Fairness ==
    /\ \A i \in Invocation : WF_vars(RunStep(i))
    /\ \A s \in SubTask : /\ WF_vars(ToolStep(s))
                          /\ WF_vars(ResponseStep(s))
                          /\ WF_vars(ExpireTimer(s))
                          /\ WF_vars(TimeoutStep(s))
                          /\ WF_vars(DeliverCancel(s))
    /\ \A f \in Finalizer : WF_vars(FinalizerStep(f))

FairSpec == Spec /\ Fairness

-----------------------------------------------------------------------------
(* Properties.                                                             *)

\* A peer call contributes at most one result to its invocation, whichever of
\* response, timeout and synchronous error comes first, so the counter that
\* decides the retrigger counts distinct calls.
OneResultPerCall ==
    \A i \in tracked :
        /\ completed[i] = Cardinality(results[i])
        /\ \A r1, r2 \in results[i] : r1[1] = r2[1] => r1 = r2

\* The agent is resumed only when every call of the paused invocation has a
\* result to inject.
ResumeHasEveryResult ==
    \A j \in Invocation : run[j].pc = "getSession" =>
        \A c \in Call \ Calls(run[j].cause, "idle") :
            \E k \in Kind : <<c, k>> \in results[run[j].cause]

\* The response and the timeout of a sub-task never both count: the claim
\* decides, whatever else goes wrong with the call.
ClaimedOnce ==
    \A i \in Invocation, c \in Call :
        ~({<<c, "response">>, <<c, "timeout">>} \subseteq results[i])

\* No registered sub-task is left without a timer or a timeout on its way:
\* a silent peer cannot hold the task for ever.
TimerCoversSubTask == active => subTasks \subseteq armed \cup expired

\* A task whose context exists is never forgotten: a run, a finalization or the
\* handling of a response is under way, or a sub-task is still to be settled.
SomethingWakesTask ==
    active => \/ \E i \in Invocation : run[i].pc \notin {"unused", "done", "rejected"}
              \/ \E f \in Finalizer : fin[f].pc \in {"scheduled", "awaiting", "deleting"}
              \/ \E s \in SubTask : claim[s] \in {"claimed", "summarizing"}
              \/ subTasks # {}

\* The requester gets one final response for its task.
FinalResponses ==
    {f \in Finalizer : fin[f].pc \in {"deleting", "done"}}
        \cup {i \in Invocation : run[i].pc = "rejected"}
OneFinalResponse == Cardinality(FinalResponses) <= 1

\* is_paused tells that the task waits: no run is under way.
PausedMeansWaiting ==
    paused => \A i \in Invocation : run[i].pc \notin {"llm", "tools"}

\* Every task is finalized and its context removed, although peers may be
\* silent, answer late or twice.
TaskEnds == active ~> ~active

\* A task that completed, with whatever outcome, leaves no context behind.
ContextDestroyed == FinalResponses # {} ~> ~active

\* Synchronous results that a paused run stored are injected later.
StoredResultsInjected ==
    \A i \in Invocation :
        (\E c \in Call : <<c, "sync">> \in results[i])
            ~> (\E j \in Invocation : run[j].cause = i) \/ ~active

\* A peer whose call timed out does not go on working on it.
TimedOutPeerStops ==
    \A s \in SubTask : claim[s] = "timedOut" ~> peer[s] # "working"

-----------------------------------------------------------------------------
(* Every call has one result and the agent is resumed once, with all of    *)
(* them, as FanOutJoin promises.                                           *)

Join == INSTANCE FanOutJoin WITH
    Turn     <- Invocation,
    issued   <- [i \in Invocation |-> Call \ Calls(i, "idle")],
    answered <- [i \in Invocation |-> {r[1] : r \in results[i]}],
    resumed  <- {run[j].cause : j \in Invocation} \ {NoCause}
JoinSpec == Join!Spec
=============================================================================
