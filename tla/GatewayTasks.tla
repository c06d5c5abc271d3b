---------------------------- MODULE GatewayTasks ----------------------------
(***************************************************************************)
(* The tasks of a gateway built on the generic adapter: submission, the    *)
(* events of the agents, the idle timeout and the end.                     *)
(*                                                                         *)
(* One event loop runs the message processor, which handles one event      *)
(* after the other, and a coroutine for each timeout.  An action is what   *)
(* runs between two awaits, which are the calls of the adapter and the     *)
(* resolution of embeds.  Timer events pass through the component's own    *)
(* thread.  Closing external connections does nothing here.                *)
(*                                                                         *)
(*   processor, timers      gateway/base/component.py                      *)
(*   submission, adapter    gateway/generic/component.py                   *)
(*   callbacks of timers    common/sac/sam_component_base.py               *)
(***************************************************************************)
EXTENDS Integers, Sequences

CONSTANTS
    Task,
    MaxUpdates,  \* bound: the updates of a task
    MaxRaises    \* bound: calls that raise

ASSUME BoundAssumption == MaxUpdates \in Nat /\ MaxRaises \in Nat

VARIABLES
    request,    \* each task: "new", "sent" or "refused"
    sent,       \* the updates each agent has sent
    blank,      \* those of them that give the adapter nothing to show
    ended,      \* tasks whose agent has sent its final event
    stopped,    \* tasks whose agent was sent a CancelTaskRequest
    queue,      \* internal_event_queue
    loop,       \* the event in progress: the call it awaits, or Idle
    contexts,   \* tasks with a context
    buffer,     \* what <task_id>_stream_buffer holds
    timer,      \* tasks with a running timer
    callbacks,  \* tasks with a registered callback
    fired,      \* tasks with a timer event that waits for the component
    timeout,    \* where the coroutine of each timeout is
    told,       \* the calls of the adapter for each task, by what they tell
    raced,      \* history: tasks that timed out while an event was handled
    broken,     \* history: tasks with a bad event or a call that raised
    unreported, \* history: tasks for which signalling the end raised
    raises

agentVars == <<request, sent, blank, ended>>
taskVars  == <<contexts, buffer>>
timerVars == <<timer, callbacks, fired>>
history   == <<raced, broken, unreported>>
vars == <<agentVars, stopped, queue, loop, taskVars, timerVars, timeout, told,
          history, raises>>

Final == {"task", "error"}
Call  == {"update", "flush", "complete"} \cup Final  \* of the adapter
Blank == {"empty", "invalid"}  \* no content; not a JSONRPCResponse
Kind  == {"update", "bad"} \cup Blank \cup Final
Event == [task : Task, kind : Kind, n : 0 .. MaxUpdates]
Idle  == [at |-> "idle"]

Init ==
    /\ request = [t \in Task |-> "new"]
    /\ sent = [t \in Task |-> 0] /\ blank = [t \in Task |-> {}]
    /\ ended = {} /\ stopped = {}
    /\ queue = << >> /\ loop = Idle
    /\ contexts = {} /\ buffer = [t \in Task |-> "none"]
    /\ timer = {} /\ callbacks = {} /\ fired = {}
    /\ timeout = [t \in Task |-> "none"]
    /\ told = [t \in Task |-> [what \in Call |-> << >>]]
    /\ raced = {} /\ broken = {} /\ unreported = {}
    /\ raises = 0

Raise == raises < MaxRaises /\ raises' = raises + 1

\* A call of the adapter; it begins now and returns later, or raises.
Tell(t, what, n) == told' = [told EXCEPT ![t][what] = Append(@, n)]

ForgetBuffer(t) ==  \* mutant: the context stays
    /\ buffer' = [buffer EXCEPT ![t] = "none"]
    /\ UNCHANGED contexts

Forget(t) ==
    /\ contexts' = contexts \ {t}
    /\ buffer' = [buffer EXCEPT ![t] = "none"]

-----------------------------------------------------------------------------
(* Timers.                                                                 *)

StopTimer(t) ==
    /\ timer' = timer \ {t} /\ callbacks' = callbacks \ {t}
    /\ UNCHANGED fired

\* The old callback is removed and one of the same name added.  An event of the
\* old timer that still waits calls the new one, unless it is handled in between.
StartTimer(t) ==
    /\ timer' = timer \cup {t} /\ callbacks' = callbacks \cup {t}
    /\ fired' \in {fired, fired \ {t}}

\* Calls of the adapter are assumed to be shorter than the idle period.
Fire(t) ==
    /\ t \in timer \ fired /\ timeout[t] = "none"
    /\ timer' = timer \ {t}
    /\ fired' = fired \cup {t}
    /\ UNCHANGED <<agentVars, stopped, queue, loop, taskVars, callbacks, timeout,
                   told, history, raises>>

ProcessTimer(t) ==
    /\ t \in fired
    /\ fired' = fired \ {t}
    /\ timeout' = [timeout EXCEPT ![t] = IF t \in callbacks THEN "due" ELSE @]
    /\ UNCHANGED <<agentVars, stopped, queue, loop, taskVars, timer, callbacks,
                   told, history, raises>>

-----------------------------------------------------------------------------
(* Submission, and the agents.                                             *)

\* handle_external_input: nothing is awaited between the publication and the
\* start of the timer.
Submit(t) ==
    /\ request[t] = "new"
    /\ request' = [request EXCEPT ![t] = "sent"]
    /\ contexts' = contexts \cup {t}
    /\ StartTimer(t)
    /\ UNCHANGED <<sent, blank, ended, stopped, queue, loop, buffer, timeout, told,
                   history, raises>>

\* The publication raises: the caller is told, the context is left behind.
SubmitRaises(t) ==
    /\ request[t] = "new" /\ Raise
    /\ request' = [request EXCEPT ![t] = "refused"]
    /\ contexts' = contexts \cup {t}
    /\ UNCHANGED <<sent, blank, ended, stopped, queue, loop, buffer, timerVars, timeout,
                   told, history>>

\* An agent, external: updates, some of them empty or not understood, and a final
\* event, which may be invalid too.
AgentSends(t) ==
    /\ request[t] = "sent" /\ t \notin ended
    /\ \/ /\ sent[t] < MaxUpdates
          /\ sent' = [sent EXCEPT ![t] = @ + 1]
          /\ \E k \in Kind \ Final :
                /\ queue' = Append(queue, [task |-> t, kind |-> k, n |-> sent'[t]])
                /\ blank' = [blank EXCEPT ![t] =
                               @ \cup IF k \in Blank THEN {sent'[t]} ELSE {}]
          /\ UNCHANGED ended
       \/ /\ ended' = ended \cup {t}
          /\ \E k \in Final \cup {"invalid"} :
                queue' = Append(queue, [task |-> t, kind |-> k, n |-> 0])
          /\ UNCHANGED <<sent, blank>>
    /\ UNCHANGED <<request, stopped, loop, taskVars, timerVars, timeout, told,
                   history, raises>>

-----------------------------------------------------------------------------
(* The message processor.                                                  *)

Awaits(at)  == loop.at = at
Go(at)      == loop' = [loop EXCEPT !.at = at]
TimingOut(t) == timeout[t] \in {"error", "complete"}

LastEvent == queue[Len(queue)]  \* mutant: the newest first

NextEvent == Head(queue)

\* A payload that is no JSONRPCResponse, or an item without one, is refused before
\* its task is looked up: nobody is told.  The broker may deliver it again.
RefuseInvalid ==
    /\ Awaits("idle") /\ queue # << >> /\ NextEvent.kind = "invalid"
    /\ queue' \in {Tail(queue), Append(Tail(queue), NextEvent)}
    /\ UNCHANGED <<agentVars, stopped, loop, taskVars, timerVars, timeout, told,
                   history, raises>>

\* _handle_agent_event: events of unknown tasks are ignored; one that is not
\* understood and a JSONRPCError are reported at once.  The context is looked up
\* here and kept to the end.
Take ==
    /\ Awaits("idle") /\ queue # << >> /\ NextEvent.kind # "invalid"
    /\ queue' = Tail(queue)
    /\ LET e == NextEvent IN
       \/ /\ e.task \notin contexts
          /\ UNCHANGED <<loop, told, raced, broken>>
       \/ /\ e.task \in contexts
          /\ raced' = IF TimingOut(e.task) THEN raced \cup {e.task} ELSE raced
          /\ broken' = IF e.kind = "bad" THEN broken \cup {e.task} ELSE broken
          /\ IF e.kind \in {"error", "bad"}
               THEN /\ loop' = [event |-> e, at |-> "error", failing |-> e.kind = "bad"]
                    /\ Tell(e.task, "error", 0)
               ELSE /\ loop' = [event |-> e, at |-> "resolve", failing |-> FALSE]
                    /\ UNCHANGED told
    /\ UNCHANGED <<agentVars, stopped, taskVars, timerVars, timeout, unreported,
                   raises>>

StartNoTimer(t) == StopTimer(t)  \* mutant: activity stops the timer

RestartTimer(t) == StartTimer(t)

FlushesAny(e)  == buffer[e.task] = "text"  \* mutant: so does an update

FlushesFirst(e) == e.kind = "task" /\ buffer[e.task] = "text"

\* What is left of an update's text is kept for the next one; an artifact has none.
\* What is left of the last one goes with the final response.
KeepsRest(e) ==
    \E b \in IF e.kind = "update" THEN {buffer[e.task], "", "text"}
             ELSE {IF FlushesFirst(e) THEN "none" ELSE buffer[e.task]} :
        buffer' = [buffer EXCEPT ![e.task] = b]

\* Embeds are resolved.  An update that is empty is suppressed.  What is left of the
\* text is sent before the final response, unless it resolves to nothing.
Resolved ==
    LET e == loop.event  t == e.task IN
    /\ Awaits("resolve")
    /\ \/ /\ e.kind = "empty"
          /\ RestartTimer(t) /\ loop' = Idle
          /\ UNCHANGED <<buffer, told>>
       \/ /\ e.kind # "empty" /\ UNCHANGED timerVars
          /\ \/ FlushesFirst(e) /\ Go("flush") /\ Tell(t, "flush", 0) /\ UNCHANGED buffer
             \/ KeepsRest(e) /\ Go(e.kind) /\ Tell(t, e.kind, e.n)
    /\ UNCHANGED <<agentVars, stopped, queue, contexts, timeout, history, raises>>

Flushed ==
    LET t == loop.event.task IN
    /\ Awaits("flush")
    /\ buffer' = [buffer EXCEPT ![t] = "none"]
    /\ Go("task") /\ Tell(t, "task", 0)
    /\ UNCHANGED <<agentVars, stopped, queue, contexts, timerVars, timeout,
                   history, raises>>

\* The task may have been forgotten meanwhile.
Updated ==
    /\ Awaits("update")
    /\ RestartTimer(loop.event.task)
    /\ loop' = Idle
    /\ UNCHANGED <<agentVars, stopped, queue, taskVars, timeout, told, history,
                   raises>>

\* The final response, or an error, was handed over: signal the completion.
Signalled ==
    /\ Awaits("task") \/ Awaits("error")
    /\ Go("complete") /\ Tell(loop.event.task, "complete", 0)
    /\ UNCHANGED <<agentVars, stopped, queue, taskVars, timerVars, timeout,
                   history, raises>>

\* Only the regular end stops the timer.
Completed ==
    LET t == loop.event.task IN
    /\ Awaits("complete")
    /\ Forget(t)
    /\ IF loop.failing THEN UNCHANGED timerVars ELSE StopTimer(t)
    /\ loop' = Idle
    /\ UNCHANGED <<agentVars, stopped, queue, timeout, told, history, raises>>

\* A step of the handling raises: the error is reported.  If that raises too, the
\* loop rests for a second and refuses the message.
HandlingRaises ==
    LET t == loop.event.task IN
    /\ loop.at \notin {"idle", "resting"} /\ Raise
    /\ broken' = broken \cup {t}
    /\ unreported' = IF loop.failing \/ Awaits("complete")
                       THEN unreported \cup {t} ELSE unreported
    /\ \/ /\ ~loop.failing
          /\ loop' = [loop EXCEPT !.at = "error", !.failing = TRUE]
          /\ Tell(t, "error", 0)
       \/ /\ loop.failing
          /\ Go("resting")
          /\ UNCHANGED told
    /\ UNCHANGED <<agentVars, stopped, queue, taskVars, timerVars, timeout, raced>>

\* The broker may deliver the message again.
Refuse ==
    /\ Awaits("resting")
    /\ queue' \in {queue, Append(queue, loop.event)}
    /\ loop' = Idle
    /\ UNCHANGED <<agentVars, stopped, taskVars, timerVars, timeout, told, history,
                   raises>>

ProcessorStep ==
    \/ RefuseInvalid \/ Take \/ Resolved \/ Flushed \/ Updated \/ Signalled \/ Completed
    \/ HandlingRaises \/ Refuse

-----------------------------------------------------------------------------
(* _handle_task_timeout                                                    *)

BeginTimeout(t) ==
    /\ timeout[t] = "due"
    /\ IF t \in contexts
         THEN /\ timeout' = [timeout EXCEPT ![t] = "error"]
              /\ Tell(t, "error", 0)
              /\ raced' = IF loop.at # "idle" /\ loop.event.task = t
                            THEN raced \cup {t} ELSE raced
         ELSE timeout' = [timeout EXCEPT ![t] = "none"] /\ UNCHANGED <<told, raced>>
    /\ UNCHANGED <<agentVars, stopped, queue, loop, taskVars, timerVars, broken,
                   unreported, raises>>

TimeoutReported(t) ==
    /\ timeout[t] = "error"
    /\ timeout' = [timeout EXCEPT ![t] = "complete"]
    /\ Tell(t, "complete", 0)
    /\ UNCHANGED <<agentVars, stopped, queue, loop, taskVars, timerVars, history,
                   raises>>

\* cancel_task finds the agent in the context.
StopsAgent(t) == stopped' = stopped \cup ({t} \cap contexts)

\* The agent is stopped, the task forgotten.  The report or the request to cancel
\* may have raised.
EndTimeout(t) ==
    /\ \/ /\ timeout[t] = "complete" /\ StopsAgent(t)
          /\ UNCHANGED <<broken, raises>>
       \/ /\ TimingOut(t) /\ Raise /\ broken' = broken \cup {t}
          /\ \/ StopsAgent(t)
             \/ timeout[t] = "complete" /\ UNCHANGED stopped
    /\ Forget(t)
    /\ timeout' = [timeout EXCEPT ![t] = "none"]
    /\ UNCHANGED <<agentVars, queue, loop, timerVars, told, raced, unreported>>

TimeoutStep(t) ==
    \/ Fire(t) \/ ProcessTimer(t)
    \/ BeginTimeout(t) \/ TimeoutReported(t) \/ EndTimeout(t)

-----------------------------------------------------------------------------
Next ==
    \/ ProcessorStep
    \/ \E t \in Task : TimeoutStep(t) \/ Submit(t) \/ SubmitRaises(t) \/ AgentSends(t)

Spec == Init /\ [][Next]_vars

\* The loop runs, the adapter's calls return or raise and timers fire, even if the
\* broker never stops delivering what is refused; agents may fall silent.
FairSpec ==
    /\ Spec /\ WF_vars(ProcessorStep)
    /\ \A t \in Task : WF_vars(TimeoutStep(t))

-----------------------------------------------------------------------------
(* Properties.                                                             *)

\* The calls that handling an event awaits, by its kind
Reporting == {"error", "complete", "resting"}
CallsOf(kind) ==
    Reporting \cup (IF kind = "empty" THEN {"resolve"} ELSE {})
              \cup (IF kind = "update" THEN {"resolve", "update"} ELSE {})
              \cup (IF kind = "task" THEN {"resolve", "flush", "task"} ELSE {})

Handling == [event : Event, failing : BOOLEAN,
             at : {"resolve", "resting"} \cup Call]

TypeOK ==
    /\ request \in [Task -> {"new", "sent", "refused"}]
    /\ sent \in [Task -> 0 .. MaxUpdates]
    /\ blank \in [Task -> SUBSET (1 .. MaxUpdates)]
    /\ ended \subseteq Task /\ stopped \subseteq Task
    /\ queue \in Seq(Event)
    /\ \/ loop = Idle
       \/ loop \in Handling /\ loop.at \in CallsOf(loop.event.kind)
    /\ contexts \subseteq Task
    /\ buffer \in [Task -> {"none", "", "text"}]
    /\ timer \subseteq Task /\ callbacks \subseteq Task /\ fired \subseteq Task
    /\ timeout \in [Task -> {"none", "due", "error", "complete"}]
    /\ told \in [Task -> [Call -> Seq(0 .. MaxUpdates)]]
    /\ raced \subseteq Task /\ broken \subseteq Task
    /\ unreported \subseteq Task
    /\ raises \in 0 .. MaxRaises

LastSeen(t) ==
    LET seen == told[t]["update"] IN IF seen = << >> THEN 0 ELSE seen[Len(seen)]

\* The adapter sees the updates of a task in the order of its agent and each once,
\* whatever is interleaved with them and however the task ends.  It misses those
\* that are empty and those whose payload is invalid, and of what was sent before
\* an update that it sees no other.  Only a message that was refused after its
\* handling failed may come back late.
UpdatesInOrder ==
    \A t \in Task \ unreported :
        LET seen == told[t]["update"] IN
        /\ \A i, j \in DOMAIN seen : i < j => seen[i] < seen[j]
        /\ {seen[i] : i \in DOMAIN seen} = (1 .. LastSeen(t)) \ blank[t]

\* The completion of a task is signalled once, although its final event, its
\* timeout and an error may each do it: twice only when the task timed out while
\* one of its events was handled, or when signalling its end raised.
CompletedOnce ==
    \A t \in Task \ (raced \cup unreported) : Len(told[t]["complete"]) <= 1

\* Every task that was sent to an agent is forgotten in the end; unless one of its
\* events could not be handled or a call raised, the adapter has then been told
\* and the agent has ended or was told to stop.
Over(t) ==
    /\ t \notin contexts
    /\ \/ t \in broken
       \/ told[t]["complete"] # << >> /\ t \in ended \cup stopped
TaskEnds == \A t \in Task : request[t] = "sent" ~> Over(t)

-----------------------------------------------------------------------------
(* What comments and tests of the code say and the model refutes.          *)

\* "Timeout removes task context and stream buffer" (test_task_timeout.py).
BufferRemoved ==
    \A t \in Task : t \notin contexts /\ loop = Idle => buffer[t] = "none"

\* "When task completes normally before timeout fires, timeout is a no-op."
NothingAfterFinal ==
    \A t \in Task : told[t]["task"] # << >> => Len(told[t]["complete"]) <= 1

\* "timed out after %d seconds of inactivity": no event of the task waits.
TimedOutWasIdle ==
    \A t \in Task : timeout[t] = "error" =>
        \A i \in DOMAIN queue : queue[i].task # t
=============================================================================
