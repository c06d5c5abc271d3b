# Solace Agent Mesh: verification project

TLA+ models of the coordination code of Solace Agent Mesh, model-checked with
TLC on small instances; their safety properties, as far as the code keeps them
in general, are proved with TLAPS for every instance.
Paths are relative to the repository; `sam/` stands for
`src/solace_agent_mesh/`.

1. [The system](#1-the-system): inventory of components
2. [What is modelled](#2-what-is-modelled): modules and their code
3. [Runs](#3-runs): what TLC checks, bounds, fairness
4. [Proofs](#4-proofs): what TLAPS proves and how
5. [Divergences](#5-divergences): where documents and code disagree
6. [Limits](#6-limits): abstractions, what is only checked, what is left out
7. [Plan](#7-plan): what comes next

To repeat a check, in this directory:

    tlc -config PeerDelegation_turns.cfg MCPeerDelegation.tla
    tlc -config WorkflowEngine_kinds.cfg MCWorkflowEngine.tla
    tlc -config EventStream_delivery.cfg MCEventStream.tla
    tlapm PeerDelegationProofs.tla
    tlapm WorkflowEngineProofs.tla
    tlapm WorkflowCallsProofs.tla
    tlapm WorkflowProgressProofs.tla

## 1. The system

An agent mesh is a set of processes that exchange A2A messages (JSON-RPC over
topics of an event broker). *Agents* run a language model with tools, one of
which is to call a *peer* agent. *Workflows* are agents whose behaviour is a
DAG of calls instead of a model. *Gateways* turn requests of the outside world
into A2A tasks and stream their events back. Each host is one process with a
message thread, one asyncio loop that all handlers run on, and a cache service
whose own thread fires timers. No host trusts another to answer: the broker
may repeat or delay a message, and a peer may be gone.

### Components

**Peer delegation and task lifecycle** (`sam/agent/sac/component.py`,
`task_execution_context.py`, `sam/agent/protocol/event_handlers.py`,
`sam/agent/adk/runner.py`, `sam/agent/tools/peer_agent_tool.py`).
*State*: `active_tasks` with a `TaskExecutionContext` each: cancellation event,
`is_paused`, the outstanding peer sub-tasks, and for each ADK invocation the
counters and results of its parallel calls; a cache entry (timer) per sub-task.
*Operations*: request, model turn with parallel calls, submission, status,
final response, timeout, retrigger, cancel, finalization with cleanup.
*Interactions*: messages to and from peers, expiry events from the cache
thread, the ADK session service.
*Hard*: a response races its timeout; the broker redelivers; a cancel meets a
task that resumes; calls of one turn fail synchronously while others wait;
handlers look up a context, await, and use it.
*Correct if*: each call counts once; the agent is resumed once, with every
result; no task is forgotten; every task ends; the requester gets one final
response.

**Workflow engine** (`sam/workflow/`). *State*: `WorkflowExecutionState`
(completed, pending and skipped nodes, outputs, branches of loops and maps) and
the context of the sub-tasks, each with a timer. *Operations*: schedule the
ready nodes; execute agent, switch, loop and map nodes; response, timeout;
cancel; exit handlers and finalization. *Interactions*: agents as sub-tasks,
the artifact service (awaited), the session service. *Hard*: scheduling is
re-entered by every completion and suspends at every artifact access, so two
schedulers interleave on one state; timers race responses; failures and cancels
arrive while other nodes run. *Correct if*: every node starts once, after its
dependencies; only selected branches run; loop iterations are in order; a map
keeps its limit and completes all items; success means everything is over; one
response; the workflow never waits for nothing.

**Event stream of the web gateway** (`sam/gateway/http_sse/sse_manager.py`,
`sse_event_buffer.py`, `persistent_sse_event_buffer.py`,
`repository/sse_event_buffer_repository.py`, `routers/sse.py`). *State*: a queue
per connection, the backlog of a task that nobody follows yet, events in memory
and in a table with sequence numbers. *Operations*: subscribe (with replay),
send, disconnect, flush, close, fetch, delete when the chat is saved.
*Interactions*: the message loop of the gateway and the HTTP server are two
threads with an asyncio loop each; the task log is a service of its own. *Hard*:
the backlog is put into the queue after the lock is released; a full queue is
dropped; events are taken from memory under the lock, written after it, and put
back when the write fails; sequence numbers are computed from the largest one
and retried on a collision; a connection exists before its replay is read.
*Correct if*: the first client misses nothing, each client sees each event once
and in order, a stream that ends is complete, no client holds up the gateway,
and every event that was accepted is kept exactly once.

**Scheduler of the web gateway** (`services/scheduler/scheduler_service.py`,
`result_handler.py`, `routers/scheduled_tasks.py`). *State*: jobs, a lock per
task, the running executions and those that wait for a response, rows of
executions. *Operations*: fire, run now, submit, respond, time out, retry, clean
stale rows, edit, recover. *Interactions*: the job runner (a library), agents,
the database. *Hard*: "run now" tests a lock that another coroutine takes later;
an edit drops a lock that is held; a timeout cancels the waiting submission, but
its response may still come and overwrite the status; the gateway may stop in
between. *Correct if*: the limit of concurrent executions holds, runs of a task
do not overlap, every run and every row ends.

**Gateway base and generic gateway** (`sam/gateway/base/component.py`,
`generic/component.py`). *State*: a context and a stream buffer per task, an
idle timer with a callback, the queue of incoming events. *Operations*: submit,
handle an event, time out, cancel. *Interactions*: the adapter of the platform
(awaited), agents, the timer thread, the component's own thread. *Hard*: the
timeout is a coroutine beside the one that handles events; a timer event finds
its callback by name; a step that raises is reported by calls that may raise
too. *Correct if*: the adapter sees the updates in order and one completion, and
every task is forgotten in the end, its agent stopped.

**Transactional outbox** (`sam/shared/outbox/`). Rows written with the business
transaction; a poller de-duplicates, processes and commits one event at a time.
*Hard*: a crash between effect and commit, a new event of an entity while an
older one is processed. *Correct if*: each event is processed at least once,
the newest of an entity last.

**Registries and health checks** (`sam/common/base_registry.py`,
`agent_registry.py`, `gateway_registry.py`; `_check_agent_health`). Cards with
a time to live. *Hard*: the check decides that an agent is silent, then removes
it: a card in between is lost. *Correct if*: an agent that announces itself in
time is listed.

**Session compaction** (`runner.py`, first half). Summarises a session that
outgrew the model's context and retries the run, under a lock per session.
*Correct if*: one compaction at a time, and no event is lost or summarised
twice.

**Structured invocation** (`sam/agent/sac/structured_invocation/`). The agent's
side of a workflow node: validates input and output against a schema, retries,
finds the artifact of the result.

**A2A proxies** (`sam/agent/proxies/`). Bridges to agents outside the mesh:
initiation, streaming, cancellation, clients cached per user.

**Host component base** (`sam/common/sac/sam_component_base.py`,
`common/app_base.py`). The loop thread of a host, its timers and message hand-over.

**Other parts**, where state is rows in a database or text: sessions, projects
and sharing of the web gateway; platform service; language-model adapters and
built-in tools; artifacts, embeds and the stream parser; configuration portal
and command line; web client; evaluation.

`PROJECT.json` lists these components with their files, and under `hazards`
the lines where the code is hard to test, each with the properties that watch it.

## 2. What is modelled

| Module | What it is |
|---|---|
| `PeerDelegation` | one task of an agent host that delegates to peers |
| `FanOutJoin` | the contract of a model turn: issue together, answer each call once, resume once, with all answers |
| `MCPeerDelegation` | its instances for TLC |
| `PeerDelegationProofs` | theorems about one task (timers, claims, what wakes it) and about its turns (results, the refinement of `FanOutJoin`, one response) |
| `WorkflowEngine` | one execution of a workflow |
| `MCWorkflowEngine` | the workflow definitions that TLC executes |
| `WorkflowEngineProofs` | theorems about executions of any definition |
| `WorkflowCallsProofs` | theorems about the calls of executions whose services do not suspend, and about maps |
| `WorkflowProgressProofs` | a theorem about their progress: a workflow that is going on is never left with nothing to wait for, but for the loop limit |
| `EventFeed` | what the web gateway promises to the clients that follow a task |
| `EventStream` | the events of one task on their way to the browsers |
| `EventStore` | the database copy of these events |
| `Scheduler` | scheduled tasks, their runs, attempts and responses |
| `GatewayTasks` | the tasks of a gateway from submission to their end |
| `MCEventStream`, `MCEventStore`, `MCScheduler`, `MCGatewayTasks` | their instances for TLC |
| `EventStreamProofs`, `EventStoreProofs`, `SchedulerProofs`, `GatewayTasksProofs` | theorems about each of them |

How they meet: a gateway (`GatewayTasks`) or the scheduler (`Scheduler`) submits
a task to an agent host (`PeerDelegation`), whose peers may be workflows
(`WorkflowEngine`), whose nodes are agents again. Across hosts there are only
messages, and each module lets the other side answer late, twice, wrongly or
never, which is more than the other modules do; so what holds in one module
holds with any of the others at the other end. The web gateway hands the events
of its tasks to `EventStream` one after the other, each after `EventStore` has
taken it.

### PeerDelegation

All coroutines of a host share one asyncio loop, so an action is what the code
does between two suspension points, and the coroutines interleave at these
points only. The cache service's thread is the exception: `ExpireTimer` may fall
between any two actions, and `ReceiveStatus` lets it fall inside the renewal of
a timer (`reset_peer_timeout` updates an entry that may be expiring).

| State | Code |
|---|---|
| `active`, `cancelled`, `paused` | membership in `active_tasks`, `cancellation_event`, `is_paused` |
| `subTasks`, `peerTaskKnown` | `active_peer_sub_tasks` and the `peer_task_id` of its entries |
| `tracked`, `total`, `completed`, `results` | `parallel_tool_calls`, per invocation |
| `lastInvocation` | `invocation_id` of the `a2a_context` that all runs of a task share |
| `armed`, `expired` | entries of the cache service; expiry events not yet handled |
| `run`, `tool`, `claim`, `fin` | program counters of the ADK runs, the peer tool calls, the coroutines that handle a claimed response, the finalizations |
| `session` | the ADK session exists |
| `peer`, `cancelsSent`, `cancelsSeen` | the environment: peers' tasks and cancel messages |

A run goes *prepare* (context stored, content and session prepared) → *llm*
(the model answers, calls peers, or raises) → *tools* (each call is submitted
or fails) → *done*. The end of the run is where the code decides: paused, run
again because every call failed at once, or finalized. A resumed run starts at
*getSession*. A claimed response goes *claimed* → *summarizing* → *recorded*;
in between it awaits, and everything else may happen. A finalization goes
*scheduled* → *awaiting* → *deleting* → *done*, the middle ones only for the
outcomes, and the RUN_BASED sessions, that await there.

Faults of the environment: a peer stays silent, answers again, or answers while
it is being cancelled; statuses arrive at any time; cancel requests arrive at
any time; the session service and the preparation of the request may raise
(`Failures`); a call may fail before (`early`) or after (`late`) its sub-task is
registered (`SubmitFailures`).

`PeerDelegation` implements `FanOutJoin` (`JoinSpec`): a turn of the contract is
an invocation, its issued calls those whose tool was called, its answers the
calls in `results`, and it is resumed when a run has it as its cause.

### WorkflowEngine

Here a coroutine suspends in the middle of nested calls
(`handle_agent_response` → `handle_node_completion` → `execute_workflow` →
`execute_node` → `call_agent` → artifact save), so a coroutine is a *stack of
frames*, innermost first, and an action is one step of the frame on top. `turn`
is the coroutine that holds the loop; it gives the loop up at an await that
really suspends. Which awaits do is the constant `Awaits`: the artifact service
hands its I/O to a thread (`save`, `load`), a loop may be configured with a
delay (`sleep`), and the session service suspends with a database and does not
in memory (`session`). Publishing a message does not suspend.

| State | Code |
|---|---|
| `definition` | the `WorkflowDefinition`; chosen initially, never changed, so that one run covers several |
| `completed`, `strays`, `outputs`, `pending`, `failed` | `completed_nodes`, those of its keys that are no nodes, `node_outputs`, `pending_nodes` (a list: how often each node occurs), `error_state` |
| `iterations`, `open`, `branches`, `answered`, `mapState` | `loop_iterations`, `active_branches` and their results, `map_state_<node>` |
| `calls`, `tracked` | the sub-tasks in order of creation, those in `sub_task_to_node` |
| `cancelled`, `active`, `responses`, `stopped` | cancellation event, membership in `active_workflows`, the final responses, sub-tasks sent a CancelTaskRequest |
| `cached`, `expired` | timers of the sub-tasks, expiry events not yet handled |
| `routines`, `turn` | the stacks of the coroutines and who runs |

The frames: *schedule* and *batch* are `execute_workflow` (its loop, and the
list of nodes it runs through); *execute* is `execute_node`; *publish* the part
of `call_agent` after the save; *loop*, *iterate*, *looped* the loop node;
*launch*, *mapcheck*, *aggregate* the map node; *complete* and *load*
`handle_node_completion` before and after the load of the output; *finalize*,
*respond*, *cleanup* the finalization.

A loop or map that is executed while its branch is open (two coroutines found it
ready) replaces the branch, and the iterations or items of the first execution
are in none. When one of them succeeds the code takes it for a node: its id
enters `completed_nodes`, where the test for the end counts it
(`StrayCompleted`; *strayed* is the frame that loads its output); and a branch
that one execution closed is missing to the other, which raises (`BranchGone`). An exception (that one, and any with `MayRaise`) unwinds the
stack to whoever catches it: the exit-handler loop, the response handler (which
fails the workflow), the request handler (which answers with an error), or
nobody.

What a condition, a switch or a `when` clause evaluates to is nondeterministic.

### EventStream and EventFeed

The message loop emits the events of a task one by one and then closes its
connections; each connection is a coroutine of the HTTP server, in another
thread. They share the connection table and the backlog under locks, so an
action is a critical section, or one operation on a queue. A `put` waits a tenth
of a second for room: `Put` when there is room, `PutTimesOut` when there is none
(or when the put raises, because the reader that waits on the queue belongs to
another loop). A third thread, that of the component's timers, calls
`cleanup_stale_buffers`: the backlog goes as a whole when its first event is older
than ten minutes. The model has no clock, so that `ExpireBacklog` may happen
whenever there is a backlog.

| State | Code |
|---|---|
| `row`, `logged` | the task has a row in the task log; the events a reader finds there |
| `registered` | `_background_task_cache`: the first answer is kept |
| `phase`, `sent`, `targets`, `broken` | where `send_event` and `close_all_for_task` are; `queues_copy`, `queues_to_remove` |
| `backlog`, `prior`, `open` | `_pending_events`, `_tasks_with_prior_connection`, `_connections` |
| `expired` | history: the events that left the backlog for their age before a client came |
| `stage`, `waiting`, `queue` | the coroutine of a connection, the backlog it still puts into its queue, the queue |
| `got`, `replayed`, `since` | what its client has received, live and from the log; what was routed and logged when it subscribed |

`EventFeed` is the promise: no event before it is emitted and none twice, and
the events before and after the subscription each in order. It allows that a new
event overtakes the backlog, which the code does (`sse_manager.py:131` calls the
put after the lock "safe"; it loses nothing, but the order is not kept), and
that events are missing. What may not be missing is said by
`FirstClientMissesNothing`, `ReconnectSeesLogged` and `EndMeansDelivered`.

### EventStore

The same events on their way to the table that a client fetches when it comes
back. The message loop stores an event before it sends it; the server flushes
when the last connection leaves, fetches, and deletes. `hybrid` (events collect
in memory) and `rowLocks` (the database is not SQLite) are chosen initially.
A transaction is *query* (lock the task's row if the database can and there is
one, read the largest number) → *insert*, and ends in a commit, a retry after a
collision, or a failure; in hybrid mode a failure puts the batch back.

| State | Code |
|---|---|
| `row`, `cached` | the row of the task, `_task_metadata_cache` |
| `phase`, `sent`, `call`, `selected` | where the message loop and the server are; the rows a fetch has read |
| `ram`, `table` | `_ram_buffer`, `sse_event_buffer` |
| `step`, `batch`, `highest`, `attempt`, `locks` | the transaction of each thread |
| `accepted`, `discarded`, `returned`, `overlapped` | history |

### Scheduler

One event loop. Locks of the service are never held across a real wait, so an
action is what a coroutine does between two waits. A run is *new* (created, not
yet begun) → *waiting* (for its submission) → *notifying*, *reporting* or
*sleeping* before the next attempt → *ended*. A submission is *created* →
*opened* (session and status in the database) → *waiting* (registered and
published) → *signalled*, or *raised*, or *over* when it was cancelled.

| State | Code |
|---|---|
| `task`, `lock` | the row of a scheduled task, `_task_locks` |
| `phase`, `attempt` | the coroutine `_execute_scheduled_task` of a trigger |
| `status` | the rows `ScheduledTaskExecution` |
| `running`, `submission` | `running_executions` and the coroutine in it |
| `pending`, `published` | `pending_executions` with `completion_events`; requests that are out |
| `detached` | history: runs whose lock was forgotten while they ran |
| `up` | the service runs; a crash keeps `task` and `status` only |

### GatewayTasks

One event loop runs the message processor, which handles one event after the
other, and a coroutine per timeout. An action is what runs between two awaits:
calls of the adapter and the resolution of embeds. A timer passes three hands:
the timer thread (`Fire`), the component's thread, which looks for a callback of
that name (`ProcessTimer`), and the loop (`BeginTimeout`).

Not every message reaches the adapter. A payload that is no `JSONRPCResponse`, or
an item without topic or payload, is refused before its task is looked up
(`RefuseInvalid`): the context stays and nobody is told. An update without
content is suppressed, and restarts the timer all the same (`Resolved`). A valid
response whose result is not understood ends the task with an error (`Take`).

| State | Code |
|---|---|
| `queue`, `loop` | `internal_event_queue`, the event being handled and the call it awaits |
| `contexts`, `buffer` | `task_context_manager`: the context and the `_stream_buffer` |
| `timer`, `callbacks`, `fired` | the framework's timers, `_timer_callbacks`, timer events not yet handled |
| `timeout` | where `_handle_task_timeout` of a task is |
| `told` | the calls of the adapter |
| `request`, `sent`, `blank`, `ended`, `stopped` | the agent: what it was sent, what it has sent, and which of that is empty or invalid |
| `raced`, `broken`, `unreported` | history |

## 3. Runs

All properties are hard to see from one function: each takes several steps of
several coroutines to break, and for each a mutated definition, the way a
plausible bug would change it, makes TLC report exactly that property.

| Run | Instance | Checks | Distinct states |
|---|---|---|---|
| `peer_turns` | 2 turns, 2 calls each; calls failing at once; models, sessions and requests that raise | `OneFinalResponse`, `OneResultPerCall`, `ResumeHasEveryResult`, `JoinSpec` | 305,380 |
| `peer_cancel` | 1 turn, 2 calls, RUN_BASED, 1 cancel, model errors, calls failing late, fair | `SomethingWakesTask`, `TypeOK`, `ClaimedOnce`, `TimerCoversSubTask`, `TaskEnds`, no deadlock | 54,226 |
| `workflow_chain` | a → b (when) → c; anything may raise | `CalledOnce`, `CallsSeeOutputs`, `OneResponse` | 139 |
| `workflow_kinds` | a join with a failure handler; a switch next to a node; a loop of 3; a loop of 2 beside two nodes; a map of 3 with limit 2; 1 cancel | `TypeOK`, `SuccessIsComplete`, `DependenciesFirst`, `OnlyDeadBranchesSkipped`, `IterationsInOrder`, `MapRunsItems` | 1,021,995 |
| `workflow_ends` | two parallel nodes; a map of 3 with limit 2; timers racing responses; 1 cancel; fair | `SomethingInProgress`, `WorkflowEnds`, no deadlock | 89,828 |
| `stream_delivery` | 3 events, queues of 2, a first client and one that reconnects, a backlog that expires at any moment | `TypeOK`, `FirstClientMissesNothing`, `ReconnectSeesLogged`, `EndMeansDelivered`, `LoopNeverBlocked`, `FeedSpec` | 2,758,945 |
| `store_flushes` | 6 events, batches of 2, 3 attempts, 1 failing statement, 1 deletion; both modes, both kinds of database; fair | `TypeOK`, `KeptOnce`, `StoredInOrder`, `LoopReturns` | 382,427 |
| `scheduler_runs` | a scheduled and a manual run of a task, 1 retry, 1 slot, 1 error, 1 edit, 1 crash; fair | `TypeOK`, `ConcurrencyLimit`, `OverlapNeedsEdit`, `WaiterIsPending`, `RunsEnd`, `RowsEnd` | 523,197 |
| `gateway_ends` | 1 task, 3 updates that may be empty or invalid, 2 calls that raise; fair | `TypeOK`, `UpdatesInOrder`, `CompletedOnce`, `TaskEnds` | 1,515,839 |
| `peer_peer_not_stopped` | 1 call | `TimedOutPeerStops` is violated | |
| `workflow_after_failure` | a, b parallel, c after a | `NoNewNodesAfterFailure` is violated | |
| `workflow_loop_limit` | a loop of 1 iteration | `SomethingInProgress` is violated | |

### What they show

*Peers.* With calls that fail before they are registered, timeouts, repeated
answers and model errors, the counter that decides the retrigger counts distinct
calls (`OneResultPerCall`), so the agent is resumed exactly when each call of
the turn has a result (`ResumeHasEveryResult`, `JoinSpec`). The claim (popping
the sub-task) is what makes this work: a mutant that only looks the sub-task up
breaks it. With a cancel at any moment the task is never left without something
that will wake it (`SomethingWakesTask`) and ends (`TaskEnds`), even when its
peers are silent; the timer of each sub-task is what this rests on
(`TimerCoversSubTask`).

*Workflows.* `Ready` looks at `completed_nodes` and `pending_nodes` only.
On the chain of the run that suffices (`CalledOnce`, `CallsSeeOutputs`,
`OneResponse`); with parallel nodes, or a session service that suspends, these
three fail (section 5), and they hold of parallel nodes, loops and maps again
where neither a save nor a load suspends (section 4). What does hold with parallel
nodes, failures and a cancel: success is reported only when every node is over, or
when iterations that lost their branch make up in the count for the nodes that are
not (`SuccessIsComplete`; section 5); what an agent's node depends on is over when it is called,
however long ago the node was found ready (`DependenciesFirst`); no node of an
unselected branch runs and no reachable one is skipped; the
iterations of a loop do not overlap, unless a node beside the loop can start it
once more (`IterationsInOrder`); a map stays within its limit although
several completions launch items concurrently, and ends with all items
answered; and a workflow that nobody works for always has a timer to wait for.

*Events.* Whichever way the subscription of the first client falls among the
sends, no event falls between the backlog and the connections, nor between the
backlog and the timer that empties it: what the client misses had expired before
it came (`FirstClientMissesNothing`); a client that comes back sees what was logged when
it subscribed and what is emitted from then on (`ReconnectSeesLogged`), which is
less than the comment in `routers/sse.py` promises (section 5); a queue that
overflows is dropped as a whole, so that a stream that ends regularly is never
one with a hole (`EndMeansDelivered`), and a client that stops reading costs the
gateway a tenth of a second, not its loop (`LoopNeverBlocked`). In the store,
flushes of two threads, collisions of numbers, failed statements and a deletion
neither lose an accepted event nor store it twice (`KeptOnce`); the order of the
table is the order of the events unless two batches were under way at once
(`StoredInOrder`; without its hypothesis it fails, with a failed batch that
returns behind a later one).

*Scheduler.* The table of running executions is kept exactly enough for the
limit to hold of the submissions that are really under way (`ConcurrencyLimit`),
and on every path a run gives up its slot and its lock (`RunsEnd`), although
agents may never answer. Taking the lock late is harmless, since the run looks
at it again when it starts; what makes two runs of a task overlap is an edit,
and nothing else (`OverlapNeedsEdit`). Rows that a crash or a failed recovery
leaves as running are ended by the cleaner (`RowsEnd`), which wakes the
coroutine that waits for them (`WaiterIsPending`).

*Gateway.* With a timer that may fire at any moment and calls that raise, the
adapter sees the updates of a task in order and each once, and up to the last one
it sees it misses none but the empty and the invalid ones (`UpdatesInOrder`); it is
told of the completion once unless the timeout met an event that was being
handled (`CompletedOnce`), and every task that was sent is forgotten, its agent
over or told to stop (`TaskEnds`), because a timer is left running on every path
that does not end the task.

### Bounds, and why they are enough

* `Call = {a, b}`: the hazards are about one call against another, or a call
  against its own timeout. `MaxTurns = 2` lets a late result of the first turn
  meet the second; `MaxInvocations` is one more than the turns need, so that no
  run is ever refused one (the absence of deadlock in `peer_cancel` shows it).
* One cancel request; more are ignored or find the task gone.
* The calls of a turn are interchangeable (`CallSymmetry`); the runs with
  temporal fairness do not use symmetry.
* `MaxCalls` is a blocking bound. It does not bite in `workflow_ends` (deadlock
  is checked) nor in `workflow_chain`; in `workflow_kinds` a join can start a
  node twice, and so can the nodes beside a loop the loop (section 5), and
  behaviours with more than five calls are cut. Five are enough for an iteration
  of the first execution to succeed after the second one has begun, which is what
  the test for the end then counts.
* Three iterations (two in the loop beside other nodes), three items with a limit of two: a first, a middle and a
  last one, and a launch that must wait for room.
* `stream_delivery`: three events and queues of two, so that a queue and the
  backlog can overflow and an event can follow the overflow; two connections,
  since the connections do not act on each other but through the backlog and the
  mark that the first one leaves. The backlog may expire at any step.
* `store_flushes`: six events in batches of two make three batches, so that one
  can be under way in each thread while a third collects; a failure may hit any
  statement; three attempts are the code's own limit.
* `scheduler_runs`: two runs of one task also compete for the one slot; a retry
  each gives a first and a last attempt; one error, one edit and one crash may
  fall anywhere. A second task shares only the slots, which the runs contend
  for already.
* `gateway_ends`: one task, because all that others do to it is to delay the
  handling of its events, and the processor may take its time anyway; two raises
  let the report of a failure fail too; three updates let one be suppressed or
  refused between two that arrive. An invalid message may be delivered again at
  any time, and so for ever.

`CHECK_DEADLOCK FALSE` stands where the system may stop: `peer_turns` (a task
may leak, section 5), `workflow_chain` (a request that raises leaves its workflow
in `active_workflows`), `workflow_kinds` (the loop limit, `MaxCalls`), the
violation runs, and the runs of the gateway modules, where everything has been
sent, stored, run or answered in the end.

### Fairness

`PeerDelegation!Fairness`: the loop runs every ready coroutine; the model call
returns or raises (it has a timeout, and a task a limit of calls, which is what
`MaxTurns` bounds); a timer fires unless its entry is removed; a published
cancel is delivered. Weak fairness is enough, since each of these stays enabled
until it happens. Peers owe nothing: no fairness on `ReceiveFinal` or
`ReceiveStatus`. A status renews a timer; the model has a peer's renewal keep
the timer armed, so a peer that reports for ever is excluded only as far as the
timer, once armed, fires.

`WorkflowEngine!Fairness`: the loop runs every coroutine, awaits end, timers
fire. Agents owe nothing.

`EventStore!FairSpec`: each of the two threads runs the call it has begun to its
end (a statement returns or fails). `EventStream` has no fairness; that its loop
cannot be held up is an invariant there.

`Scheduler!FairSpec`: the loop runs, timers of attempts fire, the cleaner comes
round, and a gateway that stopped is started again. Agents, users and the job
runner owe nothing.

`GatewayTasks!FairSpec`: the loop runs, calls of the adapter return or raise, and
the timer of each task fires and is handled; each of these is fair by itself, since
a broker that delivers an invalid message again and again keeps the loop busy for
ever without holding up anything else. Agents owe nothing. Calls of the adapter are assumed
to take less than the idle period (`Fire`): one timer at a time is under way.

## 4. Proofs

Each component has a module of theorems, `WorkflowEngine` three. The theorems hold for all values of the constants: any number of tasks, calls,
turns, events, clients, executions, retries and failures, and any workflow
definitions. They use the assumptions of the modules only (`...Assumption`:
bounds are naturals, sets of actors are finite, failures are among those named, a
definition names its own nodes) and, where a theorem says so, one of the
hypotheses below. Nearly every property is not inductive as it stands; the
tables name the invariant that is, and what it adds.

### Hypotheses

Twelve theorems have one because the statement is false without it; the failing
cases are, but for the cycles, divergences of section 5 that TLC exhibits:

| Hypothesis | Leaves out | What happens otherwise |
|---|---|---|
| `NoLateFailure` | a call that fails after its sub-task was registered | its error and its timeout both count (`workflow_tool.py:404`) |
| `NoCancel` | cancel requests | a task cancelled between its last response and its next run is finalized twice (`event_handlers.py:537`) |
| `WakeAssumption` | a call that fails before its registration; a request or a retrigger that raises before the run | nobody resumes the agent (`runner.py:1885`); the context is left behind (`event_handlers.py:1804`, `component.py:899`) |
| `Acyclic(d)` for every definition | cycles, and nodes that depend on the inner node of a loop or map | `validate_dag` finds cycles, but only tests call it: nodes that wait for each other are never scheduled, nor missed |
| `InlineCalls` | artifact and session services that suspend when the engine saves (`Awaits` without `save` and `session`); exceptions of the engine itself; definitions with a switch, a `when` clause or exit handlers; loops without a single iteration | a node is found ready twice, between its choice and its entry in `pending_nodes` (`dag_executor.py:296`, `dag_executor.py:314`) |
| `InlineLoads` | in addition, artifact services that suspend when the engine loads | a join is called before the output of a node it depends on is there (`dag_executor.py:1144`); two completions finalize (`dag_executor.py:258`) |
| `InlineEnds` | in addition, sub-tasks that somebody other than the workflow cancels (`Replies` without `canceled`); maps over empty lists | the response of the cancelled sub-task leaves nothing to wait for (`workflow/protocol/event_handlers.py:362`); so does an empty map (`dag_executor.py:853`) |

Each of the first four is satisfied by a run: `NoLateFailure` and `NoCancel` by
`peer_turns`, `WakeAssumption` by `peer_cancel`, `Acyclic` by the definitions of
all workflow runs. The last three describe a host with the in-memory services, the
default when none is configured, whose methods never give the loop up; what may
still interleave is what an agent answers, timeouts, a cancel and the delays of
loops, and under `InlineCalls` the loads too. They are satisfied by
`Definitions <- Inlines` of `MCWorkflowEngine` (two parallel nodes before and
behind a join; a loop next to a map). TLC finds the properties of
these theorems to hold there, in 23,312 states with `Awaits = {"load", "sleep"}`,
`CacheRaces = TRUE`, `MaxCancels = 1`, `MaxCalls = 5` and all kinds of replies for
`CalledOnce`, and each invariant of the proofs was checked so before it was proved;
that of `InlineEnds` in 8,685 states of `Inlines` and in 36,378 of eight definitions
(`Diamond`, `LoopAndMap`, `Join`, `Map`, `Loop` and pairs of loops or maps) with `Awaits = {"sleep"}`,
`CacheRaces = TRUE`, `MaxCancels = 1`, `MaxCalls = 5` and the replies `success` and `error`.

### PeerDelegationProofs

| Theorem | States | Argument |
|---|---|---|
| `TypeCorrect` | `Spec => []TypeOK` | `TypeOK` is inductive |
| `TimersCover` | `Spec => []TimerCoversSubTask` | `TimerInv`: registration arms, claiming removes both, expiry moves the timer to `expired`, and a timeout that is ignored belongs to a sub-task that is gone |
| `ClaimsAreExclusive` | `Spec => []ClaimedOnce` | `ClaimInv`: a result of kind *response* needs a claim that is *recorded*, one of kind *timeout* a claim that is *timedOut*, and a sub-task with such a claim is not registered, hence never claimed again |
| `TaskIsWoken` | `WakeAssumption => (Spec => []SomethingWakesTask)` | `WakeInv`: until a finalization is scheduled, the latest invocation runs, or waits for a call that is not settled |
| `ResultsAreCounted` | `NoLateFailure => (Spec => []OneResultPerCall)` | `JoinInv` |
| `ResumesWithAll` | `NoLateFailure => (Spec => []ResumeHasEveryResult)` | `JoinInv` |
| `ImplementsJoin` | `NoLateFailure => (Spec => JoinSpec)` | `JoinInv`, then one step lemma per action |
| `OneResponse` | `NoLateFailure /\ NoCancel => (Spec => []OneFinalResponse)` | `EndInv`: at most one invocation has ended the task, and then none is busy |

`JoinInv` is `ClaimInv` with two parts. `RecordInv` says that each counter is
the number of what it counts: `completed` of the results and of the calls with
one, `total` of the calls issued; without it a state in which the counter is
ahead would resume the agent early. `TurnInv` says that one invocation is busy
at a time. This is less obvious than it looks: the last result of a turn resumes
the agent while the run that issued the turn has not ended, so two runs exist
at once, and the older one still stores the results of calls that failed
synchronously. The invariant calls a run busy only while it can still start a
turn or complete one, and says that the shared `invocation_id` is that of the
busy one.

In `WakeInv`, the counter need not equal the number of settled calls (a late
failure makes it larger); that it is at least this number, and that some call is
not settled, is what remains true, and it is enough: an unsettled call has a
timer (`TimerInv`), a response being handled or a run that is still issuing it.

### SchedulerProofs

| Theorem | States | Argument |
|---|---|---|
| `TypeCorrect` | `Spec => []TypeOK` | `TypeInv` adds that a run sleeps only if it may retry, which bounds the attempts |
| `LimitHolds` | `Spec => []ConcurrencyLimit` | `SlotInv`: the submissions under way are in the table of running executions, that table is within the limit, and each of them is awaited by its run in the attempt it belongs to |
| `WaitersAreWoken` | `Spec => []WaiterIsPending` | inductive with `TypeInv`: whoever removes an entry sets its event |
| `OnlyEditsOverlap` | `Spec => []OverlapNeedsEdit` | `LockInv`: a run in flight holds the lock of its task, or was detached by an edit |

The limit counts submissions, the code counts entries of a table. `SlotInv` is
the claim that neither an exception nor a timeout separates the two.

### GatewayTasksProofs

| Theorem | States | Argument |
|---|---|---|
| `TypeCorrect` | `Spec => []TypeOK` | `TypeOK` is inductive: it says which call each kind of event can await |
| `UpdatesSeenInOrder` | `Spec => []UpdatesInOrder` | `OrderInv`: what the adapter saw, the update in progress and those in the queue follow each other, with gaps at the empty and the invalid ones only |
| `CompletionSignalledOnce` | `Spec => []CompletedOnce` | `EndInv`: the end of a task is in one place at a time (in no hand, with the processor or with a timeout) and a task that has its context was not completed, or is being completed |

Both rest on `BaseInv` (nothing is known of a task no agent was sent; a failure
is being reported only by the calls that report one). `OrderInv` speaks of tasks
that have a context only: the events of a forgotten one may be anywhere in the
queue and are ignored. It also leaves the invalid messages in the queue out of the
order, since a refused one returns at its end; the other gaps are kept in `blank`.

### EventStreamProofs

| Theorem | States | Argument |
|---|---|---|
| `TypeCorrect` | `Spec => []TypeOK` | `TypeInv` adds what each phase of the message loop implies |
| `StreamIsFeed` | `Spec => FeedSpec` | `OrderInv`, then one step lemma per action |
| `EndIsComplete` | `Spec => []EndMeansDelivered` | `LiveInv` |
| `ReturnSeesLog` | `Spec => []ReconnectSeesLogged` | `LiveInv` and `PlaceInv` |
| `FirstClientServed` | `Spec => []FirstClientMissesNothing` | `FirstInv` and `LiveInv` |

`OrderInv` orders what a client has, what is in its queue and what waits to be
put there: within each, and between them, the backlog is in its order and the
live events in theirs (`SameSide`), although the one may overtake the other;
for the refinement this is what makes each event that is shown the next one of
its side. `LiveInv` says that a client that is still served, that no put has found
full, holds every event routed since it subscribed, and that the
sentinel comes after all of these; `SentinelInv` that the client that got it
leaves. A full queue is why the hypothesis "still served" cannot be dropped, and
why `broken` and the phase of the loop occur in it: a client that was found full is
in the table until the send is over. `FirstInv` says that the
backlog is complete but for what expired as long as it had room, and passes to the
first client as a whole. The client need not come early for the theorem to say
something: what is emitted after the last cleanup it always gets.

### EventStoreProofs

| Theorem | States | Argument |
|---|---|---|
| `TypeCorrect` | `Spec => []TypeOK` | `BaseInv`: attempts and failures are bounded by the state of the transaction |
| `NeitherLostNorDoubled` | `Spec => []KeptOnce` | `PlaceInv`: memory, the two batches and the table are disjoint, hold nothing twice, and together hold what was accepted and not deleted |
| `OrderIsKept` | `Spec => []StoredInOrder` | `OrderInv`: as long as no batch was taken during another, the table comes before the batch and the batch before memory, and the number that a transaction has read is still the largest |

`KeptOnce` counts copies; the proof first turns the count into membership in at
most one place (`PlaceCounts`), since a count cannot be followed through a step.
In normal mode the batch of the message loop holds an event that is not accepted
yet, which is why `PlaceInv` distinguishes the modes.

### WorkflowEngineProofs

| Theorem | States | Argument |
|---|---|---|
| `TypeCorrect` | `Spec => []TypeOK` | `BaseInv` |
| `DependenciesComeFirst` | `Spec => []DependenciesFirst` | `BaseInv` |
| `SuccessMeansComplete` | `(\A d \in Definitions : Acyclic(d)) => (Spec => []SuccessIsComplete)` | `BaseInv` |

All hold whichever awaits suspend and wherever an exception unwinds. A decision
of the engine (this node is ready; nothing is left) is taken in one frame and
acted on in another, after awaits during which other coroutines run. So
`BaseInv` attaches to every frame of every stack what the code below it has
established (`FrameOK`): a node that waits in a batch, is being executed, or is
iterated or launched has its dependencies behind it (`Behind`); a finalization
with success found the DAG complete, or the count of completed keys (`AllDone`:
nothing is left but inner nodes, or no more is left than there are strays). The
number of strays only grows and that of the nodes left only shrinks, so the
disjunction lasts. These facts survive the awaits because
a node that is completed, failed or skipped stays so (`Keeps`); this is proved
for every action. That the DAG is complete when no node is ready and none is
pending is where acyclicity enters: otherwise the unfinished nodes would be a
set each of which waits for another. Skipping the branches that a switch leaves
out happens in the same section as its selection, so that no frame sees half of
it.

### WorkflowCallsProofs

| Theorem | States | Argument |
|---|---|---|
| `MapsRunTheirItems` | `Spec => [](CalledOnce => MapRunsItems)` | `MapInv`, with `TypeOK` and `BaseInv` |
| `CalledOnceInline` | `InlineCalls => (Spec => []CalledOnce)` | `CallInv` |
| `IterationsInline` | `InlineCalls => (Spec => [](IterationsInOrder /\ \A n \in Node : Kind[n] = "loop" => IterationsFollow(n)))` | `CallInv`: under the hypothesis also the loops with nodes beside them |
| `MapsInline` | `InlineCalls => (Spec => []MapRunsItems)` | the first two rows |
| `OutputsInline` | `InlineLoads => (Spec => []CallsSeeOutputs)` | `LoadInv` |
| `ResponseInline` | `InlineLoads => (Spec => []OneResponse)` | `LoadInv` |

`MapInv` needs no hypothesis on the services: several coroutines handle the
results of a map's items and launch the next ones, each suspended anywhere. It
says that every item with an agent is in the active set, that this set is
within the limit, that the count that decides the aggregation is at most the
number of answered sub-tasks, and that whoever merges the results has one for every
item. A limit and a count are statements about cardinalities; as long as
no item is called twice they are statements about indices (`CountByIndex`,
`EveryIndex`), which a step can follow. A map that is *started* twice resets its
counters while its first items are with their agents, hence `CalledOnce` on the
left.

`CallInv` begins with the shape of the stacks. With services that do not suspend
when they save, the engine schedules in one go: only the coroutine that runs can
be inside a batch (`StacksInv`), so the list of nodes that the batch found ready
stays true. `NodeOK` says that a node to which anything was done is completed,
pending or taken up by the batch under way (the code enters it in `pending_nodes`
only afterwards), and one that the batch has still to take up is none of these;
that at most one coroutine works for a loop, whose earlier calls are answered; and that
the calls of a node have distinct indices below its counter. `LaunchesGiven` and
`ExecutesFresh` say the same of the nodes that frames on the stacks are about. The restrictions on
the definitions are there because a switch, a `when` clause and an exit handler
schedule from inside a batch: the caller then goes on with a list that is no
longer true. Section 5 has a counterexample for the switch, and one of the same kind
for the response of a `when` clause.

`BranchInv` says that whoever launches, checks or publishes an item of a map finds its
branch open, and, with `InlineLoads`, whoever closes a branch as well: `BranchGone`
never happens there, and the invariant is what shows it.

`LoadInv` adds that what is suspended waits for the delay of a loop
(`Suspended`), that a node that is done has its output unless the coroutine that runs is
about to load it (`OutputsInv`), and that nothing but iterations about to
start survives the end of the workflow (`OverInv`), so that nothing can
finalize a second time. That a finalization cannot meet another is the property that a reader of
`finalize_workflow_success` takes for granted, and here it rests on the service.

### WorkflowProgressProofs

| Theorem | States | Argument |
|---|---|---|
| `ProgressInline` | `InlineEnds => (Spec => [](LoopAtLimit \/ SomethingInProgress))` | `WaitInv`, with `BaseInv`, `MapInv`, `CallInv`, `LoadInv`, `BranchInv` and `Branched` |

This is a deadlock freedom that no state predicate about one handler gives: that
nothing is left to run *and* nothing to wait for has to be excluded through all
the nodes that are pending at once. `WaitInv` says that the workflow is over or
being finalized, or else `Going`: it is active and not cancelled; each of its
sub-tasks is done with, in the hands of the coroutine that runs, or still has its
entry in the cache (`Reaches`); and `NodeGoes` holds of every node: it is listed in
`pending_nodes` at most once, and not before it is taken up; a loop whose branch is
open is not completed; and whatever was started and is not completed is in hand or
with an agent (`Driven`). For maps that needs a tally: the next index is the count
of results plus the active items, and these are exactly the indices of the
unanswered sub-tasks, so that the last answer is the one that sees the map complete
(`Tally`, `MapTold`). An iteration or item that had lost its branch would end in
`StrayCompleted` and leave its loop or map open for ever; `Branched` says that each
one with an agent is in its branch, or about to be entered there. `Alive` is the conclusion: when no coroutine runs, one is
suspended and will go on, or a sub-task is cached, or a loop is at its limit. That last
alternative (`LoopAtLimit`) is in the conclusion because the code has
it: a loop that its limit ends never leaves `pending_nodes` (`dag_executor.py:657`).
Without such a loop the property holds as it stands.

## 5. Divergences

What a document, comment or docstring says and the code does not do. Each is a
property in the modules; three of them are runs of this project (a run for each
of the others would ask nothing new of the modules). TLC finds the
others violated within seconds with the property and the constants of the last
column: `Definitions` of `WorkflowEngine` as named there (`MCWorkflowEngine`
holds them), `Failures` and `SubmitFailures` of `PeerDelegation` empty unless
named, no deadlock check, and the other constants as in the violation run of
the same module.

| Code | What happens | What is said | Property and instance |
|---|---|---|---|
| `component.py:939`, `runner.py:1450` | the CancelTaskRequest for a timed-out peer names the sub-task id without its prefix; the peer adopted the id with it (`event_handlers.py:1256`) and goes on | `component.py:929` "Proactively send a cancellation request to the peer agent." | `TimedOutPeerStops`, run `peer_peer_not_stopped` |
| `runner.py:1885` | when every peer answered before the synchronous result of a sibling is stored, that store completes the turn, its return value is ignored and nobody resumes the agent | `runner.py:1876` "This ensures they're combined with async responses when _retrigger is called" | `StoredResultsInjected`, `FairSpec`, `SubmitFailures = {"early"}`, `Call = {a, b}`, `MaxInvocations = 3` |
| `workflow_tool.py:404` | a call that fails while publishing leaves its registration: its error and its timeout both count and the agent resumes too early | `task_execution_context.py:188` "returns True if all calls for that invocation are now complete." | `ResumeHasEveryResult`, `SubmitFailures = {"late"}`, `Call = {a, b}`, `MaxInvocations = 3` |
| `event_handlers.py:537` | a cancel that meets a task between its last response and its next run finalizes it; the run it did not stop does so again | `architecture.md:136` "Agent B sends status updates and a final response" | `OneFinalResponse`, `CancelRequest = {q}` |
| `event_handlers.py:1804` | a request that raises while it is prepared leaves its context in `active_tasks` | `task_execution_context.py:16` "created when a task is initiated and destroyed when it completes" | `ContextDestroyed`, `FairSpec`, `Failures = {"prepare"}` |
| `component.py:899` | so does a retrigger that fails | as above | `ContextDestroyed`, `FairSpec`, `Failures = {"session"}` |
| `runner.py:1644` | `is_paused` is set after the run has ended; when the last result came before, a running task is marked paused | `task_execution_context.py:90` "True if task is paused" | `PausedMeansWaiting` |
| `dag_executor.py:657` | a loop that reaches `max_iterations` stays in `pending_nodes`: when nothing else is left the workflow hangs | `dag_executor.py:669` "# Continue workflow", `workflows.md:222` "Safety limit (default: 100)" | `SomethingInProgress`, run `workflow_loop_limit` |
| `dag_executor.py:853` | a map over an empty list opens a branch and launches nothing; nothing finalizes it | `dag_executor.py:818` "Treating as empty list." | `SomethingInProgress`, `EmptyMap` |
| `workflow/protocol/event_handlers.py:362` | the response of a sub-task that was cancelled, but not by this workflow, removes its cache entry, and with it the timer, and completes no node: the workflow hangs | `workflow/protocol/event_handlers.py:369` "The workflow cancellation handler will finalize the workflow" | `SomethingInProgress`, `OnlyChain`, `Awaits = {}`, `Replies = {"canceled"}`, `MaxCalls = 1` |
| `dag_executor.py:296` | the list of next nodes is computed once; a switch in it schedules by itself, and its sibling is started twice | `dag_executor.py:136` "# Skip if already pending" | `CalledOnce`, `SwitchBefore` |
| `dag_executor.py:258` | a second completion while the result is being saved finalizes again: two responses | `architecture.md:136` | `OneResponse`, `OnlyJoin` |
| `dag_executor.py:498` | a last node that its `when` clause skips calls `execute_workflow` again, which finalizes; the outer call sees nothing pending (`dag_executor.py:258`) and finalizes again, without any await that suspends between them | `architecture.md:136` | `OneResponse`, `SkippedLast`, `Replies = {"success"}`, `MaxCalls = 2` |
| `dag_executor.py:314` | with a session service that suspends too, a plain chain of agents is enough: the first round, suspended while it persists its state, goes on after `a` was answered and finds `b` ready, whose input the handler of the answer is saving | `dag_executor.py:136` "# Skip if already pending" | `CalledOnce`, `AgentChain`, `Awaits = {"save", "load", "session"}` |
| `dag_executor.py:232` | neither `error_state` nor `fail_fast` is looked at: after a failure, successors of parallel nodes are scheduled | `workflows.md:382` "when a node fails, no new nodes are scheduled." | `NoNewNodesAfterFailure`, run `workflow_after_failure` |
| `dag_executor.py:1141` | two nodes that complete while an input is being saved both start a loop (or map) beside them; the second start replaces the branch, and an iteration of the first one then completes as if it were a node: `completed_nodes` has as many keys as there are nodes while one is still running, and the workflow reports success | `dag_executor.py:235` "# Check if workflow is complete" | `Left \subseteq Inner` in place of the conclusion of `SuccessIsComplete`, `OnlyRace`, `Awaits = {"save", "load", "sleep"}`, `MaxCalls = 5` |
| `dag_executor.py:1144` | a node is completed before its output is loaded; a join may be called without it | `workflows.md:253` "Output from a completed node" | `CallsSeeOutputs`, `OnlyJoin` |
| `agent_caller.py:129` | a call suspended in the save of its input publishes its request after a cancellation | `workflow/protocol/event_handlers.py:404` "Cancel any active agent sub-tasks" | `CancelReachesSubTasks`, `OnlyChain`, `MaxCancels = 1` |
| `workflow/protocol/event_handlers.py:198` | an exception in the first round of scheduling is answered by the request handler: no exit handler runs, the workflow stays in `active_workflows` | `creating-workflows.md:896` "Run cleanup regardless of success or failure" | `ExitHandlersRun`, `OnlyHandled`, `MayRaise = TRUE` |
| `dag_executor.py:127` | an exit handler without dependencies is a node that is ready at the start | `app.py:70` "cleanup/notification on workflow completion" | `ExitHandlersRunAtExit`, `OnlyHandled` |
| `dag_executor.py:376` | the exit handlers of a cancelled workflow return at once | `app.py:89` "Node ID to execute only on cancellation." | `ExitHandlersRun`, `OnlyHandled`, `MaxCancels = 1` |
| `routers/sse.py:197` | the task log is another service and may not hold an event yet that was already sent when the client subscribed: it is in neither the replay nor the queue | `routers/sse.py:189` "This ordering ensures no events are missed." | `ReconnectMissesNothing`, `EventStream_delivery.cfg` |
| `sse_event_buffer_repository.py:293` | the events without the mark are read, then all rows of the task are marked: an event stored in between is marked and was never returned | `routers/tasks.py:1341` "Get unconsumed events and mark them as consumed" | `ConsumedWasReturned`, `EventStore_flushes.cfg` |
| `scheduler_service.py:411` | an edit drops the lock of a task while a run holds it, and the next run takes a new one | `scheduler_service.py:509` "A per-task lock ensures only one execution is in-flight at a time" | `OneInFlight`, `Scheduler_runs.cfg` |
| `generic/component.py:984`, `base/component.py:1736` | a timeout ends the task while an update of it is being resolved, which then stores its stream buffer | `test_task_timeout.py:86` "Timeout removes task context and stream buffer." | `BufferRemoved`, `GatewayTasks_ends.cfg`, `MaxRaises = 0` |
| `generic/component.py:936` | a timeout that comes while the final response is being handed over reports an error and a second completion | `test_task_timeout.py:187` "When task completes normally before timeout fires, timeout is a no-op." | `NothingAfterFinal`, as above |
| `base/component.py:2174` | the timer is restarted when an event has been handled, not when it arrives: a task times out with events in the queue | `base/component.py:2177` "timed out after %d seconds of inactivity" | `TimedOutWasIdle`, as above |

## 6. Limits

*Abstractions of PeerDelegation.* One task; the tasks of a host share no state
but the services. Not modelled: structured invocations, the pause for user
authentication, streaming and artifacts, compaction. Results, errors and
messages have no content beyond their kind.

*Abstractions of WorkflowEngine.* One execution. Nested workflows are agent
calls. A loop or map has one inner agent node, as in the documents' examples.
The state of a map is a record per node, where the code has an object per
execution of the node: the two are the same until a map is executed a second time
before it has completed, when its item 0 is called twice (so `MapRunsItems` and
`MapsRunTheirItems` are exact as far as `CalledOnce` holds; no passing run starts a
map twice). Results always carry an artifact; a response
without a structured result changes nothing (the timer follows), which is a
silent agent here. Templates, conditions and `max_items` are not evaluated.
`retry_strategy` and `fail_fast` are read by nothing in the engine and
therefore absent. Persistence of the execution state in the session is a
suspension point, not a state: nothing reads it back.

*Abstractions of EventStream.* One task. The answers of the database for the
replay succeed, and whether the task is a background one is read when the
connection is made, not a moment before. The age of the backlog is left out (it
may expire at any moment), as are its locks for other tasks and the queues for
notifications.

*Abstractions of EventStore.* One task. A statement fails as a whole; the
database is SERIALIZABLE enough for one statement, not for a transaction (a
read and an insert are two steps). Shutdown, which flushes all tasks, and the
cleanup of rows after days are left out.

*Abstractions of Scheduler.* Schedules are a job runner that may fire at any
time. The statements that record a failure succeed; any other may raise. The
status messages of agents, the collected results and the history bound do not
touch the control state.

*Abstractions of GatewayTasks.* A Task that reports a failure is handed over
like one that succeeds (the same two calls). The broker delivers a message again
when it is invalid, or when it was refused after an exception that the handler could
not report; a refusal after a reported one finds the context gone. Which of its
messages are empty, invalid or not understood is up to the agent. The internal queue is never
full.

*Only model-checked*:

* Liveness (`TaskEnds` of two modules, `WorkflowEnds`, `LoopReturns`, `RunsEnd`,
  `RowsEnd`) and `LoopNeverBlocked`, which says `ENABLED`: both are outside what
  the installed provers do.
* Of `WorkflowEngine`: `CalledOnce`, `CallsSeeOutputs`, `OneResponse`,
  `IterationsInOrder` and `MapRunsItems` are not true of every definition and
  every service (section 5): the races of a join, a switch beside a node and a
  suspended save break them. They are proved under `InlineCalls` and
  `InlineLoads`; of the definitions of their runs, whose services suspend, they are
  model-checked.
* `SomethingInProgress` is broken by the loop limit, the empty map and a sub-task that
  others cancel. It is proved under `InlineEnds` up to the loop limit; on
  `workflow_ends`, whose services suspend, it is model-checked.
* `OnlyDeadBranchesSkipped` is false where a switch is evaluated twice, and with
  `InlineCalls` there are no switches: it is model-checked only.

*Not modelled*:

* The outbox: one coroutine that processes an event per transaction. What could
  go wrong is a crash between the effect of a handler and its commit, and
  whether that matters is up to handlers that are not in the repository.
* The registries and the health check: tables with a time to live behind one
  lock. The one decision that is taken outside the lock is listed under the
  hazards; the next card of the agent repairs it.
* Session compaction and structured invocations: one coroutine each, about data
  (which events are summarised, which schema holds); to the task they are a
  longer model call, to the workflow an agent that succeeds, fails or is silent,
  and that is how the models treat them.
* Proxies: protocol translation and HTTP clients; to the mesh a proxy is an
  agent.
* Language-model adapters, artifacts, the stream parser, the platform service,
  sessions and projects, the portal, the command line and the web client keep no
  concurrent state that a model would tell more about than their tests.

## 7. Plan

The modules that the code's concurrency calls for are there, and the safety
properties that the code keeps in general are proved. What is left:

1. `WorkflowEngine`: switches and `when` clauses in the theorems of
   `WorkflowCallsProofs`. A batch can then be under way below another of the same
   coroutine, and the invariant has to say which of the outer list was taken up
   by the inner one; it fails where a switch comes before another node of its
   batch, so the hypothesis is one on the order of the nodes.
2. `PeerDelegation`: a bound on the final responses of a task that is cancelled,
   found with TLC first, as a theorem without `NoCancel`.
3. `Scheduler`: what a row can still say once its run has ended.
