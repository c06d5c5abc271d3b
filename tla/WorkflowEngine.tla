--------------------------- MODULE WorkflowEngine ---------------------------
(***************************************************************************)
(* One execution of a workflow: a DAG of agent, switch, loop and map nodes *)
(* whose agent calls are A2A sub-tasks of the workflow's task.             *)
(*                                                                         *)
(* Every message and every timeout is handled by a coroutine of its own on *)
(* one asyncio loop.  A coroutine is a stack of frames, the innermost      *)
(* first; it keeps the loop (turn) until an await suspends it, so that an  *)
(* action is one step of the frame on top.  Awaits names the awaits that   *)
(* really suspend: the artifact service hands its I/O to a thread (save,   *)
(* load), the session service may or may not (session), and a loop may     *)
(* have a delay (sleep).                                                   *)
(*                                                                         *)
(*   DAG scheduling            workflow/dag_executor.py                    *)
(*   agent calls               workflow/agent_caller.py                    *)
(*   request, response, cancel workflow/protocol/event_handlers.py         *)
(*   timeouts, finalization    workflow/component.py                       *)
(*   execution state           workflow/workflow_execution_context.py      *)
(***************************************************************************)
EXTENDS Integers, Sequences, FiniteSets

CONSTANTS
    Definitions,      \* the workflow definitions considered
    Awaits,           \* the awaits that suspend
    Replies,          \* how agents end a sub-task
    CacheRaces,       \* a timer may expire while its response is handled
    MayRaise,         \* agent calls and artifact loads may raise
    MaxCancels,       \* bound: cancel requests
    MaxCalls          \* bound: agent calls

Outcome == {"success", "failure", "cancelled"}
Call    == 1 .. MaxCalls

NodesOf(d) == {d.order[i] : i \in DOMAIN d.order}
ASSUME DefinitionAssumption == \A d \in Definitions :
    /\ \A i, j \in DOMAIN d.order : d.order[i] = d.order[j] => i = j
    /\ IsFiniteSet(NodesOf(d))
    /\ d.kind \in [NodesOf(d) -> {"agent", "switch", "loop", "map"}]
    /\ d.dependsOn \in [NodesOf(d) -> SUBSET NodesOf(d)]
    /\ d.target \in [NodesOf(d) -> SUBSET NodesOf(d)]
    /\ \A n \in NodesOf(d) : \A t \in d.target[n] :
          CASE d.kind[n] = "switch" -> n \in d.dependsOn[t]
            [] OTHER -> d.kind[t] = "agent" /\ d.target[n] = {t}
    /\ d.conditional \subseteq {n \in NodesOf(d) : d.kind[n] = "agent"}
    /\ d.onExit \in [Outcome -> Seq(NodesOf(d))]
    /\ d.maxIterations \in Nat /\ d.items \in Nat
    /\ d.concurrencyLimit \in Nat
ASSUME BoundsAssumption == MaxCancels \in Nat /\ MaxCalls \in Nat
ASSUME EnvironmentAssumption ==
    /\ Awaits \subseteq {"save", "load", "session", "sleep"}
    /\ Replies \subseteq {"success", "error", "canceled"}
    /\ CacheRaces \in BOOLEAN /\ MayRaise \in BOOLEAN

\* A coroutine is named after what it handles.
Routine ==
    ({"response", "timeout"} \X Call) \cup ({"cancel"} \X (1 .. MaxCancels))
    \cup {<<"request", 0>>}
Idle == <<"idle", 0>>

VARIABLES
    definition,  \* the workflow that is executed; it never changes
    \* WorkflowExecutionState
    completed,   \* completed_nodes: "no", "done" or "SKIPPED"
    strays,      \* its keys that are no nodes: an iteration or item, as
                 \* the loop or map node and the index
    outputs,     \* nodes with an entry in node_outputs
    pending,     \* how often each node is in pending_nodes
    iterations,  \* loop_iterations
    open,        \* keys of active_branches
    branches,    \* the sub-tasks of each key of active_branches
    answered,    \* sub-tasks whose branch has a "result"
    mapState,    \* map_state_<node>: next index, active indices, count
    failed,      \* a node has failed (error_state)
    \* WorkflowExecutionContext
    calls,       \* the sub-tasks, in the order of their ids
    tracked,     \* those in sub_task_to_node
    cancelled,   \* cancellation_event is set
    \* WorkflowExecutorComponent
    active,      \* the workflow is in active_workflows
    cached,      \* sub-tasks in the cache service, that is, with a timer
    expired,     \* sub-tasks whose timer fired and is not yet handled
    responses,   \* the final responses published, in order
    stopped,     \* sub-tasks sent a CancelTaskRequest
    \* the asyncio loop
    routines,    \* the stack of frames of each coroutine
    turn         \* the coroutine that holds the loop, or Idle

nodeVars  == <<completed, strays, outputs, pending, failed>>
groupVars == <<iterations, open, branches, answered, mapState>>
callVars  == <<calls, tracked>>
hostVars  == <<cancelled, active, responses, stopped>>
timerVars == <<cached, expired>>
loopVars  == <<definition, routines, turn>>
vars == <<nodeVars, groupVars, callVars, hostVars, timerVars, loopVars>>

\* What the engine reads of the definition.
Order       == definition.order        \* the nodes, in the order written
Node        == NodesOf(definition)
Kind        == definition.kind         \* agent, switch, loop or map
DependsOn   == definition.dependsOn
Target      == definition.target       \* of a switch: its branches; of a
                                       \* loop or map: its inner node
Conditional == definition.conditional  \* agent nodes with a "when" clause
OnExit      == definition.onExit       \* outcome -> exit handlers, in order
Items       == definition.items        \* the number of items of a map
MaxIterations    == definition.maxIterations     \* of a loop
ConcurrencyLimit == definition.concurrencyLimit  \* of a map; 0: none

\* What a coroutine does next, and for whom.
Frame ==
    [at : {"schedule", "cleanup", "strayed"}]
    \cup [at : {"batch"}, todo : SUBSET Node, started : SUBSET Node]
    \cup [at : {"execute", "loop", "launch", "mapcheck", "aggregate", "load",
                "looped"}, node : Node]
    \cup [at : {"iterate"}, node : Node, index : 0 .. (MaxIterations - 1)]
    \cup [at : {"publish"}, call : Call]
    \cup [at : {"complete"}, call : Call, ok : BOOLEAN]
    \cup [at : {"finalize"}, outcome : Outcome, handlers : Seq(Node)]
    \cup [at : {"respond"}, outcome : Outcome]

TypeOK ==
    /\ definition \in Definitions
    /\ completed \in [Node -> {"no", "done", "SKIPPED"}]
    /\ strays \subseteq Node \X Nat /\ IsFiniteSet(strays)
    /\ outputs \subseteq Node
    /\ pending \in [Node -> Nat]
    /\ iterations \in [Node -> 0 .. MaxIterations]
    /\ open \subseteq Node
    /\ branches \in [Node -> SUBSET Call]
    /\ answered \subseteq Call
    /\ mapState \in [Node -> [next : 0 .. Items, count : Nat,
                              active : SUBSET (0 .. Items)]]
    /\ failed \in BOOLEAN /\ cancelled \in BOOLEAN /\ active \in BOOLEAN
    /\ calls \in Seq([node : Node, index : Nat, unread : SUBSET Node])
    /\ Len(calls) <= MaxCalls
    /\ tracked \subseteq DOMAIN calls
    /\ cached \subseteq tracked /\ expired \subseteq tracked
    /\ stopped \subseteq tracked
    /\ responses \in Seq(Outcome)
    /\ routines \in [Routine -> Seq(Frame)]
    /\ turn \in Routine \cup {Idle}

-----------------------------------------------------------------------------
(* Coroutines.                                                             *)

Schedule == [at |-> "schedule"]
Finalize(outcome) ==
    [at |-> "finalize", outcome |-> outcome, handlers |-> OnExit[outcome]]

\* Coroutine c may run, and the frame on top of its stack is at place.
At(c, place) ==
    /\ turn \in {c, Idle}
    /\ routines[c] # << >>
    /\ Head(routines[c]).at = place

Top(c) == Head(routines[c])

\* The top frame of c gives way to these frames, and c awaits.
Become(c, frames, await) ==
    LET stack == frames \o Tail(routines[c])
    IN  /\ routines' = [routines EXCEPT ![c] = stack]
        /\ turn' = IF await \in Awaits \/ stack = << >> THEN Idle ELSE c
        /\ UNCHANGED definition

\* A new coroutine starts on an idle loop.
Begin(c, frame) ==
    /\ turn = Idle /\ routines[c] = << >>
    /\ routines' = [routines EXCEPT ![c] = <<frame>>]
    /\ turn' = c
    /\ UNCHANGED definition

\* An exception leaves the frames of c.  The exit handlers' loop catches it;
\* else the handler of a response fails the workflow, that of a request
\* answers with an error, and the others only log.
Raise(c) ==
    LET stack == routines[c]
        catchers == {i \in 2 .. Len(stack) : stack[i].at = "finalize"}
        first == CHOOSE i \in catchers : \A j \in catchers : i <= j
        rest == IF catchers # {} THEN SubSeq(stack, first, Len(stack))
                ELSE IF c[1] = "response" THEN <<Finalize("failure")>>
                ELSE << >>
    IN  /\ routines' = [routines EXCEPT ![c] = rest]
        /\ turn' = IF rest = << >> THEN Idle ELSE c
        /\ failed' = TRUE
        /\ responses' = IF rest = << >> /\ c[1] = "request"
                        THEN Append(responses, "failure") ELSE responses
        /\ UNCHANGED definition

\* execute_workflow, execute_node, a loop iteration and a completion return
\* at once in a cancelled workflow.
StopCancelled(c) ==
    /\ cancelled
    /\ \E place \in {"schedule", "execute", "loop", "complete"} : At(c, place)
    /\ Become(c, << >>, "nothing")
    /\ UNCHANGED <<nodeVars, groupVars, callVars, hostVars, timerVars>>

Runs(c, place) == ~cancelled /\ At(c, place)

-----------------------------------------------------------------------------
(* Scheduling.                                                             *)

Inner == UNION {Target[n] : n \in {m \in Node : Kind[m] \in {"loop", "map"}}}

ReadyIfNotCompleted(n) ==  \* mutant: pending_nodes is not consulted
    /\ n \notin Inner
    /\ completed[n] = "no"
    /\ \A d \in DependsOn[n] : completed[d] # "no"

ReadyOnAny(n) ==  \* mutant: one dependency is enough
    /\ n \notin Inner
    /\ completed[n] = "no"
    /\ pending[n] = 0
    /\ DependsOn[n] = {} \/ \E d \in DependsOn[n] : completed[d] # "no"

\* get_next_nodes
Ready(n) ==
    /\ n \notin Inner
    /\ completed[n] = "no"
    /\ pending[n] = 0
    /\ \A d \in DependsOn[n] : completed[d] # "no"
NextNodes == {n \in Node : Ready(n)}
Position(n) == CHOOSE i \in DOMAIN Order : Order[i] = n

\* completed_nodes has as many keys as there are nodes, whatever the keys are.
Finished ==
    Cardinality({n \in Node : completed[n] # "no"}) + Cardinality(strays)
      = Cardinality(Node)
StuckIgnoringPending == open = {}  \* mutant: running nodes are forgotten

Stuck == (\A n \in Node : pending[n] = 0) /\ open = {}

\* One round of execute_workflow's loop.
ScheduleNodes(c) ==
    /\ Runs(c, "schedule")
    /\ Become(c,
          IF NextNodes # {} THEN
              <<[at |-> "batch", todo |-> NextNodes, started |-> {}]>>
          ELSE IF Finished \/ Stuck THEN <<Finalize("success")>>
          ELSE << >>,
          "nothing")
    /\ UNCHANGED <<nodeVars, groupVars, callVars, hostVars, timerVars>>

\* The node just executed is pending unless it completed at once; the next
\* one of the list, in the order written, is executed without looking at the
\* state again.
ExecuteNext(c) ==
    /\ At(c, "batch")
    /\ pending' = [n \in Node |->
           IF n \in Top(c).started /\ completed[n] = "no"
           THEN pending[n] + 1 ELSE pending[n]]
    /\ \/ Top(c).todo = {} /\ Become(c, <<Schedule>>, "session")
       \/ \E n \in Top(c).todo :
             /\ \A m \in Top(c).todo : Position(n) <= Position(m)
             /\ Become(c, <<[at |-> "execute", node |-> n],
                            [at |-> "batch", todo |-> Top(c).todo \ {n},
                             started |-> {n}]>>, "nothing")
    /\ UNCHANGED <<completed, strays, outputs, failed, groupVars, callVars,
                   hostVars, timerVars>>

NotPendingUnchecked(n) ==  \* mutant: the entry is taken for granted
    [pending EXCEPT ![n] = @ - 1]

NotPendingForgotten(n) == pending  \* mutant: the entry stays

\* One occurrence of n leaves pending_nodes.
NotPending(n) ==
    [pending EXCEPT ![n] = IF @ > 0 THEN @ - 1 ELSE 0]

-----------------------------------------------------------------------------
(* Agent calls.                                                            *)

\* The completed dependencies whose output the node's templates cannot see.
Unread(n) ==
    {d \in UNION {DependsOn[m] : m \in {n} \cup Target[n]} :
        completed[d] = "done" /\ d \notin outputs}

\* The input is resolved and its artifact saved; rest follows the call.
StartCall(c, n, index, rest) ==
    /\ Len(calls) < MaxCalls
    /\ calls' = Append(calls,
                   [node |-> n, index |-> index, unread |-> Unread(n)])
    /\ Become(c, <<[at |-> "publish", call |-> Len(calls) + 1]>> \o rest,
              "save")

CallAgent(c) ==
    /\ Runs(c, "execute")
    /\ Kind[Top(c).node] = "agent"
    /\ StartCall(c, Top(c).node, 0, << >>)
    /\ UNCHANGED <<nodeVars, groupVars, tracked, hostVars, timerVars>>

\* The "when" clause is false.
SkipNode(c) ==
    /\ Runs(c, "execute")
    /\ Top(c).node \in Conditional
    /\ completed' = [completed EXCEPT ![Top(c).node] = "done"]
    /\ outputs' = outputs \cup {Top(c).node}
    /\ Become(c, <<Schedule>>, "nothing")
    /\ UNCHANGED <<strays, pending, failed, groupVars, callVars, hostVars,
                   timerVars>>

\* The request is published, its timer set and its sub-task tracked.
PublishCall(c) ==
    /\ At(c, "publish")
    /\ LET k == Top(c).call
           n == calls[k].node
       IN  /\ Kind[n] = "map" => n \in open
           /\ tracked' = tracked \cup {k}
           /\ cached' = cached \cup {k}
           /\ branches' = IF Kind[n] = "map"
                          THEN [branches EXCEPT ![n] = @ \cup {k}] ELSE branches
    /\ Become(c, << >>, "nothing")
    /\ UNCHANGED <<nodeVars, iterations, open, answered, mapState, calls,
                   hostVars, expired>>

\* The agent is not registered, an input does not resolve or the artifact is
\* not saved.
CallFails(c) ==
    /\ MayRaise
    /\ At(c, "publish")
    /\ Raise(c)
    /\ UNCHANGED <<completed, strays, outputs, pending, groupVars, callVars,
                   cancelled, active, stopped, timerVars>>

-----------------------------------------------------------------------------
(* Switch nodes.                                                           *)

SkippedOnAny(roots) ==  \* mutant: one skipped dependency is enough
    LET Closed(S) ==
            /\ roots \subseteq S
            /\ \A n \in Node :
                  completed[n] = "no" /\ DependsOn[n] \cap S # {} => n \in S
    IN  {n \in Node : \A S \in SUBSET Node : Closed(S) => n \in S}

\* What _skip_branch reaches from these nodes: the least set that holds them
\* and every open node whose dependencies are all skipped.
Skipped(roots) ==
    LET Closed(S) ==
            /\ roots \subseteq S
            /\ \A n \in Node :
                  /\ completed[n] = "no"
                  /\ DependsOn[n] \cap S # {}
                  /\ \A d \in DependsOn[n] : d \in S \/ completed[d] = "SKIPPED"
                  => n \in S
    IN  {n \in Node : \A S \in SUBSET Node : Closed(S) => n \in S}

\* The first case that holds is selected, else the default, else none.
EvaluateSwitch(c) ==
    /\ Runs(c, "execute")
    /\ Kind[Top(c).node] = "switch"
    /\ \E selected \in SUBSET Target[Top(c).node] :
          /\ Cardinality(selected) <= 1
          /\ LET s == Top(c).node
                 others == {t \in Target[s] \ selected : completed[t] = "no"}
             IN  completed' = [n \in Node |->
                     IF n = s THEN "done"
                     ELSE IF n \in Skipped(others) THEN "SKIPPED"
                     ELSE completed[n]]
    /\ outputs' = outputs \cup {Top(c).node}
    /\ Become(c, <<Schedule>>, "nothing")
    /\ UNCHANGED <<strays, pending, failed, groupVars, callVars, hostVars,
                   timerVars>>

-----------------------------------------------------------------------------
(* Loop nodes.                                                             *)

EnterLoop(c) ==
    /\ Runs(c, "execute")
    /\ Kind[Top(c).node] = "loop"
    /\ Become(c, <<[at |-> "loop", node |-> Top(c).node]>>, "nothing")
    /\ UNCHANGED <<nodeVars, groupVars, callVars, hostVars, timerVars>>

LoopEnds(c) ==
    /\ completed' = [completed EXCEPT ![Top(c).node] = "done"]
    /\ outputs' = outputs \cup {Top(c).node}
    /\ Become(c, <<Schedule>>, "nothing")
    /\ UNCHANGED <<strays, failed, groupVars, callVars, hostVars, timerVars>>

\* The iteration limit is reached.
StopLoopAtLimit(c) ==
    /\ Runs(c, "loop")
    /\ iterations[Top(c).node] >= MaxIterations
    /\ LoopEnds(c)
    /\ UNCHANGED pending

\* The condition is checked after the first iteration.
StopLoopOnCondition(c) ==
    /\ Runs(c, "loop")
    /\ iterations[Top(c).node] \in 1 .. (MaxIterations - 1)
    /\ pending' = NotPending(Top(c).node)
    /\ LoopEnds(c)

ContinueLoop(c) ==
    /\ Runs(c, "loop")
    /\ LET n == Top(c).node
           i == iterations[n]
       IN  /\ i < MaxIterations
           /\ Become(c, <<[at |-> "iterate", node |-> n, index |-> i]>>,
                     IF i > 0 THEN "sleep" ELSE "nothing")
    /\ UNCHANGED <<nodeVars, groupVars, callVars, hostVars, timerVars>>

IterateUncounted(c) ==  \* mutant: the iteration is not counted
    /\ At(c, "iterate")
    /\ LET n == Top(c).node
       IN  /\ open' = open \cup {n}
           /\ branches' = [branches EXCEPT ![n] = {Len(calls) + 1}]
           /\ StartCall(c, n, Top(c).index, << >>)
    /\ UNCHANGED <<nodeVars, iterations, answered, mapState, tracked, hostVars,
                   timerVars>>

Iterate(c) ==
    /\ At(c, "iterate")
    /\ LET n == Top(c).node
       IN  /\ iterations' = [iterations EXCEPT ![n] = Top(c).index + 1]
           /\ open' = open \cup {n}
           /\ branches' = [branches EXCEPT ![n] = {Len(calls) + 1}]
           /\ StartCall(c, n, Top(c).index, << >>)
    /\ UNCHANGED <<nodeVars, answered, mapState, tracked, hostVars, timerVars>>

\* The output of the iteration is loaded: its branch is closed.
IterationLoaded(c) ==
    /\ At(c, "looped")
    /\ LET n == Top(c).node
       IN  /\ n \in open
           /\ outputs' = outputs \cup Target[n]
           /\ open' = open \ {n}
           /\ branches' = [branches EXCEPT ![n] = {}]
           /\ Become(c, <<[at |-> "loop", node |-> n]>>, "nothing")
    /\ UNCHANGED <<completed, strays, pending, failed, iterations, answered,
                   mapState, callVars, hostVars, timerVars>>

-----------------------------------------------------------------------------
(* Map nodes.                                                              *)

\* mapState is one record per node; the code has one object per execution.
\* The two differ once the node is executed again before it has completed, and
\* its item 0 is then started twice, which is where CalledOnce ends.
StartMap(c) ==
    /\ Runs(c, "execute")
    /\ Kind[Top(c).node] = "map"
    /\ LET n == Top(c).node
       IN  /\ mapState' = [mapState EXCEPT ![n] =
                  [next |-> 0, count |-> 0, active |-> {}]]
           /\ open' = open \cup {n}
           /\ branches' = [branches EXCEPT ![n] = {}]
           /\ Become(c, <<[at |-> "launch", node |-> n]>>, "nothing")
    /\ UNCHANGED <<nodeVars, iterations, answered, callVars, hostVars,
                   timerVars>>

HasRoom(m) == ConcurrencyLimit = 0 \/ Cardinality(m.active) < ConcurrencyLimit

LaunchItem(c) ==
    /\ At(c, "launch")
    /\ LET n == Top(c).node
           m == mapState[n]
       IN  /\ m.next < Items /\ HasRoom(m)
           /\ mapState' = [mapState EXCEPT ![n] =
                  [next |-> m.next + 1, count |-> m.count,
                   active |-> m.active \cup {m.next}]]
           /\ StartCall(c, n, m.next, <<Top(c)>>)
    /\ UNCHANGED <<nodeVars, iterations, open, branches, answered, tracked,
                   hostVars, timerVars>>

LaunchedAll(c) ==
    /\ At(c, "launch")
    /\ LET m == mapState[Top(c).node] IN m.next >= Items \/ ~HasRoom(m)
    /\ Become(c, << >>, "nothing")
    /\ UNCHANGED <<nodeVars, groupVars, callVars, hostVars, timerVars>>

CheckMapLaunched(c) ==  \* mutant: it is over when every item was launched
    /\ At(c, "mapcheck")
    /\ IF mapState[Top(c).node].next = Items
       THEN Become(c, <<[at |-> "aggregate", node |-> Top(c).node]>>, "load")
       ELSE Become(c, << >>, "nothing")
    /\ UNCHANGED <<nodeVars, groupVars, callVars, hostVars, timerVars>>

\* After a completion: are all items done?
CheckMap(c) ==
    /\ At(c, "mapcheck")
    /\ IF mapState[Top(c).node].count = Items
       THEN Become(c, <<[at |-> "aggregate", node |-> Top(c).node]>>, "load")
       ELSE Become(c, << >>, "nothing")
    /\ UNCHANGED <<nodeVars, groupVars, callVars, hostVars, timerVars>>

\* The results are loaded and merged: the map node completes.
FinalizeMap(c) ==
    /\ At(c, "aggregate")
    /\ LET n == Top(c).node
       IN  /\ n \in open
           /\ completed' = [completed EXCEPT ![n] = "done"]
           /\ pending' = NotPending(n)
           /\ outputs' = outputs \cup {n}
           /\ open' = open \ {n}
           /\ branches' = [branches EXCEPT ![n] = {}]
    /\ Become(c, <<Schedule>>, "nothing")
    /\ UNCHANGED <<strays, failed, iterations, answered, mapState, callVars,
                   hostVars, timerVars>>

\* The entry of active_branches that the code deletes, or appends its sub-task
\* to, is gone (the node was executed twice): a KeyError.
BranchGone(c) ==
    /\ \E place \in {"looped", "aggregate", "publish"} : At(c, place)
    /\ LET place == Top(c).at
           n == IF place = "publish" THEN calls[Top(c).call].node
                ELSE Top(c).node
           sent == IF place = "publish" THEN {Top(c).call} ELSE {}
       IN  /\ n \notin open
           /\ place = "publish" => Kind[n] = "map"
           /\ outputs' = outputs \cup
                  (CASE place = "looped"    -> Target[n]
                     [] place = "aggregate" -> {n}
                     [] place = "publish"   -> {})
           /\ completed' = IF place = "aggregate"
                           THEN [completed EXCEPT ![n] = "done"] ELSE completed
           /\ pending' = IF place = "aggregate" THEN NotPending(n) ELSE pending
           /\ tracked' = tracked \cup sent
           /\ cached' = cached \cup sent
    /\ Raise(c)
    /\ UNCHANGED <<strays, groupVars, calls, cancelled, active, stopped, expired>>

-----------------------------------------------------------------------------
(* Responses, timeouts and completions.                                    *)

\* The cache service's thread: the timer of a sub-task fires.
ExpireTimer(k) ==
    /\ k \in cached
    /\ cached' = cached \ {k}
    /\ expired' = expired \cup {k}
    /\ UNCHANGED <<nodeVars, groupVars, callVars, hostVars, loopVars>>

HandleTimeoutRearmed(k) ==  \* mutant: a silent agent gets another timeout
    /\ k \in expired
    /\ expired' = expired \ {k}
    /\ cached' = IF k \in answered \/ completed[calls[k].node] # "no"
                 THEN cached ELSE cached \cup {k}
    /\ turn = Idle
    /\ UNCHANGED <<nodeVars, groupVars, callVars, hostVars, loopVars>>

HandleTimeout(k) ==
    /\ k \in expired
    /\ expired' = expired \ {k}
    /\ IF active
       THEN Begin(<<"timeout", k>>,
                  [at |-> "complete", call |-> k, ok |-> FALSE])
       ELSE turn = Idle /\ UNCHANGED loopVars
    /\ UNCHANGED <<nodeVars, groupVars, callVars, hostVars, cached>>

\* A response is accepted while its sub-task is in the cache and the workflow
\* is active; the timer's thread may pop the entry between the two accesses.
\* A canceled sub-task completes nothing.
ReceiveResponse(k, reply) ==
    /\ k \in cached /\ active
    /\ cached' = cached \ {k}
    /\ expired' \in IF CacheRaces THEN {expired, expired \cup {k}} ELSE {expired}
    /\ IF reply = "canceled"
       THEN turn = Idle /\ UNCHANGED loopVars
       ELSE Begin(<<"response", k>>,
                  [at |-> "complete", call |-> k, ok |-> reply = "success"])
    /\ UNCHANGED <<nodeVars, groupVars, callVars, hostVars>>

\* The node failed: so does the workflow.
NodeFailed(c) ==
    /\ Runs(c, "complete")
    /\ ~Top(c).ok
    /\ failed' = TRUE
    /\ Become(c, <<Finalize("failure")>>, "nothing")
    /\ UNCHANGED <<completed, strays, outputs, pending, groupVars, callVars,
                   hostVars, timerVars>>

NodeSucceededUnloaded(c) ==  \* mutant: the output is loaded afterwards
    /\ Runs(c, "complete")
    /\ Top(c).ok
    /\ LET n == calls[Top(c).call].node
       IN  /\ Kind[n] = "agent"
           /\ completed' = [completed EXCEPT ![n] = "done"]
           /\ pending' = NotPending(n)
           /\ Become(c, <<Schedule, [at |-> "load", node |-> n]>>, "nothing")
    /\ UNCHANGED <<strays, outputs, failed, groupVars, callVars, hostVars,
                   timerVars>>

\* A node of the DAG succeeded: it is completed, then its output is loaded.
NodeSucceeded(c) ==
    /\ Runs(c, "complete")
    /\ Top(c).ok
    /\ LET n == calls[Top(c).call].node
       IN  /\ Kind[n] = "agent"
           /\ completed' = [completed EXCEPT ![n] = "done"]
           /\ pending' = NotPending(n)
           /\ Become(c, <<[at |-> "load", node |-> n]>>, "load")
    /\ UNCHANGED <<strays, outputs, failed, groupVars, callVars, hostVars,
                   timerVars>>

OutputLoaded(c) ==
    /\ At(c, "load")
    /\ outputs' = outputs \cup {Top(c).node}
    /\ Become(c, <<Schedule>>, "nothing")
    /\ UNCHANGED <<completed, strays, pending, failed, groupVars, callVars,
                   hostVars, timerVars>>

\* An iteration or item that is in no branch (its node was executed again since,
\* or closed by another iteration) completes as a node of its own would: its id
\* enters completed_nodes and counts there.
StrayCompleted(c) ==
    /\ Runs(c, "complete")
    /\ Top(c).ok
    /\ LET call == calls[Top(c).call]
       IN  /\ Kind[call.node] # "agent"
           /\ \A n \in open : Top(c).call \notin branches[n]
           /\ strays' = strays \cup {<<call.node, call.index>>}
    /\ Become(c, <<[at |-> "strayed"]>>, "load")
    /\ UNCHANGED <<completed, outputs, pending, failed, groupVars, callVars,
                   hostVars, timerVars>>

\* Its output is stored under its id, which no template names.
StrayLoaded(c) ==
    /\ At(c, "strayed")
    /\ Become(c, <<Schedule>>, "nothing")
    /\ UNCHANGED <<nodeVars, groupVars, callVars, hostVars, timerVars>>

LoadFails(c) ==
    /\ MayRaise
    /\ \E place \in {"load", "looped", "aggregate", "strayed"} : At(c, place)
    /\ Raise(c)
    /\ UNCHANGED <<completed, strays, outputs, pending, groupVars, callVars,
                   cancelled, active, stopped, timerVars>>

\* The branch of a loop or map node that sub-task k is, when it has no result.
ParentOf(k, kind) ==
    {n \in open : Kind[n] = kind /\ k \in branches[n] \ answered}

\* An iteration of a loop succeeded: its output is loaded.
IterationSucceeded(c) ==
    /\ Runs(c, "complete")
    /\ Top(c).ok
    /\ \E n \in ParentOf(Top(c).call, "loop") :
          Become(c, <<[at |-> "looped", node |-> n]>>, "load")
    /\ answered' = answered \cup {Top(c).call}
    /\ UNCHANGED <<nodeVars, iterations, open, branches, mapState, callVars,
                   hostVars, timerVars>>

\* An item of a map succeeded: the next one is launched, then all are checked.
ItemSucceeded(c) ==
    /\ Runs(c, "complete")
    /\ Top(c).ok
    /\ \E n \in ParentOf(Top(c).call, "map") :
          /\ mapState' = [mapState EXCEPT ![n] =
                 [next |-> @.next, count |-> @.count + 1,
                  active |-> @.active \ {calls[Top(c).call].index}]]
          /\ Become(c, <<[at |-> "launch", node |-> n],
                         [at |-> "mapcheck", node |-> n]>>, "nothing")
    /\ answered' = answered \cup {Top(c).call}
    /\ UNCHANGED <<nodeVars, iterations, open, branches, callVars, hostVars,
                   timerVars>>

-----------------------------------------------------------------------------
(* Finalization.                                                           *)

\* The exit handlers run first; then the artifact of the result is saved.
RunExitHandler(c) ==
    /\ At(c, "finalize")
    /\ LET o == Top(c).outcome
           handlers == Top(c).handlers
       IN  IF handlers = << >>
           THEN Become(c, <<[at |-> "respond", outcome |-> o]>>,
                       IF o = "cancelled" THEN "nothing" ELSE "save")
           ELSE Become(c, <<[at |-> "execute", node |-> Head(handlers)],
                            [at |-> "finalize", outcome |-> o,
                             handlers |-> Tail(handlers)]>>, "nothing")
    /\ UNCHANGED <<nodeVars, groupVars, callVars, hostVars, timerVars>>

\* The output mapping names a field that its node did not produce.
OutputFails(c) ==
    /\ MayRaise
    /\ At(c, "finalize")
    /\ Top(c).outcome = "success" /\ Top(c).handlers = << >>
    /\ Raise(c)
    /\ UNCHANGED <<completed, strays, outputs, pending, groupVars, callVars,
                   cancelled, active, stopped, timerVars>>

PublishResponse(c) ==
    /\ At(c, "respond")
    /\ responses' = Append(responses, Top(c).outcome)
    /\ Become(c, <<[at |-> "cleanup"]>>, "session")
    /\ UNCHANGED <<nodeVars, groupVars, callVars, cancelled, active, stopped,
                   timerVars>>

CleanUp(c) ==
    /\ At(c, "cleanup")
    /\ cached' = cached \ tracked
    /\ active' = FALSE
    /\ Become(c, << >>, "nothing")
    /\ UNCHANGED <<nodeVars, groupVars, callVars, cancelled, responses, stopped,
                   expired>>

\* A cancel request: the flag is set, every tracked sub-task is sent a
\* CancelTaskRequest and the workflow is finalized.
ReceiveCancel(q) ==
    /\ active
    /\ q \in 1 .. MaxCancels
    /\ q > 1 => cancelled
    /\ cancelled' = TRUE
    /\ stopped' = stopped \cup tracked
    /\ Begin(<<"cancel", q>>, Finalize("cancelled"))
    /\ UNCHANGED <<nodeVars, groupVars, callVars, active, responses, timerVars>>

-----------------------------------------------------------------------------
(* The specification.                                                      *)

\* handle_task_request has registered the workflow and starts its execution.
Init ==
    /\ definition \in Definitions
    /\ completed = [n \in Node |-> "no"]
    /\ strays = {}
    /\ outputs = {}
    /\ pending = [n \in Node |-> 0]
    /\ iterations = [n \in Node |-> 0]
    /\ open = {}
    /\ branches = [n \in Node |-> {}]
    /\ answered = {}
    /\ mapState = [n \in Node |-> [next |-> 0, count |-> 0, active |-> {}]]
    /\ failed = FALSE
    /\ calls = << >> /\ tracked = {}
    /\ cancelled = FALSE /\ active = TRUE
    /\ cached = {} /\ expired = {}
    /\ responses = << >> /\ stopped = {}
    /\ routines = [c \in Routine |->
                      IF c = <<"request", 0>> THEN <<Schedule>> ELSE << >>]
    /\ turn = <<"request", 0>>

Step(c) ==
    \/ StopCancelled(c) \/ ScheduleNodes(c) \/ ExecuteNext(c)
    \/ CallAgent(c) \/ SkipNode(c) \/ PublishCall(c) \/ CallFails(c)
    \/ EvaluateSwitch(c)
    \/ EnterLoop(c) \/ StopLoopAtLimit(c) \/ StopLoopOnCondition(c)
    \/ ContinueLoop(c) \/ Iterate(c) \/ IterationLoaded(c)
    \/ StartMap(c) \/ LaunchItem(c) \/ LaunchedAll(c) \/ CheckMap(c)
    \/ FinalizeMap(c) \/ BranchGone(c)
    \/ NodeFailed(c) \/ NodeSucceeded(c) \/ OutputLoaded(c)
    \/ StrayCompleted(c) \/ StrayLoaded(c) \/ LoadFails(c)
    \/ IterationSucceeded(c) \/ ItemSucceeded(c)
    \/ RunExitHandler(c) \/ OutputFails(c) \/ PublishResponse(c) \/ CleanUp(c)

Quiet == \A c \in Routine : routines[c] = << >>

\* The workflow is over and nothing is left of it.
Terminated ==
    /\ ~active /\ Quiet /\ cached = {} /\ expired = {}
    /\ UNCHANGED vars

\* The coroutines that the loop can give a step to.
Runnable == {c \in Routine : turn \in {c, Idle} /\ routines[c] # << >>}

Next ==
    \/ \E c \in Runnable : Step(c)
    \/ \E k \in Call : ExpireTimer(k) \/ HandleTimeout(k)
    \/ \E k \in Call, reply \in Replies : ReceiveResponse(k, reply)
    \/ \E q \in 1 .. MaxCancels : ReceiveCancel(q)
    \/ Terminated

Spec == Init /\ [][Next]_vars

\* The loop runs every coroutine that can run, an await ends, and the cache
\* service's thread expires every entry: agents need not answer.
Fairness ==
    /\ \A c \in Routine : WF_vars(Step(c))
    /\ \A k \in Call : WF_vars(ExpireTimer(k)) /\ WF_vars(HandleTimeout(k))
FairSpec == Spec /\ Fairness

-----------------------------------------------------------------------------
(* Properties.                                                             *)

Handlers == UNION {{OnExit[o][i] : i \in DOMAIN OnExit[o]} : o \in Outcome}

\* A node, an iteration of a loop and an item of a map is given to an agent at
\* most once: the sets that get_next_nodes consults (completed_nodes,
\* pending_nodes) know of everything that was started.
CalledOnce ==
    \A j, k \in DOMAIN calls :
        calls[j].node = calls[k].node /\ calls[j].index = calls[k].index => j = k

\* A live workflow that no coroutine works for waits for a sub-task that can
\* still answer or time out: nothing else would ever schedule it again.
SomethingInProgress == active /\ Quiet => cached \cup expired # {}

\* The nodes that an agent is given have all their dependencies behind them,
\* however long ago they were found ready: nothing that completed is undone.
\* (Exit handlers are run without their dependencies.)
DependenciesFirst ==
    \A k \in DOMAIN calls : calls[k].node \notin Handlers =>
        \A d \in DependsOn[calls[k].node] : completed[d] # "no"

\* What a switch skips is what only its other branches lead to, and no agent is
\* given it, whoever schedules meanwhile: a skipped node lies on a branch that an
\* evaluated switch left out, or everything it depends on is skipped.
OnlyDeadBranchesSkipped ==
    \A n \in Node : completed[n] = "SKIPPED" =>
        /\ n \in Handlers \/ \A k \in DOMAIN calls : calls[k].node # n
        /\ \/ \E s \in DependsOn[n] :
                 Kind[s] = "switch" /\ n \in Target[s] /\ completed[s] = "done"
           \/ \A d \in DependsOn[n] : completed[d] = "SKIPPED"

Left == {n \in Node : completed[n] = "no"}

\* A workflow that reports success has no node of its DAG left, neither
\* running nor waiting for one that runs, unless at least as many iterations and
\* items were counted as nodes of their own (which the code does to those of a
\* loop or map that was executed twice).
SuccessIsComplete ==
    (\E i \in DOMAIN responses : responses[i] = "success") =>
        Left \subseteq Inner \/ Cardinality(Left) <= Cardinality(strays)

\* The input of a call is resolved when the outputs of all the dependencies
\* are loaded ("{{node_id.output.field}}: output from a completed node").
CallsSeeOutputs == \A k \in DOMAIN calls : calls[k].unread = {}

\* The client gets one final response.
OneResponse == Len(responses) <= 1

IterationsFollow(n) ==
    \A j, k \in DOMAIN calls :
        calls[j].node = n /\ calls[k].node = n /\ j < k
        => j \in answered /\ calls[j].index < calls[k].index

\* Another node of the DAG may be running while n is.
HasCompany(n) ==
    \E m \in Node \ (Inner \cup {n}) :
        m \notin DependsOn[n] /\ n \notin DependsOn[m]

\* An iteration of a loop starts when the one before it has its result, whatever
\* delay, late response, timeout or cancellation comes in between; except that a
\* node that completes beside the loop can start it once more.
IterationsInOrder ==
    \A n \in Node : Kind[n] = "loop" /\ ~HasCompany(n) => IterationsFollow(n)

\* A map never has more items with the agents than its concurrency limit, and
\* is not over before each of its items has a result: completions launch the next
\* item while the launch of another one is suspended, and are counted to the end.
MapRunsItems ==
    \A n \in Node : Kind[n] = "map" =>
        /\ ConcurrencyLimit > 0 =>
             Cardinality({k \in DOMAIN calls \ answered : calls[k].node = n})
               <= ConcurrencyLimit
        /\ completed[n] = "done" =>
             \A i \in 0 .. (Items - 1) :
                 \E k \in answered : calls[k].node = n /\ calls[k].index = i

\* "When a node fails, no new nodes are scheduled."
NoNewNodesAfterFailure == [][failed => calls' = calls]_<<failed, calls>>

\* "Cancel any active agent sub-tasks": in a cancelled workflow a sub-task
\* that an agent still works on has been sent a CancelTaskRequest.
CancelReachesSubTasks == cancelled => cached \subseteq stopped

\* Exit handlers are for cleanup and notification on completion: an agent is
\* given one only while the workflow is being finalized.
ExitHandlersRunAtExit ==
    [][\A k \in DOMAIN calls' \ DOMAIN calls : calls'[k].node \in Handlers =>
          \E c \in Routine : \E i \in DOMAIN routines[c] :
              routines[c][i].at = "finalize"]_<<calls, routines>>

\* Whatever the outcome, its exit handlers are run before it is reported.
ExitHandlersRun ==
    \A i \in DOMAIN responses : \A h \in DOMAIN OnExit[responses[i]] :
        \E k \in DOMAIN calls : calls[k].node = OnExit[responses[i]][h]

\* Every workflow ends and leaves active_workflows, even if agents never
\* answer.
WorkflowEnds == <>(~active)
=============================================================================
