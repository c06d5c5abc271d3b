-------------------------- MODULE GatewayTasksProofs ---------------------------
(***************************************************************************)
(* Theorems about GatewayTasks, for every value of its constants.          *)
(***************************************************************************)
EXTENDS GatewayTasks, SequenceTheorems, TLAPS

Busy(t) == loop # Idle /\ loop.event.task = t

\* The steps of the event in progress
HandlingStep ==
    \/ Resolved \/ Flushed \/ Updated \/ Signalled \/ Completed
    \/ HandlingRaises \/ Refuse

-----------------------------------------------------------------------------
(* Type correctness.                                                       *)

\* A call of the adapter is recorded with its type.
LEMMA TellType ==
    ASSUME TypeOK, NEW t \in Task, NEW what \in Call, NEW n \in 0 .. MaxUpdates,
           Tell(t, what, n)
    PROVE  /\ told' \in [Task -> [Call -> Seq(0 .. MaxUpdates)]]
           /\ told'[t][what] = Append(told[t][what], n)
           /\ \A u \in Task, w \in Call :
                 u # t \/ w # what => told'[u][w] = told[u][w]
  <1>1. told \in [Task -> [Call -> Seq(0 .. MaxUpdates)]]
    BY DEF TypeOK
  <1>2. Append(told[t][what], n) \in Seq(0 .. MaxUpdates)
    BY <1>1, AppendProperties
  <1> QED
    BY <1>1, <1>2 DEF Tell

\* The event in progress moves on to another call.
LEMMA GoType ==
    ASSUME TypeOK, loop # Idle, NEW at \in CallsOf(loop.event.kind), Go(at)
    PROVE  /\ loop' \in Handling /\ loop' # Idle /\ loop'.at = at
           /\ loop'.event = loop.event /\ loop'.failing = loop.failing
  <1>1. at \in {"resolve", "resting"} \cup Call
    BY DEF CallsOf, Reporting, Call, Final
  <1>2. loop \in Handling
    BY DEF TypeOK
  <1>3. /\ loop' \in Handling /\ loop'.at = at
        /\ loop'.event = loop.event /\ loop'.failing = loop.failing
    BY <1>1, <1>2 DEF Go, Handling
  <1>4. at # "idle"
    BY DEF CallsOf, Reporting
  <1> QED
    BY <1>3, <1>4 DEF Idle

\* The three things that taking an event may come to.
Dropped(e) == e.task \notin contexts /\ UNCHANGED <<loop, told, raced, broken>>

Accepted(e) ==
    /\ e.task \in contexts
    /\ raced' = IF TimingOut(e.task) THEN raced \cup {e.task} ELSE raced
    /\ broken' \in {broken, broken \cup {e.task}}

ReportsAtOnce(e) ==
    /\ e.kind \in {"error", "bad"}
    /\ loop' = [event |-> e, at |-> "error", failing |-> e.kind = "bad"]
    /\ Tell(e.task, "error", 0)

Resolves(e) ==
    /\ e.kind \in {"update", "empty", "task"}
    /\ loop' = [event |-> e, at |-> "resolve", failing |-> FALSE]
    /\ told' = told

\* The processor takes the next event, and drops it, reports at once or resolves it.
LEMMA TakeEffect ==
    ASSUME TypeOK, Take
    PROVE  /\ loop = Idle /\ queue # << >> /\ queue' = Tail(queue)
           /\ NextEvent \in Event
           /\ \/ Dropped(NextEvent)
              \/ Accepted(NextEvent) /\ ReportsAtOnce(NextEvent)
              \/ Accepted(NextEvent) /\ Resolves(NextEvent)
  <1>1. loop = Idle
    BY DEF Take, TypeOK, Handling, CallsOf, Reporting, Awaits
  <1>2. queue # << >> /\ queue' = Tail(queue) /\ NextEvent \in Event
    BY HeadTailProperties DEF Take, NextEvent, TypeOK
  <1>3. NextEvent.kind \in {"update", "empty", "bad", "task", "error"}
    BY <1>2 DEF Take, Event, Kind, Blank, Final
  <1> QED
    BY <1>1, <1>2, <1>3 DEF Take, Dropped, Accepted, ReportsAtOnce, Resolves

\* Taking an event keeps the types.
LEMMA TakeType ==
    ASSUME TypeOK, Take
    PROVE  TypeOK'
  <1> DEFINE e == NextEvent
  <1>1. e.task \in Task
    BY TakeEffect DEF Event
  <1>2. queue' \in Seq(Event)
    <2>1. queue \in Seq(Event)
      BY DEF TypeOK
    <2> QED
      BY <2>1, TakeEffect, HeadTailProperties
  <1>3. told' \in [Task -> [Call -> Seq(0 .. MaxUpdates)]]
    <2>1. told' = told \/ Tell(e.task, "error", 0)
      BY TakeEffect DEF Dropped, ReportsAtOnce, Resolves
    <2>2. 0 \in 0 .. MaxUpdates /\ "error" \in Call
      BY BoundAssumption DEF Call, Final
    <2> QED
      BY <1>1, <2>1, <2>2, TellType DEF TypeOK
  <1>4. \/ loop' = Idle
        \/ loop' \in Handling /\ loop'.at \in CallsOf(loop'.event.kind)
    <2>1. CASE Dropped(e)
      BY <2>1, TakeEffect DEF Dropped
    <2>2. CASE ReportsAtOnce(e)
      BY <2>2, TakeEffect DEF ReportsAtOnce, Handling, CallsOf, Reporting, Call, Final
    <2>3. CASE Resolves(e)
      BY <2>3, TakeEffect DEF Resolves, Handling, CallsOf
    <2> QED
      BY <2>1, <2>2, <2>3, TakeEffect
  <1>5. raced' \subseteq Task /\ broken' \subseteq Task
    BY <1>1, TakeEffect DEF Dropped, Accepted, TypeOK
  <1>6. UNCHANGED <<request, sent, blank, ended, stopped, contexts, buffer, timer, callbacks,
                    fired, timeout, unreported, raises>>
    BY DEF Take, agentVars, taskVars, timerVars
  <1> QED
    BY <1>2, <1>3, <1>4, <1>5, <1>6 DEF TypeOK

\* An invalid message leaves the queue, or goes to its end.
LEMMA RefuseType ==
    ASSUME TypeOK, RefuseInvalid
    PROVE  /\ loop = Idle /\ NextEvent \in Event
           /\ NextEvent.kind = "invalid" /\ NextEvent = Head(queue)
           /\ queue \in Seq(Event) /\ queue # << >> /\ Tail(queue) \in Seq(Event)
           /\ queue' = Tail(queue) \/ queue' = Append(Tail(queue), NextEvent)
           /\ TypeOK'
  <1>1. loop = Idle
    BY DEF RefuseInvalid, TypeOK, Handling, CallsOf, Reporting, Awaits
  <1>2. /\ queue \in Seq(Event) /\ queue # << >> /\ NextEvent \in Event
        /\ Tail(queue) \in Seq(Event)
        /\ queue' = Tail(queue) \/ queue' = Append(Tail(queue), NextEvent)
    BY HeadTailProperties DEF RefuseInvalid, NextEvent, TypeOK
  <1>3. queue' \in Seq(Event)
    BY <1>2, AppendProperties
  <1>4. TypeOK'
    BY <1>3 DEF RefuseInvalid, TypeOK, agentVars, taskVars, timerVars, history
  <1> QED
    BY <1>1, <1>2, <1>4 DEF RefuseInvalid, NextEvent

\* Which calls an event in progress may await, by its kind.
LEMMA StagesOfKind ==
    ASSUME TypeOK, loop # Idle
    PROVE  /\ loop \in Handling /\ loop.at # "idle"
           /\ loop.event \in Event /\ loop.event.task \in Task
           /\ loop.event.kind \in Kind
           /\ loop.event.n \in 0 .. MaxUpdates
           /\ loop.at = "resolve" => loop.event.kind \in {"update", "empty", "task"}
           /\ loop.at = "update" => loop.event.kind = "update"
           /\ loop.at \in {"flush", "task"} => loop.event.kind = "task"
           /\ Reporting \subseteq CallsOf(loop.event.kind)
  BY DEF TypeOK, Handling, CallsOf, Reporting, Event, Kind, Blank, Final

\* The steps of the event in progress: each ends with a call, or with Idle.
LEMMA HandlingType ==
    ASSUME TypeOK, HandlingStep
    PROVE  TypeOK'
  <1> DEFINE t == loop.event.task
  <1>0. loop # Idle
    <2>1. loop.at # "idle"
      BY DEF HandlingStep, Resolved, Flushed, Updated, Signalled, Completed,
             HandlingRaises, Refuse, Awaits
    <2> QED
      BY <2>1 DEF Idle
  <1>1. /\ t \in Task /\ loop.event.n \in 0 .. MaxUpdates /\ 0 \in 0 .. MaxUpdates
        /\ {"update", "flush", "task", "error", "complete"} \subseteq Call
    BY <1>0, StagesOfKind, BoundAssumption DEF Call, Final
  <1>2. CASE Resolved
    <2>1. Awaits("resolve") /\ loop.event.kind \in {"update", "empty", "task"}
      BY <1>0, <1>2, StagesOfKind DEF Resolved, Awaits
    <2>2. CASE loop.event.kind = "empty"
      BY <1>1, <1>2, <2>2
         DEF Resolved, RestartTimer, StartTimer, TypeOK, agentVars, history
    <2>3. CASE loop.event.kind # "empty"
      <3>1. \E at \in CallsOf(loop.event.kind) \cap Call, n \in {0, loop.event.n} :
                Go(at) /\ Tell(t, at, n)
        BY <1>1, <1>2, <2>1, <2>3 DEF Resolved, FlushesFirst, CallsOf
      <3>2. buffer' \in [Task -> {"none", "", "text"}]
        BY <1>1, <1>2, <2>3 DEF Resolved, KeepsRest, TypeOK
      <3>3. /\ loop' \in Handling /\ loop'.at \in CallsOf(loop'.event.kind)
            /\ told' \in [Task -> [Call -> Seq(0 .. MaxUpdates)]]
        BY <1>0, <1>1, <3>1, GoType, TellType
      <3> QED
        BY <1>2, <2>3, <3>2, <3>3 DEF Resolved, TypeOK, agentVars, timerVars, history
    <2> QED
      BY <2>2, <2>3
  <1>3. CASE Flushed
    <2>1. Awaits("flush") /\ loop.event.kind = "task"
      BY <1>0, <1>3, StagesOfKind DEF Flushed, Awaits
    <2>2. "task" \in CallsOf(loop.event.kind)
      BY <2>1 DEF CallsOf
    <2>3. Go("task") /\ Tell(t, "task", 0)
      BY <1>3 DEF Flushed
    <2>4. /\ loop' \in Handling /\ loop'.at \in CallsOf(loop'.event.kind)
          /\ told' \in [Task -> [Call -> Seq(0 .. MaxUpdates)]]
      BY <1>0, <1>1, <2>2, <2>3, GoType, TellType
    <2> QED
      BY <1>1, <1>3, <2>4 DEF Flushed, TypeOK, agentVars, timerVars, history
  <1>4. CASE Updated
    BY <1>1, <1>4 DEF Updated, RestartTimer, StartTimer, TypeOK, agentVars, taskVars, history
  <1>5. CASE Signalled
    <2>1. "complete" \in CallsOf(loop.event.kind)
      BY <1>0, StagesOfKind DEF Reporting
    <2>2. Go("complete") /\ Tell(t, "complete", 0)
      BY <1>5 DEF Signalled
    <2>3. /\ loop' \in Handling /\ loop'.at \in CallsOf(loop'.event.kind)
          /\ told' \in [Task -> [Call -> Seq(0 .. MaxUpdates)]]
      BY <1>0, <1>1, <2>1, <2>2, GoType, TellType
    <2> QED
      BY <1>5, <2>3
         DEF Signalled, TypeOK, agentVars, taskVars, timerVars, history
  <1>6. CASE Completed
    BY <1>1, <1>6 DEF Completed, Forget, StopTimer, TypeOK, agentVars, timerVars, history
  <1>7. CASE HandlingRaises
    <2>1. /\ loop' \in Handling /\ loop'.at \in Reporting /\ loop'.event = loop.event
          /\ told' \in [Task -> [Call -> Seq(0 .. MaxUpdates)]]
      <3>1. CASE loop' = [loop EXCEPT !.at = "error", !.failing = TRUE] /\ Tell(t, "error", 0)
        <4>1. /\ loop' \in Handling /\ loop'.at = "error" /\ loop'.event = loop.event
          BY <1>0, <3>1, StagesOfKind DEF Handling, Call, Final
        <4> QED
          BY <1>1, <3>1, <4>1, TellType DEF Reporting
      <3>2. CASE Go("resting") /\ told' = told
        BY <1>0, <3>2, StagesOfKind, GoType DEF Reporting, TypeOK
      <3> QED
        BY <1>7, <3>1, <3>2 DEF HandlingRaises
    <2>2. loop'.at \in CallsOf(loop'.event.kind)
      BY <1>0, <2>1, StagesOfKind
    <2>3. /\ broken' \subseteq Task /\ unreported' \subseteq Task
          /\ raises' \in 0 .. MaxRaises
      <3>1. raises \in 0 .. MaxRaises /\ Raise
        BY <1>7 DEF HandlingRaises, TypeOK
      <3>2. raises' \in 0 .. MaxRaises
        BY <3>1, BoundAssumption DEF Raise
      <3>3. broken' \subseteq Task /\ unreported' \subseteq Task
        BY <1>1, <1>7 DEF HandlingRaises, TypeOK
      <3> QED
        BY <3>2, <3>3
    <2> QED
      BY <1>7, <2>1, <2>2, <2>3
         DEF HandlingRaises, TypeOK, agentVars, taskVars, timerVars
  <1>8. CASE Refuse
    <2>1. queue \in Seq(Event) /\ loop.event \in Event
      BY <1>0, StagesOfKind DEF TypeOK
    <2>2. queue' \in Seq(Event)
      BY <1>8, <2>1, AppendProperties DEF Refuse
    <2> QED
      BY <1>8, <2>2 DEF Refuse, TypeOK, agentVars, taskVars, timerVars, history
  <1> QED
    BY <1>2, <1>3, <1>4, <1>5, <1>6, <1>7, <1>8 DEF HandlingStep

\* What is not a step of the processor.
TaskStep(t) == TimeoutStep(t) \/ Submit(t) \/ SubmitRaises(t) \/ AgentSends(t)

\* What an agent sends is an update, or the end.
LEMMA AgentSendsType ==
    ASSUME TypeOK, NEW t \in Task, AgentSends(t)
    PROVE  /\ sent' \in [Task -> 0 .. MaxUpdates] /\ ended' \subseteq Task
           /\ blank' \in [Task -> SUBSET (1 .. MaxUpdates)]
           /\ \A u \in Task : u # t => sent'[u] = sent[u] /\ blank'[u] = blank[u]
           /\ \/ /\ sent'[t] = sent[t] + 1
                 /\ \E k \in Kind \ Final :
                       /\ queue' = Append(queue, [task |-> t, kind |-> k, n |-> sent[t] + 1])
                       /\ blank'[t] = blank[t] \cup IF k \in Blank THEN {sent[t] + 1} ELSE {}
              \/ /\ sent' = sent /\ blank' = blank
                 /\ \E k \in Final \cup {"invalid"} :
                       queue' = Append(queue, [task |-> t, kind |-> k, n |-> 0])
  <1>1. /\ sent \in [Task -> 0 .. MaxUpdates] /\ ended \subseteq Task
        /\ blank \in [Task -> SUBSET (1 .. MaxUpdates)]
    BY DEF TypeOK
  <1>2. CASE sent' = sent /\ blank' = blank /\ ended' = ended \cup {t}
    <2>1. \E k \in Final \cup {"invalid"} :
             queue' = Append(queue, [task |-> t, kind |-> k, n |-> 0])
      <3>1. sent' # [sent EXCEPT ![t] = @ + 1]
        BY <1>1, <1>2, BoundAssumption
      <3> QED
        BY <3>1 DEF AgentSends
    <2> QED
      BY <1>1, <1>2, <2>1
  <1>3. CASE ~(sent' = sent /\ blank' = blank /\ ended' = ended \cup {t})
    <2>1. /\ sent[t] < MaxUpdates /\ sent' = [sent EXCEPT ![t] = @ + 1] /\ ended' = ended
          /\ \E k \in Kind \ Final :
                /\ queue' = Append(queue, [task |-> t, kind |-> k, n |-> sent'[t]])
                /\ blank' = [blank EXCEPT ![t] =
                               @ \cup IF k \in Blank THEN {sent'[t]} ELSE {}]
      BY <1>3 DEF AgentSends
    <2>2. sent'[t] = sent[t] + 1 /\ sent[t] + 1 \in 1 .. MaxUpdates
      BY <1>1, <2>1, BoundAssumption
    <2>3. PICK k \in Kind \ Final :
             /\ queue' = Append(queue, [task |-> t, kind |-> k, n |-> sent[t] + 1])
             /\ blank' = [blank EXCEPT ![t] =
                            @ \cup IF k \in Blank THEN {sent[t] + 1} ELSE {}]
      BY <2>1, <2>2
    <2>4. /\ blank' \in [Task -> SUBSET (1 .. MaxUpdates)]
          /\ blank'[t] = blank[t] \cup IF k \in Blank THEN {sent[t] + 1} ELSE {}
          /\ \A u \in Task : u # t => blank'[u] = blank[u]
      BY <1>1, <2>2, <2>3
    <2>5. sent' \in [Task -> 0 .. MaxUpdates] /\ \A u \in Task : u # t => sent'[u] = sent[u]
      BY <1>1, <2>1, <2>2, BoundAssumption
    <2> QED
      BY <1>1, <2>1, <2>2, <2>3, <2>4, <2>5
  <1> QED
    BY <1>2, <1>3

\* An agent's message joins the end of the queue.
LEMMA SendsEvent ==
    ASSUME TypeOK, NEW t \in Task, AgentSends(t)
    PROVE  \E e \in Event : e.task = t /\ queue' = Append(queue, e)
  <1>0. 0 \in 0 .. MaxUpdates
    BY BoundAssumption
  <1>1. ASSUME NEW k \in Kind \ Final, sent[t] < MaxUpdates,
               sent' = [sent EXCEPT ![t] = @ + 1],
               queue' = Append(queue, [task |-> t, kind |-> k, n |-> sent'[t]])
        PROVE  \E e \in Event : e.task = t /\ queue' = Append(queue, e)
    <2>1. sent'[t] \in 0 .. MaxUpdates
      <3>1. sent \in [Task -> 0 .. MaxUpdates]
        BY DEF TypeOK
      <3> QED
        BY <1>1, <3>1, BoundAssumption
    <2>2. [task |-> t, kind |-> k, n |-> sent'[t]] \in Event
      BY <2>1 DEF Event
    <2> QED
      BY <1>1, <2>2
  <1>2. ASSUME NEW k \in Final \cup {"invalid"},
               queue' = Append(queue, [task |-> t, kind |-> k, n |-> 0])
        PROVE  \E e \in Event : e.task = t /\ queue' = Append(queue, e)
    <2>1. [task |-> t, kind |-> k, n |-> 0] \in Event
      BY <1>0 DEF Event, Kind, Blank
    <2> QED
      BY <1>2, <2>1
  <1> QED
    BY <1>1, <1>2 DEF AgentSends

\* So do the steps of one task.
LEMMA TaskStepType ==
    ASSUME TypeOK, NEW t \in Task, TaskStep(t)
    PROVE  TypeOK'
  <1>0. {"error", "complete"} \subseteq Call /\ 0 \in 0 .. MaxUpdates
    BY BoundAssumption DEF Call, Final
  <1>1. CASE Fire(t)
    BY <1>1 DEF Fire, TypeOK, agentVars, taskVars, history
  <1>2. CASE ProcessTimer(t)
    <2>1. timeout' \in [Task -> {"none", "due", "error", "complete"}]
      BY <1>2 DEF ProcessTimer, TypeOK
    <2> QED
      BY <1>2, <2>1 DEF ProcessTimer, TypeOK, agentVars, taskVars, history
  <1>3. CASE BeginTimeout(t)
    <2>1. told' = told \/ Tell(t, "error", 0)
      BY <1>3 DEF BeginTimeout
    <2>2. told' \in [Task -> [Call -> Seq(0 .. MaxUpdates)]]
      <3>1. told \in [Task -> [Call -> Seq(0 .. MaxUpdates)]]
        BY DEF TypeOK
      <3> QED
        BY <1>0, <2>1, <3>1, TellType
    <2>3. timeout' \in [Task -> {"none", "due", "error", "complete"}]
      <3>1. timeout' \in {[timeout EXCEPT ![t] = "error"], [timeout EXCEPT ![t] = "none"]}
        BY <1>3 DEF BeginTimeout
      <3>2. timeout \in [Task -> {"none", "due", "error", "complete"}]
        BY DEF TypeOK
      <3> QED
        BY <3>1, <3>2
    <2>4. raced' \subseteq Task
      <3>1. raced' \in {raced, raced \cup {t}}
        BY <1>3 DEF BeginTimeout
      <3> QED
        BY <3>1 DEF TypeOK
    <2> QED
      BY <1>3, <2>2, <2>3, <2>4 DEF BeginTimeout, TypeOK, agentVars, taskVars, timerVars
  <1>4. CASE TimeoutReported(t)
    <2>1. told' \in [Task -> [Call -> Seq(0 .. MaxUpdates)]]
      BY <1>0, <1>4, TellType DEF TimeoutReported
    <2>2. timeout' \in [Task -> {"none", "due", "error", "complete"}]
      BY <1>4 DEF TimeoutReported, TypeOK
    <2> QED
      BY <1>4, <2>1, <2>2
         DEF TimeoutReported, TypeOK, agentVars, taskVars, timerVars, history
  <1>5. CASE EndTimeout(t)
    <2>1. raises' \in 0 .. MaxRaises
      <3>1. raises \in 0 .. MaxRaises /\ (raises' = raises \/ Raise)
        BY <1>5 DEF EndTimeout, TypeOK
      <3> QED
        BY <3>1, BoundAssumption DEF Raise
    <2>2. /\ stopped' \subseteq Task /\ broken' \subseteq Task /\ contexts' \subseteq Task
          /\ buffer' \in [Task -> {"none", "", "text"}]
          /\ timeout' \in [Task -> {"none", "due", "error", "complete"}]
      BY <1>5 DEF EndTimeout, StopsAgent, Forget, TypeOK
    <2> QED
      BY <1>5, <2>1, <2>2 DEF EndTimeout, TypeOK, agentVars, timerVars
  <1>6. CASE Submit(t)
    BY <1>6 DEF Submit, StartTimer, TypeOK, history
  <1>7. CASE SubmitRaises(t)
    <2>1. raises' \in 0 .. MaxRaises
      <3>1. raises \in 0 .. MaxRaises /\ Raise
        BY <1>7 DEF SubmitRaises, TypeOK
      <3> QED
        BY <3>1, BoundAssumption DEF Raise
    <2> QED
      BY <1>7, <2>1 DEF SubmitRaises, TypeOK, timerVars, history
  <1>8. CASE AgentSends(t)
    <2>1. /\ sent' \in [Task -> 0 .. MaxUpdates] /\ ended' \subseteq Task
          /\ blank' \in [Task -> SUBSET (1 .. MaxUpdates)]
      BY <1>8, AgentSendsType
    <2>2. queue' \in Seq(Event)
      <3>1. queue \in Seq(Event)
        BY DEF TypeOK
      <3> QED
        BY <1>8, <3>1, SendsEvent, AppendProperties
    <2> QED
      BY <1>8, <2>1, <2>2 DEF AgentSends, TypeOK, taskVars, timerVars, history
  <1> QED
    BY <1>1, <1>2, <1>3, <1>4, <1>5, <1>6, <1>7, <1>8 DEF TaskStep, TimeoutStep

\* Every step keeps the types.
LEMMA NextType == TypeOK /\ [Next]_vars => TypeOK'
  <1> SUFFICES ASSUME TypeOK, [Next]_vars
               PROVE  TypeOK'
    OBVIOUS
  <1>1. CASE ProcessorStep
    <2>1. CASE RefuseInvalid
      BY <2>1, RefuseType
    <2> QED
      BY <1>1, <2>1, TakeType, HandlingType DEF ProcessorStep, HandlingStep
  <1>2. ASSUME NEW t \in Task, TaskStep(t)
        PROVE  TypeOK'
    BY <1>2, TaskStepType
  <1>3. CASE UNCHANGED vars
    BY <1>3 DEF TypeOK, vars, agentVars, taskVars, timerVars, history
  <1> QED
    BY <1>1, <1>2, <1>3 DEF Next, TaskStep

\* They hold before the first task.
LEMMA InitType == Init => TypeOK
  BY BoundAssumption DEF Init, TypeOK

\* The state of a gateway always has its type: in particular an event in progress
\* awaits only calls that its kind leads to.
THEOREM TypeCorrect == Spec => []TypeOK
  BY InitType, NextType, PTL DEF Spec
-----------------------------------------------------------------------------
(* What both safety invariants rest on.                                    *)

\* Nothing is known of a task that no agent was sent.
NewTask ==
    \A t \in Task : request[t] # "sent" =>
        /\ sent[t] = 0 /\ ~Busy(t)
        /\ request[t] = "new" => t \notin contexts
        /\ told[t]["update"] = << >> /\ told[t]["complete"] = << >>
        /\ timeout[t] = "none" /\ t \notin timer \cup fired
        /\ \A i \in DOMAIN queue : queue[i].task # t

\* A failure is being reported; a message is refused only after that failed too;
\* and an update ends in no other way.
LoopInv ==
    loop # Idle =>
        /\ loop.failing => loop.at \in Reporting
        /\ loop.at = "resting" => loop.event.task \in unreported
        /\ \/ loop.failing \/ loop.event.kind \notin {"update", "empty"}
           \/ loop.at \in {"resolve", "update"}

BaseInv == TypeOK /\ NewTask /\ LoopInv

\* What a tail and a longer queue hold.
LEMMA TailElements ==
    ASSUME NEW q \in Seq(Event), q # << >>
    PROVE  /\ DOMAIN q = 1 .. Len(q) /\ DOMAIN Tail(q) = 1 .. Len(q) - 1
           /\ Len(q) \in Nat /\ 1 \in DOMAIN q /\ Head(q) = q[1] /\ Head(q) \in Event
           /\ \A i \in DOMAIN Tail(q) : i \in Nat /\ i + 1 \in DOMAIN q /\ Tail(q)[i] = q[i + 1]
           /\ \A i \in DOMAIN q : q[i] \in Event /\ (i = 1 \/ i - 1 \in DOMAIN Tail(q))
  <1>1. DOMAIN q = 1 .. Len(q) /\ Len(q) \in Nat
    BY LenProperties
  <1>2. Tail(q) \in Seq(Event) /\ Len(Tail(q)) = Len(q) - 1
    BY HeadTailProperties
  <1>3. DOMAIN Tail(q) = 1 .. Len(q) - 1
    BY <1>2, LenProperties
  <1>4. \A i \in 1 .. Len(Tail(q)) : Tail(q)[i] = q[i + 1]
    BY HeadTailProperties
  <1>5. Head(q) = q[1]
    BY HeadTailProperties
  <1>6. \A i \in 1 .. Len(q) : q[i] \in Event
    BY ElementOfSeq
  <1>7. Len(q) # 0
    BY EmptySeq
  <1>8. \A i \in DOMAIN Tail(q) : i \in Nat /\ i + 1 \in DOMAIN q /\ Tail(q)[i] = q[i + 1]
    BY <1>1, <1>2, <1>3, <1>4
  <1>9. \A i \in DOMAIN q : q[i] \in Event /\ (i = 1 \/ i - 1 \in DOMAIN Tail(q))
    BY <1>1, <1>3, <1>6
  <1>10. 1 \in DOMAIN q
    BY <1>1, <1>7
  <1> QED
    BY <1>1, <1>3, <1>5, <1>8, <1>9, <1>10

\* The base invariant holds before the first task.
LEMMA BaseInit == Init => BaseInv
  <1> SUFFICES ASSUME Init PROVE BaseInv
    OBVIOUS
  <1>1. {"update", "complete"} \subseteq Call
    BY DEF Call
  <1>2. NewTask
    BY <1>1 DEF Init, NewTask, Busy
  <1>3. LoopInv
    BY DEF Init, LoopInv
  <1> QED
    BY <1>2, <1>3, InitType DEF BaseInv

\* What a step of the processor changes, besides what it tells.
LEMMA TakeBase ==
    ASSUME BaseInv, Take
    PROVE  NewTask' /\ LoopInv'
  <1> DEFINE e == NextEvent
  <1>1. /\ loop = Idle /\ queue \in Seq(Event) /\ queue # << >> /\ queue' = Tail(queue)
        /\ e \in Event /\ e.task \in Task /\ e = Head(queue)
    BY TakeEffect DEF BaseInv, TypeOK, NextEvent, Event
  <1>2. \A i \in DOMAIN queue' : \E j \in DOMAIN queue : queue'[i] = queue[j]
    BY <1>1, TailElements
  <1>3. request[e.task] = "sent"
    BY <1>1, TailElements DEF BaseInv, NewTask
  <1>4. told' = told \/ (Tell(e.task, "error", 0) /\ TypeOK)
    BY TakeEffect DEF Dropped, ReportsAtOnce, Resolves, BaseInv
  <1>5. \A u \in Task : u # e.task =>
           told'[u]["update"] = told[u]["update"] /\ told'[u]["complete"] = told[u]["complete"]
    <2>1. "error" \in Call /\ "update" \in Call /\ "complete" \in Call /\ 0 \in 0 .. MaxUpdates
      BY BoundAssumption DEF Call, Final
    <2> QED
      BY <1>1, <1>4, <2>1, TellType
  <1>6. loop' = Idle \/ (loop' # Idle /\ loop'.event = e)
    <2>1. loop' = Idle \/ (loop'.event = e /\ loop'.at # "idle")
      BY <1>1, TakeEffect DEF BaseInv, Dropped, ReportsAtOnce, Resolves
    <2> QED
      BY <2>1 DEF Idle
  <1>7. UNCHANGED <<request, sent, contexts, timeout, timer, fired>>
    BY DEF Take, agentVars, taskVars, timerVars
  <1>8. NewTask'
    BY <1>1, <1>2, <1>3, <1>5, <1>6, <1>7 DEF BaseInv, NewTask, Busy
  <1>9. LoopInv'
    <2>1. CASE Dropped(e)
      BY <1>1, <2>1 DEF Dropped, LoopInv
    <2>2. CASE ReportsAtOnce(e)
      BY <2>2 DEF ReportsAtOnce, LoopInv, Reporting
    <2>3. CASE Resolves(e)
      BY <2>3 DEF Resolves, LoopInv
    <2> QED
      BY <2>1, <2>2, <2>3, TakeEffect DEF BaseInv
  <1> QED
    BY <1>8, <1>9

\* So does refusing an invalid message.
LEMMA RefuseBase ==
    ASSUME BaseInv, RefuseInvalid
    PROVE  NewTask' /\ LoopInv'
  <1> DEFINE q == Tail(queue)
  <1>1. /\ loop = Idle /\ queue \in Seq(Event) /\ queue # << >> /\ q \in Seq(Event)
        /\ NextEvent \in Event /\ NextEvent = Head(queue)
        /\ queue' = q \/ queue' = Append(q, NextEvent)
    BY RefuseType DEF BaseInv
  <1>2. \A i \in DOMAIN q : \E j \in DOMAIN queue : q[i] = queue[j]
    BY <1>1, TailElements
  <1>3. \A i \in DOMAIN queue' : \E j \in DOMAIN queue : queue'[i] = queue[j]
    <2>1. CASE queue' = q
      BY <1>2, <2>1
    <2>2. CASE queue' = Append(q, NextEvent)
      <3>1. /\ Len(Append(q, NextEvent)) = Len(q) + 1 /\ Append(q, NextEvent) \in Seq(Event)
            /\ \A i \in 1 .. Len(q) : Append(q, NextEvent)[i] = q[i]
            /\ Append(q, NextEvent)[Len(q) + 1] = NextEvent
        BY <1>1, AppendProperties
      <3>2. /\ DOMAIN q = 1 .. Len(q) /\ Len(q) \in Nat
            /\ DOMAIN queue' = 1 .. Len(q) + 1
        BY <1>1, <2>2, <3>1, LenProperties
      <3>3. 1 \in DOMAIN queue /\ queue[1] = NextEvent
        BY <1>1, TailElements
      <3> QED
        BY <1>2, <2>2, <3>1, <3>2, <3>3
    <2> QED
      BY <1>1, <2>1, <2>2
  <1>4. UNCHANGED <<request, sent, contexts, timeout, timer, fired, told, loop, unreported>>
    BY DEF RefuseInvalid, agentVars, taskVars, timerVars, history
  <1> QED
    BY <1>3, <1>4 DEF BaseInv, NewTask, LoopInv, Busy

\* What a call adds to the updates and to the completions that were told.
LEMMA TellEffect ==
    ASSUME TypeOK, NEW t \in Task, NEW what \in Call, NEW n \in 0 .. MaxUpdates,
           Tell(t, what, n)
    PROVE  /\ \A u \in Task : ~(u = t /\ what = "update") =>
                 told'[u]["update"] = told[u]["update"]
           /\ \A u \in Task : ~(u = t /\ what = "complete") =>
                 told'[u]["complete"] = told[u]["complete"]
           /\ told'[t][what] = Append(told[t][what], n)
  <1>1. "update" \in Call /\ "complete" \in Call
    BY DEF Call
  <1> QED
    BY <1>1, TellType

SeenSame(u) == told'[u]["update"] = told[u]["update"]
EndsSame(u) == told'[u]["complete"] = told[u]["complete"]

\* What the steps of the event in progress change.
LEMMA ResolvedEffect ==
    ASSUME TypeOK, Resolved
    PROVE  /\ loop # Idle /\ loop.at = "resolve"
           /\ loop.event.kind \in {"update", "empty", "task"}
           /\ loop.event.kind = "empty" => loop' = Idle /\ SeenSame(loop.event.task)
           /\ loop.event.kind # "empty" =>
                 /\ loop' # Idle /\ loop'.at \in {"update", "flush", "task"}
                 /\ loop'.event = loop.event /\ loop'.failing = loop.failing
           /\ loop.event.kind = "update" =>
                 /\ loop'.at = "update"
                 /\ told'[loop.event.task]["update"] =
                       Append(told[loop.event.task]["update"], loop.event.n)
           /\ loop.event.kind = "task" =>
                 loop'.at \in {"flush", "task"} /\ SeenSame(loop.event.task)
           /\ \A u \in Task : u # loop.event.task => SeenSame(u)
           /\ \A u \in Task : EndsSame(u)
  <1> DEFINE e == loop.event  t == loop.event.task
  <1>1. loop # Idle /\ loop.at = "resolve"
    <2>1. loop.at = "resolve"
      BY DEF Resolved, Awaits
    <2> QED
      BY <2>1 DEF Idle
  <1>2. /\ t \in Task /\ e.n \in 0 .. MaxUpdates /\ 0 \in 0 .. MaxUpdates
        /\ {"update", "flush", "task"} \subseteq Call /\ e.kind \in {"update", "empty", "task"}
    BY <1>1, StagesOfKind, BoundAssumption DEF Call, Final
  <1>3. CASE e.kind = "update"
    <2>1. Go("update") /\ Tell(t, "update", e.n)
      BY <1>3 DEF Resolved, FlushesFirst
    <2>2. "update" \in CallsOf(e.kind)
      BY <1>3 DEF CallsOf
    <2>3. loop' # Idle /\ loop'.at = "update" /\ loop'.event = e /\ loop'.failing = loop.failing
      BY <1>1, <2>1, <2>2, GoType
    <2> QED
      BY <1>1, <1>2, <1>3, <2>1, <2>3, TellEffect DEF SeenSame, EndsSame
  <1>4. CASE e.kind = "task"
    <2>1. PICK at \in {"flush", "task"} : Go(at) /\ Tell(t, at, IF at = "task" THEN e.n ELSE 0)
      BY <1>4 DEF Resolved
    <2>2. at \in CallsOf(e.kind)
      BY <1>4 DEF CallsOf
    <2>3. loop' # Idle /\ loop'.at = at /\ loop'.event = e /\ loop'.failing = loop.failing
      BY <1>1, <2>1, <2>2, GoType
    <2>4. \A u \in Task : SeenSame(u) /\ EndsSame(u)
      BY <1>2, <2>1, TellEffect DEF SeenSame, EndsSame
    <2> QED
      BY <1>1, <1>2, <1>4, <2>3, <2>4
  <1>5. CASE e.kind = "empty"
    <2>1. loop' = Idle /\ told' = told
      BY <1>5 DEF Resolved
    <2> QED
      BY <1>1, <1>2, <1>5, <2>1 DEF SeenSame, EndsSame
  <1> QED
    BY <1>2, <1>3, <1>4, <1>5

\* After the flush the final response is handed over; nothing is told yet.
LEMMA FlushedEffect ==
    ASSUME TypeOK, Flushed
    PROVE  /\ loop # Idle /\ loop.event.kind = "task" /\ loop' # Idle
           /\ loop.at = "flush" /\ loop'.at = "task"
           /\ loop'.event = loop.event /\ loop'.failing = loop.failing
           /\ \A u \in Task : SeenSame(u) /\ EndsSame(u)
  <1>1. loop # Idle /\ loop.at = "flush" /\ Go("task") /\ Tell(loop.event.task, "task", 0)
    BY DEF Flushed, Awaits, Idle
  <1>2. loop.event.kind = "task" /\ loop.event.task \in Task /\ 0 \in 0 .. MaxUpdates
    BY <1>1, StagesOfKind, BoundAssumption
  <1>3. "task" \in CallsOf(loop.event.kind) /\ "task" \in Call
    BY <1>2 DEF CallsOf, Call, Final
  <1>4. loop' # Idle /\ loop'.at = "task" /\ loop'.event = loop.event /\ loop'.failing = loop.failing
    BY <1>1, <1>3, GoType
  <1>5. \A u \in Task : SeenSame(u) /\ EndsSame(u)
    BY <1>1, <1>2, <1>3, TellEffect DEF SeenSame, EndsSame
  <1> QED
    BY <1>1, <1>2, <1>4, <1>5

\* The call that completes a task is recorded for that task only.
LEMMA SignalledEffect ==
    ASSUME TypeOK, Signalled
    PROVE  /\ loop # Idle /\ loop.at \in {"task", "error"} /\ loop' # Idle
           /\ loop'.at = "complete"
           /\ loop'.event = loop.event /\ loop'.failing = loop.failing
           /\ told'[loop.event.task]["complete"] =
                 Append(told[loop.event.task]["complete"], 0)
           /\ \A u \in Task : SeenSame(u) /\ (u # loop.event.task => EndsSame(u))
  <1>1. /\ loop # Idle /\ loop.at \in {"task", "error"}
        /\ Go("complete") /\ Tell(loop.event.task, "complete", 0)
    BY DEF Signalled, Awaits, Idle
  <1>2. loop.event.task \in Task /\ 0 \in 0 .. MaxUpdates /\ "complete" \in Call
    BY <1>1, StagesOfKind, BoundAssumption DEF Call
  <1>3. "complete" \in CallsOf(loop.event.kind)
    BY <1>1, StagesOfKind DEF Reporting
  <1>4. /\ loop' # Idle /\ loop'.at = "complete"
        /\ loop'.event = loop.event /\ loop'.failing = loop.failing
    BY <1>1, <1>3, GoType
  <1>5. /\ told'[loop.event.task]["complete"] = Append(told[loop.event.task]["complete"], 0)
        /\ \A u \in Task : SeenSame(u) /\ (u # loop.event.task => EndsSame(u))
    BY <1>1, <1>2, TellEffect, SMTT(30) DEF SeenSame, EndsSame
  <1> QED
    BY <1>1, <1>4, <1>5

\* A call that raises is reported, once.
LEMMA RaisesEffect ==
    ASSUME TypeOK, HandlingRaises
    PROVE  /\ loop # Idle /\ loop.at # "resting" /\ loop' # Idle
           /\ loop'.event = loop.event /\ loop'.failing
           /\ loop'.at = IF loop.failing THEN "resting" ELSE "error"
           /\ unreported' = IF loop.failing \/ loop.at = "complete"
                              THEN unreported \cup {loop.event.task} ELSE unreported
           /\ \A u \in Task : SeenSame(u) /\ EndsSame(u)
  <1>1. loop # Idle /\ loop.at # "resting"
    BY DEF HandlingRaises, Idle
  <1>2. /\ loop \in Handling /\ loop.event.task \in Task /\ 0 \in 0 .. MaxUpdates
        /\ "resting" \in CallsOf(loop.event.kind) /\ "error" \in Call
    BY <1>1, StagesOfKind, BoundAssumption DEF Reporting, Call, Final
  <1>3. unreported' = IF loop.failing \/ loop.at = "complete"
                        THEN unreported \cup {loop.event.task} ELSE unreported
    BY DEF HandlingRaises, Awaits
  <1>4. CASE ~loop.failing
    <2>1. /\ loop' = [loop EXCEPT !.at = "error", !.failing = TRUE]
          /\ Tell(loop.event.task, "error", 0)
      BY <1>4 DEF HandlingRaises
    <2>2. loop'.at = "error" /\ loop'.failing /\ loop'.event = loop.event
      BY <1>2, <2>1 DEF Handling
    <2>3. loop' # Idle
      BY <2>2 DEF Idle
    <2>4. \A u \in Task : SeenSame(u) /\ EndsSame(u)
      BY <1>2, <2>1, TellEffect DEF SeenSame, EndsSame
    <2> QED
      BY <1>1, <1>3, <1>4, <2>2, <2>3, <2>4
  <1>5. CASE loop.failing
    <2>1. Go("resting") /\ told' = told
      BY <1>5 DEF HandlingRaises
    <2>2. loop' # Idle /\ loop'.at = "resting" /\ loop'.event = loop.event /\ loop'.failing
      BY <1>1, <1>2, <1>5, <2>1, GoType
    <2> QED
      BY <1>1, <1>3, <1>5, <2>1, <2>2 DEF SeenSame, EndsSame
  <1> QED
    BY <1>4, <1>5

\* Handling an event never wakes another task, nor moves an update.
LEMMA HandlingEffect ==
    ASSUME TypeOK, HandlingStep
    PROVE  /\ loop # Idle /\ loop.event.task \in Task
           /\ loop' = Idle \/ (loop' # Idle /\ loop'.event = loop.event)
           /\ \A u \in Task : u # loop.event.task => SeenSame(u) /\ EndsSame(u)
           /\ \/ queue' = queue
              \/ Refuse /\ loop.at = "resting" /\ queue' = Append(queue, loop.event)
           /\ contexts' \in {contexts, contexts \ {loop.event.task}}
           /\ timer' \subseteq timer \cup {loop.event.task} /\ fired' \subseteq fired
           /\ UNCHANGED <<request, sent, timeout, raced>>
           /\ unreported \subseteq unreported'
  <1>1. CASE Resolved
    <2>1. loop # Idle /\ (loop' = Idle \/ (loop' # Idle /\ loop'.event = loop.event))
      BY <1>1, ResolvedEffect
    <2>2. /\ timer' \subseteq timer \cup {loop.event.task} /\ fired' \subseteq fired
          /\ UNCHANGED <<agentVars, queue, contexts, timeout, history>>
      BY <1>1 DEF Resolved, RestartTimer, StartTimer, timerVars
    <2> QED
      BY <1>1, <2>1, <2>2, ResolvedEffect, StagesOfKind
         DEF agentVars, history
  <1>2. CASE Flushed
    BY <1>2, FlushedEffect, StagesOfKind DEF Flushed, agentVars, timerVars, history
  <1>3. CASE Updated
    <2>1. loop # Idle
      BY <1>3 DEF Updated, Awaits, Idle
    <2> QED
      BY <1>3, <2>1, StagesOfKind
         DEF Updated, RestartTimer, StartTimer, SeenSame, EndsSame,
             agentVars, taskVars, history
  <1>4. CASE Signalled
    BY <1>4, SignalledEffect, StagesOfKind DEF Signalled, agentVars, taskVars, timerVars, history
  <1>5. CASE Completed
    <2>1. loop # Idle
      BY <1>5 DEF Completed, Awaits, Idle
    <2> QED
      BY <1>5, <2>1, StagesOfKind
         DEF Completed, Forget, StopTimer, SeenSame, EndsSame, agentVars, timerVars, history
  <1>6. CASE HandlingRaises
    BY <1>6, RaisesEffect, StagesOfKind DEF HandlingRaises, agentVars, taskVars, timerVars
  <1>7. CASE Refuse
    <2>1. loop # Idle /\ loop.at = "resting"
      BY <1>7 DEF Refuse, Awaits, Idle
    <2> QED
      BY <1>7, <2>1, StagesOfKind
         DEF Refuse, SeenSame, EndsSame, agentVars, taskVars, timerVars, history
  <1> QED
    BY <1>1, <1>2, <1>3, <1>4, <1>5, <1>6, <1>7 DEF HandlingStep

\* The handling of an event keeps the base invariant.
LEMMA HandlingBase ==
    ASSUME BaseInv, HandlingStep
    PROVE  NewTask' /\ LoopInv'
  <1> DEFINE t == loop.event.task
  <1>1. TypeOK
    BY DEF BaseInv
  <1>2. t \in Task /\ loop # Idle
    BY <1>1, HandlingEffect
  <1>3. request[t] = "sent"
    BY <1>2 DEF BaseInv, NewTask, Busy
  <1>4. \A i \in DOMAIN queue' :
           queue'[i].task = t \/ (i \in DOMAIN queue /\ queue'[i] = queue[i])
    <2>1. queue \in Seq(Event) /\ loop.event \in Event
      BY <1>1, <1>2, StagesOfKind DEF TypeOK
    <2>2. CASE queue' = queue
      BY <2>2
    <2>3. CASE queue' = Append(queue, loop.event)
      <3>1. /\ Len(Append(queue, loop.event)) = Len(queue) + 1
            /\ \A i \in 1 .. Len(queue) : Append(queue, loop.event)[i] = queue[i]
            /\ Append(queue, loop.event)[Len(queue) + 1] = loop.event
            /\ Append(queue, loop.event) \in Seq(Event)
        BY <2>1, AppendProperties
      <3>2. DOMAIN queue = 1 .. Len(queue) /\ Len(queue) \in Nat
            /\ DOMAIN queue' = 1 .. Len(queue) + 1
        BY <2>1, <2>3, <3>1, LenProperties
      <3> QED
        BY <2>3, <3>1, <3>2
    <2> QED
      BY <1>1, <2>2, <2>3, HandlingEffect
  <1>5. NewTask'
    <2> SUFFICES ASSUME NEW u \in Task, request'[u] # "sent"
                 PROVE  /\ sent'[u] = 0 /\ ~Busy(u)'
                        /\ request'[u] = "new" => u \notin contexts'
                        /\ told'[u]["update"] = << >> /\ told'[u]["complete"] = << >>
                        /\ timeout'[u] = "none" /\ u \notin timer' \cup fired'
                        /\ \A i \in DOMAIN queue' : queue'[i].task # u
      BY DEF NewTask
    <2>1. u # t /\ request[u] # "sent" /\ request'[u] = request[u]
      BY <1>1, <1>3, HandlingEffect
    <2>2. /\ sent[u] = 0 /\ ~Busy(u)
          /\ request[u] = "new" => u \notin contexts
          /\ told[u]["update"] = << >> /\ told[u]["complete"] = << >>
          /\ timeout[u] = "none" /\ u \notin timer \cup fired
          /\ \A i \in DOMAIN queue : queue[i].task # u
      BY <2>1 DEF BaseInv, NewTask
    <2>3. SeenSame(u) /\ EndsSame(u)
      BY <1>1, <2>1, HandlingEffect
    <2>4. \A i \in DOMAIN queue' : queue'[i].task # u
      BY <1>4, <2>1, <2>2
    <2>5. ~Busy(u)'
      BY <1>1, <2>1, HandlingEffect DEF Busy
    <2>6. /\ contexts' \subseteq contexts /\ u \notin timer' \cup fired'
          /\ sent'[u] = sent[u] /\ timeout'[u] = timeout[u]
      BY <1>1, <2>1, <2>2, HandlingEffect
    <2> QED
      BY <2>1, <2>2, <2>3, <2>4, <2>5, <2>6 DEF SeenSame, EndsSame
  <1>6. LoopInv'
    <2>0. /\ loop.failing => loop.at \in Reporting
          /\ loop.at = "resting" => loop.event.task \in unreported
          /\ \/ loop.failing \/ loop.event.kind \notin {"update", "empty"}
             \/ loop.at \in {"resolve", "update"}
      BY <1>2 DEF BaseInv, LoopInv
    <2>1. CASE Resolved
      BY <1>1, <2>0, <2>1, ResolvedEffect DEF LoopInv, Reporting
    <2>2. CASE Flushed
      BY <1>1, <2>0, <2>2, FlushedEffect DEF LoopInv, Reporting
    <2>3. CASE Updated
      BY <2>3 DEF Updated, LoopInv
    <2>4. CASE Signalled
      BY <1>1, <2>0, <2>4, SignalledEffect DEF LoopInv, Reporting
    <2>5. CASE Completed
      BY <2>5 DEF Completed, LoopInv
    <2>6. CASE HandlingRaises
      BY <1>1, <2>0, <2>6, RaisesEffect DEF LoopInv, Reporting
    <2>7. CASE Refuse
      BY <2>7 DEF Refuse, LoopInv
    <2> QED
      BY <2>1, <2>2, <2>3, <2>4, <2>5, <2>6, <2>7 DEF HandlingStep
  <1> QED
    BY <1>5, <1>6

\* A step of one task outside the processor leaves the event in progress and every
\* other task alone, and appends nothing but what the task's agent sends.
LEMMA TaskEffect ==
    ASSUME BaseInv, NEW t \in Task, TaskStep(t)
    PROVE  /\ loop' = loop /\ unreported' = unreported
           /\ \A u \in Task : SeenSame(u)
           /\ \A u \in Task : u # t =>
                 /\ EndsSame(u) /\ request'[u] = request[u] /\ sent'[u] = sent[u]
                 /\ timeout'[u] = timeout[u]
                 /\ u \in contexts' <=> u \in contexts
                 /\ u \in timer' <=> u \in timer
                 /\ u \in fired' <=> u \in fired
           /\ \/ Submit(t) \/ SubmitRaises(t)
              \/ request[t] = "sent" /\ request' = request /\ contexts' \subseteq contexts
           /\ queue' = queue \/ AgentSends(t)
           /\ sent' = sent \/ AgentSends(t)
  <1>0. /\ {"error", "complete"} \subseteq Call /\ 0 \in 0 .. MaxUpdates /\ TypeOK
        /\ request \in [Task -> {"new", "sent", "refused"}]
        /\ sent \in [Task -> 0 .. MaxUpdates]
        /\ timeout \in [Task -> {"none", "due", "error", "complete"}]
    <2>1. 0 \in 0 .. MaxUpdates
      BY BoundAssumption
    <2>2. {"error", "complete"} \subseteq Call
      BY DEF Call, Final
    <2> QED
      BY <2>1, <2>2 DEF BaseInv, TypeOK
  <1>1. /\ t \in timer \cup fired \/ timeout[t] # "none" => request[t] = "sent"
        /\ request[t] = "new" => t \notin contexts
    BY DEF BaseInv, NewTask
  <1>2. CASE Fire(t)
    BY <1>0, <1>1, <1>2
       DEF Fire, SeenSame, EndsSame, agentVars, taskVars, history
  <1>3. CASE ProcessTimer(t)
    BY <1>0, <1>1, <1>3
       DEF ProcessTimer, SeenSame, EndsSame, agentVars, taskVars, history
  <1>4. CASE BeginTimeout(t)
    <2>1. told' = told \/ Tell(t, "error", 0)
      BY <1>4 DEF BeginTimeout
    <2>2. \A u \in Task : SeenSame(u) /\ EndsSame(u)
      BY <1>0, <2>1, TellEffect DEF SeenSame, EndsSame
    <2>3. timeout[t] = "due" /\ \A u \in Task : u # t => timeout'[u] = timeout[u]
      BY <1>0, <1>4 DEF BeginTimeout
    <2>4. request[t] = "sent"
      BY <1>1, <2>3
    <2> QED
      BY <1>4, <2>2, <2>3, <2>4
         DEF BeginTimeout, agentVars, taskVars, timerVars
  <1>5. CASE TimeoutReported(t)
    <2>1. Tell(t, "complete", 0)
      BY <1>5 DEF TimeoutReported
    <2>2. \A u \in Task : SeenSame(u) /\ (u # t => EndsSame(u))
      BY <1>0, <2>1, TellEffect DEF SeenSame, EndsSame
    <2> QED
      BY <1>0, <1>1, <1>5, <2>2
         DEF TimeoutReported, agentVars, taskVars, timerVars, history
  <1>6. CASE EndTimeout(t)
    <2>1. timeout[t] # "none" /\ Forget(t)
      BY <1>6 DEF EndTimeout, TimingOut
    <2>2. timeout' = [timeout EXCEPT ![t] = "none"]
          /\ UNCHANGED <<agentVars, queue, loop, timerVars, told, unreported>>
      BY <1>6 DEF EndTimeout
    <2> QED
      BY <1>0, <1>1, <2>1, <2>2
         DEF Forget, SeenSame, EndsSame, agentVars, timerVars
  <1>7. CASE Submit(t)
    BY <1>0, <1>7 DEF Submit, StartTimer, SeenSame, EndsSame, history
  <1>8. CASE SubmitRaises(t)
    BY <1>0, <1>8 DEF SubmitRaises, SeenSame, EndsSame, timerVars, history
  <1>9. CASE AgentSends(t)
    <2>1. \A u \in Task : u # t => sent'[u] = sent[u]
      BY <1>0, <1>9, AgentSendsType
    <2>2. /\ request[t] = "sent" /\ request' = request /\ UNCHANGED <<loop, told>>
          /\ UNCHANGED taskVars /\ UNCHANGED timerVars /\ UNCHANGED history
          /\ timeout' = timeout
      BY <1>9 DEF AgentSends
    <2> QED
      BY <1>9, <2>1, <2>2 DEF SeenSame, EndsSame, taskVars, timerVars, history
  <1> QED
    BY <1>2, <1>3, <1>4, <1>5, <1>6, <1>7, <1>8, <1>9 DEF TaskStep, TimeoutStep

\* So do the steps of one task.
LEMMA TaskStepBase ==
    ASSUME BaseInv, NEW t \in Task, TaskStep(t)
    PROVE  NewTask' /\ LoopInv'
  <1>1. LoopInv'
    BY TaskEffect DEF BaseInv, LoopInv
  <1>2. ASSUME NEW u \in Task, request'[u] # "sent"
        PROVE  /\ sent'[u] = 0 /\ ~Busy(u)'
               /\ request'[u] = "new" => u \notin contexts'
               /\ told'[u]["update"] = << >> /\ told'[u]["complete"] = << >>
               /\ timeout'[u] = "none" /\ u \notin timer' \cup fired'
               /\ \A i \in DOMAIN queue' : queue'[i].task # u
    <2>1. CASE u # t
      <3>1. request[u] # "sent" /\ request'[u] = request[u]
        BY <1>2, <2>1, TaskEffect
      <3>2. /\ sent[u] = 0 /\ ~Busy(u)
            /\ request[u] = "new" => u \notin contexts
            /\ told[u]["update"] = << >> /\ told[u]["complete"] = << >>
            /\ timeout[u] = "none" /\ u \notin timer \cup fired
            /\ \A i \in DOMAIN queue : queue[i].task # u
        BY <3>1 DEF BaseInv, NewTask
      <3>3. \A i \in DOMAIN queue' : queue'[i].task # u
        <4>1. CASE AgentSends(t)
          <5>1. PICK e \in Event : e.task = t /\ queue' = Append(queue, e)
            BY <4>1, SendsEvent DEF BaseInv
          <5>2. queue \in Seq(Event)
            BY DEF BaseInv, TypeOK
          <5>3. /\ Len(queue') = Len(queue) + 1 /\ queue' \in Seq(Event)
                /\ \A i \in 1 .. Len(queue) : queue'[i] = queue[i]
                /\ queue'[Len(queue) + 1] = e
            BY <5>1, <5>2, AppendProperties
          <5>4. /\ DOMAIN queue = 1 .. Len(queue) /\ Len(queue) \in Nat
                /\ DOMAIN queue' = 1 .. Len(queue) + 1
            BY <5>2, <5>3, LenProperties
          <5> QED
            BY <2>1, <3>2, <5>1, <5>3, <5>4
        <4> QED
          BY <3>2, <4>1, TaskEffect
      <3>4. ~Busy(u)'
        BY <3>2, TaskEffect DEF Busy
      <3>5. told'[u]["update"] = << >> /\ told'[u]["complete"] = << >>
        BY <2>1, <3>2, TaskEffect DEF SeenSame, EndsSame
      <3> QED
        BY <2>1, <3>1, <3>2, <3>3, <3>4, <3>5, TaskEffect
    <2>2. CASE u = t
      <3>1. request \in [Task -> {"new", "sent", "refused"}]
        BY DEF BaseInv, TypeOK
      <3>2. SubmitRaises(t)
        BY <1>2, <2>2, <3>1, TaskEffect DEF Submit
      <3>3. request[u] = "new" /\ request'[u] = "refused"
        BY <2>2, <3>1, <3>2 DEF SubmitRaises
      <3>4. /\ sent[u] = 0 /\ ~Busy(u)
            /\ told[u]["update"] = << >> /\ told[u]["complete"] = << >>
            /\ timeout[u] = "none" /\ u \notin timer \cup fired
            /\ \A i \in DOMAIN queue : queue[i].task # u
        BY <3>3 DEF BaseInv, NewTask
      <3> QED
        BY <3>2, <3>3, <3>4 DEF SubmitRaises, Busy, timerVars
    <2> QED
      BY <2>1, <2>2
  <1>3. NewTask'
    BY <1>2 DEF NewTask
  <1> QED
    BY <1>1, <1>3

\* Every step keeps the base invariant.
LEMMA BaseNext == BaseInv /\ [Next]_vars => BaseInv'
  <1> SUFFICES ASSUME BaseInv, [Next]_vars
               PROVE  BaseInv'
    OBVIOUS
  <1>1. TypeOK'
    BY NextType DEF BaseInv
  <1>2. CASE ProcessorStep
    <2>1. CASE RefuseInvalid
      BY <1>1, <2>1, RefuseBase DEF BaseInv
    <2> QED
      BY <1>1, <1>2, <2>1, TakeBase, HandlingBase DEF BaseInv, ProcessorStep, HandlingStep
  <1>3. ASSUME NEW t \in Task, TaskStep(t)
        PROVE  BaseInv'
    BY <1>1, <1>3, TaskStepBase DEF BaseInv
  <1>4. CASE UNCHANGED vars
    BY <1>1, <1>4 DEF BaseInv, NewTask, LoopInv, Busy, vars, agentVars, taskVars,
                      timerVars, history
  <1> QED
    BY <1>2, <1>3, <1>4 DEF Next, TaskStep

-----------------------------------------------------------------------------
(* The order of updates.                                                   *)

Numbered(e, t) == e.task = t /\ e.kind \in {"update", "bad"}

\* The updates of t that wait in q are those after lo, up to hi, in this order, but
\* for those in gap, which are empty or invalid.
Follow(t, lo, q, hi, gap) ==
    /\ \A i \in DOMAIN q : Numbered(q[i], t) => q[i].n \in (lo + 1 .. hi) \ gap
    /\ \A i, j \in DOMAIN q :
          i < j /\ Numbered(q[i], t) /\ Numbered(q[j], t) => q[i].n < q[j].n
    /\ \A m \in (lo + 1 .. hi) \ gap : \E i \in DOMAIN q : Numbered(q[i], t) /\ q[i].n = m

\* Taking the head: an update of t is the next one, anything else changes nothing.
LEMMA FollowTail ==
    ASSUME NEW t \in Task, NEW lo \in Nat, NEW hi \in Nat, NEW gap,
           NEW q \in Seq(Event), q # << >>, Follow(t, lo, q, hi, gap)
    PROVE  IF Numbered(Head(q), t)
             THEN LET n == Head(q).n IN
                  /\ n \in Nat /\ lo < n /\ n <= hi /\ n \notin gap
                  /\ \A m \in lo + 1 .. n - 1 : m \in gap
                  /\ Follow(t, n, Tail(q), hi, gap)
             ELSE Follow(t, lo, Tail(q), hi, gap)
  <1> DEFINE p == Tail(q)  n == Head(q).n
  <1>1. \A i \in DOMAIN p : Numbered(p[i], t) => p[i].n \in (lo + 1 .. hi) \ gap
    BY TailElements DEF Follow
  <1>2. \A i, j \in DOMAIN p :
           i < j /\ Numbered(p[i], t) /\ Numbered(p[j], t) => p[i].n < p[j].n
    <2> SUFFICES ASSUME NEW i \in DOMAIN p, NEW j \in DOMAIN p,
                        i < j, Numbered(p[i], t), Numbered(p[j], t)
                 PROVE  p[i].n < p[j].n
      OBVIOUS
    <2>1. /\ i + 1 \in DOMAIN q /\ j + 1 \in DOMAIN q /\ i + 1 < j + 1
          /\ p[i] = q[i + 1] /\ p[j] = q[j + 1]
      BY TailElements
    <2> QED
      BY <2>1 DEF Follow
  <1>3. CASE ~Numbered(Head(q), t)
    <2>1. ASSUME NEW m \in (lo + 1 .. hi) \ gap
          PROVE  \E i \in DOMAIN p : Numbered(p[i], t) /\ p[i].n = m
      <3>1. PICK i \in DOMAIN q : Numbered(q[i], t) /\ q[i].n = m
        BY DEF Follow
      <3>2. i # 1 /\ i \in Nat
        BY <1>3, <3>1, TailElements
      <3>3. i - 1 \in DOMAIN p /\ p[i - 1] = q[i]
        BY <3>2, TailElements
      <3> QED
        BY <3>1, <3>3
    <2> QED
      BY <1>1, <1>2, <1>3, <2>1 DEF Follow
  <1>4. CASE Numbered(Head(q), t)
    <2>1. 1 \in DOMAIN q /\ Head(q) = q[1] /\ n \in (lo + 1 .. hi) \ gap
      BY <1>4, TailElements DEF Follow
    <2>2. \A i \in DOMAIN p : Numbered(p[i], t) => p[i].n > n
      <3> SUFFICES ASSUME NEW i \in DOMAIN p, Numbered(p[i], t)
                   PROVE  p[i].n > n
        OBVIOUS
      <3>1. i + 1 \in DOMAIN q /\ 1 < i + 1 /\ p[i] = q[i + 1]
        BY TailElements
      <3>2. n < q[i + 1].n
        BY <1>4, <2>1, <3>1 DEF Follow
      <3> QED
        BY <1>1, <2>1, <3>1, <3>2
    <2>3. \A m \in (lo + 1 .. hi) \ gap :
             m = n \/ \E i \in DOMAIN p : Numbered(p[i], t) /\ p[i].n = m
      <3> SUFFICES ASSUME NEW m \in (lo + 1 .. hi) \ gap, m # n
                   PROVE  \E i \in DOMAIN p : Numbered(p[i], t) /\ p[i].n = m
        OBVIOUS
      <3>1. PICK i \in DOMAIN q : Numbered(q[i], t) /\ q[i].n = m
        BY DEF Follow
      <3>2. i # 1 /\ i \in Nat
        BY <2>1, <3>1, TailElements
      <3>3. i - 1 \in DOMAIN p /\ p[i - 1] = q[i]
        BY <3>2, TailElements
      <3> QED
        BY <3>1, <3>3
    <2>4. ASSUME NEW m \in lo + 1 .. n - 1
          PROVE  m \in gap
      <3>1. m \in lo + 1 .. hi /\ m # n /\ m < n /\ m \in Int
        BY <2>1
      <3> SUFFICES ASSUME m \notin gap PROVE FALSE
        OBVIOUS
      <3>2. PICK i \in DOMAIN p : Numbered(p[i], t) /\ p[i].n = m
        BY <2>3, <3>1
      <3>3. m > n
        BY <2>2, <3>2
      <3> QED
        BY <2>1, <3>1, <3>3
    <2>5. \A i \in DOMAIN p : Numbered(p[i], t) => p[i].n \in (n + 1 .. hi) \ gap
      <3> SUFFICES ASSUME NEW i \in DOMAIN p, Numbered(p[i], t)
                   PROVE  p[i].n \in (n + 1 .. hi) \ gap
        OBVIOUS
      <3>1. p[i].n \in (lo + 1 .. hi) \ gap /\ p[i].n > n
        BY <1>1, <2>2
      <3> QED
        BY <2>1, <3>1
    <2>6. \A m \in (n + 1 .. hi) \ gap : \E i \in DOMAIN p : Numbered(p[i], t) /\ p[i].n = m
      <3> SUFFICES ASSUME NEW m \in (n + 1 .. hi) \ gap
                   PROVE  \E i \in DOMAIN p : Numbered(p[i], t) /\ p[i].n = m
        OBVIOUS
      <3>1. m \in (lo + 1 .. hi) \ gap /\ m # n
        BY <2>1
      <3> QED
        BY <2>3, <3>1
    <2>7. Follow(t, n, p, hi, gap)
      BY <1>2, <2>5, <2>6 DEF Follow
    <2>8. n \in Nat /\ lo < n /\ n <= hi /\ n \notin gap
      BY <2>1
    <2> QED
      BY <1>4, <2>4, <2>7, <2>8
  <1> QED
    BY <1>3, <1>4

\* The next update of t may join the end, and so may anything that is none.
LEMMA FollowAppend ==
    ASSUME NEW t \in Task, NEW lo \in Nat, NEW hi \in Nat, lo <= hi,
           NEW gap \in SUBSET (1 .. hi),
           NEW q \in Seq(Event), NEW e \in Event, Follow(t, lo, q, hi, gap)
    PROVE  /\ ~Numbered(e, t) => /\ Follow(t, lo, Append(q, e), hi, gap)
                                 /\ Follow(t, lo, Append(q, e), hi + 1, gap \cup {hi + 1})
           /\ e.n = hi + 1 /\ Numbered(e, t) => Follow(t, lo, Append(q, e), hi + 1, gap)
  <1> DEFINE p == Append(q, e)  k == Len(q) + 1
  <1>1. /\ Len(q) \in Nat /\ DOMAIN q = 1 .. Len(q) /\ DOMAIN p = DOMAIN q \cup {k}
        /\ p[k] = e /\ k \notin DOMAIN q
        /\ \A i \in DOMAIN q : p[i] = q[i] /\ i < k
    <2>1. Len(q) \in Nat /\ DOMAIN q = 1 .. Len(q)
      BY LenProperties
    <2>2. /\ Append(q, e) \in Seq(Event) /\ Len(Append(q, e)) = Len(q) + 1
          /\ \A i \in 1 .. Len(q) : Append(q, e)[i] = q[i]
          /\ Append(q, e)[Len(q) + 1] = e
      BY AppendProperties
    <2>3. DOMAIN p = 1 .. k
      BY <2>2, LenProperties
    <2> QED
      BY <2>1, <2>2, <2>3
  <1>2. \A i \in DOMAIN q : Numbered(q[i], t) => q[i].n \in (lo + 1 .. hi) \ gap
    BY DEF Follow
  <1>3. \A i, j \in DOMAIN q :
          i < j /\ Numbered(q[i], t) /\ Numbered(q[j], t) => q[i].n < q[j].n
    BY DEF Follow
  <1>4. \A m \in (lo + 1 .. hi) \ gap : \E i \in DOMAIN q : Numbered(q[i], t) /\ q[i].n = m
    BY DEF Follow
  <1>5. \A m \in (lo + 1 .. hi) \ gap : \E i \in DOMAIN p : Numbered(p[i], t) /\ p[i].n = m
    BY <1>1, <1>4
  <1> HIDE DEF p, k
  <1>6. CASE ~Numbered(e, t)
    <2>1. \A i \in DOMAIN p : Numbered(p[i], t) => i \in DOMAIN q /\ p[i] = q[i]
      BY <1>1, <1>6
    <2>2. \A i \in DOMAIN p : Numbered(p[i], t) => p[i].n \in (lo + 1 .. hi) \ gap
      BY <1>2, <2>1
    <2>3. \A i, j \in DOMAIN p :
          i < j /\ Numbered(p[i], t) /\ Numbered(p[j], t) => p[i].n < p[j].n
      BY <1>3, <2>1
    <2>4. Follow(t, lo, p, hi, gap)
      BY <1>5, <2>2, <2>3 DEF Follow
    <2>5. (lo + 1 .. hi + 1) \ (gap \cup {hi + 1}) = (lo + 1 .. hi) \ gap
      OBVIOUS
    <2>6. Follow(t, lo, p, hi + 1, gap \cup {hi + 1})
      BY <1>5, <2>2, <2>3, <2>5 DEF Follow
    <2> QED
      BY <1>6, <2>4, <2>6 DEF p
  <1>7. CASE e.n = hi + 1 /\ Numbered(e, t)
    <2>1. \A i \in DOMAIN p : Numbered(p[i], t) => p[i].n \in (lo + 1 .. hi + 1) \ gap
      <3> SUFFICES ASSUME NEW i \in DOMAIN p, Numbered(p[i], t)
                   PROVE  p[i].n \in (lo + 1 .. hi + 1) \ gap
        OBVIOUS
      <3>1. CASE i \in DOMAIN q
        <4>1. p[i] = q[i] /\ q[i].n \in (lo + 1 .. hi) \ gap
          BY <1>1, <1>2, <3>1
        <4> QED
          BY <4>1
      <3>2. CASE i = k
        <4>1. hi + 1 \notin gap
          OBVIOUS
        <4> QED
          BY <1>1, <1>7, <3>2, <4>1
      <3> QED
        BY <1>1, <3>1, <3>2
    <2>2. \A i, j \in DOMAIN p :
          i < j /\ Numbered(p[i], t) /\ Numbered(p[j], t) => p[i].n < p[j].n
      <3> SUFFICES ASSUME NEW i \in DOMAIN p, NEW j \in DOMAIN p,
                          i < j, Numbered(p[i], t), Numbered(p[j], t)
                   PROVE  p[i].n < p[j].n
        OBVIOUS
      <3>1. i \in DOMAIN q
        BY <1>1 DEF k
      <3>2. p[i] = q[i] /\ q[i].n \in lo + 1 .. hi
        BY <1>1, <1>2, <3>1
      <3>3. CASE j \in DOMAIN q
        BY <1>1, <1>3, <3>1, <3>3
      <3>4. CASE j = k
        BY <1>1, <1>7, <3>2, <3>4
      <3> QED
        BY <1>1, <3>3, <3>4
    <2>3. \A m \in (lo + 1 .. hi + 1) \ gap :
             \E i \in DOMAIN p : Numbered(p[i], t) /\ p[i].n = m
      <3> SUFFICES ASSUME NEW m \in (lo + 1 .. hi + 1) \ gap
                   PROVE  \E i \in DOMAIN p : Numbered(p[i], t) /\ p[i].n = m
        OBVIOUS
      <3>1. CASE m = hi + 1
        BY <1>1, <1>7, <3>1
      <3>2. CASE m # hi + 1
        BY <1>5, <3>2
      <3> QED
        BY <3>1, <3>2
    <2>4. Follow(t, lo, p, hi + 1, gap)
      BY <2>1, <2>2, <2>3 DEF Follow
    <2> QED
      BY <1>7, <2>4 DEF p
  <1> QED
    BY <1>6, <1>7

\* What the adapter has seen of t
Seen(t) == {told[t]["update"][i] : i \in DOMAIN told[t]["update"]}

\* The event in progress ends the task.
Closing(t) == Busy(t) /\ (loop.failing \/ loop.event.kind \notin {"update", "empty"})

\* An update of t is in progress.
Showing(t) == Busy(t) /\ ~Closing(t) /\ loop.event.kind = "update"

\* The last update that was taken and is not blank
Taken(t) == IF Showing(t) THEN loop.event.n ELSE LastSeen(t)

\* The updates of t that the adapter saw are those that its agent sent up to the last
\* that it saw, in their order and without the blank ones.
Shown(t) ==
    /\ \A i, j \in DOMAIN told[t]["update"] :
          i < j => told[t]["update"][i] < told[t]["update"][j]
    /\ Seen(t) = (1 .. LastSeen(t)) \ blank[t]
    /\ LastSeen(t) <= sent[t] /\ blank[t] \subseteq 1 .. sent[t]

\* The update in progress comes next, and those that wait come after it.
Ordered(t) ==
    /\ Shown(t)
    /\ Showing(t) =>
          /\ loop.event.n <= sent[t]
          /\ loop.at = "update" => LastSeen(t) = loop.event.n
          /\ loop.at = "resolve" =>
                /\ LastSeen(t) < loop.event.n /\ loop.event.n \notin blank[t]
                /\ \A m \in LastSeen(t) + 1 .. loop.event.n - 1 : m \in blank[t]
    /\ t \in contexts /\ ~Closing(t) => Follow(t, Taken(t), queue, sent[t], blank[t])

OrderInv == BaseInv /\ \A t \in Task \ unreported : Ordered(t)

\* How many updates of a task were taken, and which the adapter saw.
LEMMA TakenType ==
    ASSUME TypeOK, NEW t \in Task
    PROVE  /\ Taken(t) \in Nat /\ sent[t] \in Nat /\ LastSeen(t) \in Nat
           /\ told[t]["update"] \in Seq(0 .. MaxUpdates)
           /\ Len(told[t]["update"]) \in Nat
           /\ DOMAIN told[t]["update"] = 1 .. Len(told[t]["update"])
           /\ \A i \in DOMAIN told[t]["update"] : told[t]["update"][i] \in Nat
  <1>1. "update" \in Call /\ 0 .. MaxUpdates \subseteq Nat
    BY BoundAssumption DEF Call
  <1>2. sent[t] \in Nat /\ told[t]["update"] \in Seq(0 .. MaxUpdates)
    BY <1>1 DEF TypeOK
  <1>3. Busy(t) => loop.event.n \in Nat
    BY <1>1, StagesOfKind DEF Busy
  <1>4. /\ Len(told[t]["update"]) \in Nat
        /\ DOMAIN told[t]["update"] = 1 .. Len(told[t]["update"])
    BY <1>2, LenProperties
  <1>5. \A i \in DOMAIN told[t]["update"] : told[t]["update"][i] \in Nat
    BY <1>1, <1>2, <1>4, ElementOfSeq
  <1>6. told[t]["update"] # << >> => Len(told[t]["update"]) \in DOMAIN told[t]["update"]
    <2>1. told[t]["update"] # << >> => Len(told[t]["update"]) # 0
      BY <1>2, EmptySeq
    <2> QED
      BY <1>4, <2>1
  <1>7. LastSeen(t) \in Nat
    BY <1>5, <1>6 DEF LastSeen
  <1> QED
    BY <1>2, <1>3, <1>4, <1>5, <1>7 DEF Taken, Showing

\* What was seen of t is the same while nothing is shown.
LEMMA SameSeen ==
    ASSUME NEW t \in Task, SeenSame(t)
    PROVE  LastSeen(t)' = LastSeen(t) /\ Seen(t)' = Seen(t)
  BY DEF SeenSame, LastSeen, Seen

\* So it stays as the agent sent it.
LEMMA SameShown ==
    ASSUME NEW t \in Task, SeenSame(t), Shown(t), sent'[t] = sent[t], blank'[t] = blank[t]
    PROVE  Shown(t)'
  BY SameSeen DEF SeenSame, Shown

\* One more update is shown: the next that is not blank.
LEMMA ShowNext ==
    ASSUME TypeOK, TypeOK', NEW t \in Task, NEW n \in Nat, Shown(t),
           told'[t]["update"] = Append(told[t]["update"], n),
           LastSeen(t) < n, n <= sent[t], n \notin blank[t],
           \A m \in LastSeen(t) + 1 .. n - 1 : m \in blank[t],
           sent' = sent, blank' = blank
    PROVE  Shown(t)' /\ LastSeen(t)' = n
  <1> DEFINE s == told[t]["update"]  k == Len(s) + 1
  <1>1. /\ s \in Seq(Nat) /\ Len(s) \in Nat /\ DOMAIN s = 1 .. Len(s) /\ LastSeen(t) \in Nat
        /\ \A i \in DOMAIN s : s[i] \in Nat
    <2>1. s \in Seq(0 .. MaxUpdates) /\ \A i \in DOMAIN s : s[i] \in Nat
      BY TakenType
    <2>2. s \in Seq(Nat)
      BY <2>1, SeqDef
    <2> QED
      BY <2>1, <2>2, TakenType
  <1>2. /\ Append(s, n) \in Seq(Nat) /\ Len(Append(s, n)) = k
        /\ \A i \in 1 .. Len(s) : Append(s, n)[i] = s[i]
        /\ Append(s, n)[k] = n
    BY <1>1, AppendProperties
  <1>3. DOMAIN Append(s, n) = (1 .. Len(s)) \cup {k} /\ k \notin 1 .. Len(s)
    <2>1. DOMAIN Append(s, n) = 1 .. k
      BY <1>2, LenProperties
    <2> QED
      BY <1>1, <2>1
  <1>4. LastSeen(t)' = n
    <2>1. Append(s, n) # << >>
      BY <1>1, <1>2, EmptySeq
    <2> QED
      BY <1>2, <2>1 DEF LastSeen
  <1>5. Seen(t)' = Seen(t) \cup {n}
    BY <1>1, <1>2, <1>3 DEF Seen
  <1>6. Seen(t) = (1 .. LastSeen(t)) \ blank[t]
    BY DEF Shown
  <1>7. (1 .. n) \ blank[t] = ((1 .. LastSeen(t)) \ blank[t]) \cup {n}
    <2>1. \A m \in 1 .. n : m \in 1 .. LastSeen(t) \/ m = n \/ m \in LastSeen(t) + 1 .. n - 1
      BY <1>1
    <2>2. 1 .. LastSeen(t) \subseteq 1 .. n /\ n \in 1 .. n
      BY <1>1
    <2> QED
      BY <2>1, <2>2
  <1>8. \A i, j \in DOMAIN Append(s, n) : i < j => Append(s, n)[i] < Append(s, n)[j]
    <2> SUFFICES ASSUME NEW i \in DOMAIN Append(s, n), NEW j \in DOMAIN Append(s, n), i < j
                 PROVE  Append(s, n)[i] < Append(s, n)[j]
      OBVIOUS
    <2>1. i \in DOMAIN s /\ Append(s, n)[i] = s[i]
      BY <1>1, <1>2, <1>3
    <2>2. CASE j \in DOMAIN s
      BY <1>1, <1>2, <2>1, <2>2 DEF Shown
    <2>3. CASE j = k
      <3>1. s[i] \in Seen(t)
        BY <2>1 DEF Seen
      <3>2. s[i] <= LastSeen(t)
        BY <1>6, <3>1
      <3>3. s[i] \in Nat
        BY <1>1, <2>1
      <3>4. s[i] < n
        BY <1>1, <3>2, <3>3
      <3> QED
        BY <1>2, <2>1, <2>3, <3>4
    <2> QED
      BY <1>1, <1>3, <2>2, <2>3
  <1> QED
    BY <1>4, <1>5, <1>6, <1>7, <1>8 DEF Shown

\* Taking the next event
LEMMA TakeOrder ==
    ASSUME BaseInv, Take, NEW t \in Task, Ordered(t)
    PROVE  Ordered(t)'
  <1> DEFINE e == NextEvent
  <1>0. TypeOK
    BY DEF BaseInv
  <1>1. /\ loop = Idle /\ queue \in Seq(Event) /\ queue # << >> /\ queue' = Tail(queue)
        /\ e \in Event /\ e.task \in Task /\ e = Head(queue)
    BY TakeEffect DEF BaseInv, TypeOK, NextEvent, Event
  <1>2. contexts' = contexts /\ sent' = sent /\ blank' = blank
    BY DEF Take, agentVars, taskVars
  <1>3. SeenSame(t)
    <2>1. "error" \in Call /\ 0 \in 0 .. MaxUpdates
      BY BoundAssumption DEF Call, Final
    <2>2. told' = told \/ Tell(e.task, "error", 0)
      BY <1>0, TakeEffect DEF Dropped, ReportsAtOnce, Resolves
    <2> QED
      BY <1>0, <1>1, <2>1, <2>2, TellEffect DEF SeenSame
  <1>4. Shown(t)' /\ LastSeen(t)' = LastSeen(t)
    BY <1>2, <1>3, SameShown, SameSeen DEF Ordered
  <1>5. ~Busy(t) /\ ~Closing(t) /\ ~Showing(t) /\ Taken(t) = LastSeen(t)
    BY <1>1 DEF Busy, Closing, Showing, Taken
  <1>6. t \in contexts => /\ Taken(t) \in Nat /\ sent[t] \in Nat
                          /\ Follow(t, Taken(t), queue, sent[t], blank[t])
    BY <1>0, <1>5, TakenType DEF Ordered
  <1>7. ASSUME ~Showing(t)', t \in contexts => ~Numbered(Head(queue), t)
        PROVE  Ordered(t)'
    <2>1. Taken(t)' = Taken(t)
      BY <1>4, <1>5, <1>7 DEF Taken
    <2>2. t \in contexts => Follow(t, Taken(t), Tail(queue), sent[t], blank[t])
      BY <1>1, <1>6, <1>7, FollowTail
    <2> QED
      BY <1>1, <1>2, <1>4, <1>7, <2>1, <2>2 DEF Ordered
  <1>8. CASE e.task # t \/ Dropped(e)
    <2>1. ~Busy(t)'
      <3>1. loop' = Idle \/ loop'.event = e
        BY <1>0, <1>1, TakeEffect DEF Dropped, ReportsAtOnce, Resolves
      <3> QED
        BY <1>1, <1>8, <3>1 DEF Dropped, Busy
    <2>2. ~Showing(t)'
      BY <2>1 DEF Showing
    <2>3. t \in contexts => ~Numbered(Head(queue), t)
      BY <1>1, <1>8 DEF Numbered, Dropped
    <2> QED
      BY <1>7, <2>2, <2>3
  <1>9. CASE e.task = t /\ Accepted(e) /\ ReportsAtOnce(e)
    <2>1. Closing(t)'
      <3>1. /\ loop'.event = e /\ loop'.at = "error" /\ (loop'.failing <=> e.kind = "bad")
            /\ e.kind \in {"error", "bad"}
        BY <1>9 DEF ReportsAtOnce
      <3>2. loop' # Idle
        BY <3>1 DEF Idle
      <3> QED
        BY <1>9, <3>1, <3>2 DEF Closing, Busy
    <2> QED
      BY <1>4, <2>1 DEF Ordered, Showing
  <1>10. CASE e.task = t /\ Accepted(e) /\ Resolves(e)
    <2>1. /\ loop'.event = e /\ loop'.at = "resolve" /\ ~loop'.failing
          /\ e.kind \in {"update", "empty", "task"}
      BY <1>10 DEF Resolves
    <2>2. loop' # Idle
      BY <2>1 DEF Idle
    <2>3. CASE e.kind = "task"
      <3>1. Closing(t)'
        BY <1>10, <2>1, <2>2, <2>3 DEF Closing, Busy
      <3> QED
        BY <1>4, <3>1 DEF Ordered, Showing
    <2>4. CASE e.kind = "empty"
      <3>1. ~Showing(t)' /\ ~Numbered(Head(queue), t)
        BY <1>1, <2>1, <2>4 DEF Showing, Numbered
      <3> QED
        BY <1>7, <3>1
    <2>5. CASE e.kind = "update"
      <3>1. t \in contexts /\ Numbered(Head(queue), t)
        BY <1>1, <1>10, <2>5 DEF Accepted, Numbered
      <3>2. /\ Taken(t) < e.n /\ e.n <= sent[t] /\ e.n \notin blank[t]
            /\ \A m \in Taken(t) + 1 .. e.n - 1 : m \in blank[t]
            /\ Follow(t, e.n, Tail(queue), sent[t], blank[t])
        BY <1>1, <1>6, <3>1, FollowTail
      <3>3. Showing(t)' /\ Taken(t)' = e.n
        BY <1>10, <2>1, <2>2, <2>5 DEF Taken, Showing, Closing, Busy
      <3> QED
        BY <1>1, <1>2, <1>4, <1>5, <2>1, <3>2, <3>3 DEF Ordered
    <2> QED
      BY <2>1, <2>3, <2>4, <2>5
  <1> QED
    BY <1>0, <1>8, <1>9, <1>10, TakeEffect

\* Refusing an invalid message
LEMMA RefuseOrder ==
    ASSUME BaseInv, RefuseInvalid, NEW t \in Task, Ordered(t)
    PROVE  Ordered(t)'
  <1> DEFINE q == Tail(queue)
  <1>0. TypeOK
    BY DEF BaseInv
  <1>1. /\ loop = Idle /\ queue \in Seq(Event) /\ queue # << >> /\ q \in Seq(Event)
        /\ NextEvent \in Event /\ NextEvent = Head(queue) /\ NextEvent.kind = "invalid"
        /\ queue' = q \/ queue' = Append(q, NextEvent)
    BY <1>0, RefuseType
  <1>2. UNCHANGED <<loop, contexts, told, sent, blank>>
    BY DEF RefuseInvalid, agentVars, taskVars
  <1>3. /\ ~Showing(t) /\ ~Showing(t)' /\ (Closing(t)' <=> Closing(t)) /\ Taken(t)' = Taken(t)
        /\ LastSeen(t) = Taken(t) /\ Shown(t)' /\ LastSeen(t)' = LastSeen(t)
    BY <1>1, <1>2, SameShown, SameSeen DEF Showing, Closing, Busy, Taken, SeenSame, Ordered
  <1>4. ASSUME t \in contexts, ~Closing(t)
        PROVE  Follow(t, Taken(t), queue', sent[t], blank[t])
    <2>1. /\ Follow(t, Taken(t), queue, sent[t], blank[t])
          /\ Taken(t) \in Nat /\ sent[t] \in Nat /\ Taken(t) <= sent[t]
          /\ blank[t] \in SUBSET (1 .. sent[t])
      BY <1>0, <1>3, <1>4, TakenType DEF Ordered, Shown
    <2>2. ~Numbered(NextEvent, t)
      BY <1>1 DEF Numbered
    <2>3. Follow(t, Taken(t), q, sent[t], blank[t])
      BY <1>1, <2>1, <2>2, FollowTail
    <2>4. Follow(t, Taken(t), Append(q, NextEvent), sent[t], blank[t])
      BY <1>1, <2>1, <2>2, <2>3, FollowAppend
    <2> QED
      BY <1>1, <2>3, <2>4
  <1> QED
    BY <1>2, <1>3, <1>4 DEF Ordered

\* The steps of the event in progress: only the update that comes next is shown.
LEMMA HandlingOrder ==
    ASSUME BaseInv, TypeOK', HandlingStep, NEW t \in Task, t \notin unreported, Ordered(t)
    PROVE  Ordered(t)'
  <1>0. TypeOK
    BY DEF BaseInv
  <1>1. /\ loop # Idle
        /\ loop.failing => loop.at \in Reporting
        /\ loop.at = "resting" => loop.event.task \in unreported
        /\ \/ loop.failing \/ loop.event.kind \notin {"update", "empty"}
           \/ loop.at \in {"resolve", "update"}
    BY <1>0, HandlingEffect DEF BaseInv, LoopInv
  <1>2. sent' = sent /\ blank' = blank
    BY DEF HandlingStep, Resolved, Flushed, Updated, Signalled, Completed, HandlingRaises,
           Refuse, agentVars
  <1>3. CASE t # loop.event.task
    <2>1. ~Busy(t) /\ ~Busy(t)' /\ SeenSame(t)
      BY <1>0, <1>3, HandlingEffect DEF Busy
    <2>2. /\ ~Closing(t) /\ ~Closing(t)' /\ ~Showing(t) /\ ~Showing(t)'
          /\ Taken(t)' = Taken(t) /\ Taken(t) = LastSeen(t) /\ Shown(t)'
      BY <1>2, <2>1, SameSeen, SameShown DEF Closing, Showing, Taken, Ordered
    <2>3. t \in contexts' <=> t \in contexts
      BY <1>0, <1>3, HandlingEffect
    <2>4. t \in contexts => Follow(t, Taken(t), queue', sent[t], blank[t])
      <3> SUFFICES ASSUME t \in contexts
                   PROVE  Follow(t, Taken(t), queue', sent[t], blank[t])
        OBVIOUS
      <3>1. /\ Taken(t) <= sent[t] /\ Follow(t, Taken(t), queue, sent[t], blank[t])
            /\ Taken(t) \in Nat /\ sent[t] \in Nat /\ blank[t] \in SUBSET (1 .. sent[t])
        BY <1>0, <2>2, TakenType DEF Ordered, Shown
      <3>2. queue \in Seq(Event) /\ loop.event \in Event
        BY <1>0, <1>1, StagesOfKind DEF TypeOK
      <3>3. ~Numbered(loop.event, t)
        BY <1>3 DEF Numbered
      <3>4. Follow(t, Taken(t), Append(queue, loop.event), sent[t], blank[t])
        BY <3>1, <3>2, <3>3, FollowAppend
      <3> QED
        BY <1>0, <3>1, <3>4, HandlingEffect
    <2> QED
      BY <1>2, <2>2, <2>3, <2>4 DEF Ordered
  <1>4. CASE t = loop.event.task
    <2>1. ASSUME SeenSame(t), Closing(t)' \/ (t \notin contexts' /\ ~Busy(t)')
          PROVE  Ordered(t)'
      <3>1. Shown(t)'
        BY <1>2, <2>1, SameShown DEF Ordered
      <3>2. ~Showing(t)'
        BY <2>1 DEF Showing
      <3> QED
        BY <2>1, <3>1, <3>2 DEF Ordered
    <2>2. Busy(t) /\ (~Closing(t) <=> ~loop.failing /\ loop.event.kind \in {"update", "empty"})
      BY <1>1, <1>4 DEF Busy, Closing
    <2>3. CASE Resolved
      <3>1. queue' = queue /\ contexts' = contexts
        BY <2>3 DEF Resolved
      <3>2. /\ loop.at = "resolve" /\ loop.event.kind \in {"update", "empty", "task"}
            /\ ~loop.failing
        BY <1>0, <1>1, <2>3, ResolvedEffect DEF Reporting
      <3>3. CASE loop.event.kind = "update"
        <4>1. /\ loop' # Idle /\ loop'.event = loop.event /\ loop'.failing = loop.failing
              /\ loop'.at = "update"
              /\ told'[t]["update"] = Append(told[t]["update"], loop.event.n)
          BY <1>0, <1>4, <2>3, <3>3, ResolvedEffect
        <4>2. Showing(t) /\ Showing(t)' /\ ~Closing(t) /\ ~Closing(t)'
          BY <1>4, <2>2, <3>2, <3>3, <4>1 DEF Showing, Closing, Busy
        <4>3. loop.event.n \in Nat
          BY <1>0, <4>2, TakenType DEF Taken
        <4>4. /\ loop.event.n <= sent[t] /\ Shown(t)
              /\ LastSeen(t) < loop.event.n /\ loop.event.n \notin blank[t]
              /\ \A m \in LastSeen(t) + 1 .. loop.event.n - 1 : m \in blank[t]
          BY <3>2, <4>2 DEF Ordered
        <4>5. Shown(t)' /\ LastSeen(t)' = loop.event.n
          BY <1>0, <1>2, <4>1, <4>3, <4>4, ShowNext
        <4>6. Taken(t) = loop.event.n /\ Taken(t)' = loop.event.n
          BY <4>1, <4>2 DEF Taken
        <4> QED
          BY <1>2, <3>1, <4>1, <4>2, <4>4, <4>5, <4>6 DEF Ordered
      <3>4. CASE loop.event.kind = "task"
        <4>1. /\ loop' # Idle /\ loop'.event = loop.event /\ SeenSame(t)
          BY <1>0, <1>4, <2>3, <3>4, ResolvedEffect
        <4>2. Closing(t)'
          BY <1>4, <3>4, <4>1 DEF Closing, Busy
        <4> QED
          BY <2>1, <4>1, <4>2
      <3>5. CASE loop.event.kind = "empty"
        <4>1. loop' = Idle /\ SeenSame(t)
          BY <1>0, <1>4, <2>3, <3>5, ResolvedEffect
        <4>2. /\ ~Showing(t) /\ ~Showing(t)' /\ ~Closing(t) /\ ~Closing(t)'
          BY <2>2, <3>2, <3>5, <4>1 DEF Showing, Closing, Busy
        <4>3. Taken(t)' = Taken(t) /\ Shown(t)'
          BY <1>2, <4>1, <4>2, SameSeen, SameShown DEF Taken, Ordered
        <4> QED
          BY <1>2, <3>1, <4>2, <4>3 DEF Ordered
      <3> QED
        BY <3>2, <3>3, <3>4, <3>5
    <2>4. CASE Flushed
      <3>1. SeenSame(t) /\ Closing(t)'
        BY <1>0, <1>4, <2>4, FlushedEffect DEF Closing, Busy
      <3> QED
        BY <2>1, <3>1
    <2>5. CASE Updated
      <3>1. /\ loop.at = "update" /\ loop' = Idle
            /\ queue' = queue /\ contexts' = contexts /\ told' = told
        BY <2>5 DEF Updated, Awaits, taskVars
      <3>2. ~Busy(t)' /\ ~Closing(t)' /\ ~Showing(t)' /\ SeenSame(t)
        BY <3>1 DEF Busy, Closing, Showing, SeenSame
      <3>3. Showing(t) /\ ~Closing(t)
        BY <1>0, <1>1, <2>2, <3>1, StagesOfKind DEF Reporting, Showing
      <3>4. Shown(t)' /\ LastSeen(t)' = LastSeen(t)
        BY <1>2, <3>2, SameSeen, SameShown DEF Ordered
      <3>5. Taken(t)' = Taken(t)
        BY <3>1, <3>2, <3>3, <3>4 DEF Taken, Ordered
      <3> QED
        BY <1>2, <3>1, <3>2, <3>3, <3>4, <3>5 DEF Ordered
    <2>6. CASE Signalled
      <3>1. Closing(t)
        BY <1>0, <1>1, <2>2, <2>6, SignalledEffect
      <3>2. SeenSame(t) /\ Closing(t)'
        BY <1>0, <1>4, <2>6, <3>1, SignalledEffect DEF Closing, Busy
      <3> QED
        BY <2>1, <3>2
    <2>7. CASE Completed
      <3>1. loop' = Idle /\ t \notin contexts' /\ told' = told
        BY <1>4, <2>7 DEF Completed, Forget
      <3> QED
        BY <2>1, <3>1 DEF Busy, SeenSame
    <2>8. CASE HandlingRaises
      <3>1. SeenSame(t) /\ Closing(t)'
        BY <1>0, <1>4, <2>8, RaisesEffect DEF Closing, Busy
      <3> QED
        BY <2>1, <3>1
    <2>9. CASE Refuse
      BY <1>1, <1>4, <2>9 DEF Refuse, Awaits
    <2> QED
      BY <2>3, <2>4, <2>5, <2>6, <2>7, <2>8, <2>9 DEF HandlingStep
  <1> QED
    BY <1>3, <1>4

\* What an agent sends keeps the order of the updates of each task.
LEMMA SendOrder ==
    ASSUME BaseInv, NEW u \in Task, AgentSends(u), NEW t \in Task, Ordered(t)
    PROVE  Ordered(t)'
  <1>0. TypeOK
    BY DEF BaseInv
  <1>1. UNCHANGED <<loop, told, contexts>>
    BY DEF AgentSends, taskVars
  <1>2. /\ Busy(t)' = Busy(t) /\ Closing(t)' = Closing(t) /\ Showing(t)' = Showing(t)
        /\ LastSeen(t)' = LastSeen(t) /\ Seen(t)' = Seen(t) /\ Taken(t)' = Taken(t)
    BY <1>1, SameSeen DEF Busy, Closing, Showing, Taken, SeenSame
  <1>3. /\ Taken(t) \in Nat /\ sent[t] \in Nat /\ LastSeen(t) \in Nat /\ queue \in Seq(Event)
        /\ Taken(t) <= sent[t] /\ LastSeen(t) <= sent[t] /\ blank[t] \subseteq 1 .. sent[t]
    BY <1>0, TakenType DEF TypeOK, Taken, Ordered, Shown
  <1>4. CASE sent'[t] = sent[t] /\ blank'[t] = blank[t]
    <2>1. \E e \in Event : ~Numbered(e, t) /\ queue' = Append(queue, e)
      <3>1. CASE u # t
        BY <1>0, <3>1, SendsEvent DEF Numbered
      <3>2. CASE u = t
        <4>1. PICK k \in Final \cup {"invalid"} :
                 queue' = Append(queue, [task |-> t, kind |-> k, n |-> 0])
          <5>1. sent'[t] # sent[t] + 1
            BY <1>3, <1>4
          <5> QED
            BY <1>0, <3>2, <5>1, AgentSendsType
        <4>2. 0 \in 0 .. MaxUpdates
          BY BoundAssumption
        <4>3. /\ [task |-> t, kind |-> k, n |-> 0] \in Event
              /\ ~Numbered([task |-> t, kind |-> k, n |-> 0], t)
          BY <4>2 DEF Event, Kind, Blank, Numbered, Final
        <4> QED
          BY <4>1, <4>3
      <3> QED
        BY <3>1, <3>2
    <2>2. Shown(t)'
      BY <1>1, <1>4, SameShown DEF Ordered, SeenSame
    <2>3. t \in contexts /\ ~Closing(t) => Follow(t, Taken(t), queue', sent[t], blank[t])
      <3> SUFFICES ASSUME t \in contexts, ~Closing(t)
                   PROVE  Follow(t, Taken(t), queue', sent[t], blank[t])
        OBVIOUS
      <3>1. Follow(t, Taken(t), queue, sent[t], blank[t])
        BY DEF Ordered
      <3>2. PICK e \in Event : ~Numbered(e, t) /\ queue' = Append(queue, e)
        BY <2>1
      <3>3. blank[t] \in SUBSET (1 .. sent[t])
        BY <1>3
      <3>4. Follow(t, Taken(t), Append(queue, e), sent[t], blank[t])
        BY <1>3, <3>1, <3>2, <3>3, FollowAppend
      <3> QED
        BY <3>2, <3>4
    <2> QED
      BY <1>1, <1>2, <1>4, <2>2, <2>3 DEF Ordered
  <1>5. CASE u = t /\ sent'[t] = sent[t] + 1
    <2>1. PICK k \in Kind \ Final :
             /\ queue' = Append(queue, [task |-> t, kind |-> k, n |-> sent[t] + 1])
             /\ blank'[t] = blank[t] \cup IF k \in Blank THEN {sent[t] + 1} ELSE {}
      <3>1. sent' # sent
        BY <1>3, <1>5
      <3> QED
        BY <1>0, <1>5, <3>1, AgentSendsType
    <2> DEFINE e == [task |-> t, kind |-> k, n |-> sent[t] + 1]
    <2>2. e \in Event
      <3>1. sent'[t] \in 0 .. MaxUpdates
        BY <1>0, <1>5, AgentSendsType
      <3> QED
        BY <1>5, <3>1 DEF Event
    <2>3. Numbered(e, t) <=> k \notin Blank
      BY DEF Numbered, Kind, Blank, Final
    <2>4. t \in contexts /\ ~Closing(t) => Follow(t, Taken(t), queue', sent'[t], blank'[t])
      <3> SUFFICES ASSUME t \in contexts, ~Closing(t)
                   PROVE  Follow(t, Taken(t), queue', sent'[t], blank'[t])
        OBVIOUS
      <3>1. Follow(t, Taken(t), queue, sent[t], blank[t])
        BY DEF Ordered
      <3>2. e.n = sent[t] + 1 /\ queue' = Append(queue, e)
        BY <2>1
      <3> HIDE DEF e
      <3>3. /\ ~Numbered(e, t) =>
                  Follow(t, Taken(t), Append(queue, e), sent[t] + 1, blank[t] \cup {sent[t] + 1})
            /\ Numbered(e, t) => Follow(t, Taken(t), Append(queue, e), sent[t] + 1, blank[t])
        <4>1. blank[t] \in SUBSET (1 .. sent[t])
          BY <1>3
        <4> QED
          BY <1>3, <2>2, <3>1, <3>2, <4>1, FollowAppend
      <3> QED
        BY <1>5, <2>1, <2>3, <3>2, <3>3
    <2>5. (1 .. LastSeen(t)) \ blank'[t] = (1 .. LastSeen(t)) \ blank[t]
      BY <1>3, <2>1
    <2>6. LastSeen(t) <= sent'[t] /\ blank'[t] \subseteq 1 .. sent'[t]
      BY <1>3, <1>5, <2>1
    <2>7. Shown(t)'
      BY <1>1, <1>2, <2>5, <2>6 DEF Ordered, Shown
    <2>8. Showing(t) => loop.event.n \in Nat
      BY <1>3 DEF Taken
    <2>9. Showing(t) /\ loop.event.n <= sent[t] =>
             loop.event.n <= sent'[t] /\ (loop.event.n \in blank'[t] <=> loop.event.n \in blank[t])
      BY <1>3, <1>5, <2>1, <2>8
    <2>10. blank[t] \subseteq blank'[t]
      BY <2>1
    <2> QED
      BY <1>1, <1>2, <2>4, <2>7, <2>9, <2>10 DEF Ordered
  <1> QED
    BY <1>0, <1>4, <1>5, AgentSendsType

\* The steps of one task keep the order of the updates of each.
LEMMA TaskStepOrder ==
    ASSUME BaseInv, NEW u \in Task, TaskStep(u), NEW t \in Task, Ordered(t)
    PROVE  Ordered(t)'
  <1>1. CASE AgentSends(u)
    BY <1>1, SendOrder
  <1>2. CASE ~AgentSends(u)
    <2>1. loop' = loop /\ SeenSame(t) /\ queue' = queue /\ sent' = sent
      BY <1>2, TaskEffect
    <2>2. blank' = blank
      BY <1>2 DEF TaskStep, TimeoutStep, Fire, ProcessTimer, BeginTimeout, TimeoutReported,
                  EndTimeout, Submit, SubmitRaises, agentVars
    <2>3. /\ Busy(t)' = Busy(t) /\ Closing(t)' = Closing(t) /\ Showing(t)' = Showing(t)
          /\ LastSeen(t)' = LastSeen(t) /\ Taken(t)' = Taken(t) /\ Shown(t)'
      BY <2>1, <2>2, SameSeen, SameShown DEF Busy, Closing, Showing, Taken, Ordered
    <2>4. ASSUME t \in contexts', ~Closing(t)
          PROVE  Follow(t, Taken(t), queue, sent[t], blank[t])
      <3>1. CASE t \in contexts
        BY <2>4, <3>1 DEF Ordered
      <3>2. CASE t \notin contexts
        <4>1. u = t /\ request[t] = "new"
          BY <2>4, <3>2, TaskEffect DEF Submit, SubmitRaises
        <4>2. /\ sent[t] = 0 /\ ~Busy(t) /\ told[t]["update"] = << >>
              /\ \A i \in DOMAIN queue : queue[i].task # t
          BY <4>1 DEF BaseInv, NewTask
        <4>3. Taken(t) = 0
          BY <4>2 DEF Taken, Showing, LastSeen
        <4>4. Follow(t, 0, queue, 0, blank[t])
          BY <4>2 DEF Follow, Numbered
        <4> QED
          BY <4>2, <4>3, <4>4
      <3> QED
        BY <3>1, <3>2
    <2> QED
      BY <2>1, <2>2, <2>3, <2>4 DEF Ordered
  <1> QED
    BY <1>1, <1>2

\* Every step keeps the order of the updates.
LEMMA OrderNext == OrderInv /\ [Next]_vars => OrderInv'
  <1> SUFFICES ASSUME OrderInv, [Next]_vars
               PROVE  OrderInv'
    OBVIOUS
  <1>1. BaseInv /\ BaseInv' /\ TypeOK /\ TypeOK'
    BY BaseNext DEF OrderInv, BaseInv
  <1>2. CASE RefuseInvalid
    BY <1>1, <1>2, RefuseOrder DEF OrderInv, RefuseInvalid, history
  <1>3. CASE Take
    BY <1>1, <1>3, TakeOrder DEF OrderInv, Take
  <1>4. CASE HandlingStep
    BY <1>1, <1>4, HandlingEffect, HandlingOrder DEF OrderInv
  <1>5. ASSUME NEW u \in Task, TaskStep(u)
        PROVE  OrderInv'
    <2>1. unreported' = unreported
      BY <1>1, <1>5, TaskEffect
    <2> QED
      BY <1>1, <1>5, <2>1, TaskStepOrder DEF OrderInv
  <1>6. CASE UNCHANGED vars
    BY <1>1, <1>6 DEF OrderInv, Ordered, Shown, Seen, LastSeen, Taken, Showing, Closing, Busy,
                      vars, agentVars, taskVars, timerVars, history
  <1> QED
    BY <1>2, <1>3, <1>4, <1>5, <1>6 DEF Next, ProcessorStep, HandlingStep, TaskStep

\* No update was seen at first.
LEMMA OrderInit == Init => OrderInv
  <1> SUFFICES ASSUME Init PROVE OrderInv
    OBVIOUS
  <1>1. "update" \in Call
    BY DEF Call
  <1>2. ASSUME NEW t \in Task
        PROVE  Ordered(t)
    <2>1. /\ told[t]["update"] = << >> /\ LastSeen(t) = 0 /\ sent[t] = 0 /\ blank[t] = {}
          /\ ~Busy(t) /\ t \notin contexts
      BY <1>1 DEF Init, LastSeen, Busy
    <2>2. Seen(t) = {}
      BY <2>1 DEF Seen
    <2> QED
      BY <2>1, <2>2 DEF Ordered, Shown, Showing
  <1> QED
    BY <1>2, BaseInit DEF OrderInv

\* The adapter sees the updates of a task in the order of its agent and each once, and
\* misses only the empty and the invalid ones, whatever is interleaved with them and
\* however the task ends; only a message of it that was refused after its handling
\* failed may come back late.
THEOREM UpdatesSeenInOrder == Spec => []UpdatesInOrder
  <1>1. OrderInv => UpdatesInOrder
    BY DEF OrderInv, Ordered, Shown, Seen, UpdatesInOrder
  <1> QED
    BY <1>1, OrderInit, OrderNext, PTL DEF Spec

-----------------------------------------------------------------------------
(* One completion.                                                         *)

\* A timer event waits for the component before its timeout begins.
FiredInv == \A t \in fired : timeout[t] = "none"

\* The completion of t was signalled and the call has not returned.
Completing(t) == (Busy(t) /\ loop.at = "complete") \/ timeout[t] = "complete"

\* The end of t is in one place at a time: a task with a context was not completed,
\* or is being completed; without one it is not being handled at all.
Ended(t) ==
    /\ ~(Busy(t) /\ TimingOut(t))
    /\ Busy(t) \/ TimingOut(t) => t \in contexts
    /\ Len(told[t]["complete"]) <= 1
    /\ Completing(t) => Len(told[t]["complete"]) = 1
    /\ t \in contexts /\ ~Completing(t) => Len(told[t]["complete"]) = 0

EndInv == BaseInv /\ FiredInv /\ \A t \in Task \ (raced \cup unreported) : Ended(t)

\* The completions that the adapter was told of.
LEMMA EndsType ==
    ASSUME TypeOK, NEW t \in Task
    PROVE  /\ told[t]["complete"] \in Seq(0 .. MaxUpdates) /\ Len(told[t]["complete"]) \in Nat
           /\ Len(Append(told[t]["complete"], 0)) = Len(told[t]["complete"]) + 1
  <1>1. "complete" \in Call /\ 0 \in 0 .. MaxUpdates
    BY BoundAssumption DEF Call
  <1>2. told[t]["complete"] \in Seq(0 .. MaxUpdates)
    BY <1>1 DEF TypeOK
  <1> QED
    BY <1>1, <1>2, LenProperties, AppendProperties

\* A task whose timer event waits to be handled is not being timed out yet.
LEMMA FiredNext ==
    ASSUME BaseInv, FiredInv, [Next]_vars
    PROVE  FiredInv'
  <1>0. timeout \in [Task -> {"none", "due", "error", "complete"}] /\ fired \subseteq Task
    BY DEF BaseInv, TypeOK
  <1>1. CASE ProcessorStep
    <2>1. fired' \subseteq fired /\ timeout' = timeout
      BY <1>1, HandlingEffect
         DEF BaseInv, ProcessorStep, HandlingStep, RefuseInvalid, Take, timerVars
    <2> QED
      BY <2>1 DEF FiredInv
  <1>2. ASSUME NEW u \in Task, TaskStep(u)
        PROVE  FiredInv'
    <2>1. \A t \in Task : t # u =>
             timeout'[t] = timeout[t] /\ (t \in fired' <=> t \in fired)
      BY <1>2, TaskEffect
    <2>2. fired' \subseteq Task
      BY <1>2, TaskStepType DEF BaseInv, TypeOK
    <2>3. u \in fired' => timeout'[u] = "none"
      <3>1. CASE Fire(u) \/ Submit(u) \/ SubmitRaises(u) \/ AgentSends(u)
        BY <3>1 DEF Fire, Submit, StartTimer, SubmitRaises, AgentSends, timerVars, FiredInv
      <3>2. CASE ProcessTimer(u)
        BY <3>2 DEF ProcessTimer
      <3>3. CASE BeginTimeout(u) \/ TimeoutReported(u) \/ EndTimeout(u)
        <4>1. timeout[u] # "none" /\ fired' = fired
          BY <3>3 DEF BeginTimeout, TimeoutReported, EndTimeout, TimingOut, timerVars
        <4> QED
          BY <4>1 DEF FiredInv
      <3> QED
        BY <1>2, <3>1, <3>2, <3>3 DEF TaskStep, TimeoutStep
    <2> QED
      BY <2>1, <2>2, <2>3 DEF FiredInv
  <1>3. CASE UNCHANGED vars
    BY <1>3 DEF FiredInv, vars, timerVars
  <1> QED
    BY <1>1, <1>2, <1>3 DEF Next, TaskStep

\* Taking an event keeps that a task is completed at most once.
LEMMA TakeEnd ==
    ASSUME BaseInv, Take, NEW t \in Task, t \notin raced', Ended(t)
    PROVE  Ended(t)'
  <1> DEFINE e == NextEvent
  <1>0. TypeOK
    BY DEF BaseInv
  <1>1. /\ loop = Idle /\ e \in Event /\ e.task \in Task
        /\ contexts' = contexts /\ timeout' = timeout
    BY <1>0, TakeEffect DEF Event, Take, taskVars
  <1>2. EndsSame(t)
    <2>1. "error" \in Call /\ 0 \in 0 .. MaxUpdates
      BY BoundAssumption DEF Call, Final
    <2>2. told' = told \/ Tell(e.task, "error", 0)
      BY <1>0, TakeEffect DEF Dropped, ReportsAtOnce, Resolves
    <2> QED
      BY <1>0, <1>1, <2>1, <2>2, TellEffect DEF EndsSame
  <1>3. \/ loop' = Idle
        \/ /\ loop'.event = e /\ loop'.at \in {"error", "resolve"}
           /\ e.task \in contexts /\ (TimingOut(e.task) => e.task \in raced')
    BY <1>0, <1>1, TakeEffect DEF Dropped, Accepted, ReportsAtOnce, Resolves
  <1>4. ~Busy(t)
    BY <1>1 DEF Busy
  <1>5. TimingOut(t)' <=> TimingOut(t)
    BY <1>1 DEF TimingOut
  <1>6. Busy(t)' => t \in contexts /\ ~TimingOut(t)
    BY <1>3 DEF Busy
  <1>7. Completing(t)' <=> Completing(t)
    BY <1>1, <1>3, <1>4 DEF Completing, Busy
  <1> QED
    BY <1>1, <1>2, <1>4, <1>5, <1>6, <1>7 DEF Ended, EndsSame

\* So does the handling of an event.
LEMMA HandlingEnd ==
    ASSUME BaseInv, HandlingStep, NEW t \in Task, t \notin unreported', Ended(t)
    PROVE  Ended(t)'
  <1>0. TypeOK
    BY DEF BaseInv
  <1>1. /\ loop # Idle /\ timeout' = timeout /\ t \notin unreported
        /\ loop.at = "resting" => loop.event.task \in unreported
    BY <1>0, HandlingEffect DEF BaseInv, LoopInv
  <1>2. TimingOut(t)' <=> TimingOut(t)
    BY <1>1 DEF TimingOut
  <1>3. CASE t # loop.event.task
    <2>1. ~Busy(t) /\ ~Busy(t)' /\ EndsSame(t) /\ (t \in contexts' <=> t \in contexts)
      BY <1>0, <1>3, HandlingEffect DEF Busy
    <2> QED
      BY <1>1, <1>2, <2>1 DEF Ended, EndsSame, Completing
  <1>4. CASE t = loop.event.task
    <2>1. Busy(t) /\ ~TimingOut(t) /\ t \in contexts /\ timeout[t] # "complete"
      BY <1>1, <1>4 DEF Busy, Ended, TimingOut
    <2>2. ASSUME contexts' = contexts, EndsSame(t), loop.at # "complete", loop'.at # "complete"
          PROVE  Ended(t)'
      BY <1>1, <1>2, <2>1, <2>2 DEF Ended, EndsSame, Completing
    <2>3. CASE Resolved
      <3>1. /\ contexts' = contexts /\ EndsSame(t) /\ loop.at = "resolve"
            /\ loop' = Idle \/ loop'.at \in {"update", "flush", "task"}
        BY <1>0, <2>3, ResolvedEffect DEF Resolved
      <3>2. loop'.at # "complete"
        BY <3>1 DEF Idle
      <3> QED
        BY <2>2, <3>1, <3>2
    <2>4. CASE Flushed
      BY <1>0, <2>2, <2>4, FlushedEffect DEF Flushed
    <2>5. CASE Updated
      <3>1. /\ contexts' = contexts /\ told' = told /\ loop.at = "update" /\ loop'.at = "idle"
        BY <2>5 DEF Updated, Awaits, Idle, taskVars
      <3> QED
        BY <2>2, <3>1 DEF EndsSame
    <2>6. CASE Signalled
      <3>1. /\ contexts' = contexts /\ loop.at # "complete" /\ loop'.at = "complete"
            /\ told'[t]["complete"] = Append(told[t]["complete"], 0)
            /\ loop' # Idle /\ loop'.event = loop.event
        BY <1>0, <1>4, <2>6, SignalledEffect DEF Signalled, taskVars
      <3>2. Len(told[t]["complete"]) = 0
        BY <2>1, <3>1 DEF Ended, Completing
      <3>3. Len(told'[t]["complete"]) = 1
        BY <1>0, <3>1, <3>2, EndsType
      <3>4. Busy(t)' /\ Completing(t)'
        BY <1>4, <3>1 DEF Busy, Completing
      <3> QED
        BY <1>2, <2>1, <3>1, <3>3, <3>4 DEF Ended
    <2>7. CASE Completed
      <3>1. loop' = Idle /\ loop.at = "complete" /\ t \notin contexts' /\ told' = told
        BY <1>4, <2>7 DEF Completed, Awaits, Forget
      <3> QED
        BY <1>1, <1>2, <2>1, <3>1 DEF Ended, Completing, Busy
    <2>8. CASE HandlingRaises
      <3>1. /\ ~loop.failing /\ loop.at # "complete" /\ loop'.at = "error" /\ EndsSame(t)
        BY <1>0, <1>4, <2>8, RaisesEffect
      <3>2. contexts' = contexts
        BY <2>8 DEF HandlingRaises, taskVars
      <3> QED
        BY <2>2, <3>1, <3>2
    <2>9. CASE Refuse
      BY <1>1, <1>4, <2>9 DEF Refuse, Awaits
    <2> QED
      BY <2>3, <2>4, <2>5, <2>6, <2>7, <2>8, <2>9 DEF HandlingStep
  <1> QED
    BY <1>3, <1>4

\* So do the steps of one task, unless its timeout meets its event.
LEMMA TaskStepEnd ==
    ASSUME BaseInv, FiredInv, NEW u \in Task, TaskStep(u),
           NEW t \in Task, t \notin raced', t \notin unreported, Ended(t)
    PROVE  Ended(t)'
  <1>0. /\ TypeOK /\ 0 \in 0 .. MaxUpdates
        /\ timeout \in [Task -> {"none", "due", "error", "complete"}]
        /\ "error" \in Call /\ "complete" \in Call
    <2>1. 0 \in 0 .. MaxUpdates
      BY BoundAssumption
    <2> QED
      BY <2>1 DEF BaseInv, TypeOK, Call, Final
  <1>1. loop' = loop /\ (Busy(t)' <=> Busy(t))
    BY TaskEffect DEF Busy
  <1>2. ASSUME EndsSame(t), timeout'[t] = timeout[t], t \in contexts' <=> t \in contexts
        PROVE  Ended(t)'
    BY <1>1, <1>2 DEF Ended, EndsSame, Completing, TimingOut
  <1>3. CASE u # t
    BY <1>2, <1>3, TaskEffect
  <1>4. CASE u = t
    <2>1. CASE Fire(t) \/ AgentSends(t)
      BY <1>2, <2>1 DEF Fire, AgentSends, EndsSame, taskVars
    <2>2. CASE ProcessTimer(t)
      <3>1. timeout[t] = "none" /\ timeout'[t] \in {"none", "due"}
        BY <1>0, <2>2 DEF ProcessTimer, FiredInv
      <3>2. contexts' = contexts /\ told' = told
        BY <2>2 DEF ProcessTimer, taskVars
      <3> QED
        BY <1>1, <3>1, <3>2 DEF Ended, Completing, TimingOut
    <2>3. CASE BeginTimeout(t)
      <3>1. told' = told \/ Tell(t, "error", 0)
        BY <2>3 DEF BeginTimeout
      <3>2. EndsSame(t) /\ contexts' = contexts
        BY <1>0, <2>3, <3>1, TellEffect DEF EndsSame, BeginTimeout, taskVars
      <3>3. timeout[t] = "due" /\ timeout'[t] = IF t \in contexts THEN "error" ELSE "none"
        BY <1>0, <2>3 DEF BeginTimeout
      <3>4. t \in contexts => ~Busy(t)
        <4> SUFFICES ASSUME t \in contexts, Busy(t) PROVE FALSE
          OBVIOUS
        <4>1. loop \in Handling /\ loop.at # "idle" /\ loop.event.task = t
          BY <1>0, StagesOfKind DEF Busy
        <4>2. raced' = raced \cup {t}
          BY <2>3, <4>1 DEF BeginTimeout
        <4> QED
          BY <4>2
      <3> QED
        BY <1>1, <3>2, <3>3, <3>4 DEF Ended, EndsSame, Completing, TimingOut
    <2>4. CASE TimeoutReported(t)
      <3>1. /\ timeout[t] = "error" /\ timeout'[t] = "complete" /\ contexts' = contexts
            /\ Tell(t, "complete", 0)
        BY <1>0, <2>4 DEF TimeoutReported, taskVars
      <3>2. told'[t]["complete"] = Append(told[t]["complete"], 0)
        BY <1>0, <3>1, TellEffect
      <3>3. ~Busy(t) /\ t \in contexts /\ Len(told[t]["complete"]) = 0
        BY <3>1 DEF Ended, TimingOut, Completing
      <3>4. Len(told'[t]["complete"]) = 1
        BY <1>0, <3>2, <3>3, EndsType
      <3> QED
        BY <1>1, <3>1, <3>3, <3>4 DEF Ended, Completing
    <2>5. CASE EndTimeout(t)
      <3>1. /\ TimingOut(t) /\ timeout'[t] = "none" /\ t \notin contexts' /\ told' = told
        BY <1>0, <2>5 DEF EndTimeout, TimingOut, Forget
      <3> QED
        BY <1>1, <3>1 DEF Ended, Completing, TimingOut
    <2>6. CASE Submit(t) \/ SubmitRaises(t)
      <3>1. request[t] = "new" /\ told' = told /\ timeout' = timeout
        BY <2>6 DEF Submit, SubmitRaises
      <3>2. told[t]["complete"] = << >> /\ ~Busy(t) /\ timeout[t] = "none"
        BY <3>1 DEF BaseInv, NewTask
      <3>3. Len(told'[t]["complete"]) = 0
        BY <3>1, <3>2, EmptySeq
      <3> QED
        BY <1>1, <3>1, <3>2, <3>3 DEF Ended, Completing, TimingOut
    <2> QED
      BY <1>4, <2>1, <2>2, <2>3, <2>4, <2>5, <2>6 DEF TaskStep, TimeoutStep
  <1> QED
    BY <1>3, <1>4

\* Every step keeps that a task is completed at most once.
LEMMA EndNext == EndInv /\ [Next]_vars => EndInv'
  <1> SUFFICES ASSUME EndInv, [Next]_vars
               PROVE  EndInv'
    OBVIOUS
  <1>1. BaseInv /\ BaseInv' /\ TypeOK /\ FiredInv /\ FiredInv'
    BY BaseNext, FiredNext DEF EndInv, BaseInv
  <1>2. raced \subseteq raced' /\ unreported \subseteq unreported'
    <2>1. CASE RefuseInvalid \/ Take
      BY <2>1 DEF RefuseInvalid, Take, history
    <2>2. CASE HandlingStep
      BY <1>1, <2>2, HandlingEffect
    <2>3. ASSUME NEW u \in Task, TaskStep(u)
          PROVE  raced \subseteq raced' /\ unreported' = unreported
      <3>1. unreported' = unreported
        BY <1>1, <2>3, TaskEffect
      <3>2. raced \subseteq raced'
        BY <2>3 DEF TaskStep, TimeoutStep, Fire, ProcessTimer, BeginTimeout, TimeoutReported,
                    EndTimeout, Submit, SubmitRaises, AgentSends, history
      <3> QED
        BY <3>1, <3>2
    <2>4. CASE UNCHANGED vars
      BY <2>4 DEF vars, history
    <2> QED
      BY <2>1, <2>2, <2>3, <2>4 DEF Next, ProcessorStep, HandlingStep, TaskStep
  <1>3. CASE ProcessorStep
    <2>1. CASE RefuseInvalid
      BY <1>1, <2>1 DEF EndInv, RefuseInvalid, Ended, Completing, TimingOut, Busy, taskVars,
                        history
    <2>2. CASE Take \/ HandlingStep
      BY <1>1, <1>2, <2>2, TakeEnd, HandlingEnd DEF EndInv
    <2> QED
      BY <1>3, <2>1, <2>2 DEF ProcessorStep, HandlingStep
  <1>4. ASSUME NEW u \in Task, TaskStep(u)
        PROVE  EndInv'
    BY <1>1, <1>2, <1>4, TaskStepEnd DEF EndInv
  <1>5. CASE UNCHANGED vars
    BY <1>1, <1>5 DEF EndInv, Ended, Completing, TimingOut, Busy, vars, taskVars, history
  <1> QED
    BY <1>3, <1>4, <1>5 DEF Next, TaskStep

\* No task is completed at first.
LEMMA EndInit == Init => EndInv
  <1> SUFFICES ASSUME Init PROVE EndInv
    OBVIOUS
  <1>1. \A t \in Task : told[t]["complete"] = << >> /\ timeout[t] = "none" /\ ~Busy(t)
    BY DEF Init, Busy, Call
  <1>2. Len(<< >>) = 0
    BY EmptySeq
  <1>3. \A t \in Task : Ended(t)
    <2> SUFFICES ASSUME NEW t \in Task PROVE Ended(t)
      OBVIOUS
    <2>1. Len(told[t]["complete"]) = 0 /\ timeout[t] = "none" /\ ~Busy(t)
      BY <1>1, <1>2
    <2> QED
      BY <2>1 DEF Ended, Completing, TimingOut
  <1>4. FiredInv
    BY DEF Init, FiredInv
  <1> QED
    BY <1>3, <1>4, BaseInit DEF EndInv

\* The completion of a task is signalled once, although its final event, its timeout
\* and an error may each do it, unless the task timed out while one of its events was
\* handled or signalling its end raised.
THEOREM CompletionSignalledOnce == Spec => []CompletedOnce
  <1>1. EndInv => CompletedOnce
    BY DEF EndInv, Ended, CompletedOnce
  <1> QED
    BY <1>1, EndInit, EndNext, PTL DEF Spec
=============================================================================
