---------------------------- MODULE EventStream -----------------------------
(***************************************************************************)
(* The events of one task on their way from the web gateway to the         *)
(* browsers that follow it.                                                *)
(*                                                                         *)
(* The message loop of the gateway (a thread) emits the events one by one  *)
(* and then closes the connections.  The HTTP server (another thread) runs *)
(* one coroutine per connection.  They share the connection table and the  *)
(* backlog, each behind its own lock: an action below is a critical        *)
(* section or one operation on a connection's queue.  The copy of the      *)
(* events in the database is the subject of EventStore.                    *)
(*                                                                         *)
(*   connections, send_event, close    gateway/http_sse/sse_manager.py     *)
(*   backlog of the first client       gateway/http_sse/sse_event_buffer.py*)
(*   the stream of a client            gateway/http_sse/routers/sse.py     *)
(*   the task log                      .../services/task_logger_service.py *)
(***************************************************************************)
EXTENDS Integers, Sequences, SequencesExt

CONSTANTS
    Connection,     \* bound: the requests that subscribe to the task
    Reconnecting,   \* those that ask for a replay of missed events
    Final,          \* bound: the events are 1 .. Final, the last the response
    QueueSize,      \* sse_max_queue_size: of each queue and of the backlog
    Background      \* the task runs in the background

Event    == 1 .. Final
Sentinel == 0       \* the None that ends a stream
Item     == Event \cup {Sentinel}

ASSUME ConnectionAssumption == Reconnecting \subseteq Connection
ASSUME SizeAssumption == Final \in Nat \ {0} /\ QueueSize \in Nat \ {0}
ASSUME BackgroundAssumption == Background \in BOOLEAN

VARIABLES
    \* what the gateway knows of the task
    row,        \* the task is in the database
    registered, \* _background_task_cache: "unknown", "yes" or "no"
    logged,     \* events of the task that a reader has found in its log
    \* the message loop
    phase,      \* its next step
    sent,       \* the events it has taken up
    targets,    \* queues that the event or the sentinel still goes to
    broken,     \* queues found full by the current send
    \* SSEManager and SSEEventBuffer
    backlog,    \* _pending_events
    expired,    \* history: events that left the backlog for their age before
                \* a client came
    prior,      \* the task is in _tasks_with_prior_connection
    open,       \* _connections
    \* the coroutine and the queue of each connection
    stage,      \* its next step
    waiting,    \* backlog that it still has to put into the queue
    queue,
    got,        \* the items its client received live
    replayed,   \* how much of the log its client received first
    since       \* history: what was routed, and for a replay logged, when it
                \* subscribed

taskVars == <<row, registered, logged>>
loopVars == <<phase, sent, targets, broken>>
connVars == <<stage, waiting, queue, got, replayed, since>>
vars == <<taskVars, loopVars, backlog, expired, prior, open, connVars>>

Init ==
    /\ row = FALSE /\ registered = "unknown" /\ logged = 0
    /\ phase = "idle" /\ sent = 0 /\ targets = {} /\ broken = {}
    /\ backlog = <<>> /\ expired = {} /\ prior = FALSE /\ open = {}
    /\ stage = [c \in Connection |-> "none"]
    /\ waiting = [c \in Connection |-> <<>>]
    /\ queue = [c \in Connection |-> <<>>]
    /\ got = [c \in Connection |-> <<>>]
    /\ replayed = [c \in Connection |-> 0]
    /\ since = [c \in Connection |-> 
                  [routed |-> -1, logged |-> 0, background |-> FALSE]]

-----------------------------------------------------------------------------
(* The task log: a service with its own subscription and its own pace.     *)

\* The first message it writes is the request: it creates the row of the task.
CreateRow ==
    /\ ~row
    /\ row' = TRUE
    /\ UNCHANGED <<registered, logged, loopVars, backlog, expired, prior, open, connVars>>

\* A reader finds the events that were written so far, in their order.
ReadLog == logged' \in IF row THEN logged .. Final ELSE {0}

-----------------------------------------------------------------------------
(* The message loop: send_event, once per event, then close_all_for_task.  *)

\* _is_task_registered_for_buffering: the first answer is kept, right or wrong.
\* The request registers the task after it was published, so an event may come
\* first; the row of the task says yes as well.
TakeEvent ==
    /\ phase = "idle" /\ sent < Final
    /\ sent' = sent + 1
    /\ phase' = "route"
    /\ registered' \in IF registered # "unknown" THEN {registered}
                       ELSE IF row THEN {"yes"} ELSE {"yes", "no"}
    /\ UNCHANGED <<row, logged, targets, broken, backlog, expired, prior, open, connVars>>

AddUnbounded(e) == backlog' = Append(backlog, e)  \* mutant: no limit

\* SSEEventBuffer.buffer_event
AddToBacklog(e) ==
    backlog' = IF Len(backlog) < QueueSize THEN Append(backlog, e) ELSE backlog

Registered == registered = "yes"  \* mutant: whether or not a client ever came

\* One came and went, and the event is believed to be in the database.
LeftToDatabase == registered = "yes" /\ prior

\* Nobody is connected: the event is kept for the first client.
KeepEvent ==
    /\ phase = "route" /\ open = {}
    /\ IF LeftToDatabase THEN UNCHANGED backlog ELSE AddToBacklog(sent)
    /\ phase' = "idle"
    /\ UNCHANGED <<taskVars, sent, targets, broken, expired, prior, open, connVars>>

\* Under the lock: the queues that the event goes to.
RouteEvent ==
    /\ phase = "route" /\ open # {}
    /\ targets' = open
    /\ phase' = "deliver"
    /\ UNCHANGED <<taskVars, sent, broken, backlog, expired, prior, open, connVars>>

PutAgain(c, item) ==  \* mutant: the event is sent once more
    /\ c \in targets /\ Len(queue[c]) < QueueSize
    /\ queue' = [queue EXCEPT ![c] = Append(@, item)]
    /\ UNCHANGED targets

\* Without the lock: a put waits a tenth of a second for room.
Put(c, item) ==
    /\ c \in targets /\ Len(queue[c]) < QueueSize
    /\ queue' = [queue EXCEPT ![c] = Append(@, item)]
    /\ targets' = targets \ {c}

PutNeverTimesOut(c) == FALSE  \* mutant: it waits until there is room

\* Or it raises: the reader that waits on the queue belongs to another loop.
PutTimesOut(c) ==
    /\ c \in targets /\ Len(queue[c]) = QueueSize
    /\ targets' = targets \ {c}
    /\ UNCHANGED queue

SkipEvent(c) == UNCHANGED broken  \* mutant: only the event is dropped

GiveUp(c) == broken' = broken \cup {c}

DeliverEvent(c) ==
    /\ phase = "deliver"
    /\ \/ Put(c, sent) /\ UNCHANGED broken
       \/ PutTimesOut(c) /\ GiveUp(c)
    /\ phase' = IF targets' # {} THEN "deliver"
                ELSE IF broken' # {} THEN "discard" ELSE "idle"
    /\ UNCHANGED <<taskVars, sent, backlog, expired, prior, open,
                   stage, waiting, got, replayed, since>>

\* Queues found full leave the table; their coroutines are not told.
DiscardBroken ==
    /\ phase = "discard"
    /\ open' = open \ broken
    /\ broken' = {}
    /\ phase' = "idle"
    /\ UNCHANGED <<taskVars, sent, targets, backlog, expired, prior, connVars>>

\* After the final response.  Without a connection the backlog stays, for a
\* client that is late.
Unregister ==
    /\ phase = "idle" /\ sent = Final
    /\ targets' = open
    /\ open' = {}
    /\ phase' = IF open = {} THEN "done" ELSE "sentinels"
    /\ UNCHANGED <<taskVars, sent, broken, backlog, expired, prior, connVars>>

SendSentinel(c) ==
    /\ phase = "sentinels"
    /\ Put(c, Sentinel) \/ PutTimesOut(c)
    /\ UNCHANGED <<taskVars, phase, sent, broken, backlog, expired, prior, open,
                   stage, waiting, got, replayed, since>>

ForgetBacklog ==
    /\ phase = "sentinels" /\ targets = {}
    /\ phase' = "done"
    /\ backlog' = <<>>
    /\ prior' = FALSE
    /\ UNCHANGED <<taskVars, sent, targets, broken, expired, open, connVars>>

\* A call of the message loop that has begun
LoopStep ==
    \/ KeepEvent \/ RouteEvent \/ DiscardBroken \/ ForgetBacklog
    \/ \E c \in Connection : DeliverEvent(c) \/ SendSentinel(c)

-----------------------------------------------------------------------------
(* The coroutine of a connection.                                          *)

Routed == IF phase = "route" THEN sent - 1 ELSE sent

\* create_sse_connection, under the lock: take the backlog and join the table.
Connect(c) ==
    /\ stage[c] = "none"
    /\ stage' = [stage EXCEPT ![c] = "opening"]
    /\ waiting' = [waiting EXCEPT ![c] = backlog]
    /\ backlog' = <<>>
    /\ open' = open \cup {c}
    /\ prior' = TRUE
    /\ IF c \in Reconnecting THEN ReadLog ELSE UNCHANGED logged
    /\ since' = [since EXCEPT ![c] =
         [routed |-> Routed, background |-> Background /\ row,
          logged |-> IF c \in Reconnecting THEN logged' ELSE 0]]
    /\ UNCHANGED <<row, registered, loopVars, expired, queue, got, replayed>>

\* After the lock is released; while the queue is full the request waits.
QueueBacklog(c) ==
    /\ stage[c] = "opening" /\ waiting[c] # <<>>
    /\ Len(queue[c]) < QueueSize
    /\ queue' = [queue EXCEPT ![c] = Append(@, Head(waiting[c]))]
    /\ waiting' = [waiting EXCEPT ![c] = Tail(@)]
    /\ UNCHANGED <<taskVars, loopVars, backlog, expired, prior, open,
                   stage, got, replayed, since>>

\* The replay is read from the task log when the connection exists.
StartStream(c) ==
    /\ stage[c] = "opening" /\ waiting[c] = <<>>
    /\ stage' = [stage EXCEPT ![c] = "reading"]
    /\ IF c \in Reconnecting THEN ReadLog /\ replayed' = [replayed EXCEPT ![c] = logged']
                            ELSE UNCHANGED <<logged, replayed>>
    /\ UNCHANGED <<row, registered, loopVars, backlog, expired, prior, open,
                   waiting, queue, got, since>>

\* The coroutine ends and with it its queue, which nobody reads any more.  A
\* client of a background task (the row told so when it subscribed) drains the
\* backlog on its way out.
Leave(c) ==
    /\ stage' = [stage EXCEPT ![c] =
                   IF since[c].background THEN "draining" ELSE "gone"]
    /\ queue' = [queue EXCEPT ![c] = <<>>]

ReceiveEvent(c) ==
    /\ stage[c] = "reading" /\ queue[c] # <<>> /\ Head(queue[c]) # Sentinel
    /\ got' = [got EXCEPT ![c] = Append(@, Head(queue[c]))]
    /\ queue' = [queue EXCEPT ![c] = Tail(@)]
    /\ UNCHANGED <<taskVars, loopVars, backlog, expired, prior, open,
                   stage, waiting, replayed, since>>

\* The gateway ends the stream: the queue has left the table before.
ReceiveSentinel(c) ==
    /\ stage[c] = "reading" /\ queue[c] # <<>> /\ Head(queue[c]) = Sentinel
    /\ got' = [got EXCEPT ![c] = Append(@, Sentinel)]
    /\ Leave(c)
    /\ UNCHANGED <<taskVars, loopVars, backlog, expired, prior, open,
                   waiting, replayed, since>>

\* The client went away: remove_sse_connection.
Disconnect(c) ==
    /\ stage[c] = "reading"
    /\ open' = open \ {c}
    /\ Leave(c)
    /\ UNCHANGED <<taskVars, loopVars, backlog, expired, prior,
                   waiting, got, replayed, since>>

\* drain_buffer_for_background_task
DrainBacklog(c) ==
    /\ stage[c] = "draining"
    /\ stage' = [stage EXCEPT ![c] = "gone"]
    /\ backlog' = <<>>
    /\ UNCHANGED <<taskVars, loopVars, expired, prior, open,
                   waiting, queue, got, replayed, since>>

-----------------------------------------------------------------------------
(* The cleanup timer, on the thread of the component.                      *)

\* cleanup_stale_buffers: a backlog whose first event is too old goes as a
\* whole, whatever came after it.  The clock is left out: it may at any time.
ExpireBacklog ==
    /\ backlog # <<>>
    /\ backlog' = <<>>
    /\ expired' = IF \A c \in Connection : stage[c] = "none"
                  THEN expired \cup ToSet(backlog) ELSE expired
    /\ UNCHANGED <<taskVars, loopVars, prior, open, connVars>>

Next ==
    \/ CreateRow \/ TakeEvent \/ Unregister \/ LoopStep \/ ExpireBacklog
    \/ \E c \in Connection :
          \/ Connect(c) \/ QueueBacklog(c) \/ StartStream(c)
          \/ ReceiveEvent(c) \/ ReceiveSentinel(c)
          \/ Disconnect(c) \/ DrainBacklog(c)

Spec == Init /\ [][Next]_vars

-----------------------------------------------------------------------------
(* Properties.                                                             *)

TypeOK ==
    /\ row \in BOOLEAN /\ prior \in BOOLEAN
    /\ registered \in {"unknown", "yes", "no"}
    /\ logged \in 0 .. Final /\ sent \in 0 .. Final
    /\ phase \in {"idle", "route", "deliver", "discard", "sentinels", "done"}
    /\ open \subseteq Connection /\ targets \subseteq Connection
    /\ broken \subseteq Connection
    /\ backlog \in Seq(Event) /\ Len(backlog) <= QueueSize
    /\ expired \subseteq Event
    /\ stage \in [Connection -> {"none", "opening", "reading", "draining", "gone"}]
    /\ waiting \in [Connection -> Seq(Event)]
    /\ queue \in [Connection -> Seq(Item)]
    /\ \A c \in Connection : Len(queue[c]) <= QueueSize
    /\ got \in [Connection -> Seq(Item)]
    /\ replayed \in [Connection -> 0 .. Final]
    /\ since \in [Connection -> [routed : -1 .. Final, logged : 0 .. Final,
                              background : BOOLEAN]]

\* Connections in the table that no send has found full
Following(c) == stage[c] \in {"opening", "reading"} /\ c \in open \ broken

\* What c has, or what is on its way to c
Reaching(c) ==
    ToSet(got[c]) \cup ToSet(queue[c]) \cup ToSet(waiting[c])
      \cup (IF phase = "deliver" /\ c \in targets THEN {sent} ELSE {})

\* The first client of a task gets every event but those that waited for it until
\* cleanup_stale_buffers found their backlog too old, if the backlog had room for
\* them: create_sse_connection takes the backlog and joins the table in one
\* critical section, send_event chooses between the two in one, and the cleanup
\* finds the events in the backlog or not at all.
FirstClientMissesNothing ==
    \A c \in Connection :
       /\ Following(c) /\ since[c].routed <= QueueSize
       /\ \A d \in Connection \ {c} : stage[d] = "none"
       => (1 .. Routed) \ expired \subseteq Reaching(c)

\* A client that comes back sees what the log held when it subscribed and what
\* is emitted from then on: it joins the table before it reads the log.
ReconnectSeesLogged ==
    \A c \in Reconnecting : Following(c) /\ stage[c] = "reading" =>
       \A e \in 1 .. Routed :
          e <= since[c].logged \/ e > since[c].routed
            => e <= replayed[c] \/ e \in Reaching(c)

\* A stream that the gateway ends has shown every event emitted since it was
\* opened, the final response included, and shows nothing afterwards.
EndMeansDelivered ==
    \A c \in Connection : Sentinel \in ToSet(got[c]) =>
       /\ (since[c].routed + 1) .. Final \subseteq ToSet(got[c])
       /\ got[c][Len(got[c])] = Sentinel

\* A client that does not read its stream cannot hold up the message loop: a
\* call that has begun has a next step whatever the clients do, or the sends of
\* every other task would wait with it.
LoopNeverBlocked == phase \notin {"idle", "done"} => ENABLED LoopStep

\* Each client sees an EventFeed, up to the sentinel that ends its stream.
Shown(c) == IF Sentinel \in ToSet(got[c]) THEN Front(got[c]) ELSE got[c]
Feed == INSTANCE EventFeed WITH
          Client <- Connection, emitted <- Routed,
          since <- [c \in Connection |-> since[c].routed],
          stream <- [c \in Connection |-> Shown(c)]
FeedSpec == Feed!Spec

-----------------------------------------------------------------------------
(* What a comment of the code says and the model refutes.                  *)

\* "This ordering ensures no events are missed" (routers/sse.py, of the
\* connection that is created before the replay is read).
ReconnectMissesNothing ==
    \A c \in Reconnecting : Following(c) /\ stage[c] = "reading" =>
       \A e \in 1 .. Routed : e <= replayed[c] \/ e \in Reaching(c)
=============================================================================
