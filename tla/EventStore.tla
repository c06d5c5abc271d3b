----------------------------- MODULE EventStore -----------------------------
(***************************************************************************)
(* The database copy of one task's events, which a client that was away    *)
(* fetches when it comes back.                                             *)
(*                                                                         *)
(* Two threads use it: the message loop of the gateway, which stores every *)
(* event before it sends it (EventStream), and the HTTP server, which runs *)
(* one of its calls at a time.  In hybrid mode events collect in memory    *)
(* and either thread writes them in batches, each in a transaction of its  *)
(* own: an action is a critical section, or a statement of a transaction.  *)
(*                                                                         *)
(*   events in memory, flush      .../persistent_sse_event_buffer.py       *)
(*   transactions                 .../sse_event_buffer_repository.py       *)
(*   who calls them               .../sse_manager.py, routers/tasks.py     *)
(***************************************************************************)
EXTENDS Integers, Sequences, FiniteSets, SequencesExt

CONSTANTS
    Final,        \* bound: the events are 1 .. Final
    Threshold,    \* hybrid_flush_threshold
    MaxRetries,   \* MAX_SEQUENCE_RETRIES
    MaxFailures,  \* bound: statements that fail
    MaxCleanups   \* bound: how often a client has the events deleted

Event  == 1 .. Final
Writer == {"loop", "server"}
Other(w) == CHOOSE v \in Writer : v # w

ASSUME SizeAssumption == Final \in Nat \ {0} /\ Threshold \in Nat \ {0}
ASSUME RetryAssumption == MaxRetries \in Nat \ {0}
ASSUME BoundAssumption == MaxFailures \in Nat /\ MaxCleanups \in Nat

VARIABLES
    hybrid,     \* sse_buffering hybrid mode
    rowLocks,   \* the database can lock a row (not SQLite)
    \* the task
    row,        \* it is in the database
    cached,     \* _task_metadata_cache has it
    \* the message loop and the server
    phase,      \* the next step of the message loop
    sent,       \* the events it has taken up
    call,       \* the call that the server is in
    selected,   \* events that the server has read for a client
    \* the events
    ram,        \* _ram_buffer
    step,       \* the next step of each writer's transaction
    batch,      \* the events it writes
    highest,    \* the largest sequence number that it found
    attempt,    \* the attempts that met a used number
    locks,      \* writers that have locked the row of the task
    table,      \* sse_event_buffer
    \* bounds and history
    failures, cleanups,
    accepted,   \* events that buffer_event accepted
    discarded,  \* those that were deleted
    returned,   \* those that a client has fetched
    overlapped  \* a batch was taken while another was being written

taskVars == <<row, cached>>
txVars == <<step, batch, highest, attempt, locks>>
vars == <<hybrid, rowLocks, taskVars, phase, sent, call, selected, ram, txVars,
          table, failures, cleanups, accepted, discarded, returned, overlapped>>

Init ==
    /\ hybrid \in BOOLEAN /\ rowLocks \in BOOLEAN
    /\ row = FALSE /\ cached = FALSE
    /\ phase = "idle" /\ sent = 0 /\ call = "none" /\ selected = {}
    /\ ram = <<>>
    /\ step = [w \in Writer |-> "none"]
    /\ batch = [w \in Writer |-> <<>>]
    /\ highest = [w \in Writer |-> 0]
    /\ attempt = [w \in Writer |-> 0]
    /\ locks = {}
    /\ table = {}
    /\ failures = 0 /\ cleanups = 0
    /\ accepted = {} /\ discarded = {} /\ returned = {}
    /\ overlapped = FALSE

StoredEvents == {r.event : r \in table}

-----------------------------------------------------------------------------
(* The task becomes known: the request that submits it registers it after  *)
(* it was published, and the task log creates its row.                     *)

RegisterTask ==
    /\ ~cached /\ cleanups = 0
    /\ cached' = TRUE
    /\ UNCHANGED <<hybrid, rowLocks, row, phase, sent, call, selected, ram,
                   txVars, table, failures, cleanups, accepted, discarded,
                   returned, overlapped>>

CreateRow ==
    /\ ~row
    /\ row' = TRUE
    /\ UNCHANGED <<hybrid, rowLocks, cached, phase, sent, call, selected, ram,
                   txVars, table, failures, cleanups, accepted, discarded,
                   returned, overlapped>>

\* get_task_metadata: the cache or the row
Known == cached \/ row

-----------------------------------------------------------------------------
(* A transaction that writes a batch: at most MaxRetries attempts.         *)

\* Under the buffer's lock.
TakeBatch(w) ==
    /\ batch' = [batch EXCEPT ![w] = ram]
    /\ ram' = <<>>
    /\ step' = [step EXCEPT ![w] = IF ram = <<>> THEN "none" ELSE "query"]
    /\ overlapped' = (overlapped \/ (ram # <<>> /\ batch[Other(w)] # <<>>))
    /\ UNCHANGED <<highest, attempt, locks>>

\* With row locks a batch waits for the one that has locked the row; there is
\* nothing to lock before the row exists.
ReadHighest(w) ==
    /\ step[w] = "query"
    /\ hybrid => ~(rowLocks /\ row /\ Other(w) \in locks)
    /\ step' = [step EXCEPT ![w] = "insert"]
    /\ highest' = [highest EXCEPT ![w] =
                     Max({0} \cup {r.number : r \in table})]
    /\ locks' = IF hybrid /\ rowLocks /\ row THEN locks \cup {w} ELSE locks
    /\ UNCHANGED <<hybrid, rowLocks, taskVars, phase, sent, call, selected, ram,
                   batch, attempt, table, failures, cleanups, accepted,
                   discarded, returned, overlapped>>

Rows(w) == {[number |-> highest[w] + i, event |-> batch[w][i], consumed |-> FALSE] :
              i \in DOMAIN batch[w]}
Collides(w) == \E r \in Rows(w), s \in table : r.number = s.number

KeepLock(w) == UNCHANGED locks  \* mutant: the end of a transaction is missed

Unlock(w) == locks' = locks \ {w}

EndWrite(w) ==
    /\ step' = [step EXCEPT ![w] = "none"]
    /\ batch' = [batch EXCEPT ![w] = <<>>]
    /\ highest' = [highest EXCEPT ![w] = 0]
    /\ attempt' = [attempt EXCEPT ![w] = 0]
    /\ Unlock(w)

Insert(w) ==
    /\ step[w] = "insert" /\ ~Collides(w)
    /\ table' = table \cup Rows(w)
    /\ accepted' = accepted \cup ToSet(batch[w])
    /\ EndWrite(w)
    /\ UNCHANGED <<hybrid, rowLocks, taskVars, phase, sent, call, selected, ram,
                   failures, cleanups, discarded, returned, overlapped>>

MayRetryAgain(w) == attempt[w] <= MaxRetries  \* mutant: off by one

MayRetry(w) == attempt[w] + 1 < MaxRetries

\* IntegrityError: roll back and read again.
Retry(w) ==
    /\ step[w] = "insert" /\ Collides(w) /\ MayRetry(w)
    /\ step' = [step EXCEPT ![w] = "query"]
    /\ attempt' = [attempt EXCEPT ![w] = @ + 1]
    /\ highest' = [highest EXCEPT ![w] = 0]
    /\ Unlock(w)
    /\ UNCHANGED <<hybrid, rowLocks, taskVars, phase, sent, call, selected, ram,
                   batch, table, failures, cleanups, accepted, discarded,
                   returned, overlapped>>

PutLast(w) == ram' = ram \o batch[w]  \* mutant: the order is lost
PutNowhere(w) == UNCHANGED ram         \* mutant: the batch is lost

PutBack(w) == ram' = batch[w] \o ram

\* The batch returns to memory; an event that is written at once is lost, and
\* buffer_event says so.
FailWrite(w) ==
    /\ step[w] # "none"
    /\ \/ /\ step[w] = "insert" /\ Collides(w) /\ ~MayRetry(w)
          /\ UNCHANGED failures
       \/ failures < MaxFailures /\ failures' = failures + 1
    /\ IF hybrid THEN PutBack(w) ELSE UNCHANGED ram
    /\ EndWrite(w)
    /\ UNCHANGED <<hybrid, rowLocks, taskVars, phase, sent, call, selected,
                   table, cleanups, accepted, discarded, returned, overlapped>>

WriteStep(w) == ReadHighest(w) \/ Insert(w) \/ Retry(w) \/ FailWrite(w)

-----------------------------------------------------------------------------
(* The message loop: every event, then close_all_for_task.                 *)

TakeEvent ==
    /\ phase = "idle" /\ step["loop"] = "none" /\ sent < Final
    /\ sent' = sent + 1
    /\ phase' = "store"
    /\ UNCHANGED <<hybrid, rowLocks, taskVars, call, selected, ram, txVars,
                   table, failures, cleanups, accepted, discarded, returned,
                   overlapped>>

\* Nobody registered the task: buffer_event refuses.
RefuseEvent ==
    /\ phase = "store" /\ ~Known
    /\ phase' = "idle"
    /\ UNCHANGED <<hybrid, rowLocks, taskVars, sent, call, selected, ram, txVars,
                   table, failures, cleanups, accepted, discarded, returned,
                   overlapped>>

\* Normal mode: a transaction for the event.
WriteEvent ==
    /\ phase = "store" /\ Known /\ ~hybrid
    /\ phase' = "idle"
    /\ cached' = TRUE
    /\ step' = [step EXCEPT !["loop"] = "query"]
    /\ batch' = [batch EXCEPT !["loop"] = <<sent>>]
    /\ UNCHANGED <<hybrid, rowLocks, row, sent, call, selected, ram, highest,
                   attempt, locks, table, failures, cleanups, accepted, discarded,
                   returned, overlapped>>

\* Hybrid mode: memory, and a flush when the threshold is reached.
CollectEvent ==
    /\ phase = "store" /\ Known /\ hybrid
    /\ ram' = Append(ram, sent)
    /\ phase' = IF Len(ram') >= Threshold THEN "flush" ELSE "idle"
    /\ cached' = TRUE
    /\ accepted' = accepted \cup {sent}
    /\ UNCHANGED <<hybrid, rowLocks, row, sent, call, selected, txVars, table,
                   failures, cleanups, discarded, returned, overlapped>>

LoopFlush ==
    /\ phase = "flush"
    /\ phase' = "idle"
    /\ TakeBatch("loop")
    /\ UNCHANGED <<hybrid, rowLocks, taskVars, sent, call, selected, table,
                   failures, cleanups, accepted, discarded, returned>>

\* close_all_for_task, after the final response
CloseTask ==
    /\ phase = "idle" /\ step["loop"] = "none" /\ sent = Final
    /\ phase' = "closed"
    /\ IF hybrid THEN TakeBatch("loop") ELSE UNCHANGED <<ram, txVars, overlapped>>
    /\ UNCHANGED <<hybrid, rowLocks, taskVars, sent, call, selected, table,
                   failures, cleanups, accepted, discarded, returned>>

LoopStep ==
    RefuseEvent \/ WriteEvent \/ CollectEvent \/ LoopFlush \/ WriteStep("loop")

-----------------------------------------------------------------------------
(* The server: one call at a time.                                         *)

Free == call = "none" /\ step["server"] = "none"

\* The last connection of the task is removed.
ServerFlush ==
    /\ Free /\ hybrid /\ ram # <<>>
    /\ TakeBatch("server")
    /\ UNCHANGED <<hybrid, rowLocks, taskVars, phase, sent, call, selected,
                   table, failures, cleanups, accepted, discarded, returned>>

\* delete_events_for_task, when the client has saved the chat: memory first ...
DiscardRam ==
    /\ Free /\ sent > 0 /\ cleanups < MaxCleanups
    /\ call' = "delete"
    /\ cleanups' = cleanups + 1
    /\ ram' = <<>>
    /\ discarded' = discarded \cup ToSet(ram)
    /\ UNCHANGED <<hybrid, rowLocks, taskVars, phase, sent, selected, txVars,
                   table, failures, accepted, returned, overlapped>>

\* ... then the table, and the metadata if that succeeds.
DeleteRows ==
    /\ call = "delete"
    /\ call' = "none"
    /\ \/ /\ table' = {} /\ cached' = FALSE
          /\ discarded' = discarded \cup StoredEvents
          /\ UNCHANGED failures
       \/ /\ failures < MaxFailures /\ failures' = failures + 1
          /\ UNCHANGED <<table, cached, discarded>>
    /\ UNCHANGED <<hybrid, rowLocks, row, phase, sent, selected, ram, txVars,
                   cleanups, accepted, returned, overlapped>>

\* GET .../events/buffered: the rows that nobody has fetched are read ...
SelectEvents ==
    /\ Free /\ row /\ \E r \in table : ~r.consumed
    /\ call' = "fetch"
    /\ selected' = {r.event : r \in {s \in table : ~s.consumed}}
    /\ UNCHANGED <<hybrid, rowLocks, taskVars, phase, sent, ram, txVars, table,
                   failures, cleanups, accepted, discarded, returned, overlapped>>

\* ... and then all rows of the task are marked.
MarkConsumed ==
    /\ call = "fetch"
    /\ call' = "none"
    /\ selected' = {}
    /\ \/ /\ table' = {[r EXCEPT !.consumed = TRUE] : r \in table}
          /\ returned' = returned \cup selected
          /\ UNCHANGED failures
       \/ /\ failures < MaxFailures /\ failures' = failures + 1
          /\ UNCHANGED <<table, returned>>
    /\ UNCHANGED <<hybrid, rowLocks, taskVars, phase, sent, ram, txVars,
                   cleanups, accepted, discarded, overlapped>>

ServerStep == DeleteRows \/ MarkConsumed \/ WriteStep("server")

Next ==
    \/ RegisterTask \/ CreateRow
    \/ TakeEvent \/ CloseTask \/ LoopStep
    \/ ServerFlush \/ DiscardRam \/ SelectEvents \/ ServerStep

Spec == Init /\ [][Next]_vars

\* Each thread runs a call that it has begun to its end.
FairSpec == Spec /\ WF_vars(LoopStep) /\ WF_vars(ServerStep)

-----------------------------------------------------------------------------
(* Properties.                                                             *)

TypeOK ==
    /\ hybrid \in BOOLEAN /\ rowLocks \in BOOLEAN
    /\ row \in BOOLEAN /\ cached \in BOOLEAN
    /\ phase \in {"idle", "store", "flush", "closed"} /\ sent \in 0 .. Final
    /\ call \in {"none", "delete", "fetch"} /\ selected \subseteq Event
    /\ ram \in Seq(Event)
    /\ step \in [Writer -> {"none", "query", "insert"}]
    /\ batch \in [Writer -> Seq(Event)]
    /\ highest \in [Writer -> Nat]
    /\ attempt \in [Writer -> 0 .. MaxRetries - 1]
    /\ locks \subseteq Writer
    /\ table \subseteq [number : Nat \ {0}, event : Event, consumed : BOOLEAN]
    /\ failures \in 0 .. MaxFailures /\ cleanups \in 0 .. MaxCleanups
    /\ accepted \subseteq Event /\ discarded \subseteq Event
    /\ returned \subseteq Event /\ overlapped \in BOOLEAN

Places(e, s) == {i \in DOMAIN s : s[i] = e}

Copies(e) ==
    Cardinality(Places(e, ram)) + Cardinality({r \in table : r.event = e})
      + Cardinality(Places(e, batch["loop"]))
      + Cardinality(Places(e, batch["server"]))

\* An event that buffer_event accepted is in one place until it is deleted: in
\* memory, in a batch that is being written, or in the table.  Statements that
\* fail, numbers that collide and threads that flush at once neither lose it
\* nor store it twice.
KeptOnce ==
    \A e \in accepted : Copies(e) = (IF e \in discarded THEN 0 ELSE 1)

\* A client replays the events in the order of their numbers: that is the order
\* in which they were emitted, unless two batches were under way at once.
StoredInOrder ==
    ~overlapped =>
       /\ \A r, s \in table : r.number < s.number => r.event < s.event
       /\ \A i \in DOMAIN ram : \A e \in StoredEvents : e < ram[i]
       /\ \A i, j \in DOMAIN ram : i < j => ram[i] < ram[j]

\* Neither a lock nor retries keep the message loop from the next event.
LoopReturns == []<>(phase \in {"idle", "closed"} /\ step["loop"] = "none")

-----------------------------------------------------------------------------
(* What a comment of the code says and the model refutes.                  *)

\* "Get unconsumed events and mark them as consumed" (routers/tasks.py).
ConsumedWasReturned == \A r \in table : r.consumed => r.event \in returned
=============================================================================
