-------------------------- MODULE EventStreamProofs --------------------------
(***************************************************************************)
(* Theorems about EventStream, for every value of its constants.           *)
(***************************************************************************)
EXTENDS EventStream, SequenceTheorems, TLAPS

-----------------------------------------------------------------------------
(* Sequences and the sets of their elements.                               *)

\* A longer sequence
LEMMA AppendSet ==
    ASSUME NEW S, NEW s \in Seq(S), NEW e \in S
    PROVE  /\ Append(s, e) \in Seq(S) /\ Append(s, e) # << >>
           /\ Len(s) \in Nat /\ Len(Append(s, e)) = Len(s) + 1
           /\ ToSet(Append(s, e)) = ToSet(s) \cup {e}
  <1>1. /\ Append(s, e) \in Seq(S) /\ Append(s, e) # << >>
        /\ Len(Append(s, e)) = Len(s) + 1
        /\ \A i \in 1 .. Len(s) : Append(s, e)[i] = s[i]
        /\ Append(s, e)[Len(s) + 1] = e
    BY AppendProperties
  <1>2. Len(s) \in Nat /\ DOMAIN s = 1 .. Len(s)
    BY LenProperties
  <1>3. DOMAIN Append(s, e) = 1 .. Len(s) + 1
    BY <1>1, LenProperties
  <1>4. 1 .. Len(s) + 1 = (1 .. Len(s)) \cup {Len(s) + 1}
    BY <1>2
  <1>5. ToSet(Append(s, e)) = ToSet(s) \cup {e}
    BY <1>1, <1>2, <1>3, <1>4 DEF ToSet
  <1> QED
    BY <1>1, <1>2, <1>5

\* The head of a sequence and the rest
LEMMA TailSet ==
    ASSUME NEW S, NEW s \in Seq(S), s # << >>
    PROVE  /\ Head(s) \in S /\ Tail(s) \in Seq(S)
           /\ Len(s) \in Nat /\ Len(Tail(s)) = Len(s) - 1
           /\ ToSet(s) = {Head(s)} \cup ToSet(Tail(s))
  <1>1. /\ Head(s) \in S /\ Tail(s) \in Seq(S) /\ Len(Tail(s)) = Len(s) - 1
        /\ \A i \in 1 .. Len(Tail(s)) : Tail(s)[i] = s[i + 1]
    BY HeadTailProperties
  <1>2. Len(s) \in Nat \ {0} /\ DOMAIN s = 1 .. Len(s) /\ Head(s) = s[1]
    BY LenProperties, EmptySeq, HeadTailProperties
  <1>3. DOMAIN Tail(s) = 1 .. Len(s) - 1
    BY <1>1, LenProperties
  <1>4. \A x \in ToSet(s) : x = Head(s) \/ x \in ToSet(Tail(s))
    <2> SUFFICES ASSUME NEW i \in 1 .. Len(s), i # 1
                 PROVE  s[i] \in ToSet(Tail(s))
      BY <1>2 DEF ToSet
    <2>1. i - 1 \in 1 .. Len(s) - 1 /\ i = (i - 1) + 1
      BY <1>2
    <2>2. Tail(s)[i - 1] = s[i]
      BY <1>1, <2>1
    <2> QED
      BY <1>3, <2>1, <2>2 DEF ToSet
  <1>5. \A x \in ToSet(Tail(s)) : x \in ToSet(s)
    <2> SUFFICES ASSUME NEW i \in 1 .. Len(s) - 1
                 PROVE  Tail(s)[i] \in ToSet(s)
      BY <1>3 DEF ToSet
    <2>1. i + 1 \in 1 .. Len(s) /\ Tail(s)[i] = s[i + 1]
      BY <1>1, <1>2
    <2> QED
      BY <1>2, <2>1 DEF ToSet
  <1>6. Head(s) \in ToSet(s)
    BY <1>2 DEF ToSet
  <1> QED
    BY <1>1, <1>2, <1>4, <1>5, <1>6

\* The elements of an empty sequence, and of any.
LEMMA SetOfSeq ==
    /\ ToSet(<< >>) = {} /\ Len(<< >>) = 0
    /\ \A S : \A s \in Seq(S) : ToSet(s) \subseteq S /\ Len(s) \in Nat
  <1>1. ToSet(<< >>) = {}
    BY DEF ToSet
  <1>2. ASSUME NEW S, NEW s \in Seq(S)
        PROVE  ToSet(s) \subseteq S /\ Len(s) \in Nat
    BY LenProperties, ElementOfSeq DEF ToSet
  <1> QED
    BY <1>1, <1>2, EmptySeq

-----------------------------------------------------------------------------
(* Type correctness.                                                       *)

\* What is routed or delivered is an event; only what a send is delivering may be
\* found full.
PhaseInv ==
    /\ phase \in {"route", "deliver"} => sent \in Event
    /\ phase \notin {"deliver", "discard"} => broken = {}
    /\ phase \in {"sentinels", "done"} => sent = Final
    /\ phase \in {"idle", "route", "discard", "done"} => targets = {}

TypeInv == TypeOK /\ PhaseInv

\* The types hold before the first event.
LEMMA InitType == Init => TypeInv
  <1> SUFFICES ASSUME Init PROVE TypeInv
    OBVIOUS
  <1>1. << >> \in Seq(Event) /\ << >> \in Seq(Item) /\ Len(<< >>) = 0
    BY EmptySeq
  <1>2. 0 \in 0 .. Final /\ -1 \in -1 .. Final /\ 0 <= QueueSize
    BY SizeAssumption
  <1>3. since \in [Connection -> [routed : -1 .. Final, logged : 0 .. Final,
                                  background : BOOLEAN]]
    BY <1>2 DEF Init
  <1>4. \A c \in Connection : Len(queue[c]) <= QueueSize
    BY <1>1, <1>2 DEF Init
  <1> QED
    BY <1>1, <1>2, <1>3, <1>4 DEF Init, TypeOK, TypeInv, PhaseInv

\* Reading the log finds at least what was found before.
LEMMA ReadLogType ==
    ASSUME TypeOK, ReadLog
    PROVE  logged' \in 0 .. Final /\ logged <= Final /\ (row => logged <= logged')
  <1>1. logged \in 0 .. Final
    BY DEF TypeOK
  <1>2. 0 \in 0 .. Final
    BY SizeAssumption
  <1> QED
    BY <1>1, <1>2, SizeAssumption DEF ReadLog

\* A put appends to one queue, or gives up.
LEMMA PutType ==
    ASSUME TypeOK, NEW c \in Connection, NEW item \in Item,
           Put(c, item) \/ PutTimesOut(c)
    PROVE  /\ queue' \in [Connection -> Seq(Item)]
           /\ \A d \in Connection : Len(queue'[d]) <= QueueSize
           /\ c \in targets /\ targets' = targets \ {c}
           /\ \A d \in Connection \ {c} : queue'[d] = queue[d]
           /\ \/ PutTimesOut(c) /\ queue' = queue
              \/ Put(c, item) /\ queue'[c] = Append(queue[c], item)
  <1>1. /\ queue \in [Connection -> Seq(Item)]
        /\ \A d \in Connection : Len(queue[d]) <= QueueSize
    BY DEF TypeOK
  <1>2. CASE Put(c, item)
    <2>1. /\ queue' = [queue EXCEPT ![c] = Append(@, item)] /\ Len(queue[c]) < QueueSize
          /\ c \in targets /\ targets' = targets \ {c}
      BY <1>2 DEF Put
    <2>2. /\ Append(queue[c], item) \in Seq(Item) /\ Len(queue[c]) \in Nat
          /\ Len(Append(queue[c], item)) = Len(queue[c]) + 1
      BY <1>1, AppendSet
    <2>3. Len(Append(queue[c], item)) <= QueueSize
      BY <2>1, <2>2, SizeAssumption
    <2> QED
      BY <1>1, <1>2, <2>1, <2>2, <2>3
  <1>3. CASE PutTimesOut(c)
    BY <1>1, <1>3 DEF PutTimesOut
  <1> QED
    BY <1>2, <1>3

\* The backlog takes an event while it has room.
LEMMA AddToBacklogType ==
    ASSUME TypeOK, NEW e \in Event, AddToBacklog(e)
    PROVE  /\ backlog' \in Seq(Event) /\ Len(backlog') <= QueueSize
           /\ \/ Len(backlog) >= QueueSize /\ backlog' = backlog
              \/ Len(backlog) < QueueSize /\ backlog' = Append(backlog, e)
  <1>1. backlog \in Seq(Event) /\ Len(backlog) <= QueueSize
    BY DEF TypeOK
  <1>2. /\ Append(backlog, e) \in Seq(Event) /\ Len(backlog) \in Nat
        /\ Len(Append(backlog, e)) = Len(backlog) + 1
    BY <1>1, AppendSet
  <1> QED
    BY <1>1, <1>2, SizeAssumption DEF AddToBacklog

\* The steps of the message loop
LEMMA LoopType ==
    ASSUME TypeInv, CreateRow \/ TakeEvent \/ Unregister \/ LoopStep \/ ExpireBacklog
    PROVE  TypeOK'
  <1> USE DEF TypeInv
  <1>0. sent \in 0 .. Final
    BY DEF TypeOK
  <1>1. CASE CreateRow
    BY <1>1 DEF CreateRow, TypeOK, loopVars, connVars
  <1>2. CASE TakeEvent
    <2>1. sent' \in 0 .. Final
      BY <1>0, <1>2, SizeAssumption DEF TakeEvent
    <2>2. registered' \in {"unknown", "yes", "no"}
      BY <1>2 DEF TakeEvent, TypeOK
    <2> QED
      BY <1>2, <2>1, <2>2 DEF TakeEvent, TypeOK, connVars
  <1>3. CASE Unregister
    BY <1>3 DEF Unregister, TypeOK, taskVars, connVars
  <1>4. CASE KeepEvent
    <2>1. backlog' = backlog \/ AddToBacklog(sent)
      BY <1>4 DEF KeepEvent
    <2>2. sent \in Event
      BY <1>4 DEF KeepEvent, PhaseInv
    <2>3. backlog' \in Seq(Event) /\ Len(backlog') <= QueueSize
      <3>1. backlog \in Seq(Event) /\ Len(backlog) <= QueueSize
        BY DEF TypeOK
      <3> QED
        BY <2>1, <2>2, <3>1, AddToBacklogType
    <2> QED
      BY <1>4, <2>3 DEF KeepEvent, TypeOK, taskVars, connVars
  <1>5. CASE RouteEvent
    BY <1>5 DEF RouteEvent, TypeOK, taskVars, connVars
  <1>6. CASE DiscardBroken
    BY <1>6 DEF DiscardBroken, TypeOK, taskVars, connVars
  <1>7. CASE ForgetBacklog
    <2>1. << >> \in Seq(Event) /\ Len(<< >>) = 0 /\ 0 <= QueueSize
      BY EmptySeq, SizeAssumption
    <2> QED
      BY <1>7, <2>1 DEF ForgetBacklog, TypeOK, taskVars, connVars
  <1>8. ASSUME NEW c \in Connection, DeliverEvent(c)
        PROVE  TypeOK'
    <2>1. sent \in Item
      BY <1>0 DEF Item, Event, Sentinel
    <2>2. Put(c, sent) \/ PutTimesOut(c)
      BY <1>8 DEF DeliverEvent
    <2>3. /\ queue' \in [Connection -> Seq(Item)]
          /\ \A d \in Connection : Len(queue'[d]) <= QueueSize
          /\ targets' = targets \ {c}
      BY <2>1, <2>2, PutType
    <2>4. broken' \subseteq Connection
      BY <1>8 DEF DeliverEvent, GiveUp, TypeOK
    <2>5. phase' \in {"deliver", "discard", "idle"}
      BY <1>8 DEF DeliverEvent
    <2> QED
      BY <1>8, <2>3, <2>4, <2>5 DEF DeliverEvent, TypeOK, taskVars
  <1>9. ASSUME NEW c \in Connection, SendSentinel(c)
        PROVE  TypeOK'
    <2>1. Sentinel \in Item
      BY DEF Item
    <2>2. Put(c, Sentinel) \/ PutTimesOut(c)
      BY <1>9 DEF SendSentinel
    <2>3. /\ queue' \in [Connection -> Seq(Item)]
          /\ \A d \in Connection : Len(queue'[d]) <= QueueSize
          /\ targets' = targets \ {c}
      BY <2>1, <2>2, PutType
    <2> QED
      BY <1>9, <2>3 DEF SendSentinel, TypeOK, taskVars
  <1>10. CASE ExpireBacklog
    <2>1. << >> \in Seq(Event) /\ Len(<< >>) = 0 /\ 0 <= QueueSize
      BY EmptySeq, SizeAssumption
    <2>2. ToSet(backlog) \subseteq Event
      BY SetOfSeq DEF TypeOK
    <2>3. expired' \subseteq Event
      BY <1>10, <2>2 DEF ExpireBacklog, TypeOK
    <2> QED
      BY <1>10, <2>1, <2>3 DEF ExpireBacklog, TypeOK, taskVars, loopVars, connVars
  <1> QED
    BY <1>1, <1>2, <1>3, <1>4, <1>5, <1>6, <1>7, <1>8, <1>9, <1>10 DEF LoopStep

\* The steps of a connection
ConnectionStep(c) ==
    \/ Connect(c) \/ QueueBacklog(c) \/ StartStream(c)
    \/ ReceiveEvent(c) \/ ReceiveSentinel(c)
    \/ Disconnect(c) \/ DrainBacklog(c)

\* The steps of a connection keep the types.
LEMMA ConnectionType ==
    ASSUME TypeInv, NEW c \in Connection, ConnectionStep(c)
    PROVE  TypeOK'
  <1> USE DEF TypeInv
  <1>0. /\ << >> \in Seq(Item) /\ << >> \in Seq(Event) /\ Len(<< >>) = 0 /\ 0 <= QueueSize
        /\ Event \subseteq Item
    BY EmptySeq, SizeAssumption DEF Item
  <1>1. /\ queue \in [Connection -> Seq(Item)] /\ \A d \in Connection : Len(queue[d]) <= QueueSize
        /\ waiting \in [Connection -> Seq(Event)] /\ got \in [Connection -> Seq(Item)]
        /\ stage \in [Connection -> {"none", "opening", "reading", "draining", "gone"}]
    BY DEF TypeOK
  <1>2. CASE Connect(c)
    <2>1. logged' \in 0 .. Final
      BY <1>2, ReadLogType DEF Connect, TypeOK
    <2>2. Routed \in -1 .. Final
      BY SizeAssumption DEF Routed, TypeOK
    <2>3. [routed |-> Routed, background |-> Background /\ row,
           logged |-> IF c \in Reconnecting THEN logged' ELSE 0]
             \in [routed : -1 .. Final, logged : 0 .. Final, background : BOOLEAN]
      BY <2>1, <2>2, SizeAssumption
    <2>4. since' \in [Connection -> [routed : -1 .. Final, logged : 0 .. Final,
                                     background : BOOLEAN]]
      BY <1>2, <2>3 DEF Connect, TypeOK
    <2>5. waiting' \in [Connection -> Seq(Event)] /\ backlog' \in Seq(Event)
          /\ Len(backlog') <= QueueSize
      BY <1>0, <1>2 DEF Connect, TypeOK
    <2>6. /\ stage' \in [Connection -> {"none", "opening", "reading", "draining", "gone"}]
          /\ open' \subseteq Connection /\ prior' = TRUE
          /\ UNCHANGED <<row, registered, loopVars, expired, queue, got, replayed>>
      BY <1>2 DEF Connect, TypeOK
    <2> QED
      BY <2>1, <2>4, <2>5, <2>6 DEF TypeOK, loopVars
  <1>3. CASE QueueBacklog(c)
    <2>1. Head(waiting[c]) \in Item /\ Tail(waiting[c]) \in Seq(Event)
      BY <1>0, <1>1, <1>3, TailSet DEF QueueBacklog
    <2>2. /\ Append(queue[c], Head(waiting[c])) \in Seq(Item)
          /\ Len(Append(queue[c], Head(waiting[c]))) = Len(queue[c]) + 1
          /\ Len(queue[c]) \in Nat
      BY <1>1, <2>1, AppendSet
    <2>3. Len(Append(queue[c], Head(waiting[c]))) <= QueueSize
      BY <1>3, <2>2, SizeAssumption DEF QueueBacklog
    <2>4. /\ queue' \in [Connection -> Seq(Item)] /\ waiting' \in [Connection -> Seq(Event)]
          /\ \A d \in Connection : Len(queue'[d]) <= QueueSize
      BY <1>1, <1>3, <2>1, <2>2, <2>3 DEF QueueBacklog
    <2> QED
      BY <1>3, <2>4 DEF QueueBacklog, TypeOK, taskVars, loopVars
  <1>4. CASE StartStream(c)
    <2>1. logged' \in 0 .. Final
      BY <1>4, ReadLogType DEF StartStream, TypeOK
    <2>2. replayed' \in [Connection -> 0 .. Final]
      BY <1>4, <2>1 DEF StartStream, TypeOK
    <2>3. stage' \in [Connection -> {"none", "opening", "reading", "draining", "gone"}]
      BY <1>1, <1>4 DEF StartStream
    <2> QED
      BY <1>4, <2>1, <2>2, <2>3 DEF StartStream, TypeOK, loopVars
  <1>5. CASE ReceiveEvent(c)
    <2>1. /\ Head(queue[c]) \in Item /\ Tail(queue[c]) \in Seq(Item)
          /\ Len(Tail(queue[c])) = Len(queue[c]) - 1 /\ Len(queue[c]) \in Nat
      BY <1>1, <1>5, TailSet DEF ReceiveEvent
    <2>2. Append(got[c], Head(queue[c])) \in Seq(Item)
      BY <1>1, <2>1, AppendSet
    <2>3. Len(Tail(queue[c])) <= QueueSize
      BY <1>1, <2>1, SizeAssumption
    <2>4. /\ queue' \in [Connection -> Seq(Item)] /\ got' \in [Connection -> Seq(Item)]
          /\ \A d \in Connection : Len(queue'[d]) <= QueueSize
      BY <1>1, <1>5, <2>1, <2>2, <2>3 DEF ReceiveEvent
    <2> QED
      BY <1>5, <2>4 DEF ReceiveEvent, TypeOK, taskVars, loopVars
  <1>6. ASSUME Leave(c)
        PROVE  /\ queue' \in [Connection -> Seq(Item)]
               /\ \A d \in Connection : Len(queue'[d]) <= QueueSize
               /\ stage' \in [Connection -> {"none", "opening", "reading", "draining", "gone"}]
    BY <1>0, <1>1, <1>6 DEF Leave
  <1>7. CASE ReceiveSentinel(c)
    <2>1. got' \in [Connection -> Seq(Item)]
      <3>1. Append(got[c], Sentinel) \in Seq(Item)
        BY <1>1, AppendSet DEF Item
      <3> QED
        BY <1>1, <1>7, <3>1 DEF ReceiveSentinel
    <2>2. /\ queue' \in [Connection -> Seq(Item)]
          /\ \A d \in Connection : Len(queue'[d]) <= QueueSize
          /\ stage' \in [Connection -> {"none", "opening", "reading", "draining", "gone"}]
      BY <1>6, <1>7 DEF ReceiveSentinel
    <2> QED
      BY <1>7, <2>1, <2>2 DEF ReceiveSentinel, TypeOK, taskVars, loopVars
  <1>8. CASE Disconnect(c)
    <2>1. /\ queue' \in [Connection -> Seq(Item)]
          /\ \A d \in Connection : Len(queue'[d]) <= QueueSize
          /\ stage' \in [Connection -> {"none", "opening", "reading", "draining", "gone"}]
      BY <1>6, <1>8 DEF Disconnect
    <2> QED
      BY <1>8, <2>1 DEF Disconnect, TypeOK, taskVars, loopVars
  <1>9. CASE DrainBacklog(c)
    <2>1. stage' \in [Connection -> {"none", "opening", "reading", "draining", "gone"}]
      BY <1>1, <1>9 DEF DrainBacklog
    <2> QED
      BY <1>0, <1>9, <2>1 DEF DrainBacklog, TypeOK, taskVars, loopVars
  <1> QED
    BY <1>2, <1>3, <1>4, <1>5, <1>7, <1>8, <1>9 DEF ConnectionStep

\* What the message loop carries agrees with where it is.
LEMMA PhaseNext ==
    ASSUME TypeInv, [Next]_vars
    PROVE  PhaseInv'
  <1>1. CASE CreateRow \/ ExpireBacklog \/ UNCHANGED vars
    BY <1>1 DEF CreateRow, ExpireBacklog, TypeInv, PhaseInv, loopVars, vars
  <1>2. CASE TakeEvent
    <2>1. sent' \in Event
      BY <1>2, SizeAssumption DEF TakeEvent, TypeInv, TypeOK, Event
    <2> QED
      BY <1>2, <2>1 DEF TakeEvent, TypeInv, PhaseInv
  <1>3. CASE Unregister
    BY <1>3 DEF Unregister, TypeInv, PhaseInv
  <1>4. CASE KeepEvent \/ RouteEvent \/ DiscardBroken \/ ForgetBacklog
    BY <1>4 DEF KeepEvent, RouteEvent, DiscardBroken, ForgetBacklog, TypeInv, PhaseInv
  <1>5. ASSUME NEW c \in Connection, DeliverEvent(c)
        PROVE  PhaseInv'
    BY <1>5 DEF DeliverEvent, TypeInv, PhaseInv
  <1>6. ASSUME NEW c \in Connection, SendSentinel(c)
        PROVE  PhaseInv'
    BY <1>6 DEF SendSentinel, TypeInv, PhaseInv
  <1>7. ASSUME NEW c \in Connection, ConnectionStep(c)
        PROVE  PhaseInv'
    BY <1>7 DEF ConnectionStep, Connect, QueueBacklog, StartStream, ReceiveEvent,
                ReceiveSentinel, Disconnect, DrainBacklog, loopVars, TypeInv, PhaseInv
  <1> QED
    BY <1>1, <1>2, <1>3, <1>4, <1>5, <1>6, <1>7 DEF Next, LoopStep, ConnectionStep

\* Every step keeps the types.
LEMMA NextType == TypeInv /\ [Next]_vars => TypeInv'
  <1> SUFFICES ASSUME TypeInv, [Next]_vars
               PROVE  TypeOK'
    BY PhaseNext DEF TypeInv
  <1>1. CASE UNCHANGED vars
    BY <1>1 DEF TypeInv, TypeOK, vars, taskVars, loopVars, connVars
  <1> QED
    BY <1>1, LoopType, ConnectionType DEF Next, ConnectionStep

\* The state of the stream always has its type: in particular no queue and no backlog
\* outgrows its limit.
THEOREM TypeCorrect == Spec => []TypeOK
  <1>1. TypeInv => TypeOK
    BY DEF TypeInv
  <1> QED
    BY <1>1, InitType, NextType, PTL DEF Spec

-----------------------------------------------------------------------------
(* The inductive invariant, in parts.                                      *)

\* The last event that a send has put, or dropped, for c
Offered(c) ==
    IF phase = "route" \/ (phase = "deliver" /\ c \in targets) THEN sent - 1 ELSE sent

Held(c) == ToSet(got[c]) \cup ToSet(queue[c])

\* Who has not connected is nowhere, and who has was not ahead of the events.
Placed(c) ==
    /\ stage[c] = "none" =>
          /\ c \notin open \cup targets \cup broken
          /\ waiting[c] = << >> /\ queue[c] = << >> /\ got[c] = << >>
          /\ since[c].routed = -1
    /\ stage[c] # "none" =>
          /\ since[c].routed \in 0 .. Offered(c)
          /\ since[c].logged <= logged
    /\ stage[c] = "reading" /\ c \in Reconnecting => since[c].logged <= replayed[c]
    /\ stage[c] = "reading" => waiting[c] = << >>

PlaceInv ==
    /\ \A c \in Connection : Placed(c)
    /\ row \/ logged = 0
    /\ phase = "sentinels" => \E c \in Connection : stage[c] # "none"

\* A sentinel comes after the last event, and the client that gets it leaves.
SentinelInv ==
    \A c \in Connection :
       /\ Sentinel \in ToSet(got[c]) => stage[c] \in {"draining", "gone"}
       /\ Sentinel \in ToSet(queue[c]) => phase \in {"sentinels", "done"} /\ c \notin targets

\* Two events on the same side of a subscription: both of the backlog, or both live.
SameSide(p, x, y) == x # Sentinel /\ y # Sentinel /\ (x <= p <=> y <= p)

Rising(s, p) ==
    \A i, j \in DOMAIN s : i < j /\ SameSide(p, s[i], s[j]) => s[i] < s[j]

\* Backlog and live events each are in their order, from the first that the client
\* got to the last that is on its way.
InOrder(c) ==
    LET p == since[c].routed IN
    /\ Rising(got[c], p) /\ Rising(queue[c], p) /\ Rising(waiting[c], Final)
    /\ \A x \in Held(c) : x <= Offered(c)
    /\ \A x \in ToSet(got[c]), y \in ToSet(queue[c]) : SameSide(p, x, y) => x < y
    /\ \A x \in ToSet(waiting[c]) : x <= p
    /\ \A x \in Held(c), y \in ToSet(waiting[c]) : SameSide(p, x, y) => x < y

BacklogInv ==
    /\ Rising(backlog, Final) /\ \A x \in ToSet(backlog) : x <= Routed

OrderInv ==
    /\ TypeInv /\ PlaceInv /\ SentinelInv /\ BacklogInv
    /\ \A c \in Connection : stage[c] # "none" => InOrder(c)

\* A client that stays, that no send has found full and that the end has not passed by
Served(c) ==
    /\ stage[c] \in {"opening", "reading"}
    /\ \/ c \in open \ broken
       \/ phase = "sentinels" /\ c \in targets
       \/ Sentinel \in ToSet(queue[c])

\* Nothing after the first sentinel of a queue is live.
AfterSentinel(s, p) ==
    \A i, j \in DOMAIN s : i < j /\ s[i] = Sentinel => s[j] <= p

\* Its live events are in its hands or in its queue, before the sentinel; one that got
\* the sentinel has them all.
Live(c) ==
    LET p == since[c].routed IN
    /\ Served(c) => p + 1 .. Offered(c) \subseteq Held(c)
    /\ AfterSentinel(queue[c], p)
    /\ Sentinel \in ToSet(got[c]) =>
          /\ p + 1 .. Final \subseteq ToSet(got[c])
          /\ got[c][Len(got[c])] = Sentinel

LiveInv == \A c \in Connection : Live(c)

\* Before the first connection the backlog has every event it had room for and that
\* did not expire, and the first connection takes them all.
FirstInv ==
    /\ (\A d \in Connection : stage[d] = "none") =>
          /\ ~prior /\ Len(backlog) <= Routed
          /\ Routed <= QueueSize => (1 .. Routed) \ expired \subseteq ToSet(backlog)
    /\ \A c \in Connection :
          /\ stage[c] \in {"opening", "reading"} /\ since[c].routed <= QueueSize
          /\ \A d \in Connection \ {c} : stage[d] = "none"
          => (1 .. since[c].routed) \ expired \subseteq Held(c) \cup ToSet(waiting[c])

-----------------------------------------------------------------------------
(* Rising sequences.                                                       *)

\* A rising sequence stays one when a larger event follows.
LEMMA RisingAppend ==
    ASSUME NEW S, NEW s \in Seq(S), NEW e \in S, NEW p, Rising(s, p),
           \A x \in ToSet(s) : SameSide(p, x, e) => x < e
    PROVE  Rising(Append(s, e), p)
  <1> DEFINE r == Append(s, e)  k == Len(s) + 1
  <1>1. Len(s) \in Nat /\ DOMAIN s = 1 .. Len(s)
    BY LenProperties
  <1>2. r \in Seq(S) /\ Len(r) = k /\ r[k] = e /\ \A i \in 1 .. Len(s) : r[i] = s[i]
    BY AppendProperties
  <1>3. DOMAIN r = 1 .. k
    BY <1>2, LenProperties
  <1> SUFFICES ASSUME NEW i \in 1 .. k, NEW j \in 1 .. k, i < j, SameSide(p, r[i], r[j])
               PROVE  r[i] < r[j]
    BY <1>3 DEF Rising
  <1>4. i \in DOMAIN s /\ r[i] = s[i] /\ s[i] \in ToSet(s)
    <2>1. i \in 1 .. Len(s)
      BY <1>1
    <2> QED
      BY <1>1, <1>2, <2>1 DEF ToSet
  <1>5. CASE j = k
    BY <1>2, <1>4, <1>5
  <1>6. CASE j # k
    <2>1. j \in 1 .. Len(s)
      BY <1>1, <1>6
    <2>2. r[j] = s[j] /\ j \in DOMAIN s
      BY <1>1, <1>2, <2>1
    <2> QED
      BY <1>4, <2>2 DEF Rising
  <1> QED
    BY <1>5, <1>6

\* So does its tail, and the head is the smallest of its side.
LEMMA RisingTail ==
    ASSUME NEW S, NEW s \in Seq(S), s # << >>, NEW p, Rising(s, p)
    PROVE  /\ Rising(Tail(s), p)
           /\ \A y \in ToSet(Tail(s)) : SameSide(p, Head(s), y) => Head(s) < y
  <1>1. /\ Tail(s) \in Seq(S) /\ Len(Tail(s)) = Len(s) - 1
        /\ \A i \in 1 .. Len(Tail(s)) : Tail(s)[i] = s[i + 1]
    BY HeadTailProperties
  <1>2. Len(s) \in Nat \ {0} /\ DOMAIN s = 1 .. Len(s) /\ Head(s) = s[1]
    BY LenProperties, EmptySeq
  <1>3. DOMAIN Tail(s) = 1 .. Len(s) - 1
    BY <1>1, LenProperties
  <1>4. \A i \in DOMAIN Tail(s) : i \in Nat /\ i > 0 /\ i + 1 \in DOMAIN s /\ Tail(s)[i] = s[i + 1]
    BY <1>1, <1>2, <1>3
  <1>5. Rising(Tail(s), p)
    <2> SUFFICES ASSUME NEW i \in DOMAIN Tail(s), NEW j \in DOMAIN Tail(s), i < j,
                        SameSide(p, Tail(s)[i], Tail(s)[j])
                 PROVE  Tail(s)[i] < Tail(s)[j]
      BY DEF Rising
    <2>1. i + 1 \in DOMAIN s /\ j + 1 \in DOMAIN s /\ i + 1 < j + 1
      BY <1>4
    <2> QED
      BY <1>4, <2>1 DEF Rising
  <1>6. ASSUME NEW j \in DOMAIN Tail(s), SameSide(p, Head(s), Tail(s)[j])
        PROVE  Head(s) < Tail(s)[j]
    <2>1. 1 \in DOMAIN s /\ j + 1 \in DOMAIN s /\ 1 < j + 1 /\ Tail(s)[j] = s[j + 1]
      BY <1>2, <1>4
    <2> QED
      BY <1>2, <1>6, <2>1 DEF Rising
  <1> QED
    BY <1>5, <1>6 DEF ToSet

\* The empty sequence is rising.
LEMMA RisingEmpty == \A p : Rising(<< >>, p)
  BY DEF Rising

-----------------------------------------------------------------------------
(* What the steps change.                                                  *)

\* Steps of the gateway that touch no queue
Quiet ==
    \/ CreateRow \/ ExpireBacklog \/ TakeEvent \/ Unregister
    \/ KeepEvent \/ RouteEvent \/ DiscardBroken \/ ForgetBacklog

\* What the quiet steps of the message loop leave alone.
LEMMA QuietEffect ==
    ASSUME Quiet
    PROVE  UNCHANGED <<stage, waiting, queue, got, replayed, since, logged>>
  BY DEF Quiet, CreateRow, ExpireBacklog, TakeEvent, Unregister, KeepEvent,
             RouteEvent, DiscardBroken,
         ForgetBacklog, connVars, taskVars

\* A put of the gateway touches one queue.
Puts(c) == DeliverEvent(c) \/ SendSentinel(c)
Carried == IF phase = "deliver" THEN sent ELSE Sentinel

\* What putting an event or a sentinel into a queue changes.
LEMMA PutsEffect ==
    ASSUME TypeInv, NEW c \in Connection, Puts(c)
    PROVE  /\ phase \in {"deliver", "sentinels"} /\ Carried \in Item
           /\ UNCHANGED <<row, registered, logged, stage, waiting, got, replayed, since, sent,
                          backlog, prior, open>>
           /\ \A d \in Connection \ {c} : queue'[d] = queue[d]
           /\ queue'[c] = queue[c] \/ queue'[c] = Append(queue[c], Carried)
           /\ c \in targets /\ targets' = targets \ {c}
           /\ queue'[c] = queue[c] /\ phase = "deliver" => c \in broken'
           /\ phase = "deliver" => broken \subseteq broken' /\ broken' \subseteq broken \cup {c}
           /\ phase = "sentinels" => broken' = broken
           /\ phase = "sentinels" => phase' = "sentinels"
           /\ phase = "deliver" =>
                 phase' \in {"deliver", "discard", "idle"} /\ (targets' # {} => phase' = "deliver")
  <1>0. Carried \in Item
    BY DEF Carried, Item, TypeInv, PhaseInv
  <1>1. CASE DeliverEvent(c)
    <2>1. phase = "deliver" /\ Carried = sent
      BY <1>1 DEF DeliverEvent, Carried
    <2>2. (Put(c, sent) /\ broken' = broken) \/ (PutTimesOut(c) /\ broken' = broken \cup {c})
      BY <1>1 DEF DeliverEvent, GiveUp
    <2>3. /\ c \in targets /\ targets' = targets \ {c}
          /\ \A d \in Connection \ {c} : queue'[d] = queue[d]
          /\ \/ queue' = queue /\ broken' = broken \cup {c}
             \/ queue'[c] = Append(queue[c], Carried) /\ broken' = broken
      BY <1>0, <2>1, <2>2, PutType DEF TypeInv, PutTimesOut, Put, TypeOK
    <2>4. phase' \in {"deliver", "discard", "idle"} /\ (targets' # {} => phase' = "deliver")
      BY <1>1 DEF DeliverEvent
    <2> QED
      BY <1>0, <1>1, <2>1, <2>3, <2>4 DEF DeliverEvent, taskVars
  <1>2. CASE SendSentinel(c)
    <2>1. phase = "sentinels" /\ Carried = Sentinel /\ (Put(c, Sentinel) \/ PutTimesOut(c))
      BY <1>2 DEF SendSentinel, Carried
    <2>2. /\ c \in targets /\ targets' = targets \ {c}
          /\ \A d \in Connection \ {c} : queue'[d] = queue[d]
          /\ queue' = queue \/ queue'[c] = Append(queue[c], Carried)
      BY <1>0, <2>1, PutType DEF TypeInv
    <2> QED
      BY <1>0, <1>2, <2>1, <2>2 DEF SendSentinel, taskVars
  <1> QED
    BY <1>1, <1>2 DEF Puts

\* A step of a connection leaves the message loop and the other connections alone.
LEMMA ConnectionEffect ==
    ASSUME TypeInv, NEW c \in Connection, ConnectionStep(c)
    PROVE  /\ UNCHANGED <<row, registered, phase, sent, targets, broken>>
           /\ \A d \in Connection \ {c} :
                 /\ stage'[d] = stage[d] /\ waiting'[d] = waiting[d] /\ queue'[d] = queue[d]
                 /\ got'[d] = got[d] /\ replayed'[d] = replayed[d] /\ since'[d] = since[d]
                 /\ d \in open' <=> d \in open
           /\ stage'[c] # "none"
           /\ (row \/ logged = 0) => logged <= logged'
           /\ row \/ logged' = 0 \/ logged' = logged
  <1>1. /\ stage \in [Connection -> {"none", "opening", "reading", "draining", "gone"}]
        /\ waiting \in [Connection -> Seq(Event)] /\ queue \in [Connection -> Seq(Item)]
        /\ got \in [Connection -> Seq(Item)] /\ replayed \in [Connection -> 0 .. Final]
        /\ since \in [Connection -> [routed : -1 .. Final, logged : 0 .. Final,
                                     background : BOOLEAN]]
    BY DEF TypeInv, TypeOK
  <1>2. logged' = logged \/ ReadLog
    BY DEF ConnectionStep, Connect, QueueBacklog, StartStream, ReceiveEvent,
           ReceiveSentinel, Disconnect, DrainBacklog, taskVars
  <1>3. (row \/ logged = 0) => logged <= logged'
    BY <1>2, ReadLogType, SizeAssumption, SMTT(30) DEF TypeInv, TypeOK
  <1>4. row \/ logged' = 0 \/ logged' = logged
    BY <1>2 DEF ReadLog
  <1>5. stage'[c] # "none"
    BY <1>1 DEF ConnectionStep, Connect, QueueBacklog, StartStream, ReceiveEvent,
           ReceiveSentinel, Disconnect, DrainBacklog, Leave
  <1>6. ASSUME NEW d \in Connection \ {c}
        PROVE  /\ stage'[d] = stage[d] /\ waiting'[d] = waiting[d] /\ queue'[d] = queue[d]
               /\ got'[d] = got[d] /\ replayed'[d] = replayed[d] /\ since'[d] = since[d]
               /\ d \in open' <=> d \in open
    BY <1>1 DEF ConnectionStep, Connect, QueueBacklog, StartStream, ReceiveEvent,
           ReceiveSentinel, Disconnect, DrainBacklog, Leave
  <1>7. UNCHANGED <<row, registered, phase, sent, targets, broken>>
    BY DEF ConnectionStep, Connect, QueueBacklog, StartStream, ReceiveEvent,
           ReceiveSentinel, Disconnect, DrainBacklog, taskVars, loopVars
  <1> QED
    BY <1>3, <1>4, <1>5, <1>6, <1>7

\* Every step is one of these.
LEMMA StepKinds ==
    ASSUME [Next]_vars
    PROVE  \/ Quiet \/ UNCHANGED vars
           \/ \E c \in Connection : Puts(c) \/ ConnectionStep(c)
  BY DEF Next, LoopStep, Quiet, Puts, ConnectionStep

\* Events are only ever added to those that were routed.
LEMMA RoutedNext ==
    ASSUME TypeInv, [Next]_vars
    PROVE  /\ Routed \in 0 .. Final /\ Routed' \in Int /\ Routed <= Routed'
           /\ sent \in 0 .. Final
           /\ phase = "route" => sent \in 1 .. Final
  <1>1. sent \in 0 .. Final /\ sent \in Nat /\ Final \in Nat
    BY SizeAssumption DEF TypeInv, TypeOK
  <1>2. phase = "route" => sent \in 1 .. Final
    BY DEF TypeInv, PhaseInv, Event
  <1>3. Routed \in 0 .. Final
    BY <1>1, <1>2 DEF Routed
  <1>4. sent' \in 0 .. Final
    BY NextType DEF TypeInv, TypeOK
  <1>5. Routed' \in Int
    BY <1>4 DEF Routed
  <1>6. Routed <= Routed'
    <2>1. CASE CreateRow \/ ExpireBacklog \/ UNCHANGED vars
      BY <1>1, <2>1 DEF CreateRow, ExpireBacklog, loopVars, vars, Routed
    <2>2. CASE TakeEvent
      BY <1>1, <2>2 DEF TakeEvent, Routed
    <2>3. CASE Unregister \/ KeepEvent \/ RouteEvent \/ DiscardBroken \/ ForgetBacklog
      BY <1>1, <2>3 DEF Unregister, KeepEvent, RouteEvent, DiscardBroken, ForgetBacklog, Routed
    <2>4. ASSUME NEW c \in Connection, Puts(c)
          PROVE  Routed <= Routed'
      BY <1>1, <2>4, PutsEffect DEF Routed
    <2>5. ASSUME NEW c \in Connection, ConnectionStep(c)
          PROVE  Routed <= Routed'
      BY <1>1, <2>5, ConnectionEffect DEF Routed
    <2> QED
      BY <2>1, <2>2, <2>3, <2>4, <2>5, StepKinds DEF Quiet
  <1> QED
    BY <1>1, <1>2, <1>3, <1>5, <1>6

\* What was offered stays offered.
LEMMA OfferedNext ==
    ASSUME TypeInv, [Next]_vars, NEW d \in Connection
    PROVE  /\ Offered(d) \in Int /\ Offered(d)' \in Int /\ Offered(d) <= Offered(d)'
           /\ Offered(d) <= Routed /\ Offered(d) <= Final
  <1>1. sent \in 0 .. Final /\ sent \in Nat /\ Final \in Nat
    BY SizeAssumption DEF TypeInv, TypeOK
  <1>2. /\ Offered(d) \in Int /\ Offered(d) <= Routed /\ Offered(d) <= Final
        /\ Offered(d)' \in Int
    <2>1. sent' \in 0 .. Final
      BY NextType DEF TypeInv, TypeOK
    <2> QED
      BY <1>1, <2>1 DEF Offered, Routed
  <1>3. Offered(d) <= Offered(d)'
    <2>1. CASE CreateRow \/ ExpireBacklog \/ UNCHANGED vars
      BY <1>1, <2>1 DEF CreateRow, ExpireBacklog, loopVars, vars, Offered
    <2>2. CASE TakeEvent
      BY <1>1, <2>2 DEF TakeEvent, Offered
    <2>3. CASE Unregister \/ KeepEvent \/ RouteEvent \/ DiscardBroken \/ ForgetBacklog
      BY <1>1, <2>3
         DEF Unregister, KeepEvent, RouteEvent, DiscardBroken, ForgetBacklog, Offered
    <2>4. ASSUME NEW c \in Connection, Puts(c)
          PROVE  Offered(d) <= Offered(d)'
      BY <1>1, <2>4, PutsEffect DEF Offered
    <2>5. ASSUME NEW c \in Connection, ConnectionStep(c)
          PROVE  Offered(d) <= Offered(d)'
      BY <1>1, <2>5, ConnectionEffect DEF Offered
    <2> QED
      BY <2>1, <2>2, <2>3, <2>4, <2>5, StepKinds DEF Quiet
  <1> QED
    BY <1>2, <1>3
-----------------------------------------------------------------------------
(* Places and sentinels.                                                   *)

\* Every step keeps where an event of a connection can be.
LEMMA PlaceNext ==
    ASSUME TypeInv, PlaceInv, [Next]_vars
    PROVE  PlaceInv'
  <1>0. /\ \A d \in Connection : Placed(d)
        /\ row \/ logged = 0
        /\ phase = "sentinels" => \E c \in Connection : stage[c] # "none"
    BY DEF PlaceInv, Placed
  <1>1. \A d \in Connection : /\ Offered(d) \in Int /\ Offered(d)' \in Int
                              /\ Offered(d) <= Offered(d)'
    BY OfferedNext
  <1>2. /\ stage \in [Connection -> {"none", "opening", "reading", "draining", "gone"}]
        /\ waiting \in [Connection -> Seq(Event)] /\ queue \in [Connection -> Seq(Item)]
        /\ replayed \in [Connection -> 0 .. Final] /\ logged \in Int
        /\ since \in [Connection -> [routed : -1 .. Final, logged : 0 .. Final,
                                     background : BOOLEAN]]
    BY SizeAssumption DEF TypeInv, TypeOK
  <1>3. CASE Quiet \/ UNCHANGED vars
    <2>1. /\ UNCHANGED <<stage, waiting, queue, got, replayed, since, logged>>
          /\ row => row'
          /\ open' \cup targets' \cup broken' \subseteq open \cup targets \cup broken
          /\ phase' = "sentinels" => phase = "sentinels" \/ open # {}
      BY <1>3, QuietEffect
         DEF Quiet, CreateRow, ExpireBacklog, TakeEvent, Unregister, KeepEvent,
             RouteEvent, DiscardBroken,
             ForgetBacklog, loopVars, connVars, taskVars, vars
    <2>2. ASSUME NEW d \in Connection
          PROVE  Placed(d)'
      <3>1. since[d].routed \in Int
        BY <1>2
      <3> QED
        BY <1>0, <1>1, <2>1, <3>1 DEF Placed
    <2>3. phase' = "sentinels" => \E c \in Connection : stage'[c] # "none"
      BY <1>0, <2>1 DEF Placed, TypeInv, TypeOK
    <2> QED
      BY <1>0, <2>1, <2>2, <2>3 DEF PlaceInv, Placed
  <1>4. ASSUME NEW c \in Connection, Puts(c)
        PROVE  PlaceInv'
    <2>1. stage[c] # "none"
      BY <1>0, <1>4, PutsEffect DEF Placed
    <2>2. ASSUME NEW d \in Connection
          PROVE  Placed(d)'
      <3>1. since[d].routed \in Int
        BY <1>2
      <3>2. targets' \subseteq targets /\ broken' \subseteq broken \cup {c}
        BY <1>4, PutsEffect
      <3>3. d # c => queue'[d] = queue[d]
        BY <1>4, PutsEffect
      <3>4. UNCHANGED <<logged, stage, waiting, got, replayed, since, open>>
        BY <1>4, PutsEffect
      <3> QED
        BY <1>0, <1>1, <2>1, <3>1, <3>2, <3>3, <3>4 DEF Placed
    <2> QED
      BY <1>0, <1>4, <2>1, <2>2, PutsEffect DEF PlaceInv, Placed
  <1>5. ASSUME NEW c \in Connection, ConnectionStep(c)
        PROVE  PlaceInv'
    <2>1. /\ UNCHANGED <<row, registered, phase, sent, targets, broken>>
          /\ stage'[c] # "none" /\ logged <= logged' /\ (row' \/ logged' = 0)
      BY <1>0, <1>5, ConnectionEffect
    <2>2. ASSUME NEW d \in Connection \ {c}
          PROVE  Placed(d)'
      <3>1. /\ stage'[d] = stage[d] /\ waiting'[d] = waiting[d] /\ queue'[d] = queue[d]
            /\ got'[d] = got[d] /\ replayed'[d] = replayed[d] /\ since'[d] = since[d]
            /\ d \in open' <=> d \in open
        BY <1>5, ConnectionEffect
      <3>2. since[d].routed \in Int /\ since[d].logged \in Int /\ logged' \in Int
        <4>1. TypeOK'
          BY NextType DEF TypeInv
        <4>2. logged' \in 0 .. Final
          BY <4>1 DEF TypeOK
        <4> QED
          BY <1>2, <4>2, SizeAssumption
      <3> QED
        BY <1>0, <1>1, <1>2, <2>1, <3>1, <3>2, SMTT(30) DEF Placed
    <2>3. Placed(c)'
      <3>0. logged' \in Int /\ logged' >= 0
        BY NextType, SizeAssumption DEF TypeInv, TypeOK
      <3>1. CASE Connect(c)
        <4>1. since'[c] = [routed |-> Routed, background |-> Background /\ row,
                           logged |-> IF c \in Reconnecting THEN logged' ELSE 0]
          BY <1>2, <3>1 DEF Connect
        <4>2. stage'[c] = "opening" /\ c \notin targets
          BY <1>0, <1>2, <3>1 DEF Connect, Placed
        <4>3. Offered(c)' = Routed /\ Routed \in Nat
          <5>1. Routed \in 0 .. Final
            BY RoutedNext
          <5> QED
            BY <2>1, <4>2, <5>1, SizeAssumption DEF Offered, Routed
        <4> QED
          BY <3>0, <4>1, <4>2, <4>3 DEF Placed
      <3>2. CASE StartStream(c)
        <4>1. stage[c] = "opening" /\ stage'[c] = "reading" /\ since' = since
              /\ waiting[c] = << >> /\ waiting' = waiting
          BY <1>2, <3>2 DEF StartStream
        <4>2. c \in Reconnecting => replayed'[c] = logged'
          BY <1>2, <3>2 DEF StartStream
        <4>3. since[c].routed \in 0 .. Offered(c) /\ since[c].logged <= logged
              /\ since[c].routed \in Int /\ since[c].logged \in Int
          BY <1>0, <1>2, <4>1, SizeAssumption DEF Placed
        <4> QED
          BY <1>1, <1>2, <2>1, <3>0, <4>1, <4>2, <4>3 DEF Placed
      <3>3. CASE QueueBacklog(c) \/ ReceiveEvent(c) \/ ReceiveSentinel(c) \/ Disconnect(c)
                   \/ DrainBacklog(c)
        <4>1. /\ stage[c] # "none" /\ since' = since /\ replayed' = replayed
              /\ stage'[c] = "reading" => stage[c] = "reading" /\ waiting' = waiting
          BY <1>2, <3>3 DEF QueueBacklog, ReceiveEvent, ReceiveSentinel, Disconnect,
                            DrainBacklog, Leave
        <4>2. since[c].routed \in 0 .. Offered(c) /\ since[c].logged <= logged
              /\ since[c].routed \in Int /\ since[c].logged \in Int
          BY <1>0, <1>2, <4>1, SizeAssumption DEF Placed
        <4> QED
          BY <1>0, <1>1, <1>2, <2>1, <3>0, <4>1, <4>2 DEF Placed
      <3> QED
        BY <1>5, <3>1, <3>2, <3>3 DEF ConnectionStep
    <2> QED
      BY <2>1, <2>2, <2>3 DEF PlaceInv, Placed
  <1> QED
    BY <1>3, <1>4, <1>5, StepKinds

\* Every step keeps what a sentinel in a queue means.
LEMMA SentinelNext ==
    ASSUME TypeInv, PlaceInv, SentinelInv, [Next]_vars
    PROVE  SentinelInv'
  <1>0. /\ queue \in [Connection -> Seq(Item)] /\ waiting \in [Connection -> Seq(Event)]
        /\ got \in [Connection -> Seq(Item)]
        /\ stage \in [Connection -> {"none", "opening", "reading", "draining", "gone"}]
    BY DEF TypeInv, TypeOK
  <1>1. CASE Quiet \/ UNCHANGED vars
    <2>1. UNCHANGED <<stage, queue, got>>
      BY <1>1, QuietEffect DEF vars, connVars
    <2>2. phase \in {"sentinels", "done"} => phase' \in {"sentinels", "done"} /\ targets' = targets
      BY <1>1 DEF Quiet, CreateRow, ExpireBacklog, TakeEvent, Unregister, KeepEvent, RouteEvent,
                  DiscardBroken, ForgetBacklog, loopVars, vars
    <2> QED
      BY <2>1, <2>2 DEF SentinelInv
  <1>2. ASSUME NEW c \in Connection, Puts(c)
        PROVE  SentinelInv'
    <2>1. ASSUME NEW d \in Connection, Sentinel \in ToSet(queue'[d])
          PROVE  phase' \in {"sentinels", "done"} /\ d \notin targets'
      <3>1. CASE Sentinel \in ToSet(queue[d])
        BY <1>2, <3>1, PutsEffect DEF SentinelInv
      <3>2. CASE Sentinel \notin ToSet(queue[d])
        <4>1. d = c /\ queue'[c] = Append(queue[c], Carried)
          BY <1>2, <2>1, <3>2, PutsEffect
        <4>2. Carried = Sentinel
          BY <1>0, <1>2, <2>1, <3>2, <4>1, AppendSet, PutsEffect
        <4>3. phase = "sentinels"
          BY <1>2, <4>2, PutsEffect
             DEF Carried, TypeInv, PhaseInv, Event, Sentinel
        <4> QED
          BY <1>2, <4>1, <4>3, PutsEffect
      <3> QED
        BY <3>1, <3>2
    <2> QED
      BY <1>2, <2>1, PutsEffect DEF SentinelInv
  <1>3. ASSUME NEW c \in Connection, ConnectionStep(c)
        PROVE  SentinelInv'
    <2>1. ASSUME NEW d \in Connection \ {c}
          PROVE  /\ Sentinel \in ToSet(got'[d]) => stage'[d] \in {"draining", "gone"}
                 /\ Sentinel \in ToSet(queue'[d]) =>
                       phase' \in {"sentinels", "done"} /\ d \notin targets'
      BY <1>3, ConnectionEffect DEF SentinelInv
    <2>2. Sentinel \in ToSet(queue'[c]) => Sentinel \in ToSet(queue[c])
      <3>1. CASE Connect(c) \/ StartStream(c) \/ DrainBacklog(c)
        BY <3>1 DEF Connect, StartStream, DrainBacklog
      <3>2. CASE QueueBacklog(c)
        <4>1. queue'[c] = Append(queue[c], Head(waiting[c])) /\ waiting[c] # << >>
          BY <1>0, <3>2 DEF QueueBacklog
        <4>2. Head(waiting[c]) \in Event /\ Sentinel \notin Event /\ Event \subseteq Item
          <5>1. Head(waiting[c]) \in Event
            BY <1>0, <4>1, TailSet
          <5> QED
            BY <5>1 DEF Event, Sentinel, Item
        <4> QED
          BY <1>0, <4>1, <4>2, AppendSet
      <3>3. CASE ReceiveEvent(c)
        <4>1. queue'[c] = Tail(queue[c]) /\ queue[c] # << >>
          BY <1>0, <3>3 DEF ReceiveEvent
        <4> QED
          BY <1>0, <4>1, TailSet
      <3>4. CASE ReceiveSentinel(c) \/ Disconnect(c)
        <4>1. queue'[c] = << >>
          BY <1>0, <3>4 DEF ReceiveSentinel, Disconnect, Leave
        <4> QED
          BY <4>1, SetOfSeq
      <3> QED
        BY <1>3, <3>1, <3>2, <3>3, <3>4 DEF ConnectionStep
    <2>3. Sentinel \in ToSet(got'[c]) => stage'[c] \in {"draining", "gone"}
      <3>1. CASE Connect(c) \/ StartStream(c) \/ DrainBacklog(c) \/ QueueBacklog(c) \/ Disconnect(c)
        <4>1. /\ got' = got
              /\ stage[c] \in {"draining", "gone"} => stage'[c] \in {"draining", "gone"}
          BY <1>0, <3>1 DEF Connect, StartStream, DrainBacklog, QueueBacklog, Disconnect, Leave
        <4> QED
          BY <4>1 DEF SentinelInv
      <3>2. CASE ReceiveEvent(c)
        <4>1. /\ got'[c] = Append(got[c], Head(queue[c])) /\ queue[c] # << >>
              /\ Head(queue[c]) # Sentinel /\ stage[c] = "reading"
          BY <1>0, <3>2 DEF ReceiveEvent
        <4>2. Sentinel \notin ToSet(got[c]) /\ Head(queue[c]) \in Item
          BY <1>0, <4>1, TailSet DEF SentinelInv
        <4> QED
          BY <1>0, <4>1, <4>2, AppendSet
      <3>3. CASE ReceiveSentinel(c)
        BY <1>0, <3>3 DEF ReceiveSentinel, Leave
      <3> QED
        BY <1>3, <3>1, <3>2, <3>3 DEF ConnectionStep
    <2> QED
      BY <1>3, <2>1, <2>2, <2>3, ConnectionEffect DEF SentinelInv
  <1> QED
    BY <1>1, <1>2, <1>3, StepKinds

-----------------------------------------------------------------------------
(* The order of events.                                                    *)

\* The backlog stays a rising sequence of events that were emitted.
LEMMA BacklogNext ==
    ASSUME TypeInv, BacklogInv, [Next]_vars
    PROVE  BacklogInv'
  <1>0. backlog \in Seq(Event) /\ Event \subseteq Int
    BY SizeAssumption DEF TypeInv, TypeOK, Event
  <1>1. /\ Routed \in Int /\ Routed' \in Int /\ Routed <= Routed'
        /\ \A x \in ToSet(backlog) : x \in Int /\ x <= Routed
    <2>1. Routed \in Int /\ Routed' \in Int /\ Routed <= Routed'
      BY RoutedNext
    <2>2. ToSet(backlog) \subseteq Event
      BY <1>0, SetOfSeq
    <2> QED
      BY <1>0, <2>1, <2>2 DEF BacklogInv
  <1>2. CASE backlog' = backlog
    <2>1. Rising(backlog', Final) /\ ToSet(backlog') = ToSet(backlog)
      BY <1>2 DEF BacklogInv
    <2>2. \A x \in ToSet(backlog) : x <= Routed'
      BY <1>1
    <2> QED
      BY <2>1, <2>2 DEF BacklogInv
  <1>3. CASE backlog' = << >>
    BY <1>3, SetOfSeq, RisingEmpty DEF BacklogInv
  <1>4. CASE KeepEvent /\ AddToBacklog(sent)
    <2>1. phase = "route" /\ phase' = "idle" /\ sent' = sent /\ sent \in Event
      BY <1>4 DEF KeepEvent, TypeInv, PhaseInv
    <2>2. backlog' = backlog \/ backlog' = Append(backlog, sent)
      BY <1>4 DEF AddToBacklog
    <2>3. Routed = sent - 1 /\ Routed' = sent /\ sent \in Int
      BY <1>0, <2>1 DEF Routed
    <2>4. \A x \in ToSet(backlog) : x < sent /\ x \in Int
      BY <1>1, <2>3
    <2>5. ASSUME backlog' = Append(backlog, sent)
          PROVE  BacklogInv'
      <3>1. ToSet(backlog') = ToSet(backlog) \cup {sent}
        BY <1>0, <2>1, <2>5, AppendSet
      <3>2. Rising(backlog', Final)
        BY <1>0, <2>1, <2>4, <2>5, RisingAppend DEF BacklogInv
      <3> QED
        BY <2>3, <2>4, <3>1, <3>2 DEF BacklogInv
    <2> QED
      BY <1>2, <2>2, <2>5
  <1>5. \/ backlog' = backlog \/ backlog' = << >>
        \/ KeepEvent /\ AddToBacklog(sent)
    <2>1. CASE Quiet \/ UNCHANGED vars
      BY <2>1 DEF Quiet, CreateRow, ExpireBacklog, TakeEvent, Unregister, KeepEvent,
             RouteEvent, DiscardBroken,
                  ForgetBacklog, vars
    <2>2. ASSUME NEW c \in Connection, Puts(c)
          PROVE  backlog' = backlog
      BY <2>2, PutsEffect
    <2>3. ASSUME NEW c \in Connection, ConnectionStep(c)
          PROVE  backlog' = backlog \/ backlog' = << >>
      BY <2>3 DEF ConnectionStep, Connect, QueueBacklog, StartStream, ReceiveEvent,
                  ReceiveSentinel, Disconnect, DrainBacklog
    <2> QED
      BY <2>1, <2>2, <2>3, StepKinds
  <1> QED
    BY <1>2, <1>3, <1>4, <1>5

\* The types that the order of a connection's events needs
LEMMA HeldType ==
    ASSUME TypeInv, NEW d \in Connection
    PROVE  /\ got[d] \in Seq(Item) /\ queue[d] \in Seq(Item) /\ waiting[d] \in Seq(Event)
           /\ Held(d) \subseteq Int /\ ToSet(waiting[d]) \subseteq Event
           /\ ToSet(queue[d]) \subseteq Item /\ ToSet(got[d]) \subseteq Item
           /\ Event \subseteq Item /\ Item \subseteq Int /\ Sentinel \notin Event
           /\ since[d].routed \in Int /\ since[d].routed <= Final
  <1>1. /\ got[d] \in Seq(Item) /\ queue[d] \in Seq(Item) /\ waiting[d] \in Seq(Event)
        /\ since[d] \in [routed : -1 .. Final, logged : 0 .. Final, background : BOOLEAN]
    BY DEF TypeInv, TypeOK
  <1>2. Event \subseteq Item /\ Item \subseteq Int /\ Sentinel \notin Event
    BY SizeAssumption DEF Event, Item, Sentinel
  <1>3. since[d].routed \in Int /\ since[d].routed <= Final
    BY <1>1, SizeAssumption
  <1>4. /\ ToSet(waiting[d]) \subseteq Event /\ ToSet(queue[d]) \subseteq Item
        /\ ToSet(got[d]) \subseteq Item
    BY <1>1, SetOfSeq
  <1> QED
    BY <1>1, <1>2, <1>3, <1>4 DEF Held

\* Nothing of d moved.
Same(d) ==
    /\ got'[d] = got[d] /\ queue'[d] = queue[d] /\ waiting'[d] = waiting[d]
    /\ since'[d] = since[d]

\* A connection that a step does not touch stays in order.
LEMMA InOrderSame ==
    ASSUME TypeInv, [Next]_vars, NEW d \in Connection, InOrder(d), Same(d)
    PROVE  InOrder(d)'
  <1>1. Offered(d) \in Int /\ Offered(d)' \in Int /\ Offered(d) <= Offered(d)'
    BY OfferedNext
  <1>2. Held(d)' = Held(d) /\ Held(d) \subseteq Int
    BY HeldType DEF Held, Same
  <1>3. \A x \in Held(d) : x <= Offered(d)'
    BY <1>1, <1>2 DEF InOrder
  <1> QED
    BY <1>2, <1>3 DEF InOrder, Same

\* What is put into a queue comes after what is in it.
LEMMA InOrderPuts ==
    ASSUME TypeInv, PlaceInv, NEW c \in Connection, Puts(c), [Next]_vars, InOrder(c),
           queue'[c] = Append(queue[c], Carried)
    PROVE  InOrder(c)'
  <1> DEFINE p == since[c].routed
  <1>1. /\ phase \in {"deliver", "sentinels"} /\ c \in targets /\ Carried \in Item
        /\ UNCHANGED <<stage, waiting, got, since>>
    BY PutsEffect
  <1>2. /\ Offered(c) \in Int /\ Offered(c)' \in Int /\ Offered(c) <= Offered(c)'
        /\ p \in 0 .. Offered(c) /\ p \in Int
    <2>1. stage[c] # "none"
      BY <1>1 DEF PlaceInv, Placed
    <2> QED
      BY <2>1, OfferedNext, HeldType DEF PlaceInv, Placed
  <1>3. /\ got[c] \in Seq(Item) /\ queue[c] \in Seq(Item)
        /\ Held(c) \subseteq Int /\ Item \subseteq Int
        /\ ToSet(queue[c]) \subseteq Held(c) /\ ToSet(got[c]) \subseteq Held(c)
    BY HeldType DEF Held
  <1>4. ToSet(queue'[c]) = ToSet(queue[c]) \cup {Carried}
    BY <1>1, <1>3, AppendSet
  <1>5. Held(c)' = Held(c) \cup {Carried}
    BY <1>1, <1>4 DEF Held
  <1>6. /\ Carried <= Offered(c)'
        /\ \A x \in Held(c) : SameSide(p, x, Carried) => x < Carried
        /\ Carried = Sentinel \/ Carried > p
    <2>1. CASE phase = "deliver"
      <3>1. Carried = sent /\ Offered(c) = sent - 1 /\ sent \in Int
        BY <1>1, <2>1, <1>3 DEF Carried, Offered
      <3>2. Offered(c)' = sent
        <4>1. sent' = sent /\ c \notin targets' /\ phase' \in {"deliver", "discard", "idle"}
          BY <2>1, PutsEffect
        <4> QED
          BY <4>1 DEF Offered
      <3>3. \A x \in Held(c) : x <= sent - 1 /\ x \in Int
        BY <1>3, <3>1 DEF InOrder
      <3> QED
        BY <1>2, <3>1, <3>2, <3>3
    <2>2. CASE phase # "deliver"
      <3>1. Carried = Sentinel /\ 0 <= Offered(c)'
        BY <1>2, <2>2 DEF Carried
      <3> QED
        BY <3>1 DEF SameSide, Sentinel
    <2> QED
      BY <2>1, <2>2
  <1>7. Rising(queue'[c], p)
    BY <1>1, <1>3, <1>6, RisingAppend DEF InOrder
  <1>8. \A x \in Held(c)' : x <= Offered(c)'
    <2>1. \A x \in Held(c) : x <= Offered(c) /\ x \in Int
      BY <1>3 DEF InOrder
    <2> QED
      BY <1>2, <1>5, <1>6, <2>1
  <1>9. \A x \in ToSet(got[c]), y \in ToSet(queue'[c]) : SameSide(p, x, y) => x < y
    BY <1>3, <1>4, <1>6 DEF InOrder
  <1>10. \A x \in Held(c)', y \in ToSet(waiting[c]) : SameSide(p, x, y) => x < y
    <2>1. \A y \in ToSet(waiting[c]) : ~SameSide(p, Carried, y)
      <3>1. \A y \in ToSet(waiting[c]) : y <= p
        BY DEF InOrder
      <3>2. Carried # Sentinel => ~(Carried <= p)
        BY <1>1, <1>2, <1>3, <1>6
      <3> QED
        BY <3>1, <3>2 DEF SameSide
    <2> QED
      BY <1>5, <2>1 DEF InOrder
  <1> QED
    BY <1>1, <1>7, <1>8, <1>9, <1>10 DEF InOrder

\* The steps of a connection keep its order.
LEMMA InOrderConnection ==
    ASSUME TypeInv, PlaceInv, BacklogInv, NEW c \in Connection, ConnectionStep(c), [Next]_vars,
           stage[c] # "none" => InOrder(c)
    PROVE  InOrder(c)'
  <1> DEFINE p == since[c].routed
  <1>0. /\ queue \in [Connection -> Seq(Item)] /\ waiting \in [Connection -> Seq(Event)]
        /\ got \in [Connection -> Seq(Item)] /\ backlog \in Seq(Event)
        /\ since \in [Connection -> [routed : -1 .. Final, logged : 0 .. Final,
                                     background : BOOLEAN]]
    BY DEF TypeInv, TypeOK
  <1>1. /\ Offered(c) \in Int /\ Offered(c)' \in Int /\ Offered(c) <= Offered(c)'
        /\ p \in Int /\ (stage[c] # "none" => p \in 0 .. Offered(c))
    BY OfferedNext, HeldType DEF PlaceInv, Placed
  <1>2. /\ got[c] \in Seq(Item) /\ queue[c] \in Seq(Item) /\ waiting[c] \in Seq(Event)
        /\ Held(c) \subseteq Int /\ ToSet(waiting[c]) \subseteq Event
        /\ Event \subseteq Item /\ Item \subseteq Int /\ Sentinel \notin Event
        /\ ToSet(queue[c]) \subseteq Held(c) /\ ToSet(got[c]) \subseteq Held(c)
    BY HeldType DEF Held
  <1>3. CASE Connect(c)
    <2>1. /\ got'[c] = << >> /\ queue'[c] = << >> /\ waiting'[c] = backlog
          /\ since'[c].routed = Routed
      BY <1>0, <1>3 DEF Connect, PlaceInv, Placed
    <2>2. Held(c)' = {}
      BY <2>1, SetOfSeq DEF Held
    <2>3. ToSet(got'[c]) = {} /\ ToSet(queue'[c]) = {}
      BY <2>1, SetOfSeq
    <2> QED
      BY <2>1, <2>2, <2>3, RisingEmpty DEF InOrder, BacklogInv
  <1>4. CASE QueueBacklog(c)
    <2> DEFINE e == Head(waiting[c])
    <2>1. /\ waiting[c] # << >> /\ InOrder(c) /\ got' = got /\ since' = since
          /\ queue'[c] = Append(queue[c], e) /\ waiting'[c] = Tail(waiting[c])
          /\ stage[c] # "none"
      BY <1>0, <1>4 DEF QueueBacklog
    <2>2. /\ e \in Event /\ ToSet(waiting[c]) = {e} \cup ToSet(waiting'[c])
          /\ Rising(waiting'[c], Final)
          /\ \A y \in ToSet(waiting'[c]) : SameSide(Final, e, y) => e < y
      BY <1>2, <2>1, TailSet, RisingTail DEF InOrder
    <2>3. e \in Item /\ e <= p /\ \A x \in Held(c) : SameSide(p, x, e) => x < e
      BY <1>2, <2>1, <2>2 DEF InOrder
    <2>4. ToSet(queue'[c]) = ToSet(queue[c]) \cup {e}
      BY <1>2, <2>1, <2>3, AppendSet
    <2>5. Held(c)' = Held(c) \cup {e}
      BY <2>1, <2>4 DEF Held
    <2>6. Rising(queue'[c], p)
      BY <1>2, <2>1, <2>3, RisingAppend DEF InOrder
    <2>7. \A x \in Held(c)' : x <= Offered(c)'
      <3>1. \A x \in Held(c) : x <= Offered(c) /\ x \in Int
        BY <1>2, <2>1 DEF InOrder
      <3>2. e \in Int /\ p <= Offered(c)
        <4>1. p \in 0 .. Offered(c)
          BY <1>1, <2>1
        <4>2. e \in Int
          BY <1>2, <2>2
        <4> QED
          BY <1>1, <4>1, <4>2
      <3> QED
        BY <1>1, <2>3, <2>5, <3>1, <3>2
    <2>8. \A x \in ToSet(got[c]), y \in ToSet(queue'[c]) : SameSide(p, x, y) => x < y
      BY <1>2, <2>1, <2>3, <2>4 DEF InOrder
    <2>9. \A x \in Held(c)', y \in ToSet(waiting'[c]) : SameSide(p, x, y) => x < y
      <3>1. \A y \in ToSet(waiting'[c]) : SameSide(Final, e, y)
        BY <1>2, <2>2, SizeAssumption DEF SameSide, Event
      <3> QED
        BY <2>1, <2>2, <2>5, <3>1 DEF InOrder
    <2>10. \A x \in ToSet(waiting'[c]) : x <= p
      BY <2>1, <2>2 DEF InOrder
    <2> QED
      BY <2>1, <2>2, <2>6, <2>7, <2>8, <2>9, <2>10 DEF InOrder
  <1>5. CASE StartStream(c) \/ DrainBacklog(c)
    <2>1. stage[c] # "none" /\ Same(c)
      BY <1>5 DEF StartStream, DrainBacklog, Same
    <2> QED
      BY <2>1, InOrderSame
  <1>6. CASE ReceiveEvent(c)
    <2> DEFINE e == Head(queue[c])
    <2>1. /\ queue[c] # << >> /\ InOrder(c) /\ waiting' = waiting /\ since' = since
          /\ got'[c] = Append(got[c], e) /\ queue'[c] = Tail(queue[c])
      BY <1>0, <1>6 DEF ReceiveEvent
    <2>2. /\ e \in Item /\ ToSet(queue[c]) = {e} \cup ToSet(queue'[c])
          /\ Rising(queue'[c], p)
          /\ \A y \in ToSet(queue'[c]) : SameSide(p, e, y) => e < y
      BY <1>2, <2>1, TailSet, RisingTail DEF InOrder
    <2>3. ToSet(got'[c]) = ToSet(got[c]) \cup {e}
      BY <1>2, <2>1, <2>2, AppendSet
    <2>4. Held(c)' = Held(c)
      BY <2>2, <2>3 DEF Held
    <2>5. \A x \in ToSet(got[c]) : SameSide(p, x, e) => x < e
      BY <2>1, <2>2 DEF InOrder
    <2>6. Rising(got'[c], p)
      BY <1>2, <2>1, <2>2, <2>5, RisingAppend DEF InOrder
    <2>7. \A x \in Held(c) : x <= Offered(c)'
      <3>1. \A x \in Held(c) : x <= Offered(c) /\ x \in Int
        BY <1>2, <2>1 DEF InOrder
      <3> QED
        BY <1>1, <3>1
    <2>8. \A x \in ToSet(got'[c]), y \in ToSet(queue'[c]) : SameSide(p, x, y) => x < y
      BY <2>1, <2>2, <2>3 DEF InOrder
    <2> QED
      BY <2>1, <2>2, <2>4, <2>6, <2>7, <2>8 DEF InOrder
  <1>7. CASE ReceiveSentinel(c) \/ Disconnect(c)
    <2>1. /\ InOrder(c) /\ waiting' = waiting /\ since' = since /\ queue'[c] = << >>
          /\ got'[c] = got[c] \/ got'[c] = Append(got[c], Sentinel)
      BY <1>0, <1>7 DEF ReceiveSentinel, Disconnect, Leave
    <2>2. stage[c] # "none" /\ 0 <= Offered(c)'
      BY <1>1, <1>7 DEF ReceiveSentinel, Disconnect
    <2>3. ToSet(queue'[c]) = {} /\ Rising(queue'[c], p)
      BY <2>1, SetOfSeq, RisingEmpty
    <2>4. Sentinel \in Item
      BY DEF Item
    <2>5. ToSet(got'[c]) \subseteq ToSet(got[c]) \cup {Sentinel}
      <3>1. ToSet(Append(got[c], Sentinel)) = ToSet(got[c]) \cup {Sentinel}
        BY <1>2, <2>4, AppendSet
      <3> QED
        BY <2>1, <3>1
    <2>6. Rising(got'[c], p)
      BY <1>2, <2>1, <2>4, RisingAppend DEF InOrder, SameSide
    <2>7. Held(c)' \subseteq Held(c) \cup {Sentinel}
      BY <2>3, <2>5 DEF Held
    <2>8. \A x \in Held(c)' : x <= Offered(c)'
      <3>1. \A x \in Held(c) : x <= Offered(c) /\ x \in Int
        BY <1>2, <2>1 DEF InOrder
      <3> QED
        BY <1>1, <2>2, <2>7, <3>1 DEF Sentinel
    <2>9. \A x \in Held(c)', y \in ToSet(waiting[c]) : SameSide(p, x, y) => x < y
      BY <2>1, <2>7 DEF InOrder, SameSide
    <2> QED
      BY <2>1, <2>3, <2>6, <2>8, <2>9 DEF InOrder
  <1> QED
    BY <1>3, <1>4, <1>5, <1>6, <1>7 DEF ConnectionStep

\* Every step keeps the order of every connection.
LEMMA OrderNext == OrderInv /\ [Next]_vars => OrderInv'
  <1> SUFFICES ASSUME OrderInv, [Next]_vars
               PROVE  OrderInv'
    OBVIOUS
  <1>1. TypeInv /\ PlaceInv /\ SentinelInv /\ BacklogInv
    BY DEF OrderInv
  <1>2. TypeInv' /\ PlaceInv' /\ SentinelInv' /\ BacklogInv'
    BY <1>1, NextType, PlaceNext, SentinelNext, BacklogNext
  <1>3. ASSUME NEW d \in Connection, stage'[d] # "none"
        PROVE  InOrder(d)'
    <2>1. CASE Quiet \/ UNCHANGED vars
      <3>1. Same(d) /\ stage' = stage
        BY <2>1, QuietEffect DEF Same, vars, connVars
      <3> QED
        BY <1>1, <1>3, <3>1, InOrderSame DEF OrderInv
    <2>2. ASSUME NEW c \in Connection, Puts(c)
          PROVE  InOrder(d)'
      <3>1. stage' = stage /\ UNCHANGED <<waiting, got, since>>
        BY <1>1, <2>2, PutsEffect
      <3>2. InOrder(d)
        BY <1>3, <3>1 DEF OrderInv
      <3>3. CASE queue'[d] = queue[d]
        BY <1>1, <3>1, <3>2, <3>3, InOrderSame DEF Same
      <3>4. CASE queue'[d] # queue[d]
        <4>1. d = c /\ queue'[c] = Append(queue[c], Carried)
          BY <1>1, <2>2, <3>4, PutsEffect
        <4> QED
          BY <1>1, <2>2, <3>2, <4>1, InOrderPuts
      <3> QED
        BY <3>3, <3>4
    <2>3. ASSUME NEW c \in Connection, ConnectionStep(c)
          PROVE  InOrder(d)'
      <3>1. CASE d = c
        BY <1>1, <2>3, <3>1, InOrderConnection DEF OrderInv
      <3>2. CASE d # c
        <4>1. Same(d) /\ stage'[d] = stage[d]
          BY <1>1, <2>3, <3>2, ConnectionEffect DEF Same
        <4> QED
          BY <1>1, <1>3, <4>1, InOrderSame DEF OrderInv
      <3> QED
        BY <3>1, <3>2
    <2> QED
      BY <2>1, <2>2, <2>3, StepKinds
  <1> QED
    BY <1>2, <1>3 DEF OrderInv

\* No connection has anything at first.
LEMMA OrderInit == Init => OrderInv
  <1> SUFFICES ASSUME Init PROVE OrderInv
    OBVIOUS
  <1>1. TypeInv
    BY InitType
  <1>2. \A c \in Connection : /\ stage[c] = "none" /\ waiting[c] = << >> /\ queue[c] = << >>
                              /\ got[c] = << >> /\ since[c].routed = -1
    BY DEF Init
  <1>3. PlaceInv
    BY <1>2 DEF Init, PlaceInv, Placed
  <1>4. SentinelInv
    BY <1>2, SetOfSeq DEF SentinelInv
  <1>5. BacklogInv
    BY SetOfSeq, RisingEmpty DEF Init, BacklogInv
  <1> QED
    BY <1>1, <1>2, <1>3, <1>4, <1>5 DEF OrderInv

-----------------------------------------------------------------------------
(* Each client sees an EventFeed.                                          *)

FeedSince == [c \in Connection |-> since[c].routed]
FeedStream == [c \in Connection |-> Shown(c)]

\* The steps of the gateway emit at most one event and show nothing.
LEMMA GatewayFeed ==
    ASSUME OrderInv, Quiet \/ UNCHANGED vars \/ (\E c \in Connection : Puts(c))
    PROVE  /\ UNCHANGED <<since, got>>
           /\ Routed' = Routed \/ (Routed < Final /\ Routed' = Routed + 1)
  <1>1. TypeInv /\ sent \in 0 .. Final /\ Final \in Nat
    BY SizeAssumption DEF OrderInv, TypeInv, TypeOK
  <1>2. phase = "route" => sent \in 1 .. Final
    BY <1>1 DEF TypeInv, PhaseInv, Event
  <1>3. CASE Quiet \/ UNCHANGED vars
    <2>1. UNCHANGED <<since, got>>
      BY <1>3, QuietEffect DEF vars, connVars
    <2>2. CASE CreateRow \/ ExpireBacklog \/ UNCHANGED vars
      BY <2>1, <2>2 DEF CreateRow, ExpireBacklog, loopVars, vars, Routed
    <2>3. CASE TakeEvent
      BY <1>1, <2>1, <2>3 DEF TakeEvent, Routed
    <2>4. CASE KeepEvent \/ RouteEvent
      BY <1>1, <1>2, <2>1, <2>4 DEF KeepEvent, RouteEvent, Routed
    <2>5. CASE Unregister \/ DiscardBroken \/ ForgetBacklog
      BY <2>1, <2>5 DEF Unregister, DiscardBroken, ForgetBacklog, Routed
    <2> QED
      BY <1>3, <2>2, <2>3, <2>4, <2>5 DEF Quiet
  <1>4. ASSUME NEW c \in Connection, Puts(c)
        PROVE  UNCHANGED <<since, got>> /\ Routed' = Routed
    BY <1>1, <1>4, PutsEffect DEF Routed
  <1> QED
    BY <1>3, <1>4

\* The sentinel that ends a stream is not shown.
LEMMA FrontOfAppend ==
    ASSUME NEW S, NEW s \in Seq(S), NEW e \in S
    PROVE  Front(Append(s, e)) = s
  <1> DEFINE r == Append(s, e)
  <1>1. Len(s) \in Nat /\ DOMAIN s = 1 .. Len(s)
    BY LenProperties
  <1>2. r \in Seq(S) /\ Len(r) = Len(s) + 1 /\ \A i \in 1 .. Len(s) : r[i] = s[i]
    BY AppendProperties
  <1>3. \A i \in 1 .. Len(s) : r[i] \in S
    BY <1>2, ElementOfSeq
  <1>4. /\ SubSeq(r, 1, Len(s)) \in Seq(S)
        /\ Len(SubSeq(r, 1, Len(s))) = Len(s)
        /\ \A i \in 1 .. Len(s) : SubSeq(r, 1, Len(s))[i] = r[i]
    <2>1. 1 \in Int /\ Len(s) \in Int
      BY <1>1
    <2> HIDE DEF r
    <2>2. /\ SubSeq(r, 1, Len(s)) \in Seq(S)
          /\ Len(SubSeq(r, 1, Len(s))) = IF 1 <= Len(s) THEN Len(s) - 1 + 1 ELSE 0
          /\ \A i \in 1 .. Len(s) - 1 + 1 : SubSeq(r, 1, Len(s))[i] = r[1 + i - 1]
      BY <1>3, <2>1, SubSeqProperties
    <2> QED
      BY <1>1, <2>2
  <1>5. SubSeq(r, 1, Len(s)) = s
    BY <1>1, <1>2, <1>4, SeqEqual
  <1>6. Front(r) = SubSeq(r, 1, Len(s))
    <2>1. Len(r) - 1 = Len(s)
      BY <1>1, <1>2
    <2> QED
      BY <2>1 DEF Front
  <1> QED
    BY <1>5, <1>6

\* A step of a connection subscribes, shows the next event, or changes nothing.
LEMMA ConnectionFeed ==
    ASSUME OrderInv, NEW c \in Connection, ConnectionStep(c)
    PROVE  /\ Routed' = Routed
           /\ \/ FeedSince' = FeedSince /\ FeedStream' = FeedStream
              \/ /\ FeedSince[c] = -1 /\ FeedSince' = [FeedSince EXCEPT ![c] = Routed]
                 /\ FeedStream' = FeedStream
              \/ \E e \in 1 .. Final :
                    /\ FeedSince[c] # -1 /\ e <= Routed
                    /\ \A i \in DOMAIN FeedStream[c] :
                          (FeedStream[c][i] <= FeedSince[c]) = (e <= FeedSince[c])
                             => FeedStream[c][i] < e
                    /\ FeedStream' = [FeedStream EXCEPT ![c] = Append(@, e)]
                    /\ FeedSince' = FeedSince
  <1>0. /\ TypeInv /\ Final \in Nat
        /\ got \in [Connection -> Seq(Item)] /\ queue \in [Connection -> Seq(Item)]
        /\ since \in [Connection -> [routed : -1 .. Final, logged : 0 .. Final,
                                     background : BOOLEAN]]
    BY SizeAssumption DEF OrderInv, TypeInv, TypeOK
  <1>1. Routed' = Routed
    BY <1>0, ConnectionEffect DEF Routed
  <1>2. CASE QueueBacklog(c) \/ StartStream(c) \/ Disconnect(c) \/ DrainBacklog(c)
    BY <1>1, <1>2 DEF QueueBacklog, StartStream, Disconnect, DrainBacklog,
                      FeedSince, FeedStream, Shown
  <1>3. CASE Connect(c)
    <2>1. got' = got /\ FeedSince[c] = -1
      BY <1>3 DEF Connect, OrderInv, PlaceInv, Placed, FeedSince
    <2>2. FeedSince' = [FeedSince EXCEPT ![c] = Routed]
      BY <1>0, <1>3 DEF Connect, FeedSince
    <2> QED
      BY <1>1, <2>1, <2>2 DEF FeedStream, Shown
  <1>4. CASE ReceiveSentinel(c)
    <2>1. got' = [got EXCEPT ![c] = Append(@, Sentinel)] /\ since' = since
      BY <1>4 DEF ReceiveSentinel
    <2>2. Sentinel \notin ToSet(got[c]) /\ Sentinel \in Item
      BY <1>4 DEF ReceiveSentinel, OrderInv, SentinelInv, Item
    <2>3. Sentinel \in ToSet(got'[c]) /\ Front(got'[c]) = got[c]
      <3>1. ToSet(Append(got[c], Sentinel)) = ToSet(got[c]) \cup {Sentinel}
        BY <1>0, <2>2, AppendSet
      <3>2. Front(Append(got[c], Sentinel)) = got[c]
        BY <1>0, <2>2, FrontOfAppend
      <3> QED
        BY <1>0, <2>1, <3>1, <3>2
    <2>4. \A d \in Connection : Shown(d)' = Shown(d)
      BY <1>0, <2>1, <2>2, <2>3 DEF Shown
    <2> QED
      BY <1>1, <2>1, <2>4 DEF FeedSince, FeedStream
  <1>5. CASE ReceiveEvent(c)
    <2> DEFINE e == Head(queue[c])
    <2>1. /\ stage[c] = "reading" /\ queue[c] # << >> /\ e # Sentinel
          /\ got' = [got EXCEPT ![c] = Append(@, e)] /\ since' = since
      BY <1>5 DEF ReceiveEvent
    <2>2. InOrder(c) /\ since[c].routed \in 0 .. Offered(c) /\ Sentinel \notin ToSet(got[c])
      BY <2>1 DEF OrderInv, PlaceInv, Placed, SentinelInv
    <2>3. e \in Item /\ e \in ToSet(queue[c]) /\ e \in Held(c)
      BY <1>0, <2>1, TailSet DEF Held
    <2>4. e \in 1 .. Final /\ Offered(c) <= Routed /\ Offered(c) \in Int /\ Routed \in Int
      <3>1. e \in 1 .. Final
        BY <2>1, <2>3 DEF Item, Event
      <3>2. [Next]_vars
        BY DEF Next, ConnectionStep
      <3> QED
        BY <1>0, <3>1, <3>2, OfferedNext, RoutedNext
    <2>5. e <= Routed
      <3>1. e <= Offered(c)
        BY <2>2, <2>3 DEF InOrder
      <3> QED
        BY <2>4, <3>1
    <2>6. ToSet(Append(got[c], e)) = ToSet(got[c]) \cup {e}
      BY <1>0, <2>3, AppendSet
    <2>7. /\ FeedStream[c] = got[c] /\ FeedSince[c] = since[c].routed
          /\ FeedStream' = [FeedStream EXCEPT ![c] = Append(@, e)]
      <3>1. Shown(c) = got[c] /\ Shown(c)' = Append(got[c], e)
        BY <1>0, <2>1, <2>2, <2>6 DEF Shown
      <3>2. \A d \in Connection \ {c} : Shown(d)' = Shown(d)
        BY <1>0, <2>1 DEF Shown
      <3> QED
        BY <3>1, <3>2 DEF FeedStream, FeedSince
    <2>8. \A i \in DOMAIN got[c] :
             (got[c][i] <= since[c].routed) = (e <= since[c].routed) => got[c][i] < e
      <3> SUFFICES ASSUME NEW i \in DOMAIN got[c],
                          (got[c][i] <= since[c].routed) = (e <= since[c].routed)
                   PROVE  got[c][i] < e
        OBVIOUS
      <3>1. got[c][i] \in ToSet(got[c])
        BY DEF ToSet
      <3>2. SameSide(since[c].routed, got[c][i], e)
        BY <2>1, <2>2, <3>1 DEF SameSide
      <3> QED
        BY <2>2, <2>3, <3>1, <3>2 DEF InOrder
    <2>9. since[c].routed # -1
      BY <2>2, <2>4
    <2> QED
      BY <1>1, <2>1, <2>4, <2>5, <2>7, <2>8, <2>9 DEF FeedSince
  <1> QED
    BY <1>2, <1>3, <1>4, <1>5 DEF ConnectionStep

\* Every step is a step of the feed, or leaves what the clients see alone.
LEMMA FeedStep == OrderInv /\ [Next]_vars => [Feed!Next]_(Feed!vars)
  <1> SUFFICES ASSUME OrderInv, [Next]_vars
               PROVE  [Feed!Next]_(Feed!vars)
    OBVIOUS
  <1>1. CASE Quiet \/ UNCHANGED vars \/ (\E c \in Connection : Puts(c))
    <2>1. /\ UNCHANGED <<since, got>>
          /\ Routed' = Routed \/ (Routed < Final /\ Routed' = Routed + 1)
      BY <1>1, GatewayFeed
    <2>2. FeedSince' = FeedSince /\ FeedStream' = FeedStream
      BY <2>1 DEF FeedSince, FeedStream, Shown
    <2> QED
      BY <2>1, <2>2 DEF Feed!Next, Feed!Emit, Feed!vars, FeedSince, FeedStream
  <1>2. ASSUME NEW c \in Connection, ConnectionStep(c)
        PROVE  [Feed!Next]_(Feed!vars)
    <2>1. CASE FeedSince' = FeedSince /\ FeedStream' = FeedStream
      BY <1>2, <2>1, ConnectionFeed DEF Feed!vars, FeedSince, FeedStream
    <2>2. CASE /\ FeedSince[c] = -1 /\ FeedSince' = [FeedSince EXCEPT ![c] = Routed]
               /\ FeedStream' = FeedStream
      <3>1. Feed!Subscribe(c)
        BY <1>2, <2>2, ConnectionFeed DEF Feed!Subscribe, Feed!NotYet, FeedSince, FeedStream
      <3> QED
        BY <3>1 DEF Feed!Next
    <2>3. ASSUME NEW e \in 1 .. Final,
                 FeedSince[c] # -1, e <= Routed,
                 \A i \in DOMAIN FeedStream[c] :
                    (FeedStream[c][i] <= FeedSince[c]) = (e <= FeedSince[c])
                       => FeedStream[c][i] < e,
                 FeedStream' = [FeedStream EXCEPT ![c] = Append(@, e)],
                 FeedSince' = FeedSince
          PROVE  [Feed!Next]_(Feed!vars)
      <3>1. Feed!See(c, e)
        BY <1>2, <2>3, ConnectionFeed
           DEF Feed!See, Feed!NotYet, Feed!Backlog, FeedSince, FeedStream
      <3> QED
        BY <3>1 DEF Feed!Next
    <2> QED
      BY <1>2, <2>1, <2>2, <2>3, ConnectionFeed
  <1> QED
    BY <1>1, <1>2, StepKinds

\* The initial states are those of the feed.
LEMMA FeedInit == Init => Feed!Init
  <1> SUFFICES ASSUME Init PROVE Feed!Init
    OBVIOUS
  <1>1. Routed = 0
    BY DEF Init, Routed
  <1>2. FeedSince = [c \in Connection |-> -1]
    BY DEF Init, FeedSince
  <1>3. FeedStream = [c \in Connection |-> << >>]
    BY SetOfSeq DEF Init, FeedStream, Shown
  <1> QED
    BY <1>1, <1>2, <1>3 DEF Feed!Init, Feed!NotYet, FeedSince, FeedStream

\* The stream that each client sees is an EventFeed: nothing before it is emitted,
\* nothing twice, the backlog in its order and the live events in theirs.
THEOREM StreamIsFeed == Spec => FeedSpec
  BY OrderInit, OrderNext, FeedInit, FeedStep, PTL DEF Spec, FeedSpec, Feed!Spec

-----------------------------------------------------------------------------
(* What no client that stays can miss.                                     *)

\* What follows a sentinel in a queue, when one more item is put into it.
LEMMA AfterAppend ==
    ASSUME NEW S, NEW s \in Seq(S), NEW e \in S, NEW p, AfterSentinel(s, p),
           Sentinel \in ToSet(s) => e <= p
    PROVE  AfterSentinel(Append(s, e), p)
  <1> DEFINE r == Append(s, e)  k == Len(s) + 1
  <1>1. Len(s) \in Nat /\ DOMAIN s = 1 .. Len(s)
    BY LenProperties
  <1>2. r \in Seq(S) /\ Len(r) = k /\ r[k] = e /\ \A i \in 1 .. Len(s) : r[i] = s[i]
    BY AppendProperties
  <1>3. DOMAIN r = 1 .. k
    BY <1>2, LenProperties
  <1> SUFFICES ASSUME NEW i \in 1 .. k, NEW j \in 1 .. k, i < j, r[i] = Sentinel
               PROVE  r[j] <= p
    BY <1>3 DEF AfterSentinel
  <1>4. i \in DOMAIN s /\ r[i] = s[i] /\ s[i] \in ToSet(s)
    <2>1. i \in 1 .. Len(s)
      BY <1>1
    <2> QED
      BY <1>1, <1>2, <2>1 DEF ToSet
  <1>5. CASE j = k
    BY <1>2, <1>4, <1>5
  <1>6. CASE j # k
    <2>1. j \in 1 .. Len(s)
      BY <1>1, <1>6
    <2>2. r[j] = s[j] /\ j \in DOMAIN s
      BY <1>1, <1>2, <2>1
    <2> QED
      BY <1>4, <2>2 DEF AfterSentinel
  <1> QED
    BY <1>5, <1>6

\* The same when the first item is taken from it.
LEMMA AfterTail ==
    ASSUME NEW S, NEW s \in Seq(S), s # << >>, NEW p, AfterSentinel(s, p)
    PROVE  /\ AfterSentinel(Tail(s), p)
           /\ Head(s) = Sentinel => \A y \in ToSet(Tail(s)) : y <= p
  <1>1. /\ Tail(s) \in Seq(S) /\ Len(Tail(s)) = Len(s) - 1
        /\ \A i \in 1 .. Len(Tail(s)) : Tail(s)[i] = s[i + 1]
    BY HeadTailProperties
  <1>2. Len(s) \in Nat \ {0} /\ DOMAIN s = 1 .. Len(s) /\ Head(s) = s[1]
    BY LenProperties, EmptySeq
  <1>3. DOMAIN Tail(s) = 1 .. Len(s) - 1
    BY <1>1, LenProperties
  <1>4. \A i \in DOMAIN Tail(s) : i \in Nat /\ i > 0 /\ i + 1 \in DOMAIN s /\ Tail(s)[i] = s[i + 1]
    BY <1>1, <1>2, <1>3
  <1>5. ASSUME NEW i \in DOMAIN Tail(s), NEW j \in DOMAIN Tail(s), i < j, Tail(s)[i] = Sentinel
        PROVE  Tail(s)[j] <= p
    <2>1. i + 1 \in DOMAIN s /\ j + 1 \in DOMAIN s /\ i + 1 < j + 1
      BY <1>4, <1>5
    <2> QED
      BY <1>4, <1>5, <2>1 DEF AfterSentinel
  <1>6. ASSUME NEW j \in DOMAIN Tail(s), Head(s) = Sentinel
        PROVE  Tail(s)[j] <= p
    <2>1. 1 \in DOMAIN s /\ j + 1 \in DOMAIN s /\ 1 < j + 1 /\ Tail(s)[j] = s[j + 1]
      BY <1>2, <1>4
    <2> QED
      BY <1>2, <1>6, <2>1 DEF AfterSentinel
  <1> QED
    BY <1>5, <1>6 DEF AfterSentinel, ToSet

\* Nothing of d moved, and no more was offered to it if it is still served.
LEMMA LiveSame ==
    ASSUME NEW d \in Connection, Live(d), Same(d),
           Served(d)' => Served(d) /\ Offered(d)' = Offered(d)
    PROVE  Live(d)'
  <1>1. Held(d)' = Held(d)
    BY DEF Same, Held
  <1> QED
    BY <1>1 DEF Live, Same

\* A quiet step of the message loop takes nothing from a live connection.
LEMMA LiveQuiet ==
    ASSUME OrderInv, Quiet \/ UNCHANGED vars, NEW d \in Connection, Live(d)
    PROVE  Live(d)'
  <1>1. Same(d) /\ UNCHANGED <<stage, queue>>
    BY QuietEffect DEF Same, vars, connVars
  <1>2. sent \in Int /\ PhaseInv
    BY SizeAssumption DEF OrderInv, TypeInv, TypeOK
  <1>3. Sentinel \in ToSet(queue[d]) => phase \in {"sentinels", "done"} /\ d \notin targets
    BY DEF OrderInv, SentinelInv
  <1>4. CASE CreateRow \/ ExpireBacklog \/ UNCHANGED vars
    <2>1. UNCHANGED <<open, broken, phase, targets, sent>>
      BY <1>4 DEF CreateRow, ExpireBacklog, loopVars, vars
    <2> QED
      BY <1>1, <2>1, LiveSame DEF Served, Offered
  <1>5. CASE TakeEvent
    <2>1. /\ phase = "idle" /\ phase' = "route" /\ sent' = sent + 1
          /\ UNCHANGED <<open, broken, targets>>
      BY <1>5 DEF TakeEvent
    <2> QED
      BY <1>1, <1>2, <2>1, LiveSame DEF Served, Offered
  <1>6. CASE Unregister
    <2>1. /\ phase = "idle" /\ phase' \in {"done", "sentinels"} /\ sent' = sent
          /\ broken = {} /\ targets' = open /\ open' = {}
      BY <1>2, <1>6 DEF Unregister, PhaseInv
    <2> QED
      BY <1>1, <2>1, LiveSame DEF Served, Offered
  <1>7. CASE KeepEvent
    <2>1. /\ phase = "route" /\ open = {} /\ phase' = "idle"
          /\ UNCHANGED <<open, broken, targets>>
      BY <1>7 DEF KeepEvent
    <2>2. ~Served(d)'
      BY <1>1, <1>3, <2>1 DEF Served
    <2> QED
      BY <1>1, <2>2, LiveSame
  <1>8. CASE RouteEvent
    <2>1. /\ phase = "route" /\ phase' = "deliver" /\ sent' = sent
          /\ targets' = open /\ UNCHANGED <<open, broken>>
      BY <1>8 DEF RouteEvent
    <2>2. Served(d)' => Served(d) /\ d \in targets'
      BY <1>1, <1>3, <2>1 DEF Served
    <2> QED
      BY <1>1, <2>1, <2>2, LiveSame DEF Offered
  <1>9. CASE DiscardBroken
    <2>1. /\ phase = "discard" /\ phase' = "idle" /\ sent' = sent /\ targets' = targets
          /\ open' \ broken' \subseteq open \ broken
      BY <1>9 DEF DiscardBroken
    <2> QED
      BY <1>1, <2>1, LiveSame DEF Served, Offered
  <1>10. CASE ForgetBacklog
    <2>1. /\ phase = "sentinels" /\ phase' = "done"
          /\ UNCHANGED <<sent, open, broken, targets>>
      BY <1>10 DEF ForgetBacklog
    <2> QED
      BY <1>1, <2>1, LiveSame DEF Served, Offered
  <1> QED
    BY <1>4, <1>5, <1>6, <1>7, <1>8, <1>9, <1>10 DEF Quiet

\* Nor does a put: a queue without room is dropped, and no longer live.
LEMMA LivePuts ==
    ASSUME OrderInv, NEW c \in Connection, Puts(c), NEW d \in Connection, Live(d)
    PROVE  Live(d)'
  <1>0. /\ TypeInv /\ sent \in Int
        /\ Sentinel \in ToSet(queue[d]) => phase \in {"sentinels", "done"} /\ d \notin targets
    <2>1. TypeInv /\ SentinelInv
      BY DEF OrderInv
    <2>2. sent \in 0 .. Final
      BY <2>1 DEF TypeInv, TypeOK
    <2> QED
      BY <2>1, <2>2, SizeAssumption DEF SentinelInv
  <1>1. /\ phase \in {"deliver", "sentinels"} /\ Carried \in Item
        /\ UNCHANGED <<stage, waiting, got, since, sent, open>>
        /\ c \in targets /\ targets' = targets \ {c}
    BY <1>0, PutsEffect
  <1>2. CASE queue'[d] = queue[d]
    <2>1. Same(d)
      BY <1>1, <1>2 DEF Same
    <2>2. Served(d)' => Served(d) /\ Offered(d)' = Offered(d)
      <3>1. CASE phase = "deliver"
        <4>1. /\ phase' \in {"deliver", "discard", "idle"} /\ (targets' # {} => phase' = "deliver")
              /\ broken \subseteq broken'
          BY <1>0, <3>1, PutsEffect
        <4>2. d = c => c \in broken'
          BY <1>0, <1>2, <3>1, PutsEffect
        <4>3. Served(d)' => d # c /\ Served(d)
          BY <1>0, <1>1, <1>2, <3>1, <4>1, <4>2 DEF Served
        <4> QED
          BY <1>1, <3>1, <4>1, <4>3 DEF Offered
      <3>2. CASE phase = "sentinels"
        <4>1. phase' = "sentinels" /\ broken' = broken
          BY <1>0, <3>2, PutsEffect
        <4> QED
          BY <1>1, <1>2, <3>2, <4>1 DEF Served, Offered
      <3> QED
        BY <1>1, <3>1, <3>2
    <2> QED
      BY <2>1, <2>2, LiveSame
  <1>3. CASE queue'[d] # queue[d]
    <2> DEFINE p == since[c].routed
    <2>1. d = c /\ queue'[c] = Append(queue[c], Carried)
      BY <1>0, <1>3, PutsEffect
    <2>2. queue[c] \in Seq(Item) /\ Sentinel \notin ToSet(queue[c])
      BY <1>0, <1>1, <2>1, HeldType
    <2>3. AfterSentinel(queue'[c], p)
      BY <1>1, <2>1, <2>2, AfterAppend DEF Live, AfterSentinel
    <2>4. Held(c)' = Held(c) \cup {Carried}
      BY <1>1, <2>1, <2>2, AppendSet DEF Held
    <2>5. Served(c)' => /\ Served(c)
                        /\ \/ Offered(c)' = Offered(c)
                           \/ Offered(c)' = Carried /\ Offered(c) = Carried - 1
      <3>1. CASE phase = "deliver"
        <4>1. /\ phase' \in {"deliver", "discard", "idle"} /\ broken \subseteq broken'
              /\ Carried = sent
          BY <1>0, <3>1, PutsEffect DEF Carried
        <4>2. Sentinel \notin ToSet(queue'[c])
          <5>1. sent # Sentinel
            BY <1>0, <3>1 DEF TypeInv, PhaseInv, Event, Sentinel
          <5> QED
            BY <1>1, <2>1, <2>2, <4>1, <5>1, AppendSet
        <4>3. Served(c)' => Served(c)
          BY <1>1, <3>1, <4>1, <4>2 DEF Served
        <4>4. Offered(c) = sent - 1 /\ Offered(c)' = sent
          BY <1>1, <3>1, <4>1 DEF Offered
        <4> QED
          BY <4>1, <4>3, <4>4
      <3>2. CASE phase = "sentinels"
        <4>1. phase' = "sentinels" /\ broken' = broken
          BY <1>0, <3>2, PutsEffect
        <4>2. Served(c)' => Served(c)
          BY <1>1, <3>2, <4>1 DEF Served
        <4> QED
          BY <1>1, <3>2, <4>1, <4>2 DEF Offered
      <3> QED
        BY <1>1, <3>1, <3>2
    <2>6. Served(c)' => p + 1 .. Offered(c)' \subseteq Held(c)'
      <3> SUFFICES ASSUME Served(c)', NEW x \in p + 1 .. Offered(c)'
                   PROVE  x \in Held(c) \cup {Carried}
        BY <2>4
      <3>1. p \in Int /\ Offered(c) \in Int /\ Offered(c)' \in Int
        <4>1. [Next]_vars
          BY DEF Next, LoopStep, Puts
        <4> QED
          BY <1>0, <4>1, OfferedNext, HeldType
      <3>2. p + 1 .. Offered(c) \subseteq Held(c)
        BY <2>1, <2>5 DEF Live
      <3>3. x = Carried \/ x <= Offered(c)
        BY <2>5, <3>1
      <3> QED
        BY <3>1, <3>2, <3>3
    <2>7. Sentinel \in ToSet(got[c]) =>
             p + 1 .. Final \subseteq ToSet(got[c]) /\ got[c][Len(got[c])] = Sentinel
      BY <2>1 DEF Live
    <2> QED
      BY <1>1, <2>1, <2>3, <2>6, <2>7 DEF Live, AfterSentinel
  <1> QED
    BY <1>2, <1>3

\* A client's own steps move what it holds, and lose it only when it leaves.
LEMMA LiveConnection ==
    ASSUME OrderInv, NEW c \in Connection, ConnectionStep(c), NEW d \in Connection, Live(d)
    PROVE  Live(d)'
  <1>0. TypeInv /\ PlaceInv /\ SentinelInv
    BY DEF OrderInv
  <1>1. /\ UNCHANGED <<phase, sent, targets, broken>>
        /\ Offered(c)' = Offered(c) /\ Offered(d)' = Offered(d)
    BY <1>0, ConnectionEffect DEF Offered
  <1>2. CASE d # c
    <2>1. /\ stage'[d] = stage[d] /\ waiting'[d] = waiting[d] /\ queue'[d] = queue[d]
          /\ got'[d] = got[d] /\ since'[d] = since[d] /\ (d \in open' <=> d \in open)
      BY <1>0, <1>2, ConnectionEffect
    <2> QED
      BY <1>1, <2>1, LiveSame DEF Same, Served
  <1> SUFFICES ASSUME d = c
               PROVE  Live(c)'
    BY <1>2
  <1> DEFINE p == since[c].routed
  <1>3. /\ queue \in [Connection -> Seq(Item)] /\ waiting \in [Connection -> Seq(Event)]
        /\ got \in [Connection -> Seq(Item)]
        /\ stage \in [Connection -> {"none", "opening", "reading", "draining", "gone"}]
        /\ since \in [Connection -> [routed : -1 .. Final, logged : 0 .. Final,
                                     background : BOOLEAN]]
    BY <1>0 DEF TypeInv, TypeOK
  <1>4. /\ got[c] \in Seq(Item) /\ queue[c] \in Seq(Item) /\ waiting[c] \in Seq(Event)
        /\ Event \subseteq Item /\ p \in Int /\ Sentinel \notin Event
    BY <1>0, HeldType
  <1>5. stage[c] \in {"none", "opening", "reading"} => Sentinel \notin ToSet(got[c])
    BY <1>0 DEF SentinelInv
  <1>6. CASE Connect(c)
    <2>1. /\ got'[c] = << >> /\ queue'[c] = << >> /\ since'[c].routed = Routed
          /\ c \notin targets
      BY <1>0, <1>3, <1>6 DEF Connect, PlaceInv, Placed
    <2>2. Offered(c)' = Routed /\ Routed \in Int
      <3>1. [Next]_vars
        BY <1>6 DEF Next
      <3> QED
        BY <1>0, <1>1, <2>1, <3>1, RoutedNext, SizeAssumption DEF Offered, Routed
    <2>3. DOMAIN queue'[c] = {} /\ ToSet(got'[c]) = {}
      BY <2>1, SetOfSeq
    <2> QED
      BY <2>1, <2>2, <2>3 DEF Live, AfterSentinel
  <1>7. CASE StartStream(c) \/ DrainBacklog(c)
    <2>1. /\ Same(c) /\ open' = open
          /\ stage'[c] \in {"opening", "reading"} => stage[c] \in {"opening", "reading"}
      BY <1>3, <1>7 DEF StartStream, DrainBacklog, Same
    <2> QED
      BY <1>1, <2>1, LiveSame DEF Served, Same
  <1>8. CASE QueueBacklog(c)
    <2> DEFINE e == Head(waiting[c])
    <2>1. /\ waiting[c] # << >> /\ queue'[c] = Append(queue[c], e)
          /\ stage[c] = "opening" /\ UNCHANGED <<stage, open, got, since>>
      BY <1>3, <1>8 DEF QueueBacklog
    <2>2. e \in Event /\ e \in ToSet(waiting[c])
      BY <1>4, <2>1, TailSet
    <2>3. e <= p
      BY <2>1, <2>2 DEF OrderInv, InOrder
    <2>4. ToSet(queue'[c]) = ToSet(queue[c]) \cup {e} /\ e # Sentinel
      BY <1>4, <2>1, <2>2, AppendSet
    <2>5. AfterSentinel(queue'[c], p)
      BY <1>4, <2>1, <2>2, <2>3, AfterAppend DEF Live, AfterSentinel
    <2>6. Held(c) \subseteq Held(c)'
      BY <2>1, <2>4 DEF Held
    <2>7. Served(c)' => Served(c)
      BY <1>1, <2>1, <2>4 DEF Served
    <2>8. Served(c)' => p + 1 .. Offered(c) \subseteq Held(c)'
      BY <2>6, <2>7 DEF Live
    <2> QED
      BY <1>1, <1>5, <2>1, <2>5, <2>8 DEF Live, AfterSentinel
  <1>9. CASE ReceiveEvent(c)
    <2> DEFINE e == Head(queue[c])
    <2>1. /\ queue[c] # << >> /\ e # Sentinel /\ stage[c] = "reading"
          /\ got'[c] = Append(got[c], e) /\ queue'[c] = Tail(queue[c])
          /\ UNCHANGED <<stage, open, since>>
      BY <1>3, <1>9 DEF ReceiveEvent
    <2>2. e \in Item /\ ToSet(queue[c]) = {e} \cup ToSet(queue'[c])
      BY <1>4, <2>1, TailSet
    <2>3. ToSet(got'[c]) = ToSet(got[c]) \cup {e}
      BY <1>4, <2>1, <2>2, AppendSet
    <2>4. Held(c)' = Held(c)
      BY <2>2, <2>3 DEF Held
    <2>5. AfterSentinel(queue'[c], p)
      BY <1>4, <2>1, AfterTail DEF Live, AfterSentinel
    <2>6. Served(c)' => Served(c)
      BY <1>1, <2>1, <2>2 DEF Served
    <2>7. Sentinel \notin ToSet(got'[c])
      BY <1>5, <2>1, <2>3
    <2> QED
      BY <1>1, <2>1, <2>4, <2>5, <2>6, <2>7 DEF Live, AfterSentinel
  <1>10. CASE ReceiveSentinel(c) \/ Disconnect(c)
    <2>1. /\ stage[c] = "reading" /\ stage'[c] \notin {"opening", "reading"}
          /\ queue'[c] = << >> /\ since' = since
      BY <1>3, <1>10 DEF ReceiveSentinel, Disconnect, Leave
    <2>2. ~Served(c)' /\ DOMAIN queue'[c] = {}
      BY <2>1 DEF Served
    <2>3. CASE Disconnect(c)
      <3>1. got'[c] = got[c]
        BY <2>3 DEF Disconnect
      <3> QED
        BY <1>5, <2>1, <2>2, <3>1 DEF Live, AfterSentinel
    <2>4. CASE ReceiveSentinel(c)
      <3>1. /\ queue[c] # << >> /\ Head(queue[c]) = Sentinel
            /\ got'[c] = Append(got[c], Sentinel)
        BY <1>3, <2>4 DEF ReceiveSentinel
      <3>2. Sentinel \in ToSet(queue[c]) /\ ToSet(queue[c]) = {Sentinel} \cup ToSet(Tail(queue[c]))
        BY <1>4, <3>1, TailSet
      <3>3. \A y \in ToSet(Tail(queue[c])) : y <= p
        BY <1>4, <3>1, AfterTail DEF Live, AfterSentinel
      <3>4. Offered(c) = Final /\ Served(c)
        BY <1>0, <2>1, <3>2 DEF SentinelInv, TypeInv, PhaseInv, Offered, Served
      <3>5. ToSet(got'[c]) = ToSet(got[c]) \cup {Sentinel} /\ got'[c][Len(got'[c])] = Sentinel
        <4>1. Sentinel \in Item /\ Len(got[c]) \in Nat
          BY <1>4, AppendSet DEF Item
        <4>2. /\ ToSet(Append(got[c], Sentinel)) = ToSet(got[c]) \cup {Sentinel}
              /\ Len(Append(got[c], Sentinel)) = Len(got[c]) + 1
          BY <1>4, <4>1, AppendSet
        <4>3. Append(got[c], Sentinel)[Len(got[c]) + 1] = Sentinel
          BY <1>4, <4>1, AppendProperties
        <4> QED
          BY <3>1, <4>2, <4>3
      <3>6. ASSUME NEW x \in p + 1 .. Final
            PROVE  x \in ToSet(got[c])
        <4>1. p >= 0 /\ x > p /\ x \in Int
          BY <1>0, <1>4, <2>1, SizeAssumption DEF PlaceInv, Placed
        <4>2. x # Sentinel /\ ~(x <= p)
          BY <1>4, <4>1 DEF Sentinel
        <4>3. x \in Held(c)
          BY <3>4 DEF Live
        <4> QED
          BY <3>2, <3>3, <4>2, <4>3 DEF Held
      <3> QED
        BY <2>1, <2>2, <3>5, <3>6 DEF Live, AfterSentinel
    <2> QED
      BY <1>10, <2>3, <2>4
  <1> QED
    BY <1>6, <1>7, <1>8, <1>9, <1>10 DEF ConnectionStep

\* LiveInv is inductive with what is known of the order.
LEMMA LiveNext == OrderInv /\ LiveInv /\ [Next]_vars => LiveInv'
  <1> SUFFICES ASSUME OrderInv, LiveInv, [Next]_vars, NEW d \in Connection
               PROVE  Live(d)'
    BY DEF LiveInv, Live
  <1>1. Live(d)
    BY DEF LiveInv, Live
  <1>2. CASE Quiet \/ UNCHANGED vars
    BY <1>1, <1>2, LiveQuiet
  <1>3. ASSUME NEW c \in Connection, Puts(c)
        PROVE  Live(d)'
    BY <1>1, <1>3, LivePuts
  <1>4. ASSUME NEW c \in Connection, ConnectionStep(c)
        PROVE  Live(d)'
    BY <1>1, <1>4, LiveConnection
  <1> QED
    BY <1>2, <1>3, <1>4, StepKinds

\* No connection is live at first.
LEMMA LiveInit == Init => LiveInv
  <1> SUFFICES ASSUME Init, NEW c \in Connection
               PROVE  Live(c)
    BY DEF LiveInv, Live
  <1>1. /\ queue[c] = << >> /\ got[c] = << >> /\ stage[c] = "none"
    BY DEF Init
  <1>2. DOMAIN queue[c] = {} /\ ToSet(got[c]) = {}
    BY <1>1, SetOfSeq
  <1> QED
    BY <1>1, <1>2 DEF Live, AfterSentinel, Served

\* A stream that the gateway ends has shown every event routed since it was opened,
\* the final response included, and shows nothing afterwards.
THEOREM EndIsComplete == Spec => []EndMeansDelivered
  <1>1. LiveInv => EndMeansDelivered
    BY DEF LiveInv, Live, EndMeansDelivered
  <1> QED
    BY <1>1, LiveInit, LiveNext, OrderInit, OrderNext, PTL DEF Spec

\* What was routed since a client subscribed reaches it while it is followed.
LEMMA LiveReaches ==
    ASSUME TypeInv, LiveInv, NEW c \in Connection, Following(c),
           NEW e \in 1 .. Routed, e > since[c].routed
    PROVE  e \in Reaching(c)
  <1>1. sent \in 0 .. Final /\ since[c].routed \in Int /\ sent \in Int
    <2>1. sent \in 0 .. Final
      BY DEF TypeInv, TypeOK
    <2> QED
      BY <2>1, HeldType, SizeAssumption
  <1>2. Routed \in Int /\ Offered(c) \in Int /\ e \in Int
    BY <1>1 DEF Routed, Offered
  <1>3. Served(c)
    BY DEF Following, Served
  <1>4. since[c].routed + 1 .. Offered(c) \subseteq Held(c)
    BY <1>3 DEF LiveInv, Live
  <1>5. CASE e <= Offered(c)
    <2>1. e \in since[c].routed + 1 .. Offered(c)
      BY <1>1, <1>2, <1>5
    <2> QED
      BY <1>4, <2>1 DEF Held, Reaching
  <1>6. CASE ~(e <= Offered(c))
    <2>1. phase = "deliver" /\ c \in targets /\ e = sent
      BY <1>1, <1>2, <1>6 DEF Routed, Offered
    <2> QED
      BY <2>1 DEF Reaching
  <1> QED
    BY <1>5, <1>6

\* A client that comes back sees what the log held when it subscribed and what is
\* routed from then on.
THEOREM ReturnSeesLog == Spec => []ReconnectSeesLogged
  <1>1. OrderInv /\ LiveInv => ReconnectSeesLogged
    <2> SUFFICES ASSUME OrderInv, LiveInv, NEW c \in Reconnecting,
                        Following(c), stage[c] = "reading", NEW e \in 1 .. Routed,
                        e <= since[c].logged \/ e > since[c].routed
                 PROVE  e <= replayed[c] \/ e \in Reaching(c)
      BY DEF ReconnectSeesLogged
    <2>1. c \in Connection /\ TypeInv /\ PlaceInv
      BY ConnectionAssumption DEF OrderInv
    <2>2. CASE e > since[c].routed
      BY <2>1, <2>2, LiveReaches
    <2>3. CASE e <= since[c].logged
      <3>1. since[c].logged <= replayed[c]
        BY <2>1 DEF PlaceInv, Placed
      <3>2. since[c].logged \in 0 .. Final /\ replayed[c] \in 0 .. Final /\ e \in Int
        BY <2>1 DEF TypeInv, TypeOK
      <3> QED
        BY <2>3, <3>1, <3>2, SizeAssumption
    <2> QED
      BY <2>2, <2>3
  <1> QED
    BY <1>1, LiveInit, LiveNext, OrderInit, OrderNext, PTL DEF Spec

-----------------------------------------------------------------------------
(* The first client.                                                       *)

\* What left the backlog for its age does not come back.
LEMMA ExpiredNext ==
    ASSUME TypeInv, [Next]_vars
    PROVE  /\ expired \subseteq expired'
           /\ ExpireBacklog \/ expired' = expired
  <1>1. CASE Quiet \/ UNCHANGED vars
    BY <1>1 DEF Quiet, CreateRow, ExpireBacklog, TakeEvent, Unregister, KeepEvent, RouteEvent,
                DiscardBroken, ForgetBacklog, vars
  <1>2. ASSUME NEW c \in Connection, Puts(c)
        PROVE  expired' = expired
    BY <1>2 DEF Puts, DeliverEvent, SendSentinel
  <1>3. ASSUME NEW c \in Connection, ConnectionStep(c)
        PROVE  expired' = expired
    BY <1>3 DEF ConnectionStep, Connect, QueueBacklog, StartStream, ReceiveEvent,
                ReceiveSentinel, Disconnect, DrainBacklog
  <1> QED
    BY <1>1, <1>2, <1>3, StepKinds

\* While nobody has connected, the message loop only fills the backlog.
LEMMA AloneNext ==
    ASSUME OrderInv, FirstInv, [Next]_vars, \A d \in Connection : stage'[d] = "none"
    PROVE  /\ \A d \in Connection : stage[d] = "none"
           /\ ~prior' /\ Len(backlog') <= Routed'
           /\ Routed' <= QueueSize => (1 .. Routed') \ expired' \subseteq ToSet(backlog')
  <1>0. TypeInv /\ PlaceInv
    BY DEF OrderInv
  <1>1. Quiet \/ UNCHANGED vars
    <2>1. ASSUME NEW c \in Connection, Puts(c)
          PROVE  FALSE
      BY <1>0, <2>1, PutsEffect DEF PlaceInv, Placed
    <2>2. ASSUME NEW c \in Connection, ConnectionStep(c)
          PROVE  FALSE
      BY <1>0, <2>2, ConnectionEffect
    <2> QED
      BY <2>1, <2>2, StepKinds
  <1>2. stage' = stage
    BY <1>1, QuietEffect DEF vars, connVars
  <1>3. /\ \A d \in Connection : stage[d] = "none"
        /\ ~prior /\ Len(backlog) <= Routed
        /\ Routed <= QueueSize => (1 .. Routed) \ expired \subseteq ToSet(backlog)
    BY <1>2 DEF FirstInv
  <1>4. open = {} /\ phase # "sentinels"
    BY <1>0, <1>3 DEF PlaceInv, Placed, TypeInv, TypeOK
  <1>5. sent \in 0 .. Final /\ sent \in Int /\ backlog \in Seq(Event)
    <2>1. sent \in 0 .. Final /\ backlog \in Seq(Event)
      BY <1>0 DEF TypeInv, TypeOK
    <2> QED
      BY <2>1, SizeAssumption
  <1>6. CASE KeepEvent
    <2>1. phase = "route" /\ sent \in Event /\ Routed = sent - 1 /\ Routed' = sent /\ ~prior'
      BY <1>0, <1>3, <1>6 DEF KeepEvent, Routed, TypeInv, PhaseInv
    <2>2. AddToBacklog(sent)
      BY <1>3, <1>6 DEF KeepEvent, LeftToDatabase
    <2>3. \/ Len(backlog) >= QueueSize /\ backlog' = backlog
          \/ Len(backlog) < QueueSize /\ backlog' = Append(backlog, sent)
      BY <1>0, <2>1, <2>2, AddToBacklogType DEF TypeInv
    <2>4. /\ Len(backlog) \in Nat /\ Len(Append(backlog, sent)) = Len(backlog) + 1
          /\ ToSet(Append(backlog, sent)) = ToSet(backlog) \cup {sent}
      BY <1>5, <2>1, AppendSet
    <2>5. Len(backlog') <= Routed'
      BY <1>3, <1>5, <2>1, <2>3, <2>4
    <2>6. ASSUME Routed' <= QueueSize
          PROVE  (1 .. Routed') \ expired' \subseteq ToSet(backlog')
      <3>1. Len(backlog) < QueueSize /\ Routed <= QueueSize
        BY <1>3, <1>5, <2>1, <2>4, <2>6, SizeAssumption
      <3>2. backlog' = Append(backlog, sent)
        BY <2>3, <2>4, <3>1, SizeAssumption
      <3>3. 1 .. Routed' = (1 .. Routed) \cup {sent}
        BY <1>5, <2>1, SizeAssumption DEF Event
      <3>4. expired' = expired
        BY <1>6 DEF KeepEvent
      <3> QED
        BY <1>3, <2>4, <3>1, <3>2, <3>3, <3>4
    <2> QED
      BY <1>3, <2>1, <2>5, <2>6
  <1>7. CASE ExpireBacklog
    <2>1. /\ backlog' = << >> /\ expired' = expired \cup ToSet(backlog)
          /\ prior' = prior /\ Routed' = Routed
      BY <1>3, <1>7 DEF ExpireBacklog, loopVars, Routed
    <2>2. Len(backlog') = 0 /\ ToSet(backlog') = {} /\ Routed \in 0 .. Final
      BY <1>0, <2>1, SetOfSeq, RoutedNext
    <2> QED
      BY <1>3, <2>1, <2>2, SizeAssumption
  <1>8. CASE ~KeepEvent /\ ~ExpireBacklog
    <2>1. backlog' = backlog /\ prior' = prior /\ expired' = expired
      BY <1>1, <1>4, <1>8 DEF Quiet, CreateRow, ExpireBacklog, TakeEvent, Unregister, RouteEvent,
                  DiscardBroken, ForgetBacklog, vars
    <2>2. Routed' = Routed
      BY <1>1, <1>4, <1>5, <1>8 DEF Quiet, CreateRow, ExpireBacklog, TakeEvent, Unregister, RouteEvent,
                  DiscardBroken, ForgetBacklog, loopVars, vars, Routed
    <2> QED
      BY <1>3, <2>1, <2>2
  <1> QED
    BY <1>6, <1>7, <1>8

\* The only connection so far keeps what it took from the backlog.
LEMMA OnlyNext ==
    ASSUME OrderInv, FirstInv, [Next]_vars, NEW c \in Connection,
           stage'[c] \in {"opening", "reading"}, since'[c].routed <= QueueSize,
           \A d \in Connection \ {c} : stage'[d] = "none"
    PROVE  (1 .. since'[c].routed) \ expired' \subseteq Held(c)' \cup ToSet(waiting'[c])
  <1>0. TypeInv /\ PlaceInv
    BY DEF OrderInv
  <1>1. /\ queue \in [Connection -> Seq(Item)] /\ waiting \in [Connection -> Seq(Event)]
        /\ got \in [Connection -> Seq(Item)]
        /\ stage \in [Connection -> {"none", "opening", "reading", "draining", "gone"}]
        /\ since \in [Connection -> [routed : -1 .. Final, logged : 0 .. Final,
                                     background : BOOLEAN]]
    BY <1>0 DEF TypeInv, TypeOK
  <1>2. /\ got[c] \in Seq(Item) /\ queue[c] \in Seq(Item) /\ waiting[c] \in Seq(Event)
        /\ Event \subseteq Item
    BY <1>0, HeldType
  <1>3. ASSUME stage[c] \in {"opening", "reading"}, since'[c] = since[c],
               \A d \in Connection \ {c} : stage'[d] = stage[d],
               Held(c) \cup ToSet(waiting[c]) \subseteq Held(c)' \cup ToSet(waiting'[c])
        PROVE  (1 .. since'[c].routed) \ expired' \subseteq Held(c)' \cup ToSet(waiting'[c])
    <2>1. (1 .. since[c].routed) \ expired \subseteq Held(c) \cup ToSet(waiting[c])
      BY <1>3 DEF FirstInv
    <2> QED
      BY <1>0, <1>3, <2>1, ExpiredNext
  <1>4. CASE Quiet \/ UNCHANGED vars
    <2>1. UNCHANGED <<stage, waiting, queue, got, since>>
      BY <1>4, QuietEffect DEF vars, connVars
    <2> QED
      BY <1>3, <2>1 DEF Held
  <1>5. ASSUME NEW x \in Connection, Puts(x)
        PROVE  (1 .. since'[c].routed) \ expired' \subseteq Held(c)' \cup ToSet(waiting'[c])
    <2>1. /\ UNCHANGED <<stage, waiting, got, since>>
          /\ queue'[c] = queue[c] \/ queue'[c] = Append(queue[c], Carried)
          /\ Carried \in Item
      BY <1>0, <1>5, PutsEffect
    <2>2. ToSet(queue[c]) \subseteq ToSet(queue'[c])
      <3>1. ToSet(Append(queue[c], Carried)) = ToSet(queue[c]) \cup {Carried}
        BY <1>2, <2>1, AppendSet
      <3> QED
        BY <2>1, <3>1
    <2> QED
      BY <1>3, <2>1, <2>2 DEF Held
  <1>6. ASSUME NEW x \in Connection, ConnectionStep(x)
        PROVE  (1 .. since'[c].routed) \ expired' \subseteq Held(c)' \cup ToSet(waiting'[c])
    <2>1. x = c /\ \A d \in Connection \ {c} : stage'[d] = stage[d]
      BY <1>0, <1>6, ConnectionEffect
    <2>2. CASE Connect(c)
      <3>1. since'[c].routed = Routed /\ waiting'[c] = backlog /\ stage[c] = "none"
        BY <1>1, <2>2 DEF Connect
      <3>2. \A d \in Connection : stage[d] = "none"
        BY <2>1, <3>1
      <3>3. expired' = expired
        BY <2>2 DEF Connect
      <3> QED
        BY <3>1, <3>2, <3>3 DEF FirstInv
    <2>3. CASE StartStream(c)
      <3>1. stage[c] = "opening" /\ UNCHANGED <<waiting, queue, got, since>>
        BY <2>3 DEF StartStream
      <3> QED
        BY <1>3, <2>1, <3>1 DEF Held
    <2>4. CASE QueueBacklog(c)
      <3>1. /\ waiting[c] # << >> /\ queue'[c] = Append(queue[c], Head(waiting[c]))
            /\ waiting'[c] = Tail(waiting[c]) /\ stage[c] = "opening"
            /\ got' = got /\ since' = since
        BY <1>1, <2>4 DEF QueueBacklog
      <3>2. Head(waiting[c]) \in Item /\ ToSet(waiting[c]) = {Head(waiting[c])} \cup ToSet(waiting'[c])
        BY <1>2, <3>1, TailSet
      <3>3. ToSet(queue'[c]) = ToSet(queue[c]) \cup {Head(waiting[c])}
        BY <1>2, <3>1, <3>2, AppendSet
      <3> QED
        BY <1>3, <2>1, <3>1, <3>2, <3>3 DEF Held
    <2>5. CASE ReceiveEvent(c)
      <3>1. /\ queue[c] # << >> /\ stage[c] = "reading"
            /\ got'[c] = Append(got[c], Head(queue[c])) /\ queue'[c] = Tail(queue[c])
            /\ waiting' = waiting /\ since' = since
        BY <1>1, <2>5 DEF ReceiveEvent
      <3>2. Head(queue[c]) \in Item /\ ToSet(queue[c]) = {Head(queue[c])} \cup ToSet(queue'[c])
        BY <1>2, <3>1, TailSet
      <3>3. ToSet(got'[c]) = ToSet(got[c]) \cup {Head(queue[c])}
        BY <1>2, <3>1, <3>2, AppendSet
      <3> QED
        BY <1>3, <2>1, <3>1, <3>2, <3>3 DEF Held
    <2>6. CASE ReceiveSentinel(c) \/ Disconnect(c) \/ DrainBacklog(c)
      BY <1>1, <2>6 DEF ReceiveSentinel, Disconnect, DrainBacklog, Leave
    <2> QED
      BY <1>6, <2>1, <2>2, <2>3, <2>4, <2>5, <2>6 DEF ConnectionStep
  <1> QED
    BY <1>4, <1>5, <1>6, StepKinds

\* Every step keeps what the first client has or will get.
LEMMA FirstNext == OrderInv /\ FirstInv /\ [Next]_vars => FirstInv'
  BY AloneNext, OnlyNext DEF FirstInv

\* At first nobody is the first client.
LEMMA FirstInit == Init => FirstInv
  <1> SUFFICES ASSUME Init PROVE FirstInv
    OBVIOUS
  <1>1. Routed = 0 /\ backlog = << >> /\ ~prior /\ \A c \in Connection : stage[c] = "none"
    BY DEF Init, Routed
  <1>2. Len(backlog) = 0 /\ 1 .. 0 = {}
    BY <1>1, SetOfSeq
  <1> QED
    BY <1>1, <1>2 DEF FirstInv

\* The first client of a task gets every event but those that the cleanup found too
\* old in the backlog, if the backlog had room for them when it came.
THEOREM FirstClientServed == Spec => []FirstClientMissesNothing
  <1>1. OrderInv /\ LiveInv /\ FirstInv => FirstClientMissesNothing
    <2> SUFFICES ASSUME OrderInv, LiveInv, FirstInv, NEW c \in Connection,
                        Following(c), since[c].routed <= QueueSize,
                        \A d \in Connection \ {c} : stage[d] = "none",
                        NEW e \in 1 .. Routed, e \notin expired
                 PROVE  e \in Reaching(c)
      BY DEF FirstClientMissesNothing
    <2>1. TypeInv
      BY DEF OrderInv
    <2>2. CASE e > since[c].routed
      BY <2>1, <2>2, LiveReaches
    <2>3. CASE ~(e > since[c].routed)
      <3>1. e \in 1 .. since[c].routed
        BY <2>1, <2>3, HeldType
      <3>2. (1 .. since[c].routed) \ expired \subseteq Held(c) \cup ToSet(waiting[c])
        BY DEF FirstInv, Following
      <3> QED
        BY <3>1, <3>2 DEF Held, Reaching
    <2> QED
      BY <2>2, <2>3
  <1> QED
    BY <1>1, FirstInit, FirstNext, LiveInit, LiveNext, OrderInit, OrderNext, PTL DEF Spec
=============================================================================
