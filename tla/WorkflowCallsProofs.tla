------------------------- MODULE WorkflowCallsProofs -------------------------
(***************************************************************************)
(* Theorems about the agent calls of WorkflowEngine: what a map does with  *)
(* its items; what follows when no await separates the choice of a node    *)
(* from its entry in pending_nodes (InlineCalls): each node is called      *)
(* once, loops and maps in their order; and what follows when outputs are  *)
(* loaded without an await too (InlineLoads): calls see the outputs they   *)
(* depend on, and there is one response.                                   *)
(***************************************************************************)
EXTENDS WorkflowEngineProofs, FunctionTheorems

-----------------------------------------------------------------------------
(* Maps: counting.                                                         *)

CallsOf(n) == {k \in DOMAIN calls : calls[k].node = n}

\* Every item of n has a result.
HasResults(n) ==
    \A i \in 0 .. (Items - 1) : \E k \in answered : calls[k].node = n /\ calls[k].index = i

\* Sub-tasks whose indices differ and lie in a finite set are no more than the
\* set has elements.
LEMMA CountByIndex ==
    ASSUME NEW q, NEW S, NEW T, IsFiniteSet(T),
           \A k \in S : q[k].index \in T,
           \A j, k \in S : q[j].index = q[k].index => j = k
    PROVE  /\ IsFiniteSet(S) /\ Cardinality(S) <= Cardinality(T)
           /\ Cardinality(S) \in Nat /\ Cardinality(T) \in Nat
  <1> DEFINE f == [k \in S |-> q[k].index]
  <1>1. f \in Injection(S, T)
    BY DEF Injection, IsInjective
  <1> HIDE DEF f
  <1>2. IsFiniteSet(S) /\ Cardinality(S) <= Cardinality(T)
    BY <1>1, FS_Injection
  <1>3. Cardinality(S) \in Nat /\ Cardinality(T) \in Nat
    BY <1>2, FS_CardinalityType
  <1> QED
    BY <1>2, <1>3

\* When they are as many as the elements, each element is the index of one.
LEMMA EveryIndex ==
    ASSUME NEW q, NEW S, NEW T, IsFiniteSet(T),
           \A k \in S : q[k].index \in T,
           \A j, k \in S : q[j].index = q[k].index => j = k,
           Cardinality(S) = Cardinality(T), NEW i \in T
    PROVE  \E k \in S : q[k].index = i
  <1> DEFINE f == [k \in S |-> q[k].index]
  <1>1. f \in Injection(S, T)
    BY DEF Injection, IsInjective
  <1> HIDE DEF f
  <1>2. f \in Surjection(S, T)
    BY <1>1, FS_Injection
  <1> QED
    BY <1>2 DEF Surjection, f

\* The sub-tasks are finitely many, numbered records.
LEMMA CallFacts ==
    ASSUME TypeOK
    PROVE  /\ definition \in Definitions /\ calls \in Seq(CallRecord)
           /\ Len(calls) \in Nat /\ DOMAIN calls = 1 .. Len(calls)
           /\ \A k \in DOMAIN calls : /\ calls[k] \in CallRecord /\ calls[k].node \in Node
                                      /\ calls[k].index \in Nat
           /\ IsFiniteSet(DOMAIN calls)
           /\ mapState \in [Node -> MapRecord] /\ Items \in Nat /\ ConcurrencyLimit \in Nat
           /\ \A n \in Node : /\ mapState[n].next \in 0 .. Items /\ mapState[n].count \in Nat
                              /\ mapState[n].active \subseteq 0 .. Items
                              /\ IsFiniteSet(mapState[n].active)
  <1>1. definition \in Definitions /\ calls \in Seq(CallRecord) /\ mapState \in [Node -> MapRecord]
    BY DEF TypeOK, CallRecord, MapRecord
  <1>2. Items \in Nat /\ ConcurrencyLimit \in Nat
    BY <1>1, DefinitionFacts
  <1>3. Len(calls) \in Nat /\ DOMAIN calls = 1 .. Len(calls)
    BY <1>1, LenProperties
  <1>4. \A k \in DOMAIN calls : calls[k] \in CallRecord
    BY <1>1, <1>3, ElementOfSeq
  <1>5. \A k \in DOMAIN calls : calls[k].node \in Node /\ calls[k].index \in Nat
    BY <1>4 DEF CallRecord
  <1>6. IsFiniteSet(DOMAIN calls)
    BY <1>3, FS_Interval
  <1>7. ASSUME NEW n \in Node
        PROVE  /\ mapState[n].next \in 0 .. Items /\ mapState[n].count \in Nat
               /\ mapState[n].active \subseteq 0 .. Items
               /\ IsFiniteSet(mapState[n].active)
    <2>1. /\ mapState[n].next \in 0 .. Items /\ mapState[n].count \in Nat
          /\ mapState[n].active \in SUBSET (0 .. Items)
      BY <1>1 DEF MapRecord
    <2>2. IsFiniteSet(0 .. Items)
      BY <1>2, FS_Interval
    <2> QED
      BY <2>1, <2>2, FS_Subset
  <1> QED
    BY <1>1, <1>2, <1>3, <1>4, <1>5, <1>6, <1>7

-----------------------------------------------------------------------------
(* Maps: the invariant.                                                    *)

Unanswered(n) == CallsOf(n) \ answered

\* Map n was entered, perhaps for the second time, and has launched nothing.
JustStarted(n) ==
    /\ turn # Idle /\ routines[turn] # << >>
    /\ Head(routines[turn]).at = "launch" /\ Head(routines[turn]).node = n
    /\ mapState[n].next = 0 /\ mapState[n].active = {}

\* The frames of loops and maps are about loops and maps; the results of a map
\* are merged when it has them all.
MapFrameOK(f) ==
    /\ f.at \in {"loop", "iterate", "looped"} => Kind[f.node] = "loop"
    /\ f.at \in {"launch", "mapcheck", "aggregate"} => Kind[f.node] = "map"
    /\ f.at = "aggregate" => (CalledOnce => HasResults(f.node))

\* What is true of a map: its branch and its sub-tasks, its counters, and, as
\* long as nothing is called twice, which items are with an agent.
MapCalls(n) ==
    /\ branches[n] \subseteq CallsOf(n)
    /\ \A k \in CallsOf(n) : calls[k].index < Items
    /\ CallsOf(n) = {} => mapState[n].next = 0
    /\ CallsOf(n) # {} => \E k \in CallsOf(n) : calls[k].index = 0
MapCounts(n) ==
    /\ ConcurrencyLimit > 0 => Cardinality(mapState[n].active) <= ConcurrencyLimit
    /\ mapState[n].count <= Cardinality(CallsOf(n) \cap answered)
MapItems(n) ==
    /\ JustStarted(n) \/ \A k \in Unanswered(n) : calls[k].index \in mapState[n].active
    /\ ConcurrencyLimit > 0 => Cardinality(Unanswered(n)) <= ConcurrencyLimit
    /\ completed[n] = "done" => HasResults(n)
MapOK(n) == MapCalls(n) /\ MapCounts(n) /\ (CalledOnce => MapItems(n))

MapInv ==
    /\ answered \subseteq DOMAIN calls
    /\ \A f \in Frames : MapFrameOK(f)
    /\ \A n \in Node : Kind[n] = "map" => MapOK(n)

\* Only the start of a map, on top of the coroutine that runs, is its start.
LEMMA NotStarted ==
    ASSUME NEW c \in Routine, NEW place, At(c, place), NEW n,
           place # "launch" \/ Top(c).node # n
    PROVE  ~JustStarted(n)
  BY DEF At, JustStarted, Top

\* What was recorded of the sub-tasks stays, more may follow and be answered.
CallsKept ==
    /\ definition' = definition
    /\ DOMAIN calls \subseteq DOMAIN calls'
    /\ \A k \in DOMAIN calls : calls'[k] = calls[k]
    /\ answered \subseteq answered' /\ answered' \subseteq DOMAIN calls

\* What they show of the maps stays.
LEMMA MapFactsKept ==
    ASSUME CallsKept
    PROVE  /\ CalledOnce' => CalledOnce
           /\ \A n : HasResults(n) => HasResults(n)'
           /\ \A f : MapFrameOK(f) => MapFrameOK(f)'
  <1>1. CalledOnce' => CalledOnce
    BY DEF CallsKept, CalledOnce
  <1>2. Items' = Items /\ Kind' = Kind
    BY SameDefinition DEF CallsKept
  <1>3. ASSUME NEW n, HasResults(n)
        PROVE  HasResults(n)'
    BY <1>2, <1>3 DEF CallsKept, HasResults
  <1>4. ASSUME NEW f, MapFrameOK(f)
        PROVE  MapFrameOK(f)'
    BY <1>1, <1>2, <1>3, <1>4 DEF MapFrameOK
  <1> QED
    BY <1>1, <1>3, <1>4

\* A step that is not about map n.
LEMMA SameMap ==
    ASSUME TypeOK, CallsKept, NEW n \in Node, MapOK(n),
           \A k \in DOMAIN calls' \ DOMAIN calls : calls'[k].node # n,
           mapState'[n] = mapState[n],
           branches'[n] \subseteq CallsOf(n),
           completed'[n] = "done" => completed[n] = "done" \/ (CalledOnce => HasResults(n)),
           JustStarted(n) => JustStarted(n)' \/ Unanswered(n) = {}
    PROVE  MapOK(n)'
  <1>1. /\ Items' = Items /\ ConcurrencyLimit' = ConcurrencyLimit /\ Items \in Nat
        /\ ConcurrencyLimit \in Nat
    BY SameDefinition, CallFacts DEF CallsKept
  <1>2. CallsOf(n)' = CallsOf(n) /\ \A k \in CallsOf(n) : k \in DOMAIN calls /\ calls'[k] = calls[k]
    BY DEF CallsKept, CallsOf
  <1>3. MapCalls(n)'
    BY <1>1, <1>2 DEF MapOK, MapCalls
  <1>4. MapCounts(n)'
    <2>1. IsFiniteSet(CallsOf(n) \cap answered')
      <3>1. CallsOf(n) \cap answered' \subseteq DOMAIN calls
        BY DEF CallsOf
      <3> QED
        BY <3>1, CallFacts, FS_Subset
    <2>2. PICK S : S = CallsOf(n) \cap answered'
      OBVIOUS
    <2>3. CallsOf(n) \cap answered \in SUBSET S
      BY <2>2 DEF CallsKept
    <2>4. /\ Cardinality(CallsOf(n) \cap answered) <= Cardinality(S) /\ Cardinality(S) \in Nat
          /\ Cardinality(CallsOf(n) \cap answered) \in Nat
      BY <2>1, <2>2, <2>3, FS_Subset, FS_CardinalityType
    <2>5. mapState[n].count \in Nat
      BY CallFacts
    <2>6. mapState[n].count <= Cardinality(CallsOf(n)' \cap answered')
      BY <1>2, <2>2, <2>4, <2>5 DEF MapOK, MapCounts
    <2> QED
      BY <1>1, <2>6 DEF MapOK, MapCounts
  <1>5. ASSUME CalledOnce'
        PROVE  MapItems(n)'
    <2>1. CalledOnce /\ MapItems(n)
      BY <1>5, MapFactsKept DEF MapOK
    <2>2. Unanswered(n)' \subseteq Unanswered(n)
      BY <1>2 DEF Unanswered, CallsKept
    <2>3. JustStarted(n)' \/ \A k \in Unanswered(n)' : calls'[k].index \in mapState'[n].active
      BY <1>2, <2>1, <2>2 DEF MapItems, Unanswered
    <2>4. ConcurrencyLimit > 0 => Cardinality(Unanswered(n)') <= ConcurrencyLimit
      <3>1. IsFiniteSet(Unanswered(n))
        <4>1. Unanswered(n) \subseteq DOMAIN calls
          BY DEF Unanswered, CallsOf
        <4> QED
          BY <4>1, CallFacts, FS_Subset
      <3>2. /\ Cardinality(Unanswered(n)') <= Cardinality(Unanswered(n))
            /\ Cardinality(Unanswered(n)') \in Nat /\ Cardinality(Unanswered(n)) \in Nat
        BY <2>2, <3>1, FS_Subset, FS_CardinalityType
      <3> QED
        BY <1>1, <2>1, <3>2 DEF MapItems
    <2>5. completed'[n] = "done" => HasResults(n)'
      BY <2>1, MapFactsKept DEF MapItems
    <2> QED
      BY <1>1, <2>3, <2>4, <2>5 DEF MapItems
  <1> QED
    BY <1>3, <1>4, <1>5 DEF MapOK

\* A step that does no work of a map.
NoMapWork ==
    /\ CallsKept
    /\ mapState' = mapState
    /\ \A n \in Node : Kind[n] = "map" =>
          /\ \A k \in DOMAIN calls' \ DOMAIN calls : calls'[k].node # n
          /\ branches'[n] \subseteq CallsOf(n)
          /\ completed'[n] = "done" => completed[n] = "done" \/ (CalledOnce => HasResults(n))

\* The invariant after a step, when each map is as it should be.
LEMMA MapParts ==
    ASSUME MapInv, CallsKept,
           NEW new, Frames' \subseteq Frames \cup new,
           \A f \in new : MapFrameOK(f) \/ MapFrameOK(f)',
           \A n \in Node : Kind[n] = "map" => MapOK(n)'
    PROVE  MapInv'
  <1>1. Node' = Node /\ Kind' = Kind
    BY SameDefinition DEF CallsKept
  <1>2. \A f \in Frames' : MapFrameOK(f)'
    BY MapFactsKept DEF MapInv
  <1> QED
    BY <1>1, <1>2 DEF MapInv, CallsKept

\* A step that does no work of a map keeps the invariant.
LEMMA MapQuiet ==
    ASSUME BaseInv, MapInv, NoMapWork,
           NEW new, Frames' \subseteq Frames \cup new, \A f \in new : MapFrameOK(f),
           \A n \in Node : JustStarted(n) => JustStarted(n)' \/ Unanswered(n) = {}
    PROVE  MapInv'
  <1>1. \A n \in Node : Kind[n] = "map" => MapOK(n)'
    <2> SUFFICES ASSUME NEW n \in Node, Kind[n] = "map"
                 PROVE  MapOK(n)'
      OBVIOUS
    <2>1. TypeOK /\ MapOK(n) /\ CallsKept /\ mapState'[n] = mapState[n]
      BY DEF BaseInv, MapInv, NoMapWork
    <2>2. /\ \A k \in DOMAIN calls' \ DOMAIN calls : calls'[k].node # n
          /\ branches'[n] \subseteq CallsOf(n)
          /\ completed'[n] = "done" => completed[n] = "done" \/ (CalledOnce => HasResults(n))
      BY DEF NoMapWork
    <2> QED
      BY <2>1, <2>2, SameMap
  <1> QED
    BY <1>1, MapParts DEF NoMapWork

\* The same for a step of a coroutine.
LEMMA MapRoutine ==
    ASSUME BaseInv, MapInv, NoMapWork, NEW c \in Routine,
           NEW place, place # "launch", At(c, place),
           NEW frames \in Seq(Frame), NEW await, Become(c, frames, await),
           \A f \in Elements(frames) : MapFrameOK(f)
    PROVE  MapInv'
  <1>1. StackOK /\ routines[c] # << >>
    BY StackFromType DEF BaseInv, At
  <1>2. Frames' \subseteq Frames \cup Elements(frames)
    BY <1>1, BecomeFrames
  <1>3. \A n \in Node : ~JustStarted(n)
    BY NotStarted
  <1> QED
    BY <1>2, <1>3, MapQuiet

\* The same when no frame, or one, takes the place of the one on top.
LEMMA MapNone ==
    ASSUME BaseInv, MapInv, NoMapWork, NEW c \in Routine,
           NEW place, place # "launch", At(c, place),
           NEW await, Become(c, << >>, await)
    PROVE  MapInv'
  BY FewFrames, MapRoutine

\* The same when one frame takes it.
LEMMA MapOne ==
    ASSUME BaseInv, MapInv, NoMapWork, NEW c \in Routine,
           NEW place, place # "launch", At(c, place),
           NEW f \in Frame, MapFrameOK(f), NEW await, Become(c, <<f>>, await)
    PROVE  MapInv'
  <1>1. PICK frames \in Seq(Frame) : frames = <<f>> /\ Elements(frames) = {f}
    BY FewFrames
  <1>2. Become(c, frames, await) /\ \A g \in Elements(frames) : MapFrameOK(g)
    BY <1>1
  <1> QED
    BY <1>2, MapRoutine

\* A step that starts no call and completes no map does no work of a map.
LEMMA NothingForMaps ==
    ASSUME TypeOK, MapInv, definition' = definition,
           calls' = calls, answered' = answered, mapState' = mapState,
           \A n \in Node : Kind[n] = "map" =>
               /\ branches'[n] \subseteq branches[n]
               /\ completed'[n] = "done" => completed[n] = "done"
    PROVE  NoMapWork
  <1>1. CallsKept
    BY DEF CallsKept, MapInv
  <1>2. \A n \in Node : Kind[n] = "map" => branches[n] \subseteq CallsOf(n)
    BY DEF MapInv, MapOK, MapCalls
  <1> QED
    BY <1>1, <1>2 DEF NoMapWork

\* The frames that are not about loops and maps.
LEMMA OtherFrames ==
    \A f : f.at \notin {"loop", "iterate", "looped", "launch", "mapcheck", "aggregate"}
             => MapFrameOK(f)
  BY DEF MapFrameOK

-----------------------------------------------------------------------------
(* Maps: the steps that have nothing to do with them.                      *)

\* Nodes that are not completed, groups and calls are left alone.
LEMMA SameForMaps ==
    ASSUME BaseInv, MapInv, definition' = definition, UNCHANGED <<completed, groupVars>>,
           calls' = calls
    PROVE  NoMapWork
  <1>1. TypeOK /\ answered' = answered /\ mapState' = mapState /\ branches' = branches
        /\ completed' = completed
    BY DEF BaseInv, groupVars
  <1> QED
    BY <1>1, NothingForMaps

\* A cancelled workflow stops.
LEMMA StopMap == ASSUME BaseInv, MapInv, NEW c \in Routine, StopCancelled(c) PROVE MapInv'
  <1>1. PICK place \in {"schedule", "execute", "loop", "complete"} : At(c, place)
    BY DEF StopCancelled
  <1>2. /\ Become(c, << >>, "nothing") /\ UNCHANGED <<completed, groupVars>> /\ calls' = calls
        /\ definition' = definition
    BY DEF StopCancelled, nodeVars, callVars, Become
  <1>3. NoMapWork
    BY <1>2, SameForMaps
  <1> QED
    BY <1>1, <1>2, <1>3, MapNone

\* Nodes are scheduled.
LEMMA ScheduleMap == ASSUME BaseInv, MapInv, NEW c \in Routine, ScheduleNodes(c) PROVE MapInv'
  <1> DEFINE batch == [at |-> "batch", todo |-> NextNodes, started |-> {}]
  <1>1. \/ Become(c, <<batch>>, "nothing") \/ Become(c, <<Finalize("success")>>, "nothing")
        \/ Become(c, << >>, "nothing")
    BY DEF ScheduleNodes
  <1>2. /\ At(c, "schedule") /\ UNCHANGED <<completed, groupVars>> /\ calls' = calls
        /\ definition' = definition
    BY DEF ScheduleNodes, Runs, nodeVars, callVars, Become
  <1>3. NoMapWork
    BY <1>2, SameForMaps
  <1>4. definition \in Definitions
    BY DEF BaseInv, TypeOK
  <1>5. batch \in Frame /\ MapFrameOK(batch)
    <2>1. NextNodes \subseteq Node
      BY DEF NextNodes
    <2> QED
      BY <1>4, <2>1, FrameMade, OtherFrames
  <1>6. Finalize("success") \in Frame /\ MapFrameOK(Finalize("success"))
    BY <1>4, FrameMade, OtherFrames DEF Outcome
  <1> HIDE DEF batch
  <1>7. CASE Become(c, << >>, "nothing")
    BY <1>2, <1>3, <1>7, MapNone
  <1>8. CASE Become(c, <<batch>>, "nothing")
    BY <1>2, <1>3, <1>5, <1>8, MapOne
  <1>9. CASE Become(c, <<Finalize("success")>>, "nothing")
    BY <1>2, <1>3, <1>6, <1>9, MapOne
  <1> QED
    BY <1>1, <1>7, <1>8, <1>9

\* Scheduling is not about a map.
LEMMA ScheduleFrame == BaseInv => Schedule \in Frame /\ MapFrameOK(Schedule)
  BY FrameMade, OtherFrames DEF BaseInv, TypeOK

\* The next node of a batch is executed.
LEMMA ExecuteMap == ASSUME BaseInv, MapInv, NEW c \in Routine, ExecuteNext(c) PROVE MapInv'
  <1>1. /\ At(c, "batch") /\ UNCHANGED <<completed, groupVars>> /\ calls' = calls
        /\ definition' = definition
    BY DEF ExecuteNext, callVars, Become
  <1>2. NoMapWork
    BY <1>1, SameForMaps
  <1>3. CASE Become(c, <<Schedule>>, "session")
    BY <1>1, <1>2, <1>3, ScheduleFrame, MapOne
  <1>4. ASSUME NEW n \in Top(c).todo,
               Become(c, <<[at |-> "execute", node |-> n],
                           [at |-> "batch", todo |-> Top(c).todo \ {n}, started |-> {n}]>>,
                      "nothing")
        PROVE  MapInv'
    <2> DEFINE f == [at |-> "execute", node |-> n]
               g == [at |-> "batch", todo |-> Top(c).todo \ {n}, started |-> {n}]
    <2>1. Top(c).todo \subseteq Node /\ definition \in Definitions
      <3>1. StackOK
        BY StackFromType DEF BaseInv
      <3>2. Top(c) \in Frame /\ Top(c).at = "batch"
        BY <1>1, <3>1, TopFrame
      <3> QED
        BY <3>1, <3>2, FrameFields DEF StackOK
    <2>2. f \in Frame /\ g \in Frame
      <3>1. "execute" \in NodeFrames /\ Top(c).todo \ {n} \in SUBSET Node /\ {n} \in SUBSET Node
        BY <2>1 DEF NodeFrames
      <3> QED
        BY <2>1, <3>1, FrameMade
    <2>3. MapFrameOK(f) /\ MapFrameOK(g)
      BY OtherFrames
    <2> HIDE DEF f, g
    <2>4. PICK frames \in Seq(Frame) : frames = <<f, g>> /\ Elements(frames) = {f, g}
      BY <2>2, FewFrames
    <2>5. Become(c, frames, "nothing") /\ \A h \in Elements(frames) : MapFrameOK(h)
      BY <1>4, <2>3, <2>4 DEF f, g
    <2> QED
      BY <1>1, <1>2, <2>5, MapRoutine
  <1> QED
    BY <1>3, <1>4 DEF ExecuteNext

\* A node whose condition is false is an agent's.
LEMMA SkipMap == ASSUME BaseInv, MapInv, NEW c \in Routine, SkipNode(c) PROVE MapInv'
  <1>1. /\ At(c, "execute") /\ TypeOK /\ definition \in Definitions /\ "execute" \in NodeFrames
    BY DEF SkipNode, Runs, BaseInv, TypeOK, NodeFrames
  <1>2. PICK n \in Node : n = Top(c).node
    BY <1>1, TopNode
  <1>3. /\ n \in Conditional /\ completed' = [completed EXCEPT ![n] = "done"]
        /\ Become(c, <<Schedule>>, "nothing") /\ definition' = definition
        /\ calls' = calls /\ answered' = answered /\ mapState' = mapState /\ branches' = branches
    BY <1>2 DEF SkipNode, groupVars, callVars, Become
  <1>4. Kind[n] = "agent"
    BY <1>1, <1>3, DefinitionFacts
  <1>5. \A m \in Node : Kind[m] = "map" => (completed'[m] = "done" => completed[m] = "done")
    BY <1>1, <1>3, <1>4 DEF TypeOK
  <1>6. NoMapWork
    BY <1>1, <1>3, <1>5, NothingForMaps
  <1> QED
    BY <1>1, <1>3, <1>6, ScheduleFrame, MapOne

\* A switch completes no map: what it leaves out is skipped.
LEMMA SwitchMap == ASSUME BaseInv, MapInv, NEW c \in Routine, EvaluateSwitch(c) PROVE MapInv'
  <1>1. /\ At(c, "execute") /\ TypeOK /\ "execute" \in NodeFrames
    BY DEF EvaluateSwitch, Runs, BaseInv, NodeFrames
  <1>2. PICK n \in Node : n = Top(c).node
    BY <1>1, TopNode
  <1>3. /\ Kind[n] = "switch"
        /\ Become(c, <<Schedule>>, "nothing") /\ definition' = definition
        /\ calls' = calls /\ answered' = answered /\ mapState' = mapState /\ branches' = branches
    BY <1>2 DEF EvaluateSwitch, groupVars, callVars, Become
  <1>4. \E S : completed' = [m \in Node |-> IF m = n THEN "done"
                                           ELSE IF m \in S THEN "SKIPPED" ELSE completed[m]]
    BY <1>2 DEF EvaluateSwitch
  <1>5. \A m \in Node : Kind[m] = "map" => (completed'[m] = "done" => completed[m] = "done")
    BY <1>3, <1>4
  <1>6. NoMapWork
    BY <1>1, <1>3, <1>5, NothingForMaps
  <1> QED
    BY <1>1, <1>3, <1>6, ScheduleFrame, MapOne

\* A loop is entered: its frame is about a loop.
LEMMA EnterLoopMap == ASSUME BaseInv, MapInv, NEW c \in Routine, EnterLoop(c) PROVE MapInv'
  <1>1. /\ At(c, "execute") /\ definition \in Definitions /\ "execute" \in NodeFrames
    BY DEF EnterLoop, Runs, BaseInv, TypeOK, NodeFrames
  <1>2. PICK n \in Node : n = Top(c).node
    BY <1>1, TopNode
  <1> DEFINE f == [at |-> "loop", node |-> n]
  <1>3. /\ Kind[n] = "loop" /\ Become(c, <<f>>, "nothing") /\ definition' = definition
        /\ UNCHANGED <<completed, groupVars>> /\ calls' = calls
    BY <1>2 DEF EnterLoop, nodeVars, callVars, Become
  <1>4. f \in Frame /\ MapFrameOK(f)
    BY <1>1, <1>3, FrameMade DEF NodeFrames, MapFrameOK
  <1>5. NoMapWork
    BY <1>3, SameForMaps
  <1> HIDE DEF f
  <1> QED
    BY <1>1, <1>3, <1>4, <1>5, MapOne

\* A frame of a loop or a map on top is about one.
LEMMA TopMap ==
    ASSUME BaseInv, MapInv, NEW c \in Routine, NEW place, At(c, place)
    PROVE  /\ place \in {"loop", "iterate", "looped"} => Kind[Top(c).node] = "loop"
           /\ place \in {"launch", "mapcheck", "aggregate"} => Kind[Top(c).node] = "map"
           /\ place = "aggregate" => (CalledOnce => HasResults(Top(c).node))
  <1>1. Top(c) \in Frames /\ Top(c).at = place
    BY TopFrame, StackFromType DEF BaseInv
  <1> QED
    BY <1>1 DEF MapInv, MapFrameOK

\* A loop ends.
LEMMA LoopEndsMap ==
    ASSUME BaseInv, MapInv, NEW c \in Routine, StopLoopAtLimit(c) \/ StopLoopOnCondition(c)
    PROVE  MapInv'
  <1>1. /\ At(c, "loop") /\ TypeOK /\ "loop" \in NodeFrames
    BY DEF StopLoopAtLimit, StopLoopOnCondition, Runs, BaseInv, NodeFrames
  <1>2. PICK n \in Node : n = Top(c).node
    BY <1>1, TopNode
  <1>3. /\ completed' = [completed EXCEPT ![n] = "done"]
        /\ Become(c, <<Schedule>>, "nothing") /\ definition' = definition
        /\ calls' = calls /\ answered' = answered /\ mapState' = mapState /\ branches' = branches
    BY <1>2 DEF StopLoopAtLimit, StopLoopOnCondition, LoopEnds, groupVars, callVars, Become
  <1>4. Kind[n] = "loop"
    BY <1>1, <1>2, TopMap
  <1>5. \A m \in Node : Kind[m] = "map" => (completed'[m] = "done" => completed[m] = "done")
    BY <1>1, <1>3, <1>4 DEF TypeOK
  <1>6. NoMapWork
    BY <1>1, <1>3, <1>5, NothingForMaps
  <1> QED
    BY <1>1, <1>3, <1>6, ScheduleFrame, MapOne

\* A loop goes on.
LEMMA ContinueMap == ASSUME BaseInv, MapInv, NEW c \in Routine, ContinueLoop(c) PROVE MapInv'
  <1>1. At(c, "loop") /\ TypeOK /\ StackOK
    BY StackFromType DEF ContinueLoop, Runs, BaseInv
  <1>2. PICK n \in Node : n = Top(c).node
    BY <1>1, TopNode DEF NodeFrames
  <1>3. PICK i : i = iterations[n]
    OBVIOUS
  <1> DEFINE f == [at |-> "iterate", node |-> n, index |-> i]
             await == IF i > 0 THEN "sleep" ELSE "nothing"
  <1>4. /\ i < MaxIterations /\ Become(c, <<f>>, await) /\ definition' = definition
        /\ UNCHANGED <<completed, groupVars>> /\ calls' = calls
    BY <1>2, <1>3 DEF ContinueLoop, nodeVars, callVars, Become
  <1>5. f \in Frame
    <2>1. i \in 0 .. MaxIterations /\ MaxIterations \in Nat
      BY <1>1, <1>3, DefinitionFacts DEF TypeOK
    <2>2. i \in 0 .. (MaxIterations - 1)
      BY <1>4, <2>1
    <2> QED
      BY <1>1, <2>2, FrameMade DEF StackOK
  <1>6. MapFrameOK(f)
    BY <1>1, <1>2, TopMap DEF MapFrameOK
  <1>7. NoMapWork
    BY <1>4, SameForMaps
  <1> HIDE DEF f, await
  <1> QED
    BY <1>1, <1>4, <1>5, <1>6, <1>7, MapOne

\* The output of an iteration is loaded.
LEMMA IterationLoadedMap ==
    ASSUME BaseInv, MapInv, NEW c \in Routine, IterationLoaded(c) PROVE MapInv'
  <1>1. At(c, "looped") /\ TypeOK /\ definition \in Definitions /\ "looped" \in NodeFrames
    BY DEF IterationLoaded, BaseInv, TypeOK, NodeFrames
  <1>2. PICK n \in Node : n = Top(c).node
    BY <1>1, TopNode
  <1> DEFINE f == [at |-> "loop", node |-> n]
  <1>3. /\ branches' = [branches EXCEPT ![n] = {}] /\ Become(c, <<f>>, "nothing")
        /\ definition' = definition /\ calls' = calls /\ answered' = answered
        /\ mapState' = mapState /\ completed' = completed
    BY <1>2 DEF IterationLoaded, callVars, Become
  <1>4. Kind[n] = "loop"
    BY <1>1, <1>2, TopMap
  <1>5. f \in Frame /\ MapFrameOK(f)
    BY <1>1, <1>4, FrameMade DEF NodeFrames, MapFrameOK
  <1>6. \A m \in Node : branches'[m] \subseteq branches[m]
    BY <1>1, <1>3 DEF TypeOK
  <1>7. NoMapWork
    BY <1>1, <1>3, <1>6, NothingForMaps
  <1> HIDE DEF f
  <1> QED
    BY <1>1, <1>3, <1>5, <1>7, MapOne

\* A node fails.
LEMMA FailedMap == ASSUME BaseInv, MapInv, NEW c \in Routine, NodeFailed(c) PROVE MapInv'
  <1>1. /\ At(c, "complete") /\ Become(c, <<Finalize("failure")>>, "nothing")
        /\ definition' = definition /\ UNCHANGED <<completed, groupVars>> /\ calls' = calls
    BY DEF NodeFailed, Runs, callVars, Become
  <1>2. Finalize("failure") \in Frame /\ MapFrameOK(Finalize("failure"))
    BY FrameMade, OtherFrames DEF BaseInv, TypeOK, Outcome
  <1>3. NoMapWork
    BY <1>1, SameForMaps
  <1> QED
    BY <1>1, <1>2, <1>3, MapOne

\* A node that succeeds is an agent's.
LEMMA SucceededMap == ASSUME BaseInv, MapInv, NEW c \in Routine, NodeSucceeded(c) PROVE MapInv'
  <1>1. At(c, "complete") /\ TypeOK /\ definition \in Definitions
    BY DEF NodeSucceeded, Runs, BaseInv, TypeOK
  <1>2. PICK n \in Node : n = calls[Top(c).call].node
    BY <1>1, TopComplete DEF CallRecord
  <1> DEFINE f == [at |-> "load", node |-> n]
  <1>3. /\ Kind[n] = "agent" /\ completed' = [completed EXCEPT ![n] = "done"]
        /\ Become(c, <<f>>, "load") /\ definition' = definition
        /\ calls' = calls /\ answered' = answered /\ mapState' = mapState /\ branches' = branches
    BY <1>2 DEF NodeSucceeded, groupVars, callVars, Become
  <1>4. f \in Frame /\ MapFrameOK(f)
    BY <1>1, FrameMade, OtherFrames DEF NodeFrames
  <1>5. \A m \in Node : Kind[m] = "map" => (completed'[m] = "done" => completed[m] = "done")
    BY <1>1, <1>3 DEF TypeOK
  <1>6. NoMapWork
    BY <1>1, <1>3, <1>5, NothingForMaps
  <1> HIDE DEF f
  <1> QED
    BY <1>1, <1>3, <1>4, <1>6, MapOne

\* An output is loaded.
LEMMA LoadedMap == ASSUME BaseInv, MapInv, NEW c \in Routine, OutputLoaded(c) PROVE MapInv'
  <1>1. /\ At(c, "load") /\ Become(c, <<Schedule>>, "nothing")
        /\ definition' = definition /\ UNCHANGED <<completed, groupVars>> /\ calls' = calls
    BY DEF OutputLoaded, callVars, Become
  <1>2. NoMapWork
    BY <1>1, SameForMaps
  <1> QED
    BY <1>1, <1>2, ScheduleFrame, MapOne

\* An exception that does no work of a map.
LEMMA RaiseMap ==
    ASSUME BaseInv, MapInv, NoMapWork, NEW c \in Routine, Raise(c),
           NEW place, place # "launch", At(c, place)
    PROVE  MapInv'
  <1>1. routines[c] # << >> /\ StackOK /\ definition \in Definitions
    BY StackFromType DEF At, BaseInv, StackOK
  <1>2. definition' = definition /\ Frames' \subseteq Frames \cup {Finalize("failure")}
    BY <1>1, RaiseFrames
  <1>3. MapFrameOK(Finalize("failure"))
    BY <1>1, FrameMade, OtherFrames DEF Outcome
  <1>4. \A n \in Node : ~JustStarted(n)
    BY NotStarted
  <1>5. PICK new : new = {Finalize("failure")}
    OBVIOUS
  <1>6. Frames' \subseteq Frames \cup new /\ \A f \in new : MapFrameOK(f)
    BY <1>2, <1>3, <1>5
  <1> QED
    BY <1>4, <1>6, MapQuiet

\* An exception leaves the maps as they are.
LEMMA FailsMap ==
    ASSUME BaseInv, MapInv, NEW c \in Routine, CallFails(c) \/ LoadFails(c) \/ OutputFails(c)
    PROVE  MapInv'
  <1>1. /\ Raise(c) /\ UNCHANGED <<completed, groupVars>> /\ calls' = calls
        /\ definition' = definition
    BY DEF CallFails, LoadFails, OutputFails, callVars, Raise
  <1>2. PICK place : place # "launch" /\ At(c, place)
    BY DEF CallFails, LoadFails, OutputFails
  <1>3. NoMapWork
    BY <1>1, SameForMaps
  <1> QED
    BY <1>1, <1>2, <1>3, RaiseMap

\* So does the completion of an iteration or item that is in no branch.
LEMMA StrayMap ==
    ASSUME BaseInv, MapInv, NEW c \in Routine, StrayCompleted(c) \/ StrayLoaded(c)
    PROVE  MapInv'
  <1>1. UNCHANGED <<completed, groupVars>> /\ calls' = calls /\ definition' = definition
    BY DEF StrayCompleted, StrayLoaded, nodeVars, callVars, Become
  <1>2. NoMapWork
    BY <1>1, SameForMaps
  <1>3. CASE StrayCompleted(c)
    <2>1. PICK f : f = [at |-> "strayed"]
      OBVIOUS
    <2>2. At(c, "complete") /\ Become(c, <<f>>, "load")
      BY <1>3, <2>1 DEF StrayCompleted, Runs
    <2>3. f \in Frame /\ MapFrameOK(f)
      BY <2>1, FrameMade, OtherFrames DEF BaseInv, TypeOK
    <2> QED
      BY <1>2, <2>2, <2>3, MapOne
  <1>4. CASE StrayLoaded(c)
    <2>1. At(c, "strayed") /\ Become(c, <<Schedule>>, "nothing")
      BY <1>4 DEF StrayLoaded
    <2> QED
      BY <1>2, <2>1, ScheduleFrame, MapOne
  <1> QED
    BY <1>3, <1>4

\* An exit handler is executed, or the response is prepared.
LEMMA ExitMap == ASSUME BaseInv, MapInv, NEW c \in Routine, RunExitHandler(c) PROVE MapInv'
  <1>1. At(c, "finalize") /\ StackOK /\ definition \in Definitions
    BY StackFromType DEF RunExitHandler, BaseInv, StackOK
  <1>2. PICK o \in Outcome, h \in Seq(Node) : o = Top(c).outcome /\ h = Top(c).handlers
    BY <1>1, TopFrame, FrameFields
  <1>3. /\ UNCHANGED <<completed, groupVars>> /\ calls' = calls /\ definition' = definition
    BY DEF RunExitHandler, nodeVars, callVars, Become
  <1>4. NoMapWork
    BY <1>3, SameForMaps
  <1>5. CASE h = << >>
    <2> DEFINE f == [at |-> "respond", outcome |-> o]
    <2>1. PICK await : Become(c, <<f>>, await)
      BY <1>2, <1>5 DEF RunExitHandler
    <2>2. f \in Frame /\ MapFrameOK(f)
      BY <1>1, FrameMade, OtherFrames
    <2> HIDE DEF f
    <2> QED
      BY <1>1, <1>4, <2>1, <2>2, MapOne
  <1>6. CASE h # << >>
    <2>1. Head(h) \in Node /\ Tail(h) \in Seq(Node)
      BY <1>6, StackElements
    <2> DEFINE first == [at |-> "execute", node |-> Head(h)]
               rest == [at |-> "finalize", outcome |-> o, handlers |-> Tail(h)]
    <2>2. Become(c, <<first, rest>>, "nothing")
      BY <1>2, <1>6 DEF RunExitHandler
    <2>3. first \in Frame /\ rest \in Frame
      <3>1. "execute" \in NodeFrames
        BY DEF NodeFrames
      <3> QED
        BY <1>1, <2>1, <3>1, FrameMade
    <2>4. MapFrameOK(first) /\ MapFrameOK(rest)
      BY OtherFrames
    <2> HIDE DEF first, rest
    <2>5. PICK frames \in Seq(Frame) : frames = <<first, rest>> /\ Elements(frames) = {first, rest}
      BY <2>3, FewFrames
    <2>6. Become(c, frames, "nothing") /\ \A f \in Elements(frames) : MapFrameOK(f)
      BY <2>2, <2>4, <2>5
    <2> QED
      BY <1>1, <1>4, <2>6, MapRoutine
  <1> QED
    BY <1>5, <1>6

\* The response is published, and the workflow cleaned up.
LEMMA EndMap ==
    ASSUME BaseInv, MapInv, NEW c \in Routine, PublishResponse(c) \/ CleanUp(c) PROVE MapInv'
  <1>1. /\ UNCHANGED <<completed, groupVars>> /\ calls' = calls /\ definition' = definition
    BY DEF PublishResponse, CleanUp, nodeVars, callVars, Become
  <1>2. NoMapWork
    BY <1>1, SameForMaps
  <1>3. CASE PublishResponse(c)
    <2>1. PICK f : f = [at |-> "cleanup"]
      OBVIOUS
    <2>2. At(c, "respond") /\ Become(c, <<f>>, "session")
      BY <1>3, <2>1 DEF PublishResponse
    <2>3. f \in Frame /\ MapFrameOK(f)
      BY <2>1, FrameMade, OtherFrames DEF BaseInv, TypeOK
    <2> QED
      BY <1>2, <2>2, <2>3, MapOne
  <1>4. CASE CleanUp(c)
    <2>1. At(c, "cleanup") /\ Become(c, << >>, "nothing")
      BY <1>4 DEF CleanUp
    <2> QED
      BY <1>2, <2>1, MapNone
  <1> QED
    BY <1>3, <1>4

-----------------------------------------------------------------------------
(* Maps: calls, completions and the host.                                  *)

\* A call is published: the branch of a map has one of its own sub-tasks more.
LEMMA PublishMap == ASSUME BaseInv, MapInv, NEW c \in Routine, PublishCall(c) PROVE MapInv'
  <1>1. At(c, "publish") /\ TypeOK
    BY DEF PublishCall, BaseInv
  <1>2. PICK k \in DOMAIN calls : k = Top(c).call
    BY <1>1, TopComplete
  <1>3. PICK n : n = calls[k].node
    OBVIOUS
  <1>4. /\ branches' = IF Kind[n] = "map" THEN [branches EXCEPT ![n] = @ \cup {k}] ELSE branches
        /\ Become(c, << >>, "nothing") /\ definition' = definition
        /\ calls' = calls /\ answered' = answered /\ mapState' = mapState
        /\ completed' = completed
    BY <1>2, <1>3 DEF PublishCall, nodeVars, Become
  <1>5. \A m \in Node : Kind[m] = "map" => branches'[m] \subseteq CallsOf(m)
    <2>1. \A m \in Node : Kind[m] = "map" => branches[m] \subseteq CallsOf(m)
      BY DEF MapInv, MapOK, MapCalls
    <2>2. k \in CallsOf(n)
      BY <1>2, <1>3 DEF CallsOf
    <2> QED
      BY <1>1, <1>4, <2>1, <2>2 DEF TypeOK
  <1>6. NoMapWork
    <2>1. CallsKept
      BY <1>4 DEF CallsKept, MapInv
    <2> QED
      BY <1>4, <1>5, <2>1 DEF NoMapWork
  <1> QED
    BY <1>1, <1>4, <1>6, MapNone

\* A call of a node that is not a map.
LEMMA CallForMaps ==
    ASSUME BaseInv, MapInv, NEW c \in Routine, NEW place, place # "launch", At(c, place),
           NEW n \in Node, Kind[n] # "map", NEW index \in Nat,
           StartCall(c, n, index, << >>),
           answered' = answered, mapState' = mapState, completed' = completed,
           \A m \in Node : m # n => branches'[m] = branches[m]
    PROVE  MapInv'
  <1>1. TypeOK /\ definition \in Definitions /\ definition' = definition
    BY DEF BaseInv, TypeOK, StartCall, Become
  <1>2. PICK rest : rest = << >>
    OBVIOUS
  <1>3. /\ DOMAIN calls' = DOMAIN calls \cup {Len(calls) + 1} /\ Len(calls) + 1 \in Call
        /\ calls'[Len(calls) + 1].node = n
        /\ \A k \in DOMAIN calls : calls'[k] = calls[k]
    BY <1>1, <1>2, NewCall
  <1>4. PICK f \in Frame : f = [at |-> "publish", call |-> Len(calls) + 1]
    BY <1>1, <1>3, FrameMade
  <1>5. MapFrameOK(f) /\ Become(c, <<f>>, "save")
    <2>1. Become(c, <<f>> \o << >>, "save")
      BY <1>4 DEF StartCall
    <2>2. <<f>> \o << >> = <<f>>
      BY <1>4
    <2> QED
      BY <1>4, <2>1, <2>2, OtherFrames
  <1>6. NoMapWork
    <2>1. CallsKept
      BY <1>1, <1>3 DEF CallsKept, MapInv
    <2>2. \A m \in Node : Kind[m] = "map" => branches[m] \subseteq CallsOf(m)
      BY DEF MapInv, MapOK, MapCalls
    <2> QED
      BY <1>3, <2>1, <2>2 DEF NoMapWork
  <1> QED
    BY <1>5, <1>6, MapOne

\* An agent node is called.
LEMMA CallMap == ASSUME BaseInv, MapInv, NEW c \in Routine, CallAgent(c) PROVE MapInv'
  <1>1. At(c, "execute") /\ "execute" \in NodeFrames
    BY DEF CallAgent, Runs, NodeFrames
  <1>2. PICK n \in Node : n = Top(c).node
    BY <1>1, TopNode
  <1>3. /\ Kind[n] = "agent" /\ StartCall(c, n, 0, << >>)
        /\ answered' = answered /\ mapState' = mapState /\ completed' = completed
        /\ branches' = branches
    BY <1>2 DEF CallAgent, nodeVars, groupVars
  <1> QED
    BY <1>1, <1>3, CallForMaps

\* An iteration is called.
LEMMA IterateMap == ASSUME BaseInv, MapInv, NEW c \in Routine, Iterate(c) PROVE MapInv'
  <1>1. At(c, "iterate") /\ StackOK /\ TypeOK
    BY StackFromType DEF Iterate, BaseInv
  <1>2. PICK n \in Node, i \in 0 .. (MaxIterations - 1) : n = Top(c).node /\ i = Top(c).index
    BY <1>1, TopFrame, FrameFields
  <1>3. /\ StartCall(c, n, i, << >>) /\ branches' = [branches EXCEPT ![n] = {Len(calls) + 1}]
        /\ answered' = answered /\ mapState' = mapState /\ completed' = completed
    BY <1>2 DEF Iterate, nodeVars
  <1>4. Kind[n] = "loop" /\ i \in Nat
    BY <1>1, <1>2, TopMap
  <1>5. \A m \in Node : m # n => branches'[m] = branches[m]
    BY <1>1, <1>3 DEF TypeOK
  <1> QED
    BY <1>1, <1>3, <1>4, <1>5, CallForMaps

\* An iteration succeeds: it has a result.
LEMMA IterationMap == ASSUME BaseInv, MapInv, NEW c \in Routine, IterationSucceeded(c) PROVE MapInv'
  <1>1. At(c, "complete") /\ TypeOK /\ definition \in Definitions
    BY DEF IterationSucceeded, Runs, BaseInv, TypeOK
  <1>2. PICK k \in DOMAIN calls : k = Top(c).call
    BY <1>1, TopComplete
  <1>3. PICK n \in ParentOf(k, "loop") : Become(c, <<[at |-> "looped", node |-> n]>>, "load")
    BY <1>2 DEF IterationSucceeded
  <1>4. n \in Node /\ Kind[n] = "loop"
    BY <1>1, <1>3 DEF ParentOf, TypeOK
  <1>5. /\ answered' = answered \cup {k} /\ definition' = definition /\ calls' = calls
        /\ mapState' = mapState /\ branches' = branches /\ completed' = completed
    BY <1>2, <1>3 DEF IterationSucceeded, nodeVars, callVars, Become
  <1>6. NoMapWork
    <2>1. CallsKept
      BY <1>5 DEF CallsKept, MapInv
    <2>2. \A m \in Node : Kind[m] = "map" => branches[m] \subseteq CallsOf(m)
      BY DEF MapInv, MapOK, MapCalls
    <2> QED
      BY <1>5, <2>1, <2>2 DEF NoMapWork
  <1> DEFINE f == [at |-> "looped", node |-> n]
  <1>7. f \in Frame /\ MapFrameOK(f) /\ Become(c, <<f>>, "load")
    BY <1>1, <1>3, <1>4, FrameMade DEF NodeFrames, MapFrameOK
  <1> HIDE DEF f
  <1> QED
    BY <1>1, <1>6, <1>7, MapOne

\* The host's steps bring at most a frame that is not about a map.
LEMMA HostMap ==
    ASSUME BaseInv, MapInv, UNCHANGED <<completed, groupVars>>, calls' = calls,
           \/ UNCHANGED loopVars
           \/ \E c \in Routine, f \in Frame :
                 Begin(c, f) /\ f.at \in {"complete", "finalize"}
    PROVE  MapInv'
  <1>1. StackOK
    BY StackFromType DEF BaseInv
  <1>2. CASE UNCHANGED loopVars
    <2>4. PICK new : new = {}
      OBVIOUS
    <2>1. definition' = definition /\ Frames' \subseteq Frames \cup new
      BY <1>1, <1>2, SameStacks
    <2>2. \A n \in Node : JustStarted(n) => JustStarted(n)'
      BY <1>2 DEF JustStarted, loopVars, groupVars
    <2>3. NoMapWork
      BY <2>1, SameForMaps
    <2> QED
      BY <2>1, <2>2, <2>3, <2>4, MapQuiet
  <1>3. ASSUME NEW c \in Routine, NEW f \in Frame, Begin(c, f), f.at \in {"complete", "finalize"}
        PROVE  MapInv'
    <2>1. PICK new : new = {f}
      OBVIOUS
    <2>2. definition' = definition /\ Frames' \subseteq Frames \cup new
      BY <1>1, <1>3, <2>1, BeginFrames
    <2>3. \A n \in Node : ~JustStarted(n)
      BY <1>3 DEF Begin, JustStarted
    <2>4. NoMapWork
      BY <2>2, SameForMaps
    <2>5. \A g \in new : MapFrameOK(g)
      BY <1>3, <2>1, OtherFrames
    <2> QED
      BY <2>2, <2>3, <2>4, <2>5, MapQuiet
  <1> QED
    BY <1>2, <1>3

-----------------------------------------------------------------------------
(* Maps: their own steps.                                                  *)

\* No coroutine has the name of the idle loop.
LEMMA IdleName == Idle \notin Routine
  BY DEF Idle, Routine

\* The new frame is on top, and the coroutine runs on when nothing is awaited.
LEMMA NewTop ==
    ASSUME StackOK, NEW c \in Routine, routines[c] # << >>,
           NEW f \in Frame, Become(c, <<f>>, "nothing")
    PROVE  turn' = c /\ routines'[c] # << >> /\ Head(routines'[c]) = f
  <1>1. Tail(routines[c]) \in Seq(Frame)
    <2>1. routines[c] \in Seq(Frame)
      BY DEF StackOK
    <2> QED
      BY <2>1, HeadTailProperties, EmptySeq
  <1>2. PICK t \in Seq(Frame) : t = Tail(routines[c])
    BY <1>1
  <1>3. PICK stack : stack = <<f>> \o t
    OBVIOUS
  <1>4. stack # << >> /\ Head(stack) = f
    BY <1>2, <1>3
  <1>5. "nothing" \notin Awaits
    BY EnvironmentAssumption
  <1>6. routines' = [routines EXCEPT ![c] = stack] /\ turn' = c
    BY <1>2, <1>3, <1>4, <1>5 DEF Become
  <1> QED
    BY <1>4, <1>6 DEF StackOK

\* A map is started, with nothing with the agents that it knows of.
LEMMA StartMapMap == ASSUME BaseInv, MapInv, NEW c \in Routine, StartMap(c) PROVE MapInv'
  <1>1. /\ At(c, "execute") /\ TypeOK /\ StackOK /\ "execute" \in NodeFrames
        /\ routines[c] # << >> /\ definition \in Definitions
    BY StackFromType DEF StartMap, Runs, At, BaseInv, NodeFrames, StackOK
  <1>2. PICK n \in Node : n = Top(c).node
    BY <1>1, TopNode
  <1> DEFINE f == [at |-> "launch", node |-> n]
  <1>3. /\ mapState' = [mapState EXCEPT ![n] = [next |-> 0, count |-> 0, active |-> {}]]
        /\ branches' = [branches EXCEPT ![n] = {}] /\ Become(c, <<f>>, "nothing")
        /\ answered' = answered /\ calls' = calls /\ completed' = completed
        /\ definition' = definition /\ Kind[n] = "map"
    BY <1>2 DEF StartMap, nodeVars, callVars, Become
  <1>4. f \in Frame /\ MapFrameOK(f)
    BY <1>1, <1>3, FrameMade DEF NodeFrames, MapFrameOK
  <1>5. CallsKept
    BY <1>3 DEF CallsKept, MapInv
  <1>6. mapState'[n] = [next |-> 0, count |-> 0, active |-> {}] /\ branches'[n] = {}
    BY <1>1, <1>3 DEF TypeOK
  <1>7. MapOK(n)'
    <2>1. MapOK(n)
      BY <1>3 DEF MapInv
    <2>2. /\ CallsOf(n)' = CallsOf(n) /\ Unanswered(n)' = Unanswered(n) /\ Items' = Items
          /\ ConcurrencyLimit' = ConcurrencyLimit /\ ConcurrencyLimit \in Nat
      BY <1>1, <1>3, SameDefinition, CallFacts DEF CallsOf, Unanswered
    <2>3. MapCalls(n)'
      BY <1>3, <1>6, <2>1, <2>2 DEF MapOK, MapCalls, CallsOf
    <2>4. MapCounts(n)'
      <3>1. CallsOf(n) \cap answered \subseteq DOMAIN calls
        BY DEF CallsOf
      <3>2. Cardinality(CallsOf(n) \cap answered) \in Nat
        BY <1>1, <3>1, CallFacts, FS_Subset, FS_CardinalityType
      <3>3. Cardinality({}) = 0
        BY FS_EmptySet
      <3> QED
        BY <1>3, <1>6, <2>2, <3>2, <3>3 DEF MapCounts
    <2>5. JustStarted(n)'
      <3>1. turn' = c /\ routines'[c] # << >> /\ Head(routines'[c]) = f
        BY <1>1, <1>3, <1>4, NewTop
      <3>2. Head(routines'[c]).at = "launch" /\ Head(routines'[c]).node = n
        BY <3>1
      <3> QED
        BY <1>6, <3>1, <3>2, IdleName DEF JustStarted
    <2>6. CalledOnce' => MapItems(n)'
      <3>1. CalledOnce' => CalledOnce
        BY <1>5, MapFactsKept
      <3>2. HasResults(n) => HasResults(n)'
        BY <1>5, MapFactsKept
      <3> QED
        BY <1>3, <2>1, <2>2, <2>5, <3>1, <3>2 DEF MapOK, MapItems
    <2> QED
      BY <2>3, <2>4, <2>6 DEF MapOK
  <1>8. ASSUME NEW m \in Node, m # n, Kind[m] = "map"
        PROVE  MapOK(m)'
    <2>1. MapOK(m) /\ mapState'[m] = mapState[m] /\ branches'[m] \subseteq CallsOf(m)
      BY <1>1, <1>3, <1>8 DEF TypeOK, MapInv, MapOK, MapCalls
    <2>2. ~JustStarted(m)
      BY <1>1, NotStarted
    <2> QED
      BY <1>1, <1>3, <1>5, <2>1, <2>2, SameMap
  <1>9. PICK new : new = {f}
    OBVIOUS
  <1> HIDE DEF f
  <1>10. Frames' \subseteq Frames \cup new /\ \A g \in new : MapFrameOK(g)
    <2>1. PICK frames \in Seq(Frame) : frames = <<f>> /\ Elements(frames) = {f}
      BY <1>4, FewFrames
    <2>2. Frames' \subseteq Frames \cup Elements(frames)
      BY <1>1, <1>3, <2>1, BecomeFrames
    <2> QED
      BY <1>4, <1>9, <2>1, <2>2
  <1> QED
    BY <1>5, <1>7, <1>8, <1>10, MapParts

\* The sub-tasks of a node are finitely many.
LEMMA FewCalls ==
    ASSUME TypeOK, NEW n, NEW S \in SUBSET CallsOf(n)
    PROVE  IsFiniteSet(S) /\ Cardinality(S) \in Nat
  <1>1. S \subseteq DOMAIN calls
    BY DEF CallsOf
  <1> QED
    BY <1>1, CallFacts, FS_Subset, FS_CardinalityType

\* The next item is launched: there is room for it, and when it is the first
\* one, no sub-task was started for the map before.
LEMMA LaunchItemOK ==
    ASSUME BaseInv, MapInv, NEW c \in Routine, LaunchItem(c),
           NEW n \in Node, n = Top(c).node, Kind[n] = "map", CallsKept
    PROVE  MapOK(n)'
  <1> DEFINE m == mapState[n]
             last == Len(calls) + 1
  <1>1. TypeOK /\ MapOK(n) /\ answered \subseteq DOMAIN calls
    BY DEF BaseInv, MapInv
  <1>2. /\ m.next < Items /\ HasRoom(m)
        /\ mapState' = [mapState EXCEPT ![n] =
               [next |-> m.next + 1, count |-> m.count, active |-> m.active \cup {m.next}]]
        /\ StartCall(c, n, m.next, <<Top(c)>>)
        /\ branches' = branches /\ answered' = answered /\ completed' = completed
    BY DEF LaunchItem, nodeVars
  <1>3. /\ m.next \in 0 .. Items /\ m.count \in Nat /\ m.active \subseteq 0 .. Items
        /\ IsFiniteSet(m.active) /\ Items \in Nat /\ ConcurrencyLimit \in Nat
        /\ mapState \in [Node -> MapRecord] /\ Len(calls) \in Nat
        /\ DOMAIN calls = 1 .. Len(calls) /\ m.next \in Nat
    BY <1>1, CallFacts
  <1>4. /\ mapState'[n].next = m.next + 1 /\ mapState'[n].count = m.count
        /\ mapState'[n].active = m.active \cup {m.next}
    BY <1>2, <1>3
  <1>5. Items' = Items /\ ConcurrencyLimit' = ConcurrencyLimit
    BY SameDefinition DEF CallsKept
  <1>6. /\ DOMAIN calls' = DOMAIN calls \cup {last} /\ last \notin DOMAIN calls
        /\ calls'[last].node = n /\ calls'[last].index = m.next
        /\ \A k \in DOMAIN calls : calls'[k] = calls[k]
    <2>1. PICK i \in Nat : i = m.next
      BY <1>3
    <2>2. PICK rest : rest = <<Top(c)>>
      OBVIOUS
    <2>3. StartCall(c, n, i, rest)
      BY <1>2, <2>1, <2>2
    <2>4. /\ DOMAIN calls' = DOMAIN calls \cup {Len(calls) + 1}
          /\ calls'[Len(calls) + 1].node = n /\ calls'[Len(calls) + 1].index = i
          /\ \A k \in DOMAIN calls : calls'[k] = calls[k]
      BY <1>1, <2>3, NewCall
    <2>5. Len(calls) + 1 \notin DOMAIN calls
      BY <1>3
    <2> QED
      BY <2>1, <2>4, <2>5
  <1> HIDE DEF m, last
  <1>7. /\ CallsOf(n)' = CallsOf(n) \cup {last} /\ CallsOf(n) \subseteq DOMAIN calls
        /\ Unanswered(n)' = Unanswered(n) \cup {last} /\ last \notin answered
        /\ Unanswered(n) \subseteq CallsOf(n)
    BY <1>1, <1>2, <1>6 DEF CallsOf, Unanswered
  <1>8. MapCalls(n)'
    <2>1. branches'[n] \subseteq CallsOf(n)'
      BY <1>1, <1>2, <1>7 DEF MapOK, MapCalls
    <2>2. \A k \in CallsOf(n)' : calls'[k].index < Items
      BY <1>1, <1>2, <1>6, <1>7 DEF MapOK, MapCalls, m
    <2>3. \E k \in CallsOf(n)' : calls'[k].index = 0
      <3>1. CASE CallsOf(n) = {}
        BY <1>1, <1>6, <1>7, <3>1 DEF MapOK, MapCalls, m
      <3>2. CASE CallsOf(n) # {}
        BY <1>1, <1>6, <1>7, <3>2 DEF MapOK, MapCalls
      <3> QED
        BY <3>1, <3>2
    <2> QED
      BY <1>5, <1>7, <2>1, <2>2, <2>3 DEF MapCalls
  <1>9. IsFiniteSet(m.active \cup {m.next})
        /\ (ConcurrencyLimit > 0 => Cardinality(m.active \cup {m.next}) <= ConcurrencyLimit)
    <2>1. /\ IsFiniteSet(m.active \cup {m.next}) /\ Cardinality(m.active) \in Nat
          /\ Cardinality(m.active \cup {m.next}) =
               IF m.next \in m.active THEN Cardinality(m.active) ELSE Cardinality(m.active) + 1
      BY <1>3, FS_AddElement, FS_CardinalityType DEF m
    <2>2. ConcurrencyLimit > 0 => Cardinality(m.active) < ConcurrencyLimit
      BY <1>2, <1>3 DEF HasRoom, m
    <2> QED
      BY <1>3, <2>1, <2>2
  <1>10. MapCounts(n)'
    <2>1. CallsOf(n)' \cap answered' = CallsOf(n) \cap answered
      BY <1>2, <1>7
    <2> QED
      BY <1>1, <1>4, <1>5, <1>9, <2>1 DEF MapOK, MapCounts, m
  <1>11. ASSUME CalledOnce'
         PROVE  MapItems(n)'
    <2>1. MapItems(n)
      BY <1>1, <1>11, MapFactsKept DEF MapOK
    <2>2. ASSUME NEW k \in Unanswered(n)'
          PROVE  calls'[k].index \in mapState'[n].active
      <3>1. CASE k = last
        BY <1>4, <1>6, <3>1
      <3>2. CASE k # last
        <4>1. k \in Unanswered(n) /\ k \in CallsOf(n) /\ calls'[k] = calls[k]
          BY <1>6, <1>7, <2>2, <3>2
        <4>2. PICK j \in CallsOf(n) : calls[j].index = 0
          BY <1>1, <4>1 DEF MapOK, MapCalls
        <4>3. ~JustStarted(n)
          <5> SUFFICES ASSUME m.next = 0
                       PROVE  FALSE
            BY DEF JustStarted, m
          <5>1. /\ j \in DOMAIN calls' /\ last \in DOMAIN calls' /\ j # last
                /\ calls'[j].node = calls'[last].node /\ calls'[j].index = calls'[last].index
            BY <1>6, <1>7, <4>2 DEF CallsOf
          <5> QED
            BY <1>11, <5>1 DEF CalledOnce
        <4> QED
          BY <1>4, <2>1, <4>1, <4>3 DEF MapItems, m
      <3> QED
        BY <3>1, <3>2
    <2>3. ConcurrencyLimit > 0 => Cardinality(Unanswered(n)') <= ConcurrencyLimit
      <3>1. \A k \in Unanswered(n)' : calls'[k].index \in m.active \cup {m.next}
        BY <1>4, <2>2
      <3>2. \A j, k \in Unanswered(n)' : calls'[j].index = calls'[k].index => j = k
        BY <1>11 DEF CalledOnce, Unanswered, CallsOf
      <3>3. PICK q, S, T : q = calls' /\ S = Unanswered(n)' /\ T = m.active \cup {m.next}
        OBVIOUS
      <3>4. /\ \A k \in S : q[k].index \in T
            /\ \A j, k \in S : q[j].index = q[k].index => j = k
            /\ IsFiniteSet(T)
        BY <1>9, <3>1, <3>2, <3>3
      <3>5. /\ Cardinality(S) <= Cardinality(T) /\ Cardinality(S) \in Nat
            /\ Cardinality(T) \in Nat
        BY <3>4, CountByIndex
      <3> QED
        BY <1>3, <1>9, <3>3, <3>5
    <2>4. completed'[n] = "done" => HasResults(n)'
      BY <1>2, <2>1, MapFactsKept DEF MapItems
    <2> QED
      BY <1>5, <2>2, <2>3, <2>4 DEF MapItems
  <1> QED
    BY <1>8, <1>10, <1>11 DEF MapOK

\* An item is launched.
LEMMA LaunchItemMap == ASSUME BaseInv, MapInv, NEW c \in Routine, LaunchItem(c) PROVE MapInv'
  <1>1. /\ At(c, "launch") /\ TypeOK /\ StackOK /\ "launch" \in NodeFrames
        /\ routines[c] # << >> /\ definition \in Definitions
    BY StackFromType DEF LaunchItem, At, BaseInv, NodeFrames, StackOK
  <1>2. PICK n \in Node : n = Top(c).node
    BY <1>1, TopNode
  <1>3. Kind[n] = "map" /\ Top(c) \in Frame /\ Top(c) \in Frames
    BY <1>1, <1>2, TopMap, TopFrame
  <1>4. PICK rest : rest = <<Top(c)>>
    OBVIOUS
  <1>5. PICK i : i = mapState[n].next
    OBVIOUS
  <1>6. /\ StartCall(c, n, i, rest) /\ branches' = branches /\ answered' = answered
        /\ completed' = completed /\ \A m \in Node : m # n => mapState'[m] = mapState[m]
        /\ definition' = definition
    BY <1>1, <1>2, <1>4, <1>5 DEF LaunchItem, nodeVars, StartCall, Become, TypeOK
  <1>7. i \in Nat
    BY <1>1, <1>5, CallFacts
  <1>8. /\ DOMAIN calls' = DOMAIN calls \cup {Len(calls) + 1} /\ Len(calls) + 1 \in Call
        /\ calls'[Len(calls) + 1].node = n
        /\ \A k \in DOMAIN calls : calls'[k] = calls[k]
    BY <1>1, <1>6, <1>7, NewCall
  <1>9. CallsKept
    BY <1>6, <1>8 DEF CallsKept, MapInv
  <1>10. MapOK(n)'
    BY <1>2, <1>3, <1>9, LaunchItemOK
  <1>11. ASSUME NEW m \in Node, m # n, Kind[m] = "map"
         PROVE  MapOK(m)'
    <2>1. MapOK(m) /\ mapState'[m] = mapState[m] /\ branches'[m] \subseteq CallsOf(m)
      BY <1>6, <1>11 DEF MapInv, MapOK, MapCalls
    <2>2. ~JustStarted(m)
      BY <1>1, <1>2, <1>11, NotStarted
    <2>3. \A k \in DOMAIN calls' \ DOMAIN calls : calls'[k].node # m
      BY <1>8, <1>11
    <2> QED
      BY <1>1, <1>6, <1>9, <2>1, <2>2, <2>3, SameMap
  <1>12. PICK f \in Frame : f = [at |-> "publish", call |-> Len(calls) + 1]
    BY <1>1, <1>8, FrameMade
  <1>13. PICK frames \in Seq(Frame) :
           frames = <<f>> \o rest /\ Elements(frames) \subseteq {f, Top(c)}
    <2>1. PICK one \in Seq(Frame) : one = <<f>> /\ Elements(one) = {f}
      BY FewFrames
    <2>2. rest \in Seq(Frame) /\ Elements(rest) = {Top(c)}
      BY <1>3, <1>4, FewFrames
    <2>3. one \o rest \in Seq(Frame) /\ Elements(one \o rest) \subseteq Elements(one) \cup Elements(rest)
      BY <2>2, StackElements
    <2> QED
      BY <2>1, <2>2, <2>3
  <1>14. Become(c, frames, "save")
    BY <1>6, <1>12, <1>13 DEF StartCall
  <1>15. PICK new : new = Elements(frames)
    OBVIOUS
  <1>16. Frames' \subseteq Frames \cup new
    BY <1>1, <1>14, <1>15, BecomeFrames
  <1>17. \A g \in new : MapFrameOK(g)
    BY <1>3, <1>12, <1>13, <1>15, OtherFrames DEF MapInv
  <1> QED
    BY <1>9, <1>10, <1>11, <1>16, <1>17, MapParts

\* A launch that stops right after the start of a map has no item to launch.
LEMMA LaunchedAllMap == ASSUME BaseInv, MapInv, NEW c \in Routine, LaunchedAll(c) PROVE MapInv'
  <1>1. /\ At(c, "launch") /\ TypeOK /\ StackOK /\ "launch" \in NodeFrames /\ routines[c] # << >>
    BY StackFromType DEF LaunchedAll, At, BaseInv, NodeFrames
  <1>2. PICK n \in Node : n = Top(c).node
    BY <1>1, TopNode
  <1>3. Kind[n] = "map"
    BY <1>1, <1>2, TopMap
  <1>4. /\ mapState[n].next >= Items \/ ~HasRoom(mapState[n])
        /\ Become(c, << >>, "nothing") /\ definition' = definition
        /\ UNCHANGED <<completed, groupVars>> /\ calls' = calls
    BY <1>2 DEF LaunchedAll, nodeVars, callVars, Become
  <1>5. NoMapWork
    BY <1>4, SameForMaps
  <1>6. ASSUME NEW m \in Node, JustStarted(m)
        PROVE  Unanswered(m) = {}
    <2>1. m = n
      BY <1>1, <1>2, <1>6, NotStarted
    <2>2. mapState[n].next = 0 /\ mapState[n].active = {}
      BY <1>6, <2>1 DEF JustStarted
    <2>3. Items \in Nat /\ ConcurrencyLimit \in Nat /\ Cardinality({}) = 0
      BY <1>1, CallFacts, FS_EmptySet
    <2>4. Items = 0
      BY <1>4, <2>2, <2>3 DEF HasRoom
    <2>5. \A k \in CallsOf(n) : calls[k].index < Items /\ calls[k].index \in Nat
      BY <1>1, <1>3, CallFacts DEF MapInv, MapOK, MapCalls, CallsOf
    <2>6. CallsOf(n) = {}
      BY <2>4, <2>5
    <2> QED
      BY <2>1, <2>6 DEF Unanswered
  <1>7. Frames' \subseteq Frames \cup Elements(<< >>) /\ Elements(<< >>) = {}
    BY <1>1, <1>4, FewFrames, BecomeFrames
  <1>8. PICK new : new = {}
    OBVIOUS
  <1> QED
    BY <1>5, <1>6, <1>7, <1>8, MapQuiet

\* As many completions as items are one for each: no item is called twice.
LEMMA AllItems ==
    ASSUME TypeOK, CalledOnce, NEW n \in Node, MapOK(n), mapState[n].count = Items
    PROVE  HasResults(n)
  <1>1. PICK S, T : S = CallsOf(n) \cap answered /\ T = 0 .. (Items - 1)
    OBVIOUS
  <1>2. Items \in Nat /\ IsFiniteSet(T) /\ Cardinality(T) = Items
    <2>1. Items \in Nat
      BY CallFacts
    <2>2. PICK last \in Int : last = Items - 1
      BY <2>1
    <2>3. IsFiniteSet(0 .. last) /\ Cardinality(0 .. last) = IF 0 > last THEN 0 ELSE last - 0 + 1
      BY FS_Interval
    <2> QED
      BY <1>1, <2>1, <2>2, <2>3
  <1>3. \A k \in S : calls[k].index \in T
    BY <1>1, <1>2, CallFacts DEF CallsOf, MapOK, MapCalls
  <1>4. \A j, k \in S : calls[j].index = calls[k].index => j = k
    BY <1>1 DEF CalledOnce, CallsOf
  <1>5. PICK q : q = calls
    OBVIOUS
  <1>6. /\ Cardinality(S) <= Cardinality(T) /\ Cardinality(S) \in Nat
        /\ Cardinality(S) = Cardinality(T) => \A i \in T : \E k \in S : q[k].index = i
    <2>1. /\ \A k \in S : q[k].index \in T
          /\ \A j, k \in S : q[j].index = q[k].index => j = k
      BY <1>3, <1>4, <1>5
    <2>2. IsFiniteSet(T)
      BY <1>2
    <2>3. /\ Cardinality(S) <= Cardinality(T) /\ Cardinality(S) \in Nat
      BY <2>1, <2>2, CountByIndex
    <2>4. ASSUME Cardinality(S) = Cardinality(T), NEW i \in T
          PROVE  \E k \in S : q[k].index = i
      BY <2>1, <2>2, <2>4, EveryIndex
    <2> QED
      BY <2>3, <2>4
  <1>7. Items <= Cardinality(S)
    BY <1>1 DEF MapOK, MapCounts
  <1>8. Cardinality(S) = Cardinality(T)
    BY <1>2, <1>6, <1>7
  <1> QED
    BY <1>1, <1>5, <1>6, <1>8 DEF HasResults, CallsOf

\* A map whose completions are as many as its items merges their results.
LEMMA CheckMapMap == ASSUME BaseInv, MapInv, NEW c \in Routine, CheckMap(c) PROVE MapInv'
  <1>1. At(c, "mapcheck") /\ TypeOK /\ definition \in Definitions /\ "mapcheck" \in NodeFrames
    BY DEF CheckMap, BaseInv, TypeOK, NodeFrames
  <1>2. PICK n \in Node : n = Top(c).node
    BY <1>1, TopNode
  <1>3. Kind[n] = "map"
    BY <1>1, <1>2, TopMap
  <1> DEFINE f == [at |-> "aggregate", node |-> n]
  <1>4. /\ \/ mapState[n].count = Items /\ Become(c, <<f>>, "load")
           \/ Become(c, << >>, "nothing")
        /\ UNCHANGED <<completed, groupVars>> /\ calls' = calls /\ definition' = definition
    BY <1>2 DEF CheckMap, nodeVars, callVars, Become
  <1>5. NoMapWork
    BY <1>4, SameForMaps
  <1>6. CASE mapState[n].count = Items /\ Become(c, <<f>>, "load")
    <2>1. CalledOnce => HasResults(n)
      BY <1>1, <1>3, <1>6, AllItems DEF MapInv
    <2>2. f \in Frame /\ MapFrameOK(f)
      BY <1>1, <1>3, <2>1, FrameMade DEF NodeFrames, MapFrameOK
    <2> HIDE DEF f
    <2> QED
      BY <1>1, <1>5, <1>6, <2>2, MapOne
  <1>7. CASE Become(c, << >>, "nothing")
    BY <1>1, <1>5, <1>7, MapNone
  <1> QED
    BY <1>4, <1>6, <1>7

\* A map completes with all its results.
LEMMA FinalizeMapMap == ASSUME BaseInv, MapInv, NEW c \in Routine, FinalizeMap(c) PROVE MapInv'
  <1>1. At(c, "aggregate") /\ TypeOK /\ "aggregate" \in NodeFrames
    BY DEF FinalizeMap, BaseInv, NodeFrames
  <1>2. PICK n \in Node : n = Top(c).node
    BY <1>1, TopNode
  <1>3. CalledOnce => HasResults(n)
    BY <1>1, <1>2, TopMap
  <1>4. /\ completed' = [completed EXCEPT ![n] = "done"]
        /\ branches' = [branches EXCEPT ![n] = {}] /\ Become(c, <<Schedule>>, "nothing")
        /\ definition' = definition /\ calls' = calls /\ answered' = answered
        /\ mapState' = mapState
    BY <1>2 DEF FinalizeMap, callVars, Become
  <1>5. \A m \in Node : Kind[m] = "map" => branches'[m] \subseteq CallsOf(m)
    <2>1. \A m \in Node : branches'[m] \subseteq branches[m]
      BY <1>1, <1>4 DEF TypeOK
    <2> QED
      BY <2>1 DEF MapInv, MapOK, MapCalls
  <1>6. \A m \in Node : completed'[m] = "done"
                           => completed[m] = "done" \/ (CalledOnce => HasResults(m))
    BY <1>1, <1>3, <1>4 DEF TypeOK
  <1>7. NoMapWork
    <2>1. CallsKept
      BY <1>4 DEF CallsKept, MapInv
    <2> QED
      BY <1>4, <1>5, <1>6, <2>1 DEF NoMapWork
  <1> QED
    BY <1>1, <1>4, <1>7, ScheduleFrame, MapOne

\* A map whose branch is gone completes with all its results too.
LEMMA BranchGoneMap == ASSUME BaseInv, MapInv, NEW c \in Routine, BranchGone(c) PROVE MapInv'
  <1>1. PICK place \in {"looped", "aggregate", "publish"} : At(c, place)
    BY DEF BranchGone
  <1>2. /\ TypeOK /\ Raise(c) /\ definition' = definition /\ calls' = calls
        /\ answered' = answered /\ mapState' = mapState /\ branches' = branches
    BY DEF BranchGone, BaseInv, groupVars, Raise
  <1>3. Top(c).at = place
    BY <1>1 DEF At, Top
  <1>4. \A m \in Node : completed'[m] = "done"
                           => completed[m] = "done" \/ (CalledOnce => HasResults(m))
    <2>1. CASE place # "aggregate"
      <3>1. completed' = completed
        BY <1>3, <2>1 DEF BranchGone
      <3> QED
        BY <3>1
    <2>2. CASE place = "aggregate"
      <3>1. PICK n \in Node : n = Top(c).node
        BY <1>1, <2>2, TopNode DEF NodeFrames
      <3>2. CalledOnce => HasResults(n)
        BY <1>1, <2>2, <3>1, TopMap DEF NodeFrames
      <3>3. completed' = [completed EXCEPT ![n] = "done"]
        BY <1>3, <2>2, <3>1 DEF BranchGone
      <3> QED
        BY <1>2, <3>2, <3>3 DEF TypeOK
    <2> QED
      BY <2>1, <2>2
  <1>5. NoMapWork
    <2>1. CallsKept
      BY <1>2 DEF CallsKept, MapInv
    <2>2. \A m \in Node : Kind[m] = "map" => branches'[m] \subseteq CallsOf(m)
      BY <1>2 DEF MapInv, MapOK, MapCalls
    <2> QED
      BY <1>2, <1>4, <2>1, <2>2 DEF NoMapWork
  <1> QED
    BY <1>1, <1>2, <1>5, RaiseMap

\* An item of the map has its result: it was its index that left the active ones.
LEMMA ItemOK ==
    ASSUME TypeOK, answered \subseteq DOMAIN calls, NEW n \in Node, MapOK(n), ~JustStarted(n),
           NEW k \in CallsOf(n) \ answered,
           mapState' = [mapState EXCEPT ![n] =
               [next |-> @.next, count |-> @.count + 1, active |-> @.active \ {calls[k].index}]],
           answered' = answered \cup {k}, definition' = definition, calls' = calls,
           branches' = branches, completed' = completed
    PROVE  MapOK(n)'
  <1> DEFINE m == mapState[n]
  <1>1. /\ m.next \in 0 .. Items /\ m.count \in Nat /\ m.active \subseteq 0 .. Items
        /\ IsFiniteSet(m.active) /\ Items \in Nat /\ ConcurrencyLimit \in Nat
        /\ mapState \in [Node -> MapRecord]
    BY CallFacts
  <1>2. /\ mapState'[n].next = m.next /\ mapState'[n].count = m.count + 1
        /\ mapState'[n].active = m.active \ {calls[k].index}
    BY <1>1
  <1> HIDE DEF m
  <1>3. /\ Items' = Items /\ ConcurrencyLimit' = ConcurrencyLimit
        /\ CallsOf(n)' = CallsOf(n) /\ Unanswered(n)' = Unanswered(n) \ {k}
        /\ k \in Unanswered(n)
    BY SameDefinition DEF CallsOf, Unanswered
  <1>4. CallsKept
    BY DEF CallsKept, CallsOf
  <1>5. MapCalls(n)'
    BY <1>2, <1>3 DEF MapOK, MapCalls, CallsOf, m
  <1>6. MapCounts(n)'
    <2>1. PICK A, B : A = m.active /\ B = mapState'[n].active
      OBVIOUS
    <2>2. Cardinality(B) <= Cardinality(A) /\ Cardinality(A) \in Nat /\ Cardinality(B) \in Nat
      <3>1. IsFiniteSet(A) /\ B \in SUBSET A
        BY <1>1, <1>2, <2>1
      <3> QED
        BY <3>1, FS_Subset, FS_CardinalityType
    <2>3. PICK S \in SUBSET CallsOf(n) : S = CallsOf(n) \cap answered
      OBVIOUS
    <2>4. IsFiniteSet(S) /\ Cardinality(S) \in Nat
      BY FewCalls
    <2>5. PICK R : R = S \cup {k}
      OBVIOUS
    <2>6. Cardinality(R) = Cardinality(S) + 1
      BY <2>3, <2>4, <2>5, FS_AddElement
    <2>7. CallsOf(n)' \cap answered' = R
      BY <1>3, <2>3, <2>5
    <2>8. ConcurrencyLimit > 0 => Cardinality(A) <= ConcurrencyLimit
      BY <2>1 DEF MapOK, MapCounts, m
    <2>9. m.count <= Cardinality(S)
      BY <2>3 DEF MapOK, MapCounts, m
    <2>10. m.count + 1 <= Cardinality(R)
      BY <1>1, <2>4, <2>6, <2>9
    <2>11. ConcurrencyLimit > 0 => Cardinality(B) <= ConcurrencyLimit
      BY <1>1, <2>2, <2>8
    <2> QED
      BY <1>2, <1>3, <2>1, <2>7, <2>10, <2>11 DEF MapCounts
  <1>7. ASSUME CalledOnce'
        PROVE  MapItems(n)'
    <2>1. CalledOnce /\ MapItems(n)
      BY <1>4, <1>7, MapFactsKept DEF MapOK
    <2>2. \A j \in Unanswered(n)' : calls'[j].index \in mapState'[n].active
      <3>1. \A j \in Unanswered(n) : calls[j].index \in m.active
        BY <2>1 DEF MapItems, m
      <3>2. \A j \in Unanswered(n) : j # k => calls[j].index # calls[k].index
        BY <1>3, <2>1 DEF CalledOnce, Unanswered, CallsOf
      <3> QED
        BY <1>2, <1>3, <3>1, <3>2
    <2>3. ConcurrencyLimit > 0 => Cardinality(Unanswered(n)') <= ConcurrencyLimit
      <3>1. PICK S \in SUBSET CallsOf(n) : S = Unanswered(n)
        BY DEF Unanswered
      <3>2. /\ IsFiniteSet(S) /\ Cardinality(S) \in Nat
        BY FewCalls
      <3>3. Cardinality(S \ {k}) <= Cardinality(S) /\ Cardinality(S \ {k}) \in Nat
        BY <3>2, FS_Subset, FS_CardinalityType
      <3>4. ConcurrencyLimit > 0 => Cardinality(S) <= ConcurrencyLimit
        BY <2>1, <3>1 DEF MapItems
      <3> QED
        BY <1>1, <1>3, <3>1, <3>2, <3>3, <3>4
    <2>4. completed'[n] = "done" => HasResults(n)'
      BY <1>4, <2>1, MapFactsKept DEF MapItems
    <2> QED
      BY <1>3, <2>2, <2>3, <2>4 DEF MapItems
  <1> QED
    BY <1>5, <1>6, <1>7 DEF MapOK

\* An item succeeds.
LEMMA ItemMap == ASSUME BaseInv, MapInv, NEW c \in Routine, ItemSucceeded(c) PROVE MapInv'
  <1>1. /\ At(c, "complete") /\ TypeOK /\ StackOK /\ definition \in Definitions
        /\ routines[c] # << >>
    BY StackFromType DEF ItemSucceeded, Runs, At, BaseInv, StackOK
  <1>2. PICK k \in DOMAIN calls : k = Top(c).call
    BY <1>1, TopComplete
  <1>3. PICK n \in ParentOf(k, "map") :
          /\ mapState' = [mapState EXCEPT ![n] =
                 [next |-> @.next, count |-> @.count + 1,
                  active |-> @.active \ {calls[k].index}]]
          /\ Become(c, <<[at |-> "launch", node |-> n], [at |-> "mapcheck", node |-> n]>>,
                    "nothing")
    BY <1>2 DEF ItemSucceeded
  <1>4. n \in Node /\ Kind[n] = "map" /\ k \in branches[n] \ answered
    BY <1>1, <1>3 DEF ParentOf, TypeOK
  <1>5. /\ answered' = answered \cup {k} /\ definition' = definition /\ calls' = calls
        /\ branches' = branches /\ completed' = completed
    BY <1>2, <1>3 DEF ItemSucceeded, nodeVars, callVars, Become
  <1>6. k \in CallsOf(n) \ answered /\ MapOK(n) /\ answered \subseteq DOMAIN calls
    BY <1>4 DEF MapInv, MapOK, MapCalls
  <1>7. \A m : ~JustStarted(m)
    BY <1>1, NotStarted
  <1>8. CallsKept
    BY <1>5, <1>6 DEF CallsKept
  <1>9. MapOK(n)'
    BY <1>1, <1>3, <1>4, <1>5, <1>6, <1>7, ItemOK
  <1>10. ASSUME NEW m \in Node, m # n, Kind[m] = "map"
         PROVE  MapOK(m)'
    <2>1. MapOK(m) /\ mapState'[m] = mapState[m] /\ branches'[m] \subseteq CallsOf(m)
      BY <1>1, <1>3, <1>5, <1>10 DEF TypeOK, MapInv, MapOK, MapCalls
    <2> QED
      BY <1>1, <1>5, <1>7, <1>8, <2>1, SameMap
  <1> DEFINE f == [at |-> "launch", node |-> n]
             g == [at |-> "mapcheck", node |-> n]
  <1>11. /\ f \in Frame /\ g \in Frame /\ MapFrameOK(f) /\ MapFrameOK(g)
         /\ Become(c, <<f, g>>, "nothing")
    BY <1>1, <1>3, <1>4, FrameMade DEF NodeFrames, MapFrameOK
  <1> HIDE DEF f, g
  <1>12. PICK frames \in Seq(Frame) : frames = <<f, g>> /\ Elements(frames) = {f, g}
    BY <1>11, FewFrames
  <1>13. PICK new : new = Elements(frames)
    OBVIOUS
  <1>14. Frames' \subseteq Frames \cup new /\ \A h \in new : MapFrameOK(h)
    BY <1>1, <1>11, <1>12, <1>13, BecomeFrames
  <1> QED
    BY <1>8, <1>9, <1>10, <1>14, MapParts

-----------------------------------------------------------------------------
(* Maps: the theorem.                                                      *)

\* At the start no map has anything.
LEMMA InitMap == Init => MapInv
  <1> SUFFICES ASSUME Init
               PROVE  MapInv
    OBVIOUS
  <1>1. TypeOK /\ BaseInv
    BY InitBase DEF BaseInv
  <1>2. /\ calls = << >> /\ answered = {} /\ DOMAIN calls = {} /\ Cardinality({}) = 0
        /\ ConcurrencyLimit \in Nat
    BY <1>1, CallFacts, FS_EmptySet DEF Init
  <1>3. ASSUME NEW f \in Frames
        PROVE  MapFrameOK(f)
    <2>1. PICK c \in Routine : f \in Elements(routines[c])
      BY DEF Frames
    <2>2. routines[c] = <<Schedule>> \/ routines[c] = << >>
      BY DEF Init
    <2>3. f = Schedule
      BY <2>1, <2>2, FewFrames, ScheduleOK, <1>1
    <2> QED
      BY <2>3, OtherFrames DEF Schedule
  <1>4. ASSUME NEW n \in Node
        PROVE  MapOK(n)
    <2>1. /\ mapState[n] = [next |-> 0, count |-> 0, active |-> {}] /\ branches[n] = {}
          /\ completed[n] = "no"
      BY DEF Init
    <2>2. CallsOf(n) = {} /\ Unanswered(n) = {}
      BY <1>2 DEF CallsOf, Unanswered
    <2>3. PICK E : E = {}
      OBVIOUS
    <2>4. CallsOf(n) \cap answered = E /\ mapState[n].active = E /\ Unanswered(n) = E
          /\ Cardinality(E) = 0
      BY <1>2, <2>1, <2>2, <2>3
    <2> QED
      BY <1>2, <2>1, <2>2, <2>4 DEF MapOK, MapCalls, MapCounts, MapItems
  <1> QED
    BY <1>2, <1>3, <1>4 DEF MapInv

\* Every step of a coroutine keeps it.
LEMMA RoutineMap == ASSUME BaseInv, MapInv, NEW c \in Routine, Step(c) PROVE MapInv'
  <1>1. CASE StopCancelled(c) \/ ScheduleNodes(c) \/ ExecuteNext(c)
    BY <1>1, StopMap, ScheduleMap, ExecuteMap
  <1>2. CASE CallAgent(c) \/ SkipNode(c) \/ PublishCall(c) \/ CallFails(c)
    BY <1>2, CallMap, SkipMap, PublishMap, FailsMap
  <1>3. CASE EvaluateSwitch(c)
    BY <1>3, SwitchMap
  <1>4. CASE EnterLoop(c) \/ StopLoopAtLimit(c) \/ StopLoopOnCondition(c)
    BY <1>4, EnterLoopMap, LoopEndsMap
  <1>5. CASE ContinueLoop(c) \/ Iterate(c) \/ IterationLoaded(c)
    BY <1>5, ContinueMap, IterateMap, IterationLoadedMap
  <1>6. CASE StartMap(c) \/ LaunchItem(c) \/ LaunchedAll(c) \/ CheckMap(c) \/ FinalizeMap(c)
    BY <1>6, StartMapMap, LaunchItemMap, LaunchedAllMap, CheckMapMap, FinalizeMapMap
  <1>7. CASE NodeFailed(c) \/ NodeSucceeded(c) \/ OutputLoaded(c) \/ LoadFails(c)
    BY <1>7, FailedMap, SucceededMap, LoadedMap, FailsMap
  <1>10. CASE StrayCompleted(c) \/ StrayLoaded(c) \/ BranchGone(c)
    BY <1>10, StrayMap, BranchGoneMap
  <1>8. CASE IterationSucceeded(c) \/ ItemSucceeded(c)
    BY <1>8, IterationMap, ItemMap
  <1>9. CASE RunExitHandler(c) \/ OutputFails(c) \/ PublishResponse(c) \/ CleanUp(c)
    BY <1>9, ExitMap, FailsMap, EndMap
  <1> QED
    BY <1>1, <1>2, <1>3, <1>4, <1>5, <1>6, <1>7, <1>8, <1>9, <1>10 DEF Step

\* Every step of the host, and every step that changes nothing, keeps it.
LEMMA HostStepsMap ==
    ASSUME BaseInv, MapInv,
           \/ \E k \in Call : ExpireTimer(k) \/ HandleTimeout(k)
           \/ \E k \in Call, reply \in Replies : ReceiveResponse(k, reply)
           \/ \E q \in 1 .. MaxCancels : ReceiveCancel(q)
           \/ UNCHANGED vars
    PROVE  MapInv'
  <1>1. definition \in Definitions
    BY DEF BaseInv, TypeOK
  <1>2. ASSUME NEW k \in Call, ExpireTimer(k)
        PROVE  MapInv'
    BY <1>2, HostMap DEF ExpireTimer, nodeVars, callVars
  <1>3. ASSUME NEW k \in Call, HandleTimeout(k)
        PROVE  MapInv'
    <2>1. PICK f : f = [at |-> "complete", call |-> k, ok |-> FALSE]
      OBVIOUS
    <2>2. f \in Frame /\ <<"timeout", k>> \in Routine
      BY <1>1, <2>1, FrameMade DEF Routine
    <2>3. Begin(<<"timeout", k>>, f) \/ UNCHANGED loopVars
      BY <1>3, <2>1 DEF HandleTimeout
    <2>4. UNCHANGED <<completed, groupVars>> /\ calls' = calls
      BY <1>3 DEF HandleTimeout, nodeVars, callVars
    <2> QED
      BY <2>1, <2>2, <2>3, <2>4, HostMap
  <1>4. ASSUME NEW k \in Call, NEW reply \in Replies, ReceiveResponse(k, reply)
        PROVE  MapInv'
    <2>1. PICK f : f = [at |-> "complete", call |-> k, ok |-> reply = "success"]
      OBVIOUS
    <2>2. f \in Frame /\ <<"response", k>> \in Routine
      <3>1. PICK ok \in BOOLEAN : ok = (reply = "success")
        OBVIOUS
      <3> QED
        BY <1>1, <2>1, <3>1, FrameMade DEF Routine
    <2>3. Begin(<<"response", k>>, f) \/ UNCHANGED loopVars
      BY <1>4, <2>1 DEF ReceiveResponse
    <2>4. UNCHANGED <<completed, groupVars>> /\ calls' = calls
      BY <1>4 DEF ReceiveResponse, nodeVars, callVars
    <2> QED
      BY <2>1, <2>2, <2>3, <2>4, HostMap
  <1>5. ASSUME NEW q \in 1 .. MaxCancels, ReceiveCancel(q)
        PROVE  MapInv'
    <2>1. PICK f : f = Finalize("cancelled")
      OBVIOUS
    <2>2. f \in Frame /\ f.at = "finalize" /\ <<"cancel", q>> \in Routine
      BY <1>1, <2>1, FrameMade DEF Outcome, Routine
    <2>3. Begin(<<"cancel", q>>, f)
      BY <1>5, <2>1 DEF ReceiveCancel
    <2>4. UNCHANGED <<completed, groupVars>> /\ calls' = calls
      BY <1>5 DEF ReceiveCancel, nodeVars, callVars
    <2> QED
      BY <2>2, <2>3, <2>4, HostMap
  <1>6. CASE UNCHANGED vars
    BY <1>6, HostMap DEF vars, nodeVars, callVars
  <1> QED
    BY <1>2, <1>3, <1>4, <1>5, <1>6

\* Every step keeps the invariant of the maps.
LEMMA NextMap == BaseInv /\ MapInv /\ [Next]_vars => MapInv'
  BY RoutineMap, HostStepsMap DEF Next, Runnable, Terminated

\* The invariant of the maps always holds.
LEMMA MapAlways == Spec => [](BaseInv /\ MapInv)
  BY InitBase, InitMap, NextBase, NextMap, PTL DEF Spec

\* As long as no item is called twice, a map keeps to its concurrency limit, also
\* when completions launch items while other launches are suspended, when it is
\* entered again and when sub-tasks fail, time out or answer late; and it is not
\* completed before each of its items has a result.
THEOREM MapsRunTheirItems == Spec => [](CalledOnce => MapRunsItems)
  <1>1. BaseInv /\ MapInv => (CalledOnce => MapRunsItems)
    BY DEF MapInv, MapOK, MapItems, MapRunsItems, HasResults, Unanswered, CallsOf
  <1> QED
    BY <1>1, MapAlways, PTL

-----------------------------------------------------------------------------
(* Calls without an await: the stacks.                                     *)

\* Saving and sessions do not suspend (they are kept in memory), no agent call
\* raises, and there is nothing that schedules while a batch is under way: no
\* switch, no condition, no exit handler, no loop that ends before it begins.
InlineCalls ==
    /\ "save" \notin Awaits /\ "session" \notin Awaits /\ MayRaise = FALSE
    /\ \A d \in Definitions :
          /\ \A n \in NodesOf(d) : d.kind[n] # "switch"
          /\ d.conditional = {}
          /\ \A o \in Outcome : d.onExit[o] = << >>
          /\ (\E n \in NodesOf(d) : d.kind[n] = "loop") => d.maxIterations > 0

\* Where a coroutine may be suspended, and what a batch may have on top.
Waits   == {"iterate"} \cup
           {place \in {"load", "looped", "aggregate", "strayed"} : "load" \in Awaits}
Loops   == {"loop", "iterate", "looped"}
InBatch == {"execute", "loop", "iterate", "launch", "publish"}

Waiting(s) == s = << >> \/ (Len(s) = 1 /\ s[1].at \in Waits)
Running(s) ==
    \/ /\ Len(s) = 1 /\ s[1].at \notin {"execute", "launch"}
       /\ s[1].at = "finalize" => s[1].handlers = << >>
    \/ Len(s) = 2 /\ s[2].at = "batch" /\ s[1].at \in InBatch
    \/ Len(s) = 2 /\ s[2].at = "mapcheck" /\ s[1].at = "launch"
    \/ Len(s) = 3 /\ s[3].at \in {"batch", "mapcheck"} /\ s[2].at = "launch" /\ s[1].at = "publish"

\* Every coroutine but the one that runs is suspended outside a batch.
StacksInv ==
    /\ \A c \in Routine : c # turn => Waiting(routines[c])
    /\ turn # Idle => Running(routines[turn])

\* The batch that is under way, at the bottom of the stack that runs.
NoBatch == [at |-> "batch", todo |-> {}, started |-> {}]
BatchOf(s) == IF Len(s) # 0 /\ s[Len(s)].at = "batch" THEN s[Len(s)] ELSE NoBatch
Batch == IF turn = Idle THEN NoBatch ELSE BatchOf(routines[turn])
Todo    == Batch.todo
Started == Batch.started

\* What is under a frame at place.
RestOK(place, s) ==
    \/ Len(s) = 0 /\ place \notin {"execute", "launch"}
    \/ Len(s) = 1 /\ s[1].at = "batch" /\ place \in InBatch
    \/ Len(s) = 1 /\ s[1].at = "mapcheck" /\ place = "launch"
    \/ Len(s) = 2 /\ s[2].at \in {"batch", "mapcheck"} /\ s[1].at = "launch" /\ place = "publish"

\* The stack of a coroutine that takes a step.
LEMMA StackAt ==
    ASSUME StackOK, StacksInv, NEW c \in Routine, NEW place, At(c, place)
    PROVE  /\ routines[c] \in Seq(Frame) /\ Tail(routines[c]) \in Seq(Frame)
           /\ Len(Tail(routines[c])) \in Nat /\ Len(routines[c]) = Len(Tail(routines[c])) + 1
           /\ Head(routines[c]) = routines[c][1]
           /\ \A i \in 1 .. Len(Tail(routines[c])) : Tail(routines[c])[i] = routines[c][i + 1]
           /\ RestOK(place, Tail(routines[c]))
           /\ turn = Idle => Len(Tail(routines[c])) = 0
           /\ \A d \in Routine : d # c => Waiting(routines[d])
           /\ place = "finalize" => Top(c).handlers = << >>
  <1> DEFINE s == routines[c]
             r == Tail(routines[c])
  <1>1. s \in Seq(Frame) /\ s # << >> /\ Head(s).at = place /\ turn \in {c, Idle}
    BY DEF At, StackOK
  <1>2. /\ r \in Seq(Frame) /\ Len(r) = Len(s) - 1
        /\ \A i \in 1 .. Len(r) : r[i] = s[i + 1]
    BY <1>1, HeadTailProperties
  <1>3. Len(s) \in Nat /\ Len(r) \in Nat /\ Head(s) = s[1]
    BY <1>1, <1>2, LenProperties
  <1>4. Len(s) = Len(r) + 1
    BY <1>2, <1>3
  <1>5. \A d \in Routine : d # c => Waiting(routines[d])
    BY <1>1, IdleName DEF StacksInv
  <1>6. RestOK(place, r) /\ (turn = Idle => Len(r) = 0)
        /\ (place = "finalize" => s[1].handlers = << >>)
    <2>1. CASE turn = Idle
      <3>1. Waiting(s)
        BY <2>1, IdleName DEF StacksInv
      <3>2. Len(s) = 1 /\ s[1].at \in Waits
        BY <1>1, <3>1 DEF Waiting
      <3> QED
        BY <1>1, <1>3, <1>4, <3>2 DEF RestOK, Waits
    <2>2. CASE turn = c
      <3>1. Running(s)
        BY <2>2, IdleName DEF StacksInv
      <3>2. s[1].at = place
        BY <1>1, <1>3
      <3>3. Len(s) = 1 => Len(r) = 0
        BY <1>3, <1>4
      <3>4. Len(s) = 2 => Len(r) = 1 /\ r[1] = s[2]
        BY <1>2, <1>3, <1>4
      <3>5. Len(s) = 3 => Len(r) = 2 /\ r[1] = s[2] /\ r[2] = s[3]
        BY <1>2, <1>3, <1>4
      <3>6. turn # Idle
        BY <2>2, IdleName
      <3> HIDE DEF s, r
      <3>7. CASE /\ Len(s) = 1 /\ s[1].at \notin {"execute", "launch"}
                 /\ s[1].at = "finalize" => s[1].handlers = << >>
        BY <3>2, <3>3, <3>6, <3>7 DEF RestOK
      <3>8. CASE Len(s) = 2 /\ s[2].at = "batch" /\ s[1].at \in InBatch
        BY <3>2, <3>4, <3>6, <3>8 DEF RestOK, InBatch
      <3>9. CASE Len(s) = 2 /\ s[2].at = "mapcheck" /\ s[1].at = "launch"
        BY <3>2, <3>4, <3>6, <3>9 DEF RestOK
      <3>10. CASE Len(s) = 3 /\ s[3].at \in {"batch", "mapcheck"} /\ s[2].at = "launch"
                  /\ s[1].at = "publish"
        BY <3>2, <3>5, <3>6, <3>10 DEF RestOK
      <3> QED
        BY <3>1, <3>7, <3>8, <3>9, <3>10 DEF Running
    <2> QED
      BY <1>1, <2>1, <2>2
  <1> QED
    BY <1>1, <1>2, <1>3, <1>4, <1>5, <1>6 DEF Top

\* The stack after the step.
LEMMA NewStack ==
    ASSUME StackOK, NEW c \in Routine, routines[c] # << >>,
           NEW frames \in Seq(Frame), NEW await, Become(c, frames, await)
    PROVE  LET r == Tail(routines[c])
               t == routines'[c]
           IN  /\ Len(frames) \in Nat /\ Len(t) = Len(frames) + Len(r)
               /\ \A i \in 1 .. Len(frames) : t[i] = frames[i]
               /\ \A i \in 1 .. Len(r) : t[Len(frames) + i] = r[i]
               /\ \A d \in Routine : d # c => routines'[d] = routines[d]
               /\ turn' = IF await \in Awaits \/ Len(t) = 0 THEN Idle ELSE c
  <1> DEFINE r == Tail(routines[c])
             t == frames \o r
  <1>1. routines[c] \in Seq(Frame) /\ r \in Seq(Frame)
    BY StackElements DEF StackOK
  <1>2. /\ routines' = [routines EXCEPT ![c] = t]
        /\ turn' = IF await \in Awaits \/ t = << >> THEN Idle ELSE c
    BY DEF Become
  <1>3. Len(frames) \in Nat /\ Len(r) \in Nat
    BY <1>1, LenProperties
  <1>4. /\ t \in Seq(Frame) /\ Len(t) = Len(frames) + Len(r)
        /\ \A i \in 1 .. Len(frames) + Len(r) :
             t[i] = IF i <= Len(frames) THEN frames[i] ELSE r[i - Len(frames)]
    BY <1>1, ConcatProperties
  <1> HIDE DEF r, t
  <1>5. \A i \in 1 .. Len(frames) : t[i] = frames[i]
    BY <1>3, <1>4
  <1>6. ASSUME NEW i \in 1 .. Len(r)
        PROVE  t[Len(frames) + i] = r[i]
    <2>1. PICK j : j = Len(frames) + i
      OBVIOUS
    <2>2. j \in 1 .. Len(frames) + Len(r) /\ ~(j <= Len(frames)) /\ j - Len(frames) = i
      BY <1>3, <2>1
    <2> QED
      BY <1>4, <2>1, <2>2
  <1>7. t = << >> <=> Len(t) = 0
    BY <1>4, EmptySeq
  <1>8. routines'[c] = t /\ \A d \in Routine : d # c => routines'[d] = routines[d]
    BY <1>2 DEF StackOK
  <1> QED
    BY <1>2, <1>3, <1>4, <1>5, <1>6, <1>7, <1>8 DEF r

\* The batch that is under way, seen from a coroutine that takes a step.
LEMMA BatchAt ==
    ASSUME StackOK, StacksInv, NEW c \in Routine, NEW place, At(c, place)
    PROVE  /\ place = "batch" => Batch = Top(c)
           /\ place # "batch" => Batch = BatchOf(Tail(routines[c]))
  <1> DEFINE s == routines[c]
             r == Tail(routines[c])
  <1>1. /\ Len(r) \in Nat /\ Len(s) = Len(r) + 1 /\ Head(s) = s[1]
        /\ \A i \in 1 .. Len(r) : r[i] = s[i + 1]
        /\ RestOK(place, r) /\ (turn = Idle => Len(r) = 0)
    BY StackAt
  <1>2. s # << >> /\ s[1].at = place /\ turn \in {c, Idle} /\ Top(c) = s[1]
    BY <1>1 DEF At, Top
  <1> HIDE DEF s, r
  <1>3. CASE turn = Idle
    <2>1. place # "batch"
      <3>1. Waiting(s)
        BY <1>3, IdleName DEF StacksInv, s
      <3> QED
        BY <1>2, <3>1 DEF Waiting, Waits
    <2>2. BatchOf(r) = NoBatch /\ Batch = NoBatch
      BY <1>1, <1>3 DEF BatchOf, Batch
    <2> QED
      BY <2>1, <2>2 DEF r
  <1>4. CASE turn = c
    <2>1. Batch = BatchOf(s)
      BY <1>4, IdleName DEF Batch, s
    <2>2. CASE Len(r) = 0
      <3>1. Len(s) = 1 /\ BatchOf(r) = NoBatch
        BY <1>1, <2>2 DEF BatchOf
      <3>2. BatchOf(s) = IF place = "batch" THEN s[1] ELSE NoBatch
        BY <1>2, <3>1 DEF BatchOf
      <3> QED
        BY <1>2, <2>1, <3>1, <3>2 DEF r
    <2>3. CASE Len(r) # 0
      <3>1. Len(r) \in 1 .. Len(r) /\ Len(s) # 0
        BY <1>1, <2>3
      <3>2. s[Len(s)] = r[Len(r)]
        BY <1>1, <3>1
      <3>3. place # "batch"
        BY <1>1, <2>3 DEF RestOK, InBatch
      <3>4. BatchOf(s) = BatchOf(r)
        BY <2>3, <3>1, <3>2 DEF BatchOf
      <3> QED
        BY <2>1, <3>3, <3>4 DEF r
    <2> QED
      BY <2>2, <2>3
  <1> QED
    BY <1>2, <1>3, <1>4

\* After a step of c, the other coroutines are where they were.
OthersSame(c) == \A d \in Routine : d # c => routines'[d] = routines[d]

\* The stacks after a step, from the one of the coroutine that took it.
LEMMA StacksAfter ==
    ASSUME NEW c \in Routine, \A d \in Routine : d # c => Waiting(routines[d]), OthersSame(c),
           \/ turn' = Idle /\ Waiting(routines'[c])
           \/ turn' = c /\ Running(routines'[c])
    PROVE  StacksInv' /\ Batch' = IF turn' = Idle THEN NoBatch ELSE BatchOf(routines'[c])
  <1>1. c # Idle /\ c # turn' => turn' = Idle
    BY IdleName
  <1>2. \A d \in Routine : d # turn' => Waiting(routines'[d])
    BY <1>1 DEF OthersSame
  <1>3. turn' # Idle => turn' = c /\ Running(routines'[turn'])
    OBVIOUS
  <1>4. StacksInv'
    BY <1>2, <1>3 DEF StacksInv
  <1>5. Batch' = IF turn' = Idle THEN NoBatch ELSE BatchOf(routines'[turn'])
    BY DEF Batch
  <1> QED
    BY <1>3, <1>4, <1>5

\* The frame on top is popped, without an await.
LEMMA Pop ==
    ASSUME StackOK, StacksInv, NEW c \in Routine, NEW place, At(c, place), place # "batch",
           NEW await, await \notin Awaits, Become(c, << >>, await)
    PROVE  /\ StacksInv' /\ Batch' = Batch /\ OthersSame(c) /\ turn' \in {c, Idle}
           /\ Len(routines'[c]) # 0 => routines'[c][1].at \in {"batch", "mapcheck", "launch"}
  <1> DEFINE r == Tail(routines[c])
             t == routines'[c]
  <1>1. /\ Len(r) \in Nat /\ RestOK(place, r) /\ \A d \in Routine : d # c => Waiting(routines[d])
    BY StackAt
  <1>2. Batch = BatchOf(r)
    BY BatchAt
  <1>3. /\ Len(t) = Len(r) /\ \A i \in 1 .. Len(r) : t[i] = r[i]
        /\ OthersSame(c) /\ turn' = IF Len(t) = 0 THEN Idle ELSE c
    <2>1. PICK frames \in Seq(Frame) : frames = << >> /\ Elements(frames) = {}
      BY FewFrames
    <2>2. Become(c, frames, await) /\ routines[c] # << >>
      BY <2>1 DEF At
    <2>3. /\ Len(frames) \in Nat /\ Len(t) = Len(frames) + Len(r)
          /\ \A i \in 1 .. Len(r) : t[Len(frames) + i] = r[i]
          /\ \A d \in Routine : d # c => routines'[d] = routines[d]
          /\ turn' = IF await \in Awaits \/ Len(t) = 0 THEN Idle ELSE c
      BY <2>2, NewStack
    <2>4. Len(frames) = 0
      BY <2>1
    <2> HIDE DEF r, t
    <2>5. \A i \in 1 .. Len(r) : Len(frames) + i = i
      BY <1>1, <2>4
    <2> QED
      BY <1>1, <2>3, <2>4, <2>5 DEF OthersSame
  <1> HIDE DEF r, t
  <1>4. BatchOf(t) = BatchOf(r)
    <2>1. Len(r) # 0 => Len(r) \in 1 .. Len(r)
      BY <1>1
    <2> QED
      BY <1>3, <2>1 DEF BatchOf
  <1>5. CASE Len(r) = 0
    <2>1. turn' = Idle /\ Waiting(t)
      <3>1. Len(t) = 0
        BY <1>3, <1>5
      <3>2. t = << >>
        <4>1. PICK frames \in Seq(Frame) : frames = << >> /\ Elements(frames) = {}
          BY FewFrames
        <4>2. StackOK'
          BY <4>1, BecomeFrames DEF At
        <4>3. t \in Seq(Frame')
          BY <4>2 DEF StackOK, t
        <4> QED
          BY <3>1, <4>3, EmptySeq
      <3> QED
        BY <1>3, <3>1, <3>2 DEF Waiting
    <2>2. StacksInv' /\ Batch' = NoBatch
      BY <1>1, <1>3, <2>1, StacksAfter DEF t
    <2>3. BatchOf(r) = NoBatch
      BY <1>5 DEF BatchOf
    <2> QED
      BY <1>2, <1>3, <1>5, <2>1, <2>2, <2>3 DEF t
  <1>6. CASE Len(r) # 0
    <2>1. turn' = c /\ t[1] = r[1]
      BY <1>1, <1>3, <1>6
    <2>2. Running(t) /\ t[1].at \in {"batch", "mapcheck", "launch"}
      <3>1. CASE Len(r) = 1
        BY <1>1, <1>3, <2>1, <3>1 DEF RestOK, Running
      <3>2. CASE Len(r) = 2
        <4>1. t[2] = r[2]
          BY <1>3, <3>2
        <4> QED
          BY <1>1, <1>3, <2>1, <3>2, <4>1 DEF RestOK, Running, InBatch
      <3> QED
        BY <1>1, <1>6, <3>1, <3>2 DEF RestOK
    <2>3. StacksInv' /\ Batch' = BatchOf(t)
      BY <1>1, <1>3, <2>1, <2>2, StacksAfter, IdleName DEF t
    <2> QED
      BY <1>2, <1>3, <1>4, <2>1, <2>2, <2>3 DEF t
  <1> QED
    BY <1>5, <1>6

\* Another frame takes the place of the one on top.
LEMMA Swap ==
    ASSUME StackOK, StacksInv, NEW c \in Routine, NEW place, At(c, place),
           NEW frames \in Seq(Frame), Len(frames) = 1,
           NEW f, frames[1] = f,
           NEW await, Become(c, frames, await),
           Len(Tail(routines[c])) = 0 =>
               /\ f.at \notin {"execute", "launch"}
               /\ f.at = "finalize" => f.handlers = << >>
               /\ await \in Awaits => f.at \in Waits,
           Len(Tail(routines[c])) # 0 => await \notin Awaits /\ RestOK(f.at, Tail(routines[c]))
    PROVE  /\ StacksInv' /\ OthersSame(c) /\ turn' \in {c, Idle}
           /\ Len(routines'[c]) = Len(routines[c]) /\ routines'[c][1] = f
           /\ Batch' = IF Len(Tail(routines[c])) # 0 THEN Batch
                       ELSE IF f.at = "batch" THEN f ELSE NoBatch
  <1> DEFINE r == Tail(routines[c])
             t == routines'[c]
  <1>1. /\ Len(r) \in Nat /\ RestOK(place, r) /\ \A d \in Routine : d # c => Waiting(routines[d])
        /\ Len(routines[c]) = Len(r) + 1
    BY StackAt
  <1>2. place # "batch" => Batch = BatchOf(r)
    BY BatchAt
  <1>3. /\ Len(t) = 1 + Len(r) /\ t[1] = f /\ \A i \in 1 .. Len(r) : t[1 + i] = r[i]
        /\ OthersSame(c) /\ turn' = IF await \in Awaits THEN Idle ELSE c
    <2>1. /\ Len(t) = Len(frames) + Len(r)
          /\ \A i \in 1 .. Len(frames) : t[i] = frames[i]
          /\ \A i \in 1 .. Len(r) : t[Len(frames) + i] = r[i]
          /\ \A d \in Routine : d # c => routines'[d] = routines[d]
          /\ turn' = IF await \in Awaits \/ Len(t) = 0 THEN Idle ELSE c
      BY NewStack DEF At
    <2> HIDE DEF r, t
    <2>2. 1 \in 1 .. Len(frames) /\ Len(t) = 1 + Len(r) /\ Len(t) # 0
      BY <1>1, <2>1
    <2> QED
      BY <1>1, <2>1, <2>2 DEF OthersSame
  <1> HIDE DEF r, t
  <1>4. CASE Len(r) = 0
    <2>1. Len(t) = 1
      BY <1>3, <1>4
    <2>2. \/ turn' = Idle /\ Waiting(t) /\ f.at \in Waits
          \/ turn' = c /\ Running(t)
      BY <1>3, <1>4, <2>1 DEF Waiting, Running, r
    <2>3. StacksInv' /\ Batch' = IF turn' = Idle THEN NoBatch ELSE BatchOf(t)
      BY <1>1, <1>3, <2>2, StacksAfter DEF t
    <2>4. BatchOf(t) = IF f.at = "batch" THEN f ELSE NoBatch
      <3>1. Len(t) # 0 /\ t[Len(t)] = t[1]
        BY <2>1
      <3> QED
        BY <1>3, <3>1 DEF BatchOf
    <2>5. Batch' = IF f.at = "batch" THEN f ELSE NoBatch
      BY <2>2, <2>3, <2>4, IdleName DEF Waits
    <2> QED
      BY <1>1, <1>3, <1>4, <2>1, <2>3, <2>5 DEF r, t
  <1>5. CASE Len(r) # 0
    <2>1. turn' = c /\ RestOK(f.at, r) /\ place # "batch"
      BY <1>1, <1>3, <1>5 DEF r, RestOK, InBatch
    <2>2. Running(t)
      <3>1. CASE Len(r) = 1
        <4>1. t[2] = r[1] /\ Len(t) = 2
          BY <1>3, <3>1
        <4> QED
          BY <1>3, <2>1, <3>1, <4>1 DEF RestOK, Running
      <3>2. CASE Len(r) = 2
        <4>1. t[2] = r[1] /\ t[3] = r[2] /\ Len(t) = 3
          BY <1>3, <3>2
        <4> QED
          BY <1>3, <2>1, <3>2, <4>1 DEF RestOK, Running
      <3> QED
        BY <1>1, <1>5, <3>1, <3>2 DEF RestOK
    <2>3. StacksInv' /\ Batch' = BatchOf(t)
      BY <1>1, <1>3, <2>1, <2>2, StacksAfter, IdleName DEF t
    <2>4. BatchOf(t) = BatchOf(r)
      <3>1. Len(r) \in 1 .. Len(r) /\ Len(t) = 1 + Len(r) /\ Len(t) # 0
        BY <1>1, <1>3, <1>5
      <3> QED
        BY <1>3, <1>5, <3>1 DEF BatchOf
    <2> QED
      BY <1>1, <1>2, <1>3, <1>5, <2>1, <2>3, <2>4 DEF r, t
  <1> QED
    BY <1>4, <1>5

\* Two frames take its place, without an await.
LEMMA Push ==
    ASSUME StackOK, StacksInv, NEW c \in Routine, NEW place, At(c, place),
           NEW frames \in Seq(Frame), Len(frames) = 2,
           NEW f, NEW g, frames[1] = f, frames[2] = g,
           NEW await, await \notin Awaits, Become(c, frames, await),
           Len(Tail(routines[c])) = 0 =>
               \/ g.at = "batch" /\ f.at \in InBatch
               \/ g.at = "mapcheck" /\ f.at = "launch",
           Len(Tail(routines[c])) # 0 => place = "launch" /\ g.at = "launch" /\ f.at = "publish"
    PROVE  /\ StacksInv' /\ OthersSame(c) /\ turn' = c
           /\ Len(routines'[c]) = Len(routines[c]) + 1 /\ routines'[c][1] = f
           /\ Batch' = IF Len(Tail(routines[c])) # 0 THEN Batch
                       ELSE IF g.at = "batch" THEN g ELSE NoBatch
  <1> DEFINE r == Tail(routines[c])
             t == routines'[c]
  <1>1. /\ Len(r) \in Nat /\ RestOK(place, r) /\ \A d \in Routine : d # c => Waiting(routines[d])
        /\ Len(routines[c]) = Len(r) + 1
    BY StackAt
  <1>2. place # "batch" => Batch = BatchOf(r)
    BY BatchAt
  <1>3. /\ Len(t) = 2 + Len(r) /\ t[1] = f /\ t[2] = g /\ \A i \in 1 .. Len(r) : t[2 + i] = r[i]
        /\ OthersSame(c) /\ turn' = c
    <2>1. /\ Len(t) = Len(frames) + Len(r)
          /\ \A i \in 1 .. Len(frames) : t[i] = frames[i]
          /\ \A i \in 1 .. Len(r) : t[Len(frames) + i] = r[i]
          /\ \A d \in Routine : d # c => routines'[d] = routines[d]
          /\ turn' = IF await \in Awaits \/ Len(t) = 0 THEN Idle ELSE c
      BY NewStack DEF At
    <2> HIDE DEF r, t
    <2>2. /\ 1 \in 1 .. Len(frames) /\ 2 \in 1 .. Len(frames) /\ Len(t) = 2 + Len(r)
          /\ Len(t) # 0
      BY <1>1, <2>1
    <2> QED
      BY <1>1, <2>1, <2>2 DEF OthersSame
  <1> HIDE DEF r, t
  <1>4. Running(t) => StacksInv' /\ Batch' = BatchOf(t)
    BY <1>1, <1>3, StacksAfter, IdleName DEF t
  <1>5. CASE Len(r) = 0
    <2>1. Len(t) = 2
      BY <1>3, <1>5
    <2>2. Running(t)
      BY <1>3, <1>5, <2>1 DEF Running, r
    <2>3. Len(t) # 0 /\ t[Len(t)] = t[2]
      BY <2>1
    <2>4. BatchOf(t) = IF g.at = "batch" THEN g ELSE NoBatch
      BY <1>3, <2>3 DEF BatchOf
    <2> QED
      BY <1>1, <1>3, <1>4, <1>5, <2>1, <2>2, <2>4 DEF r, t
  <1>6. CASE Len(r) # 0
    <2>1. place = "launch" /\ g.at = "launch" /\ f.at = "publish"
      BY <1>6 DEF r
    <2>2. Len(r) = 1 /\ r[1].at \in {"batch", "mapcheck"}
      BY <1>1, <1>6, <2>1 DEF RestOK
    <2>3. Len(t) = 3 /\ t[3] = r[1]
      BY <1>3, <2>2
    <2>4. Running(t)
      BY <1>3, <2>1, <2>2, <2>3 DEF Running
    <2>5. Len(t) # 0 /\ t[Len(t)] = t[3] /\ Len(r) # 0 /\ r[Len(r)] = r[1]
      BY <2>2, <2>3
    <2>6. BatchOf(t) = BatchOf(r)
      BY <2>3, <2>5 DEF BatchOf
    <2> QED
      BY <1>1, <1>2, <1>3, <1>4, <1>6, <2>1, <2>2, <2>3, <2>4, <2>6 DEF r, t
  <1> QED
    BY <1>5, <1>6

-----------------------------------------------------------------------------
(* Calls without an await: the invariant.                                  *)

\* Coroutine c is about to start an iteration of loop n.
Busy(c, n) ==
    Len(routines[c]) # 0 /\ routines[c][1].at \in Loops /\ routines[c][1].node = n

\* Nothing was done for n, and n was given to the coroutine that runs, or is
\* in one of the sets that get_next_nodes consults.
Fresh(n) == CallsOf(n) = {} /\ iterations[n] = 0 /\ \A c \in Routine : ~Busy(c, n)
Given(n) == completed[n] # "no" \/ pending[n] > 0 \/ n \in Started

NodeGiven(n) ==
    /\ Fresh(n) \/ Given(n)
    /\ n \in Todo => Fresh(n) /\ ~Given(n)
LoopBusy(n) == \A c \in Routine : Busy(c, n) =>
    /\ CallsOf(n) \subseteq answered
    /\ routines[c][1].at = "iterate" => routines[c][1].index = iterations[n]
    /\ Len(routines[c]) > 1 => iterations[n] = 0
    /\ \A d \in Routine : Busy(d, n) => d = c
CallsApart(n) ==
    /\ \A k \in CallsOf(n) : /\ Kind[n] = "loop" => calls[k].index < iterations[n]
                             /\ Kind[n] = "map" => calls[k].index < mapState[n].next
    /\ \A j, k \in CallsOf(n) : calls[j].index = calls[k].index => j = k
    /\ Kind[n] = "loop" =>
         /\ branches[n] \subseteq CallsOf(n)
         /\ \A j, k \in CallsOf(n) :
              j < k => j \in answered /\ calls[j].index < calls[k].index
NodeOK(n) == NodeGiven(n) /\ LoopBusy(n) /\ CallsApart(n)

LaunchesGiven == \A f \in Frames : f.at = "launch" => Given(f.node)
ExecutesFresh ==
    turn # Idle /\ routines[turn][1].at = "execute" =>
        routines[turn][1].node \in Started /\ Fresh(routines[turn][1].node)

CallInv == StacksInv /\ (\A n \in Node : NodeOK(n)) /\ LaunchesGiven /\ ExecutesFresh

\* A step that does nothing for node n.
Untouched(n) ==
    /\ \A k \in DOMAIN calls' \ DOMAIN calls : calls'[k].node # n
    /\ iterations'[n] = iterations[n]
    /\ Kind[n] = "map" => mapState'[n].next = mapState[n].next
    /\ Kind[n] = "loop" => branches'[n] \subseteq branches[n]
    /\ \A d \in Routine : Busy(d, n)' => routines'[d] = routines[d]

\* What was given stays given, and what is to do was not given.
Progress == \A n \in Node :
    /\ Given(n) => Given(n)'
    /\ n \in Todo' => (n \in Todo \/ ~Given(n)) /\ (Given(n)' => Given(n))

\* Such a step keeps what is true of the node.
LEMMA NodeSame ==
    ASSUME CallsKept, Progress, NEW n \in Node, NodeOK(n), Untouched(n)
    PROVE  NodeOK(n)'
  <1>1. CallsOf(n)' = CallsOf(n) /\ \A k \in CallsOf(n) : calls'[k] = calls[k]
    BY DEF CallsKept, CallsOf, Untouched
  <1>2. Kind' = Kind /\ answered \subseteq answered'
    BY SameDefinition DEF CallsKept
  <1>3. \A d \in Routine : Busy(d, n)' => Busy(d, n) /\ routines'[d] = routines[d]
    BY DEF Untouched, Busy
  <1>4. Fresh(n) => Fresh(n)'
    BY <1>1, <1>3 DEF Fresh, Untouched
  <1>5. NodeGiven(n)'
    <2>1. NodeGiven(n) /\ (Given(n) => Given(n)')
          /\ (n \in Todo' => (n \in Todo \/ ~Given(n)) /\ (Given(n)' => Given(n)))
      BY DEF NodeOK, Progress
    <2> QED
      BY <1>4, <2>1 DEF NodeGiven
  <1>6. LoopBusy(n)'
    <2> SUFFICES ASSUME NEW d \in Routine, Busy(d, n)'
                 PROVE  /\ CallsOf(n)' \subseteq answered'
                        /\ routines'[d][1].at = "iterate"
                             => routines'[d][1].index = iterations'[n]
                        /\ Len(routines'[d]) > 1 => iterations'[n] = 0
                        /\ \A e \in Routine : Busy(e, n)' => e = d
      BY DEF LoopBusy
    <2>1. Busy(d, n) /\ routines'[d] = routines[d] /\ iterations'[n] = iterations[n]
      BY <1>3 DEF Untouched
    <2>2. /\ CallsOf(n) \subseteq answered
          /\ routines[d][1].at = "iterate" => routines[d][1].index = iterations[n]
          /\ Len(routines[d]) > 1 => iterations[n] = 0
          /\ \A e \in Routine : Busy(e, n) => e = d
      BY <2>1 DEF NodeOK, LoopBusy
    <2> QED
      BY <1>1, <1>2, <1>3, <2>1, <2>2
  <1>7. CallsApart(n)'
    <2>1. CallsApart(n)
      BY DEF NodeOK
    <2> QED
      BY <1>1, <1>2, <2>1 DEF CallsApart, Untouched
  <1> QED
    BY <1>5, <1>6, <1>7 DEF NodeOK

\* The invariant after a step of a coroutine that may do something for m.
LEMMA CallStep ==
    ASSUME BaseInv, CallInv, NEW c \in Routine, routines[c] # << >>,
           NEW frames \in Seq(Frame), NEW await, Become(c, frames, await),
           \A f \in Elements(frames) : f.at = "launch" => Given(f.node) \/ Given(f.node)',
           CallsKept, Progress, StacksInv', ExecutesFresh',
           NEW m, \A n \in Node : n # m => Untouched(n), m \in Node => NodeOK(m)'
    PROVE  CallInv'
  <1>1. StackOK /\ TypeOK
    BY StackFromType DEF BaseInv
  <1>2. Frames' \subseteq Frames \cup Elements(frames) /\ Node' = Node
    BY <1>1, BecomeFrames, SameDefinition
  <1>3. \A f \in Frames \cup Elements(frames) : f.at = "launch" => f.node \in Node
    <2>1. Elements(frames) \subseteq Frame /\ \A f \in Frames : f \in Frame
      BY <1>1, StackElements, InFrame
    <2> QED
      BY <2>1, FrameFields DEF NodeFrames
  <1>4. LaunchesGiven'
    BY <1>2, <1>3 DEF LaunchesGiven, CallInv, Progress
  <1>5. \A n \in Node : NodeOK(n)'
    BY NodeSame DEF CallInv
  <1> QED
    BY <1>2, <1>4, <1>5 DEF CallInv

\* The same when the step leaves loops and maps alone, and its coroutine does
\* not go on with a loop.
LEMMA CallQuiet ==
    ASSUME BaseInv, MapInv, CallInv, NEW c \in Routine, routines[c] # << >>,
           NEW frames \in Seq(Frame), NEW await, Become(c, frames, await),
           \A f \in Elements(frames) : f.at # "launch",
           Progress, StacksInv', OthersSame(c), turn' \in {c, Idle},
           Len(routines'[c]) # 0 => routines'[c][1].at \notin Loops \cup {"execute"},
           UNCHANGED <<calls, answered, iterations, mapState>>,
           \A n \in Node : Kind[n] = "loop" => branches'[n] \subseteq branches[n]
    PROVE  CallInv'
  <1>1. CallsKept
    BY DEF CallsKept, MapInv, Become
  <1>2. ExecutesFresh'
    <2> SUFFICES ASSUME turn' # Idle PROVE routines'[turn'][1].at # "execute"
      BY DEF ExecutesFresh
    <2>1. turn' = c /\ Running(routines'[c])
      BY DEF StacksInv
    <2>2. Len(routines'[c]) # 0
      BY <2>1 DEF Running
    <2> QED
      BY <2>1, <2>2
  <1>3. \A n \in Node : Untouched(n)
    <2> SUFFICES ASSUME NEW n \in Node PROVE Untouched(n)
      OBVIOUS
    <2>1. ASSUME NEW d \in Routine, Busy(d, n)'
          PROVE  routines'[d] = routines[d]
      <3>1. d # c
        BY <2>1 DEF Busy
      <3> QED
        BY <3>1 DEF OthersSame
    <2> QED
      BY <2>1 DEF Untouched
  <1>4. PICK m : m \notin Node
    BY NoSetContainsEverything
  <1> QED
    BY <1>1, <1>2, <1>3, <1>4, CallStep

-----------------------------------------------------------------------------
(* Calls without an await: the steps that leave loops and maps alone.      *)

\* The awaits that do not suspend, and the definitions.
LEMMA Inline ==
    ASSUME InlineCalls, definition \in Definitions
    PROVE  /\ "nothing" \notin Awaits /\ "save" \notin Awaits /\ "session" \notin Awaits
           /\ ~MayRaise /\ Conditional = {} /\ \A n \in Node : Kind[n] # "switch"
           /\ \A o \in Outcome : OnExit[o] = << >>
           /\ \A n \in Node : Kind[n] = "loop" => MaxIterations > 0
  BY EnvironmentAssumption DEF InlineCalls, Conditional, Node, Kind, OnExit, MaxIterations

\* A frame that no batch has on top is the only one of its coroutine.
LEMMA Alone ==
    ASSUME StackOK, StacksInv, NEW c \in Routine, NEW place, At(c, place), place \notin InBatch
    PROVE  Len(Tail(routines[c])) = 0 /\ (place # "batch" => Batch = NoBatch)
  <1>1. Len(Tail(routines[c])) = 0
    <2>1. RestOK(place, Tail(routines[c]))
      BY StackAt
    <2> QED
      BY <2>1 DEF RestOK, InBatch
  <1> QED
    BY <1>1, BatchAt DEF BatchOf

\* Nothing is completed.
LEMMA SameProgress == ASSUME UNCHANGED <<completed, pending>>, Batch' = Batch PROVE Progress
  BY DEF Progress, Given, Todo, Started

\* A node completes when no batch is under way.
LEMMA DoneProgress ==
    ASSUME TypeOK, Batch = NoBatch, Batch' = NoBatch, NEW m \in Node,
           completed' = [completed EXCEPT ![m] = "done"],
           pending' = pending \/ pending' = NotPending(m)
    PROVE  Progress
  <1>1. Todo' = {} /\ Started = {} /\ Started' = {}
    BY DEF Todo, Started, NoBatch
  <1>2. \A n \in Node : Given(n) => Given(n)'
    <2> SUFFICES ASSUME NEW n \in Node, Given(n) PROVE Given(n)'
      OBVIOUS
    <2>1. CASE n = m
      BY <2>1 DEF TypeOK, Given
    <2>2. CASE n # m
      <3>1. completed'[n] = completed[n] /\ pending'[n] = pending[n]
        BY <2>2 DEF TypeOK, NotPending
      <3> QED
        BY <1>1, <3>1 DEF Given
    <2> QED
      BY <2>1, <2>2
  <1> QED
    BY <1>1, <1>2 DEF Progress

\* A frame is popped.
LEMMA QuietPop ==
    ASSUME InlineCalls, BaseInv, MapInv, CallInv,
           NEW c \in Routine, NEW place, place # "batch", At(c, place),
           Become(c, << >>, "nothing"),
           UNCHANGED <<calls, answered, iterations, mapState>>,
           \A n \in Node : Kind[n] = "loop" => branches'[n] \subseteq branches[n],
           \/ UNCHANGED <<completed, pending>>
           \/ /\ Len(Tail(routines[c])) = 0
              /\ \E m \in Node : /\ completed' = [completed EXCEPT ![m] = "done"]
                                 /\ pending' = NotPending(m)
    PROVE  CallInv'
  <1>1. /\ TypeOK /\ StackOK /\ StacksInv /\ "nothing" \notin Awaits
        /\ routines[c] # << >>
    BY StackFromType, Inline DEF BaseInv, CallInv, StackOK, At
  <1>2. /\ StacksInv' /\ Batch' = Batch /\ OthersSame(c) /\ turn' \in {c, Idle}
        /\ Len(routines'[c]) # 0 => routines'[c][1].at \in {"batch", "mapcheck", "launch"}
    BY <1>1, Pop
  <1>3. Progress
    <2>1. CASE UNCHANGED <<completed, pending>>
      BY <1>2, <2>1, SameProgress
    <2>2. CASE Len(Tail(routines[c])) = 0
      <3>1. Batch = NoBatch
        BY <1>1, <2>2, BatchAt DEF BatchOf
      <3> QED
        BY <1>1, <1>2, <3>1, SameProgress, DoneProgress
    <2> QED
      BY <2>1, <2>2
  <1>4. PICK frames \in Seq(Frame) : frames = << >> /\ Elements(frames) = {}
    BY FewFrames
  <1>5. Become(c, frames, "nothing") /\ \A f \in Elements(frames) : f.at # "launch"
    BY <1>4
  <1>6. Len(routines'[c]) # 0 => routines'[c][1].at \notin Loops \cup {"execute"}
    BY <1>2 DEF Loops
  <1> QED
    BY <1>1, <1>2, <1>3, <1>5, <1>6, CallQuiet

\* A frame gives way to another where no batch is under way.
LEMMA QuietSwap ==
    ASSUME InlineCalls, BaseInv, MapInv, CallInv,
           NEW c \in Routine, NEW place, place # "batch", At(c, place),
           Len(Tail(routines[c])) = 0,
           NEW f \in Frame, f.at \notin Loops \cup {"execute", "launch", "batch"},
           f.at = "finalize" => f.handlers = << >>,
           NEW await, await \in Awaits => f.at \in Waits,
           Become(c, <<f>>, await),
           UNCHANGED <<calls, answered, iterations, mapState>>,
           \A n \in Node : Kind[n] = "loop" => branches'[n] \subseteq branches[n],
           \/ UNCHANGED <<completed, pending>>
           \/ \E m \in Node : /\ completed' = [completed EXCEPT ![m] = "done"]
                              /\ pending' = pending \/ pending' = NotPending(m)
    PROVE  CallInv'
  <1>1. TypeOK /\ StackOK /\ StacksInv /\ routines[c] # << >>
    BY StackFromType DEF BaseInv, CallInv, At
  <1>2. PICK frames \in Seq(Frame) : frames = <<f>> /\ Elements(frames) = {f}
    BY FewFrames
  <1>3. Become(c, frames, await) /\ Len(frames) = 1 /\ frames[1] = f
    BY <1>2
  <1>4. /\ StacksInv' /\ OthersSame(c) /\ turn' \in {c, Idle}
        /\ Len(routines'[c]) = Len(routines[c]) /\ routines'[c][1] = f
        /\ Batch' = IF Len(Tail(routines[c])) # 0 THEN Batch
                    ELSE IF f.at = "batch" THEN f ELSE NoBatch
    BY <1>1, <1>3, Swap
  <1>5. Batch' = NoBatch /\ Batch = NoBatch
    <2>1. Batch = BatchOf(Tail(routines[c]))
      BY <1>1, BatchAt
    <2> QED
      BY <1>4, <2>1 DEF BatchOf
  <1>6. Progress
    BY <1>1, <1>5, SameProgress, DoneProgress
  <1>7. \A g \in Elements(frames) : g.at # "launch"
    BY <1>2
  <1> QED
    BY <1>1, <1>3, <1>4, <1>6, <1>7, CallQuiet

\* A cancelled workflow stops.
LEMMA StopCalls ==
    ASSUME InlineCalls, BaseInv, MapInv, CallInv, NEW c \in Routine, StopCancelled(c) PROVE CallInv'
  <1>1. PICK place \in {"schedule", "execute", "loop", "complete"} : At(c, place)
    BY DEF StopCancelled
  <1>2. /\ Become(c, << >>, "nothing")
        /\ UNCHANGED <<completed, pending, calls, answered, iterations, mapState>>
        /\ branches' = branches
    BY DEF StopCancelled, nodeVars, callVars, groupVars
  <1> QED
    BY <1>1, <1>2, QuietPop

\* What the definition puts on top when a workflow is finalized.
LEMMA FinalFrame ==
    ASSUME InlineCalls, definition \in Definitions, NEW o \in Outcome
    PROVE  /\ Finalize(o) \in Frame /\ Finalize(o).handlers = << >>
           /\ Finalize(o).at = "finalize"
           /\ Finalize(o).at \notin Loops \cup {"execute", "launch", "batch"}
  BY Inline, FrameMade DEF Loops

\* A node fails.
LEMMA FailedCalls ==
    ASSUME InlineCalls, BaseInv, MapInv, CallInv, NEW c \in Routine, NodeFailed(c) PROVE CallInv'
  <1>1. /\ At(c, "complete") /\ Become(c, <<Finalize("failure")>>, "nothing")
        /\ UNCHANGED <<completed, pending, calls, answered, iterations, mapState>>
        /\ branches' = branches
    BY DEF NodeFailed, Runs, callVars, groupVars
  <1>2. StackOK /\ StacksInv /\ definition \in Definitions /\ "nothing" \notin Awaits
    BY StackFromType, Inline DEF BaseInv, CallInv, StackOK
  <1>3. Len(Tail(routines[c])) = 0
    BY <1>1, <1>2, Alone DEF InBatch
  <1>4. PICK f \in Frame : f = Finalize("failure") /\ f.handlers = << >>
                           /\ f.at \notin Loops \cup {"execute", "launch", "batch"}
    BY <1>2, FinalFrame DEF Outcome
  <1> QED
    BY <1>1, <1>2, <1>3, <1>4, QuietSwap

\* A node of the DAG succeeds.
LEMMA SucceededCalls ==
    ASSUME InlineCalls, BaseInv, MapInv, CallInv, NEW c \in Routine, NodeSucceeded(c) PROVE CallInv'
  <1>1. /\ At(c, "complete") /\ TypeOK /\ StackOK /\ StacksInv /\ definition \in Definitions
    BY StackFromType DEF NodeSucceeded, Runs, BaseInv, CallInv, StackOK
  <1>2. PICK n \in Node : n = calls[Top(c).call].node
    BY <1>1, TopComplete DEF CallRecord
  <1>3. PICK f \in Frame : f = [at |-> "load", node |-> n]
    BY <1>1, FrameMade DEF NodeFrames
  <1>4. /\ completed' = [completed EXCEPT ![n] = "done"] /\ pending' = NotPending(n)
        /\ Become(c, <<f>>, "load")
        /\ UNCHANGED <<calls, answered, iterations, mapState>> /\ branches' = branches
    BY <1>2, <1>3 DEF NodeSucceeded, groupVars, callVars
  <1>5. Len(Tail(routines[c])) = 0
    BY <1>1, Alone DEF InBatch
  <1>6. /\ f.at \notin Loops \cup {"execute", "launch", "batch"} /\ f.at # "finalize"
        /\ "load" \in Awaits => f.at \in Waits
    BY <1>3 DEF Loops, Waits
  <1> QED
    BY <1>1, <1>4, <1>5, <1>6, QuietSwap

\* Scheduling comes next.
LEMMA ScheduleNext ==
    ASSUME InlineCalls, BaseInv
    PROVE  /\ Schedule \in Frame /\ Schedule.at \notin Loops \cup {"execute", "launch", "batch"}
           /\ Schedule.at # "finalize" /\ "nothing" \notin Awaits
  BY ScheduleFrame, Inline DEF Schedule, Loops, BaseInv, TypeOK

\* An output is loaded.
LEMMA LoadedCalls ==
    ASSUME InlineCalls, BaseInv, MapInv, CallInv, NEW c \in Routine, OutputLoaded(c) PROVE CallInv'
  <1>1. /\ At(c, "load") /\ Become(c, <<Schedule>>, "nothing")
        /\ UNCHANGED <<completed, pending, calls, answered, iterations, mapState>>
        /\ branches' = branches
    BY DEF OutputLoaded, callVars, groupVars
  <1>2. StackOK /\ StacksInv
    BY StackFromType DEF BaseInv, CallInv
  <1>3. Len(Tail(routines[c])) = 0
    BY <1>1, <1>2, Alone DEF InBatch
  <1> QED
    BY <1>1, <1>3, ScheduleNext, QuietSwap

\* An iteration or item that is in no branch completes.
LEMMA StrayCalls ==
    ASSUME InlineCalls, BaseInv, MapInv, CallInv, NEW c \in Routine,
           StrayCompleted(c) \/ StrayLoaded(c)
    PROVE  CallInv'
  <1>1. /\ UNCHANGED <<completed, pending, calls, answered, iterations, mapState>>
        /\ branches' = branches
    BY DEF StrayCompleted, StrayLoaded, nodeVars, callVars, groupVars
  <1>2. StackOK /\ StacksInv /\ definition \in Definitions
    BY StackFromType DEF BaseInv, CallInv, StackOK
  <1>3. CASE StrayCompleted(c)
    <2>1. PICK f \in Frame : f = [at |-> "strayed"]
      BY <1>2, FrameMade
    <2>2. At(c, "complete") /\ Become(c, <<f>>, "load")
      BY <1>3, <2>1 DEF StrayCompleted, Runs
    <2>3. /\ f.at \notin Loops \cup {"execute", "launch", "batch"} /\ f.at # "finalize"
          /\ "load" \in Awaits => f.at \in Waits
      BY <2>1 DEF Loops, Waits
    <2>4. Len(Tail(routines[c])) = 0
      BY <1>2, <2>2, Alone DEF InBatch
    <2> QED
      BY <1>1, <2>2, <2>3, <2>4, QuietSwap
  <1>4. CASE StrayLoaded(c)
    <2>1. At(c, "strayed") /\ Become(c, <<Schedule>>, "nothing")
      BY <1>4 DEF StrayLoaded
    <2>2. Len(Tail(routines[c])) = 0
      BY <1>2, <2>1, Alone DEF InBatch
    <2> QED
      BY <1>1, <2>1, <2>2, ScheduleNext, QuietSwap
  <1> QED
    BY <1>3, <1>4

\* The response is prepared: there are no exit handlers.
LEMMA ExitCalls ==
    ASSUME InlineCalls, BaseInv, MapInv, CallInv, NEW c \in Routine, RunExitHandler(c) PROVE CallInv'
  <1>1. At(c, "finalize") /\ StackOK /\ StacksInv /\ definition \in Definitions
    BY StackFromType DEF RunExitHandler, BaseInv, CallInv, StackOK
  <1>2. PICK o \in Outcome : o = Top(c).outcome
    BY <1>1, TopFrame, FrameFields
  <1>3. Top(c).handlers = << >>
    BY <1>1, StackAt
  <1>4. PICK f \in Frame : f = [at |-> "respond", outcome |-> o]
    BY <1>1, FrameMade
  <1>5. PICK await : await = IF o = "cancelled" THEN "nothing" ELSE "save"
    OBVIOUS
  <1>6. /\ Become(c, <<f>>, await)
        /\ UNCHANGED <<completed, pending, calls, answered, iterations, mapState>>
        /\ branches' = branches
    BY <1>2, <1>3, <1>4, <1>5 DEF RunExitHandler, nodeVars, groupVars, callVars
  <1>7. await \notin Awaits
    BY <1>1, <1>5, Inline
  <1>8. Len(Tail(routines[c])) = 0
    BY <1>1, Alone DEF InBatch
  <1>9. f.at \notin Loops \cup {"execute", "launch", "batch"} /\ f.at # "finalize"
    BY <1>4 DEF Loops
  <1> QED
    BY <1>1, <1>6, <1>7, <1>8, <1>9, QuietSwap

\* The response is published, and the workflow cleaned up.
LEMMA EndCalls ==
    ASSUME InlineCalls, BaseInv, MapInv, CallInv, NEW c \in Routine,
           PublishResponse(c) \/ CleanUp(c)
    PROVE  CallInv'
  <1>1. /\ UNCHANGED <<completed, pending, calls, answered, iterations, mapState>>
        /\ branches' = branches
    BY DEF PublishResponse, CleanUp, nodeVars, groupVars, callVars
  <1>2. StackOK /\ StacksInv /\ definition \in Definitions /\ "session" \notin Awaits
    BY StackFromType, Inline DEF BaseInv, CallInv, StackOK
  <1>3. CASE PublishResponse(c)
    <2>1. PICK f \in Frame : f = [at |-> "cleanup"]
      BY <1>2, FrameMade
    <2>2. At(c, "respond") /\ Become(c, <<f>>, "session")
      BY <1>3, <2>1 DEF PublishResponse
    <2>3. Len(Tail(routines[c])) = 0
      BY <1>2, <2>2, Alone DEF InBatch
    <2>4. f.at \notin Loops \cup {"execute", "launch", "batch"} /\ f.at # "finalize"
      BY <2>1 DEF Loops
    <2> QED
      BY <1>1, <1>2, <2>2, <2>3, <2>4, QuietSwap
  <1>4. CASE CleanUp(c)
    <2>1. At(c, "cleanup") /\ Become(c, << >>, "nothing")
      BY <1>4 DEF CleanUp
    <2> QED
      BY <1>1, <2>1, QuietPop
  <1> QED
    BY <1>3, <1>4

\* Every item is launched, or there is no room.
LEMMA LaunchedCalls ==
    ASSUME InlineCalls, BaseInv, MapInv, CallInv, NEW c \in Routine, LaunchedAll(c) PROVE CallInv'
  <1>1. /\ At(c, "launch") /\ Become(c, << >>, "nothing")
        /\ UNCHANGED <<completed, pending, calls, answered, iterations, mapState>>
        /\ branches' = branches
    BY DEF LaunchedAll, nodeVars, groupVars, callVars
  <1> QED
    BY <1>1, QuietPop

\* The items of a map are checked.
LEMMA CheckMapCalls ==
    ASSUME InlineCalls, BaseInv, MapInv, CallInv, NEW c \in Routine, CheckMap(c) PROVE CallInv'
  <1>1. /\ At(c, "mapcheck") /\ StackOK /\ StacksInv /\ definition \in Definitions
        /\ "mapcheck" \in NodeFrames
    BY StackFromType DEF CheckMap, BaseInv, CallInv, StackOK, NodeFrames
  <1>2. PICK n \in Node : n = Top(c).node
    BY <1>1, TopNode DEF BaseInv
  <1>3. PICK f \in Frame : f = [at |-> "aggregate", node |-> n]
    BY <1>1, FrameMade DEF NodeFrames
  <1>4. /\ Become(c, <<f>>, "load") \/ Become(c, << >>, "nothing")
        /\ UNCHANGED <<completed, pending, calls, answered, iterations, mapState>>
        /\ branches' = branches
    BY <1>2, <1>3 DEF CheckMap, nodeVars, groupVars, callVars
  <1>5. Len(Tail(routines[c])) = 0
    BY <1>1, Alone DEF InBatch
  <1>6. /\ f.at \notin Loops \cup {"execute", "launch", "batch"} /\ f.at # "finalize"
        /\ "load" \in Awaits => f.at \in Waits
    BY <1>3 DEF Loops, Waits
  <1>7. CASE Become(c, <<f>>, "load")
    BY <1>1, <1>4, <1>5, <1>6, <1>7, QuietSwap
  <1>8. CASE Become(c, << >>, "nothing")
    BY <1>1, <1>4, <1>8, QuietPop
  <1> QED
    BY <1>4, <1>7, <1>8

\* A map is over.
LEMMA FinalizeMapCalls ==
    ASSUME InlineCalls, BaseInv, MapInv, CallInv, NEW c \in Routine, FinalizeMap(c) PROVE CallInv'
  <1>1. /\ At(c, "aggregate") /\ TypeOK /\ StackOK /\ StacksInv /\ "aggregate" \in NodeFrames
    BY StackFromType DEF FinalizeMap, BaseInv, CallInv, NodeFrames
  <1>2. PICK n \in Node : n = Top(c).node
    BY <1>1, TopNode
  <1>3. /\ completed' = [completed EXCEPT ![n] = "done"] /\ pending' = NotPending(n)
        /\ Become(c, <<Schedule>>, "nothing")
        /\ UNCHANGED <<calls, answered, iterations, mapState>>
        /\ branches' = [branches EXCEPT ![n] = {}]
    BY <1>2 DEF FinalizeMap, callVars
  <1>4. \A m \in Node : branches'[m] \subseteq branches[m]
    BY <1>1, <1>3 DEF TypeOK
  <1>5. Len(Tail(routines[c])) = 0
    BY <1>1, Alone DEF InBatch
  <1> QED
    BY <1>1, <1>3, <1>4, <1>5, ScheduleNext, QuietSwap

\* A call is published: it is entered among the items of its map.
LEMMA PublishCalls ==
    ASSUME InlineCalls, BaseInv, MapInv, CallInv, NEW c \in Routine, PublishCall(c) PROVE CallInv'
  <1>1. /\ At(c, "publish") /\ Become(c, << >>, "nothing") /\ TypeOK
        /\ UNCHANGED <<completed, pending, calls, answered, iterations, mapState>>
    BY DEF PublishCall, nodeVars, BaseInv
  <1>2. \A m \in Node : Kind[m] = "loop" => branches'[m] \subseteq branches[m]
    <2>1. PICK k, n : /\ n = calls[k].node
                      /\ branches' = IF Kind[n] = "map"
                                     THEN [branches EXCEPT ![n] = @ \cup {k}] ELSE branches
      BY DEF PublishCall
    <2> QED
      BY <1>1, <2>1 DEF TypeOK
  <1> QED
    BY <1>1, <1>2, QuietPop

\* A loop ends outside a batch: a batch enters a loop that has not begun.
LEMMA LoopEndsCalls ==
    ASSUME InlineCalls, BaseInv, MapInv, CallInv, NEW c \in Routine,
           StopLoopAtLimit(c) \/ StopLoopOnCondition(c)
    PROVE  CallInv'
  <1>1. /\ At(c, "loop") /\ TypeOK /\ StackOK /\ StacksInv /\ definition \in Definitions
        /\ "loop" \in NodeFrames
    BY StackFromType
       DEF StopLoopAtLimit, StopLoopOnCondition, Runs, BaseInv, CallInv, NodeFrames, StackOK
  <1>2. PICK n \in Node : n = Top(c).node
    BY <1>1, TopNode
  <1>3. /\ completed' = [completed EXCEPT ![n] = "done"]
        /\ pending' = pending \/ pending' = NotPending(n)
        /\ Become(c, <<Schedule>>, "nothing")
        /\ UNCHANGED <<calls, answered, iterations, mapState>> /\ branches' = branches
        /\ iterations[n] >= MaxIterations \/ iterations[n] \in 1 .. (MaxIterations - 1)
    BY <1>2 DEF StopLoopAtLimit, StopLoopOnCondition, LoopEnds, groupVars, callVars
  <1>4. Len(Tail(routines[c])) = 0
    <2>1. SUFFICES ASSUME Len(Tail(routines[c])) # 0 PROVE FALSE
      OBVIOUS
    <2>2. /\ Len(Tail(routines[c])) \in Nat /\ Len(routines[c]) = Len(Tail(routines[c])) + 1
          /\ Head(routines[c]) = routines[c][1]
      BY <1>1, StackAt
    <2>3. Len(routines[c]) > 1 /\ Len(routines[c]) # 0
      <3>1. PICK i \in Nat : i = Len(Tail(routines[c])) /\ Len(routines[c]) = i + 1
        BY <2>2
      <3>2. i # 0
        BY <2>1, <3>1
      <3>3. i + 1 > 1 /\ i + 1 # 0
        BY <3>2
      <3> QED
        BY <3>1, <3>3
    <2>4. Busy(c, n)
      BY <1>1, <1>2, <2>2, <2>3 DEF At, Top, Busy, Loops
    <2>5. iterations[n] = 0
      BY <2>3, <2>4 DEF CallInv, NodeOK, LoopBusy
    <2>6. Kind[n] = "loop"
      BY <1>1, <1>2, TopMap
    <2>7. MaxIterations > 0 /\ MaxIterations \in Nat
      BY <1>1, <2>6, Inline, DefinitionFacts
    <2> QED
      BY <1>3, <2>5, <2>7
  <1> QED
    BY <1>1, <1>3, <1>4, ScheduleNext, QuietSwap

\* Nothing is skipped, switched or raised.
LEMMA NeverCalls ==
    ASSUME InlineCalls, BaseInv, NEW c \in Routine,
           \/ SkipNode(c) \/ EvaluateSwitch(c)
           \/ CallFails(c) \/ LoadFails(c) \/ OutputFails(c)
    PROVE  FALSE
  <1>1. TypeOK /\ definition \in Definitions
    BY DEF BaseInv, TypeOK
  <1>2. ~SkipNode(c) /\ ~CallFails(c) /\ ~LoadFails(c) /\ ~OutputFails(c)
    BY <1>1, Inline DEF SkipNode, CallFails, LoadFails, OutputFails
  <1>3. ASSUME EvaluateSwitch(c) PROVE FALSE
    <2>1. At(c, "execute") /\ "execute" \in NodeFrames /\ Kind[Top(c).node] = "switch"
      BY <1>3 DEF EvaluateSwitch, Runs, NodeFrames
    <2>2. Top(c).node \in Node
      BY <1>1, <2>1, TopNode
    <2> QED
      BY <1>1, <2>1, <2>2, Inline
  <1> QED
    BY <1>2, <1>3

\* A batch begins: what is to do was not given to anyone.
LEMMA ScheduleCalls ==
    ASSUME InlineCalls, BaseInv, MapInv, CallInv, NEW c \in Routine, ScheduleNodes(c) PROVE CallInv'
  <1> DEFINE batch == [at |-> "batch", todo |-> NextNodes, started |-> {}]
  <1>1. /\ At(c, "schedule")
        /\ UNCHANGED <<completed, pending, calls, answered, iterations, mapState>>
        /\ branches' = branches
        /\ \/ Become(c, <<batch>>, "nothing") \/ Become(c, <<Finalize("success")>>, "nothing")
           \/ Become(c, << >>, "nothing")
    BY DEF ScheduleNodes, Runs, nodeVars, callVars, groupVars
  <1>2. TypeOK /\ StackOK /\ StacksInv /\ definition \in Definitions /\ "nothing" \notin Awaits
    BY StackFromType, Inline DEF BaseInv, CallInv, StackOK
  <1>3. Len(Tail(routines[c])) = 0 /\ Batch = NoBatch
    BY <1>1, <1>2, Alone DEF InBatch
  <1>4. batch \in Frame /\ batch.at = "batch" /\ batch.todo = NextNodes /\ batch.started = {}
    <2>1. NextNodes \in SUBSET Node
      BY DEF NextNodes
    <2> QED
      BY <1>2, <2>1, FrameMade
  <1> HIDE DEF batch
  <1>5. CASE Become(c, << >>, "nothing")
    BY <1>1, <1>5, QuietPop
  <1>6. CASE Become(c, <<Finalize("success")>>, "nothing")
    <2>1. PICK f \in Frame : f = Finalize("success") /\ f.handlers = << >>
                             /\ f.at \notin Loops \cup {"execute", "launch", "batch"}
      BY <1>2, FinalFrame DEF Outcome
    <2> QED
      BY <1>1, <1>2, <1>3, <1>6, <2>1, QuietSwap
  <1>7. CASE Become(c, <<batch>>, "nothing")
    <2>1. PICK frames \in Seq(Frame) : frames = <<batch>> /\ Elements(frames) = {batch}
      BY <1>4, FewFrames
    <2>2. Become(c, frames, "nothing") /\ Len(frames) = 1 /\ frames[1] = batch /\ batch.at = "batch"
      BY <1>4, <1>7, <2>1
    <2>3. /\ StacksInv' /\ OthersSame(c) /\ turn' \in {c, Idle}
          /\ routines'[c][1] = batch
          /\ Batch' = IF Len(Tail(routines[c])) # 0 THEN Batch
                      ELSE IF batch.at = "batch" THEN batch ELSE NoBatch
      BY <1>1, <1>2, <1>3, <2>2, Swap
    <2>4. Todo' = NextNodes /\ Started' = {} /\ Started = {}
      BY <1>3, <1>4, <2>3 DEF Todo, Started, NoBatch
    <2>5. Progress
      <3>1. \A n \in Node : Given(n)' <=> Given(n)
        BY <1>1, <2>4 DEF Given
      <3>2. \A n \in NextNodes : ~Given(n)
        BY <2>4 DEF NextNodes, Ready, Given
      <3> QED
        BY <2>4, <3>1, <3>2 DEF Progress
    <2>6. \A f \in Elements(frames) : f.at # "launch"
      BY <1>4, <2>1
    <2>7. routines'[c][1].at \notin Loops \cup {"execute"} /\ routines[c] # << >>
      BY <1>1, <1>4, <2>3 DEF Loops, At
    <2> QED
      BY <1>1, <2>2, <2>3, <2>5, <2>6, <2>7, CallQuiet
  <1> QED
    BY <1>1, <1>5, <1>6, <1>7

\* The nodes that were started are pending, or completed.
LEMMA ExecuteProgress ==
    ASSUME TypeOK, NEW S, Started = S,
           completed' = completed,
           pending' = [n \in Node |-> IF n \in S /\ completed[n] = "no"
                                      THEN pending[n] + 1 ELSE pending[n]]
    PROVE  \A n \in Node :
              /\ Given(n) => completed'[n] # "no" \/ pending'[n] > 0
              /\ n \notin S => completed'[n] = completed[n] /\ pending'[n] = pending[n]
  BY DEF TypeOK, Given

\* The next node of a batch is executed: it was not given to anyone.
LEMMA ExecuteCalls ==
    ASSUME InlineCalls, BaseInv, MapInv, CallInv, NEW c \in Routine, ExecuteNext(c) PROVE CallInv'
  <1>1. /\ At(c, "batch") /\ completed' = completed
        /\ UNCHANGED <<calls, answered, iterations, mapState>> /\ branches' = branches
        /\ pending' = [n \in Node |-> IF n \in Top(c).started /\ completed[n] = "no"
                                      THEN pending[n] + 1 ELSE pending[n]]
    BY DEF ExecuteNext, callVars, groupVars
  <1>2. TypeOK /\ StackOK /\ StacksInv /\ definition \in Definitions /\ "nothing" \notin Awaits
        /\ "session" \notin Awaits /\ routines[c] # << >>
    BY <1>1, StackFromType, Inline DEF BaseInv, CallInv, StackOK, At
  <1>3. Len(Tail(routines[c])) = 0 /\ Batch = Top(c)
    BY <1>1, <1>2, Alone, BatchAt DEF InBatch
  <1>4. Top(c).todo = Todo /\ Top(c).started = Started
    BY <1>3 DEF Todo, Started
  <1>5. \A n \in Node :
           /\ Given(n) => completed'[n] # "no" \/ pending'[n] > 0
           /\ n \notin Started => completed'[n] = completed[n] /\ pending'[n] = pending[n]
    BY <1>1, <1>2, <1>4, ExecuteProgress
  <1>6. \A n \in Todo : n \in Node /\ Fresh(n) /\ ~Given(n) /\ n \notin Started
    <2>1. Todo \subseteq Node
      <3>1. Top(c) \in Frame /\ Top(c).at = "batch"
        BY <1>1, <1>2, TopFrame
      <3> QED
        BY <1>4, <3>1, FrameFields
    <2> QED
      BY <2>1 DEF CallInv, NodeOK, NodeGiven, Given
  <1>7. CASE Become(c, <<Schedule>>, "session")
    <2>1. PICK frames \in Seq(Frame) : frames = <<Schedule>> /\ Elements(frames) = {Schedule}
      BY ScheduleNext, FewFrames
    <2>2. Become(c, frames, "session") /\ Len(frames) = 1 /\ frames[1] = Schedule
      BY <1>7, <2>1
    <2>3. Schedule.at \notin Loops \cup {"execute", "launch", "batch"} /\ Schedule.at # "finalize"
      BY ScheduleNext
    <2>4. /\ StacksInv' /\ OthersSame(c) /\ turn' \in {c, Idle}
          /\ routines'[c][1] = Schedule
          /\ Batch' = IF Len(Tail(routines[c])) # 0 THEN Batch
                      ELSE IF Schedule.at = "batch" THEN Schedule ELSE NoBatch
      BY <1>1, <1>2, <1>3, <2>2, <2>3, Swap
    <2>5. Progress
      <3>1. Todo' = {}
        BY <1>3, <2>3, <2>4 DEF Todo, NoBatch
      <3> QED
        BY <1>5, <3>1 DEF Progress, Given
    <2>6. \A f \in Elements(frames) : f.at # "launch"
      BY <2>1, <2>3
    <2>7. routines'[c][1].at \notin Loops \cup {"execute"}
      BY <2>3, <2>4
    <2> QED
      BY <1>1, <1>2, <2>2, <2>4, <2>5, <2>6, <2>7, CallQuiet
  <1>8. ASSUME NEW n \in Todo,
               Become(c, <<[at |-> "execute", node |-> n],
                           [at |-> "batch", todo |-> Todo \ {n}, started |-> {n}]>>,
                      "nothing")
        PROVE  CallInv'
    <2>1. PICK f \in Frame : f = [at |-> "execute", node |-> n]
      BY <1>2, <1>6, FrameMade DEF NodeFrames
    <2>2. PICK g \in Frame : g = [at |-> "batch", todo |-> Todo \ {n}, started |-> {n}]
      <3>1. Todo \ {n} \in SUBSET Node /\ {n} \in SUBSET Node
        BY <1>6
      <3> QED
        BY <1>2, <3>1, FrameMade
    <2>3. PICK frames \in Seq(Frame) : frames = <<f, g>> /\ Elements(frames) = {f, g}
      BY FewFrames
    <2>4. /\ Become(c, frames, "nothing") /\ Len(frames) = 2 /\ frames[1] = f /\ frames[2] = g
      BY <1>8, <2>1, <2>2, <2>3
    <2>5. g.at = "batch" /\ f.at \in InBatch
      BY <2>1, <2>2 DEF InBatch
    <2>6. /\ StacksInv' /\ OthersSame(c) /\ turn' = c
          /\ routines'[c][1] = f
          /\ Batch' = IF Len(Tail(routines[c])) # 0 THEN Batch
                      ELSE IF g.at = "batch" THEN g ELSE NoBatch
      BY <1>1, <1>2, <1>3, <2>4, <2>5, Push
    <2>7. Todo' = Todo \ {n} /\ Started' = {n}
      BY <1>3, <2>2, <2>5, <2>6 DEF Todo, Started
    <2>8. Progress
      BY <1>5, <1>6, <2>7 DEF Progress, Given
    <2>9. \A m \in Node : Untouched(m)
      <3> SUFFICES ASSUME NEW m \in Node PROVE Untouched(m)
        OBVIOUS
      <3>1. ASSUME NEW d \in Routine, Busy(d, m)' PROVE routines'[d] = routines[d]
        <4>1. d # c
          BY <2>1, <2>6, <3>1 DEF Busy, Loops
        <4> QED
          BY <2>6, <4>1 DEF OthersSame
      <3> QED
        BY <1>1, <3>1 DEF Untouched
    <2>10. ExecutesFresh'
      <3>1. Fresh(n)'
        <4>1. CallsOf(n)' = CallsOf(n)
          BY <1>1 DEF CallsOf
        <4>2. \A d \in Routine : Busy(d, n)' => Busy(d, n)
          BY <1>6, <2>9 DEF Untouched, Busy
        <4> QED
          BY <1>1, <1>6, <4>1, <4>2 DEF Fresh
      <3>2. routines'[turn'][1].node = n
        BY <2>1, <2>6
      <3> QED
        BY <2>7, <3>1, <3>2 DEF ExecutesFresh
    <2>11. CallsKept
      BY <1>1 DEF CallsKept, MapInv, ExecuteNext, Become
    <2>12. \A h \in Elements(frames) : h.at # "launch"
      BY <2>1, <2>2, <2>3
    <2>13. PICK m : m \notin Node
      BY NoSetContainsEverything
    <2> QED
      BY <1>2, <2>4, <2>6, <2>8, <2>9, <2>10, <2>11, <2>12, <2>13, CallStep
  <1> QED
    BY <1>4, <1>7, <1>8 DEF ExecuteNext

-----------------------------------------------------------------------------
(* Calls without an await: loops.                                          *)

\* The node that is executed was given to this coroutine, and is as it was.
LEMMA Executing ==
    ASSUME StackOK, CallInv, NEW c \in Routine, At(c, "execute")
    PROVE  /\ Len(Tail(routines[c])) # 0 /\ Top(c).node \in Started
           /\ Given(Top(c).node) /\ Fresh(Top(c).node)
           /\ \A place \in InBatch \ {"publish"} : RestOK(place, Tail(routines[c]))
  <1>1. /\ RestOK("execute", Tail(routines[c])) /\ Head(routines[c]) = routines[c][1]
        /\ turn = Idle => Len(Tail(routines[c])) = 0
    BY StackAt DEF CallInv
  <1>2. /\ Len(Tail(routines[c])) # 0
        /\ \A place \in InBatch \ {"publish"} : RestOK(place, Tail(routines[c]))
    BY <1>1 DEF RestOK
  <1>3. turn = c /\ turn # Idle
    BY <1>1, <1>2 DEF At
  <1>4. routines[turn][1] = Top(c) /\ Top(c).at = "execute"
    BY <1>1, <1>3 DEF At, Top
  <1>5. Top(c).node \in Started /\ Fresh(Top(c).node)
    BY <1>3, <1>4 DEF CallInv, ExecutesFresh
  <1> QED
    BY <1>2, <1>5 DEF Given

\* A node that something was done for was given.
LEMMA NotFresh ==
    ASSUME CallInv, NEW n \in Node, ~Fresh(n)
    PROVE  Given(n) /\ n \notin Todo
  BY DEF CallInv, NodeOK, NodeGiven

\* A coroutine is, or comes, to start an iteration of a loop.
LEMMA LoopStep ==
    ASSUME BaseInv, MapInv, CallInv, NEW c \in Routine, routines[c] # << >>,
           NEW frames \in Seq(Frame), NEW await, Become(c, frames, await),
           NEW f \in Frame, Elements(frames) = {f}, f.at \in Loops, NEW n \in Node, f.node = n,
           StacksInv', OthersSame(c), turn' \in {c, Idle},
           routines'[c][1] = f, Len(routines'[c]) = Len(routines[c]), Batch' = Batch,
           UNCHANGED <<completed, pending, calls, iterations, mapState>>,
           answered \subseteq answered', answered' \subseteq DOMAIN calls,
           \A m \in Node : branches'[m] \subseteq branches[m],
           Given(n), n \notin Todo, \A d \in Routine : Busy(d, n) => d = c,
           CallsOf(n) \subseteq answered',
           f.at = "iterate" => f.index = iterations[n],
           Len(routines[c]) > 1 => iterations[n] = 0
    PROVE  CallInv'
  <1>1. CallsKept /\ Progress
    BY SameProgress DEF CallsKept, Become
  <1>2. ExecutesFresh'
    BY DEF ExecutesFresh, Loops
  <1>3. \A m \in Node : m # n => Untouched(m)
    <2> SUFFICES ASSUME NEW m \in Node, m # n PROVE Untouched(m)
      OBVIOUS
    <2>1. ASSUME NEW d \in Routine, Busy(d, m)' PROVE routines'[d] = routines[d]
      <3>1. d # c
        BY <2>1 DEF Busy
      <3> QED
        BY <3>1 DEF OthersSame
    <2> QED
      BY <2>1 DEF Untouched
  <1>4. CallsOf(n)' = CallsOf(n) /\ Kind' = Kind
    BY <1>1, SameDefinition DEF CallsOf, CallsKept
  <1>5. NodeGiven(n)'
    <2>1. Given(n)' /\ n \notin Todo'
      BY DEF Given, Todo, Started
    <2> QED
      BY <2>1 DEF NodeGiven
  <1>6. LoopBusy(n)'
    <2> SUFFICES ASSUME NEW d \in Routine, Busy(d, n)'
                 PROVE  /\ CallsOf(n)' \subseteq answered'
                        /\ routines'[d][1].at = "iterate"
                             => routines'[d][1].index = iterations'[n]
                        /\ Len(routines'[d]) > 1 => iterations'[n] = 0
                        /\ \A e \in Routine : Busy(e, n)' => e = d
      BY DEF LoopBusy
    <2>1. \A e \in Routine : Busy(e, n)' => e = c
      BY DEF Busy, OthersSame
    <2>2. d = c
      BY <2>1
    <2> QED
      BY <1>4, <2>1, <2>2
  <1>7. CallsApart(n)'
    <2>1. CallsApart(n)
      BY DEF CallInv, NodeOK
    <2> QED
      BY <1>1, <1>4, <2>1 DEF CallsApart
  <1>8. \A g \in Elements(frames) : g.at # "launch"
    BY DEF Loops
  <1> QED
    BY <1>1, <1>2, <1>3, <1>5, <1>6, <1>7, <1>8, CallStep DEF NodeOK

\* A loop is entered.
LEMMA EnterLoopCalls ==
    ASSUME InlineCalls, BaseInv, MapInv, CallInv, NEW c \in Routine, EnterLoop(c) PROVE CallInv'
  <1>1. /\ At(c, "execute") /\ TypeOK /\ StackOK /\ StacksInv /\ definition \in Definitions
        /\ "execute" \in NodeFrames /\ routines[c] # << >> /\ "nothing" \notin Awaits
    BY StackFromType, Inline DEF EnterLoop, Runs, At, BaseInv, CallInv, StackOK, NodeFrames
  <1>2. PICK n \in Node : n = Top(c).node
    BY <1>1, TopNode
  <1>3. PICK f \in Frame : f = [at |-> "loop", node |-> n]
    BY <1>1, FrameMade DEF NodeFrames
  <1>4. PICK frames \in Seq(Frame) : frames = <<f>> /\ Elements(frames) = {f}
    BY FewFrames
  <1>5. /\ Become(c, frames, "nothing") /\ Len(frames) = 1 /\ frames[1] = f
        /\ UNCHANGED <<completed, pending, calls, answered, iterations, mapState>>
        /\ branches' = branches
    BY <1>2, <1>3, <1>4 DEF EnterLoop, nodeVars, groupVars, callVars
  <1>6. Len(Tail(routines[c])) # 0 /\ RestOK(f.at, Tail(routines[c])) /\ Given(n) /\ Fresh(n)
    BY <1>1, <1>2, <1>3, Executing DEF InBatch
  <1>7. /\ StacksInv' /\ OthersSame(c) /\ turn' \in {c, Idle}
        /\ Len(routines'[c]) = Len(routines[c]) /\ routines'[c][1] = f
        /\ Batch' = IF Len(Tail(routines[c])) # 0 THEN Batch
                    ELSE IF f.at = "batch" THEN f ELSE NoBatch
    BY <1>1, <1>5, <1>6, Swap
  <1>8. /\ f.at \in Loops /\ f.node = n /\ f.at # "iterate" /\ Batch' = Batch
        /\ CallsOf(n) = {} /\ iterations[n] = 0 /\ \A d \in Routine : ~Busy(d, n)
    BY <1>3, <1>6, <1>7 DEF Fresh, Loops
  <1>9. answered \subseteq DOMAIN calls /\ n \notin Todo
    BY <1>6 DEF MapInv, CallInv, NodeOK, NodeGiven
  <1> QED
    BY <1>1, <1>4, <1>5, <1>6, <1>7, <1>8, <1>9, LoopStep

\* The coroutine that is about to start an iteration.
LEMMA BusyHere ==
    ASSUME StackOK, CallInv, NEW c \in Routine, NEW place \in Loops, At(c, place),
           NEW n \in Node, n = Top(c).node
    PROVE  /\ Busy(c, n) /\ routines[c][1] = Top(c) /\ routines[c] # << >>
           /\ Given(n) /\ n \notin Todo /\ ~Fresh(n)
           /\ CallsOf(n) \subseteq answered /\ \A d \in Routine : Busy(d, n) => d = c
           /\ place = "iterate" => Top(c).index = iterations[n]
           /\ Len(routines[c]) > 1 => iterations[n] = 0
           /\ Len(Tail(routines[c])) # 0 => Len(routines[c]) > 1
  <1>1. /\ Len(Tail(routines[c])) \in Nat /\ Len(routines[c]) = Len(Tail(routines[c])) + 1
        /\ Head(routines[c]) = routines[c][1]
    BY StackAt DEF CallInv
  <1>2. PICK i \in Nat : i = Len(Tail(routines[c])) /\ Len(routines[c]) = i + 1
    BY <1>1
  <1>3. (i # 0 => i + 1 > 1) /\ i + 1 # 0
    OBVIOUS
  <1>4. Busy(c, n) /\ routines[c][1] = Top(c) /\ routines[c] # << >> /\ Top(c).at = place
    BY <1>1, <1>2, <1>3 DEF At, Top, Busy
  <1>5. ~Fresh(n)
    BY <1>4 DEF Fresh
  <1>6. LoopBusy(n)
    BY DEF CallInv, NodeOK
  <1> QED
    BY <1>2, <1>3, <1>4, <1>5, <1>6, NotFresh DEF LoopBusy

\* A loop goes on; in a batch it goes on without a delay.
LEMMA ContinueCalls ==
    ASSUME InlineCalls, BaseInv, MapInv, CallInv, NEW c \in Routine, ContinueLoop(c) PROVE CallInv'
  <1>1. /\ At(c, "loop") /\ TypeOK /\ StackOK /\ StacksInv /\ definition \in Definitions
        /\ "loop" \in NodeFrames /\ "loop" \in Loops /\ "nothing" \notin Awaits
    BY StackFromType, Inline DEF ContinueLoop, Runs, BaseInv, CallInv, StackOK, NodeFrames, Loops
  <1>2. PICK n \in Node : n = Top(c).node
    BY <1>1, TopNode
  <1>3. PICK i \in Nat : i = iterations[n] /\ i < MaxIterations /\ MaxIterations \in Nat
    <2>1. iterations[n] \in 0 .. MaxIterations /\ MaxIterations \in Nat
      BY <1>1, DefinitionFacts DEF TypeOK
    <2> QED
      BY <1>2, <2>1 DEF ContinueLoop
  <1>4. PICK f \in Frame : f = [at |-> "iterate", node |-> n, index |-> i]
    <2>1. i \in 0 .. (MaxIterations - 1)
      BY <1>3
    <2> QED
      BY <1>1, <2>1, FrameMade
  <1>5. PICK await : await = IF i > 0 THEN "sleep" ELSE "nothing"
    OBVIOUS
  <1>6. PICK frames \in Seq(Frame) : frames = <<f>> /\ Elements(frames) = {f}
    BY FewFrames
  <1>7. /\ Become(c, frames, await) /\ Len(frames) = 1 /\ frames[1] = f
        /\ UNCHANGED <<completed, pending, calls, answered, iterations, mapState>>
        /\ branches' = branches
    BY <1>2, <1>3, <1>4, <1>5, <1>6 DEF ContinueLoop, nodeVars, groupVars, callVars
  <1>8. /\ routines[c] # << >> /\ Given(n) /\ n \notin Todo
        /\ CallsOf(n) \subseteq answered /\ \A d \in Routine : Busy(d, n) => d = c
        /\ Len(routines[c]) > 1 => iterations[n] = 0
        /\ Len(Tail(routines[c])) # 0 => Len(routines[c]) > 1
    BY <1>1, <1>2, BusyHere
  <1>9. Len(Tail(routines[c])) # 0 => await \notin Awaits /\ RestOK(f.at, Tail(routines[c]))
    <2> SUFFICES ASSUME Len(Tail(routines[c])) # 0
                 PROVE  await \notin Awaits /\ RestOK(f.at, Tail(routines[c]))
      OBVIOUS
    <2>1. await \notin Awaits
      BY <1>1, <1>3, <1>5, <1>8
    <2>2. RestOK("loop", Tail(routines[c]))
      BY <1>1, StackAt
    <2> QED
      BY <1>4, <2>1, <2>2 DEF RestOK, InBatch
  <1>10. f.at \in Loops /\ f.at \in Waits /\ f.at \notin {"execute", "launch", "finalize", "batch"}
         /\ f.node = n /\ f.index = iterations[n]
    BY <1>3, <1>4 DEF Loops, Waits
  <1>11. /\ StacksInv' /\ OthersSame(c) /\ turn' \in {c, Idle}
         /\ Len(routines'[c]) = Len(routines[c]) /\ routines'[c][1] = f
         /\ Batch' = IF Len(Tail(routines[c])) # 0 THEN Batch
                     ELSE IF f.at = "batch" THEN f ELSE NoBatch
    BY <1>1, <1>7, <1>9, <1>10, Swap
  <1>12. Batch' = Batch
    <2>1. Batch = BatchOf(Tail(routines[c]))
      BY <1>1, BatchAt
    <2> QED
      BY <1>10, <1>11, <2>1 DEF BatchOf
  <1>13. answered \subseteq DOMAIN calls
    BY DEF MapInv
  <1> QED
    BY <1>6, <1>7, <1>8, <1>10, <1>11, <1>12, <1>13, LoopStep

\* A coroutine that no batch is in goes on with a loop.
LEMMA LoopSwap ==
    ASSUME InlineCalls, BaseInv, MapInv, CallInv,
           NEW c \in Routine, NEW place, place \notin InBatch \cup {"batch"}, At(c, place),
           NEW f \in Frame, f.at \in {"loop", "looped"}, NEW n \in Node, f.node = n,
           NEW await, await \in Awaits => f.at \in Waits, Become(c, <<f>>, await),
           UNCHANGED <<completed, pending, calls, iterations, mapState>>,
           answered \subseteq answered', answered' \subseteq DOMAIN calls,
           \A m \in Node : branches'[m] \subseteq branches[m],
           Given(n), \A d \in Routine : Busy(d, n) => d = c, CallsOf(n) \subseteq answered'
    PROVE  CallInv'
  <1>1. TypeOK /\ StackOK /\ StacksInv /\ routines[c] # << >>
    BY StackFromType DEF BaseInv, CallInv, At
  <1>2. PICK frames \in Seq(Frame) : frames = <<f>> /\ Elements(frames) = {f}
    BY FewFrames
  <1>3. /\ Become(c, frames, await) /\ Len(frames) = 1 /\ frames[1] = f
        /\ f.at \notin {"execute", "launch", "finalize", "batch", "iterate"} /\ f.at \in Loops
    BY <1>2 DEF Loops
  <1>4. Len(Tail(routines[c])) = 0 /\ Batch = NoBatch
    BY <1>1, Alone
  <1>5. /\ StacksInv' /\ OthersSame(c) /\ turn' \in {c, Idle}
        /\ Len(routines'[c]) = Len(routines[c]) /\ routines'[c][1] = f
        /\ Batch' = IF Len(Tail(routines[c])) # 0 THEN Batch
                    ELSE IF f.at = "batch" THEN f ELSE NoBatch
    BY <1>1, <1>3, <1>4, Swap
  <1>6. Batch' = Batch /\ n \notin Todo
    BY <1>3, <1>4, <1>5 DEF Todo, NoBatch
  <1>7. ~(Len(routines[c]) > 1)
    <2>1. PICK i \in Nat : i = Len(Tail(routines[c])) /\ Len(routines[c]) = i + 1
      BY <1>1, StackAt
    <2>2. i = 0
      BY <1>4, <2>1
    <2>3. ~(i + 1 > 1)
      BY <2>2
    <2> QED
      BY <2>1, <2>3
  <1> QED
    BY <1>1, <1>2, <1>3, <1>5, <1>6, <1>7, LoopStep

\* The output of an iteration is loaded.
LEMMA IterationLoadedCalls ==
    ASSUME InlineCalls, BaseInv, MapInv, CallInv, NEW c \in Routine, IterationLoaded(c)
    PROVE  CallInv'
  <1>1. /\ At(c, "looped") /\ TypeOK /\ StackOK /\ definition \in Definitions
        /\ "looped" \in NodeFrames /\ "looped" \in Loops /\ "nothing" \notin Awaits
        /\ "looped" \notin InBatch \cup {"batch"}
    BY StackFromType, Inline
       DEF IterationLoaded, BaseInv, StackOK, NodeFrames, Loops, InBatch
  <1>2. PICK n \in Node : n = Top(c).node
    BY <1>1, TopNode
  <1>3. PICK f \in Frame : f = [at |-> "loop", node |-> n]
    BY <1>1, FrameMade DEF NodeFrames
  <1>4. /\ Become(c, <<f>>, "nothing")
        /\ UNCHANGED <<completed, pending, calls, answered, iterations, mapState>>
        /\ branches' = [branches EXCEPT ![n] = {}]
    BY <1>2, <1>3 DEF IterationLoaded, callVars
  <1>5. \A m \in Node : branches'[m] \subseteq branches[m]
    BY <1>1, <1>4 DEF TypeOK
  <1>6. Given(n) /\ CallsOf(n) \subseteq answered /\ \A d \in Routine : Busy(d, n) => d = c
    BY <1>1, <1>2, BusyHere
  <1>7. answered \subseteq DOMAIN calls /\ f.at = "loop" /\ f.node = n
    BY <1>3 DEF MapInv
  <1> QED
    BY <1>1, <1>4, <1>5, <1>6, <1>7, LoopSwap

\* An iteration succeeded: it is the last one, and no other is about to start.
LEMMA IterationCalls ==
    ASSUME InlineCalls, BaseInv, MapInv, CallInv, NEW c \in Routine, IterationSucceeded(c)
    PROVE  CallInv'
  <1>1. /\ At(c, "complete") /\ TypeOK /\ StackOK /\ definition \in Definitions
        /\ "complete" \notin InBatch \cup {"batch"}
    BY StackFromType DEF IterationSucceeded, Runs, BaseInv, StackOK, InBatch
  <1>2. PICK k : k = Top(c).call
    OBVIOUS
  <1>3. PICK n \in ParentOf(k, "loop") : Become(c, <<[at |-> "looped", node |-> n]>>, "load")
    BY <1>2 DEF IterationSucceeded
  <1>4. n \in Node /\ Kind[n] = "loop" /\ k \in branches[n] /\ k \notin answered
    BY <1>1, <1>3 DEF ParentOf, TypeOK
  <1>5. PICK f \in Frame : f = [at |-> "looped", node |-> n]
    BY <1>1, <1>4, FrameMade DEF NodeFrames
  <1>6. /\ Become(c, <<f>>, "load") /\ answered' = answered \cup {k}
        /\ UNCHANGED <<completed, pending, calls, iterations, mapState>> /\ branches' = branches
    BY <1>2, <1>3, <1>5 DEF IterationSucceeded, nodeVars, callVars
  <1>7. CallsApart(n) /\ LoopBusy(n)
    BY <1>4 DEF CallInv, NodeOK
  <1>8. k \in CallsOf(n) /\ k \in DOMAIN calls
    BY <1>4, <1>7 DEF CallsApart, CallsOf
  <1>9. Given(n) /\ \A d \in Routine : ~Busy(d, n)
    <2>1. ~Fresh(n)
      BY <1>8 DEF Fresh
    <2> QED
      BY <1>4, <1>7, <1>8, <2>1, NotFresh DEF LoopBusy
  <1>10. CallsOf(n) \subseteq answered'
    <2> SUFFICES ASSUME NEW j \in CallsOf(n), j # k PROVE j \in answered
      BY <1>6
    <2>1. DOMAIN calls = 1 .. Len(calls) /\ Len(calls) \in Nat
      BY <1>1, CallFacts
    <2>2. j < k \/ k < j
      BY <1>8, <2>1 DEF CallsOf
    <2>3. ~(k < j)
      BY <1>4, <1>7, <1>8 DEF CallsApart
    <2> QED
      BY <1>4, <1>7, <1>8, <2>2, <2>3 DEF CallsApart
  <1>11. answered \subseteq answered' /\ answered' \subseteq DOMAIN calls
    BY <1>6, <1>8 DEF MapInv
  <1>12. f.at = "looped" /\ ("load" \in Awaits => f.at \in Waits) /\ f.node = n
    BY <1>5 DEF Waits
  <1> QED
    BY <1>1, <1>4, <1>6, <1>9, <1>10, <1>11, <1>12, LoopSwap

-----------------------------------------------------------------------------
(* Calls without an await: agent calls and maps.                           *)

\* The frames that follow a call.
LEMMA CallFrames ==
    ASSUME NEW f \in Frame, NEW rest \in Seq(Frame)
    PROVE  \E frames \in Seq(Frame) :
               /\ frames = <<f>> \o rest /\ Elements(frames) \subseteq {f} \cup Elements(rest)
               /\ Len(frames) = 1 + Len(rest) /\ frames[1] = f
               /\ \A i \in 1 .. Len(rest) : frames[1 + i] = rest[i]
  <1>1. PICK one \in Seq(Frame) : one = <<f>> /\ Elements(one) = {f} /\ Len(one) = 1 /\ one[1] = f
    BY FewFrames
  <1>2. /\ one \o rest \in Seq(Frame) /\ Len(one \o rest) = Len(one) + Len(rest)
        /\ \A i \in 1 .. Len(one) + Len(rest) :
             (one \o rest)[i] = IF i <= Len(one) THEN one[i] ELSE rest[i - Len(one)]
        /\ Elements(one \o rest) \subseteq Elements(one) \cup Elements(rest)
    BY ConcatProperties, StackElements
  <1>3. PICK frames \in Seq(Frame) : frames = one \o rest
    BY <1>2
  <1>4. Len(rest) \in Nat
    BY LenProperties
  <1>5. frames[1] = f
    <2>1. 1 \in 1 .. Len(one) + Len(rest)
      BY <1>1, <1>4
    <2> QED
      BY <1>1, <1>2, <1>3, <2>1
  <1>6. ASSUME NEW i \in 1 .. Len(rest) PROVE frames[1 + i] = rest[i]
    <2>1. PICK j : j = 1 + i
      OBVIOUS
    <2>2. j \in 1 .. Len(one) + Len(rest) /\ ~(j <= Len(one)) /\ j - Len(one) = i
      BY <1>1, <1>4, <2>1
    <2> QED
      BY <1>2, <1>3, <2>1, <2>2
  <1> QED
    BY <1>1, <1>2, <1>3, <1>5, <1>6

\* A call is made for a node that was given.
LEMMA CallMade ==
    ASSUME BaseInv, MapInv, CallInv, NEW c \in Routine, routines[c] # << >>,
           NEW n \in Node, NEW index \in Nat, NEW rest \in Seq(Frame), StartCall(c, n, index, rest),
           \A f \in Elements(rest) : f.at = "launch" => Given(f.node),
           StacksInv', OthersSame(c), turn' \in {c, Idle}, routines'[c][1].at = "publish",
           Batch' = Batch, UNCHANGED <<completed, pending, answered>>,
           Given(n), n \notin Todo, \A d \in Routine : Busy(d, n) => d = c,
           \A m \in Node : m # n =>
               /\ iterations'[m] = iterations[m] /\ branches'[m] = branches[m]
               /\ mapState'[m] = mapState[m],
           CallsApart(n)'
    PROVE  CallInv'
  <1>1. TypeOK /\ definition \in Definitions /\ definition' = definition
    BY DEF BaseInv, TypeOK, StartCall, Become
  <1>2. /\ DOMAIN calls' = DOMAIN calls \cup {Len(calls) + 1} /\ Len(calls) + 1 \in Call
        /\ calls'[Len(calls) + 1].node = n /\ \A k \in DOMAIN calls : calls'[k] = calls[k]
    BY <1>1, NewCall
  <1>3. CallsKept /\ Progress
    BY <1>1, <1>2, SameProgress DEF CallsKept, MapInv
  <1>4. PICK f \in Frame : f = [at |-> "publish", call |-> Len(calls) + 1]
    BY <1>1, <1>2, FrameMade
  <1>5. PICK frames \in Seq(Frame) : /\ frames = <<f>> \o rest
                                     /\ Elements(frames) \subseteq {f} \cup Elements(rest)
    BY CallFrames
  <1>6. /\ Become(c, frames, "save")
        /\ \A g \in Elements(frames) : g.at = "launch" => Given(g.node) \/ Given(g.node)'
    BY <1>4, <1>5 DEF StartCall
  <1>7. ExecutesFresh'
    BY DEF ExecutesFresh
  <1>8. \A d \in Routine : \A m : Busy(d, m)' => d # c
    BY DEF Busy, Loops
  <1>9. \A m \in Node : m # n => Untouched(m)
    BY <1>2, <1>8 DEF Untouched, OthersSame
  <1>10. NodeGiven(n)'
    <2>1. Given(n)' /\ n \notin Todo'
      BY DEF Given, Todo, Started
    <2> QED
      BY <2>1 DEF NodeGiven
  <1>11. LoopBusy(n)'
    <2>1. \A d \in Routine : ~Busy(d, n)'
      BY <1>8 DEF Busy, OthersSame
    <2> QED
      BY <2>1 DEF LoopBusy
  <1> QED
    BY <1>3, <1>6, <1>7, <1>9, <1>10, <1>11, CallStep DEF NodeOK

\* An agent node is called.
LEMMA AgentCalls ==
    ASSUME InlineCalls, BaseInv, MapInv, CallInv, NEW c \in Routine, CallAgent(c) PROVE CallInv'
  <1>1. /\ At(c, "execute") /\ TypeOK /\ StackOK /\ StacksInv /\ definition \in Definitions
        /\ "execute" \in NodeFrames /\ routines[c] # << >> /\ "save" \notin Awaits
    BY StackFromType, Inline DEF CallAgent, Runs, At, BaseInv, CallInv, StackOK, NodeFrames
  <1>2. PICK n \in Node : n = Top(c).node
    BY <1>1, TopNode
  <1>3. PICK rest \in Seq(Frame) : rest = << >> /\ Elements(rest) = {} /\ Len(rest) = 0
    BY FewFrames
  <1>4. /\ StartCall(c, n, 0, rest) /\ Kind[n] = "agent"
        /\ UNCHANGED <<completed, pending, iterations, branches, answered, mapState>>
    BY <1>2, <1>3 DEF CallAgent, nodeVars, groupVars
  <1>5. /\ Len(Tail(routines[c])) # 0 /\ Given(n) /\ Fresh(n)
        /\ RestOK("execute", Tail(routines[c]))
    BY <1>1, <1>2, Executing DEF InBatch
  <1>6. /\ DOMAIN calls' = DOMAIN calls \cup {Len(calls) + 1} /\ Len(calls) + 1 \in Call
        /\ calls'[Len(calls) + 1].node = n /\ \A k \in DOMAIN calls : calls'[k] = calls[k]
    BY <1>1, <1>4, NewCall
  <1>7. PICK f \in Frame : f = [at |-> "publish", call |-> Len(calls) + 1]
    BY <1>1, <1>6, FrameMade
  <1>8. PICK frames \in Seq(Frame) : frames = <<f>> \o rest /\ Len(frames) = 1 + Len(rest)
                                     /\ frames[1] = f
    BY CallFrames
  <1>9. Become(c, frames, "save") /\ Len(frames) = 1 /\ f.at = "publish"
    BY <1>3, <1>4, <1>7, <1>8 DEF StartCall
  <1>10. RestOK(f.at, Tail(routines[c]))
    BY <1>5, <1>9 DEF RestOK, InBatch
  <1>11. /\ StacksInv' /\ OthersSame(c) /\ turn' \in {c, Idle} /\ routines'[c][1] = f
         /\ Batch' = IF Len(Tail(routines[c])) # 0 THEN Batch
                     ELSE IF f.at = "batch" THEN f ELSE NoBatch
    BY <1>1, <1>5, <1>8, <1>9, <1>10, Swap
  <1>12. CallsApart(n)'
    <2>1. CallsOf(n) = {} /\ Kind'[n] = "agent"
      BY <1>4, <1>5, SameDefinition DEF Fresh, StartCall, Become
    <2>2. CallsOf(n)' = {Len(calls) + 1}
      BY <1>6, <2>1 DEF CallsOf
    <2> QED
      BY <2>1, <2>2 DEF CallsApart
  <1>13. n \notin Todo /\ \A d \in Routine : Busy(d, n) => d = c
    BY <1>5 DEF CallInv, NodeOK, NodeGiven, Fresh
  <1>14. routines'[c][1].at = "publish" /\ Batch' = Batch /\ 0 \in Nat
         /\ \A g \in Elements(rest) : g.at = "launch" => Given(g.node)
    BY <1>3, <1>5, <1>9, <1>11
  <1> QED
    BY <1>1, <1>4, <1>5, <1>11, <1>12, <1>13, <1>14, CallMade

\* An iteration of a loop starts: it is the next one.
LEMMA IterateCalls ==
    ASSUME InlineCalls, BaseInv, MapInv, CallInv, NEW c \in Routine, Iterate(c) PROVE CallInv'
  <1>1. /\ At(c, "iterate") /\ TypeOK /\ StackOK /\ StacksInv /\ definition \in Definitions
        /\ "iterate" \in Loops /\ "save" \notin Awaits
    BY StackFromType, Inline DEF Iterate, BaseInv, CallInv, StackOK, Loops
  <1>2. PICK n \in Node, i \in Nat : n = Top(c).node /\ i = Top(c).index
    <2>1. Top(c) \in Frame /\ Top(c).at = "iterate"
      BY <1>1, TopFrame
    <2>2. Top(c).node \in Node /\ Top(c).index \in 0 .. (MaxIterations - 1)
      BY <2>1, FrameFields
    <2> QED
      BY <2>2
  <1>3. PICK rest \in Seq(Frame) : rest = << >> /\ Elements(rest) = {} /\ Len(rest) = 0
    BY FewFrames
  <1>4. /\ StartCall(c, n, i, rest) /\ iterations' = [iterations EXCEPT ![n] = i + 1]
        /\ branches' = [branches EXCEPT ![n] = {Len(calls) + 1}]
        /\ UNCHANGED <<completed, pending, answered, mapState>>
    BY <1>2, <1>3 DEF Iterate, nodeVars
  <1>5. /\ routines[c] # << >> /\ Given(n) /\ n \notin Todo /\ i = iterations[n]
        /\ CallsOf(n) \subseteq answered /\ \A d \in Routine : Busy(d, n) => d = c
    BY <1>1, <1>2, BusyHere
  <1>6. /\ DOMAIN calls' = DOMAIN calls \cup {Len(calls) + 1} /\ Len(calls) + 1 \in Call
        /\ calls'[Len(calls) + 1].node = n /\ calls'[Len(calls) + 1].index = i
        /\ \A k \in DOMAIN calls : calls'[k] = calls[k]
    BY <1>1, <1>4, NewCall
  <1>7. PICK f \in Frame : f = [at |-> "publish", call |-> Len(calls) + 1]
    BY <1>1, <1>6, FrameMade
  <1>8. PICK frames \in Seq(Frame) : frames = <<f>> \o rest /\ Len(frames) = 1 + Len(rest)
                                     /\ frames[1] = f
    BY CallFrames
  <1>9. Become(c, frames, "save") /\ Len(frames) = 1 /\ f.at = "publish"
    BY <1>3, <1>4, <1>7, <1>8 DEF StartCall
  <1>10. Len(Tail(routines[c])) # 0 => RestOK(f.at, Tail(routines[c]))
    <2>1. RestOK("iterate", Tail(routines[c]))
      BY <1>1, StackAt
    <2> QED
      BY <1>9, <2>1 DEF RestOK, InBatch
  <1>11. /\ StacksInv' /\ OthersSame(c) /\ turn' \in {c, Idle} /\ routines'[c][1] = f
         /\ Batch' = IF Len(Tail(routines[c])) # 0 THEN Batch
                     ELSE IF f.at = "batch" THEN f ELSE NoBatch
    BY <1>1, <1>8, <1>9, <1>10, Swap
  <1>12. Batch' = Batch
    <2>1. Batch = BatchOf(Tail(routines[c]))
      BY <1>1, BatchAt
    <2> QED
      BY <1>9, <1>11, <2>1 DEF BatchOf
  <1>13. CallsApart(n)'
    <2>1. PICK e : e = Len(calls) + 1
      OBVIOUS
    <2>2. CallsOf(n)' = CallsOf(n) \cup {e} /\ \A k \in CallsOf(n) : calls'[k] = calls[k]
      BY <1>6, <2>1 DEF CallsOf
    <2>3. Kind[n] = "loop" /\ Kind'[n] = "loop"
      <3>1. Kind[n] = "loop"
        BY <1>1, <1>2, TopMap
      <3> QED
        BY <1>4, <3>1, SameDefinition DEF StartCall, Become
    <2>4. iterations'[n] = i + 1 /\ branches'[n] = {e}
      BY <1>1, <1>4, <2>1 DEF TypeOK
    <2>5. /\ \A k \in CallsOf(n) : calls[k].index < i /\ calls[k].index \in Nat
          /\ \A j, k \in CallsOf(n) : calls[j].index = calls[k].index => j = k
          /\ \A j, k \in CallsOf(n) : j < k => j \in answered /\ calls[j].index < calls[k].index
      <3>1. CallsApart(n) /\ \A k \in CallsOf(n) : calls[k].index \in Nat
        BY <1>1, CallFacts DEF CallInv, NodeOK, CallsOf
      <3> QED
        BY <1>5, <2>3, <3>1 DEF CallsApart
    <2>6. calls'[e].index = i /\ \A k \in CallsOf(n) : k < e /\ ~(e < k) /\ k # e
      <3>1. DOMAIN calls = 1 .. Len(calls) /\ Len(calls) \in Nat
        BY <1>1, CallFacts
      <3> QED
        BY <1>6, <2>1, <3>1 DEF CallsOf
    <2>7. \A k \in CallsOf(n)' : calls'[k].index < iterations'[n]
      BY <2>2, <2>4, <2>5, <2>6
    <2>8. \A j, k \in CallsOf(n)' : calls'[j].index = calls'[k].index => j = k
      BY <2>2, <2>5, <2>6
    <2>9. \A j, k \in CallsOf(n)' : j < k => j \in answered' /\ calls'[j].index < calls'[k].index
      <3> SUFFICES ASSUME NEW j \in CallsOf(n)', NEW k \in CallsOf(n)', j < k
                   PROVE  j \in answered /\ calls'[j].index < calls'[k].index
        BY <1>4
      <3>1. e \notin CallsOf(n) /\ ~(e < e)
        <4>1. e \in Nat
          BY <1>6, <2>1 DEF Call
        <4> QED
          BY <2>6, <4>1
      <3>2. j \in CallsOf(n)
        BY <2>2, <2>6, <3>1
      <3> QED
        BY <1>5, <2>2, <2>5, <2>6, <3>2
    <2> QED
      BY <2>2, <2>3, <2>4, <2>7, <2>8, <2>9 DEF CallsApart
  <1>14. \A m \in Node : m # n =>
            /\ iterations'[m] = iterations[m] /\ branches'[m] = branches[m]
            /\ mapState'[m] = mapState[m]
    BY <1>1, <1>4 DEF TypeOK
  <1>15. routines'[c][1].at = "publish" /\ \A g \in Elements(rest) : g.at = "launch" => Given(g.node)
    BY <1>3, <1>9, <1>11
  <1> QED
    BY <1>4, <1>5, <1>11, <1>12, <1>13, <1>14, <1>15, CallMade

\* A map is entered.
LEMMA StartMapCalls ==
    ASSUME InlineCalls, BaseInv, MapInv, CallInv, NEW c \in Routine, StartMap(c) PROVE CallInv'
  <1>1. /\ At(c, "execute") /\ TypeOK /\ StackOK /\ StacksInv /\ definition \in Definitions
        /\ "execute" \in NodeFrames /\ routines[c] # << >> /\ "nothing" \notin Awaits
    BY StackFromType, Inline DEF StartMap, Runs, At, BaseInv, CallInv, StackOK, NodeFrames
  <1>2. PICK n \in Node : n = Top(c).node
    BY <1>1, TopNode
  <1>3. PICK f \in Frame : f = [at |-> "launch", node |-> n]
    BY <1>1, FrameMade DEF NodeFrames
  <1>4. PICK frames \in Seq(Frame) : frames = <<f>> /\ Elements(frames) = {f}
    BY FewFrames
  <1>5. /\ Become(c, frames, "nothing") /\ Len(frames) = 1 /\ frames[1] = f /\ Kind[n] = "map"
        /\ UNCHANGED <<completed, pending, calls, answered, iterations>>
        /\ mapState' = [mapState EXCEPT ![n] = [next |-> 0, count |-> 0, active |-> {}]]
        /\ branches' = [branches EXCEPT ![n] = {}]
    BY <1>2, <1>3, <1>4 DEF StartMap, nodeVars, callVars
  <1>6. Len(Tail(routines[c])) # 0 /\ RestOK(f.at, Tail(routines[c])) /\ Given(n) /\ Fresh(n)
    BY <1>1, <1>2, <1>3, Executing DEF InBatch
  <1>7. /\ StacksInv' /\ OthersSame(c) /\ turn' \in {c, Idle} /\ routines'[c][1] = f
        /\ Batch' = IF Len(Tail(routines[c])) # 0 THEN Batch
                    ELSE IF f.at = "batch" THEN f ELSE NoBatch
    BY <1>1, <1>5, <1>6, Swap
  <1>8. Progress /\ CallsKept
    BY <1>5, <1>6, <1>7, SameProgress DEF CallsKept, MapInv, Become
  <1>9. ExecutesFresh'
    BY <1>3, <1>7 DEF ExecutesFresh
  <1>10. \A d \in Routine : \A m : Busy(d, m)' => d # c
    BY <1>3, <1>7 DEF Busy, Loops
  <1>11. \A m \in Node : m # n => Untouched(m)
    BY <1>1, <1>5, <1>7, <1>10 DEF Untouched, OthersSame, TypeOK
  <1>12. NodeOK(n)'
    <2>1. CallsOf(n)' = {} /\ Kind'[n] = "map"
      BY <1>5, <1>6, SameDefinition DEF CallsOf, Fresh, Become
    <2>2. \A d \in Routine : ~Busy(d, n)'
      BY <1>6, <1>7, <1>10 DEF Busy, OthersSame, Fresh
    <2>3. Given(n)' /\ n \notin Todo'
      <3>1. n \notin Todo
        BY <1>6 DEF CallInv, NodeOK, NodeGiven
      <3> QED
        BY <1>5, <1>6, <1>7, <3>1 DEF Given, Todo, Started
    <2> QED
      BY <2>1, <2>2, <2>3 DEF NodeOK, NodeGiven, LoopBusy, CallsApart
  <1>13. \A g \in Elements(frames) : g.at = "launch" => Given(g.node) \/ Given(g.node)'
    BY <1>3, <1>4, <1>6
  <1> QED
    BY <1>1, <1>5, <1>7, <1>8, <1>9, <1>11, <1>12, <1>13, CallStep

\* An item of a map is launched: it is the next one.
LEMMA LaunchItemCalls ==
    ASSUME InlineCalls, BaseInv, MapInv, CallInv, NEW c \in Routine, LaunchItem(c) PROVE CallInv'
  <1>1. /\ At(c, "launch") /\ TypeOK /\ StackOK /\ StacksInv /\ definition \in Definitions
        /\ "launch" \in NodeFrames /\ routines[c] # << >> /\ "save" \notin Awaits
    BY StackFromType, Inline DEF LaunchItem, At, BaseInv, CallInv, StackOK, NodeFrames
  <1>2. PICK n \in Node : n = Top(c).node
    BY <1>1, TopNode
  <1>3. PICK g \in Frame : g = Top(c) /\ g \in Frames /\ g.at = "launch" /\ g.node = n
    BY <1>1, <1>2, TopFrame
  <1>4. PICK i \in Nat : i = mapState[n].next
    BY <1>1, CallFacts
  <1>5. PICK rest \in Seq(Frame) : rest = <<g>> /\ Elements(rest) = {g} /\ Len(rest) = 1
                                   /\ rest[1] = g
    BY FewFrames
  <1>6. PICK r : r = [next |-> i + 1, count |-> mapState[n].count,
                      active |-> mapState[n].active \cup {i}]
    OBVIOUS
  <1>7. /\ StartCall(c, n, i, rest) /\ mapState' = [mapState EXCEPT ![n] = r]
        /\ UNCHANGED <<completed, pending, iterations, branches, answered>>
    BY <1>2, <1>3, <1>4, <1>5, <1>6 DEF LaunchItem, nodeVars
  <1>8. Given(n) /\ Kind[n] = "map"
    BY <1>1, <1>2, <1>3, TopMap DEF CallInv, LaunchesGiven
  <1>9. n \notin Todo
    BY <1>8 DEF CallInv, NodeOK, NodeGiven
  <1>10. \A d \in Routine : ~Busy(d, n)
    <2> SUFFICES ASSUME NEW d \in Routine, Busy(d, n) PROVE FALSE
      OBVIOUS
    <2>1. routines[d] \in Seq(Frame) /\ Len(routines[d]) # 0
      BY <1>1 DEF StackOK, Busy
    <2>2. routines[d][1] \in Frames
      <3>1. 1 \in DOMAIN routines[d]
        BY <2>1, LenProperties
      <3> QED
        BY <3>1 DEF Frames, Elements
    <2> QED
      BY <1>8, <2>2 DEF MapInv, MapFrameOK, Busy, Loops
  <1>11. /\ DOMAIN calls' = DOMAIN calls \cup {Len(calls) + 1} /\ Len(calls) + 1 \in Call
         /\ calls'[Len(calls) + 1].node = n /\ calls'[Len(calls) + 1].index = i
         /\ \A k \in DOMAIN calls : calls'[k] = calls[k]
    BY <1>1, <1>7, NewCall
  <1>12. PICK f \in Frame : f = [at |-> "publish", call |-> Len(calls) + 1]
    BY <1>1, <1>11, FrameMade
  <1>13. PICK frames \in Seq(Frame) : /\ frames = <<f>> \o rest /\ Len(frames) = 1 + Len(rest)
                                      /\ frames[1] = f
                                      /\ \A j \in 1 .. Len(rest) : frames[1 + j] = rest[j]
    BY CallFrames
  <1>14. Become(c, frames, "save") /\ Len(frames) = 2 /\ frames[2] = g /\ f.at = "publish"
    BY <1>5, <1>7, <1>12, <1>13 DEF StartCall
  <1>15. Len(Tail(routines[c])) # 0
    <2>1. RestOK("launch", Tail(routines[c]))
      BY <1>1, StackAt
    <2> QED
      BY <2>1 DEF RestOK
  <1>16. /\ StacksInv' /\ OthersSame(c) /\ turn' = c /\ routines'[c][1] = f
         /\ Batch' = IF Len(Tail(routines[c])) # 0 THEN Batch
                     ELSE IF g.at = "batch" THEN g ELSE NoBatch
    <2>1. g.at = "launch" /\ f.at = "publish" /\ frames[1] = f
      BY <1>3, <1>13, <1>14
    <2>2. PICK place : place = "launch" /\ At(c, place)
      BY <1>1
    <2> QED
      BY <1>1, <1>14, <1>15, <2>1, <2>2, Push
  <1>17. CallsApart(n)'
    <2>1. PICK e : e = Len(calls) + 1
      OBVIOUS
    <2>2. CallsOf(n)' = CallsOf(n) \cup {e} /\ \A k \in CallsOf(n) : calls'[k] = calls[k]
      BY <1>11, <2>1 DEF CallsOf
    <2>3. Kind'[n] = "map"
      BY <1>7, <1>8, SameDefinition DEF StartCall, Become
    <2>4. mapState'[n].next = i + 1
      BY <1>1, <1>6, <1>7, CallFacts
    <2>5. /\ \A k \in CallsOf(n) : calls[k].index < i /\ calls[k].index \in Nat
          /\ \A j, k \in CallsOf(n) : calls[j].index = calls[k].index => j = k
      <3>1. CallsApart(n) /\ \A k \in CallsOf(n) : calls[k].index \in Nat
        BY <1>1, CallFacts DEF CallInv, NodeOK, CallsOf
      <3> QED
        BY <1>4, <1>8, <3>1 DEF CallsApart
    <2>6. calls'[e].index = i
      BY <1>11, <2>1
    <2>7. \A k \in CallsOf(n)' : calls'[k].index < mapState'[n].next
      BY <2>2, <2>4, <2>5, <2>6
    <2>8. \A j, k \in CallsOf(n)' : calls'[j].index = calls'[k].index => j = k
      BY <2>2, <2>5, <2>6
    <2> QED
      BY <2>3, <2>7, <2>8 DEF CallsApart
  <1>18. \A m \in Node : m # n =>
            /\ iterations'[m] = iterations[m] /\ branches'[m] = branches[m]
            /\ mapState'[m] = mapState[m]
    BY <1>1, <1>7 DEF TypeOK
  <1>19. /\ routines'[c][1].at = "publish" /\ Batch' = Batch
         /\ \A h \in Elements(rest) : h.at = "launch" => Given(h.node)
    BY <1>3, <1>5, <1>8, <1>14, <1>15, <1>16
  <1> QED
    BY <1>1, <1>7, <1>8, <1>9, <1>10, <1>16, <1>17, <1>18, <1>19, CallMade

\* An item of a map succeeded: the next one is launched for it.
LEMMA ItemCalls ==
    ASSUME InlineCalls, BaseInv, MapInv, CallInv, NEW c \in Routine, ItemSucceeded(c) PROVE CallInv'
  <1>1. /\ At(c, "complete") /\ TypeOK /\ StackOK /\ StacksInv /\ definition \in Definitions
        /\ routines[c] # << >> /\ "nothing" \notin Awaits
    BY StackFromType, Inline DEF ItemSucceeded, Runs, At, BaseInv, CallInv, StackOK
  <1>2. PICK k : k = Top(c).call
    OBVIOUS
  <1>3. PICK n \in ParentOf(k, "map") :
           /\ mapState' = [mapState EXCEPT ![n] =
                  [next |-> @.next, count |-> @.count + 1, active |-> @.active \ {calls[k].index}]]
           /\ Become(c, <<[at |-> "launch", node |-> n], [at |-> "mapcheck", node |-> n]>>,
                     "nothing")
    BY <1>2 DEF ItemSucceeded
  <1>4. n \in Node /\ Kind[n] = "map" /\ k \in branches[n]
    BY <1>1, <1>3 DEF ParentOf, TypeOK
  <1>5. PICK f \in Frame, g \in Frame : /\ f = [at |-> "launch", node |-> n]
                                        /\ g = [at |-> "mapcheck", node |-> n]
    BY <1>1, <1>4, FrameMade DEF NodeFrames
  <1>6. PICK frames \in Seq(Frame) : frames = <<f, g>> /\ Elements(frames) = {f, g}
    BY FewFrames
  <1>7. /\ Become(c, frames, "nothing") /\ Len(frames) = 2 /\ frames[1] = f /\ frames[2] = g
        /\ UNCHANGED <<completed, pending, calls, iterations, branches>>
        /\ answered' = answered \cup {k}
    BY <1>2, <1>3, <1>5, <1>6 DEF ItemSucceeded, nodeVars, callVars
  <1>8. k \in CallsOf(n) /\ k \in DOMAIN calls
    BY <1>4 DEF MapInv, MapOK, MapCalls, CallsOf
  <1>9. Given(n)
    BY <1>4, <1>8, NotFresh DEF Fresh
  <1>10. Len(Tail(routines[c])) = 0 /\ Batch = NoBatch
    BY <1>1, Alone DEF InBatch
  <1>11. g.at = "mapcheck" /\ f.at = "launch"
    BY <1>5
  <1>12. /\ StacksInv' /\ OthersSame(c) /\ turn' = c /\ routines'[c][1] = f
         /\ Batch' = IF Len(Tail(routines[c])) # 0 THEN Batch
                     ELSE IF g.at = "batch" THEN g ELSE NoBatch
    BY <1>1, <1>7, <1>10, <1>11, Push
  <1>13. Batch' = Batch
    BY <1>10, <1>11, <1>12
  <1>14. Progress /\ CallsKept
    BY <1>7, <1>8, <1>13, SameProgress DEF CallsKept, MapInv, Become
  <1>15. ExecutesFresh'
    BY <1>11, <1>12 DEF ExecutesFresh
  <1>16. \A m \in Node : mapState'[m].next = mapState[m].next
    BY <1>1, <1>3, CallFacts
  <1>17. \A d \in Routine : \A m : Busy(d, m)' => d # c
    BY <1>11, <1>12 DEF Busy, Loops
  <1>18. \A m \in Node : Untouched(m)
    BY <1>7, <1>12, <1>16, <1>17 DEF Untouched, OthersSame
  <1>19. \A h \in Elements(frames) : h.at = "launch" => Given(h.node) \/ Given(h.node)'
    BY <1>5, <1>6, <1>9, <1>11
  <1>20. PICK m : m \notin Node
    BY NoSetContainsEverything
  <1> QED
    BY <1>1, <1>7, <1>12, <1>14, <1>15, <1>18, <1>19, <1>20, CallStep

-----------------------------------------------------------------------------
(* Calls without an await: the branches that are open.                     *)

\* What launches the items of a map, and checks them, finds the map's branch; and
\* so does what closes the branch of a loop or map, when loading does not suspend.
OpenFrame(f) ==
    /\ f.at \in {"launch", "mapcheck"} => f.node \in open
    /\ f.at = "publish" /\ Kind[calls[f.call].node] = "map" => calls[f.call].node \in open
    /\ "load" \notin Awaits /\ f.at \in {"looped", "aggregate"} => f.node \in open
BranchInv == \A f \in Frames : OpenFrame(f)

AtBranch == {"launch", "mapcheck", "publish", "looped", "aggregate"}

\* When one frame, two or none takes the place of the one on top, no other
\* frame appears.
LEMMA OneFrame ==
    ASSUME StackOK, NEW c \in Routine, routines[c] # << >>, NEW f, NEW await,
           Become(c, <<f>>, await)
    PROVE  Frames' \subseteq Frames \cup {f}
  <1>1. PICK s : s = Tail(routines[c]) /\ routines' = [routines EXCEPT ![c] = <<f>> \o s]
    BY DEF Become
  <1>2. PICK S : S = Frame \cup {f}
    OBVIOUS
  <1>3. s \in Seq(S) /\ Elements(s) \subseteq Elements(routines[c])
    <2>1. s \in Seq(Frame) /\ Elements(s) \subseteq Elements(routines[c])
      BY <1>1, StackElements DEF StackOK
    <2>2. Frame \subseteq S
      BY <1>2
    <2> QED
      BY <2>1, <2>2
  <1>4. <<f>> \in Seq(S) /\ Elements(<<f>>) = {f}
    BY <1>2 DEF Elements
  <1>5. Elements(<<f>> \o s) \subseteq Elements(<<f>>) \cup Elements(s)
    BY <1>3, <1>4, StackElements
  <1>6. ASSUME NEW d \in Routine
        PROVE  Elements(routines'[d]) \subseteq {f} \cup Elements(routines[d])
    <2>1. routines'[d] = IF d = c THEN <<f>> \o s ELSE routines[d]
      BY <1>1 DEF StackOK
    <2> QED
      BY <1>3, <1>4, <1>5, <2>1
  <1> QED
    BY <1>6 DEF Frames

LEMMA TwoFrames ==
    ASSUME StackOK, NEW c \in Routine, routines[c] # << >>, NEW f, NEW g, NEW await,
           Become(c, <<f, g>>, await)
    PROVE  Frames' \subseteq Frames \cup {f, g}
  <1>1. PICK s : s = Tail(routines[c]) /\ routines' = [routines EXCEPT ![c] = <<f, g>> \o s]
    BY DEF Become
  <1>2. PICK S : S = Frame \cup {f, g}
    OBVIOUS
  <1>3. s \in Seq(S) /\ Elements(s) \subseteq Elements(routines[c])
    <2>1. s \in Seq(Frame) /\ Elements(s) \subseteq Elements(routines[c])
      BY <1>1, StackElements DEF StackOK
    <2>2. Frame \subseteq S
      BY <1>2
    <2> QED
      BY <2>1, <2>2
  <1>4. <<f, g>> \in Seq(S) /\ Elements(<<f, g>>) = {f, g}
    BY <1>2 DEF Elements
  <1>5. Elements(<<f, g>> \o s) \subseteq Elements(<<f, g>>) \cup Elements(s)
    BY <1>3, <1>4, StackElements
  <1>6. ASSUME NEW d \in Routine
        PROVE  Elements(routines'[d]) \subseteq {f, g} \cup Elements(routines[d])
    <2>1. routines'[d] = IF d = c THEN <<f, g>> \o s ELSE routines[d]
      BY <1>1 DEF StackOK
    <2> QED
      BY <1>3, <1>4, <1>5, <2>1
  <1> QED
    BY <1>6 DEF Frames

LEMMA NoFrame ==
    ASSUME StackOK, NEW c \in Routine, routines[c] # << >>, NEW await, Become(c, << >>, await)
    PROVE  Frames' \subseteq Frames
  <1>1. PICK frames \in Seq(Frame) : frames = << >> /\ Elements(frames) = {}
    BY FewFrames
  <1> QED
    BY <1>1, BecomeFrames

\* A step that closes no branch.
LEMMA OpenStays ==
    ASSUME BaseInv, BranchInv, definition' = definition, open \subseteq open',
           DOMAIN calls \subseteq DOMAIN calls', \A k \in DOMAIN calls : calls'[k] = calls[k],
           NEW new, Frames' \subseteq Frames \cup new, \A f \in new : OpenFrame(f)'
    PROVE  BranchInv'
  <1>1. Kind' = Kind
    BY SameDefinition
  <1>2. ASSUME NEW f \in Frames PROVE OpenFrame(f)'
    <2>1. OpenFrame(f) /\ (f.at = "publish" => f.call \in DOMAIN calls)
      BY DEF BranchInv, BaseInv, FrameOK
    <2> QED
      BY <1>1, <2>1 DEF OpenFrame
  <1> QED
    BY <1>2 DEF BranchInv

\* The same when nothing is called, and one frame or none takes the place of
\* the one on top.
LEMMA OpenOne ==
    ASSUME BaseInv, BranchInv, NEW c \in Routine, NEW place, At(c, place),
           NEW await, NEW f,
           f.at \notin AtBranch \/ (f.at \in {"looped", "aggregate"} /\ f.node \in open),
           Become(c, <<f>>, await) \/ Become(c, << >>, await),
           open' = open, calls' = calls
    PROVE  BranchInv'
  <1>1. StackOK /\ routines[c] # << >> /\ definition' = definition
    BY StackFromType DEF BaseInv, At, Become
  <1>2. PICK new : new = {f}
    OBVIOUS
  <1>3. Frames' \subseteq Frames \cup new
    BY <1>1, <1>2, OneFrame, NoFrame
  <1>4. \A g \in new : OpenFrame(g)'
    BY <1>2 DEF OpenFrame, AtBranch
  <1> QED
    BY <1>1, <1>3, <1>4, OpenStays

\* No branch is closed, and no item launched.
LEMMA PlainOpen ==
    ASSUME BaseInv, BranchInv, NEW c \in Routine,
           \/ StopCancelled(c) \/ ScheduleNodes(c)
           \/ EnterLoop(c) \/ StopLoopAtLimit(c) \/ StopLoopOnCondition(c)
           \/ ContinueLoop(c) \/ LaunchedAll(c) \/ CheckMap(c) \/ PublishCall(c)
           \/ NodeFailed(c) \/ NodeSucceeded(c) \/ OutputLoaded(c)
           \/ StrayCompleted(c) \/ StrayLoaded(c) \/ IterationSucceeded(c)
           \/ PublishResponse(c) \/ CleanUp(c)
    PROVE  BranchInv'
  <1> USE DEF AtBranch
  <1>1. CASE StopCancelled(c)
    <2>1. PICK place : At(c, place)
      BY <1>1 DEF StopCancelled
    <2>2. Become(c, << >>, "nothing") /\ open' = open /\ calls' = calls
      BY <1>1 DEF StopCancelled, groupVars, callVars
    <2>3. Schedule.at \notin AtBranch
      BY DEF Schedule
    <2> QED
      BY <2>1, <2>2, <2>3, OpenOne
  <1>2. CASE ScheduleNodes(c)
    <2>1. At(c, "schedule") /\ open' = open /\ calls' = calls
      BY <1>2 DEF ScheduleNodes, Runs, groupVars, callVars
    <2>2. PICK f : /\ f.at \notin AtBranch
                   /\ Become(c, <<f>>, "nothing") \/ Become(c, << >>, "nothing")
      <3>1. PICK b, f : /\ b = [at |-> "batch", todo |-> NextNodes, started |-> {}]
                        /\ f = Finalize("success")
        OBVIOUS
      <3>2. b.at \notin AtBranch /\ f.at \notin AtBranch
        BY <3>1 DEF Finalize
      <3>3. \/ Become(c, <<b>>, "nothing") \/ Become(c, <<f>>, "nothing")
            \/ Become(c, << >>, "nothing")
        BY <1>2, <3>1 DEF ScheduleNodes
      <3> QED
        BY <3>2, <3>3
    <2> QED
      BY <2>1, <2>2, OpenOne
  <1>3. CASE EnterLoop(c)
    <2>1. PICK f : f = [at |-> "loop", node |-> Top(c).node]
      OBVIOUS
    <2>2. /\ At(c, "execute") /\ Become(c, <<f>>, "nothing") /\ open' = open /\ calls' = calls
          /\ f.at \notin AtBranch
      BY <1>3, <2>1 DEF EnterLoop, Runs, groupVars, callVars
    <2> QED
      BY <2>2, OpenOne
  <1>4. CASE StopLoopAtLimit(c) \/ StopLoopOnCondition(c)
    <2>1. /\ At(c, "loop") /\ Become(c, <<Schedule>>, "nothing") /\ open' = open /\ calls' = calls
          /\ Schedule.at \notin AtBranch
      BY <1>4 DEF StopLoopAtLimit, StopLoopOnCondition, LoopEnds, Runs, groupVars, callVars, Schedule
    <2> QED
      BY <2>1, OpenOne
  <1>5. CASE ContinueLoop(c)
    <2>1. PICK f : f = [at |-> "iterate", node |-> Top(c).node, index |-> iterations[Top(c).node]]
      OBVIOUS
    <2>2. PICK await : Become(c, <<f>>, await)
      BY <1>5, <2>1 DEF ContinueLoop
    <2>3. At(c, "loop") /\ open' = open /\ calls' = calls /\ f.at \notin AtBranch
      BY <1>5, <2>1 DEF ContinueLoop, Runs, groupVars, callVars
    <2> QED
      BY <2>2, <2>3, OpenOne
  <1>6. CASE LaunchedAll(c) \/ PublishCall(c) \/ CleanUp(c)
    <2>1. PICK place : At(c, place)
      BY <1>6 DEF LaunchedAll, PublishCall, CleanUp
    <2>2. Become(c, << >>, "nothing") /\ open' = open /\ calls' = calls
      BY <1>6 DEF LaunchedAll, PublishCall, CleanUp, groupVars, callVars
    <2>3. Schedule.at \notin AtBranch
      BY DEF Schedule
    <2> QED
      BY <2>1, <2>2, <2>3, OpenOne
  <1>7. CASE CheckMap(c)
    <2>1. PICK f : f = [at |-> "aggregate", node |-> Top(c).node]
      OBVIOUS
    <2>2. PICK await : Become(c, <<f>>, await) \/ Become(c, << >>, await)
      BY <1>7, <2>1 DEF CheckMap
    <2>3. At(c, "mapcheck") /\ open' = open /\ calls' = calls
      BY <1>7, <2>1 DEF CheckMap, groupVars, callVars
    <2>4. Top(c) \in Frames /\ Top(c).at = "mapcheck"
      BY <2>3, TopFrame, StackFromType DEF BaseInv
    <2>5. f.at = "aggregate" /\ f.node \in open
      BY <2>1, <2>4 DEF BranchInv, OpenFrame
    <2> QED
      BY <2>2, <2>3, <2>5, OpenOne
  <1>8. CASE NodeFailed(c)
    <2>1. /\ At(c, "complete") /\ Become(c, <<Finalize("failure")>>, "nothing") /\ open' = open
          /\ calls' = calls /\ Finalize("failure").at \notin AtBranch
      BY <1>8 DEF NodeFailed, Runs, groupVars, callVars, Finalize
    <2> QED
      BY <2>1, OpenOne
  <1>9. CASE NodeSucceeded(c)
    <2>1. PICK f : f = [at |-> "load", node |-> calls[Top(c).call].node]
      OBVIOUS
    <2>2. /\ At(c, "complete") /\ Become(c, <<f>>, "load") /\ open' = open
          /\ calls' = calls /\ f.at \notin AtBranch
      BY <1>9, <2>1 DEF NodeSucceeded, Runs, groupVars, callVars
    <2> QED
      BY <2>2, OpenOne
  <1>10. CASE OutputLoaded(c) \/ StrayLoaded(c)
    <2>1. PICK place : At(c, place)
      BY <1>10 DEF OutputLoaded, StrayLoaded
    <2>2. /\ Become(c, <<Schedule>>, "nothing") /\ open' = open /\ calls' = calls
          /\ Schedule.at \notin AtBranch
      BY <1>10 DEF OutputLoaded, StrayLoaded, groupVars, callVars, Schedule
    <2> QED
      BY <2>1, <2>2, OpenOne
  <1>11. CASE StrayCompleted(c)
    <2>1. PICK f : f = [at |-> "strayed"]
      OBVIOUS
    <2>2. /\ At(c, "complete") /\ Become(c, <<f>>, "load") /\ open' = open
          /\ calls' = calls /\ f.at \notin AtBranch
      BY <1>11, <2>1 DEF StrayCompleted, Runs, groupVars, callVars
    <2> QED
      BY <2>2, OpenOne
  <1>12. CASE IterationSucceeded(c)
    <2>1. PICK n : Become(c, <<[at |-> "looped", node |-> n]>>, "load") /\ n \in open
      BY <1>12 DEF IterationSucceeded, ParentOf
    <2>2. PICK f : f = [at |-> "looped", node |-> n]
      OBVIOUS
    <2>3. /\ At(c, "complete") /\ Become(c, <<f>>, "load") /\ open' = open
          /\ calls' = calls /\ f.at = "looped" /\ f.node \in open
      BY <1>12, <2>1, <2>2 DEF IterationSucceeded, Runs, callVars
    <2> QED
      BY <2>3, OpenOne
  <1>13. CASE PublishResponse(c)
    <2>1. PICK f : f = [at |-> "cleanup"]
      OBVIOUS
    <2>2. /\ At(c, "respond") /\ Become(c, <<f>>, "session") /\ open' = open
          /\ calls' = calls /\ f.at \notin AtBranch
      BY <1>13, <2>1 DEF PublishResponse, groupVars, callVars
    <2> QED
      BY <2>2, OpenOne
  <1> QED
    BY <1>1, <1>2, <1>3, <1>4, <1>5, <1>6, <1>7, <1>8, <1>9, <1>10, <1>11, <1>12, <1>13

\* The next node of a batch is executed.
LEMMA ExecuteOpen == ASSUME BaseInv, BranchInv, NEW c \in Routine, ExecuteNext(c) PROVE BranchInv'
  <1>1. /\ At(c, "batch") /\ open' = open /\ calls' = calls /\ definition' = definition
        /\ StackOK /\ routines[c] # << >>
    BY StackFromType DEF ExecuteNext, groupVars, callVars, Become, BaseInv, At
  <1>2. CASE Become(c, <<Schedule>>, "session")
    <2>1. Schedule.at \notin AtBranch
      BY DEF Schedule, AtBranch
    <2> QED
      BY <1>1, <1>2, <2>1, OpenOne
  <1>3. ASSUME NEW n, Become(c, <<[at |-> "execute", node |-> n],
                                  [at |-> "batch", todo |-> Top(c).todo \ {n}, started |-> {n}]>>,
                             "nothing")
        PROVE  BranchInv'
    <2>1. PICK f, g : /\ f = [at |-> "execute", node |-> n]
                      /\ g = [at |-> "batch", todo |-> Top(c).todo \ {n}, started |-> {n}]
      OBVIOUS
    <2>2. PICK new : new = {f, g}
      OBVIOUS
    <2>3. Become(c, <<f, g>>, "nothing")
      BY <1>3, <2>1
    <2>4. Frames' \subseteq Frames \cup new
      BY <1>1, <2>2, <2>3, TwoFrames
    <2>5. \A h \in new : OpenFrame(h)'
      BY <2>1, <2>2 DEF OpenFrame
    <2> QED
      BY <1>1, <2>4, <2>5, OpenStays
  <1> QED
    BY <1>2, <1>3 DEF ExecuteNext

\* A sub-task is started: an item's map has its branch.
LEMMA CallOpen ==
    ASSUME BaseInv, BranchInv, NEW c \in Routine, NEW place, At(c, place),
           NEW n \in Node, NEW index \in Nat, NEW rest \in Seq(Frame), StartCall(c, n, index, rest),
           Elements(rest) \subseteq Frames, open \subseteq open',
           Kind[n] = "map" => n \in open
    PROVE  BranchInv'
  <1>1. /\ TypeOK /\ StackOK /\ routines[c] # << >> /\ definition' = definition
        /\ definition \in Definitions
    BY StackFromType DEF BaseInv, At, StartCall, Become, TypeOK
  <1>2. /\ DOMAIN calls' = DOMAIN calls \cup {Len(calls) + 1} /\ Len(calls) + 1 \in Call
        /\ calls'[Len(calls) + 1].node = n /\ \A k \in DOMAIN calls : calls'[k] = calls[k]
    BY <1>1, NewCall
  <1>3. PICK f \in Frame : f = [at |-> "publish", call |-> Len(calls) + 1]
    BY <1>1, <1>2, FrameMade
  <1>4. PICK frames \in Seq(Frame) : /\ frames = <<f>> \o rest
                                     /\ Elements(frames) \subseteq {f} \cup Elements(rest)
    BY CallFrames
  <1>5. Become(c, frames, "save")
    BY <1>3, <1>4 DEF StartCall
  <1>6. PICK new : new = {f}
    OBVIOUS
  <1>7. Frames' \subseteq Frames \cup new
    BY <1>1, <1>4, <1>5, <1>6, BecomeFrames
  <1>8. \A g \in new : OpenFrame(g)'
    BY <1>1, <1>2, <1>3, <1>6, SameDefinition DEF OpenFrame
  <1> QED
    BY <1>1, <1>2, <1>7, <1>8, OpenStays

\* An agent is called, an iteration or item started.
LEMMA StartOpen ==
    ASSUME BaseInv, MapInv, BranchInv, NEW c \in Routine,
           CallAgent(c) \/ Iterate(c) \/ LaunchItem(c)
    PROVE  BranchInv'
  <1>1. TypeOK /\ StackOK /\ definition \in Definitions
    BY StackFromType DEF BaseInv, TypeOK
  <1>2. PICK none \in Seq(Frame) : none = << >> /\ Elements(none) = {}
    BY FewFrames
  <1>3. CASE CallAgent(c)
    <2>1. At(c, "execute") /\ "execute" \in NodeFrames
      BY <1>3 DEF CallAgent, Runs, NodeFrames
    <2>2. PICK n \in Node : n = Top(c).node
      BY <1>1, <2>1, TopNode
    <2>3. StartCall(c, n, 0, none) /\ Kind[n] = "agent" /\ open' = open
      BY <1>2, <1>3, <2>2 DEF CallAgent, groupVars
    <2> QED
      BY <1>2, <2>1, <2>3, CallOpen
  <1>4. CASE Iterate(c)
    <2>1. At(c, "iterate")
      BY <1>4 DEF Iterate
    <2>2. PICK n \in Node, i \in Nat : n = Top(c).node /\ i = Top(c).index
      <3>1. Top(c) \in Frame /\ Top(c).at = "iterate"
        BY <1>1, <2>1, TopFrame
      <3>2. Top(c).node \in Node /\ Top(c).index \in 0 .. (MaxIterations - 1)
        BY <1>1, <3>1, FrameFields
      <3> QED
        BY <3>2
    <2>3. StartCall(c, n, i, none) /\ open' = open \cup {n}
      BY <1>2, <1>4, <2>2 DEF Iterate
    <2>4. Kind[n] = "loop"
      BY <1>1, <2>1, <2>2, TopMap
    <2> QED
      BY <1>2, <2>1, <2>3, <2>4, CallOpen
  <1>5. CASE LaunchItem(c)
    <2>1. At(c, "launch") /\ "launch" \in NodeFrames
      BY <1>5 DEF LaunchItem, NodeFrames
    <2>2. PICK n \in Node : n = Top(c).node
      BY <1>1, <2>1, TopNode
    <2>3. PICK g \in Frame : g = Top(c) /\ g \in Frames /\ g.at = "launch" /\ g.node = n
      BY <1>1, <2>1, <2>2, TopFrame
    <2>4. n \in open
      BY <2>3 DEF BranchInv, OpenFrame
    <2>5. PICK rest \in Seq(Frame) : rest = <<g>> /\ Elements(rest) = {g}
      BY FewFrames
    <2>6. PICK i \in Nat : i = mapState[n].next
      BY <1>1, CallFacts
    <2>7. StartCall(c, n, i, rest) /\ open' = open
      BY <1>5, <2>2, <2>3, <2>5, <2>6 DEF LaunchItem
    <2> QED
      BY <2>1, <2>3, <2>4, <2>5, <2>7, CallOpen
  <1> QED
    BY <1>3, <1>4, <1>5

\* A map is entered, and its branch opened; an item of an open one completes.
LEMMA MapOpen ==
    ASSUME BaseInv, BranchInv, NEW c \in Routine, StartMap(c) \/ ItemSucceeded(c)
    PROVE  BranchInv'
  <1>1. StackOK /\ definition' = definition /\ calls' = calls
    BY StackFromType DEF StartMap, ItemSucceeded, BaseInv, callVars, Become
  <1>2. CASE StartMap(c)
    <2>1. PICK n, f : n = Top(c).node /\ f = [at |-> "launch", node |-> n]
      OBVIOUS
    <2>2. Become(c, <<f>>, "nothing") /\ open' = open \cup {n} /\ routines[c] # << >>
      BY <1>2, <2>1 DEF StartMap, Runs, At
    <2>3. PICK new : new = {f}
      OBVIOUS
    <2>4. Frames' \subseteq Frames \cup new
      BY <1>1, <2>2, <2>3, OneFrame
    <2>5. \A g \in new : OpenFrame(g)'
      BY <2>1, <2>2, <2>3 DEF OpenFrame
    <2> QED
      BY <1>1, <2>2, <2>4, <2>5, OpenStays
  <1>3. CASE ItemSucceeded(c)
    <2>1. PICK n \in ParentOf(Top(c).call, "map") :
               Become(c, <<[at |-> "launch", node |-> n], [at |-> "mapcheck", node |-> n]>>,
                      "nothing")
      BY <1>3 DEF ItemSucceeded
    <2>2. PICK f, g : f = [at |-> "launch", node |-> n] /\ g = [at |-> "mapcheck", node |-> n]
      OBVIOUS
    <2>3. Become(c, <<f, g>>, "nothing")
      BY <2>1, <2>2
    <2>4. n \in open /\ open' = open /\ routines[c] # << >>
      BY <1>3, <2>1 DEF ItemSucceeded, ParentOf, Runs, At
    <2>5. PICK new : new = {f, g}
      OBVIOUS
    <2>6. Frames' \subseteq Frames \cup new
      BY <1>1, <2>3, <2>4, <2>5, TwoFrames
    <2>7. \A h \in new : OpenFrame(h)'
      BY <2>2, <2>4, <2>5 DEF OpenFrame
    <2> QED
      BY <1>1, <2>4, <2>6, <2>7, OpenStays
  <1> QED
    BY <1>2, <1>3

\* A branch is closed by a coroutine that has nothing else to do, while the
\* others are suspended outside of any batch.
LEMMA CloseOpen ==
    ASSUME BaseInv, CallInv, NEW c \in Routine, IterationLoaded(c) \/ FinalizeMap(c)
    PROVE  BranchInv'
  <1>1. PICK place : place \in {"looped", "aggregate"} /\ At(c, place)
    BY DEF IterationLoaded, FinalizeMap
  <1>2. StackOK /\ StacksInv /\ routines[c] # << >>
    BY <1>1, StackFromType DEF BaseInv, CallInv, At
  <1>3. Len(Tail(routines[c])) = 0 /\ \A d \in Routine : d # c => Waiting(routines[d])
    BY <1>1, <1>2, Alone, StackAt DEF InBatch
  <1>4. PICK f : f.at \in {"loop", "schedule"} /\ Become(c, <<f>>, "nothing")
    <2>1. PICK f, g : f = [at |-> "loop", node |-> Top(c).node] /\ g = Schedule
      OBVIOUS
    <2>2. f.at \in {"loop", "schedule"} /\ g.at \in {"loop", "schedule"}
      BY <2>1 DEF Schedule
    <2> QED
      BY <2>1, <2>2 DEF IterationLoaded, FinalizeMap
  <1>5. routines' = [routines EXCEPT ![c] = <<f>> \o << >>]
    <2>1. Tail(routines[c]) = << >>
      BY <1>2, <1>3, StackElements, EmptySeq DEF StackOK
    <2> QED
      BY <1>4, <2>1 DEF Become
  <1>6. <<f>> \o << >> = <<f>> /\ Elements(<<f>>) = {f} /\ Elements(<< >>) = {}
    BY DEF Elements
  <1>7. ASSUME NEW d \in Routine, NEW g \in Elements(routines'[d])
        PROVE  g.at \in Waits \cup {"loop", "schedule"}
    <2>1. CASE d = c
      BY <1>2, <1>4, <1>5, <1>6, <1>7, <2>1 DEF StackOK
    <2>2. CASE d # c
      <3>1. routines'[d] = routines[d] /\ routines[d] \in Seq(Frame)
        BY <1>2, <1>5, <2>2 DEF StackOK
      <3>2. DOMAIN routines[d] = 1 .. Len(routines[d])
        BY <3>1, LenProperties
      <3> QED
        BY <1>3, <1>6, <1>7, <2>2, <3>1, <3>2 DEF Waiting, Elements
    <2> QED
      BY <2>1, <2>2
  <1> QED
    BY <1>7 DEF BranchInv, OpenFrame, Frames, Waits

\* No call raises: an entry that is gone is one that is deleted, by a coroutine
\* that has nothing else to do.
LEMMA GoneAlone ==
    ASSUME InlineCalls, BaseInv, MapInv, CallInv, BranchInv, NEW c \in Routine, BranchGone(c)
    PROVE  /\ \E place \in {"looped", "aggregate"} : At(c, place) /\ Top(c).at = place
           /\ Len(Tail(routines[c])) = 0
           /\ \/ Become(c, <<Finalize("failure")>>, "nothing") /\ responses' = responses
              \/ Become(c, << >>, "nothing")
  <1>1. PICK place \in {"looped", "aggregate", "publish"} : At(c, place)
    BY DEF BranchGone
  <1>2. /\ StackOK /\ StacksInv /\ Top(c) \in Frames /\ Top(c).at = place /\ Raise(c)
        /\ "nothing" \notin Awaits
    <2>1. StackOK /\ StacksInv
      BY StackFromType DEF BaseInv, CallInv
    <2> QED
      BY <1>1, <2>1, TopFrame, EnvironmentAssumption DEF BranchGone
  <1>3. place # "publish"
    BY <1>2 DEF BranchInv, OpenFrame, BranchGone
  <1>4. Len(Tail(routines[c])) = 0 /\ Len(routines[c]) = Len(Tail(routines[c])) + 1
        /\ Tail(routines[c]) = << >>
    <2>1. Len(Tail(routines[c])) = 0 /\ Len(routines[c]) = Len(Tail(routines[c])) + 1
          /\ Tail(routines[c]) \in Seq(Frame)
      BY <1>1, <1>2, <1>3, Alone, StackAt DEF InBatch
    <2> QED
      BY <2>1, EmptySeq
  <1>5. {i \in 2 .. Len(routines[c]) : routines[c][i].at = "finalize"} = {}
    BY <1>4
  <1>6. PICK f \in Frame : f = Finalize("failure")
    BY <1>2, FrameMade DEF StackOK, Outcome
  <1>7. \/ /\ routines' = [routines EXCEPT ![c] = <<f>>] /\ turn' = c
           /\ responses' = responses
        \/ routines' = [routines EXCEPT ![c] = << >>] /\ turn' = Idle
    <2>1. <<f>> # << >>
      OBVIOUS
    <2>2. \/ /\ routines' = [routines EXCEPT ![c] = <<f>>] /\ c[1] = "response"
             /\ turn' = IF <<f>> = << >> THEN Idle ELSE c
             /\ responses' = IF <<f>> = << >> /\ c[1] = "request"
                             THEN Append(responses, "failure") ELSE responses
          \/ /\ routines' = [routines EXCEPT ![c] = << >>] /\ turn' = Idle
      BY <1>2, <1>5, <1>6 DEF Raise
    <2> QED
      BY <2>1, <2>2
  <1>8. /\ <<f>> \o << >> = <<f>> /\ << >> \o << >> = << >> /\ <<f>> # << >>
        /\ definition' = definition
    BY <1>2 DEF Raise
  <1>9. \/ Become(c, <<f>>, "nothing") /\ responses' = responses
        \/ Become(c, << >>, "nothing")
    BY <1>2, <1>4, <1>7, <1>8 DEF Become
  <1> QED
    BY <1>1, <1>2, <1>3, <1>4, <1>6, <1>9

LEMMA GoneCalls ==
    ASSUME InlineCalls, BaseInv, MapInv, CallInv, BranchInv, NEW c \in Routine, BranchGone(c)
    PROVE  CallInv'
  <1>1. PICK place \in {"looped", "aggregate"} : At(c, place) /\ Top(c).at = place
    BY GoneAlone
  <1>2. /\ UNCHANGED <<calls, answered, iterations, mapState>> /\ branches' = branches
        /\ definition \in Definitions
    BY DEF BranchGone, groupVars, BaseInv, TypeOK
  <1>3. PICK n \in Node : n = Top(c).node
    BY <1>1, TopNode DEF NodeFrames, BaseInv
  <1>4. \/ UNCHANGED <<completed, pending>>
        \/ completed' = [completed EXCEPT ![n] = "done"] /\ pending' = NotPending(n)
    BY <1>1, <1>3 DEF BranchGone
  <1>5. PICK f \in Frame : f = Finalize("failure") /\ f.handlers = << >>
                           /\ f.at \notin Loops \cup {"execute", "launch", "batch"}
    BY <1>2, FinalFrame DEF Outcome
  <1>6. CASE Become(c, <<Finalize("failure")>>, "nothing")
    BY <1>1, <1>2, <1>4, <1>5, <1>6, GoneAlone, QuietSwap, Inline
  <1>7. CASE Become(c, << >>, "nothing")
    BY <1>1, <1>2, <1>4, <1>7, GoneAlone, QuietPop
  <1> QED
    BY <1>6, <1>7, GoneAlone

\* An exception closes no branch either.
LEMMA GoneOpen ==
    ASSUME BaseInv, BranchInv, NEW c \in Routine, BranchGone(c) PROVE BranchInv'
  <1>1. StackOK /\ routines[c] # << >> /\ Raise(c) /\ open' = open /\ calls' = calls
    BY StackFromType DEF BranchGone, BaseInv, groupVars, At
  <1>2. PICK new : new = {Finalize("failure")}
    OBVIOUS
  <1>3. definition' = definition /\ Frames' \subseteq Frames \cup new
    BY <1>1, <1>2, RaiseFrames
  <1>4. \A f \in new : OpenFrame(f)'
    BY <1>2 DEF OpenFrame, Finalize
  <1> QED
    BY <1>1, <1>3, <1>4, OpenStays

\* The response is prepared.
LEMMA ExitOpen ==
    ASSUME InlineCalls, BaseInv, CallInv, BranchInv, NEW c \in Routine, RunExitHandler(c)
    PROVE  BranchInv'
  <1>1. At(c, "finalize") /\ open' = open /\ calls' = calls /\ StackOK /\ StacksInv
    BY StackFromType DEF RunExitHandler, groupVars, callVars, BaseInv, CallInv
  <1>2. Top(c).handlers = << >>
    BY <1>1, StackAt
  <1>3. PICK f : f = [at |-> "respond", outcome |-> Top(c).outcome]
    OBVIOUS
  <1>4. PICK await : Become(c, <<f>>, await) /\ f.at \notin AtBranch
    BY <1>2, <1>3 DEF RunExitHandler, AtBranch
  <1> QED
    BY <1>1, <1>3, <1>4, OpenOne

-----------------------------------------------------------------------------
(* Calls without an await: the invariant holds.                            *)

\* A step of the host begins a coroutine, or leaves them all alone.
LEMMA HostCalls ==
    ASSUME BaseInv, MapInv, CallInv,
           UNCHANGED <<completed, pending, calls, answered, iterations, branches, mapState>>,
           \/ UNCHANGED loopVars
           \/ \E c \in Routine, f \in Frame :
                 /\ f.at \in {"complete", "finalize"} /\ (f.at = "finalize" => f.handlers = << >>)
                 /\ Begin(c, f)
    PROVE  CallInv'
  <1>1. StackOK /\ StacksInv /\ TypeOK
    BY StackFromType DEF BaseInv, CallInv
  <1>2. CASE UNCHANGED loopVars
    <2>1. routines' = routines /\ turn' = turn /\ definition' = definition /\ Frames' \subseteq Frames
      BY <1>1, <1>2, SameStacks DEF loopVars
    <2>2. Batch' = Batch /\ StacksInv'
      BY <1>1, <2>1 DEF Batch, StacksInv
    <2>3. Progress /\ CallsKept
      BY <2>1, <2>2, SameProgress DEF CallsKept, MapInv
    <2>4. \A n \in Node : Untouched(n)
      BY <2>1 DEF Untouched
    <2>5. \A n : (Fresh(n)' <=> Fresh(n)) /\ (Given(n)' <=> Given(n))
      BY <2>1, <2>2 DEF Fresh, Given, CallsOf, Busy, Started
    <2>6. ExecutesFresh' /\ LaunchesGiven'
      BY <2>1, <2>2, <2>5 DEF ExecutesFresh, LaunchesGiven, CallInv, Started
    <2>7. Node' = Node /\ \A n \in Node : NodeOK(n)'
      BY <2>1, <2>3, <2>4, NodeSame, SameDefinition DEF CallInv
    <2> QED
      BY <2>2, <2>6, <2>7 DEF CallInv
  <1>3. ASSUME NEW c \in Routine, NEW f \in Frame, f.at \in {"complete", "finalize"},
               f.at = "finalize" => f.handlers = << >>, Begin(c, f)
        PROVE  CallInv'
    <2>1. /\ turn = Idle /\ turn' = c /\ routines' = [routines EXCEPT ![c] = <<f>>]
          /\ definition' = definition
      BY <1>3 DEF Begin
    <2>2. Frames' \subseteq Frames \cup {f}
      BY <1>1, <1>3, BeginFrames
    <2>3. routines'[c] = <<f>> /\ OthersSame(c) /\ Len(<<f>>) = 1 /\ <<f>>[1] = f
      BY <1>1, <2>1 DEF StackOK, OthersSame
    <2>4. StacksInv' /\ Batch' = BatchOf(<<f>>)
      <3>1. \A d \in Routine : d # c => Waiting(routines[d])
        BY <1>1, <2>1, IdleName DEF StacksInv
      <3>2. Running(routines'[c])
        BY <1>3, <2>3 DEF Running
      <3> QED
        BY <2>1, <2>3, <3>1, <3>2, StacksAfter, IdleName
    <2>5. Batch' = Batch
      <3>1. BatchOf(<<f>>) = NoBatch
        BY <1>3, <2>3 DEF BatchOf
      <3> QED
        BY <2>1, <2>4, <3>1 DEF Batch
    <2>6. Progress /\ CallsKept
      BY <2>1, <2>5, SameProgress DEF CallsKept, MapInv
    <2>7. \A n \in Node : Untouched(n)
      <3>1. \A d \in Routine : \A n : Busy(d, n)' => d # c
        BY <1>3, <2>3 DEF Busy, Loops
      <3> QED
        BY <2>3, <3>1 DEF Untouched, OthersSame
    <2>8. ExecutesFresh'
      BY <1>3, <2>1, <2>3 DEF ExecutesFresh
    <2>9. LaunchesGiven'
      <3>1. \A n : Given(n)' <=> Given(n)
        BY <2>5 DEF Given, Started
      <3> QED
        BY <1>3, <2>2, <3>1 DEF LaunchesGiven, CallInv
    <2>10. Node' = Node /\ \A n \in Node : NodeOK(n)'
      BY <2>1, <2>6, <2>7, NodeSame, SameDefinition DEF CallInv
    <2> QED
      BY <2>4, <2>8, <2>9, <2>10 DEF CallInv
  <1> QED
    BY <1>2, <1>3

\* The workflow starts with nothing given to anyone.
LEMMA InitCalls == Init => CallInv
  <1> SUFFICES ASSUME Init PROVE CallInv
    OBVIOUS
  <1>1. TypeOK /\ BaseInv /\ StackOK
    BY InitBase, StackFromType DEF BaseInv
  <1>2. PICK r \in Routine : r = <<"request", 0>> /\ turn = r /\ r # Idle
    BY IdleName DEF Init, Routine
  <1>3. /\ routines[r] = <<Schedule>> /\ \A d \in Routine : d # r => routines[d] = << >>
        /\ Len(<<Schedule>>) = 1 /\ <<Schedule>>[1] = Schedule /\ Schedule.at = "schedule"
    BY <1>2 DEF Init, Schedule
  <1>4. StacksInv
    <2>1. Running(routines[r])
      BY <1>3 DEF Running
    <2> QED
      BY <1>2, <1>3, <2>1 DEF StacksInv, Waiting
  <1>5. Batch = NoBatch /\ Todo = {} /\ Started = {}
    BY <1>2, <1>3 DEF Batch, BatchOf, NoBatch, Todo, Started
  <1>6. \A c \in Routine : \A n : ~Busy(c, n)
    <2>1. Len(<< >>) = 0
      OBVIOUS
    <2> QED
      BY <1>3, <2>1 DEF Busy, Loops
  <1>7. DOMAIN calls = {} /\ \A n : CallsOf(n) = {}
    <2>1. calls = << >> /\ DOMAIN << >> = {}
      BY DEF Init
    <2> QED
      BY <2>1 DEF CallsOf
  <1>8. \A n \in Node : NodeOK(n)
    <2> SUFFICES ASSUME NEW n \in Node PROVE NodeOK(n)
      OBVIOUS
    <2>1. iterations[n] = 0 /\ branches[n] = {}
      BY DEF Init
    <2>2. NodeGiven(n)
      BY <1>5, <1>6, <1>7, <2>1 DEF NodeGiven, Fresh
    <2>3. LoopBusy(n) /\ CallsApart(n)
      BY <1>6, <1>7, <2>1 DEF LoopBusy, CallsApart
    <2> QED
      BY <2>2, <2>3 DEF NodeOK
  <1>9. LaunchesGiven
    <2> SUFFICES ASSUME NEW f \in Frames PROVE f.at # "launch"
      BY DEF LaunchesGiven
    <2>1. PICK c \in Routine : f \in Elements(routines[c])
      BY DEF Frames
    <2>2. routines[c] = <<Schedule>> \/ routines[c] = << >>
      BY DEF Init
    <2>3. f = Schedule
      BY <1>1, <2>1, <2>2, FewFrames, ScheduleOK
    <2> QED
      BY <1>3, <2>3
  <1>10. ExecutesFresh
    BY <1>2, <1>3 DEF ExecutesFresh
  <1> QED
    BY <1>4, <1>8, <1>9, <1>10 DEF CallInv

\* Every step of a coroutine keeps it.
LEMMA RoutineCalls ==
    ASSUME InlineCalls, BaseInv, MapInv, CallInv, BranchInv, NEW c \in Routine, Step(c)
    PROVE  CallInv'
  <1>1. CASE StopCancelled(c) \/ ScheduleNodes(c) \/ ExecuteNext(c)
    BY <1>1, StopCalls, ScheduleCalls, ExecuteCalls
  <1>2. CASE CallAgent(c) \/ PublishCall(c)
    BY <1>2, AgentCalls, PublishCalls
  <1>3. CASE \/ SkipNode(c) \/ EvaluateSwitch(c)
             \/ CallFails(c) \/ LoadFails(c) \/ OutputFails(c)
    BY <1>3, NeverCalls
  <1>4. CASE EnterLoop(c) \/ StopLoopAtLimit(c) \/ StopLoopOnCondition(c)
    BY <1>4, EnterLoopCalls, LoopEndsCalls
  <1>5. CASE ContinueLoop(c) \/ Iterate(c) \/ IterationLoaded(c)
    BY <1>5, ContinueCalls, IterateCalls, IterationLoadedCalls
  <1>6. CASE StartMap(c) \/ LaunchItem(c) \/ LaunchedAll(c) \/ CheckMap(c) \/ FinalizeMap(c)
    BY <1>6, StartMapCalls, LaunchItemCalls, LaunchedCalls, CheckMapCalls, FinalizeMapCalls
  <1>7. CASE NodeFailed(c) \/ NodeSucceeded(c) \/ OutputLoaded(c)
    BY <1>7, FailedCalls, SucceededCalls, LoadedCalls
  <1>8. CASE IterationSucceeded(c) \/ ItemSucceeded(c)
    BY <1>8, IterationCalls, ItemCalls
  <1>9. CASE RunExitHandler(c) \/ PublishResponse(c) \/ CleanUp(c)
    BY <1>9, ExitCalls, EndCalls
  <1>10. CASE StrayCompleted(c) \/ StrayLoaded(c) \/ BranchGone(c)
    BY <1>10, StrayCalls, GoneCalls
  <1> QED
    BY <1>1, <1>2, <1>3, <1>4, <1>5, <1>6, <1>7, <1>8, <1>9, <1>10 DEF Step

\* Every step of the host, and every step that changes nothing, keeps it.
LEMMA HostStepsCalls ==
    ASSUME InlineCalls, BaseInv, MapInv, CallInv,
           \/ \E k \in Call : ExpireTimer(k) \/ HandleTimeout(k)
           \/ \E k \in Call, reply \in Replies : ReceiveResponse(k, reply)
           \/ \E q \in 1 .. MaxCancels : ReceiveCancel(q)
           \/ UNCHANGED vars
    PROVE  CallInv'
  <1>1. definition \in Definitions
    BY DEF BaseInv, TypeOK
  <1>2. ASSUME NEW k \in Call, ExpireTimer(k)
        PROVE  CallInv'
    BY <1>2, HostCalls DEF ExpireTimer, nodeVars, groupVars, callVars
  <1>3. ASSUME NEW k \in Call, HandleTimeout(k)
        PROVE  CallInv'
    <2>1. PICK f \in Frame : f = [at |-> "complete", call |-> k, ok |-> FALSE]
      BY <1>1, FrameMade
    <2>2. PICK c \in Routine : c = <<"timeout", k>>
      BY DEF Routine
    <2>3. Begin(c, f) \/ UNCHANGED loopVars
      BY <1>3, <2>1, <2>2 DEF HandleTimeout
    <2>4. f.at = "complete"
      BY <2>1
    <2>5. UNCHANGED <<completed, pending, calls, answered, iterations, branches, mapState>>
      BY <1>3 DEF HandleTimeout, nodeVars, groupVars, callVars
    <2> QED
      BY <2>3, <2>4, <2>5, HostCalls
  <1>4. ASSUME NEW k \in Call, NEW reply \in Replies, ReceiveResponse(k, reply)
        PROVE  CallInv'
    <2>1. PICK ok \in BOOLEAN : ok = (reply = "success")
      OBVIOUS
    <2>2. PICK f \in Frame : f = [at |-> "complete", call |-> k, ok |-> ok]
      BY <1>1, FrameMade
    <2>3. PICK c \in Routine : c = <<"response", k>>
      BY DEF Routine
    <2>4. Begin(c, f) \/ UNCHANGED loopVars
      BY <1>4, <2>1, <2>2, <2>3 DEF ReceiveResponse
    <2>5. f.at = "complete"
      BY <2>2
    <2>6. UNCHANGED <<completed, pending, calls, answered, iterations, branches, mapState>>
      BY <1>4 DEF ReceiveResponse, nodeVars, groupVars, callVars
    <2> QED
      BY <2>4, <2>5, <2>6, HostCalls
  <1>5. ASSUME NEW q \in 1 .. MaxCancels, ReceiveCancel(q)
        PROVE  CallInv'
    <2>1. PICK f \in Frame : f = Finalize("cancelled") /\ f.at = "finalize" /\ f.handlers = << >>
      BY <1>1, FinalFrame DEF Outcome
    <2>2. PICK c \in Routine : c = <<"cancel", q>>
      BY DEF Routine
    <2>3. Begin(c, f)
      BY <1>5, <2>1, <2>2 DEF ReceiveCancel
    <2>4. UNCHANGED <<completed, pending, calls, answered, iterations, branches, mapState>>
      BY <1>5 DEF ReceiveCancel, nodeVars, groupVars, callVars
    <2> QED
      BY <2>1, <2>3, <2>4, HostCalls
  <1>6. CASE UNCHANGED vars
    BY <1>6, HostCalls DEF vars, nodeVars, groupVars, callVars
  <1> QED
    BY <1>2, <1>3, <1>4, <1>5, <1>6

\* Every step keeps what is true of the branches.
LEMMA HostOpen ==
    ASSUME BaseInv, BranchInv,
           \/ \E k \in Call : ExpireTimer(k) \/ HandleTimeout(k)
           \/ \E k \in Call, reply \in Replies : ReceiveResponse(k, reply)
           \/ \E q \in 1 .. MaxCancels : ReceiveCancel(q)
           \/ UNCHANGED vars
    PROVE  BranchInv'
  <1>1. StackOK /\ definition \in Definitions
    BY StackFromType DEF BaseInv, StackOK
  <1>2. open' = open /\ calls' = calls
    BY DEF ExpireTimer, HandleTimeout, ReceiveResponse, ReceiveCancel, groupVars, callVars, vars
  <1>3. CASE UNCHANGED loopVars
    <2>1. PICK new : new = {}
      OBVIOUS
    <2>2. definition' = definition /\ Frames' \subseteq Frames \cup new
      BY <1>1, <1>3, SameStacks
    <2> QED
      BY <1>2, <2>1, <2>2, OpenStays
  <1>4. ASSUME NEW c \in Routine, NEW f \in Frame, Begin(c, f), f.at \notin AtBranch
        PROVE  BranchInv'
    <2>1. PICK new : new = {f}
      OBVIOUS
    <2>2. definition' = definition /\ Frames' \subseteq Frames \cup new
      BY <1>1, <1>4, <2>1, BeginFrames
    <2>3. \A g \in new : OpenFrame(g)'
      BY <1>4, <2>1 DEF OpenFrame, AtBranch
    <2> QED
      BY <1>2, <2>2, <2>3, OpenStays
  <1>5. ASSUME NEW k \in Call, NEW ok \in BOOLEAN, NEW c \in Routine,
               Begin(c, [at |-> "complete", call |-> k, ok |-> ok])
        PROVE  BranchInv'
    <2>1. PICK f \in Frame : f = [at |-> "complete", call |-> k, ok |-> ok]
      BY <1>1, FrameMade
    <2> QED
      BY <1>4, <1>5, <2>1 DEF AtBranch
  <1>6. ASSUME NEW k \in Call, HandleTimeout(k)
        PROVE  BranchInv'
    <2>1. PICK c \in Routine : c = <<"timeout", k>>
      BY DEF Routine
    <2> QED
      BY <1>3, <1>5, <1>6, <2>1 DEF HandleTimeout
  <1>7. ASSUME NEW k \in Call, NEW reply \in Replies, ReceiveResponse(k, reply)
        PROVE  BranchInv'
    <2>1. PICK c \in Routine : c = <<"response", k>>
      BY DEF Routine
    <2>2. PICK ok \in BOOLEAN : ok = (reply = "success")
      OBVIOUS
    <2> QED
      BY <1>3, <1>5, <1>7, <2>1, <2>2 DEF ReceiveResponse
  <1>8. ASSUME NEW q \in 1 .. MaxCancels, ReceiveCancel(q)
        PROVE  BranchInv'
    <2>1. PICK c \in Routine : c = <<"cancel", q>>
      BY DEF Routine
    <2>2. PICK f \in Frame : f = Finalize("cancelled") /\ f.at = "finalize"
      BY <1>1, FrameMade DEF Outcome
    <2> QED
      BY <1>4, <1>8, <2>1, <2>2 DEF ReceiveCancel, AtBranch
  <1>9. CASE (\E k \in Call : ExpireTimer(k)) \/ UNCHANGED vars
    BY <1>3, <1>9 DEF ExpireTimer, vars
  <1> QED
    BY <1>6, <1>7, <1>8, <1>9

LEMMA RoutineOpen ==
    ASSUME InlineCalls, BaseInv, MapInv, CallInv, BranchInv, NEW c \in Routine, Step(c)
    PROVE  BranchInv'
  <1>1. CASE \/ StopCancelled(c) \/ ScheduleNodes(c)
             \/ EnterLoop(c) \/ StopLoopAtLimit(c) \/ StopLoopOnCondition(c)
             \/ ContinueLoop(c) \/ LaunchedAll(c) \/ CheckMap(c) \/ PublishCall(c)
             \/ NodeFailed(c) \/ NodeSucceeded(c) \/ OutputLoaded(c)
             \/ StrayCompleted(c) \/ StrayLoaded(c) \/ IterationSucceeded(c)
             \/ PublishResponse(c) \/ CleanUp(c)
    BY <1>1, PlainOpen
  <1>2. CASE CallAgent(c) \/ Iterate(c) \/ LaunchItem(c)
    BY <1>2, StartOpen
  <1>3. CASE \/ SkipNode(c) \/ EvaluateSwitch(c)
             \/ CallFails(c) \/ LoadFails(c) \/ OutputFails(c)
    BY <1>3, NeverCalls
  <1>4. CASE ExecuteNext(c) \/ StartMap(c) \/ ItemSucceeded(c) \/ BranchGone(c)
    BY <1>4, ExecuteOpen, MapOpen, GoneOpen
  <1>5. CASE IterationLoaded(c) \/ FinalizeMap(c) \/ RunExitHandler(c)
    BY <1>5, CloseOpen, ExitOpen
  <1> QED
    BY <1>1, <1>2, <1>3, <1>4, <1>5 DEF Step

\* At the start there is nothing to launch.
LEMMA InitOpen == Init => BranchInv
  <1> SUFFICES ASSUME Init, NEW f \in Frames PROVE OpenFrame(f)
    BY DEF BranchInv
  <1>1. PICK c \in Routine : f \in Elements(routines[c])
    BY DEF Frames
  <1>2. routines[c] = <<Schedule>> \/ routines[c] = << >>
    BY DEF Init
  <1>3. f = Schedule
    BY <1>1, <1>2, FewFrames, ScheduleOK, InitBase DEF BaseInv
  <1> QED
    BY <1>3 DEF OpenFrame, Schedule

\* Every step keeps the invariant of the calls.
LEMMA NextCalls ==
    ASSUME InlineCalls, BaseInv, MapInv, CallInv, BranchInv, [Next]_vars
    PROVE  CallInv' /\ BranchInv'
  <1>1. CASE \E c \in Routine : Step(c)
    BY <1>1, RoutineCalls, RoutineOpen
  <1>2. CASE \/ \E k \in Call : ExpireTimer(k) \/ HandleTimeout(k)
             \/ \E k \in Call, reply \in Replies : ReceiveResponse(k, reply)
             \/ \E q \in 1 .. MaxCancels : ReceiveCancel(q)
             \/ UNCHANGED vars
    BY <1>2, HostStepsCalls, HostOpen
  <1> QED
    BY <1>1, <1>2 DEF Next, Runnable, Terminated

\* The invariant of the calls always holds.
LEMMA CallsAlways ==
    ASSUME InlineCalls PROVE Spec => [](BaseInv /\ MapInv /\ CallInv /\ BranchInv)
  <1>1. Init => BaseInv /\ MapInv /\ CallInv /\ BranchInv
    BY InitBase, InitMap, InitCalls, InitOpen
  <1>2. BaseInv /\ MapInv /\ CallInv /\ BranchInv /\ [Next]_vars
          => (BaseInv /\ MapInv /\ CallInv /\ BranchInv)'
    BY NextBase, NextMap, NextCalls
  <1> QED
    BY <1>1, <1>2, PTL DEF Spec

\* Where no await separates the choice of a node from its entry in
\* pending_nodes, no node, no iteration and no item is given to an agent twice:
\* whatever else is scheduled, answered, timed out, raced or cancelled meanwhile.
THEOREM CalledOnceInline == ASSUME InlineCalls PROVE Spec => []CalledOnce
  <1>1. BaseInv /\ MapInv /\ CallInv => CalledOnce
    <2> SUFFICES ASSUME BaseInv, CallInv,
                        NEW j \in DOMAIN calls, NEW k \in DOMAIN calls,
                        calls[j].node = calls[k].node, calls[j].index = calls[k].index
                 PROVE  j = k
      BY DEF CalledOnce
    <2>1. PICK n \in Node : n = calls[j].node
      BY CallFacts DEF BaseInv
    <2>2. CallsApart(n) /\ j \in CallsOf(n) /\ k \in CallsOf(n)
      BY <2>1 DEF CallInv, NodeOK, CallsOf
    <2> QED
      BY <2>2 DEF CallsApart
  <1> QED
    BY <1>1, CallsAlways, PTL

\* There, too, the iterations of a loop are started one after the other, whatever
\* else runs beside the loop: each has its result before the next one is given to
\* an agent.
THEOREM IterationsInline ==
    ASSUME InlineCalls
    PROVE  Spec => [](/\ IterationsInOrder
                      /\ \A n \in Node : Kind[n] = "loop" => IterationsFollow(n))
  <1>1. BaseInv /\ MapInv /\ CallInv
          => \A n \in Node : Kind[n] = "loop" => IterationsFollow(n)
    <2> SUFFICES ASSUME CallInv, NEW n \in Node, Kind[n] = "loop",
                        NEW j \in DOMAIN calls, NEW k \in DOMAIN calls,
                        calls[j].node = n, calls[k].node = n, j < k
                 PROVE  j \in answered /\ calls[j].index < calls[k].index
      BY DEF IterationsFollow
    <2>1. CallsApart(n) /\ j \in CallsOf(n) /\ k \in CallsOf(n)
      BY DEF CallInv, NodeOK, CallsOf
    <2> QED
      BY <2>1 DEF CallsApart
  <1>2. (\A n \in Node : Kind[n] = "loop" => IterationsFollow(n)) => IterationsInOrder
    BY DEF IterationsInOrder
  <1> QED
    BY <1>1, <1>2, CallsAlways, PTL

\* There a map keeps to its concurrency limit, and completes when each of its
\* items has a result.
THEOREM MapsInline == ASSUME InlineCalls PROVE Spec => []MapRunsItems
  BY CalledOnceInline, MapsRunTheirItems, PTL

-----------------------------------------------------------------------------
(* Artifacts that are loaded without an await: the invariant.              *)

\* Only the delay of a loop suspends.
InlineLoads == InlineCalls /\ "load" \notin Awaits

\* Every coroutine but the one that runs waits for the delay of its loop.
Suspended ==
    \A c \in Routine : c # turn /\ routines[c] # << >> => Head(routines[c]).at = "iterate"

\* A node that is done has its output, or the coroutine that runs is about to
\* load it.
Loading(d) ==
    turn # Idle /\ Head(routines[turn]).at = "load" /\ Head(routines[turn]).node = d
OutputsInv == \A d \in Node : completed[d] = "done" => d \in outputs \/ Loading(d)

\* When the workflow is over, what is left are iterations that are about to
\* start; and it is over when, or right after, the response is published.
OverInv ==
    /\ ~active => \A c \in Routine :
         \/ routines[c] = << >>
         \/ Tail(routines[c]) = << >> /\ Head(routines[c]).at \in {"iterate", "publish"}
    /\ responses # << >> =>
         /\ Len(responses) = 1
         /\ ~active \/ (turn # Idle /\ Head(routines[turn]).at = "cleanup")

LoadInv == Suspended /\ OutputsInv /\ CallsSeeOutputs /\ OverInv

\* A step of c that is not suspended, or only by the delay of a loop.
Moved(c) ==
    /\ OthersSame(c) /\ turn' \in {c, Idle} /\ definition' = definition
    /\ turn' = Idle => routines'[c] = << >> \/ Head(routines'[c]).at = "iterate"

\* An await that does not suspend.
LEMMA NoAwait ==
    ASSUME StackOK, NEW c \in Routine, NEW frames, NEW await, await \notin Awaits,
           Become(c, frames, await)
    PROVE  Moved(c)
  <1>1. PICK s : /\ routines' = [routines EXCEPT ![c] = s] /\ definition' = definition
                 /\ turn' = IF s = << >> THEN Idle ELSE c
    BY DEF Become
  <1>2. routines'[c] = s /\ OthersSame(c)
    BY <1>1 DEF StackOK, OthersSame
  <1> QED
    BY <1>1, <1>2, IdleName DEF Moved

\* What the place of the frame on top says of the rest.
LEMMA Ongoing ==
    ASSUME TypeOK, LoadInv, NEW c \in Routine, NEW place, At(c, place)
    PROVE  /\ place \notin {"iterate", "publish"} => active
           /\ place # "cleanup" => (responses # << >> => Len(responses) = 1 /\ ~active)
           /\ place # "load" =>
                /\ \A d \in Node : completed[d] = "done" => d \in outputs
                /\ \A n \in Node : Unread(n) = {}
           /\ \A d \in Node : completed[d] = "done" => d \in outputs \/ d = Top(c).node
  <1>1. routines[c] # << >> /\ Head(routines[c]).at = place /\ turn \in {c, Idle}
    BY DEF At
  <1>2. place \notin {"iterate", "publish"} => active
    BY <1>1 DEF LoadInv, OverInv
  <1>3. place # "cleanup" => (responses # << >> => Len(responses) = 1 /\ ~active)
    BY <1>1 DEF LoadInv, OverInv
  <1>4. \A d \in Node : completed[d] = "done" =>
           d \in outputs \/ (place = "load" /\ d = Top(c).node)
    BY <1>1 DEF LoadInv, OutputsInv, Loading, Top
  <1>5. ASSUME place # "load", NEW n \in Node PROVE Unread(n) = {}
    <2>1. DependsOn \in [Node -> SUBSET Node] /\ Target \in [Node -> SUBSET Node]
      BY DefinitionFacts DEF TypeOK
    <2>2. UNION {DependsOn[m] : m \in {n} \cup Target[n]} \subseteq Node
      BY <2>1
    <2> QED
      BY <1>4, <1>5, <2>2 DEF Unread
  <1> QED
    BY <1>2, <1>3, <1>4, <1>5

\* A step of a coroutine while the workflow is going on.
LEMMA LoadStep ==
    ASSUME TypeOK, LoadInv, NEW c \in Routine,
           NEW place, place \notin {"load", "cleanup", "respond", "iterate", "publish"},
           At(c, place), Moved(c), UNCHANGED <<active, responses>>,
           outputs \subseteq outputs',
           \A d \in Node : completed'[d] = "done" =>
               \/ completed[d] = "done" \/ d \in outputs'
               \/ turn' = c /\ Head(routines'[c]).at = "load" /\ Head(routines'[c]).node = d,
           \A k \in DOMAIN calls' : \/ k \in DOMAIN calls /\ calls'[k] = calls[k]
                                    \/ calls'[k].unread = {}
    PROVE  LoadInv'
  <1>1. /\ active /\ responses = << >> /\ \A d \in Node : completed[d] = "done" => d \in outputs
        /\ turn \in {c, Idle} /\ c # Idle
    BY Ongoing, IdleName DEF At
  <1>2. Suspended'
    <2> SUFFICES ASSUME NEW d \in Routine, d # turn', routines'[d] # << >>
                 PROVE  Head(routines'[d]).at = "iterate"
      BY DEF Suspended
    <2>1. CASE d = c
      BY <2>1 DEF Moved
    <2>2. CASE d # c
      <3>1. d # turn /\ routines'[d] = routines[d]
        BY <1>1, <2>2, IdleName DEF Moved, OthersSame
      <3> QED
        BY <3>1 DEF LoadInv, Suspended
    <2> QED
      BY <2>1, <2>2
  <1>3. OutputsInv'
    BY <1>1, SameDefinition DEF OutputsInv, Loading, Moved
  <1>4. CallsSeeOutputs'
    BY DEF LoadInv, CallsSeeOutputs
  <1>5. OverInv'
    BY <1>1 DEF OverInv
  <1> QED
    BY <1>2, <1>3, <1>4, <1>5 DEF LoadInv

\* The awaits that do not suspend.
LEMMA InlineLoad ==
    ASSUME InlineLoads, definition \in Definitions
    PROVE  /\ InlineCalls /\ "nothing" \notin Awaits /\ "save" \notin Awaits
           /\ "session" \notin Awaits /\ "load" \notin Awaits
  BY Inline DEF InlineLoads

\* The steps that complete nothing and make no call.
LEMMA QuietLoads ==
    ASSUME InlineLoads, BaseInv, LoadInv, NEW c \in Routine,
           \/ StopCancelled(c) \/ ScheduleNodes(c) \/ ExecuteNext(c) \/ EnterLoop(c)
           \/ StartMap(c) \/ LaunchedAll(c) \/ CheckMap(c)
           \/ NodeFailed(c) \/ IterationSucceeded(c) \/ ItemSucceeded(c) \/ IterationLoaded(c)
           \/ StrayCompleted(c) \/ StrayLoaded(c)
    PROVE  LoadInv'
  <1>1. TypeOK /\ StackOK /\ definition \in Definitions
    BY StackFromType DEF BaseInv, TypeOK
  <1>2. /\ "nothing" \notin Awaits /\ "save" \notin Awaits
        /\ "session" \notin Awaits /\ "load" \notin Awaits
    BY <1>1, InlineLoad
  <1>3. Moved(c)
    <2>1. CASE StopCancelled(c) \/ ScheduleNodes(c) \/ EnterLoop(c) \/ StartMap(c)
      BY <1>1, <1>2, <2>1, NoAwait DEF StopCancelled, ScheduleNodes, EnterLoop, StartMap
    <2>2. CASE ExecuteNext(c)
      BY <1>1, <1>2, <2>2, NoAwait DEF ExecuteNext
    <2>3. CASE LaunchedAll(c) \/ CheckMap(c) \/ NodeFailed(c)
      BY <1>1, <1>2, <2>3, NoAwait DEF LaunchedAll, CheckMap, NodeFailed
    <2>4. CASE IterationSucceeded(c) \/ ItemSucceeded(c) \/ IterationLoaded(c)
      BY <1>1, <1>2, <2>4, NoAwait DEF IterationSucceeded, ItemSucceeded, IterationLoaded
    <2>5. CASE StrayCompleted(c) \/ StrayLoaded(c)
      BY <1>1, <1>2, <2>5, NoAwait DEF StrayCompleted, StrayLoaded
    <2> QED
      BY <2>1, <2>2, <2>3, <2>4, <2>5
  <1>4. \E place : place \notin {"load", "cleanup", "respond", "iterate", "publish"} /\ At(c, place)
    BY DEF StopCancelled, ScheduleNodes, ExecuteNext, EnterLoop, StartMap, LaunchedAll, CheckMap,
           NodeFailed, IterationSucceeded, ItemSucceeded, IterationLoaded, StrayCompleted, StrayLoaded, Runs
  <1>5. UNCHANGED <<active, responses, completed, calls>> /\ outputs \subseteq outputs'
    BY DEF StopCancelled, ScheduleNodes, ExecuteNext, EnterLoop, StartMap, LaunchedAll, CheckMap,
           NodeFailed, IterationSucceeded, ItemSucceeded, IterationLoaded, StrayCompleted, StrayLoaded,
           nodeVars, callVars, hostVars
  <1> QED
    BY <1>1, <1>3, <1>4, <1>5, LoadStep

\* A frame takes the place of the one on top.
LEMMA OnTop ==
    ASSUME StackOK, NEW c \in Routine, routines[c] # << >>,
           NEW f \in Frame, NEW await, Become(c, <<f>>, await),
           await \in Awaits => f.at = "iterate"
    PROVE  /\ Moved(c) /\ routines'[c] # << >> /\ Head(routines'[c]) = f
           /\ await \notin Awaits => turn' = c
  <1>1. PICK t \in Seq(Frame) : t = Tail(routines[c])
    <2>1. routines[c] \in Seq(Frame)
      BY DEF StackOK
    <2>2. Tail(routines[c]) \in Seq(Frame)
      BY <2>1, HeadTailProperties, EmptySeq
    <2> QED
      BY <2>2
  <1>2. PICK stack : stack = <<f>> \o t
    OBVIOUS
  <1>3. stack # << >> /\ Head(stack) = f
    BY <1>1, <1>2
  <1>4. /\ routines' = [routines EXCEPT ![c] = stack] /\ definition' = definition
        /\ turn' = IF await \in Awaits THEN Idle ELSE c
    BY <1>1, <1>2, <1>3 DEF Become
  <1>5. routines'[c] = stack /\ OthersSame(c)
    BY <1>4 DEF StackOK, OthersSame
  <1> QED
    BY <1>3, <1>4, <1>5, IdleName DEF Moved

\* A loop or a map ends: its output is stored when it completes.
LEMMA CompleteLoads ==
    ASSUME InlineLoads, BaseInv, LoadInv, NEW c \in Routine,
           StopLoopAtLimit(c) \/ StopLoopOnCondition(c) \/ FinalizeMap(c)
    PROVE  LoadInv'
  <1>1. TypeOK /\ StackOK /\ definition \in Definitions
    BY StackFromType DEF BaseInv, TypeOK
  <1>2. PICK place \in {"loop", "aggregate"} : At(c, place)
    BY DEF StopLoopAtLimit, StopLoopOnCondition, FinalizeMap, Runs
  <1>3. /\ completed' = [completed EXCEPT ![Top(c).node] = "done"]
        /\ outputs' = outputs \cup {Top(c).node}
        /\ Become(c, <<Schedule>>, "nothing")
        /\ UNCHANGED <<active, responses, calls>>
    BY DEF StopLoopAtLimit, StopLoopOnCondition, LoopEnds, FinalizeMap, callVars, hostVars
  <1>4. Moved(c)
    BY <1>1, <1>3, InlineLoad, NoAwait
  <1>5. \A d \in Node : completed'[d] = "done" => completed[d] = "done" \/ d \in outputs'
    BY <1>1, <1>3 DEF TypeOK
  <1> QED
    BY <1>1, <1>2, <1>3, <1>4, <1>5, LoadStep

\* A node of the DAG succeeded: its output is loaded next.
LEMMA SucceededLoads ==
    ASSUME InlineLoads, BaseInv, LoadInv, NEW c \in Routine, NodeSucceeded(c) PROVE LoadInv'
  <1>1. /\ At(c, "complete") /\ TypeOK /\ StackOK /\ definition \in Definitions
        /\ routines[c] # << >>
    BY StackFromType DEF NodeSucceeded, Runs, At, BaseInv, TypeOK
  <1>2. PICK n \in Node : n = calls[Top(c).call].node
    BY <1>1, TopComplete DEF CallRecord
  <1>3. PICK f \in Frame : f = [at |-> "load", node |-> n]
    BY <1>1, FrameMade DEF NodeFrames
  <1>4. /\ completed' = [completed EXCEPT ![n] = "done"] /\ Become(c, <<f>>, "load")
        /\ UNCHANGED <<active, responses, calls, outputs>>
    BY <1>2, <1>3 DEF NodeSucceeded, callVars, hostVars
  <1>5. Moved(c) /\ turn' = c /\ Head(routines'[c]) = f
    BY <1>1, <1>4, InlineLoad, OnTop
  <1>6. \A d \in Node : completed'[d] = "done" =>
           \/ completed[d] = "done" \/ d \in outputs'
           \/ turn' = c /\ Head(routines'[c]).at = "load" /\ Head(routines'[c]).node = d
    BY <1>1, <1>3, <1>4, <1>5 DEF TypeOK
  <1> QED
    BY <1>1, <1>4, <1>5, <1>6, LoadStep

\* The response is prepared.
LEMMA ExitLoads ==
    ASSUME InlineLoads, BaseInv, CallInv, LoadInv, NEW c \in Routine, RunExitHandler(c)
    PROVE  LoadInv'
  <1>1. /\ At(c, "finalize") /\ TypeOK /\ StackOK /\ StacksInv /\ definition \in Definitions
    BY StackFromType DEF RunExitHandler, BaseInv, CallInv, TypeOK
  <1>2. Top(c).handlers = << >>
    BY <1>1, StackAt
  <1>3. PICK o, await : o = Top(c).outcome
                        /\ await = IF o = "cancelled" THEN "nothing" ELSE "save"
    OBVIOUS
  <1>4. /\ Become(c, <<[at |-> "respond", outcome |-> o]>>, await)
        /\ UNCHANGED <<active, responses, completed, outputs, calls>>
    BY <1>2, <1>3 DEF RunExitHandler, nodeVars, callVars, hostVars
  <1>5. Moved(c)
    BY <1>1, <1>3, <1>4, InlineLoad, NoAwait
  <1> QED
    BY <1>1, <1>4, <1>5, LoadStep

\* A loop goes on, perhaps after a delay.
LEMMA ContinueLoads ==
    ASSUME InlineLoads, BaseInv, LoadInv, NEW c \in Routine, ContinueLoop(c) PROVE LoadInv'
  <1>1. /\ At(c, "loop") /\ TypeOK /\ StackOK /\ definition \in Definitions /\ routines[c] # << >>
        /\ "loop" \in NodeFrames
    BY StackFromType DEF ContinueLoop, Runs, At, BaseInv, TypeOK, NodeFrames
  <1>2. PICK n \in Node : n = Top(c).node
    BY <1>1, TopNode
  <1>3. iterations[n] \in 0 .. (MaxIterations - 1)
    <2>1. iterations[n] \in 0 .. MaxIterations /\ MaxIterations \in Nat
      BY <1>1, DefinitionFacts DEF TypeOK
    <2>2. iterations[n] < MaxIterations
      BY <1>2 DEF ContinueLoop
    <2> QED
      BY <2>1, <2>2
  <1>4. PICK f \in Frame : f = [at |-> "iterate", node |-> n, index |-> iterations[n]]
    BY <1>1, <1>3, FrameMade
  <1>5. PICK await : await = IF iterations[n] > 0 THEN "sleep" ELSE "nothing"
    OBVIOUS
  <1>6. /\ Become(c, <<f>>, await)
        /\ UNCHANGED <<active, responses, completed, outputs, calls>>
    BY <1>2, <1>4, <1>5 DEF ContinueLoop, nodeVars, callVars, hostVars
  <1>7. Moved(c)
    BY <1>1, <1>4, <1>6, OnTop
  <1> QED
    BY <1>1, <1>6, <1>7, LoadStep

\* The input of a call is resolved when every output is loaded.
LEMMA CallLoads ==
    ASSUME InlineLoads, BaseInv, LoadInv, NEW c \in Routine, CallAgent(c) \/ LaunchItem(c)
    PROVE  LoadInv'
  <1>1. TypeOK /\ StackOK /\ definition \in Definitions
    BY StackFromType DEF BaseInv, TypeOK
  <1>2. PICK place \in {"execute", "launch"} : At(c, place)
    BY DEF CallAgent, LaunchItem, Runs
  <1>3. PICK n \in Node, index \in Nat : \E rest : StartCall(c, n, index, rest)
    <2>1. PICK m \in Node : m = Top(c).node
      BY <1>1, <1>2, TopNode DEF NodeFrames
    <2>2. CASE CallAgent(c)
      BY <2>1, <2>2 DEF CallAgent
    <2>3. CASE LaunchItem(c)
      <3>1. StartCall(c, m, mapState[m].next, <<Top(c)>>)
        BY <2>1, <2>3 DEF LaunchItem
      <3>2. mapState[m].next \in Nat
        BY <1>1, CallFacts
      <3> QED
        BY <3>1, <3>2
    <2> QED
      BY <2>2, <2>3
  <1>4. PICK rest : StartCall(c, n, index, rest)
    BY <1>3
  <1>5. UNCHANGED <<active, responses, completed, outputs>>
    BY DEF CallAgent, LaunchItem, nodeVars, hostVars
  <1>6. Moved(c)
    BY <1>1, <1>4, InlineLoad, NoAwait DEF StartCall
  <1>7. \A k \in DOMAIN calls' : \/ k \in DOMAIN calls /\ calls'[k] = calls[k]
                                 \/ calls'[k].unread = {}
    <2>1. Unread(n) = {}
      BY <1>1, <1>2, Ongoing
    <2> QED
      BY <1>1, <1>4, <2>1, NewCall
  <1> QED
    BY <1>1, <1>2, <1>5, <1>6, <1>7, LoadStep

-----------------------------------------------------------------------------
(* Artifacts that are loaded without an await: the end of the workflow.    *)

\* What is suspended after a step was so before.
LEMMA StillSuspended == ASSUME LoadInv, NEW c \in Routine, turn \in {c, Idle}, Moved(c)
                        PROVE  Suspended'
  <1> SUFFICES ASSUME NEW d \in Routine, d # turn', routines'[d] # << >>
               PROVE  Head(routines'[d]).at = "iterate"
    BY DEF Suspended
  <1>1. CASE d = c
    BY <1>1 DEF Moved
  <1>2. CASE d # c
    <2>1. d # turn /\ routines'[d] = routines[d]
      BY <1>2, IdleName DEF Moved, OthersSame
    <2> QED
      BY <2>1 DEF LoadInv, Suspended
  <1> QED
    BY <1>1, <1>2

\* An output is loaded.
LEMMA LoadedLoads ==
    ASSUME InlineLoads, BaseInv, LoadInv, NEW c \in Routine, OutputLoaded(c) PROVE LoadInv'
  <1>1. At(c, "load") /\ TypeOK /\ StackOK /\ definition \in Definitions /\ turn \in {c, Idle}
    BY StackFromType DEF OutputLoaded, BaseInv, TypeOK, At
  <1>2. /\ outputs' = outputs \cup {Top(c).node} /\ Become(c, <<Schedule>>, "nothing")
        /\ UNCHANGED <<active, responses, completed, calls>>
    BY DEF OutputLoaded, callVars, hostVars
  <1>3. Moved(c)
    BY <1>1, <1>2, InlineLoad, NoAwait
  <1>4. OutputsInv'
    <2>1. \A d \in Node : completed'[d] = "done" => d \in outputs'
      BY <1>1, <1>2, Ongoing
    <2> QED
      BY <1>3, <2>1, SameDefinition DEF OutputsInv, Moved
  <1>5. OverInv'
    <2>1. active /\ (responses # << >> => ~active)
      BY <1>1, Ongoing
    <2> QED
      BY <1>2, <2>1 DEF OverInv
  <1>6. CallsSeeOutputs'
    BY <1>2 DEF LoadInv, CallsSeeOutputs
  <1> QED
    BY <1>1, <1>3, <1>4, <1>5, <1>6, StillSuspended DEF LoadInv

\* The response is published: it is the first.
LEMMA ResponseLoads ==
    ASSUME InlineLoads, BaseInv, LoadInv, NEW c \in Routine, PublishResponse(c) PROVE LoadInv'
  <1>1. /\ At(c, "respond") /\ TypeOK /\ StackOK /\ definition \in Definitions /\ turn \in {c, Idle}
        /\ routines[c] # << >>
    BY StackFromType DEF PublishResponse, BaseInv, TypeOK, At
  <1>2. PICK f \in Frame : f = [at |-> "cleanup"]
    BY <1>1, FrameMade
  <1>3. /\ responses' = Append(responses, Top(c).outcome) /\ Become(c, <<f>>, "session")
        /\ UNCHANGED <<active, completed, outputs, calls>>
    BY <1>2 DEF PublishResponse, nodeVars, callVars
  <1>4. Moved(c) /\ turn' = c /\ turn' # Idle /\ Head(routines'[c]) = f
    BY <1>1, <1>3, InlineLoad, OnTop, IdleName
  <1>5. active /\ responses = << >> /\ \A d \in Node : completed[d] = "done" => d \in outputs
    BY <1>1, Ongoing
  <1>6. OutputsInv'
    BY <1>3, <1>4, <1>5, SameDefinition DEF OutputsInv, Moved
  <1>7. OverInv'
    <2>1. Len(responses') = 1
      BY <1>3, <1>5
    <2> QED
      BY <1>2, <1>3, <1>4, <1>5, <2>1 DEF OverInv
  <1>8. CallsSeeOutputs'
    BY <1>3 DEF LoadInv, CallsSeeOutputs
  <1> QED
    BY <1>1, <1>4, <1>6, <1>7, <1>8, StillSuspended DEF LoadInv

\* The workflow leaves: nothing but delayed iterations is left of it.
LEMMA CleanUpLoads ==
    ASSUME InlineLoads, BaseInv, CallInv, LoadInv, NEW c \in Routine, CleanUp(c) PROVE LoadInv'
  <1>1. /\ At(c, "cleanup") /\ TypeOK /\ StackOK /\ StacksInv /\ definition \in Definitions
        /\ turn \in {c, Idle} /\ routines[c] # << >>
    BY StackFromType DEF CleanUp, BaseInv, CallInv, TypeOK, At
  <1>2. /\ Become(c, << >>, "nothing") /\ active' = FALSE
        /\ UNCHANGED <<responses, completed, outputs, calls>>
    BY DEF CleanUp, nodeVars, callVars
  <1>3. Moved(c)
    BY <1>1, <1>2, InlineLoad, NoAwait
  <1>4. \A d \in Node : completed[d] = "done" => d \in outputs
    BY <1>1, Ongoing
  <1>5. OutputsInv'
    BY <1>2, <1>3, <1>4, SameDefinition DEF OutputsInv, Moved
  <1>6. OverInv'
    <2>1. routines'[c] = << >>
      <3>1. PICK t \in Seq(Frame) : t = Tail(routines[c])
        <4>1. routines[c] \in Seq(Frame)
          BY <1>1 DEF StackOK
        <4>2. Tail(routines[c]) \in Seq(Frame)
          BY <1>1, <4>1, HeadTailProperties, EmptySeq
        <4> QED
          BY <4>2
      <3>2. Len(t) = 0
        BY <1>1, <3>1, Alone DEF InBatch
      <3>3. t = << >>
        BY <3>2, EmptySeq
      <3>4. << >> \o t = << >>
        BY <3>3
      <3> QED
        BY <1>1, <1>2, <3>1, <3>4 DEF Become, StackOK
    <2>2. ASSUME NEW d \in Routine, d # c, routines[d] # << >>
          PROVE  Tail(routines'[d]) = << >> /\ Head(routines'[d]).at = "iterate"
      <3>1. d # turn /\ routines'[d] = routines[d]
        BY <1>1, <1>3, <2>2, IdleName DEF Moved, OthersSame
      <3>2. Head(routines[d]).at = "iterate" /\ Len(routines[d]) = 1
        BY <1>1, <2>2, <3>1 DEF LoadInv, Suspended, StacksInv, Waiting
      <3>3. routines[d] \in Seq(Frame)
        BY <1>1 DEF StackOK
      <3>4. PICK t \in Seq(Frame) : t = Tail(routines[d]) /\ Len(t) = Len(routines[d]) - 1
        BY <2>2, <3>3, HeadTailProperties
      <3>5. Len(t) = 0
        BY <3>2, <3>4
      <3> QED
        BY <3>1, <3>2, <3>4, <3>5, EmptySeq
    <2>3. \A d \in Routine : \/ routines'[d] = << >>
                             \/ /\ Tail(routines'[d]) = << >>
                                /\ Head(routines'[d]).at \in {"iterate", "publish"}
      BY <1>3, <2>1, <2>2 DEF Moved, OthersSame
    <2>4. responses' # << >> => Len(responses') = 1
      BY <1>2 DEF LoadInv, OverInv
    <2> QED
      BY <1>2, <2>3, <2>4 DEF OverInv
  <1>7. CallsSeeOutputs'
    BY <1>2 DEF LoadInv, CallsSeeOutputs
  <1> QED
    BY <1>1, <1>3, <1>5, <1>6, <1>7, StillSuspended DEF LoadInv

\* A frame takes the place of the only one.
LEMMA OnlyFrame ==
    ASSUME StackOK, NEW c \in Routine, Tail(routines[c]) = << >>,
           NEW frames \in Seq(Frame), NEW await, Become(c, frames, await)
    PROVE  /\ Len(frames) = 0 => routines'[c] = << >>
           /\ Len(frames) = 1 => Tail(routines'[c]) = << >> /\ Head(routines'[c]) = frames[1]
  <1>1. PICK t \in Seq(Frame) : t = Tail(routines[c]) /\ Len(t) = 0
    <2>1. << >> \in Seq(Frame) /\ Len(<< >>) = 0
      BY EmptySeq
    <2> QED
      BY <2>1
  <1>2. PICK stack : stack = frames \o t
    OBVIOUS
  <1>3. /\ stack \in Seq(Frame) /\ Len(stack) = Len(frames) + Len(t)
        /\ \A i \in 1 .. Len(frames) + Len(t) :
             stack[i] = IF i <= Len(frames) THEN frames[i] ELSE t[i - Len(frames)]
    BY <1>1, <1>2, ConcatProperties
  <1>4. routines'[c] = stack
    BY <1>1, <1>2 DEF Become, StackOK
  <1>5. ASSUME Len(frames) = 0 PROVE stack = << >>
    BY <1>1, <1>3, <1>5, EmptySeq
  <1>6. ASSUME Len(frames) = 1 PROVE Tail(stack) = << >> /\ Head(stack) = frames[1]
    <2>1. Len(stack) = 1 /\ stack[1] = frames[1] /\ stack # << >>
      BY <1>1, <1>3, <1>6, EmptySeq
    <2>2. PICK u \in Seq(Frame) : u = Tail(stack) /\ Len(u) = Len(stack) - 1
      BY <1>3, <2>1, HeadTailProperties
    <2>3. Len(u) = 0
      BY <2>1, <2>2
    <2>4. Head(stack) = stack[1]
      BY <1>3, <2>1, HeadTailProperties
    <2> QED
      BY <2>1, <2>2, <2>3, <2>4, EmptySeq
  <1> QED
    BY <1>4, <1>5, <1>6

\* A step of a coroutine that may be what is left of a workflow that is over.
LEMMA LeftOver ==
    ASSUME TypeOK, LoadInv, NEW c \in Routine,
           NEW place \in {"iterate", "publish"}, At(c, place), Moved(c),
           ~active => \/ routines'[c] = << >>
                      \/ Tail(routines'[c]) = << >> /\ Head(routines'[c]).at = "publish",
           UNCHANGED <<active, responses, completed, outputs>>,
           \A k \in DOMAIN calls' : \/ k \in DOMAIN calls /\ calls'[k] = calls[k]
                                    \/ calls'[k].unread = {}
    PROVE  LoadInv'
  <1>1. /\ turn \in {c, Idle} /\ (responses # << >> => Len(responses) = 1 /\ ~active)
        /\ \A d \in Node : completed[d] = "done" => d \in outputs
    BY Ongoing DEF At
  <1>2. OutputsInv'
    BY <1>1, SameDefinition DEF OutputsInv, Moved
  <1>3. CallsSeeOutputs'
    BY DEF LoadInv, CallsSeeOutputs
  <1>4. OverInv'
    <2>1. ASSUME ~active, NEW d \in Routine
          PROVE  \/ routines'[d] = << >>
                 \/ Tail(routines'[d]) = << >> /\ Head(routines'[d]).at \in {"iterate", "publish"}
      <3>1. CASE d = c
        BY <2>1, <3>1
      <3>2. CASE d # c
        BY <2>1, <3>2 DEF LoadInv, OverInv, Moved, OthersSame
      <3> QED
        BY <3>1, <3>2
    <2> QED
      BY <1>1, <2>1 DEF OverInv
  <1> QED
    BY <1>1, <1>2, <1>3, <1>4, StillSuspended DEF LoadInv

\* An iteration starts, perhaps after the end of the workflow.
LEMMA IterateLoads ==
    ASSUME InlineLoads, BaseInv, LoadInv, NEW c \in Routine, Iterate(c) PROVE LoadInv'
  <1>1. /\ At(c, "iterate") /\ TypeOK /\ StackOK /\ definition \in Definitions
        /\ routines[c] # << >>
    BY StackFromType DEF Iterate, BaseInv, TypeOK, At
  <1>2. PICK n \in Node, i \in Nat : n = Top(c).node /\ i = Top(c).index
    <2>1. Top(c) \in Frame /\ Top(c).at = "iterate"
      BY <1>1, TopFrame
    <2>2. Top(c).node \in Node /\ Top(c).index \in 0 .. (MaxIterations - 1)
      BY <2>1, FrameFields
    <2> QED
      BY <2>2
  <1>3. PICK rest \in Seq(Frame) : rest = << >> /\ Len(rest) = 0
    BY FewFrames
  <1>4. StartCall(c, n, i, rest) /\ UNCHANGED <<active, responses, completed, outputs>>
    BY <1>2, <1>3 DEF Iterate, nodeVars, hostVars
  <1>5. /\ Len(calls) + 1 \in Call /\ calls'[Len(calls) + 1].unread = Unread(n)
        /\ DOMAIN calls' = DOMAIN calls \cup {Len(calls) + 1}
        /\ \A k \in DOMAIN calls : calls'[k] = calls[k]
    BY <1>1, <1>4, NewCall
  <1>6. PICK f \in Frame : f = [at |-> "publish", call |-> Len(calls) + 1] /\ f.at = "publish"
    BY <1>1, <1>5, FrameMade
  <1>7. PICK frames \in Seq(Frame) : frames = <<f>> \o rest /\ Len(frames) = 1 + Len(rest)
                                     /\ frames[1] = f
    BY CallFrames
  <1>8. Become(c, frames, "save") /\ Len(frames) = 1
    BY <1>3, <1>4, <1>6, <1>7 DEF StartCall
  <1>9. Moved(c)
    BY <1>1, <1>8, InlineLoad, NoAwait
  <1>10. ~active => Tail(routines'[c]) = << >> /\ Head(routines'[c]).at = "publish"
    <2>1. ~active => Tail(routines[c]) = << >>
      BY <1>1 DEF LoadInv, OverInv
    <2> QED
      BY <1>1, <1>6, <1>7, <1>8, <2>1, OnlyFrame
  <1>11. Unread(n) = {}
    BY <1>1, Ongoing
  <1> QED
    BY <1>1, <1>4, <1>5, <1>9, <1>10, <1>11, LeftOver

\* The request is published, perhaps after the end of the workflow.
LEMMA PublishLoads ==
    ASSUME InlineLoads, BaseInv, LoadInv, NEW c \in Routine, PublishCall(c) PROVE LoadInv'
  <1>1. /\ At(c, "publish") /\ TypeOK /\ StackOK /\ definition \in Definitions
        /\ routines[c] # << >>
    BY StackFromType DEF PublishCall, BaseInv, TypeOK, At
  <1>2. PICK frames \in Seq(Frame) : frames = << >> /\ Len(frames) = 0
    BY FewFrames
  <1>3. Become(c, frames, "nothing") /\ UNCHANGED <<active, responses, completed, outputs, calls>>
    BY <1>2 DEF PublishCall, nodeVars, hostVars
  <1>4. Moved(c)
    BY <1>1, <1>3, InlineLoad, NoAwait
  <1>5. ~active => routines'[c] = << >>
    <2>1. ~active => Tail(routines[c]) = << >>
      BY <1>1 DEF LoadInv, OverInv
    <2> QED
      BY <1>1, <1>2, <1>3, <2>1, OnlyFrame
  <1> QED
    BY <1>1, <1>3, <1>4, <1>5, LeftOver

-----------------------------------------------------------------------------
(* Artifacts that are loaded without an await: the invariant holds.        *)

\* A step of the host begins a coroutine while the workflow goes on, or leaves
\* them all alone.
LEMMA HostLoads ==
    ASSUME BaseInv, LoadInv,
           UNCHANGED <<active, responses, completed, outputs, calls>>,
           \/ UNCHANGED loopVars
           \/ active /\ \E c \in Routine, f \in Frame : f.at \in {"complete", "finalize"} /\ Begin(c, f)
    PROVE  LoadInv'
  <1>1. StackOK /\ TypeOK
    BY StackFromType DEF BaseInv
  <1>2. CASE UNCHANGED loopVars
    <2>1. routines' = routines /\ turn' = turn /\ definition' = definition
      BY <1>2 DEF loopVars
    <2>2. Suspended' /\ OutputsInv' /\ CallsSeeOutputs' /\ OverInv'
      BY <2>1, SameDefinition
         DEF LoadInv, Suspended, OutputsInv, Loading, CallsSeeOutputs, OverInv
    <2> QED
      BY <2>2 DEF LoadInv
  <1>3. ASSUME active, NEW c \in Routine, NEW f \in Frame, Begin(c, f)
        PROVE  LoadInv'
    <2>1. /\ turn = Idle /\ turn' = c /\ routines' = [routines EXCEPT ![c] = <<f>>]
          /\ definition' = definition
      BY <1>3 DEF Begin
    <2>2. Moved(c) /\ turn \in {c, Idle}
      BY <1>1, <2>1, IdleName DEF Moved, OthersSame, StackOK
    <2>3. OutputsInv'
      <3>1. \A d \in Node : completed[d] = "done" => d \in outputs
        BY <2>1 DEF LoadInv, OutputsInv, Loading
      <3> QED
        BY <2>1, <3>1, SameDefinition DEF OutputsInv
    <2>4. OverInv'
      BY <1>3, <2>1 DEF LoadInv, OverInv
    <2>5. CallsSeeOutputs'
      BY DEF LoadInv, CallsSeeOutputs
    <2> QED
      BY <2>2, <2>3, <2>4, <2>5, StillSuspended DEF LoadInv
  <1> QED
    BY <1>2, <1>3

\* The workflow starts with nothing done and nothing answered.
LEMMA InitLoads == Init => LoadInv
  <1> SUFFICES ASSUME Init PROVE LoadInv
    OBVIOUS
  <1>1. /\ active /\ responses = << >> /\ calls = << >>
        /\ \A d \in Node : completed[d] = "no"
        /\ turn = <<"request", 0>> /\ \A c \in Routine : c # turn => routines[c] = << >>
    BY DEF Init
  <1>2. Suspended /\ OutputsInv /\ OverInv
    BY <1>1 DEF Suspended, OutputsInv, OverInv
  <1>3. CallsSeeOutputs
    BY <1>1 DEF CallsSeeOutputs
  <1> QED
    BY <1>2, <1>3 DEF LoadInv

\* The branch that is closed is open: it was when the load began, and nothing
\* else has run since.
LEMMA NeverGone ==
    ASSUME InlineLoads, BaseInv, MapInv, CallInv, BranchInv, NEW c \in Routine, BranchGone(c)
    PROVE  FALSE
  <1>1. PICK place \in {"looped", "aggregate"} : At(c, place) /\ Top(c).at = place
    BY GoneAlone DEF InlineLoads
  <1>2. Top(c) \in Frames
    BY <1>1, TopFrame, StackFromType DEF BaseInv
  <1>3. Top(c).node \in open
    BY <1>1, <1>2 DEF BranchInv, OpenFrame, InlineLoads
  <1> QED
    BY <1>1, <1>3 DEF BranchGone

\* Every step of a coroutine keeps it.
LEMMA RoutineLoads ==
    ASSUME InlineLoads, BaseInv, MapInv, CallInv, BranchInv, LoadInv, NEW c \in Routine, Step(c)
    PROVE  LoadInv'
  <1>1. InlineCalls
    BY DEF InlineLoads
  <1>2. CASE \/ StopCancelled(c) \/ ScheduleNodes(c) \/ ExecuteNext(c) \/ EnterLoop(c)
             \/ StartMap(c) \/ LaunchedAll(c) \/ CheckMap(c)
             \/ NodeFailed(c) \/ IterationSucceeded(c) \/ ItemSucceeded(c) \/ IterationLoaded(c)
             \/ StrayCompleted(c) \/ StrayLoaded(c)
    BY <1>2, QuietLoads
  <1>3. CASE CallAgent(c) \/ LaunchItem(c) \/ PublishCall(c) \/ Iterate(c)
    BY <1>3, CallLoads, PublishLoads, IterateLoads
  <1>4. CASE \/ SkipNode(c) \/ EvaluateSwitch(c)
             \/ CallFails(c) \/ LoadFails(c) \/ OutputFails(c)
    BY <1>1, <1>4, NeverCalls
  <1>5. CASE \/ StopLoopAtLimit(c) \/ StopLoopOnCondition(c) \/ FinalizeMap(c)
             \/ NodeSucceeded(c) \/ OutputLoaded(c) \/ ContinueLoop(c)
    BY <1>5, CompleteLoads, SucceededLoads, LoadedLoads, ContinueLoads
  <1>6. CASE RunExitHandler(c) \/ PublishResponse(c) \/ CleanUp(c)
    BY <1>6, ExitLoads, ResponseLoads, CleanUpLoads
  <1>7. ~BranchGone(c)
    BY NeverGone
  <1> QED
    BY <1>2, <1>3, <1>4, <1>5, <1>6, <1>7 DEF Step

\* Every step of the host, and every step that changes nothing, keeps it.
LEMMA HostStepsLoads ==
    ASSUME BaseInv, LoadInv,
           \/ \E k \in Call : ExpireTimer(k) \/ HandleTimeout(k)
           \/ \E k \in Call, reply \in Replies : ReceiveResponse(k, reply)
           \/ \E q \in 1 .. MaxCancels : ReceiveCancel(q)
           \/ UNCHANGED vars
    PROVE  LoadInv'
  <1>1. definition \in Definitions
    BY DEF BaseInv, TypeOK
  <1>2. ASSUME NEW k \in Call, ExpireTimer(k)
        PROVE  LoadInv'
    BY <1>2, HostLoads DEF ExpireTimer, nodeVars, callVars, hostVars
  <1>3. ASSUME NEW k \in Call, HandleTimeout(k)
        PROVE  LoadInv'
    <2>1. PICK f \in Frame : f = [at |-> "complete", call |-> k, ok |-> FALSE]
      BY <1>1, FrameMade
    <2>2. PICK c \in Routine : c = <<"timeout", k>>
      BY DEF Routine
    <2>3. (active /\ Begin(c, f)) \/ UNCHANGED loopVars
      BY <1>3, <2>1, <2>2 DEF HandleTimeout
    <2>4. f.at = "complete"
      BY <2>1
    <2>5. UNCHANGED <<active, responses, completed, outputs, calls>>
      BY <1>3 DEF HandleTimeout, nodeVars, callVars, hostVars
    <2> QED
      BY <2>3, <2>4, <2>5, HostLoads
  <1>4. ASSUME NEW k \in Call, NEW reply \in Replies, ReceiveResponse(k, reply)
        PROVE  LoadInv'
    <2>1. PICK ok \in BOOLEAN : ok = (reply = "success")
      OBVIOUS
    <2>2. PICK f \in Frame : f = [at |-> "complete", call |-> k, ok |-> ok]
      BY <1>1, FrameMade
    <2>3. PICK c \in Routine : c = <<"response", k>>
      BY DEF Routine
    <2>4. (active /\ Begin(c, f)) \/ UNCHANGED loopVars
      BY <1>4, <2>1, <2>2, <2>3 DEF ReceiveResponse
    <2>5. f.at = "complete"
      BY <2>2
    <2>6. UNCHANGED <<active, responses, completed, outputs, calls>>
      BY <1>4 DEF ReceiveResponse, nodeVars, callVars, hostVars
    <2> QED
      BY <2>4, <2>5, <2>6, HostLoads
  <1>5. ASSUME NEW q \in 1 .. MaxCancels, ReceiveCancel(q)
        PROVE  LoadInv'
    <2>1. PICK f \in Frame : f = Finalize("cancelled") /\ f.at = "finalize"
      BY <1>1, FrameMade DEF Outcome
    <2>2. PICK c \in Routine : c = <<"cancel", q>>
      BY DEF Routine
    <2>3. active /\ Begin(c, f)
      BY <1>5, <2>1, <2>2 DEF ReceiveCancel
    <2>4. UNCHANGED <<active, responses, completed, outputs, calls>>
      BY <1>5 DEF ReceiveCancel, nodeVars, callVars
    <2> QED
      BY <2>1, <2>3, <2>4, HostLoads
  <1>6. CASE UNCHANGED vars
    BY <1>6, HostLoads DEF vars, nodeVars, callVars, hostVars
  <1> QED
    BY <1>2, <1>3, <1>4, <1>5, <1>6

\* Every step keeps the invariant of the outputs.
LEMMA NextLoads ==
    ASSUME InlineLoads, BaseInv, MapInv, CallInv, BranchInv, LoadInv, [Next]_vars
    PROVE  LoadInv'
  <1>1. CASE \E c \in Routine : Step(c)
    BY <1>1, RoutineLoads
  <1>2. CASE \/ \E k \in Call : ExpireTimer(k) \/ HandleTimeout(k)
             \/ \E k \in Call, reply \in Replies : ReceiveResponse(k, reply)
             \/ \E q \in 1 .. MaxCancels : ReceiveCancel(q)
             \/ UNCHANGED vars
    BY <1>2, HostStepsLoads
  <1> QED
    BY <1>1, <1>2 DEF Next, Runnable, Terminated

\* The invariant of the outputs always holds.
LEMMA LoadsAlways == ASSUME InlineLoads PROVE Spec => [](CallInv /\ LoadInv)
  <1>1. InlineCalls
    BY DEF InlineLoads
  <1>2. Init => LoadInv
    BY InitLoads
  <1>3. BaseInv /\ MapInv /\ CallInv /\ BranchInv /\ LoadInv /\ [Next]_vars => LoadInv'
    BY NextLoads
  <1>4. Spec => [](BaseInv /\ MapInv /\ CallInv /\ BranchInv)
    BY <1>1, CallsAlways
  <1> QED
    BY <1>2, <1>3, <1>4, PTL DEF Spec

\* Where the artifacts are loaded without an await as well, every call is made
\* when the outputs of all the nodes it depends on are there for its templates:
\* a node is scheduled as soon as its dependencies are in completed_nodes, and
\* node_outputs follows before anything else runs.
THEOREM OutputsInline == ASSUME InlineLoads PROVE Spec => []CallsSeeOutputs
  <1>1. CallInv /\ LoadInv => CallsSeeOutputs
    BY DEF LoadInv
  <1> QED
    BY <1>1, LoadsAlways, PTL

\* There the workflow publishes one final response at most: whatever answers,
\* expires or is cancelled, whoever finalizes it leaves nothing that could
\* finalize it again.
THEOREM ResponseInline == ASSUME InlineLoads PROVE Spec => []OneResponse
  <1>1. CallInv /\ LoadInv => OneResponse
    <2> SUFFICES ASSUME LoadInv PROVE Len(responses) <= 1
      BY DEF OneResponse
    <2>1. CASE responses = << >>
      <3>1. Len(responses) = 0
        BY <2>1
      <3> QED
        BY <3>1
    <2>2. CASE responses # << >>
      <3>1. Len(responses) = 1
        BY <2>2 DEF LoadInv, OverInv
      <3> QED
        BY <3>1
    <2> QED
      BY <2>1, <2>2
  <1> QED
    BY <1>1, LoadsAlways, PTL
=============================================================================
