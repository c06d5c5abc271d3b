------------------------ MODULE WorkflowEngineProofs ------------------------
(***************************************************************************)
(* Theorems about WorkflowEngine, for every value of its constants: all    *)
(* workflow definitions, with every await suspending.                      *)
(***************************************************************************)
EXTENDS WorkflowEngine, SequenceTheorems, FiniteSetTheorems, WellFoundedInduction, TLAPS

-----------------------------------------------------------------------------
(* The definition and the frames.                                          *)

\* A set of numbers has a smallest one.
LEMMA SmallestNumber ==
    ASSUME NEW T \in SUBSET Nat, T # {}
    PROVE  \E x \in T : \A y \in T : x <= y
  <1> DEFINE R == OpToRel(<, Nat)
  <1>1. IsWellFoundedOn(R, Nat)
    BY NatLessThanWellFounded, Zenon
  <1>2. \A x, y \in Nat : x < y => <<x, y>> \in R
    BY DEF OpToRel
  <1> HIDE DEF R
  <1>3. PICK x \in T : \A y \in T : ~(<<y, x>> \in R)
    BY <1>1, WFMin
  <1>4. \A y \in T : ~(y < x)
    BY <1>2, <1>3
  <1> QED
    BY <1>3, <1>4

\* What the assumption on the definitions says of the one that is executed.
LEMMA DefinitionFacts ==
    ASSUME definition \in Definitions
    PROVE  /\ Kind \in [Node -> {"agent", "switch", "loop", "map"}]
           /\ DependsOn \in [Node -> SUBSET Node]
           /\ Target \in [Node -> SUBSET Node]
           /\ Conditional \subseteq Node
           /\ OnExit \in [Outcome -> Seq(Node)]
           /\ MaxIterations \in Nat /\ Items \in Nat /\ ConcurrencyLimit \in Nat
           /\ \A n \in Conditional : Kind[n] = "agent"
  BY DefinitionAssumption
     DEF Kind, Node, DependsOn, Target, Conditional, OnExit, MaxIterations, Items,
         ConcurrencyLimit

\* The definition is the same after every step, and with it all that is read of it.
LEMMA SameDefinition ==
    ASSUME definition' = definition
    PROVE  /\ Node' = Node /\ Kind' = Kind /\ DependsOn' = DependsOn
           /\ Target' = Target /\ Conditional' = Conditional /\ OnExit' = OnExit
           /\ MaxIterations' = MaxIterations /\ Items' = Items
           /\ ConcurrencyLimit' = ConcurrencyLimit /\ Frame' = Frame
           /\ Inner' = Inner /\ Handlers' = Handlers /\ Order' = Order
  BY DEF Node, NodesOf, Kind, DependsOn, Target, Conditional, OnExit, MaxIterations,
         Items, ConcurrencyLimit, Frame, Inner, Handlers, Order

NodeFrames == {"execute", "loop", "launch", "mapcheck", "aggregate", "load", "looped"}

\* What the frames of each kind consist of.
LEMMA FrameFields ==
    \A f \in Frame :
      /\ f.at = "batch" => f.todo \subseteq Node /\ f.started \subseteq Node
      /\ f.at \in NodeFrames => f.node \in Node
      /\ f.at = "iterate" => f.node \in Node /\ f.index \in 0 .. (MaxIterations - 1)
      /\ f.at = "publish" => f.call \in Call
      /\ f.at = "complete" => f.call \in Call /\ f.ok \in BOOLEAN
      /\ f.at = "finalize" => f.outcome \in Outcome /\ f.handlers \in Seq(Node)
      /\ f.at = "respond" => f.outcome \in Outcome
  BY DEF Frame, NodeFrames

\* The frames that the steps make.
LEMMA FrameMade ==
    ASSUME definition \in Definitions
    PROVE  /\ Schedule \in Frame /\ Schedule.at = "schedule"
           /\ \A o \in Outcome : /\ Finalize(o) \in Frame /\ Finalize(o).at = "finalize"
                                 /\ Finalize(o).outcome = o /\ Finalize(o).handlers = OnExit[o]
           /\ \A S \in SUBSET Node, T \in SUBSET Node :
                [at |-> "batch", todo |-> S, started |-> T] \in Frame
           /\ \A p \in NodeFrames, n \in Node : [at |-> p, node |-> n] \in Frame
           /\ \A n \in Node, i \in 0 .. (MaxIterations - 1) :
                [at |-> "iterate", node |-> n, index |-> i] \in Frame
           /\ \A k \in Call : [at |-> "publish", call |-> k] \in Frame
           /\ \A k \in Call, ok \in BOOLEAN : [at |-> "complete", call |-> k, ok |-> ok] \in Frame
           /\ \A o \in Outcome, h \in Seq(Node) :
                [at |-> "finalize", outcome |-> o, handlers |-> h] \in Frame
           /\ \A o \in Outcome : [at |-> "respond", outcome |-> o] \in Frame
           /\ [at |-> "cleanup"] \in Frame
           /\ [at |-> "strayed"] \in Frame
  BY DefinitionFacts DEF Frame, NodeFrames, Schedule, Finalize

-----------------------------------------------------------------------------
(* Stacks.                                                                 *)

Elements(s) == {s[i] : i \in DOMAIN s}

\* The elements of a stack that is extended, popped or cut.
LEMMA StackElements ==
    ASSUME NEW S, NEW s \in Seq(S), NEW t \in Seq(S)
    PROVE  /\ s \o t \in Seq(S) /\ Elements(s \o t) \subseteq Elements(s) \cup Elements(t)
           /\ Elements(s) \subseteq S
           /\ s # << >> => /\ Tail(s) \in Seq(S) /\ Elements(Tail(s)) \subseteq Elements(s)
                           /\ Head(s) \in Elements(s) /\ Head(s) \in S
           /\ \A i \in DOMAIN s : SubSeq(s, i, Len(s)) \in Seq(S)
                                  /\ Elements(SubSeq(s, i, Len(s))) \subseteq Elements(s)
  <1>1. /\ Len(s) \in Nat /\ DOMAIN s = 1 .. Len(s) /\ \A i \in 1 .. Len(s) : s[i] \in S
        /\ Len(t) \in Nat /\ DOMAIN t = 1 .. Len(t)
    BY LenProperties, ElementOfSeq
  <1>2. s \o t \in Seq(S) /\ Elements(s \o t) \subseteq Elements(s) \cup Elements(t)
    <2>1. /\ s \o t \in Seq(S) /\ Len(s \o t) = Len(s) + Len(t)
          /\ \A i \in 1 .. Len(s) + Len(t) :
               (s \o t)[i] = IF i <= Len(s) THEN s[i] ELSE t[i - Len(s)]
      BY ConcatProperties
    <2>2. DOMAIN (s \o t) = 1 .. Len(s) + Len(t)
      BY <2>1, LenProperties
    <2>3. ASSUME NEW i \in 1 .. Len(s) + Len(t)
          PROVE  (s \o t)[i] \in Elements(s) \cup Elements(t)
      <3>1. CASE i <= Len(s)
        BY <1>1, <2>1, <3>1 DEF Elements
      <3>2. CASE ~(i <= Len(s))
        <4>1. i - Len(s) \in 1 .. Len(t)
          BY <1>1, <3>2
        <4> QED
          BY <1>1, <2>1, <3>2, <4>1 DEF Elements
      <3> QED
        BY <3>1, <3>2
    <2> QED
      BY <2>1, <2>2, <2>3 DEF Elements
  <1>3. Elements(s) \subseteq S
    BY <1>1 DEF Elements
  <1>4. ASSUME s # << >>
        PROVE  /\ Tail(s) \in Seq(S) /\ Elements(Tail(s)) \subseteq Elements(s)
               /\ Head(s) \in Elements(s) /\ Head(s) \in S
    <2>1. /\ Head(s) \in S /\ Head(s) = s[1] /\ Tail(s) \in Seq(S) /\ Len(s) # 0
          /\ Len(Tail(s)) = Len(s) - 1 /\ \A i \in 1 .. Len(Tail(s)) : Tail(s)[i] = s[i + 1]
      BY <1>4, HeadTailProperties, EmptySeq
    <2>2. DOMAIN Tail(s) = 1 .. (Len(s) - 1)
      BY <2>1, LenProperties
    <2>3. \A i \in 1 .. (Len(s) - 1) : i + 1 \in DOMAIN s
      BY <1>1
    <2>4. 1 \in DOMAIN s
      BY <1>1, <2>1
    <2> QED
      BY <2>1, <2>2, <2>3, <2>4 DEF Elements
  <1>5. ASSUME NEW i \in DOMAIN s
        PROVE  SubSeq(s, i, Len(s)) \in Seq(S)
               /\ Elements(SubSeq(s, i, Len(s))) \subseteq Elements(s)
    <2> DEFINE u == SubSeq(s, i, Len(s))
    <2>1. /\ u \in Seq(S) /\ Len(u) = Len(s) - i + 1
          /\ \A j \in 1 .. Len(u) : u[j] = s[i + j - 1]
      <3>1. i \in 1 .. (Len(s) + 1) /\ Len(s) \in (i - 1) .. Len(s) /\ i <= Len(s)
        BY <1>1
      <3> QED
        BY <1>1, <3>1, SubSeqProperties
    <2>2. DOMAIN u = 1 .. (Len(s) - i + 1)
      BY <2>1, LenProperties
    <2>3. \A j \in 1 .. (Len(s) - i + 1) : i + j - 1 \in DOMAIN s
      BY <1>1
    <2> QED
      BY <2>1, <2>2, <2>3 DEF Elements
  <1> QED
    BY <1>2, <1>3, <1>4, <1>5

\* All the frames of all the coroutines.
Frames == UNION {Elements(routines[c]) : c \in Routine}

StackOK == /\ definition \in Definitions /\ routines \in [Routine -> Seq(Frame)]
           /\ turn \in Routine \cup {Idle}

\* The frame on top of a stack.
LEMMA TopFrame ==
    ASSUME StackOK, NEW c \in Routine, NEW place, At(c, place)
    PROVE  /\ Top(c) \in Frame /\ Top(c) \in Frames /\ Top(c).at = place
           /\ routines[c] # << >> /\ routines[c] \in Seq(Frame)
  <1>1. routines[c] # << >> /\ routines[c] \in Seq(Frame) /\ Head(routines[c]).at = place
    BY DEF At, StackOK
  <1>2. Head(routines[c]) \in Elements(routines[c]) /\ Head(routines[c]) \in Frame
    BY <1>1, StackElements
  <1> QED
    BY <1>1, <1>2 DEF Top, Frames

\* When the frame on top gives way to others, no other frame appears.
LEMMA BecomeFrames ==
    ASSUME StackOK, NEW c \in Routine, routines[c] # << >>,
           NEW frames \in Seq(Frame), NEW await, Become(c, frames, await)
    PROVE  /\ StackOK' /\ definition' = definition
           /\ Frames' \subseteq Frames \cup Elements(frames)
  <1> DEFINE stack == frames \o Tail(routines[c])
  <1>1. /\ routines' = [routines EXCEPT ![c] = stack]
        /\ turn' \in {Idle, c} /\ definition' = definition
    BY DEF Become
  <1>2. Frame' = Frame
    BY <1>1, SameDefinition
  <1>3. routines[c] \in Seq(Frame)
    BY DEF StackOK
  <1>4. Tail(routines[c]) \in Seq(Frame) /\ Elements(Tail(routines[c])) \subseteq Elements(routines[c])
    BY <1>3, StackElements
  <1>5. stack \in Seq(Frame) /\ Elements(stack) \subseteq Elements(frames) \cup Elements(routines[c])
    <2> HIDE DEF stack
    <2>1. PICK t \in Seq(Frame) : t = Tail(routines[c])
      BY <1>4
    <2>2. stack = frames \o t
      BY <2>1 DEF stack
    <2>3. stack \in Seq(Frame) /\ Elements(stack) \subseteq Elements(frames) \cup Elements(t)
      BY <2>2, StackElements
    <2> QED
      BY <1>4, <2>1, <2>3
  <1> HIDE DEF stack
  <1>6. StackOK'
    BY <1>1, <1>2, <1>5 DEF StackOK
  <1>7. \A b \in Routine : Elements(routines'[b]) \subseteq Elements(frames) \cup Elements(routines[b])
    <2> TAKE b \in Routine
    <2>1. routines'[b] = IF b = c THEN stack ELSE routines[b]
      BY <1>1 DEF StackOK
    <2> QED
      BY <1>5, <2>1
  <1> QED
    BY <1>1, <1>6, <1>7 DEF Frames

\* A coroutine that begins brings its first frame.
LEMMA BeginFrames ==
    ASSUME StackOK, NEW c \in Routine, NEW frame \in Frame, Begin(c, frame)
    PROVE  /\ StackOK' /\ definition' = definition
           /\ Frames' \subseteq Frames \cup {frame}
  <1>1. /\ routines' = [routines EXCEPT ![c] = <<frame>>]
        /\ turn' = c /\ definition' = definition
    BY DEF Begin
  <1>2. Frame' = Frame
    BY <1>1, SameDefinition
  <1>3. <<frame>> \in Seq(Frame) /\ Elements(<<frame>>) = {frame}
    BY DEF Elements
  <1>4. StackOK'
    BY <1>1, <1>2, <1>3 DEF StackOK
  <1>5. \A b \in Routine : Elements(routines'[b]) \subseteq {frame} \cup Elements(routines[b])
    <2> TAKE b \in Routine
    <2>1. routines'[b] = IF b = c THEN <<frame>> ELSE routines[b]
      BY <1>1 DEF StackOK
    <2> QED
      BY <1>3, <2>1
  <1> QED
    BY <1>1, <1>4, <1>5 DEF Frames

\* An exception brings at most the finalization of a failure.
LEMMA RaiseFrames ==
    ASSUME StackOK, NEW c \in Routine, routines[c] # << >>, Raise(c)
    PROVE  /\ StackOK' /\ definition' = definition
           /\ Frames' \subseteq Frames \cup {Finalize("failure")}
           /\ failed' = TRUE /\ responses' \in {responses, Append(responses, "failure")}
  <1> DEFINE stack == routines[c]
             catchers == {i \in 2 .. Len(stack) : stack[i].at = "finalize"}
             first == CHOOSE i \in catchers : \A j \in catchers : i <= j
             rest == IF catchers # {} THEN SubSeq(stack, first, Len(stack))
                     ELSE IF c[1] = "response" THEN <<Finalize("failure")>>
                     ELSE << >>
  <1>1. /\ routines' = [routines EXCEPT ![c] = rest]
        /\ turn' \in {Idle, c} /\ definition' = definition
        /\ failed' = TRUE /\ responses' \in {responses, Append(responses, "failure")}
    BY DEF Raise
  <1>2. Frame' = Frame
    BY <1>1, SameDefinition
  <1>3. stack \in Seq(Frame) /\ Len(stack) \in Nat /\ DOMAIN stack = 1 .. Len(stack)
    <2>1. stack \in Seq(Frame)
      BY DEF StackOK
    <2> QED
      BY <2>1, LenProperties
  <1>4. Finalize("failure") \in Frame
    BY FrameMade DEF StackOK, Outcome
  <1>5. rest \in Seq(Frame) /\ Elements(rest) \subseteq Elements(stack) \cup {Finalize("failure")}
    <2>1. CASE catchers # {}
      <3>1. first \in catchers
        <4>1. catchers \subseteq Nat
          BY <1>3
        <4>2. \E i \in catchers : \A j \in catchers : i <= j
          BY <2>1, <4>1, SmallestNumber
        <4> QED
          BY <4>2
      <3>2. first \in DOMAIN stack
        BY <1>3, <3>1
      <3> HIDE DEF first, catchers, stack
      <3> QED
        BY <1>3, <2>1, <3>2, StackElements
    <2>2. CASE catchers = {} /\ c[1] = "response"
      <3>1. rest = <<Finalize("failure")>>
        BY <2>2
      <3> QED
        <4>1. <<Finalize("failure")>> \in Seq(Frame)
          BY <1>4
        <4>2. Elements(<<Finalize("failure")>>) = {Finalize("failure")}
          BY DEF Elements
        <4> QED
          BY <3>1, <4>1, <4>2
    <2>3. CASE catchers = {} /\ c[1] # "response"
      <3>1. rest = << >>
        BY <2>3
      <3>2. << >> \in Seq(Frame) /\ Elements(<< >>) = {}
        BY DEF Elements
      <3> QED
        BY <3>1, <3>2
    <2> QED
      BY <2>1, <2>2, <2>3
  <1> HIDE DEF rest
  <1>6. StackOK'
    BY <1>1, <1>2, <1>5 DEF StackOK
  <1>7. \A b \in Routine :
          Elements(routines'[b]) \subseteq {Finalize("failure")} \cup Elements(routines[b])
    <2> TAKE b \in Routine
    <2>1. routines'[b] = IF b = c THEN rest ELSE routines[b]
      BY <1>1 DEF StackOK
    <2> QED
      BY <1>5, <2>1
  <1> QED
    BY <1>1, <1>6, <1>7 DEF Frames

-----------------------------------------------------------------------------
(* What is true of every frame.                                            *)

\* Every set of nodes that the engine schedules has one whose dependencies lie
\* outside it: there is no cycle, and such a node waits for no inner node.
InnerOf(d) == UNION {d.target[n] : n \in {m \in NodesOf(d) : d.kind[m] \in {"loop", "map"}}}
Acyclic(d) ==
    /\ \A n \in NodesOf(d) \ InnerOf(d) : d.dependsOn[n] \cap InnerOf(d) = {}
    /\ \A S \in SUBSET (NodesOf(d) \ InnerOf(d)) :
          S # {} => \E n \in S : d.dependsOn[n] \cap S = {}

\* What n depends on is over; the exit handlers are started without looking at it.
Behind(n) == n \notin Handlers => \A d \in DependsOn[n] : completed[d] # "no"

\* No node of the DAG is left, or as many strays are counted as nodes are left.
AllDone ==
    Acyclic(definition) => Left \subseteq Inner \/ Cardinality(Left) <= Cardinality(strays)

\* What a frame relies on: a node that is being started has its dependencies
\* behind it, a sub-task exists, and a success is complete.
FrameOK(f) ==
    /\ f.at = "batch" => \A n \in f.todo : Behind(n)
    /\ f.at \in {"execute", "loop", "iterate", "launch"} => Behind(f.node)
    /\ f.at \in {"publish", "complete"} => f.call \in DOMAIN calls
    /\ f.at \in {"finalize", "respond"} => (f.outcome = "success" => AllDone)
    /\ f.at = "finalize" => Elements(f.handlers) \subseteq Handlers

CallOK(k) == Behind(calls[k].node)

BaseInv ==
    /\ TypeOK
    /\ \A f \in Frames : FrameOK(f)
    /\ \A n \in open : Behind(n)
    /\ \A k \in DOMAIN calls : CallOK(k)
    /\ \A i \in DOMAIN responses : responses[i] = "success" => AllDone

\* What is completed stays so, and at most one stray is counted in addition.
StaysDone ==
    /\ \A n \in Node : completed[n] # "no" => completed'[n] # "no"
    /\ strays' = strays \/ \E s : strays' = strays \cup {s}

\* What every step keeps: the definition, what is completed and the sub-tasks.
Keeps ==
    /\ definition' = definition
    /\ StaysDone
    /\ DOMAIN calls \subseteq DOMAIN calls'

\* What is behind stays behind, and what a frame relies on stays true.
LEMMA KeepsDone ==
    ASSUME Keeps, TypeOK
    PROVE  /\ \A n \in Node : Behind(n) => Behind(n)'
           /\ AllDone => AllDone'
           /\ \A f \in Frame : FrameOK(f) => FrameOK(f)'
  <1>1. /\ Node' = Node /\ DependsOn' = DependsOn /\ Handlers' = Handlers /\ Inner' = Inner
        /\ definition' = definition
    BY SameDefinition DEF Keeps
  <1>2. DependsOn \in [Node -> SUBSET Node]
    BY DefinitionFacts DEF TypeOK
  <1>3. \A n \in Node : Behind(n) => Behind(n)'
    BY <1>1, <1>2 DEF Keeps, StaysDone, Behind
  <1>4. AllDone => AllDone'
    <2>1. Left' \subseteq Left /\ IsFiniteSet(Node) /\ IsFiniteSet(strays)
      BY <1>1, DefinitionAssumption DEF Keeps, StaysDone, Left, TypeOK, Node
    <2>2. IsFiniteSet(Left) /\ Left' \in SUBSET Left
      <3>1. Left \in SUBSET Node
        BY DEF Left
      <3> QED
        BY <2>1, <3>1, FS_Subset
    <2>3. Cardinality(Left') <= Cardinality(Left) /\ IsFiniteSet(Left')
      BY <2>2, FS_Subset
    <2>4. Cardinality(strays) <= Cardinality(strays') /\ IsFiniteSet(strays')
      <3>1. CASE strays' = strays
        BY <2>1, <3>1, FS_CardinalityType
      <3>2. ASSUME NEW s, strays' = strays \cup {s}
            PROVE  Cardinality(strays) <= Cardinality(strays') /\ IsFiniteSet(strays')
        <4>1. /\ IsFiniteSet(strays \cup {s})
              /\ Cardinality(strays \cup {s}) = IF s \in strays THEN Cardinality(strays)
                                                ELSE Cardinality(strays) + 1
          BY <2>1, FS_AddElement
        <4>2. Cardinality(strays) \in Nat
          BY <2>1, FS_CardinalityType
        <4> QED
          BY <3>2, <4>1, <4>2
      <3> QED
        BY <3>1, <3>2 DEF Keeps, StaysDone
    <2>5. /\ Cardinality(Left) \in Nat /\ Cardinality(Left') \in Nat
          /\ Cardinality(strays) \in Nat /\ Cardinality(strays') \in Nat
      BY <2>1, <2>2, <2>3, <2>4, FS_CardinalityType
    <2>6. (Cardinality(Left) <= Cardinality(strays))
            => Cardinality(Left') <= Cardinality(strays')
      BY <2>3, <2>4, <2>5
    <2>7. (Left \subseteq Inner) => Left' \subseteq Inner'
      BY <1>1, <2>1
    <2> QED
      BY <1>1, <2>6, <2>7 DEF AllDone
  <1>5. ASSUME NEW f \in Frame, FrameOK(f)
        PROVE  FrameOK(f)'
    <2>1. f.at = "batch" => \A n \in f.todo : Behind(n)'
      BY <1>3, <1>5, FrameFields DEF FrameOK
    <2>2. f.at \in {"execute", "loop", "iterate", "launch"} => Behind(f.node)'
      BY <1>3, <1>5, FrameFields DEF FrameOK, NodeFrames
    <2>3. f.at \in {"publish", "complete"} => f.call \in DOMAIN calls'
      BY <1>5 DEF FrameOK, Keeps
    <2>4. f.at \in {"finalize", "respond"} => (f.outcome = "success" => AllDone')
      BY <1>4, <1>5 DEF FrameOK
    <2>5. f.at = "finalize" => Elements(f.handlers) \subseteq Handlers'
      BY <1>1, <1>5 DEF FrameOK
    <2> QED
      BY <2>1, <2>2, <2>3, <2>4, <2>5 DEF FrameOK
  <1> QED
    BY <1>3, <1>4, <1>5

\* The part of the types that is about the stacks.
LEMMA StackFromType == TypeOK => StackOK
  BY DEF TypeOK, StackOK

\* Every frame of every coroutine has its type.
LEMMA InFrame == TypeOK => \A f \in Frames : f \in Frame
  <1> SUFFICES ASSUME TypeOK, NEW c \in Routine
               PROVE  Elements(routines[c]) \subseteq Frame
    BY DEF Frames
  <1>1. routines[c] \in Seq(Frame)
    BY DEF TypeOK
  <1> QED
    BY <1>1, StackElements

\* A step whose new frames are as they should be, and that starts nothing.
LEMMA StepBase ==
    ASSUME BaseInv, Keeps, TypeOK', NEW new, Frames' \subseteq Frames \cup new,
           \A f \in new : FrameOK(f)',
           open' \subseteq open \/ \A n \in open' : n \in open \/ Behind(n)',
           calls' = calls \/ \A k \in DOMAIN calls' : \/ k \in DOMAIN calls /\ calls'[k] = calls[k]
                                                   \/ CallOK(k)',
           responses' = responses
             \/ \A i \in DOMAIN responses' : responses'[i] = "success" => AllDone
    PROVE  BaseInv'
  <1>1. TypeOK
    BY DEF BaseInv
  <1>2. /\ \A n \in Node : Behind(n) => Behind(n)'
        /\ AllDone => AllDone'
        /\ \A f \in Frame : FrameOK(f) => FrameOK(f)'
    BY <1>1, KeepsDone
  <1>3. \A f \in Frames' : FrameOK(f)'
    BY <1>1, <1>2, InFrame DEF BaseInv
  <1>4. \A n \in open' : Behind(n)'
    BY <1>1, <1>2 DEF BaseInv, TypeOK
  <1>5. ASSUME NEW k \in DOMAIN calls, calls'[k] = calls[k]
        PROVE  CallOK(k)'
    <2>1. PICK n \in Node : n = calls[k].node
      <3>1. calls \in Seq([node : Node, index : Nat, unread : SUBSET Node])
        BY <1>1 DEF TypeOK
      <3>2. calls[k] \in [node : Node, index : Nat, unread : SUBSET Node]
        BY <3>1, LenProperties, ElementOfSeq
      <3> QED
        BY <3>2
    <2>2. Behind(n)
      BY <2>1 DEF BaseInv, CallOK
    <2>3. Behind(n)'
      BY <1>2, <2>2
    <2> QED
      BY <1>5, <2>1, <2>3 DEF CallOK
  <1>6. \A k \in DOMAIN calls' : CallOK(k)'
    <2>1. calls' = calls => \A k \in DOMAIN calls' : k \in DOMAIN calls /\ calls'[k] = calls[k]
      OBVIOUS
    <2> QED
      BY <1>5, <2>1
  <1>7. \A i \in DOMAIN responses' : responses'[i] = "success" => AllDone'
    BY <1>2 DEF BaseInv
  <1> QED
    BY <1>3, <1>4, <1>6, <1>7 DEF BaseInv

-----------------------------------------------------------------------------
(* The types, one group of variables at a time.                            *)

CallRecord == [node : Node, index : Nat, unread : SUBSET Node]
MapRecord == [next : 0 .. Items, count : Nat, active : SUBSET (0 .. Items)]

NodeType ==
    /\ completed \in [Node -> {"no", "done", "SKIPPED"}]
    /\ strays \subseteq Node \X Nat /\ IsFiniteSet(strays)
    /\ outputs \subseteq Node
    /\ pending \in [Node -> Nat]
    /\ failed \in BOOLEAN
GroupType ==
    /\ iterations \in [Node -> 0 .. MaxIterations]
    /\ open \subseteq Node
    /\ branches \in [Node -> SUBSET Call]
    /\ answered \subseteq Call
    /\ mapState \in [Node -> MapRecord]
CallType ==
    /\ calls \in Seq(CallRecord) /\ Len(calls) <= MaxCalls
    /\ tracked \subseteq DOMAIN calls
HostType ==
    /\ cancelled \in BOOLEAN /\ active \in BOOLEAN
    /\ stopped \subseteq tracked /\ responses \in Seq(Outcome)
TimerType == cached \subseteq tracked /\ expired \subseteq tracked

\* The types are the types of the groups.
LEMMA TypeParts ==
    TypeOK <=> StackOK /\ NodeType /\ GroupType /\ CallType /\ HostType /\ TimerType
  BY DEF TypeOK, StackOK, NodeType, GroupType, CallType, HostType, TimerType, CallRecord,
         MapRecord

\* A group that a step leaves alone keeps its types.
LEMMA SameTypes ==
    ASSUME TypeOK, definition' = definition
    PROVE  /\ UNCHANGED nodeVars => NodeType'
           /\ UNCHANGED groupVars => GroupType'
           /\ UNCHANGED callVars => CallType'
           /\ UNCHANGED <<tracked, hostVars>> => HostType'
           /\ UNCHANGED <<tracked, timerVars>> => TimerType'
  <1>1. Node' = Node /\ MaxIterations' = MaxIterations /\ Items' = Items
    BY SameDefinition
  <1>2. NodeType /\ GroupType /\ CallType /\ HostType /\ TimerType
    BY TypeParts
  <1>3. CallRecord' = CallRecord /\ MapRecord' = MapRecord
    BY <1>1 DEF CallRecord, MapRecord
  <1>4. UNCHANGED nodeVars => NodeType'
    BY <1>1, <1>2 DEF NodeType, nodeVars
  <1>5. UNCHANGED groupVars => GroupType'
    BY <1>1, <1>2, <1>3 DEF GroupType, groupVars
  <1>6. UNCHANGED callVars => CallType'
    BY <1>2, <1>3 DEF CallType, callVars
  <1>7. UNCHANGED <<tracked, hostVars>> => HostType'
    BY <1>2 DEF HostType, hostVars
  <1>8. UNCHANGED <<tracked, timerVars>> => TimerType'
    BY <1>2 DEF TimerType, timerVars
  <1> QED
    BY <1>4, <1>5, <1>6, <1>7, <1>8

\* A step of a coroutine.
LEMMA ActBase ==
    ASSUME BaseInv, NEW c \in Routine, routines[c] # << >>,
           NEW frames \in Seq(Frame), NEW await, Become(c, frames, await),
           StaysDone,
           DOMAIN calls \subseteq DOMAIN calls',
           NodeType', GroupType', CallType', HostType', TimerType',
           \A f \in Elements(frames) : FrameOK(f) \/ FrameOK(f)',
           open' \subseteq open \/ \A n \in open' : n \in open \/ Behind(n)',
           calls' = calls \/ \A k \in DOMAIN calls' : \/ k \in DOMAIN calls /\ calls'[k] = calls[k]
                                                   \/ CallOK(k)',
           responses' = responses
             \/ \A i \in DOMAIN responses' : responses'[i] = "success" => AllDone
    PROVE  BaseInv'
  <1>1. TypeOK /\ StackOK
    BY StackFromType DEF BaseInv
  <1>2. /\ StackOK' /\ definition' = definition
        /\ Frames' \subseteq Frames \cup Elements(frames)
    BY <1>1, BecomeFrames
  <1>3. Keeps
    BY <1>2 DEF Keeps
  <1>4. TypeOK'
    <2>1. StackOK' /\ NodeType' /\ GroupType' /\ CallType' /\ HostType' /\ TimerType'
      BY <1>2
    <2> QED
      BY <2>1, TypeParts, PTL
  <1>5. \A f \in Elements(frames) : FrameOK(f)'
    <2>1. Elements(frames) \subseteq Frame
      BY StackElements
    <2> QED
      BY <1>1, <1>3, <2>1, KeepsDone
  <1> QED
    BY <1>2, <1>3, <1>4, <1>5, StepBase

\* A step that only changes the stack.
LEMMA QuietBase ==
    ASSUME BaseInv, NEW c \in Routine, routines[c] # << >>,
           NEW frames \in Seq(Frame), NEW await, Become(c, frames, await),
           UNCHANGED <<nodeVars, groupVars, callVars, hostVars, timerVars>>,
           \A f \in Elements(frames) : FrameOK(f)
    PROVE  BaseInv'
  <1>1. TypeOK /\ definition' = definition
    BY DEF BaseInv, Become
  <1>2. UNCHANGED <<tracked, hostVars>> /\ UNCHANGED <<tracked, timerVars>>
    BY DEF callVars
  <1>3. NodeType' /\ GroupType' /\ CallType' /\ HostType' /\ TimerType'
    BY <1>1, <1>2, SameTypes
  <1>4. StaysDone /\ calls' = calls /\ open' = open /\ responses' = responses
    BY DEF nodeVars, groupVars, callVars, hostVars, StaysDone
  <1> QED
    BY <1>3, <1>4, ActBase

\* The frames of the new stacks.
LEMMA FewFrames ==
    /\ << >> \in Seq(Frame) /\ Elements(<< >>) = {}
    /\ \A f \in Frame : <<f>> \in Seq(Frame) /\ Elements(<<f>>) = {f}
    /\ \A f, g \in Frame : <<f, g>> \in Seq(Frame) /\ Elements(<<f, g>>) = {f, g}
  <1>1. << >> \in Seq(Frame) /\ Elements(<< >>) = {}
    BY DEF Elements
  <1>2. ASSUME NEW f \in Frame
        PROVE  <<f>> \in Seq(Frame) /\ Elements(<<f>>) = {f}
    BY DEF Elements
  <1>3. ASSUME NEW f \in Frame, NEW g \in Frame
        PROVE  <<f, g>> \in Seq(Frame) /\ Elements(<<f, g>>) = {f, g}
    <2>1. <<f, g>> \in Seq(Frame)
      OBVIOUS
    <2>2. DOMAIN <<f, g>> = {1, 2} /\ <<f, g>>[1] = f /\ <<f, g>>[2] = g
      OBVIOUS
    <2> QED
      BY <2>1, <2>2 DEF Elements
  <1> QED
    BY <1>1, <1>2, <1>3

\* The same for the numbers of frames that occur.
LEMMA QuietOne ==
    ASSUME BaseInv, NEW c \in Routine, routines[c] # << >>,
           NEW f \in Frame, FrameOK(f), NEW await, Become(c, <<f>>, await),
           UNCHANGED <<nodeVars, groupVars, callVars, hostVars, timerVars>>
    PROVE  BaseInv'
  <1>1. PICK frames \in Seq(Frame) : frames = <<f>> /\ Elements(frames) = {f}
    BY FewFrames
  <1>2. Become(c, frames, await) /\ \A g \in Elements(frames) : FrameOK(g)
    BY <1>1
  <1> QED
    BY <1>2, QuietBase

\* The same for two frames.
LEMMA QuietTwo ==
    ASSUME BaseInv, NEW c \in Routine, routines[c] # << >>,
           NEW f \in Frame, FrameOK(f), NEW g \in Frame, FrameOK(g),
           NEW await, Become(c, <<f, g>>, await),
           UNCHANGED <<nodeVars, groupVars, callVars, hostVars, timerVars>>
    PROVE  BaseInv'
  <1>1. PICK frames \in Seq(Frame) : frames = <<f, g>> /\ Elements(frames) = {f, g}
    BY FewFrames
  <1>2. Become(c, frames, await) /\ \A h \in Elements(frames) : FrameOK(h)
    BY <1>1
  <1> QED
    BY <1>2, QuietBase

-----------------------------------------------------------------------------
(* The steps that only change the stack.                                   *)

\* A cancelled workflow stops.
LEMMA StopBase == ASSUME BaseInv, NEW c \in Routine, StopCancelled(c) PROVE BaseInv'
  <1>1. PICK place \in {"schedule", "execute", "loop", "complete"} : At(c, place)
    BY DEF StopCancelled
  <1>2. routines[c] # << >> /\ Become(c, << >>, "nothing")
        /\ UNCHANGED <<nodeVars, groupVars, callVars, hostVars, timerVars>>
    BY <1>1 DEF StopCancelled, At
  <1> QED
    BY <1>2, QuietBase, FewFrames

\* With no cycle, a workflow in which nothing is ready, pending or open has all
\* its nodes behind it.
LEMMA NothingLeft ==
    ASSUME TypeOK, NextNodes = {}, Finished \/ Stuck
    PROVE  AllDone
  <1>0. CASE Finished
    <2> DEFINE D == {n \in Node : completed[n] # "no"}
    <2>1. IsFiniteSet(Node) /\ IsFiniteSet(strays)
      BY DefinitionAssumption DEF TypeOK, Node
    <2>2. Left = Node \ D /\ D = Node \cap D /\ D \in SUBSET Node
      BY DEF Left
    <2>3. Cardinality(Left) = Cardinality(Node) - Cardinality(D)
      <3> HIDE DEF D
      <3>1. Cardinality(Node \ D) = Cardinality(Node) - Cardinality(Node \cap D)
        BY <2>1, FS_Difference
      <3> QED
        BY <2>2, <3>1
    <2>4. IsFiniteSet(D)
      BY <2>1, <2>2, FS_Subset
    <2>5. Cardinality(D) \in Nat /\ Cardinality(Node) \in Nat /\ Cardinality(strays) \in Nat
      BY <2>1, <2>4, FS_CardinalityType
    <2>6. Cardinality(D) + Cardinality(strays) = Cardinality(Node)
      BY <1>0 DEF Finished
    <2> HIDE DEF D
    <2> QED
      BY <2>3, <2>5, <2>6 DEF AllDone
  <1> SUFFICES ASSUME Acyclic(definition), Stuck
               PROVE  Left \subseteq Inner
    BY <1>0 DEF AllDone
  <1> DEFINE S == {n \in Node \ Inner : completed[n] = "no"}
  <1>1. CASE S = {}
    BY <1>1 DEF Left
  <1>2. CASE S # {}
    <2>1. Inner = InnerOf(definition) /\ Node = NodesOf(definition)
          /\ DependsOn = definition.dependsOn
      BY DEF Inner, InnerOf, Node, Target, Kind, DependsOn
    <2>2. PICK n \in S : DependsOn[n] \cap S = {}
      BY <1>2, <2>1 DEF Acyclic
    <2>3. DependsOn[n] \cap Inner = {} /\ DependsOn[n] \subseteq Node
      BY <2>1, DefinitionFacts DEF Acyclic, TypeOK
    <2>4. \A d \in DependsOn[n] : completed[d] # "no"
      BY <2>2, <2>3
    <2>5. Ready(n)
      BY <2>4 DEF Ready, Stuck
    <2> QED
      BY <2>5 DEF NextNodes
  <1> QED
    BY <1>1, <1>2

\* Scheduling finds nodes that are ready, or finds that all is done.
LEMMA ScheduleBase == ASSUME BaseInv, NEW c \in Routine, ScheduleNodes(c) PROVE BaseInv'
  <1> DEFINE batch == [at |-> "batch", todo |-> NextNodes, started |-> {}]
             frames == IF NextNodes # {} THEN <<batch>>
                       ELSE IF Finished \/ Stuck THEN <<Finalize("success")>> ELSE << >>
  <1>1. /\ Become(c, frames, "nothing") /\ routines[c] # << >>
        /\ UNCHANGED <<nodeVars, groupVars, callVars, hostVars, timerVars>>
    BY DEF ScheduleNodes, Runs, At
  <1>2. TypeOK /\ definition \in Definitions
    BY DEF BaseInv, TypeOK
  <1>3. batch \in Frame /\ FrameOK(batch)
    <2>1. NextNodes \subseteq Node /\ \A n \in NextNodes : Behind(n)
      BY DEF NextNodes, Ready, Behind
    <2> QED
      BY <1>2, <2>1, FrameMade DEF FrameOK
  <1>4. Finalize("success") \in Frame
        /\ (NextNodes = {} /\ (Finished \/ Stuck) => FrameOK(Finalize("success")))
    <2>1. "success" \in Outcome
      BY DEF Outcome
    <2>2. /\ Finalize("success") \in Frame /\ Finalize("success").at = "finalize"
          /\ Finalize("success").handlers = OnExit["success"]
      BY <1>2, <2>1, FrameMade
    <2>3. Elements(OnExit["success"]) \subseteq Handlers
      BY <2>1 DEF Elements, Handlers
    <2> QED
      BY <1>2, <2>2, <2>3, NothingLeft DEF FrameOK
  <1>5. frames \in Seq(Frame) /\ \A f \in Elements(frames) : FrameOK(f)
    BY <1>3, <1>4, FewFrames
  <1> HIDE DEF frames
  <1> QED
    BY <1>1, <1>5, QuietBase

\* The finalization of a failure or a cancellation relies on nothing.
LEMMA FinalizeOK ==
    ASSUME definition \in Definitions, NEW o \in {"failure", "cancelled"}
    PROVE  Finalize(o) \in Frame /\ FrameOK(Finalize(o))
  <1>1. o \in Outcome /\ o # "success"
    BY DEF Outcome
  <1>2. /\ Finalize(o) \in Frame /\ Finalize(o).at = "finalize" /\ Finalize(o).outcome = o
        /\ Finalize(o).handlers = OnExit[o]
    BY <1>1, FrameMade
  <1>3. Elements(OnExit[o]) \subseteq Handlers
    BY <1>1 DEF Elements, Handlers
  <1> QED
    BY <1>1, <1>2, <1>3 DEF FrameOK

\* A loop is entered.
LEMMA EnterLoopBase == ASSUME BaseInv, NEW c \in Routine, EnterLoop(c) PROVE BaseInv'
  <1>1. At(c, "execute") /\ StackOK
    BY StackFromType DEF EnterLoop, Runs, BaseInv
  <1>2. /\ Top(c) \in Frame /\ Top(c) \in Frames /\ Top(c).at = "execute" /\ routines[c] # << >>
    BY <1>1, TopFrame
  <1>3. PICK n \in Node : n = Top(c).node
    BY <1>2, FrameFields DEF NodeFrames
  <1>4. Behind(n)
    BY <1>2, <1>3 DEF BaseInv, FrameOK
  <1> DEFINE f == [at |-> "loop", node |-> n]
  <1>5. f \in Frame /\ FrameOK(f)
    BY <1>1, <1>4, FrameMade DEF StackOK, NodeFrames, FrameOK
  <1>6. /\ Become(c, <<f>>, "nothing")
        /\ UNCHANGED <<nodeVars, groupVars, callVars, hostVars, timerVars>>
    BY <1>3 DEF EnterLoop
  <1> HIDE DEF f
  <1> QED
    BY <1>2, <1>5, <1>6, QuietOne

\* A loop goes on below its limit.
LEMMA ContinueBase == ASSUME BaseInv, NEW c \in Routine, ContinueLoop(c) PROVE BaseInv'
  <1>1. At(c, "loop") /\ StackOK /\ TypeOK
    BY StackFromType DEF ContinueLoop, Runs, BaseInv
  <1>2. /\ Top(c) \in Frame /\ Top(c) \in Frames /\ Top(c).at = "loop" /\ routines[c] # << >>
    BY <1>1, TopFrame
  <1>3. PICK n \in Node : n = Top(c).node
    BY <1>2, FrameFields DEF NodeFrames
  <1>4. Behind(n)
    BY <1>2, <1>3 DEF BaseInv, FrameOK
  <1>5. PICK i : i = iterations[n]
    OBVIOUS
  <1> DEFINE f == [at |-> "iterate", node |-> n, index |-> i]
             await == IF i > 0 THEN "sleep" ELSE "nothing"
  <1>6. /\ i < MaxIterations
        /\ Become(c, <<f>>, await)
        /\ UNCHANGED <<nodeVars, groupVars, callVars, hostVars, timerVars>>
    BY <1>3, <1>5 DEF ContinueLoop
  <1>7. i \in 0 .. (MaxIterations - 1)
    <2>1. i \in 0 .. MaxIterations /\ MaxIterations \in Nat
      BY <1>1, <1>5, DefinitionFacts DEF TypeOK
    <2> QED
      BY <1>6, <2>1
  <1>8. f \in Frame
    BY <1>1, <1>7, FrameMade DEF StackOK
  <1>9. FrameOK(f)
    BY <1>4 DEF FrameOK
  <1> HIDE DEF f, await
  <1> QED
    BY <1>2, <1>6, <1>8, <1>9, QuietOne

\* A map has launched what it can.
LEMMA LaunchedBase == ASSUME BaseInv, NEW c \in Routine, LaunchedAll(c) PROVE BaseInv'
  <1>1. /\ routines[c] # << >> /\ Become(c, << >>, "nothing")
        /\ UNCHANGED <<nodeVars, groupVars, callVars, hostVars, timerVars>>
    BY DEF LaunchedAll, At
  <1> QED
    BY <1>1, QuietBase, FewFrames

\* A map is checked for its end.
LEMMA CheckMapBase == ASSUME BaseInv, NEW c \in Routine, CheckMap(c) PROVE BaseInv'
  <1>1. At(c, "mapcheck") /\ StackOK
    BY StackFromType DEF CheckMap, BaseInv
  <1>2. Top(c) \in Frame /\ Top(c).at = "mapcheck" /\ routines[c] # << >>
    BY <1>1, TopFrame
  <1>3. PICK n \in Node : n = Top(c).node
    BY <1>2, FrameFields DEF NodeFrames
  <1> DEFINE f == [at |-> "aggregate", node |-> n]
  <1>4. f \in Frame /\ FrameOK(f)
    BY <1>1, FrameMade DEF StackOK, NodeFrames, FrameOK
  <1>5. /\ Become(c, <<f>>, "load") \/ Become(c, << >>, "nothing")
        /\ UNCHANGED <<nodeVars, groupVars, callVars, hostVars, timerVars>>
    BY <1>3 DEF CheckMap
  <1> HIDE DEF f
  <1>6. CASE Become(c, << >>, "nothing")
    BY <1>2, <1>5, <1>6, QuietBase, FewFrames
  <1> QED
    BY <1>2, <1>4, <1>5, <1>6, QuietOne

\* The exit handlers are run, then the response is prepared.
LEMMA ExitBase == ASSUME BaseInv, NEW c \in Routine, RunExitHandler(c) PROVE BaseInv'
  <1>1. At(c, "finalize") /\ StackOK
    BY StackFromType DEF RunExitHandler, BaseInv
  <1>2. /\ Top(c) \in Frame /\ Top(c) \in Frames /\ Top(c).at = "finalize" /\ routines[c] # << >>
    BY <1>1, TopFrame
  <1>3. PICK o \in Outcome, h \in Seq(Node) : o = Top(c).outcome /\ h = Top(c).handlers
    BY <1>2, FrameFields
  <1>4. (o = "success" => AllDone) /\ Elements(h) \subseteq Handlers
    BY <1>2, <1>3 DEF BaseInv, FrameOK
  <1>5. UNCHANGED <<nodeVars, groupVars, callVars, hostVars, timerVars>>
    BY DEF RunExitHandler
  <1>6. CASE h = << >>
    <2> DEFINE f == [at |-> "respond", outcome |-> o]
    <2>1. PICK await : Become(c, <<f>>, await)
      BY <1>3, <1>6 DEF RunExitHandler
    <2>2. f \in Frame /\ FrameOK(f)
      BY <1>1, <1>4, FrameMade DEF StackOK, FrameOK
    <2> HIDE DEF f
    <2> QED
      BY <1>2, <1>5, <2>1, <2>2, QuietOne
  <1>7. CASE h # << >>
    <2>1. /\ Head(h) \in Node /\ Head(h) \in Elements(h) /\ Tail(h) \in Seq(Node)
          /\ Elements(Tail(h)) \subseteq Elements(h)
      BY <1>7, StackElements
    <2> DEFINE first == [at |-> "execute", node |-> Head(h)]
               rest == [at |-> "finalize", outcome |-> o, handlers |-> Tail(h)]
    <2>2. Become(c, <<first, rest>>, "nothing")
      BY <1>3, <1>7 DEF RunExitHandler
    <2>4. first \in Frame /\ rest \in Frame
      <3>1. definition \in Definitions /\ "execute" \in NodeFrames
        BY <1>1 DEF StackOK, NodeFrames
      <3>2. first \in Frame
        BY <2>1, <3>1, FrameMade
      <3>3. rest \in Frame
        BY <2>1, <3>1, FrameMade
      <3> QED
        BY <3>2, <3>3
    <2>5. FrameOK(first)
      <3>1. Behind(Head(h))
        BY <1>4, <2>1 DEF Behind
      <3> QED
        BY <3>1 DEF FrameOK
    <2>6. FrameOK(rest)
      BY <1>4, <2>1 DEF FrameOK
    <2> HIDE DEF first, rest
    <2> QED
      BY <1>2, <1>5, <2>2, <2>4, <2>5, <2>6, QuietTwo
  <1> QED
    BY <1>6, <1>7

-----------------------------------------------------------------------------
(* The steps that change the state of nodes.                               *)

\* A step of a coroutine that changes nodes or groups and starts no call.
LEMMA NodeStep ==
    ASSUME BaseInv, NEW c \in Routine, routines[c] # << >>,
           NEW f \in Frame, FrameOK(f) \/ FrameOK(f)', NEW await, Become(c, <<f>>, await),
           NodeType', StaysDone,
           GroupType', open' \subseteq open \/ \A n \in open' : n \in open \/ Behind(n)',
           UNCHANGED <<callVars, hostVars, timerVars>>
    PROVE  BaseInv'
  <1>1. PICK frames \in Seq(Frame) : frames = <<f>> /\ Elements(frames) = {f}
    BY FewFrames
  <1>2. Become(c, frames, await) /\ \A g \in Elements(frames) : FrameOK(g) \/ FrameOK(g)'
    BY <1>1
  <1>3. CallType' /\ HostType' /\ TimerType' /\ calls' = calls /\ responses' = responses
    <2>1. TypeOK /\ definition' = definition
      BY DEF BaseInv, Become
    <2>2. UNCHANGED <<tracked, hostVars>> /\ UNCHANGED <<tracked, timerVars>>
      BY DEF callVars
    <2>3. calls' = calls /\ responses' = responses
      BY DEF callVars, hostVars
    <2> QED
      BY <2>1, <2>2, <2>3, SameTypes
  <1> QED
    BY <1>2, <1>3, ActBase

\* The same when it only changes nodes.
LEMMA NodeOnly ==
    ASSUME BaseInv, NEW c \in Routine, routines[c] # << >>,
           NEW f \in Frame, FrameOK(f) \/ FrameOK(f)', NEW await, Become(c, <<f>>, await),
           NodeType', StaysDone,
           UNCHANGED <<groupVars, callVars, hostVars, timerVars>>
    PROVE  BaseInv'
  <1>1. TypeOK /\ definition' = definition
    BY DEF BaseInv, Become
  <1>2. GroupType' /\ open' = open
    BY <1>1, SameTypes DEF groupVars
  <1> QED
    BY <1>2, NodeStep

\* A node leaves pending_nodes.
LEMMA NotPendingType ==
    ASSUME TypeOK, NEW n \in Node
    PROVE  NotPending(n) \in [Node -> Nat]
  <1>1. pending \in [Node -> Nat]
    BY DEF TypeOK
  <1>2. (IF pending[n] > 0 THEN pending[n] - 1 ELSE 0) \in Nat
    BY <1>1
  <1> QED
    BY <1>1, <1>2 DEF NotPending

\* Completing a node, with its output or without.
LEMMA CompleteType ==
    ASSUME TypeOK, definition' = definition, NEW n \in Node,
           completed' = [completed EXCEPT ![n] = "done"],
           outputs' \in {outputs, outputs \cup {n}},
           pending' \in {pending, NotPending(n)}, failed' = failed, strays' = strays
    PROVE  NodeType' /\ StaysDone
  <1>1. Node' = Node
    BY SameDefinition
  <1>2. pending' \in [Node -> Nat]
    <2>1. NotPending(n) \in [Node -> Nat]
      BY NotPendingType
    <2>2. pending \in [Node -> Nat]
      BY DEF TypeOK
    <2> QED
      BY <2>1, <2>2
  <1>3. completed \in [Node -> {"no", "done", "SKIPPED"}] /\ outputs \subseteq Node
        /\ failed \in BOOLEAN /\ strays \subseteq Node \X Nat /\ IsFiniteSet(strays)
    BY DEF TypeOK
  <1>4. StaysDone
    BY <1>3 DEF StaysDone
  <1> QED
    BY <1>1, <1>2, <1>3, <1>4 DEF NodeType

\* Scheduling relies on nothing.
LEMMA ScheduleOK == TypeOK => Schedule \in Frame /\ FrameOK(Schedule)
  BY FrameMade DEF TypeOK, FrameOK

\* A frame on top that is about a node.
LEMMA TopNode ==
    ASSUME BaseInv, NEW c \in Routine, NEW place \in NodeFrames, At(c, place)
    PROVE  /\ Top(c).node \in Node /\ routines[c] # << >>
           /\ place \in {"execute", "loop", "launch"} => Behind(Top(c).node)
  <1>1. StackOK /\ TypeOK
    BY StackFromType DEF BaseInv
  <1>2. /\ Top(c) \in Frame /\ Top(c) \in Frames /\ Top(c).at = place /\ routines[c] # << >>
    BY <1>1, TopFrame
  <1>3. FrameOK(Top(c))
    BY <1>2 DEF BaseInv
  <1> QED
    BY <1>2, <1>3, FrameFields DEF FrameOK, NodeFrames

\* A node whose condition is false completes at once.
LEMMA SkipBase == ASSUME BaseInv, NEW c \in Routine, SkipNode(c) PROVE BaseInv'
  <1>1. At(c, "execute") /\ TypeOK /\ "execute" \in NodeFrames
    BY DEF SkipNode, Runs, BaseInv, NodeFrames
  <1>2. PICK n \in Node : n = Top(c).node
    BY <1>1, TopNode
  <1>3. /\ completed' = [completed EXCEPT ![n] = "done"] /\ outputs' = outputs \cup {n}
        /\ Become(c, <<Schedule>>, "nothing")
        /\ UNCHANGED <<strays, pending, failed, groupVars, callVars, hostVars, timerVars>>
    BY <1>2 DEF SkipNode
  <1>4. NodeType' /\ StaysDone
    BY <1>1, <1>3, CompleteType DEF Become
  <1> QED
    BY <1>1, <1>3, <1>4, TopNode, ScheduleOK, NodeOnly

\* A switch completes and skips; what was completed stays so.
LEMMA SwitchBase == ASSUME BaseInv, NEW c \in Routine, EvaluateSwitch(c) PROVE BaseInv'
  <1>1. At(c, "execute") /\ TypeOK /\ "execute" \in NodeFrames
    BY DEF EvaluateSwitch, Runs, BaseInv, NodeFrames
  <1>2. PICK n \in Node : n = Top(c).node
    BY <1>1, TopNode
  <1>3. /\ outputs' = outputs \cup {n}
        /\ Become(c, <<Schedule>>, "nothing") /\ definition' = definition
        /\ UNCHANGED <<strays, pending, failed, groupVars, callVars, hostVars, timerVars>>
    BY <1>2 DEF EvaluateSwitch, Become
  <1>4. \E S : completed' = [m \in Node |-> IF m = n THEN "done"
                                           ELSE IF m \in S THEN "SKIPPED" ELSE completed[m]]
    <2>1. PICK selected \in SUBSET Target[n] :
            completed' = [m \in Node |->
              IF m = n THEN "done"
              ELSE IF m \in Skipped({t \in Target[n] \ selected : completed[t] = "no"})
                   THEN "SKIPPED" ELSE completed[m]]
      BY <1>2 DEF EvaluateSwitch
    <2>2. PICK S : S = Skipped({t \in Target[n] \ selected : completed[t] = "no"})
      OBVIOUS
    <2> QED
      BY <2>1, <2>2
  <1>5. NodeType' /\ StaysDone
    <2>1. /\ completed \in [Node -> {"no", "done", "SKIPPED"}] /\ outputs \subseteq Node
          /\ pending \in [Node -> Nat] /\ failed \in BOOLEAN /\ Node' = Node
      BY <1>1, <1>3, SameDefinition DEF TypeOK
    <2>2. /\ completed' \in [Node -> {"no", "done", "SKIPPED"}]
          /\ \A m \in Node : completed[m] # "no" => completed'[m] # "no"
      BY <1>4, <2>1
    <2>3. /\ strays' = strays /\ strays \subseteq Node \X Nat /\ IsFiniteSet(strays)
      BY <1>1, <1>3 DEF TypeOK
    <2> QED
      BY <1>2, <1>3, <2>1, <2>2, <2>3 DEF NodeType, StaysDone
  <1> QED
    BY <1>1, <1>3, <1>5, TopNode, ScheduleOK, NodeOnly

\* A loop ends at its limit or on its condition.
LEMMA LoopEndsBase ==
    ASSUME BaseInv, NEW c \in Routine, StopLoopAtLimit(c) \/ StopLoopOnCondition(c)
    PROVE  BaseInv'
  <1>1. At(c, "loop") /\ TypeOK /\ "loop" \in NodeFrames
    BY DEF StopLoopAtLimit, StopLoopOnCondition, Runs, BaseInv, NodeFrames
  <1>2. PICK n \in Node : n = Top(c).node
    BY <1>1, TopNode
  <1>3. /\ completed' = [completed EXCEPT ![n] = "done"] /\ outputs' = outputs \cup {n}
        /\ pending' \in {pending, NotPending(n)}
        /\ Become(c, <<Schedule>>, "nothing")
        /\ UNCHANGED <<strays, failed, groupVars, callVars, hostVars, timerVars>>
    BY <1>2 DEF StopLoopAtLimit, StopLoopOnCondition, LoopEnds
  <1>4. NodeType' /\ StaysDone
    BY <1>1, <1>3, CompleteType DEF Become
  <1> QED
    BY <1>1, <1>3, <1>4, TopNode, ScheduleOK, NodeOnly

\* The output of a node is loaded.
LEMMA LoadedBase == ASSUME BaseInv, NEW c \in Routine, OutputLoaded(c) PROVE BaseInv'
  <1>1. At(c, "load") /\ TypeOK /\ "load" \in NodeFrames
    BY DEF OutputLoaded, BaseInv, NodeFrames
  <1>2. PICK n \in Node : n = Top(c).node
    BY <1>1, TopNode
  <1>3. /\ outputs' = outputs \cup {n} /\ UNCHANGED <<completed, strays, pending, failed>>
        /\ Become(c, <<Schedule>>, "nothing")
        /\ UNCHANGED <<groupVars, callVars, hostVars, timerVars>>
    BY <1>2 DEF OutputLoaded
  <1>4. NodeType' /\ StaysDone
    <2>1. Node' = Node
      BY <1>3, SameDefinition DEF Become
    <2> QED
      BY <1>1, <1>3, <2>1 DEF NodeType, TypeOK, StaysDone
  <1> QED
    BY <1>1, <1>3, <1>4, TopNode, ScheduleOK, NodeOnly

\* The frame on top of a response or a timeout.
LEMMA TopComplete ==
    ASSUME BaseInv, NEW c \in Routine, NEW place \in {"complete", "publish"}, At(c, place)
    PROVE  /\ Top(c).call \in Call /\ Top(c).call \in DOMAIN calls
           /\ calls[Top(c).call] \in CallRecord /\ routines[c] # << >>
  <1>1. StackOK /\ TypeOK
    BY StackFromType DEF BaseInv
  <1>2. /\ Top(c) \in Frame /\ Top(c) \in Frames /\ Top(c).at = place /\ routines[c] # << >>
    BY <1>1, TopFrame
  <1>3. Top(c).call \in Call /\ Top(c).call \in DOMAIN calls
    BY <1>2, FrameFields DEF BaseInv, FrameOK
  <1>4. calls \in Seq(CallRecord)
    BY <1>1 DEF TypeOK, CallRecord
  <1> QED
    BY <1>2, <1>3, <1>4, LenProperties, ElementOfSeq

\* A node fails and the workflow is finalized.
LEMMA FailedBase == ASSUME BaseInv, NEW c \in Routine, NodeFailed(c) PROVE BaseInv'
  <1>1. At(c, "complete") /\ TypeOK /\ definition \in Definitions
    BY DEF NodeFailed, Runs, BaseInv, TypeOK
  <1>2. PICK f : f = Finalize("failure")
    OBVIOUS
  <1>3. f \in Frame /\ FrameOK(f)
    BY <1>1, <1>2, FinalizeOK
  <1>4. /\ failed' = TRUE /\ UNCHANGED <<completed, strays, outputs, pending>>
        /\ Become(c, <<f>>, "nothing")
        /\ UNCHANGED <<groupVars, callVars, hostVars, timerVars>>
    BY <1>2 DEF NodeFailed
  <1>5. NodeType' /\ StaysDone
    <2>1. Node' = Node
      BY <1>4, SameDefinition DEF Become
    <2> QED
      BY <1>1, <1>4, <2>1 DEF NodeType, TypeOK, StaysDone
  <1>6. routines[c] # << >>
    BY <1>1 DEF At
  <1> QED
    BY <1>3, <1>4, <1>5, <1>6, NodeOnly

\* A node succeeds.
LEMMA SucceededBase == ASSUME BaseInv, NEW c \in Routine, NodeSucceeded(c) PROVE BaseInv'
  <1>1. At(c, "complete") /\ TypeOK /\ definition \in Definitions
    BY DEF NodeSucceeded, Runs, BaseInv, TypeOK
  <1>2. PICK n \in Node : n = calls[Top(c).call].node
    BY <1>1, TopComplete DEF CallRecord
  <1> DEFINE f == [at |-> "load", node |-> n]
  <1>3. f \in Frame /\ FrameOK(f)
    BY <1>1, FrameMade DEF NodeFrames, FrameOK
  <1>4. /\ completed' = [completed EXCEPT ![n] = "done"] /\ pending' = NotPending(n)
        /\ Become(c, <<f>>, "load") /\ UNCHANGED <<strays, outputs, failed>>
        /\ UNCHANGED <<groupVars, callVars, hostVars, timerVars>>
    BY <1>2 DEF NodeSucceeded
  <1> HIDE DEF f
  <1>5. NodeType' /\ StaysDone
    BY <1>1, <1>4, CompleteType DEF Become
  <1>6. routines[c] # << >>
    BY <1>1 DEF At
  <1> QED
    BY <1>3, <1>4, <1>5, <1>6, NodeOnly

\* An iteration or item that is in no branch is counted as a node.
LEMMA StrayCompletedBase == ASSUME BaseInv, NEW c \in Routine, StrayCompleted(c) PROVE BaseInv'
  <1>1. At(c, "complete") /\ TypeOK /\ definition \in Definitions
    BY DEF StrayCompleted, Runs, BaseInv, TypeOK
  <1>2. PICK call \in CallRecord : call = calls[Top(c).call]
    BY <1>1, TopComplete
  <1>3. PICK f \in Frame : f = [at |-> "strayed"]
    BY <1>1, FrameMade
  <1>4. /\ strays' = strays \cup {<<call.node, call.index>>}
        /\ Become(c, <<f>>, "load") /\ UNCHANGED <<completed, outputs, pending, failed>>
        /\ UNCHANGED <<groupVars, callVars, hostVars, timerVars>>
    BY <1>2, <1>3 DEF StrayCompleted
  <1>5. IsFiniteSet(strays')
    BY <1>1, <1>4, FS_AddElement DEF TypeOK
  <1>6. StaysDone
    BY <1>4 DEF StaysDone
  <1>7. NodeType'
    <2>1. Node' = Node
      BY <1>4, SameDefinition DEF Become
    <2>2. call.node \in Node /\ call.index \in Nat
      BY <1>2 DEF CallRecord
    <2> QED
      BY <1>1, <1>4, <1>5, <2>1, <2>2 DEF NodeType, TypeOK
  <1>8. FrameOK(f) /\ routines[c] # << >>
    BY <1>1, <1>3 DEF At, FrameOK
  <1> QED
    BY <1>4, <1>6, <1>7, <1>8, NodeOnly

\* Then the graph is scheduled.
LEMMA StrayLoadedBase == ASSUME BaseInv, NEW c \in Routine, StrayLoaded(c) PROVE BaseInv'
  <1>1. /\ routines[c] # << >> /\ Become(c, <<Schedule>>, "nothing") /\ TypeOK
        /\ UNCHANGED <<nodeVars, groupVars, callVars, hostVars, timerVars>>
    BY DEF StrayLoaded, At, BaseInv
  <1> QED
    BY <1>1, ScheduleOK, QuietOne

\* The next node of a batch is executed: it is still behind its dependencies.
LEMMA ExecuteBase == ASSUME BaseInv, NEW c \in Routine, ExecuteNext(c) PROVE BaseInv'
  <1>1. At(c, "batch") /\ TypeOK /\ StackOK /\ definition \in Definitions
    BY StackFromType DEF ExecuteNext, BaseInv, TypeOK
  <1>2. /\ Top(c) \in Frame /\ Top(c) \in Frames /\ Top(c).at = "batch" /\ routines[c] # << >>
    BY <1>1, TopFrame
  <1>3. Top(c).todo \subseteq Node /\ \A n \in Top(c).todo : Behind(n)
    BY <1>2, FrameFields DEF BaseInv, FrameOK
  <1>4. /\ pending' = [n \in Node |-> IF n \in Top(c).started /\ completed[n] = "no"
                                      THEN pending[n] + 1 ELSE pending[n]]
        /\ UNCHANGED <<completed, strays, outputs, failed, groupVars, callVars, hostVars,
                       timerVars>>
    BY DEF ExecuteNext
  <1>5. definition' = definition
    BY DEF ExecuteNext, Become
  <1>6. NodeType' /\ StaysDone
    <2>1. Node' = Node
      BY <1>5, SameDefinition
    <2>2. pending' \in [Node -> Nat]
      BY <1>1, <1>4 DEF TypeOK
    <2> QED
      BY <1>1, <1>4, <2>1, <2>2 DEF NodeType, TypeOK, StaysDone
  <1>7. CASE Become(c, <<Schedule>>, "session")
    BY <1>1, <1>2, <1>4, <1>6, <1>7, ScheduleOK, NodeOnly
  <1>8. ASSUME NEW n \in Top(c).todo,
               Become(c, <<[at |-> "execute", node |-> n],
                           [at |-> "batch", todo |-> Top(c).todo \ {n}, started |-> {n}]>>,
                      "nothing")
        PROVE  BaseInv'
    <2> DEFINE f == [at |-> "execute", node |-> n]
               g == [at |-> "batch", todo |-> Top(c).todo \ {n}, started |-> {n}]
    <2>1. f \in Frame /\ FrameOK(f)
      BY <1>1, <1>3, FrameMade DEF NodeFrames, FrameOK
    <2>2. g \in Frame
      <3>1. Top(c).todo \ {n} \in SUBSET Node /\ {n} \in SUBSET Node
        BY <1>3
      <3> QED
        BY <1>1, <3>1, FrameMade
    <2>3. FrameOK(g)
      BY <1>3 DEF FrameOK
    <2> HIDE DEF f, g
    <2>4. PICK frames \in Seq(Frame) : frames = <<f, g>> /\ Elements(frames) = {f, g}
      BY <2>1, <2>2, FewFrames
    <2>5. Become(c, frames, "nothing") /\ \A h \in Elements(frames) : FrameOK(h)
      BY <1>8, <2>1, <2>3, <2>4 DEF f, g
    <2>6. GroupType' /\ CallType' /\ HostType' /\ TimerType'
      <3>1. UNCHANGED <<tracked, hostVars>> /\ UNCHANGED <<tracked, timerVars>>
        BY <1>4 DEF callVars
      <3> QED
        BY <1>1, <1>4, <1>5, <3>1, SameTypes
    <2>7. open' = open /\ calls' = calls /\ responses' = responses
      BY <1>4 DEF groupVars, callVars, hostVars
    <2> QED
      BY <1>2, <1>6, <2>5, <2>6, <2>7, ActBase
  <1> QED
    BY <1>7, <1>8 DEF ExecuteNext

-----------------------------------------------------------------------------
(* The steps that change loops and maps.                                   *)

\* A step that leaves the nodes alone.
LEMMA SameNodes ==
    ASSUME BaseInv, definition' = definition, UNCHANGED nodeVars
    PROVE  NodeType' /\ StaysDone
  <1>1. TypeOK
    BY DEF BaseInv
  <1> QED
    BY <1>1, SameTypes DEF nodeVars, StaysDone

\* The output of an iteration is loaded and its branch closed.
LEMMA IterationLoadedBase == ASSUME BaseInv, NEW c \in Routine, IterationLoaded(c) PROVE BaseInv'
  <1>1. At(c, "looped") /\ TypeOK /\ "looped" \in NodeFrames /\ definition \in Definitions
    BY DEF IterationLoaded, BaseInv, TypeOK, NodeFrames
  <1>2. PICK n \in Node : n = Top(c).node
    BY <1>1, TopNode
  <1> DEFINE f == [at |-> "loop", node |-> n]
  <1>3. /\ n \in open /\ outputs' = outputs \cup Target[n]
        /\ open' = open \ {n} /\ branches' = [branches EXCEPT ![n] = {}]
        /\ Become(c, <<f>>, "nothing")
        /\ UNCHANGED <<completed, strays, pending, failed, iterations, answered, mapState,
                       callVars, hostVars, timerVars>>
    BY <1>2 DEF IterationLoaded
  <1>4. Behind(n)
    BY <1>3 DEF BaseInv
  <1>5. f \in Frame /\ FrameOK(f)
    BY <1>1, <1>4, FrameMade DEF NodeFrames, FrameOK
  <1> HIDE DEF f
  <1>6. Node' = Node /\ MapRecord' = MapRecord /\ MaxIterations' = MaxIterations
    BY <1>3, SameDefinition DEF Become, MapRecord
  <1>7. NodeType' /\ StaysDone
    <2>1. Target[n] \subseteq Node
      BY <1>1, DefinitionFacts
    <2> QED
      BY <1>1, <1>3, <1>6, <2>1 DEF NodeType, TypeOK, StaysDone
  <1>8. GroupType'
    BY <1>1, <1>3, <1>6 DEF GroupType, TypeOK, MapRecord
  <1>9. open' \subseteq open /\ routines[c] # << >>
    BY <1>1, <1>3 DEF At
  <1> QED
    BY <1>3, <1>5, <1>7, <1>8, <1>9, NodeStep

\* A map opens its branch.
LEMMA StartMapBase == ASSUME BaseInv, NEW c \in Routine, StartMap(c) PROVE BaseInv'
  <1>1. At(c, "execute") /\ TypeOK /\ "execute" \in NodeFrames /\ definition \in Definitions
    BY DEF StartMap, Runs, BaseInv, TypeOK, NodeFrames
  <1>2. PICK n \in Node : n = Top(c).node /\ Behind(n)
    BY <1>1, TopNode
  <1> DEFINE f == [at |-> "launch", node |-> n]
  <1>3. /\ mapState' = [mapState EXCEPT ![n] = [next |-> 0, count |-> 0, active |-> {}]]
        /\ open' = open \cup {n} /\ branches' = [branches EXCEPT ![n] = {}]
        /\ Become(c, <<f>>, "nothing")
        /\ UNCHANGED <<nodeVars, iterations, answered, callVars, hostVars, timerVars>>
    BY <1>2 DEF StartMap
  <1>4. f \in Frame /\ FrameOK(f)
    BY <1>1, <1>2, FrameMade DEF NodeFrames, FrameOK
  <1> HIDE DEF f
  <1>5. Node' = Node /\ MapRecord' = MapRecord /\ MaxIterations' = MaxIterations
        /\ definition' = definition
    BY <1>3, SameDefinition DEF Become, MapRecord
  <1>6. GroupType'
    <2>1. [next |-> 0, count |-> 0, active |-> {}] \in MapRecord
      <3>1. Items \in Nat
        BY <1>1, DefinitionFacts
      <3> QED
        BY <3>1 DEF MapRecord
    <2>2. mapState' \in [Node -> MapRecord]
      BY <1>1, <1>3, <2>1 DEF TypeOK, MapRecord
    <2> QED
      BY <1>1, <1>3, <1>5, <2>2 DEF GroupType, TypeOK
  <1>7. \A m \in open' : m \in open \/ Behind(m)'
    <2>1. UNCHANGED <<definition, completed>>
      BY <1>3, <1>5 DEF nodeVars
    <2>2. Behind(n)'
      BY <1>2, <1>5, <2>1, SameDefinition DEF Behind
    <2> QED
      BY <1>3, <2>2
  <1>8. routines[c] # << >>
    BY <1>1 DEF At
  <1>9. NodeType' /\ StaysDone
    BY <1>3, <1>5, SameNodes
  <1> QED
    BY <1>3, <1>4, <1>6, <1>7, <1>8, <1>9, NodeStep

\* A map completes and closes its branch.
LEMMA FinalizeMapBase == ASSUME BaseInv, NEW c \in Routine, FinalizeMap(c) PROVE BaseInv'
  <1>1. At(c, "aggregate") /\ TypeOK /\ "aggregate" \in NodeFrames /\ definition \in Definitions
    BY DEF FinalizeMap, BaseInv, TypeOK, NodeFrames
  <1>2. PICK n \in Node : n = Top(c).node
    BY <1>1, TopNode
  <1>3. /\ completed' = [completed EXCEPT ![n] = "done"] /\ pending' = NotPending(n)
        /\ outputs' = outputs \cup {n} /\ open' = open \ {n}
        /\ branches' = [branches EXCEPT ![n] = {}]
        /\ Become(c, <<Schedule>>, "nothing")
        /\ UNCHANGED <<strays, failed, iterations, answered, mapState, callVars, hostVars,
                       timerVars>>
    BY <1>2 DEF FinalizeMap
  <1>4. Node' = Node /\ MapRecord' = MapRecord /\ MaxIterations' = MaxIterations
        /\ definition' = definition
    BY <1>3, SameDefinition DEF Become, MapRecord
  <1>5. NodeType' /\ StaysDone
    BY <1>1, <1>3, <1>4, CompleteType
  <1>6. GroupType'
    BY <1>1, <1>3, <1>4 DEF GroupType, TypeOK, MapRecord
  <1>7. open' \subseteq open /\ routines[c] # << >>
    BY <1>1, <1>3 DEF At
  <1> QED
    BY <1>1, <1>3, <1>5, <1>6, <1>7, ScheduleOK, NodeStep

\* An iteration succeeds.
LEMMA IterationBase == ASSUME BaseInv, NEW c \in Routine, IterationSucceeded(c) PROVE BaseInv'
  <1>1. At(c, "complete") /\ TypeOK /\ definition \in Definitions
    BY DEF IterationSucceeded, Runs, BaseInv, TypeOK
  <1>2. Top(c).call \in Call /\ routines[c] # << >>
    BY <1>1, TopComplete
  <1>3. PICK n \in ParentOf(Top(c).call, "loop") :
          Become(c, <<[at |-> "looped", node |-> n]>>, "load")
    BY DEF IterationSucceeded
  <1>4. n \in Node
    BY <1>1, <1>3 DEF ParentOf, TypeOK
  <1> DEFINE f == [at |-> "looped", node |-> n]
  <1>5. f \in Frame /\ FrameOK(f)
    BY <1>1, <1>4, FrameMade DEF NodeFrames, FrameOK
  <1>6. /\ answered' = answered \cup {Top(c).call} /\ definition' = definition
        /\ UNCHANGED <<nodeVars, iterations, open, branches, mapState, callVars, hostVars,
                       timerVars>>
    BY <1>3 DEF IterationSucceeded, Become
  <1> HIDE DEF f
  <1>7. Node' = Node /\ MapRecord' = MapRecord /\ MaxIterations' = MaxIterations
    BY <1>6, SameDefinition DEF MapRecord
  <1>8. GroupType' /\ open' = open
    BY <1>1, <1>2, <1>6, <1>7 DEF GroupType, TypeOK, MapRecord
  <1>9. NodeType' /\ StaysDone
    BY <1>6, SameNodes
  <1>10. Become(c, <<f>>, "load")
    BY <1>3 DEF f
  <1> QED
    BY <1>2, <1>5, <1>6, <1>8, <1>9, <1>10, NodeStep

\* An item succeeds: its launcher and the check follow.
LEMMA ItemBase == ASSUME BaseInv, NEW c \in Routine, ItemSucceeded(c) PROVE BaseInv'
  <1>1. At(c, "complete") /\ TypeOK /\ definition \in Definitions
    BY DEF ItemSucceeded, Runs, BaseInv, TypeOK
  <1>2. Top(c).call \in Call /\ routines[c] # << >>
    BY <1>1, TopComplete
  <1>3. PICK n \in ParentOf(Top(c).call, "map") :
          /\ mapState' = [mapState EXCEPT ![n] =
                 [next |-> @.next, count |-> @.count + 1,
                  active |-> @.active \ {calls[Top(c).call].index}]]
          /\ Become(c, <<[at |-> "launch", node |-> n], [at |-> "mapcheck", node |-> n]>>,
                    "nothing")
    BY DEF ItemSucceeded
  <1>4. n \in Node /\ Behind(n)
    BY <1>1, <1>3 DEF ParentOf, TypeOK, BaseInv
  <1> DEFINE f == [at |-> "launch", node |-> n]
             g == [at |-> "mapcheck", node |-> n]
  <1>5. f \in Frame /\ FrameOK(f) /\ g \in Frame /\ FrameOK(g)
    BY <1>1, <1>4, FrameMade DEF NodeFrames, FrameOK
  <1>6. /\ answered' = answered \cup {Top(c).call} /\ definition' = definition
        /\ UNCHANGED <<nodeVars, iterations, open, branches, callVars, hostVars, timerVars>>
    BY <1>3 DEF ItemSucceeded, Become
  <1>7. Become(c, <<f, g>>, "nothing")
    BY <1>3
  <1> HIDE DEF f, g
  <1>8. Node' = Node /\ MapRecord' = MapRecord /\ MaxIterations' = MaxIterations
    BY <1>6, SameDefinition DEF MapRecord
  <1>9. GroupType'
    <2>1. mapState \in [Node -> MapRecord]
      BY <1>1 DEF TypeOK, MapRecord
    <2>2. PICK m \in MapRecord : m = mapState[n]
      BY <1>4, <2>1
    <2>3. PICK i : i = calls[Top(c).call].index
      OBVIOUS
    <2>4. PICK new : new = [next |-> m.next, count |-> m.count + 1, active |-> m.active \ {i}]
      OBVIOUS
    <2>5. new \in MapRecord
      <3>1. m.next \in 0 .. Items /\ m.count \in Nat /\ m.active \subseteq 0 .. Items
        BY DEF MapRecord
      <3> QED
        BY <2>4, <3>1 DEF MapRecord
    <2>7. mapState' = [mapState EXCEPT ![n] = new]
      BY <1>3, <1>4, <2>1, <2>2, <2>3, <2>4
    <2>6. mapState' \in [Node -> MapRecord]
      BY <1>4, <2>1, <2>5, <2>7
    <2> QED
      BY <1>1, <1>2, <1>6, <1>8, <2>6 DEF GroupType, TypeOK
  <1>10. NodeType' /\ StaysDone
    BY <1>6, SameNodes
  <1>11. PICK frames \in Seq(Frame) : frames = <<f, g>> /\ Elements(frames) = {f, g}
    BY <1>5, FewFrames
  <1>12. Become(c, frames, "nothing") /\ \A h \in Elements(frames) : FrameOK(h)
    BY <1>5, <1>7, <1>11
  <1>13. CallType' /\ HostType' /\ TimerType'
    <2>1. UNCHANGED <<tracked, hostVars>> /\ UNCHANGED <<tracked, timerVars>>
      BY <1>6 DEF callVars
    <2> QED
      BY <1>1, <1>6, <2>1, SameTypes
  <1>14. open' = open /\ calls' = calls /\ responses' = responses
    BY <1>6 DEF callVars, hostVars
  <1> QED
    BY <1>2, <1>9, <1>10, <1>12, <1>13, <1>14, ActBase
-----------------------------------------------------------------------------
(* The steps that start, publish and lose calls.                           *)

\* A new sub-task is recorded, for a node whose dependencies are behind it.
LEMMA NewCall ==
    ASSUME TypeOK, NEW c, NEW n \in Node, NEW index \in Nat, NEW rest,
           StartCall(c, n, index, rest)
    PROVE  /\ calls' \in Seq(CallRecord) /\ Len(calls') <= MaxCalls
           /\ DOMAIN calls' = DOMAIN calls \cup {Len(calls) + 1}
           /\ Len(calls) + 1 \in Call
           /\ calls'[Len(calls) + 1].node = n /\ calls'[Len(calls) + 1].index = index
           /\ calls'[Len(calls) + 1].unread = Unread(n)
           /\ \A k \in DOMAIN calls : calls'[k] = calls[k]
  <1> DEFINE r == [node |-> n, index |-> index, unread |-> Unread(n)]
  <1>1. r \in CallRecord
    <2>1. DependsOn \in [Node -> SUBSET Node] /\ Target \in [Node -> SUBSET Node]
      BY DefinitionFacts DEF TypeOK
    <2>2. Unread(n) \subseteq Node
      BY <2>1 DEF Unread
    <2> QED
      BY <2>2 DEF CallRecord
  <1>2. calls \in Seq(CallRecord) /\ Len(calls) \in Nat /\ DOMAIN calls = 1 .. Len(calls)
    BY LenProperties DEF TypeOK, CallRecord
  <1>3. calls' = Append(calls, r) /\ Len(calls) < MaxCalls /\ MaxCalls \in Nat
    BY BoundsAssumption DEF StartCall
  <1>4. r.node = n /\ r.index = index /\ r.unread = Unread(n)
    OBVIOUS
  <1> HIDE DEF r
  <1>5. /\ Append(calls, r) \in Seq(CallRecord) /\ Len(Append(calls, r)) = Len(calls) + 1
        /\ \A i \in 1 .. Len(calls) : Append(calls, r)[i] = calls[i]
        /\ Append(calls, r)[Len(calls) + 1] = r
    BY <1>1, <1>2, AppendProperties
  <1>6. DOMAIN Append(calls, r) = 1 .. Len(calls) + 1
    BY <1>5, LenProperties
  <1> QED
    BY <1>2, <1>3, <1>4, <1>5, <1>6 DEF Call

\* Starting a call keeps everything, for a node whose dependencies are behind it.
LEMMA StartBase ==
    ASSUME BaseInv, NEW c \in Routine, routines[c] # << >>,
           NEW n \in Node, Behind(n), NEW index \in Nat,
           NEW rest \in Seq(Frame), \A f \in Elements(rest) : FrameOK(f),
           StartCall(c, n, index, rest),
           GroupType', open' \subseteq open \cup {n},
           UNCHANGED <<nodeVars, tracked, hostVars, timerVars>>
    PROVE  BaseInv'
  <1>1. TypeOK /\ definition \in Definitions /\ definition' = definition
    BY DEF BaseInv, TypeOK, StartCall, Become
  <1>2. /\ calls' \in Seq(CallRecord) /\ Len(calls') <= MaxCalls
        /\ DOMAIN calls' = DOMAIN calls \cup {Len(calls) + 1}
        /\ Len(calls) + 1 \in Call
        /\ calls'[Len(calls) + 1].node = n
        /\ \A k \in DOMAIN calls : calls'[k] = calls[k]
    BY <1>1, NewCall
  <1>5. PICK f \in Frame : f = [at |-> "publish", call |-> Len(calls) + 1]
    BY <1>1, <1>2, FrameMade
  <1>3. /\ completed' = completed /\ Become(c, <<f>> \o rest, "save")
        /\ UNCHANGED <<tracked, hostVars>> /\ UNCHANGED <<tracked, timerVars>>
        /\ responses' = responses /\ tracked' = tracked /\ UNCHANGED nodeVars
    BY <1>5 DEF StartCall, nodeVars, hostVars
  <1>4. Behind(n)'
    BY <1>1, <1>3, SameDefinition DEF Behind
  <1>6. FrameOK(f)'
    BY <1>2, <1>5 DEF FrameOK
  <1>7. PICK frames \in Seq(Frame) : frames = <<f>> \o rest
                                     /\ Elements(frames) \subseteq {f} \cup Elements(rest)
    <2>1. PICK one \in Seq(Frame) : one = <<f>> /\ Elements(one) = {f}
      BY <1>5, FewFrames
    <2>2. one \o rest \in Seq(Frame) /\ Elements(one \o rest) \subseteq Elements(one) \cup Elements(rest)
      BY StackElements
    <2> QED
      BY <2>1, <2>2
  <1>8. Become(c, frames, "save") /\ \A g \in Elements(frames) : FrameOK(g) \/ FrameOK(g)'
    BY <1>3, <1>6, <1>7
  <1>9. NodeType' /\ HostType' /\ TimerType'
    BY <1>1, <1>3, SameTypes
  <1>10. CallType'
    <2>1. CallRecord' = CallRecord
      BY <1>1, SameDefinition DEF CallRecord
    <2>2. tracked \subseteq DOMAIN calls
      BY <1>1 DEF TypeOK
    <2> QED
      BY <1>2, <1>3, <2>1, <2>2 DEF CallType
  <1>11. \A k \in DOMAIN calls' : \/ k \in DOMAIN calls /\ calls'[k] = calls[k]
                                  \/ CallOK(k)'
    BY <1>2, <1>4 DEF CallOK
  <1>12. \A m \in open' : m \in open \/ Behind(m)'
    BY <1>4
  <1>13. /\ StaysDone
         /\ DOMAIN calls \subseteq DOMAIN calls'
    BY <1>2, <1>3 DEF StaysDone, nodeVars
  <1> QED
    BY <1>3, <1>8, <1>9, <1>10, <1>11, <1>12, <1>13, ActBase

\* An agent node is called.
LEMMA CallBase == ASSUME BaseInv, NEW c \in Routine, CallAgent(c) PROVE BaseInv'
  <1>1. At(c, "execute") /\ TypeOK /\ "execute" \in NodeFrames
    BY DEF CallAgent, Runs, BaseInv, NodeFrames
  <1>2. PICK n \in Node : n = Top(c).node /\ Behind(n)
    BY <1>1, TopNode
  <1>3. PICK rest \in Seq(Frame) : rest = << >> /\ Elements(rest) = {}
    BY FewFrames
  <1>4. StartCall(c, n, 0, rest) /\ UNCHANGED <<nodeVars, groupVars, tracked, hostVars, timerVars>>
    BY <1>2, <1>3 DEF CallAgent
  <1>5. GroupType' /\ open' = open
    <2>1. definition' = definition
      BY <1>4 DEF StartCall, Become
    <2> QED
      BY <1>1, <1>4, <2>1, SameTypes DEF groupVars
  <1>6. routines[c] # << >> /\ UNCHANGED <<nodeVars, tracked, hostVars, timerVars>>
    BY <1>1, <1>4 DEF At
  <1> QED
    BY <1>2, <1>3, <1>4, <1>5, <1>6, StartBase

\* An iteration is called.
LEMMA IterateBase == ASSUME BaseInv, NEW c \in Routine, Iterate(c) PROVE BaseInv'
  <1>1. At(c, "iterate") /\ TypeOK /\ StackOK /\ definition \in Definitions
    BY StackFromType DEF Iterate, BaseInv, TypeOK
  <1>2. /\ Top(c) \in Frame /\ Top(c) \in Frames /\ Top(c).at = "iterate" /\ routines[c] # << >>
    BY <1>1, TopFrame
  <1>3. PICK n \in Node, i \in 0 .. (MaxIterations - 1) : n = Top(c).node /\ i = Top(c).index
    BY <1>2, FrameFields
  <1>4. Behind(n)
    BY <1>2, <1>3 DEF BaseInv, FrameOK
  <1>5. PICK rest \in Seq(Frame) : rest = << >> /\ Elements(rest) = {}
    BY FewFrames
  <1>6. /\ iterations' = [iterations EXCEPT ![n] = i + 1] /\ open' = open \cup {n}
        /\ branches' = [branches EXCEPT ![n] = {Len(calls) + 1}]
        /\ StartCall(c, n, i, rest)
        /\ UNCHANGED <<nodeVars, answered, mapState, tracked, hostVars, timerVars>>
    BY <1>3, <1>5 DEF Iterate
  <1>7. MaxIterations \in Nat /\ i \in Nat /\ i + 1 \in 0 .. MaxIterations
    <2>1. MaxIterations \in Nat
      BY <1>1, DefinitionFacts
    <2> QED
      BY <2>1
  <1>8. Len(calls) + 1 \in Call /\ definition' = definition
    BY <1>1, <1>6, <1>7, NewCall DEF StartCall, Become
  <1>9. GroupType' /\ open' \subseteq open \cup {n}
    <2>1. Node' = Node /\ MapRecord' = MapRecord /\ MaxIterations' = MaxIterations
      BY <1>8, SameDefinition DEF MapRecord
    <2>2. iterations' \in [Node -> 0 .. MaxIterations]
      BY <1>1, <1>6, <1>7 DEF TypeOK
    <2>3. branches' \in [Node -> SUBSET Call]
      BY <1>1, <1>6, <1>8 DEF TypeOK
    <2> QED
      BY <1>1, <1>6, <2>1, <2>2, <2>3 DEF GroupType, TypeOK, MapRecord
  <1>10. UNCHANGED <<nodeVars, tracked, hostVars, timerVars>>
    BY <1>6
  <1> QED
    BY <1>2, <1>4, <1>5, <1>6, <1>7, <1>9, <1>10, StartBase

\* An item is called.
LEMMA LaunchBase == ASSUME BaseInv, NEW c \in Routine, LaunchItem(c) PROVE BaseInv'
  <1>1. At(c, "launch") /\ TypeOK /\ StackOK /\ definition \in Definitions
    BY StackFromType DEF LaunchItem, BaseInv, TypeOK
  <1>2. /\ Top(c) \in Frame /\ Top(c) \in Frames /\ Top(c).at = "launch" /\ routines[c] # << >>
    BY <1>1, TopFrame
  <1>3. PICK n \in Node : n = Top(c).node
    BY <1>2, FrameFields DEF NodeFrames
  <1>4. Behind(n)
    BY <1>2, <1>3 DEF BaseInv, FrameOK
  <1>5. mapState \in [Node -> MapRecord]
    BY <1>1 DEF TypeOK, MapRecord
  <1>6. PICK m \in MapRecord : m = mapState[n]
    BY <1>5
  <1>7. PICK new : new = [next |-> m.next + 1, count |-> m.count, active |-> m.active \cup {m.next}]
    OBVIOUS
  <1>8. PICK top \in Frame : top = Top(c)
    BY <1>2
  <1>9. PICK rest \in Seq(Frame) : rest = <<top>> /\ Elements(rest) = {top}
    BY FewFrames
  <1>10. /\ m.next < Items /\ mapState' = [mapState EXCEPT ![n] = new]
         /\ StartCall(c, n, m.next, rest)
         /\ UNCHANGED <<nodeVars, iterations, open, branches, answered, tracked, hostVars, timerVars>>
    BY <1>3, <1>6, <1>7, <1>8, <1>9 DEF LaunchItem
  <1>11. new \in MapRecord /\ m.next \in Nat
    <2>1. m.next \in 0 .. Items /\ m.count \in Nat /\ m.active \subseteq 0 .. Items
      BY DEF MapRecord
    <2>2. m.next + 1 \in 0 .. Items
      BY <1>1, <1>10, <2>1, DefinitionFacts
    <2> QED
      BY <1>7, <2>1, <2>2 DEF MapRecord
  <1>12. GroupType' /\ open' = open
    <2>1. definition' = definition
      BY <1>10 DEF StartCall, Become
    <2>2. Node' = Node /\ MapRecord' = MapRecord /\ MaxIterations' = MaxIterations
      BY <2>1, SameDefinition DEF MapRecord
    <2>3. mapState' \in [Node -> MapRecord]
      BY <1>5, <1>10, <1>11
    <2> QED
      BY <1>1, <1>10, <2>2, <2>3 DEF GroupType, TypeOK
  <1>13. FrameOK(top) /\ UNCHANGED <<nodeVars, tracked, hostVars, timerVars>>
    BY <1>2, <1>8, <1>10 DEF BaseInv
  <1> QED
    BY <1>2, <1>4, <1>9, <1>10, <1>11, <1>12, <1>13, StartBase

-----------------------------------------------------------------------------
(* The publication of a call, errors, responses and the host's steps.      *)

\* A call is published, timed and tracked.
LEMMA PublishCallBase == ASSUME BaseInv, NEW c \in Routine, PublishCall(c) PROVE BaseInv'
  <1>1. At(c, "publish") /\ TypeOK /\ definition' = definition
    BY DEF PublishCall, BaseInv, Become
  <1>2. PICK k : k = Top(c).call
    OBVIOUS
  <1>3. k \in Call /\ k \in DOMAIN calls /\ calls[k] \in CallRecord /\ routines[c] # << >>
    BY <1>1, <1>2, TopComplete
  <1>4. PICK n \in Node : n = calls[k].node
    BY <1>3 DEF CallRecord
  <1>5. /\ tracked' = tracked \cup {k} /\ cached' = cached \cup {k}
        /\ branches' = IF Kind[n] = "map" THEN [branches EXCEPT ![n] = @ \cup {k}] ELSE branches
        /\ Become(c, << >>, "nothing")
        /\ UNCHANGED <<nodeVars, iterations, open, answered, mapState, calls, hostVars, expired>>
    BY <1>2, <1>4 DEF PublishCall
  <1>6. Node' = Node /\ MapRecord' = MapRecord /\ MaxIterations' = MaxIterations
        /\ CallRecord' = CallRecord
    BY <1>1, SameDefinition DEF MapRecord, CallRecord
  <1>7. GroupType'
    <2>1. branches' \in [Node -> SUBSET Call]
      BY <1>1, <1>3, <1>5 DEF TypeOK
    <2> QED
      BY <1>1, <1>5, <1>6, <2>1 DEF GroupType, TypeOK, MapRecord
  <1>8. CallType' /\ HostType' /\ TimerType'
    BY <1>1, <1>3, <1>5, <1>6 DEF CallType, HostType, TimerType, hostVars, TypeOK, CallRecord
  <1>9. NodeType' /\ StaysDone
    BY <1>1, <1>5, SameNodes
  <1>10. calls' = calls /\ open' = open /\ responses' = responses
    BY <1>5 DEF hostVars
  <1> QED
    BY <1>3, <1>5, <1>7, <1>8, <1>9, <1>10, FewFrames, ActBase

\* One more response, that is not a success or comes when all is done.
LEMMA MoreResponses ==
    ASSUME BaseInv, NEW o \in Outcome, o = "success" => AllDone
    PROVE  /\ Append(responses, o) \in Seq(Outcome)
           /\ \A i \in DOMAIN Append(responses, o) :
                Append(responses, o)[i] = "success" => AllDone
  <1>1. /\ responses \in Seq(Outcome) /\ DOMAIN responses = 1 .. Len(responses)
        /\ Len(responses) \in Nat
        /\ \A i \in DOMAIN responses : responses[i] = "success" => AllDone
    BY LenProperties DEF BaseInv, TypeOK
  <1>2. /\ Append(responses, o) \in Seq(Outcome) /\ Len(Append(responses, o)) = Len(responses) + 1
        /\ \A i \in 1 .. Len(responses) : Append(responses, o)[i] = responses[i]
        /\ Append(responses, o)[Len(responses) + 1] = o
    BY <1>1, AppendProperties
  <1>3. DOMAIN Append(responses, o) = 1 .. Len(responses) + 1
    BY <1>2, LenProperties
  <1> QED
    BY <1>1, <1>2, <1>3

\* An exception, which may lose a step that has completed a node.
LEMMA RaiseAfter ==
    ASSUME BaseInv, NEW c \in Routine, routines[c] # << >>, Raise(c),
           NodeType', StaysDone, CallType', TimerType', calls' = calls,
           tracked \subseteq tracked', UNCHANGED <<groupVars, cancelled, active, stopped>>
    PROVE  BaseInv'
  <1>1. TypeOK /\ StackOK /\ definition \in Definitions
    BY StackFromType DEF BaseInv, StackOK
  <1>2. PICK f : f = Finalize("failure")
    OBVIOUS
  <1>3. /\ StackOK' /\ definition' = definition
        /\ Frames' \subseteq Frames \cup {f}
        /\ failed' = TRUE /\ responses' \in {responses, Append(responses, "failure")}
    BY <1>1, <1>2, RaiseFrames
  <1>4. f \in Frame /\ FrameOK(f)
    BY <1>1, <1>2, FinalizeOK
  <1>5. open' = open /\ UNCHANGED groupVars
    BY DEF groupVars
  <1>6. Keeps
    BY <1>3 DEF Keeps
  <1>7. FrameOK(f)'
    BY <1>1, <1>4, <1>6, KeepsDone
  <1>8. /\ "failure" \in Outcome /\ Append(responses, "failure") \in Seq(Outcome)
        /\ \A i \in DOMAIN Append(responses, "failure") :
             Append(responses, "failure")[i] = "success" => AllDone
    BY MoreResponses DEF Outcome
  <1>9. TypeOK'
    <2>1. GroupType'
      BY <1>1, <1>3, <1>5, SameTypes
    <2>2. NodeType' /\ CallType' /\ TimerType'
      OBVIOUS
    <2>3. HostType'
      BY <1>1, <1>3, <1>8 DEF HostType, TypeOK
    <2> QED
      BY <1>3, <2>1, <2>2, <2>3, TypeParts, PTL
  <1>10. responses' = responses
           \/ \A i \in DOMAIN responses' : responses'[i] = "success" => AllDone
    BY <1>3, <1>8
  <1>11. PICK new : new = {f}
    OBVIOUS
  <1>12. Frames' \subseteq Frames \cup new /\ \A g \in new : FrameOK(g)'
    BY <1>3, <1>7, <1>11
  <1> QED
    BY <1>5, <1>6, <1>9, <1>10, <1>12, StepBase

\* An exception that changes nothing else.
LEMMA RaiseBase ==
    ASSUME BaseInv, NEW c \in Routine, routines[c] # << >>, Raise(c),
           UNCHANGED <<completed, strays, outputs, pending, groupVars, callVars, cancelled,
                       active, stopped, timerVars>>
    PROVE  BaseInv'
  <1>1. TypeOK /\ definition' = definition /\ failed' = TRUE
    BY DEF BaseInv, Raise
  <1>2. NodeType' /\ StaysDone
    <2>1. Node' = Node
      BY <1>1, SameDefinition
    <2> QED
      BY <1>1, <2>1 DEF NodeType, StaysDone, TypeOK
  <1>3. CallType' /\ TimerType' /\ calls' = calls /\ tracked' = tracked
    <2>1. UNCHANGED callVars /\ UNCHANGED <<tracked, timerVars>>
      BY DEF callVars
    <2> QED
      BY <1>1, <2>1, SameTypes DEF callVars
  <1> QED
    BY <1>2, <1>3, RaiseAfter

\* The three steps that raise.
LEMMA FailsBase ==
    ASSUME BaseInv, NEW c \in Routine, CallFails(c) \/ LoadFails(c) \/ OutputFails(c)
    PROVE  BaseInv'
  <1>1. /\ routines[c] # << >> /\ Raise(c)
        /\ UNCHANGED <<completed, strays, outputs, pending, groupVars, callVars, cancelled,
                       active, stopped, timerVars>>
    BY DEF CallFails, LoadFails, OutputFails, At
  <1> QED
    BY <1>1, RaiseBase

\* A map that no longer has a branch completes, or publishes an item, and raises.
LEMMA BranchGoneBase == ASSUME BaseInv, NEW c \in Routine, BranchGone(c) PROVE BaseInv'
  <1>1. PICK place \in {"looped", "aggregate", "publish"} : At(c, place)
    BY DEF BranchGone
  <1>2. /\ TypeOK /\ StackOK /\ definition \in Definitions /\ Raise(c)
        /\ definition' = definition /\ failed' = TRUE /\ calls' = calls
        /\ UNCHANGED <<strays, groupVars, cancelled, active, stopped, expired>>
    BY StackFromType DEF BranchGone, BaseInv, TypeOK, Raise
  <1>3. routines[c] # << >> /\ Top(c).at = place
    BY <1>1 DEF At, Top
  <1>4. Node' = Node /\ CallRecord' = CallRecord
    BY <1>2, SameDefinition DEF CallRecord
  <1>5. CASE place = "publish"
    <2>1. PICK k \in DOMAIN calls : k = Top(c).call
      BY <1>1, <1>5, TopComplete
    <2>2. /\ UNCHANGED <<completed, pending, outputs>>
          /\ tracked' = tracked \cup {k} /\ cached' = cached \cup {k}
      BY <1>3, <1>5, <2>1 DEF BranchGone
    <2>3. NodeType' /\ StaysDone
      BY <1>2, <1>4, <2>2 DEF NodeType, StaysDone, TypeOK
    <2>4. CallType' /\ TimerType'
      BY <1>2, <1>4, <2>1, <2>2 DEF CallType, TimerType, TypeOK, CallRecord
    <2> QED
      BY <1>2, <1>3, <2>2, <2>3, <2>4, RaiseAfter
  <1>6. CASE place \in {"looped", "aggregate"}
    <2>1. PICK n \in Node : n = Top(c).node
      BY <1>1, <1>6, TopNode DEF NodeFrames
    <2>2. tracked' = tracked /\ cached' = cached
      BY <1>3, <1>6 DEF BranchGone
    <2>3. CallType' /\ TimerType'
      BY <1>2, <1>4, <2>2 DEF CallType, TimerType, TypeOK, CallRecord
    <2>4. CASE place = "looped"
      <3>1. UNCHANGED <<completed, pending>> /\ outputs' = outputs \cup Target[n]
        BY <1>3, <2>1, <2>4 DEF BranchGone
      <3>2. Target[n] \subseteq Node
        BY <1>2, DefinitionFacts
      <3>3. NodeType' /\ StaysDone
        BY <1>2, <1>4, <3>1, <3>2 DEF NodeType, StaysDone, TypeOK
      <3> QED
        BY <1>2, <1>3, <2>2, <2>3, <3>3, RaiseAfter
    <2>5. CASE place = "aggregate"
      <3>1. /\ completed' = [completed EXCEPT ![n] = "done"] /\ pending' = NotPending(n)
            /\ outputs' = outputs \cup {n}
        BY <1>3, <2>1, <2>5 DEF BranchGone
      <3>2. NotPending(n) \in [Node -> Nat]
        BY <1>2, NotPendingType
      <3>3. NodeType' /\ StaysDone
        BY <1>2, <1>4, <3>1, <3>2 DEF NodeType, StaysDone, TypeOK
      <3> QED
        BY <1>2, <1>3, <2>2, <2>3, <3>3, RaiseAfter
    <2> QED
      BY <1>6, <2>4, <2>5
  <1> QED
    BY <1>5, <1>6

\* The final response is published.
LEMMA ResponseBase == ASSUME BaseInv, NEW c \in Routine, PublishResponse(c) PROVE BaseInv'
  <1>1. At(c, "respond") /\ TypeOK /\ StackOK /\ definition \in Definitions
    BY StackFromType DEF PublishResponse, BaseInv, TypeOK
  <1>2. /\ Top(c) \in Frame /\ Top(c) \in Frames /\ Top(c).at = "respond" /\ routines[c] # << >>
    BY <1>1, TopFrame
  <1>3. PICK o \in Outcome : o = Top(c).outcome
    BY <1>2, FrameFields
  <1>4. o = "success" => AllDone
    BY <1>2, <1>3 DEF BaseInv, FrameOK
  <1>5. PICK f \in Frame : f = [at |-> "cleanup"]
    BY <1>1, FrameMade
  <1>6. FrameOK(f)
    BY <1>5 DEF FrameOK
  <1>7. /\ responses' = Append(responses, o) /\ Become(c, <<f>>, "session")
        /\ UNCHANGED <<nodeVars, groupVars, callVars, cancelled, active, stopped, timerVars>>
    BY <1>3, <1>5 DEF PublishResponse
  <1>8. /\ responses' \in Seq(Outcome)
        /\ \A i \in DOMAIN responses' : responses'[i] = "success" => AllDone
    BY <1>4, <1>7, MoreResponses
  <1>9. definition' = definition /\ UNCHANGED <<tracked, timerVars>> /\ calls' = calls
        /\ open' = open /\ tracked' = tracked
    BY <1>7 DEF Become, callVars, groupVars
  <1>10. NodeType' /\ GroupType' /\ CallType' /\ TimerType'
         /\ StaysDone
    BY <1>1, <1>7, <1>9, SameTypes, SameNodes
  <1>11. HostType'
    BY <1>1, <1>7, <1>8, <1>9 DEF HostType, TypeOK
  <1>12. PICK frames \in Seq(Frame) : frames = <<f>> /\ Elements(frames) = {f}
    BY FewFrames
  <1>13. Become(c, frames, "session") /\ \A h \in Elements(frames) : FrameOK(h)
    BY <1>6, <1>7, <1>12
  <1> QED
    BY <1>2, <1>8, <1>9, <1>10, <1>11, <1>13, ActBase

\* The workflow leaves the active ones.
LEMMA CleanUpBase == ASSUME BaseInv, NEW c \in Routine, CleanUp(c) PROVE BaseInv'
  <1>1. TypeOK /\ routines[c] # << >>
    BY DEF CleanUp, At, BaseInv
  <1>2. /\ cached' = cached \ tracked /\ active' = FALSE /\ Become(c, << >>, "nothing")
        /\ UNCHANGED <<nodeVars, groupVars, callVars, cancelled, responses, stopped, expired>>
    BY DEF CleanUp
  <1>3. definition' = definition /\ calls' = calls /\ open' = open /\ tracked' = tracked
    BY <1>2 DEF Become, callVars, groupVars
  <1>4. NodeType' /\ GroupType' /\ CallType'
        /\ StaysDone
    BY <1>1, <1>2, <1>3, SameTypes, SameNodes
  <1>5. HostType' /\ TimerType'
    BY <1>1, <1>2, <1>3 DEF HostType, TimerType, TypeOK
  <1> QED
    BY <1>1, <1>2, <1>3, <1>4, <1>5, FewFrames, ActBase

\* A step of the host changes neither the nodes nor the calls.
LEMMA HostBase ==
    ASSUME BaseInv, StackOK', definition' = definition,
           NEW new \in SUBSET Frame, Frames' \subseteq Frames \cup new,
           \A f \in new : FrameOK(f),
           UNCHANGED <<nodeVars, groupVars, callVars, responses>>, HostType', TimerType'
    PROVE  BaseInv'
  <1>1. TypeOK
    BY DEF BaseInv
  <1>2. /\ StaysDone /\ calls' = calls /\ open' = open
        /\ UNCHANGED nodeVars /\ UNCHANGED groupVars /\ UNCHANGED callVars
    BY DEF nodeVars, groupVars, callVars, StaysDone
  <1>3. Keeps
    BY <1>2 DEF Keeps
  <1>4. \A f \in new : FrameOK(f)'
    BY <1>1, <1>3, KeepsDone
  <1>5. TypeOK'
    <2>1. NodeType' /\ GroupType' /\ CallType'
      BY <1>1, <1>2, SameTypes
    <2>2. StackOK' /\ HostType' /\ TimerType'
      OBVIOUS
    <2> QED
      BY <2>1, <2>2, TypeParts, PTL
  <1> QED
    BY <1>2, <1>3, <1>4, <1>5, StepBase

\* The stacks stay as they are.
LEMMA SameStacks ==
    ASSUME StackOK, UNCHANGED loopVars
    PROVE  StackOK' /\ definition' = definition /\ Frames' \subseteq Frames
  <1>1. definition' = definition /\ routines' = routines /\ turn' = turn
    BY DEF loopVars
  <1>2. Frame' = Frame
    BY <1>1, SameDefinition
  <1> QED
    BY <1>1, <1>2 DEF StackOK, Frames

\* A timer fires.
LEMMA ExpireBase == ASSUME BaseInv, NEW k \in Call, ExpireTimer(k) PROVE BaseInv'
  <1>1. TypeOK /\ StackOK
    BY StackFromType DEF BaseInv
  <1>2. /\ k \in cached /\ cached' = cached \ {k} /\ expired' = expired \cup {k}
        /\ UNCHANGED <<nodeVars, groupVars, callVars, hostVars, loopVars>>
    BY DEF ExpireTimer
  <1>3. StackOK' /\ definition' = definition /\ Frames' \subseteq Frames
    BY <1>1, <1>2, SameStacks
  <1>4. HostType' /\ TimerType' /\ responses' = responses
    BY <1>1, <1>2 DEF HostType, TimerType, TypeOK, hostVars, callVars
  <1>5. UNCHANGED <<nodeVars, groupVars, callVars, responses>>
    BY <1>2, <1>4
  <1>6. {} \in SUBSET Frame /\ Frames' \subseteq Frames \cup {} /\ \A f \in {} : FrameOK(f)
    BY <1>3
  <1> QED
    BY <1>3, <1>4, <1>5, <1>6, HostBase

\* A sub-task with an entry, or whose entry has expired, exists.
LEMMA CompletionOK ==
    ASSUME BaseInv, NEW k \in cached \cup expired, NEW ok \in BOOLEAN
    PROVE  /\ [at |-> "complete", call |-> k, ok |-> ok] \in Frame
           /\ FrameOK([at |-> "complete", call |-> k, ok |-> ok])
  <1>1. k \in DOMAIN calls
    BY DEF BaseInv, TypeOK
  <1>2. k \in Call
    <2>1. /\ calls \in Seq(CallRecord) /\ Len(calls) <= MaxCalls
      BY DEF BaseInv, TypeOK, CallRecord
    <2>2. DOMAIN calls = 1 .. Len(calls) /\ Len(calls) \in Nat
      BY <2>1, LenProperties
    <2> QED
      BY <1>1, <2>1, <2>2, BoundsAssumption DEF Call
  <1>3. definition \in Definitions
    BY DEF BaseInv, TypeOK
  <1> QED
    BY <1>1, <1>2, <1>3, FrameMade DEF FrameOK

\* A timeout is handled.
LEMMA TimeoutBase == ASSUME BaseInv, NEW k \in Call, HandleTimeout(k) PROVE BaseInv'
  <1>1. TypeOK /\ StackOK
    BY StackFromType DEF BaseInv
  <1>2. /\ k \in expired /\ expired' = expired \ {k}
        /\ UNCHANGED <<nodeVars, groupVars, callVars, hostVars, cached>>
    BY DEF HandleTimeout
  <1>3. PICK f \in Frame : f = [at |-> "complete", call |-> k, ok |-> FALSE] /\ FrameOK(f)
    BY <1>2, CompletionOK
  <1>4. StackOK' /\ definition' = definition /\ Frames' \subseteq Frames \cup {f}
    <2>1. CASE active
      <3>1. Begin(<<"timeout", k>>, f) /\ <<"timeout", k>> \in Routine
        BY <1>3, <2>1 DEF HandleTimeout, Routine
      <3> QED
        BY <1>1, <3>1, BeginFrames
    <2>2. CASE ~active
      <3>1. UNCHANGED loopVars
        BY <2>2 DEF HandleTimeout
      <3> QED
        BY <1>1, <3>1, SameStacks
    <2> QED
      BY <2>1, <2>2
  <1>5. HostType' /\ TimerType' /\ responses' = responses
    BY <1>1, <1>2 DEF HostType, TimerType, TypeOK, hostVars, callVars
  <1>6. UNCHANGED <<nodeVars, groupVars, callVars, responses>>
    BY <1>2, <1>5
  <1>7. {f} \in SUBSET Frame /\ \A g \in {f} : FrameOK(g)
    BY <1>3
  <1> QED
    BY <1>4, <1>5, <1>6, <1>7, HostBase

\* A response is received.
LEMMA ReceiveBase ==
    ASSUME BaseInv, NEW k \in Call, NEW reply \in Replies, ReceiveResponse(k, reply)
    PROVE  BaseInv'
  <1>1. TypeOK /\ StackOK
    BY StackFromType DEF BaseInv
  <1>2. /\ k \in cached /\ cached' = cached \ {k} /\ expired' \in {expired, expired \cup {k}}
        /\ UNCHANGED <<nodeVars, groupVars, callVars, hostVars>>
    BY DEF ReceiveResponse
  <1>3. PICK ok \in BOOLEAN : ok = (reply = "success")
    OBVIOUS
  <1>4. PICK f \in Frame : f = [at |-> "complete", call |-> k, ok |-> ok] /\ FrameOK(f)
    BY <1>2, CompletionOK
  <1>5. StackOK' /\ definition' = definition /\ Frames' \subseteq Frames \cup {f}
    <2>1. CASE reply # "canceled"
      <3>1. Begin(<<"response", k>>, f) /\ <<"response", k>> \in Routine
        BY <1>3, <1>4, <2>1 DEF ReceiveResponse, Routine
      <3> QED
        BY <1>1, <3>1, BeginFrames
    <2>2. CASE reply = "canceled"
      <3>1. UNCHANGED loopVars
        BY <2>2 DEF ReceiveResponse
      <3> QED
        BY <1>1, <3>1, SameStacks
    <2> QED
      BY <2>1, <2>2
  <1>6. HostType' /\ TimerType' /\ responses' = responses
    BY <1>1, <1>2 DEF HostType, TimerType, TypeOK, hostVars, callVars
  <1>7. UNCHANGED <<nodeVars, groupVars, callVars, responses>>
    BY <1>2, <1>6
  <1>8. {f} \in SUBSET Frame /\ \A g \in {f} : FrameOK(g)
    BY <1>4
  <1> QED
    BY <1>5, <1>6, <1>7, <1>8, HostBase

\* A cancel request is received.
LEMMA CancelBase ==
    ASSUME BaseInv, NEW q \in 1 .. MaxCancels, ReceiveCancel(q) PROVE BaseInv'
  <1>1. TypeOK /\ StackOK /\ definition \in Definitions
    BY StackFromType DEF BaseInv, StackOK
  <1>2. /\ cancelled' = TRUE /\ stopped' = stopped \cup tracked
        /\ Begin(<<"cancel", q>>, Finalize("cancelled"))
        /\ UNCHANGED <<nodeVars, groupVars, callVars, active, responses, timerVars>>
    BY DEF ReceiveCancel
  <1>3. PICK f \in Frame : f = Finalize("cancelled") /\ FrameOK(f)
    BY <1>1, FinalizeOK
  <1>4. StackOK' /\ definition' = definition /\ Frames' \subseteq Frames \cup {f}
    <2>1. <<"cancel", q>> \in Routine /\ Begin(<<"cancel", q>>, f)
      BY <1>2, <1>3 DEF Routine
    <2> QED
      BY <1>1, <2>1, BeginFrames
  <1>5. HostType' /\ TimerType' /\ UNCHANGED <<nodeVars, groupVars, callVars, responses>>
    BY <1>1, <1>2 DEF HostType, TimerType, TypeOK, timerVars, callVars
  <1>6. {f} \in SUBSET Frame /\ \A g \in {f} : FrameOK(g)
    BY <1>3
  <1> QED
    BY <1>4, <1>5, <1>6, HostBase

-----------------------------------------------------------------------------
(* The theorems.                                                           *)

\* The base invariant holds when the workflow is registered.
LEMMA InitBase == Init => BaseInv
  <1> SUFFICES ASSUME Init
               PROVE  BaseInv
    OBVIOUS
  <1>1. definition \in Definitions /\ MaxIterations \in Nat /\ Items \in Nat
    BY DefinitionFacts DEF Init
  <1>2. \A c \in Routine : routines[c] = << >> \/ routines[c] = <<Schedule>>
    BY DEF Init
  <1>3. StackOK
    <2>1. Schedule \in Frame /\ <<Schedule>> \in Seq(Frame) /\ << >> \in Seq(Frame)
      BY <1>1, FrameMade
    <2>2. routines \in [Routine -> Seq(Frame)]
      BY <2>1 DEF Init
    <2>3. turn \in Routine
      BY DEF Init, Routine
    <2> QED
      BY <1>1, <2>2, <2>3 DEF StackOK
  <1>4. Frames \subseteq {Schedule}
    <2>1. Elements(<< >>) = {} /\ Elements(<<Schedule>>) = {Schedule}
      BY DEF Elements
    <2> QED
      BY <1>2, <2>1 DEF Frames
  <1>5. NodeType /\ CallType /\ HostType /\ TimerType
    <2>1. calls = << >> /\ tracked = {} /\ responses = << >> /\ stopped = {}
          /\ cached = {} /\ expired = {} /\ MaxCalls \in Nat
          /\ cancelled = FALSE /\ active = TRUE
      BY BoundsAssumption DEF Init
    <2>2. CallType
      BY <2>1 DEF CallType
    <2>3. HostType
      <3>1. << >> \in Seq(Outcome)
        BY EmptySeq
      <3>2. responses \in Seq(Outcome) /\ stopped \subseteq tracked
        BY <2>1, <3>1
      <3>3. cancelled \in BOOLEAN /\ active \in BOOLEAN
        BY <2>1, Zenon
      <3> QED
        BY <3>2, <3>3, Zenon DEF HostType
    <2>5. TimerType
      BY <2>1 DEF TimerType
    <2>4. NodeType
      BY FS_EmptySet DEF NodeType, Init
    <2> QED
      BY <2>2, <2>3, <2>4, <2>5
  <1>6. GroupType
    <2>1. [next |-> 0, count |-> 0, active |-> {}] \in MapRecord
      BY <1>1 DEF MapRecord
    <2>2. mapState \in [Node -> MapRecord]
      BY <2>1 DEF Init
    <2> QED
      BY <1>1, <2>2 DEF GroupType, Init
  <1>7. TypeOK
    BY <1>3, <1>5, <1>6, TypeParts
  <1>8. FrameOK(Schedule)
    BY <1>7, ScheduleOK
  <1>9. open = {} /\ DOMAIN calls = {} /\ DOMAIN responses = {}
    BY DEF Init
  <1> QED
    BY <1>4, <1>7, <1>8, <1>9 DEF BaseInv

\* A step of a coroutine.
LEMMA RoutineBase == ASSUME BaseInv, NEW c \in Routine, Step(c) PROVE BaseInv'
  <1>1. CASE StopCancelled(c) \/ ScheduleNodes(c) \/ ExecuteNext(c)
    BY <1>1, StopBase, ScheduleBase, ExecuteBase
  <1>2. CASE CallAgent(c) \/ SkipNode(c) \/ PublishCall(c) \/ CallFails(c)
    BY <1>2, CallBase, SkipBase, PublishCallBase, FailsBase
  <1>3. CASE EvaluateSwitch(c)
    BY <1>3, SwitchBase
  <1>4. CASE EnterLoop(c) \/ StopLoopAtLimit(c) \/ StopLoopOnCondition(c)
    BY <1>4, EnterLoopBase, LoopEndsBase
  <1>5. CASE ContinueLoop(c) \/ Iterate(c) \/ IterationLoaded(c)
    BY <1>5, ContinueBase, IterateBase, IterationLoadedBase
  <1>6. CASE StartMap(c) \/ LaunchItem(c) \/ LaunchedAll(c) \/ CheckMap(c) \/ FinalizeMap(c)
    BY <1>6, StartMapBase, LaunchBase, LaunchedBase, CheckMapBase, FinalizeMapBase
  <1>7. CASE NodeFailed(c) \/ NodeSucceeded(c) \/ OutputLoaded(c) \/ LoadFails(c)
    BY <1>7, FailedBase, SucceededBase, LoadedBase, FailsBase
  <1>10. CASE StrayCompleted(c) \/ StrayLoaded(c) \/ BranchGone(c)
    BY <1>10, StrayCompletedBase, StrayLoadedBase, BranchGoneBase
  <1>8. CASE IterationSucceeded(c) \/ ItemSucceeded(c)
    BY <1>8, IterationBase, ItemBase
  <1>9. CASE RunExitHandler(c) \/ OutputFails(c) \/ PublishResponse(c) \/ CleanUp(c)
    BY <1>9, ExitBase, FailsBase, ResponseBase, CleanUpBase
  <1> QED
    BY <1>1, <1>2, <1>3, <1>4, <1>5, <1>6, <1>7, <1>8, <1>9, <1>10 DEF Step

\* A step that changes nothing.
LEMMA StutterBase == ASSUME BaseInv, UNCHANGED vars PROVE BaseInv'
  <1>1. UNCHANGED <<nodeVars, groupVars, callVars, hostVars, timerVars, loopVars>>
    BY DEF vars
  <1>2. TypeOK /\ StackOK
    BY StackFromType DEF BaseInv
  <1>3. StackOK' /\ definition' = definition /\ Frames' \subseteq Frames
    BY <1>1, <1>2, SameStacks
  <1>4. {} \in SUBSET Frame /\ Frames' \subseteq Frames \cup {} /\ \A f \in {} : FrameOK(f)
    BY <1>3
  <1>5. HostType' /\ TimerType' /\ UNCHANGED <<nodeVars, groupVars, callVars, responses>>
    BY <1>1, <1>2 DEF HostType, TimerType, TypeOK, hostVars, callVars, timerVars
  <1> QED
    BY <1>3, <1>4, <1>5, HostBase

\* Every step keeps the base invariant.
LEMMA NextBase == BaseInv /\ [Next]_vars => BaseInv'
  <1> SUFFICES ASSUME BaseInv, [Next]_vars
               PROVE  BaseInv'
    OBVIOUS
  <1>1. ASSUME NEW c \in Routine, Step(c)
        PROVE  BaseInv'
    BY <1>1, RoutineBase
  <1>2. ASSUME NEW k \in Call, ExpireTimer(k) \/ HandleTimeout(k)
        PROVE  BaseInv'
    BY <1>2, ExpireBase, TimeoutBase
  <1>3. ASSUME NEW k \in Call, NEW reply \in Replies, ReceiveResponse(k, reply)
        PROVE  BaseInv'
    BY <1>3, ReceiveBase
  <1>4. ASSUME NEW q \in 1 .. MaxCancels, ReceiveCancel(q)
        PROVE  BaseInv'
    BY <1>4, CancelBase
  <1>5. CASE Terminated \/ UNCHANGED vars
    BY <1>5, StutterBase DEF Terminated
  <1> QED
    BY <1>1, <1>2, <1>3, <1>4, <1>5 DEF Next, Runnable

\* The base invariant always holds.
LEMMA BaseAlways == Spec => []BaseInv
  BY InitBase, NextBase, PTL DEF Spec

\* Every variable of an execution keeps its type: a node that a frame, a branch
\* or a sub-task names is one of the definition, an iteration is within the
\* loop's limit, and every sub-task that is tracked, timed or stopped exists.
THEOREM TypeCorrect == Spec => []TypeOK
  <1>1. BaseInv => TypeOK
    BY DEF BaseInv
  <1> QED
    BY <1>1, BaseAlways, PTL

\* No agent is given a node before every node it depends on has completed or is
\* skipped, however many coroutines schedule between the moment it was found
\* ready and the moment its call starts.
THEOREM DependenciesComeFirst == Spec => []DependenciesFirst
  <1>1. BaseInv => DependenciesFirst
    BY DEF BaseInv, CallOK, Behind, DependenciesFirst
  <1> QED
    BY <1>1, BaseAlways, PTL

\* In a definition without cycles, and in which no node outside a loop or a map
\* depends on the inner node of one, a success is reported only when the DAG has
\* no node left, or when as many iterations and items were counted as nodes as
\* there are nodes left.
THEOREM SuccessMeansComplete ==
    (\A d \in Definitions : Acyclic(d)) => (Spec => []SuccessIsComplete)
  <1> SUFFICES ASSUME \A d \in Definitions : Acyclic(d)
               PROVE  Spec => []SuccessIsComplete
    OBVIOUS
  <1>1. BaseInv => SuccessIsComplete
    <2> SUFFICES ASSUME BaseInv, NEW i \in DOMAIN responses, responses[i] = "success"
                 PROVE  Left \subseteq Inner \/ Cardinality(Left) <= Cardinality(strays)
      BY DEF SuccessIsComplete
    <2>1. AllDone /\ definition \in Definitions
      BY DEF BaseInv, TypeOK
    <2> QED
      BY <2>1 DEF AllDone
  <1> QED
    BY <1>1, BaseAlways, PTL

=============================================================================
