------------------------ MODULE WorkflowProgressProofs ------------------------
(***************************************************************************)
(* Theorems about the progress of WorkflowEngine: when no await separates  *)
(* what the engine reads from what it does, a workflow that is going on    *)
(* and that no coroutine works for waits for an agent, unless one of its   *)
(* loops has reached its iteration limit.                                  *)
(***************************************************************************)
EXTENDS WorkflowCallsProofs

-----------------------------------------------------------------------------
(* The invariant.                                                          *)

\* Besides, no sub-task is cancelled by others, and a map has items.
InlineEnds ==
    /\ InlineLoads
    /\ "canceled" \notin Replies
    /\ \A d \in Definitions : (\E n \in NodesOf(d) : d.kind[n] = "map") => d.items > 0

\* The workflow is over, or is being finalized.
Ends == {"finalize", "respond", "cleanup"}
Ending == ~active \/ (turn # Idle /\ Head(routines[turn]).at \in Ends)

\* What sub-task k was for is done; the coroutine that runs has k in hand.
Resolved(k) ==
    IF Kind[calls[k].node] = "agent" THEN completed[calls[k].node] # "no" ELSE k \in answered
Held(k) ==
    /\ turn # Idle /\ Head(routines[turn]).at \in {"publish", "complete"}
    /\ Head(routines[turn]).call = k
Reaches(k) == Resolved(k) \/ Held(k) \/ k \in cached \cup expired

\* A coroutine is at work on node n, or an agent is.
NodeWork == Loops \cup {"execute", "launch", "mapcheck", "aggregate"}
InHand(n) == \E f \in Frames : f.at \in NodeWork /\ f.node = n
Works(n) == InHand(n) \/ \E k \in CallsOf(n) : ~Resolved(k)

\* A loop that has reached its limit is completed, and never leaves
\* pending_nodes.
AtLimit(n) == Kind[n] = "loop" /\ completed[n] # "no" /\ iterations[n] >= MaxIterations
LoopAtLimit == \E n \in Node : AtLimit(n) /\ pending[n] > 0

\* The coroutine that runs is at place, for n.
Here(place, n) ==
    turn # Idle /\ Head(routines[turn]).at = place /\ Head(routines[turn]).node = n

\* The items of a map that were launched are done or active, and an active one
\* is with an agent.
Tally(n) ==
    LET m == mapState[n]
    IN  /\ m.active \subseteq 0 .. (m.next - 1)
        /\ m.next = m.count + Cardinality(m.active)
        /\ m.active = {calls[k].index : k \in Unanswered(n)}

\* A node is in pending_nodes once at most, and not when it is about to start.
Listed(n) == pending[n] \in {0, 1}
Untaken(n) == n \in Todo \cup Started => pending[n] = 0 /\ completed[n] = "no"
\* A loop that goes on is not completed; when its branch is open, an agent has
\* its iteration or the output of the iteration is loaded.
LoopOpen(n) ==
    /\ n \in open => Kind[n] # "agent"
    /\ \A c \in Routine : Busy(c, n) => completed[n] = "no"
    /\ Kind[n] = "loop" /\ n \in open =>
         completed[n] = "no" /\ (Unanswered(n) # {} \/ Here("looped", n))
\* A map that is checked is over, or waits for an agent.
MapTold(n) ==
    /\ Kind[n] = "map" => Tally(n)
    /\ Here("mapcheck", n) => mapState[n].count = Items \/ Unanswered(n) # {}
\* There is somebody at work for a node that was started and is not completed.
Driven(n) == n \in Started \/ n \in open \/ (pending[n] > 0 /\ ~AtLimit(n)) => Works(n)
NodeGoes(n) == Listed(n) /\ Untaken(n) /\ LoopOpen(n) /\ MapTold(n) /\ Driven(n)

\* Items are launched by a batch, before the first result, or after a result,
\* before the check of the same map.
Twin(f, g, state) ==
    \/ g.at = "mapcheck" /\ g.node = f.node
    \/ g.at = "batch" /\ state[f.node].count = 0
Twins == turn # Idle => \A i \in 1 .. (Len(routines[turn]) - 1) :
    routines[turn][i].at = "launch" => Twin(routines[turn][i], routines[turn][i + 1], mapState)

\* When no coroutine runs, something will start one, unless a loop is at its limit.
Alive == turn = Idle => \/ LoopAtLimit \/ cached \cup expired # {}
                        \/ \E c \in Routine : routines[c] # << >>

Going ==
    /\ ~cancelled /\ active /\ Twins /\ Alive
    /\ \A k \in DOMAIN calls : Reaches(k)
    /\ \A n \in Node : NodeGoes(n)
WaitInv == Ending \/ Going

-----------------------------------------------------------------------------
(* What a step leaves alone.                                               *)

\* Nothing of node n changes but, perhaps, that its branch is closed.
SameCalls(n) ==
    /\ completed'[n] = completed[n]
    /\ CallsOf(n)' = CallsOf(n) /\ Unanswered(n)' = Unanswered(n)
SameNode(n) ==
    /\ completed'[n] = completed[n] /\ pending'[n] = pending[n]
    /\ iterations'[n] = iterations[n] /\ mapState'[n] = mapState[n]
    /\ CallsOf(n)' = CallsOf(n) /\ Unanswered(n)' = Unanswered(n)
    /\ n \in open' => n \in open

\* A sub-task of such a node is as resolved as it was.
LEMMA ResolvedSame ==
    ASSUME CallsKept, NEW n \in Node, SameCalls(n), NEW k \in CallsOf(n)
    PROVE  Resolved(k)' = Resolved(k)
  <1>1. /\ k \in DOMAIN calls /\ calls[k].node = n /\ calls'[k] = calls[k] /\ Kind' = Kind
        /\ k \in DOMAIN calls'
    BY SameDefinition DEF CallsOf, CallsKept
  <1>2. k \in answered' <=> k \in answered
    BY <1>1 DEF SameCalls, Unanswered
  <1> QED
    BY <1>1, <1>2 DEF Resolved, SameCalls

\* Somebody goes on to be at work on it.
LEMMA WorksKept ==
    ASSUME CallsKept, NEW n \in Node, SameCalls(n), InHand(n) => Works(n)', Works(n)
    PROVE  Works(n)'
  BY ResolvedSame DEF Works, SameCalls

\* What is true of such a node stays true.
LEMMA NodeKept ==
    ASSUME CallsKept, NEW n \in Node, NodeGoes(n), SameNode(n),
           n \in Todo' \cup Started' =>
               n \in Todo \cup Started \/ (pending[n] = 0 /\ completed[n] = "no"),
           n \in Started' => n \in Started \/ Works(n)',
           InHand(n) => Works(n)',
           \A d \in Routine : Busy(d, n)' => completed[n] = "no" \/ \E e \in Routine : Busy(e, n),
           n \in open' /\ Here("looped", n) => Here("looped", n)',
           Here("mapcheck", n)' =>
               Here("mapcheck", n) \/ mapState[n].count = Items \/ Unanswered(n) # {}
    PROVE  NodeGoes(n)'
  <1>1. /\ Kind' = Kind /\ MaxIterations' = MaxIterations /\ Items' = Items
        /\ \A k \in CallsOf(n) : calls'[k] = calls[k]
    BY SameDefinition DEF CallsKept, CallsOf, Items, MaxIterations
  <1>2. Listed(n)' /\ Untaken(n)'
    BY DEF NodeGoes, Listed, Untaken, SameNode
  <1>3. LoopOpen(n)'
    BY <1>1 DEF NodeGoes, LoopOpen, SameNode
  <1>4. MapTold(n)'
    <2>1. {calls'[k].index : k \in Unanswered(n)'} = {calls[k].index : k \in Unanswered(n)}
      BY <1>1 DEF SameNode, Unanswered
    <2>2. Tally(n)' <=> Tally(n)
      BY <2>1 DEF Tally, SameNode
    <2> QED
      BY <1>1, <2>2 DEF NodeGoes, MapTold, SameNode
  <1>5. Driven(n)'
    <2>1. Works(n) => Works(n)'
      BY WorksKept DEF SameNode, SameCalls
    <2>2. AtLimit(n)' <=> AtLimit(n)
      BY <1>1 DEF AtLimit, SameNode
    <2> QED
      BY <2>1, <2>2 DEF NodeGoes, Driven, SameNode
  <1> QED
    BY <1>2, <1>3, <1>4, <1>5 DEF NodeGoes

\* The stacks after a step of c.
LEMMA StackStep ==
    ASSUME StackOK, StacksInv, NEW c \in Routine, NEW place, At(c, place),
           NEW frames \in Seq(Frame), NEW await, Become(c, frames, await)
    PROVE  /\ OthersSame(c) /\ turn' \in {c, Idle} /\ (turn' # Idle => routines'[c] # << >>)
           /\ Elements(frames) \subseteq Frames'
           /\ \A f \in Frames : f \in Frames' \/ f = Top(c)
           /\ Len(frames) # 0 => /\ routines'[c] # << >> /\ routines'[c][1] = frames[1]
                                 /\ Head(routines'[c]) = frames[1]
           /\ Len(frames) = 0 =>
                \/ routines'[c] = << >> /\ Len(Tail(routines[c])) = 0
                \/ /\ routines'[c] # << >> /\ Head(routines'[c]) = routines[c][2]
                   /\ routines'[c][1] = routines[c][2]
                   /\ RestOK(place, Tail(routines[c])) /\ Len(Tail(routines[c])) # 0
  <1> DEFINE r == Tail(routines[c])
             s == routines[c]
             t == routines'[c]
  <1>1. /\ s \in Seq(Frame) /\ r \in Seq(Frame) /\ Len(r) \in Nat /\ Len(s) = Len(r) + 1
        /\ Head(s) = s[1] /\ RestOK(place, r) /\ s # << >>
        /\ \A i \in 1 .. Len(r) : r[i] = s[i + 1]
    BY StackAt DEF At
  <1>2. /\ Len(frames) \in Nat /\ Len(t) = Len(frames) + Len(r)
        /\ \A i \in 1 .. Len(frames) : t[i] = frames[i]
        /\ \A i \in 1 .. Len(r) : t[Len(frames) + i] = r[i]
        /\ \A d \in Routine : d # c => routines'[d] = routines[d]
        /\ turn' = IF await \in Awaits \/ Len(t) = 0 THEN Idle ELSE c
    BY <1>1, NewStack
  <1>3. StackOK' /\ definition' = definition
    BY <1>1, BecomeFrames
  <1>4. t \in Seq(Frame)
    <2>1. Frame' = Frame
      BY <1>3, SameDefinition
    <2> QED
      BY <1>3, <2>1 DEF StackOK
  <1>5. Len(t) \in Nat /\ (t = << >> <=> Len(t) = 0) /\ (Len(t) # 0 => Head(t) = t[1])
    BY <1>4, EmptySeq, HeadTailProperties, LenProperties
  <1> HIDE DEF r, s, t
  <1>6. Elements(t) \subseteq Frames'
    BY DEF Frames, t
  <1>7. DOMAIN t = 1 .. Len(t) /\ DOMAIN s = 1 .. Len(s) /\ DOMAIN frames = 1 .. Len(frames)
    BY <1>1, <1>4, LenProperties
  <1>8. Elements(frames) \subseteq Frames'
    <2>1. ASSUME NEW i \in 1 .. Len(frames) PROVE frames[i] \in Elements(t)
      <3>1. i \in DOMAIN t /\ t[i] = frames[i]
        BY <1>1, <1>2, <1>7
      <3> QED
        BY <3>1 DEF Elements
    <2> QED
      BY <1>6, <1>7, <2>1 DEF Elements
  <1>9. ASSUME NEW f \in Frames PROVE f \in Frames' \/ f = Top(c)
    <2>1. PICK d \in Routine : f \in Elements(routines[d])
      BY DEF Frames
    <2>2. CASE d # c
      BY <1>2, <2>1, <2>2 DEF Frames
    <2>3. CASE d = c
      <3>1. PICK i \in 1 .. Len(s) : f = s[i]
        BY <1>7, <2>1, <2>3 DEF Elements, s
      <3>2. CASE i = 1
        BY <1>1, <3>1, <3>2 DEF Top, s
      <3>3. CASE i # 1
        <4>1. PICK j \in 1 .. Len(r) : i = j + 1
          <5>1. i - 1 \in 1 .. Len(r) /\ i = (i - 1) + 1
            BY <1>1, <3>3
          <5> QED
            BY <5>1
        <4>2. f = r[j] /\ Len(frames) + j \in DOMAIN t /\ t[Len(frames) + j] = f
          BY <1>1, <1>2, <1>7, <3>1, <4>1
        <4>3. f \in Elements(t)
          BY <4>2 DEF Elements
        <4> QED
          BY <1>6, <4>3
      <3> QED
        BY <3>2, <3>3
    <2> QED
      BY <2>2, <2>3
  <1>10. ASSUME Len(frames) # 0 PROVE t # << >> /\ t[1] = frames[1] /\ Head(t) = frames[1]
    BY <1>1, <1>2, <1>5, <1>10
  <1>11. ASSUME Len(frames) = 0, Len(r) # 0 PROVE t # << >> /\ Head(t) = s[2] /\ t[1] = s[2]
    <2>1. 1 \in 1 .. Len(r) /\ Len(t) # 0
      BY <1>1, <1>2, <1>11
    <2>2. t[0 + 1] = r[1] /\ r[1] = s[1 + 1]
      BY <1>1, <1>2, <1>11, <2>1
    <2> QED
      BY <1>5, <2>1, <2>2
  <1>12. ASSUME Len(frames) = 0, Len(r) = 0 PROVE t = << >>
    BY <1>2, <1>5, <1>12
  <1> QED
    BY <1>1, <1>2, <1>8, <1>9, <1>10, <1>11, <1>12 DEF OthersSame, r, s, t

\* Who runs, when c may take a step.
LEMMA Runner ==
    ASSUME LoadInv, NEW c \in Routine, NEW place, At(c, place)
    PROVE  /\ place # "iterate" => turn = c /\ turn # Idle
           /\ Top(c).at = place /\ routines[c] # << >> /\ Top(c) = Head(routines[c])
           /\ \A p, n : Here(p, n) => p = place /\ n = Top(c).node
           /\ \A k : Held(k) => place \in {"publish", "complete"} /\ k = Top(c).call
           /\ turn = c => \A n : Top(c).node = n => Here(place, n)
  <1>1. /\ turn \in {c, Idle} /\ routines[c] # << >> /\ Head(routines[c]).at = place
        /\ c # Idle
    BY IdleName DEF At
  <1>2. place # "iterate" => turn = c /\ turn # Idle
    BY <1>1 DEF LoadInv, Suspended
  <1> QED
    BY <1>1, <1>2 DEF Here, Held, Top

\* A sub-task goes on to be reached when nothing is undone.
LEMMA ReachKept ==
    ASSUME TypeOK, CallsKept, cached \cup expired \subseteq cached' \cup expired',
           \A n \in Node : completed[n] # "no" => completed'[n] # "no",
           NEW k \in DOMAIN calls, Reaches(k), Held(k) => Reaches(k)'
    PROVE  Reaches(k)'
  <1>1. calls'[k] = calls[k] /\ Kind' = Kind /\ calls[k].node \in Node
    BY SameDefinition, CallFacts DEF CallsKept
  <1>2. Resolved(k) => Resolved(k)'
    BY <1>1 DEF Resolved, CallsKept
  <1> QED
    BY <1>2 DEF Reaches

\* Frames that are not about to launch items leave the launches below alone.
LEMMA TwinsKept ==
    ASSUME StackOK, StacksInv, LoadInv, NEW c \in Routine, NEW place, At(c, place),
           NEW frames \in Seq(Frame), NEW await, Become(c, frames, await), Twins,
           \A i \in 1 .. Len(frames) : frames[i].at = "launch" =>
               i < Len(routines'[c]) /\ Twin(routines'[c][i], routines'[c][i + 1], mapState'),
           \A f \in Frames : f.at = "launch" /\ mapState[f.node].count = 0
               => mapState'[f.node].count = 0
    PROVE  Twins'
  <1> DEFINE r == Tail(routines[c])
             s == routines[c]
             t == routines'[c]
  <1>1. /\ s \in Seq(Frame) /\ r \in Seq(Frame) /\ Len(r) \in Nat /\ Len(s) = Len(r) + 1
        /\ \A i \in 1 .. Len(r) : r[i] = s[i + 1]
        /\ turn = Idle => Len(r) = 0
        /\ s # << >> /\ turn \in {c, Idle}
    BY StackAt DEF At
  <1>2. /\ Len(frames) \in Nat /\ Len(t) = Len(frames) + Len(r)
        /\ \A i \in 1 .. Len(frames) : t[i] = frames[i]
        /\ \A i \in 1 .. Len(r) : t[Len(frames) + i] = r[i]
        /\ turn' \in {c, Idle}
    BY <1>1, NewStack
  <1> SUFFICES ASSUME turn' # Idle, NEW i \in 1 .. (Len(t) - 1), t[i].at = "launch"
               PROVE  Twin(t[i], t[i + 1], mapState')
    BY <1>2 DEF Twins
  <1> HIDE DEF r, s, t
  <1>3. CASE i <= Len(frames)
    BY <1>1, <1>2, <1>3 DEF t
  <1>4. CASE ~(i <= Len(frames))
    <2>1. PICK j \in 1 .. Len(r) : i = Len(frames) + j /\ j + 1 \in 1 .. Len(r)
      <3>1. /\ i - Len(frames) \in 1 .. Len(r) /\ i = Len(frames) + (i - Len(frames))
            /\ (i - Len(frames)) + 1 \in 1 .. Len(r)
        BY <1>1, <1>2, <1>4
      <3> QED
        BY <3>1
    <2>2. t[i] = r[j] /\ t[i + 1] = r[j + 1]
      <3>1. i + 1 = Len(frames) + (j + 1)
        BY <1>2, <2>1
      <3> QED
        BY <1>2, <2>1, <3>1
    <2>3. PICK l \in 1 .. (Len(s) - 1) : l = j + 1 /\ t[i] = s[l] /\ t[i + 1] = s[l + 1]
      <3>1. j + 1 \in 1 .. (Len(s) - 1) /\ r[j] = s[j + 1] /\ r[j + 1] = s[(j + 1) + 1]
        BY <1>1, <2>1
      <3> QED
        BY <2>2, <3>1
    <2>4. turn = c /\ turn # Idle
      BY <1>1, <2>1, IdleName
    <2>5. Twin(t[i], t[i + 1], mapState)
      BY <2>3, <2>4 DEF Twins, s
    <2>6. t[i] \in Frames
      <3>1. l \in DOMAIN s /\ s[l] = t[i]
        BY <1>1, <2>3
      <3> QED
        BY <3>1 DEF Frames, Elements, s
    <2> QED
      BY <2>5, <2>6 DEF Twin
  <1> QED
    BY <1>3, <1>4

\* A node that the step is not about.
LEMMA NodeElse ==
    ASSUME BaseInv, CallInv, LoadInv, NEW c \in Routine, NEW place, At(c, place),
           NEW frames \in Seq(Frame), NEW await, Become(c, frames, await),
           CallsKept, Batch' = Batch \/ Batch' = NoBatch,
           NEW n \in Node, NodeGoes(n), SameNode(n),
           place \notin NodeWork \/ Top(c).node # n,
           \A f \in Elements(frames) : f.at \in NodeWork => f.node # n,
           Len(frames) = 0 /\ place = "launch" /\ routines[c][2].at = "mapcheck"
               => routines[c][2].node # n
    PROVE  NodeGoes(n)'
  <1>1. StackOK /\ StacksInv /\ TypeOK
    BY StackFromType DEF BaseInv, CallInv
  <1>2. /\ OthersSame(c) /\ turn' \in {c, Idle} /\ (turn' # Idle => routines'[c] # << >>)
        /\ Elements(frames) \subseteq Frames'
        /\ \A f \in Frames : f \in Frames' \/ f = Top(c)
        /\ Len(frames) # 0 => /\ routines'[c] # << >> /\ routines'[c][1] = frames[1]
                              /\ Head(routines'[c]) = frames[1]
        /\ Len(frames) = 0 =>
             \/ routines'[c] = << >> /\ Len(Tail(routines[c])) = 0
             \/ /\ routines'[c] # << >> /\ Head(routines'[c]) = routines[c][2]
                /\ routines'[c][1] = routines[c][2]
                /\ RestOK(place, Tail(routines[c])) /\ Len(Tail(routines[c])) # 0
    BY <1>1, StackStep
  <1>3. /\ Top(c).at = place
        /\ \A p, m : Here(p, m) => p = place /\ m = Top(c).node
    BY Runner
  <1>4. n \in Todo' \cup Started' => n \in Todo \cup Started
    BY DEF Todo, Started, NoBatch
  <1>5. n \in Started' => n \in Started
    BY DEF Started, NoBatch
  <1>6. InHand(n) => Works(n)'
    BY <1>2, <1>3 DEF InHand, Works
  <1>7. ASSUME Len(frames) = 0, routines'[c] # << >>
        PROVE  /\ routines'[c][1] = routines[c][2] /\ Head(routines'[c]) = routines[c][2]
               /\ routines[c][2].at \in {"batch", "launch", "mapcheck"}
               /\ routines[c][2].at = "mapcheck" => place = "launch"
    <2>1. /\ routines'[c][1] = routines[c][2] /\ Head(routines'[c]) = routines[c][2]
          /\ Len(Tail(routines[c])) # 0
      BY <1>2, <1>7
    <2>2. PICK r : r = Tail(routines[c])
      OBVIOUS
    <2>3. /\ Len(r) # 0 /\ RestOK(place, r) /\ Len(r) \in Nat
          /\ \A i \in 1 .. Len(r) : r[i] = routines[c][i + 1]
      BY <1>1, <2>1, <2>2, StackAt
    <2>4. PICK j \in Nat : j = Len(r) /\ j # 0
      BY <2>3
    <2>5. r[1] = routines[c][1 + 1]
      BY <2>3, <2>4
    <2> QED
      BY <2>1, <2>3, <2>5 DEF RestOK
  <1>8. Len(frames) # 0 => frames[1] \in Elements(frames)
    <2>1. Len(frames) \in Nat /\ DOMAIN frames = 1 .. Len(frames)
      BY LenProperties
    <2> QED
      BY <2>1 DEF Elements
  <1>9. ASSUME NEW d \in Routine, Busy(d, n)' PROVE Busy(d, n)
    <2>1. CASE d # c
      BY <1>2, <1>9, <2>1 DEF OthersSame, Busy
    <2>2. CASE d = c
      <3>1. Len(frames) = 0
        BY <1>2, <1>8, <1>9, <2>2 DEF Busy, NodeWork
      <3>2. routines'[c] # << >>
        BY <1>9, <2>2 DEF Busy
      <3> QED
        BY <1>7, <1>9, <2>2, <3>1, <3>2 DEF Busy, Loops
    <2> QED
      BY <2>1, <2>2
  <1>10. ~Here("looped", n)
    BY <1>3 DEF NodeWork, Loops
  <1>11. ~Here("mapcheck", n)'
    <2>1. ASSUME Here("mapcheck", n)' PROVE FALSE
      <3>1. turn' = c /\ Head(routines'[c]).at = "mapcheck" /\ Head(routines'[c]).node = n
        BY <1>2, <2>1 DEF Here
      <3>2. CASE Len(frames) # 0
        BY <1>2, <1>8, <3>1, <3>2 DEF NodeWork
      <3>3. CASE Len(frames) = 0
        <4>1. routines'[c] # << >>
          BY <1>2, <2>1 DEF Here
        <4> QED
          BY <1>7, <3>1, <3>3, <4>1
      <3> QED
        BY <3>2, <3>3
    <2> QED
      BY <2>1
  <1> QED
    BY <1>4, <1>5, <1>6, <1>9, <1>10, <1>11, NodeKept

\* The batch after a step that does not begin another one.
LEMMA BatchKept ==
    ASSUME StackOK, StacksInv, NEW c \in Routine, NEW place, At(c, place), place # "batch",
           NEW frames \in Seq(Frame), NEW await, Become(c, frames, await),
           \A f \in Elements(frames) : f.at # "batch"
    PROVE  Batch' = Batch \/ Batch' = NoBatch
  <1> DEFINE r == Tail(routines[c])
             t == routines'[c]
  <1>1. Len(r) \in Nat /\ routines[c] # << >> /\ Batch = BatchOf(r)
    BY StackAt, BatchAt DEF At
  <1>2. /\ Len(frames) \in Nat /\ Len(t) = Len(frames) + Len(r)
        /\ \A i \in 1 .. Len(frames) : t[i] = frames[i]
        /\ \A i \in 1 .. Len(r) : t[Len(frames) + i] = r[i]
        /\ turn' = IF await \in Awaits \/ Len(t) = 0 THEN Idle ELSE c
    BY <1>1, NewStack
  <1>3. Batch' = NoBatch \/ Batch' = BatchOf(t)
    BY <1>2 DEF Batch
  <1> HIDE DEF r, t
  <1>4. CASE Len(r) # 0
    <2>1. t[Len(t)] = r[Len(r)] /\ Len(t) # 0
      BY <1>1, <1>2, <1>4
    <2>2. BatchOf(t) = BatchOf(r)
      BY <1>4, <2>1 DEF BatchOf
    <2> QED
      BY <1>1, <1>3, <2>2
  <1>5. CASE Len(r) = 0
    <2>1. Len(t) # 0 => t[Len(t)] \in Elements(frames)
      <3>1. ASSUME Len(t) # 0 PROVE Len(t) \in 1 .. Len(frames)
        BY <1>2, <1>5, <3>1
      <3>2. DOMAIN frames = 1 .. Len(frames)
        BY LenProperties
      <3> QED
        BY <1>2, <3>1, <3>2 DEF Elements
    <2>2. BatchOf(t) = NoBatch
      BY <2>1 DEF BatchOf
    <2> QED
      BY <1>3, <2>2
  <1> QED
    BY <1>4, <1>5

\* A step that leaves the timers and the host alone.
LEMMA GoingStep ==
    ASSUME BaseInv, LoadInv, Going, NEW c \in Routine,
           NEW place, place \notin {"publish", "complete"} \/ Resolved(Top(c).call), At(c, place),
           UNCHANGED <<cancelled, active, cached, expired>>, CallsKept,
           DOMAIN calls' = DOMAIN calls,
           \A n \in Node : completed[n] # "no" => completed'[n] # "no",
           Twins', Alive', \A n \in Node : NodeGoes(n)'
    PROVE  Going'
  <1>1. TypeOK
    BY DEF BaseInv
  <1>2. \A k : Held(k) => Resolved(k)
    BY Runner
  <1>3. ASSUME NEW k \in DOMAIN calls PROVE Reaches(k)'
    <2>1. Resolved(k) => Resolved(k)'
      <3>1. calls'[k] = calls[k] /\ Kind' = Kind /\ calls[k].node \in Node
        BY <1>1, SameDefinition, CallFacts DEF CallsKept
      <3> QED
        BY <3>1 DEF Resolved, CallsKept
    <2> QED
      BY <1>1, <1>2, <2>1, ReachKept DEF Going, Reaches
  <1> QED
    BY <1>3, SameDefinition DEF Going, CallsKept

\* Nothing of the nodes changes but, perhaps, that branches are closed.
NodesSame ==
    /\ UNCHANGED <<definition, completed, pending, iterations, mapState, calls, answered>>
    /\ open' \subseteq open

\* Nothing in hand, or the same node, after a frame gave way to another.
LEMMA SwapGoes ==
    ASSUME BaseInv, MapInv, CallInv, LoadInv, Going, NEW c \in Routine, NEW place, At(c, place),
           place \notin {"batch", "launch"},
           place \notin {"publish", "complete"} \/ Resolved(Top(c).call),
           NEW f \in Frame, f.at \notin {"batch", "launch", "mapcheck"},
           NEW await, Become(c, <<f>>, await),
           UNCHANGED <<cancelled, active, cached, expired>>, NodesSame,
           \A n \in open' : ~Here("looped", n),
           place \in NodeWork => f.at \in NodeWork /\ f.node = Top(c).node,
           f.at \in NodeWork => place \in NodeWork /\ f.node \in Node,
           f.at \in Loops => completed[f.node] = "no"
    PROVE  Going'
  <1>1. TypeOK /\ StackOK /\ StacksInv
    BY StackFromType DEF BaseInv, CallInv
  <1>2. CallsKept
    BY DEF CallsKept, NodesSame, MapInv
  <1>3. PICK frames \in Seq(Frame) : /\ frames = <<f>> /\ Elements(frames) = {f}
                                     /\ Len(frames) = 1 /\ frames[1] = f
    BY FewFrames
  <1>4. Become(c, frames, await)
    BY <1>3
  <1>5. /\ OthersSame(c) /\ turn' \in {c, Idle} /\ Elements(frames) \subseteq Frames'
        /\ \A g \in Frames : g \in Frames' \/ g = Top(c)
        /\ routines'[c] # << >> /\ routines'[c][1] = f /\ Head(routines'[c]) = f
    <2>1. /\ OthersSame(c) /\ turn' \in {c, Idle} /\ Elements(frames) \subseteq Frames'
          /\ \A g \in Frames : g \in Frames' \/ g = Top(c)
          /\ Len(frames) # 0 => /\ routines'[c] # << >> /\ routines'[c][1] = frames[1]
                                /\ Head(routines'[c]) = frames[1]
      BY <1>1, <1>4, StackStep
    <2> QED
      BY <1>3, <2>1
  <1>6. Batch' = Batch \/ Batch' = NoBatch
    BY <1>1, <1>3, <1>4, BatchKept
  <1>7. Alive'
    BY <1>5 DEF Alive
  <1>8. Twins'
    <2>1. \A i \in 1 .. Len(frames) : frames[i].at # "launch"
      BY <1>3
    <2> QED
      BY <1>1, <1>4, <2>1, TwinsKept DEF Going, NodesSame
  <1>9. ASSUME NEW n \in Node PROVE NodeGoes(n)'
    <2>1. NodeGoes(n) /\ SameNode(n)
      BY DEF Going, SameNode, NodesSame, CallsOf, Unanswered
    <2>2. CASE place \in NodeWork /\ Top(c).node = n
      <3>1. n \in Todo' \cup Started' => n \in Todo \cup Started
        BY <1>6 DEF Todo, Started, NoBatch
      <3>2. n \in Started' => n \in Started
        BY <1>6 DEF Started, NoBatch
      <3>3. Works(n)'
        BY <1>3, <1>5, <2>2 DEF InHand, Works
      <3>4. \A d \in Routine : Busy(d, n)' => completed[n] = "no" \/ Busy(d, n)
        BY <1>5, <2>2 DEF Busy, OthersSame
      <3>5. ~Here("mapcheck", n)'
        BY <1>5 DEF Here
      <3> QED
        BY <1>2, <2>1, <3>1, <3>2, <3>3, <3>4, <3>5, NodeKept
    <2>3. CASE ~(place \in NodeWork /\ Top(c).node = n)
      <3>1. \A g \in Elements(frames) : g.at \in NodeWork => g.node # n
        BY <1>3, <2>3
      <3> QED
        BY <1>2, <1>3, <1>4, <1>6, <2>1, <2>3, <3>1, NodeElse
    <2> QED
      BY <2>2, <2>3
  <1>10. DOMAIN calls' = DOMAIN calls /\ \A n \in Node : completed'[n] = completed[n]
    BY DEF NodesSame
  <1> QED
    BY <1>2, <1>7, <1>8, <1>9, <1>10, GoingStep

\* What holds before a step of a workflow that is going on.
Before == InlineEnds /\ BaseInv /\ MapInv /\ CallInv /\ LoadInv /\ Going

LEMMA Known ==
    ASSUME Before
    PROVE  /\ InlineLoads /\ InlineCalls /\ BaseInv /\ MapInv /\ CallInv /\ LoadInv /\ Going
           /\ TypeOK /\ StackOK /\ StacksInv /\ definition \in Definitions
           /\ "nothing" \notin Awaits /\ "save" \notin Awaits
           /\ "session" \notin Awaits /\ "load" \notin Awaits
           /\ \A n \in Node : NodeGoes(n) /\ NodeOK(n)
  <1>1. BaseInv /\ MapInv /\ CallInv /\ LoadInv /\ Going /\ InlineLoads
    BY DEF Before, InlineEnds
  <1>2. TypeOK /\ StackOK /\ StacksInv /\ definition \in Definitions
    BY <1>1, StackFromType DEF BaseInv, CallInv, TypeOK
  <1> QED
    BY <1>1, <1>2, InlineLoad DEF CallInv, Going

-----------------------------------------------------------------------------
(* Every iteration and item that is with an agent has its branch.          *)

\* The coroutine that runs is about to publish k.
Publishing(k) ==
    turn # Idle /\ Head(routines[turn]).at = "publish" /\ Head(routines[turn]).call = k
HasBranch(k) ==
    Kind[calls[k].node] # "agent" /\ k \notin answered =>
        /\ calls[k].node \in open
        /\ \/ k \in branches[calls[k].node]
           \/ Kind[calls[k].node] = "map" /\ Publishing(k)
Branched == \A k \in DOMAIN calls : HasBranch(k)

\* Only the frame on top of the coroutine that takes a step is published.
LEMMA OnePublished ==
    ASSUME NEW c \in Routine, NEW place, At(c, place)
    PROVE  \A k : Publishing(k) => place = "publish" /\ k = Top(c).call
  BY DEF At, Top, Publishing

\* A step that closes no branch, makes no call and publishes none.
LEMMA BranchedQuiet ==
    ASSUME Branched, definition' = definition, calls' = calls, answered \subseteq answered',
           open \subseteq open', \A n : branches[n] \subseteq branches'[n],
           \A k : Publishing(k) => Publishing(k)'
    PROVE  Branched'
  <1>1. Kind' = Kind
    BY SameDefinition
  <1> QED
    BY <1>1 DEF Branched, HasBranch

\* A branch that is opened, or closed, when its node has nothing with an agent.
LEMMA BranchedNode ==
    ASSUME Branched, TypeOK, definition' = definition, calls' = calls, answered' = answered,
           NEW n \in Node, CallsOf(n) \subseteq answered,
           \A m \in Node : m # n => (m \in open => m \in open') /\ branches'[m] = branches[m],
           \A k : ~Publishing(k)
    PROVE  Branched'
  <1>1. Kind' = Kind /\ \A k \in DOMAIN calls : calls[k].node \in Node
    BY SameDefinition, CallFacts
  <1> QED
    BY <1>1 DEF Branched, HasBranch, CallsOf

\* The steps of a coroutine that leave the branches and the calls alone.
LEMMA QuietBranched ==
    ASSUME Branched, NEW c \in Routine,
           \/ StopCancelled(c) \/ ScheduleNodes(c) \/ ExecuteNext(c)
           \/ EnterLoop(c) \/ StopLoopAtLimit(c) \/ StopLoopOnCondition(c) \/ ContinueLoop(c)
           \/ LaunchedAll(c) \/ CheckMap(c)
           \/ NodeFailed(c) \/ NodeSucceeded(c) \/ OutputLoaded(c)
           \/ StrayCompleted(c) \/ StrayLoaded(c) \/ IterationSucceeded(c) \/ ItemSucceeded(c)
           \/ RunExitHandler(c) \/ PublishResponse(c) \/ CleanUp(c)
    PROVE  Branched'
  <1>1. \E place : place # "publish" /\ At(c, place)
    BY DEF StopCancelled, ScheduleNodes, ExecuteNext, EnterLoop, StopLoopAtLimit,
           StopLoopOnCondition, ContinueLoop, LaunchedAll, CheckMap, NodeFailed, NodeSucceeded,
           OutputLoaded, StrayCompleted, StrayLoaded, IterationSucceeded, ItemSucceeded,
           RunExitHandler, PublishResponse, CleanUp, Runs
  <1>2. \A k : ~Publishing(k)
    BY <1>1, OnePublished
  <1>3. /\ definition' = definition /\ calls' = calls /\ answered \subseteq answered'
        /\ open' = open /\ branches' = branches
    <2>1. CASE StopCancelled(c) \/ ScheduleNodes(c) \/ ExecuteNext(c)
               \/ EnterLoop(c) \/ ContinueLoop(c) \/ LaunchedAll(c) \/ CheckMap(c)
      BY <2>1 DEF StopCancelled, ScheduleNodes, ExecuteNext, EnterLoop, ContinueLoop, LaunchedAll,
                  CheckMap, Become, groupVars, callVars
    <2>2. CASE StopLoopAtLimit(c) \/ StopLoopOnCondition(c) \/ NodeFailed(c) \/ NodeSucceeded(c)
               \/ OutputLoaded(c) \/ StrayCompleted(c) \/ StrayLoaded(c)
      BY <2>2 DEF StopLoopAtLimit, StopLoopOnCondition, LoopEnds, NodeFailed, NodeSucceeded,
                  OutputLoaded, StrayCompleted, StrayLoaded, Become, groupVars, callVars
    <2>3. CASE RunExitHandler(c) \/ PublishResponse(c) \/ CleanUp(c)
      BY <2>3 DEF RunExitHandler, PublishResponse, CleanUp, Become, groupVars, callVars
    <2>4. CASE IterationSucceeded(c) \/ ItemSucceeded(c)
      BY <2>4 DEF IterationSucceeded, ItemSucceeded, Become, callVars
    <2> QED
      BY <2>1, <2>2, <2>3, <2>4
  <1> QED
    BY <1>2, <1>3, BranchedQuiet

\* A branch is opened for the items of a map; a branch is closed.
LEMMA TurnedBranched ==
    ASSUME BaseInv, MapInv, CallInv, Branched, NEW c \in Routine,
           StartMap(c) \/ IterationLoaded(c) \/ FinalizeMap(c)
    PROVE  Branched'
  <1>1. PICK place \in {"execute", "looped", "aggregate"} :
             /\ At(c, place)
             /\ StartMap(c) => place = "execute"
             /\ IterationLoaded(c) => place = "looped"
             /\ FinalizeMap(c) => place = "aggregate"
    BY DEF StartMap, IterationLoaded, FinalizeMap, Runs, At
  <1>2. /\ TypeOK /\ StackOK /\ definition' = definition /\ calls' = calls /\ answered' = answered
        /\ place \in NodeFrames
    BY StackFromType
       DEF BaseInv, StartMap, IterationLoaded, FinalizeMap, Become, callVars, NodeFrames
  <1>3. PICK n \in Node : n = Top(c).node
    BY <1>1, <1>2, TopNode
  <1>4. \A m \in Node : m # n => (m \in open => m \in open') /\ branches'[m] = branches[m]
    BY <1>2, <1>3 DEF StartMap, IterationLoaded, FinalizeMap, TypeOK
  <1>5. \A k : ~Publishing(k)
    BY <1>1, OnePublished
  <1>6. CallsOf(n) \subseteq answered
    <2>1. CASE place = "execute"
      BY <1>1, <1>2, <1>3, <2>1, Executing DEF Fresh
    <2>2. CASE place = "looped"
      <3>1. "looped" \in Loops
        BY DEF Loops
      <3> QED
        BY <1>1, <1>2, <1>3, <2>2, <3>1, BusyHere
    <2>3. CASE place = "aggregate"
      <3>1. CalledOnce
        <4> SUFFICES ASSUME NEW j \in DOMAIN calls, NEW k \in DOMAIN calls,
                            calls[j].node = calls[k].node, calls[j].index = calls[k].index
                     PROVE  j = k
          BY DEF CalledOnce
        <4>1. PICK m \in Node : m = calls[j].node
          BY <1>2, CallFacts
        <4>2. CallsApart(m) /\ j \in CallsOf(m) /\ k \in CallsOf(m)
          BY <4>1 DEF CallInv, NodeOK, CallsOf
        <4> QED
          BY <4>2 DEF CallsApart
      <3>2. HasResults(n) /\ Kind[n] = "map"
        BY <1>1, <1>3, <2>3, <3>1, TopMap
      <3>3. CallsApart(n) /\ MapCalls(n) /\ answered \subseteq DOMAIN calls
        BY <3>2 DEF CallInv, NodeOK, MapInv, MapOK
      <3>4. ASSUME NEW j \in CallsOf(n) PROVE j \in answered
        <4>1. PICK i \in Nat : i = calls[j].index /\ i < Items
          BY <1>2, <3>3, CallFacts DEF MapCalls, CallsOf
        <4>2. i \in 0 .. (Items - 1)
          BY <1>2, <4>1, CallFacts
        <4>3. PICK k \in answered : calls[k].node = n /\ calls[k].index = i
          BY <3>2, <4>2 DEF HasResults
        <4>4. k \in CallsOf(n)
          BY <3>3, <4>3 DEF CallsOf
        <4> QED
          BY <3>3, <4>1, <4>3, <4>4 DEF CallsApart
      <3> QED
        BY <3>4
    <2> QED
      BY <2>1, <2>2, <2>3
  <1> QED
    BY <1>2, <1>4, <1>5, <1>6, BranchedNode

\* A sub-task is started.
LEMMA StartBranched ==
    ASSUME TypeOK, Branched, NEW c \in Routine, NEW place, At(c, place), place # "publish",
           NEW n \in Node, NEW index \in Nat, NEW rest, StartCall(c, n, index, rest),
           NEW key, key = Len(calls) + 1, answered' = answered, open \subseteq open',
           \A m \in Node : m # n => branches'[m] = branches[m],
           branches'[n] = branches[n] \/ CallsOf(n) \subseteq answered,
           Kind[n] # "agent" =>
               /\ n \in open'
               /\ \/ key \in branches'[n]
                  \/ Kind[n] = "map" /\ Publishing(key)'
    PROVE  Branched'
  <1>1. /\ DOMAIN calls' = DOMAIN calls \cup {key}
        /\ calls'[key].node = n /\ \A k \in DOMAIN calls : calls'[k] = calls[k]
    BY NewCall
  <1>2. Kind' = Kind /\ \A k \in DOMAIN calls : calls[k].node \in Node
    BY SameDefinition, CallFacts DEF StartCall, Become
  <1>3. ASSUME NEW k \in DOMAIN calls PROVE HasBranch(k)'
    <2>1. HasBranch(k) /\ ~Publishing(k)
      BY OnePublished DEF Branched
    <2>2. CASE calls[k].node = n /\ CallsOf(n) \subseteq answered
      BY <1>1, <2>2 DEF HasBranch, CallsOf
    <2>3. CASE calls[k].node # n \/ branches'[n] = branches[n]
      BY <1>1, <1>2, <2>1, <2>3 DEF HasBranch
    <2> QED
      BY <2>2, <2>3
  <1>4. HasBranch(key)'
    BY <1>1, <1>2 DEF HasBranch
  <1> QED
    BY <1>1, <1>3, <1>4 DEF Branched

\* An agent is called, an iteration or item started.
LEMMA CallBranched ==
    ASSUME InlineCalls, BaseInv, MapInv, CallInv, BranchInv, Branched, NEW c \in Routine,
           CallAgent(c) \/ Iterate(c) \/ LaunchItem(c)
    PROVE  Branched'
  <1>1. TypeOK /\ StackOK /\ StacksInv /\ definition \in Definitions /\ "save" \notin Awaits
    BY StackFromType DEF BaseInv, CallInv, TypeOK, InlineCalls
  <1>2. PICK none, key : none = << >> /\ key = Len(calls) + 1
    OBVIOUS
  <1>3. CASE CallAgent(c)
    <2>1. At(c, "execute") /\ "execute" \in NodeFrames
      BY <1>3 DEF CallAgent, Runs, NodeFrames
    <2>2. PICK n \in Node : n = Top(c).node
      BY <1>1, <2>1, TopNode
    <2>3. /\ StartCall(c, n, 0, none) /\ Kind[n] = "agent"
          /\ answered' = answered /\ open' = open /\ branches' = branches
      BY <1>2, <1>3, <2>2 DEF CallAgent, groupVars
    <2> QED
      BY <1>1, <1>2, <2>1, <2>3, StartBranched
  <1>4. CASE Iterate(c)
    <2>1. At(c, "iterate") /\ "iterate" \in Loops
      BY <1>4 DEF Iterate, Loops
    <2>2. PICK n \in Node, i \in Nat : n = Top(c).node /\ i = Top(c).index
      <3>1. Top(c) \in Frame /\ Top(c).at = "iterate"
        BY <1>1, <2>1, TopFrame
      <3>2. Top(c).node \in Node /\ Top(c).index \in 0 .. (MaxIterations - 1)
        BY <1>1, <3>1, FrameFields
      <3> QED
        BY <3>2
    <2>3. /\ StartCall(c, n, i, none) /\ answered' = answered /\ open' = open \cup {n}
          /\ branches' = [branches EXCEPT ![n] = {key}]
      BY <1>2, <1>4, <2>2 DEF Iterate
    <2>4. CallsOf(n) \subseteq answered
      BY <1>1, <2>1, <2>2, BusyHere
    <2>5. /\ branches'[n] = {key}
          /\ \A m \in Node : m # n => branches'[m] = branches[m]
      BY <1>1, <2>3 DEF TypeOK
    <2> QED
      BY <1>1, <1>2, <2>1, <2>3, <2>4, <2>5, StartBranched
  <1>5. CASE LaunchItem(c)
    <2>1. At(c, "launch") /\ "launch" \in NodeFrames
      BY <1>5 DEF LaunchItem, NodeFrames
    <2>2. PICK n \in Node : n = Top(c).node
      BY <1>1, <2>1, TopNode
    <2>3. PICK g \in Frame : g = Top(c) /\ g \in Frames /\ g.at = "launch" /\ g.node = n
      BY <1>1, <2>1, <2>2, TopFrame
    <2>4. n \in open /\ Kind[n] = "map"
      BY <2>1, <2>2, <2>3, TopMap DEF BranchInv, OpenFrame
    <2>5. PICK rest \in Seq(Frame) : rest = <<g>>
      BY FewFrames
    <2>6. PICK i \in Nat : i = mapState[n].next
      BY <1>1, CallFacts
    <2>7. /\ StartCall(c, n, i, rest)
          /\ answered' = answered /\ open' = open /\ branches' = branches
      BY <1>5, <2>2, <2>3, <2>5, <2>6 DEF LaunchItem
    <2>8. Publishing(key)'
      <3>1. key \in Call
        BY <1>1, <1>2, <2>7, NewCall
      <3>2. PICK f \in Frame : f = [at |-> "publish", call |-> key]
        BY <1>1, <3>1, FrameMade
      <3>3. PICK frames \in Seq(Frame) : /\ frames = <<f>> \o rest /\ Len(frames) = 1 + Len(rest)
                                         /\ frames[1] = f
        BY CallFrames
      <3>4. Become(c, frames, "save")
        BY <1>2, <2>7, <3>2, <3>3 DEF StartCall
      <3>5. Len(rest) = 1 /\ Len(frames) # 0
        BY <2>5, <3>3
      <3>6. turn' \in {c, Idle} /\ routines'[c] # << >> /\ Head(routines'[c]) = f
        BY <1>1, <2>1, <3>3, <3>4, <3>5, StackStep
      <3>7. Moved(c)
        BY <1>1, <3>4, NoAwait
      <3>8. turn' = c
        BY <3>2, <3>6, <3>7, IdleName DEF Moved
      <3> QED
        BY <3>2, <3>6, <3>8, IdleName DEF Publishing
    <2> QED
      BY <1>1, <1>2, <2>1, <2>4, <2>7, <2>8, StartBranched
  <1> QED
    BY <1>3, <1>4, <1>5

\* The call is published: an item is entered in its branch.
LEMMA PublishBranched ==
    ASSUME BaseInv, Branched, NEW c \in Routine, PublishCall(c) PROVE Branched'
  <1>1. /\ At(c, "publish") /\ TypeOK /\ definition' = definition /\ calls' = calls
        /\ answered' = answered /\ open' = open
    BY DEF PublishCall, BaseInv, Become
  <1>2. PICK k, n : /\ k = Top(c).call /\ n = calls[k].node
                    /\ branches' = IF Kind[n] = "map" THEN [branches EXCEPT ![n] = @ \cup {k}]
                                   ELSE branches
    BY DEF PublishCall
  <1>3. Kind' = Kind /\ \A j \in DOMAIN calls : calls[j].node \in Node
    BY <1>1, SameDefinition, CallFacts
  <1>4. ASSUME NEW j \in DOMAIN calls PROVE HasBranch(j)'
    <2>1. HasBranch(j) /\ (Publishing(j) => j = k)
      BY <1>1, <1>2, OnePublished DEF Branched
    <2>2. branches[calls[j].node] \subseteq branches'[calls[j].node]
      BY <1>1, <1>2, <1>3 DEF TypeOK
    <2>3. Kind[n] = "map" /\ j = k => k \in branches'[calls[j].node]
      BY <1>1, <1>2, <1>3 DEF TypeOK
    <2> QED
      BY <1>1, <1>2, <1>3, <2>1, <2>2, <2>3 DEF HasBranch
  <1> QED
    BY <1>1, <1>4 DEF Branched

\* Every step keeps it.
LEMMA NextBranched ==
    ASSUME InlineLoads, BaseInv, MapInv, CallInv, BranchInv, Branched, [Next]_vars
    PROVE  Branched'
  <1>1. InlineCalls
    BY DEF InlineLoads
  <1>2. ASSUME NEW c \in Routine, Step(c) PROVE Branched'
    <2>1. ~(\/ SkipNode(c) \/ EvaluateSwitch(c)
            \/ CallFails(c) \/ LoadFails(c) \/ OutputFails(c) \/ BranchGone(c))
      BY <1>1, NeverCalls, NeverGone
    <2>2. CASE CallAgent(c) \/ Iterate(c) \/ LaunchItem(c) \/ PublishCall(c)
      BY <1>1, <2>2, CallBranched, PublishBranched
    <2>3. CASE StartMap(c) \/ IterationLoaded(c) \/ FinalizeMap(c)
      BY <2>3, TurnedBranched
    <2>4. CASE \/ StopCancelled(c) \/ ScheduleNodes(c) \/ ExecuteNext(c)
               \/ EnterLoop(c) \/ StopLoopAtLimit(c) \/ StopLoopOnCondition(c) \/ ContinueLoop(c)
               \/ LaunchedAll(c) \/ CheckMap(c)
               \/ NodeFailed(c) \/ NodeSucceeded(c) \/ OutputLoaded(c)
               \/ StrayCompleted(c) \/ StrayLoaded(c) \/ IterationSucceeded(c)
               \/ ItemSucceeded(c)
               \/ RunExitHandler(c) \/ PublishResponse(c) \/ CleanUp(c)
      BY <2>4, QuietBranched
    <2> QED
      BY <1>2, <2>1, <2>2, <2>3, <2>4 DEF Step
  <1>3. CASE \/ \E k \in Call : ExpireTimer(k) \/ HandleTimeout(k)
             \/ \E k \in Call, reply \in Replies : ReceiveResponse(k, reply)
             \/ \E q \in 1 .. MaxCancels : ReceiveCancel(q)
             \/ UNCHANGED vars
    <2>1. /\ definition' = definition /\ calls' = calls /\ answered' = answered
          /\ open' = open /\ branches' = branches
      BY <1>3 DEF ExpireTimer, HandleTimeout, ReceiveResponse, ReceiveCancel, Begin,
                  groupVars, callVars, loopVars, vars
    <2>2. turn = Idle \/ UNCHANGED loopVars
      BY <1>3 DEF ExpireTimer, HandleTimeout, ReceiveResponse, ReceiveCancel, Begin, vars
    <2>3. \A k : Publishing(k) => Publishing(k)'
      BY <2>2 DEF Publishing, loopVars
    <2> QED
      BY <2>1, <2>3, BranchedQuiet
  <1> QED
    BY <1>2, <1>3 DEF Next, Runnable, Terminated

LEMMA BranchedAlways == ASSUME InlineLoads PROVE Spec => []Branched
  <1>1. InlineCalls
    BY DEF InlineLoads
  <1>2. Init => Branched
    <2> SUFFICES ASSUME Init PROVE DOMAIN calls = {}
      BY DEF Branched
    <2>1. calls = << >> /\ DOMAIN << >> = {}
      BY DEF Init
    <2> QED
      BY <2>1
  <1>3. BaseInv /\ MapInv /\ CallInv /\ BranchInv /\ Branched /\ [Next]_vars => Branched'
    BY NextBranched
  <1>4. Spec => [](BaseInv /\ MapInv /\ CallInv /\ BranchInv)
    BY <1>1, CallsAlways
  <1> QED
    BY <1>2, <1>3, <1>4, PTL DEF Spec

-----------------------------------------------------------------------------
(* Steps that complete nothing and make no call.                           *)

\* A loop is entered, or goes on.
LEMMA EnterLoopGoes == ASSUME Before, NEW c \in Routine, EnterLoop(c) PROVE Going'
  <1>1. /\ At(c, "execute") /\ "execute" \in NodeFrames /\ StackOK /\ CallInv /\ BaseInv
        /\ definition \in Definitions
    BY Known DEF EnterLoop, Runs, NodeFrames
  <1>2. PICK n \in Node : n = Top(c).node
    BY <1>1, TopNode
  <1>3. PICK f \in Frame : f = [at |-> "loop", node |-> n]
    BY <1>1, FrameMade DEF NodeFrames
  <1>4. /\ Become(c, <<f>>, "nothing") /\ NodesSame
        /\ UNCHANGED <<cancelled, active, cached, expired>>
    BY <1>2, <1>3 DEF EnterLoop, Become, NodesSame, nodeVars, groupVars, callVars, hostVars,
                      timerVars
  <1>5. completed[n] = "no"
    <2>1. n \in Started
      BY <1>1, <1>2, Executing
    <2> QED
      BY <2>1, Known DEF NodeGoes, Untaken
  <1>6. \A m : ~Here("looped", m)
    BY <1>1, Runner, Known
  <1> QED
    BY <1>1, <1>2, <1>3, <1>4, <1>5, <1>6, SwapGoes, Known DEF NodeWork, Loops

LEMMA ContinueGoes == ASSUME Before, NEW c \in Routine, ContinueLoop(c) PROVE Going'
  <1>1. /\ At(c, "loop") /\ "loop" \in NodeFrames /\ "loop" \in Loops /\ StackOK /\ CallInv
        /\ BaseInv /\ TypeOK /\ definition \in Definitions
    BY Known DEF ContinueLoop, Runs, NodeFrames, Loops
  <1>2. PICK n \in Node : n = Top(c).node
    BY <1>1, TopNode
  <1>3. PICK i \in 0 .. (MaxIterations - 1) : i = iterations[n]
    <2>1. iterations[n] \in 0 .. MaxIterations /\ MaxIterations \in Nat
      BY <1>1, DefinitionFacts DEF TypeOK
    <2> QED
      BY <1>2, <2>1 DEF ContinueLoop
  <1>4. PICK f \in Frame : f = [at |-> "iterate", node |-> n, index |-> i]
    BY <1>1, FrameMade
  <1>5. PICK await : await = IF i > 0 THEN "sleep" ELSE "nothing"
    OBVIOUS
  <1>6. /\ Become(c, <<f>>, await) /\ NodesSame
        /\ UNCHANGED <<cancelled, active, cached, expired>>
    BY <1>2, <1>3, <1>4, <1>5
       DEF ContinueLoop, Become, NodesSame, nodeVars, groupVars, callVars, hostVars, timerVars
  <1>7. completed[n] = "no"
    <2>1. Busy(c, n)
      BY <1>1, <1>2, BusyHere
    <2> QED
      BY <2>1, Known DEF NodeGoes, LoopOpen
  <1>8. \A m : ~Here("looped", m)
    BY <1>1, Runner, Known
  <1> QED
    BY <1>1, <1>2, <1>4, <1>6, <1>7, <1>8, SwapGoes, Known DEF NodeWork, Loops

\* The output of an iteration is loaded: its branch is closed.
LEMMA IterationLoadedGoes == ASSUME Before, NEW c \in Routine, IterationLoaded(c) PROVE Going'
  <1>1. /\ At(c, "looped") /\ "looped" \in NodeFrames /\ "looped" \in Loops /\ StackOK /\ CallInv
        /\ BaseInv /\ TypeOK /\ definition \in Definitions
    BY Known DEF IterationLoaded, NodeFrames, Loops
  <1>2. PICK n \in Node : n = Top(c).node
    BY <1>1, TopNode
  <1>3. PICK f \in Frame : f = [at |-> "loop", node |-> n]
    BY <1>1, FrameMade DEF NodeFrames
  <1>4. /\ Become(c, <<f>>, "nothing") /\ NodesSame /\ open' = open \ {n}
        /\ UNCHANGED <<cancelled, active, cached, expired>>
    BY <1>2, <1>3 DEF IterationLoaded, Become, NodesSame, callVars, hostVars, timerVars
  <1>5. completed[n] = "no"
    <2>1. Busy(c, n)
      BY <1>1, <1>2, BusyHere
    <2> QED
      BY <2>1, Known DEF NodeGoes, LoopOpen
  <1>6. \A m \in open' : ~Here("looped", m)
    BY <1>1, <1>2, <1>4, Runner, Known
  <1> QED
    BY <1>1, <1>2, <1>3, <1>4, <1>5, <1>6, SwapGoes, Known DEF NodeWork, Loops

\* The output of a node is loaded.
LEMMA LoadedGoes == ASSUME Before, NEW c \in Routine, OutputLoaded(c) PROVE Going'
  <1>1. /\ At(c, "load") /\ BaseInv /\ TypeOK /\ definition \in Definitions
    BY Known DEF OutputLoaded
  <1>2. PICK f \in Frame : f = Schedule /\ f.at = "schedule"
    BY <1>1, FrameMade
  <1>3. /\ Become(c, <<f>>, "nothing") /\ NodesSame
        /\ UNCHANGED <<cancelled, active, cached, expired>>
    BY <1>2 DEF OutputLoaded, Become, NodesSame, groupVars, callVars, hostVars, timerVars
  <1>4. \A m : ~Here("looped", m)
    BY <1>1, Runner, Known
  <1> QED
    BY <1>1, <1>2, <1>3, <1>4, SwapGoes, Known DEF NodeWork, Loops

\* Only what has its result is without a branch.
LEMMA StrayGoes ==
    ASSUME Before, Branched, NEW c \in Routine, StrayCompleted(c) \/ StrayLoaded(c) PROVE Going'
  <1>1. BaseInv /\ TypeOK /\ StackOK /\ definition \in Definitions
    BY Known
  <1>2. CASE StrayCompleted(c)
    <2>1. At(c, "complete")
      BY <1>2 DEF StrayCompleted, Runs
    <2>2. PICK k \in DOMAIN calls : k = Top(c).call /\ calls[k].node \in Node
      BY <1>1, <2>1, TopComplete, CallFacts
    <2>3. Resolved(k)
      <3>1. Kind[calls[k].node] # "agent" /\ \A n \in open : k \notin branches[n]
        BY <1>2, <2>2 DEF StrayCompleted
      <3>2. ~Publishing(k)
        BY <2>1, OnePublished
      <3> QED
        BY <3>1, <3>2 DEF Branched, HasBranch, Resolved
    <2>4. PICK f \in Frame : f = [at |-> "strayed"]
      BY <1>1, FrameMade
    <2>5. /\ Become(c, <<f>>, "load") /\ NodesSame
          /\ UNCHANGED <<cancelled, active, cached, expired>>
      BY <1>2, <2>4
         DEF StrayCompleted, Become, NodesSame, groupVars, callVars, hostVars, timerVars
    <2>6. \A m : ~Here("looped", m)
      BY <2>1, Runner, Known
    <2>7. f.at = "strayed" /\ "complete" \notin {"batch", "launch"} /\ Resolved(Top(c).call)
      BY <2>2, <2>3, <2>4
    <2> QED
      BY <2>1, <2>5, <2>6, <2>7, SwapGoes, Known DEF NodeWork, Loops
  <1>3. CASE StrayLoaded(c)
    <2>1. At(c, "strayed")
      BY <1>3 DEF StrayLoaded
    <2>2. PICK f \in Frame : f = Schedule /\ f.at = "schedule"
      BY <1>1, FrameMade
    <2>3. /\ Become(c, <<f>>, "nothing") /\ NodesSame
          /\ UNCHANGED <<cancelled, active, cached, expired>>
      BY <1>3, <2>2 DEF StrayLoaded, Become, NodesSame, nodeVars, groupVars, callVars, hostVars,
                        timerVars
    <2>4. \A m : ~Here("looped", m)
      BY <2>1, Runner, Known
    <2> QED
      BY <2>1, <2>2, <2>3, <2>4, SwapGoes, Known DEF NodeWork, Loops
  <1> QED
    BY <1>2, <1>3

\* A loop or a map with a sub-task that has no result waits for it.
LEMMA AgentWorks ==
    ASSUME TypeOK, definition' = definition, NEW n \in Node, Kind[n] # "agent",
           Unanswered(n)' # {}
    PROVE  Works(n)'
  <1>1. Kind' = Kind
    BY SameDefinition
  <1>2. PICK k : k \in DOMAIN calls' /\ calls'[k].node = n /\ k \notin answered'
    BY DEF Unanswered, CallsOf
  <1>3. k \in CallsOf(n)' /\ ~Resolved(k)'
    BY <1>1, <1>2 DEF CallsOf, Resolved
  <1> QED
    BY <1>3 DEF Works

\* A request is published: its sub-task has a timer.
LEMMA PublishGoes == ASSUME Before, NEW c \in Routine, PublishCall(c) PROVE Going'
  <1>1. /\ At(c, "publish") /\ TypeOK /\ StackOK /\ StacksInv /\ BaseInv /\ CallInv /\ LoadInv
        /\ routines[c] # << >>
    BY Known DEF PublishCall, At
  <1>2. PICK k \in DOMAIN calls : k = Top(c).call
    BY <1>1, TopComplete
  <1>3. PICK frames \in Seq(Frame) : /\ frames = << >> /\ Elements(frames) = {}
                                     /\ Len(frames) = 0
    BY FewFrames
  <1>4. /\ Become(c, frames, "nothing") /\ NodesSame /\ cached' = cached \cup {k}
        /\ UNCHANGED <<cancelled, active, expired>>
    BY <1>2, <1>3 DEF PublishCall, Become, NodesSame, nodeVars, hostVars
  <1>5. CallsKept /\ DOMAIN calls' = DOMAIN calls
    BY <1>4, Known DEF CallsKept, NodesSame, MapInv
  <1>6. Batch' = Batch \/ Batch' = NoBatch
    BY <1>1, <1>3, <1>4, BatchKept
  <1>7. Twins'
    <2>1. \A i \in 1 .. Len(frames) : frames[i].at # "launch"
      BY <1>3
    <2> QED
      BY <1>1, <1>4, <2>1, TwinsKept, Known DEF Going, NodesSame
  <1>8. ASSUME NEW n \in Node PROVE NodeGoes(n)'
    <2>1. NodeGoes(n) /\ SameNode(n)
      BY <1>4, Known DEF SameNode, NodesSame, CallsOf, Unanswered
    <2>2. "publish" \notin NodeWork
      BY DEF NodeWork, Loops
    <2> QED
      BY <1>1, <1>3, <1>4, <1>5, <1>6, <2>1, <2>2, NodeElse
  <1>9. ASSUME NEW j \in DOMAIN calls PROVE Reaches(j)'
    <2>1. Held(j) => Reaches(j)'
      BY <1>1, <1>2, <1>4, Runner DEF Reaches
    <2>2. Reaches(j)
      BY Known DEF Going
    <2>3. \A n \in Node : completed[n] # "no" => completed'[n] # "no"
      BY <1>4 DEF NodesSame
    <2> QED
      BY <1>1, <1>4, <1>5, <2>1, <2>2, <2>3, ReachKept
  <1>10. Alive' /\ ~cancelled' /\ active'
    BY <1>4, Known DEF Alive, Going
  <1> QED
    BY <1>5, <1>7, <1>8, <1>9, <1>10, SameDefinition DEF Going, CallsKept

\* A map that launches no more is over, or waits for an agent.
LEMMA LaunchedMap ==
    ASSUME TypeOK, NEW n \in Node, Tally(n), mapState[n].next >= Items \/ ~HasRoom(mapState[n])
    PROVE  Unanswered(n) # {} \/ (mapState[n].count = Items /\ mapState[n].next = Items)
  <1>1. /\ Items \in Nat /\ ConcurrencyLimit \in Nat
        /\ mapState[n].next \in 0 .. Items /\ mapState[n].count \in Nat
    BY CallFacts
  <1>2. CASE mapState[n].active # {}
    BY <1>2 DEF Tally
  <1>3. CASE mapState[n].active = {}
    <2>1. Cardinality(mapState[n].active) = 0
      BY <1>3, FS_EmptySet
    <2>2. mapState[n].next = mapState[n].count
      BY <1>1, <2>1 DEF Tally
    <2>3. HasRoom(mapState[n])
      BY <1>1, <2>1 DEF HasRoom
    <2> QED
      BY <1>1, <2>2, <2>3
  <1> QED
    BY <1>2, <1>3

\* The launch of items ends.
LEMMA LaunchedGoes == ASSUME Before, NEW c \in Routine, LaunchedAll(c) PROVE Going'
  <1>1. /\ At(c, "launch") /\ TypeOK /\ StackOK /\ StacksInv /\ BaseInv /\ CallInv /\ LoadInv
        /\ MapInv /\ routines[c] # << >> /\ "launch" \in NodeFrames
    BY Known DEF LaunchedAll, At, NodeFrames
  <1>2. PICK n \in Node : n = Top(c).node
    BY <1>1, TopNode
  <1>3. PICK frames \in Seq(Frame) : /\ frames = << >> /\ Elements(frames) = {}
                                     /\ Len(frames) = 0
    BY FewFrames
  <1>4. /\ Become(c, frames, "nothing") /\ NodesSame
        /\ UNCHANGED <<cancelled, active, cached, expired>>
        /\ mapState[n].next >= Items \/ ~HasRoom(mapState[n])
    BY <1>2, <1>3 DEF LaunchedAll, Become, NodesSame, nodeVars, groupVars, callVars, hostVars,
                      timerVars
  <1>5. CallsKept /\ DOMAIN calls' = DOMAIN calls
    BY <1>1, <1>4 DEF CallsKept, NodesSame, MapInv
  <1>6. Batch' = Batch \/ Batch' = NoBatch
    BY <1>1, <1>3, <1>4, BatchKept
  <1>7. Twins'
    <2>1. \A i \in 1 .. Len(frames) : frames[i].at # "launch"
      BY <1>3
    <2> QED
      BY <1>1, <1>4, <2>1, TwinsKept, Known DEF Going, NodesSame
  <1>8. /\ OthersSame(c) /\ turn' \in {c, Idle}
        /\ \A f \in Frames : f \in Frames' \/ f = Top(c)
        /\ routines'[c] # << >> /\ Head(routines'[c]) = routines[c][2]
        /\ routines'[c][1] = routines[c][2] /\ routines[c][2] \in Frames'
        /\ Twin(Top(c), routines[c][2], mapState)
    <2>1. PICK r : r = Tail(routines[c])
      OBVIOUS
    <2>2. /\ Len(r) \in Nat /\ Len(routines[c]) = Len(r) + 1 /\ RestOK("launch", r)
          /\ Head(routines[c]) = routines[c][1]
      BY <1>1, <2>1, StackAt
    <2>3. PICK j \in Nat : j = Len(r) /\ j # 0
      BY <2>2 DEF RestOK
    <2>4. 1 \in 1 .. (Len(routines[c]) - 1)
      BY <2>2, <2>3
    <2>5. turn = c /\ turn # Idle /\ Top(c) = routines[c][1] /\ Top(c).at = "launch"
      BY <1>1, <2>2, Runner DEF Top
    <2>6. Twin(Top(c), routines[c][1 + 1], mapState)
      BY <2>4, <2>5, Known DEF Going, Twins
    <2>7. /\ OthersSame(c) /\ turn' \in {c, Idle}
          /\ \A f \in Frames : f \in Frames' \/ f = Top(c)
          /\ \/ routines'[c] = << >> /\ Len(Tail(routines[c])) = 0
             \/ /\ routines'[c] # << >> /\ Head(routines'[c]) = routines[c][2]
                /\ routines'[c][1] = routines[c][2]
      BY <1>1, <1>3, <1>4, StackStep
    <2>8. routines'[c] # << >> /\ Head(routines'[c]) = routines[c][2]
          /\ routines'[c][1] = routines[c][2]
      BY <2>1, <2>3, <2>7
    <2>9. routines[c][2] \in Frames
      <3>1. 2 \in DOMAIN routines[c]
        BY <1>1, <2>2, <2>3, StackAt, LenProperties
      <3> QED
        BY <3>1 DEF Frames, Elements
    <2>10. routines[c][2] # Top(c)
      BY <2>5, <2>6 DEF Twin
    <2> QED
      BY <2>6, <2>7, <2>8, <2>9, <2>10
  <1>9. Kind[n] = "map"
    BY <1>1, <1>2, TopMap
  <1>10. Unanswered(n) # {} \/ (mapState[n].count = Items /\ mapState[n].next = Items)
    BY <1>1, <1>4, <1>9, LaunchedMap, Known DEF NodeGoes, MapTold
  <1>11. NodeGoes(n)'
    <2>1. NodeGoes(n) /\ SameNode(n)
      BY <1>4, Known DEF SameNode, NodesSame, CallsOf, Unanswered
    <2>2. n \in Todo' \cup Started' => n \in Todo \cup Started
      BY <1>6 DEF Todo, Started, NoBatch
    <2>3. n \in Started' => n \in Started
      BY <1>6 DEF Started, NoBatch
    <2>4. \A d \in Routine : Busy(d, n)' => Busy(d, n)
      BY <1>8 DEF Busy, OthersSame, Twin, Loops
    <2>5. Works(n)'
      <3>1. CASE Unanswered(n) # {}
        BY <1>1, <1>5, <1>9, <2>1, <3>1, AgentWorks DEF SameNode, CallsKept
      <3>2. CASE Unanswered(n) = {}
        <4>1. Items > 0 /\ mapState[n].count = Items
          BY <1>9, <1>10, <3>2, Known DEF Before, InlineEnds, Items, Kind, Node
        <4>2. routines[c][2].at = "mapcheck" /\ routines[c][2].node = n
          BY <1>2, <1>8, <4>1 DEF Twin
        <4> QED
          BY <1>8, <4>2 DEF Works, InHand, NodeWork
      <3> QED
        BY <3>1, <3>2
    <2>6. ~Here("looped", n)
      BY <1>1, Runner
    <2> QED
      BY <1>5, <1>10, <2>1, <2>2, <2>3, <2>4, <2>5, <2>6, NodeKept
  <1>12. ASSUME NEW m \in Node, m # n PROVE NodeGoes(m)'
    <2>1. NodeGoes(m) /\ SameNode(m)
      BY <1>4, Known DEF SameNode, NodesSame, CallsOf, Unanswered
    <2>2. routines[c][2].at = "mapcheck" => routines[c][2].node = n
      BY <1>2, <1>8 DEF Twin
    <2> QED
      BY <1>1, <1>2, <1>3, <1>4, <1>5, <1>6, <1>12, <2>1, <2>2, NodeElse
  <1>13. Alive'
    BY <1>8 DEF Alive
  <1>14. \A m \in Node : completed'[m] = completed[m]
    BY <1>4 DEF NodesSame
  <1> QED
    BY <1>1, <1>4, <1>5, <1>7, <1>11, <1>12, <1>13, <1>14, GoingStep, Known

\* Only loops have iterations to start.
LEMMA BusyLoop ==
    ASSUME StackOK, MapInv, NEW d \in Routine, NEW n, Busy(d, n)
    PROVE  Kind[n] = "loop" /\ routines[d] # << >>
  <1>1. routines[d] \in Seq(Frame) /\ Len(routines[d]) # 0
    BY DEF StackOK, Busy
  <1>2. 1 \in DOMAIN routines[d] /\ routines[d] # << >>
    <2>1. PICK j \in Nat : j = Len(routines[d]) /\ j # 0
      BY <1>1, LenProperties
    <2>2. DOMAIN routines[d] = 1 .. Len(routines[d])
      BY <1>1, LenProperties
    <2> QED
      BY <1>1, <2>1, <2>2, EmptySeq
  <1>3. routines[d][1] \in Frames
    BY <1>2 DEF Frames, Elements
  <1> QED
    BY <1>2, <1>3 DEF MapInv, MapFrameOK, Busy, Loops

\* A map is checked after a result: it is over, or waits for an agent.
LEMMA CheckMapGoes == ASSUME Before, NEW c \in Routine, CheckMap(c) PROVE Going'
  <1>1. /\ At(c, "mapcheck") /\ TypeOK /\ StackOK /\ StacksInv /\ BaseInv /\ CallInv /\ LoadInv
        /\ MapInv /\ routines[c] # << >> /\ "mapcheck" \in NodeFrames
        /\ definition \in Definitions
    BY Known DEF CheckMap, At, NodeFrames
  <1>2. PICK n \in Node : n = Top(c).node
    BY <1>1, TopNode
  <1>3. /\ NodesSame /\ UNCHANGED <<cancelled, active, cached, expired>>
    BY DEF CheckMap, Become, NodesSame, nodeVars, groupVars, callVars, hostVars, timerVars
  <1>4. Here("mapcheck", n) /\ \A m : ~Here("looped", m)
    BY <1>1, <1>2, Runner
  <1>5. CASE mapState[n].count = Items
    <2>1. PICK f \in Frame : f = [at |-> "aggregate", node |-> n]
      BY <1>1, FrameMade DEF NodeFrames
    <2>2. Become(c, <<f>>, "load")
      BY <1>2, <1>5, <2>1 DEF CheckMap
    <2> QED
      BY <1>1, <1>2, <1>3, <1>4, <2>1, <2>2, SwapGoes, Known DEF NodeWork, Loops
  <1>6. CASE mapState[n].count # Items
    <2>1. PICK frames \in Seq(Frame) : /\ frames = << >> /\ Elements(frames) = {}
                                       /\ Len(frames) = 0
      BY FewFrames
    <2>2. Become(c, frames, "nothing")
      BY <1>2, <1>6, <2>1 DEF CheckMap
    <2>3. Unanswered(n) # {} /\ Kind[n] = "map"
      BY <1>1, <1>2, <1>4, <1>6, TopMap, Known DEF NodeGoes, MapTold
    <2>4. routines'[c] = << >> /\ OthersSame(c) /\ turn' = Idle
      <3>1. Len(Tail(routines[c])) = 0
        BY <1>1, Alone DEF InBatch
      <3>2. /\ OthersSame(c) /\ turn' \in {c, Idle} /\ (turn' # Idle => routines'[c] # << >>)
            /\ \/ routines'[c] = << >> /\ Len(Tail(routines[c])) = 0
               \/ Len(Tail(routines[c])) # 0
        BY <1>1, <2>1, <2>2, StackStep
      <3> QED
        BY <3>1, <3>2
    <2>5. CallsKept /\ DOMAIN calls' = DOMAIN calls
      BY <1>1, <1>3 DEF CallsKept, NodesSame, MapInv
    <2>6. Batch' = NoBatch
      BY <2>4 DEF Batch
    <2>7. Twins'
      BY <2>4 DEF Twins
    <2>8. Alive'
      <3>1. PICK k \in DOMAIN calls : calls[k].node = n /\ k \notin answered
        BY <2>3 DEF Unanswered, CallsOf
      <3>2. Reaches(k) /\ ~Resolved(k) /\ ~Held(k)
        BY <1>1, <2>3, <3>1, Runner, Known DEF Going, Resolved
      <3> QED
        BY <1>3, <3>2 DEF Reaches, Alive
    <2>9. ASSUME NEW m \in Node PROVE NodeGoes(m)'
      <3>1. NodeGoes(m) /\ SameNode(m)
        BY <1>3, Known DEF SameNode, NodesSame, CallsOf, Unanswered
      <3>2. CASE m = n
        <4>1. Works(n)'
          BY <1>1, <2>3, <2>5, <3>1, <3>2, AgentWorks DEF SameNode, CallsKept
        <4>2. \A d \in Routine : Busy(d, n)' => Busy(d, n)
          <5>1. \A d \in Routine : d = c => ~Busy(d, n)'
            BY <2>4, EmptySeq DEF Busy
          <5> QED
            BY <2>4, <5>1 DEF Busy, OthersSame
        <4>3. n \notin Todo' \cup Started' /\ ~Here("mapcheck", n)'
          BY <2>4, <2>6 DEF Todo, Started, NoBatch, Here
        <4> QED
          BY <1>4, <2>5, <3>1, <3>2, <4>1, <4>2, <4>3, NodeKept
      <3>3. CASE m # n
        BY <1>1, <1>2, <2>1, <2>2, <2>5, <2>6, <3>1, <3>3, NodeElse
      <3> QED
        BY <3>2, <3>3
    <2>10. \A m \in Node : completed'[m] = completed[m]
      BY <1>3 DEF NodesSame
    <2> QED
      BY <1>1, <1>3, <2>5, <2>7, <2>8, <2>9, <2>10, GoingStep, Known
  <1> QED
    BY <1>5, <1>6

-----------------------------------------------------------------------------
(* Nodes that complete.                                                    *)

\* A node completes, when no batch is under way.
LEMMA DoneGoes ==
    ASSUME Before, NEW c \in Routine, NEW place, At(c, place), place \notin {"batch", "launch"},
           Len(Tail(routines[c])) = 0,
           NEW f \in Frame, f.at \notin NodeWork \cup {"batch"},
           NEW await, Become(c, <<f>>, await),
           NEW m \in Node, completed' = [completed EXCEPT ![m] = "done"],
           \/ pending' = NotPending(m)
           \/ pending' = pending /\ Kind[m] = "loop" /\ iterations[m] >= MaxIterations,
           UNCHANGED <<iterations, mapState, calls, answered>>,
           open' \subseteq open, m \notin open',
           place \in NodeWork => Top(c).node = m,
           \A d \in Routine : Busy(d, m) => d = c
    PROVE  /\ CallsKept /\ DOMAIN calls' = DOMAIN calls /\ Twins' /\ Alive'
           /\ \A n \in Node : completed[n] # "no" => completed'[n] # "no"
           /\ \A n \in Node : NodeGoes(n)'
  <1>1. /\ TypeOK /\ StackOK /\ StacksInv /\ BaseInv /\ CallInv /\ LoadInv /\ MapInv
        /\ routines[c] # << >> /\ definition' = definition
    BY Known DEF At, Become
  <1>2. CallsKept /\ DOMAIN calls' = DOMAIN calls
    BY <1>1 DEF CallsKept, MapInv
  <1>3. PICK frames \in Seq(Frame) : /\ frames = <<f>> /\ Elements(frames) = {f}
                                     /\ Len(frames) = 1 /\ frames[1] = f
    BY FewFrames
  <1>4. Become(c, frames, await) /\ Len(frames) # 0
    BY <1>3
  <1>5. /\ OthersSame(c) /\ turn' \in {c, Idle}
        /\ routines'[c] # << >> /\ routines'[c][1] = f /\ Head(routines'[c]) = f
    <2>1. /\ OthersSame(c) /\ turn' \in {c, Idle}
          /\ Len(frames) # 0 => /\ routines'[c] # << >> /\ routines'[c][1] = frames[1]
                                /\ Head(routines'[c]) = frames[1]
      BY <1>1, <1>4, StackStep
    <2> QED
      BY <1>3, <1>4, <2>1
  <1>6. Batch' = NoBatch
    <2>1. Batch' = Batch \/ Batch' = NoBatch
      BY <1>1, <1>3, <1>4, BatchKept
    <2>2. Batch = NoBatch
      BY <1>1, BatchAt DEF BatchOf
    <2> QED
      BY <2>1, <2>2
  <1>7. Twins'
    <2>1. \A i \in 1 .. Len(frames) : frames[i].at # "launch"
      BY <1>3 DEF NodeWork
    <2> QED
      BY <1>1, <1>4, <2>1, TwinsKept, Known DEF Going
  <1>8. Alive'
    BY <1>5 DEF Alive
  <1>9. completed'[m] = "done" /\ \A n \in Node : n # m => /\ completed'[n] = completed[n]
                                                           /\ pending'[n] = pending[n]
    BY <1>1 DEF TypeOK, NotPending
  <1>10. NodeGoes(m)'
    <2>1. Kind' = Kind /\ MaxIterations' = MaxIterations
      BY <1>1, SameDefinition DEF MaxIterations
    <2>2. pending[m] \in {0, 1} /\ (Kind[m] = "map" => Tally(m))
      BY Known DEF NodeGoes, Listed, MapTold
    <2>3. pending'[m] = 0 \/ (pending'[m] = pending[m] /\ AtLimit(m)')
      <3>1. CASE pending' = NotPending(m)
        BY <1>1, <2>2, <3>1 DEF TypeOK, NotPending
      <3>2. CASE pending' = pending /\ Kind[m] = "loop" /\ iterations[m] >= MaxIterations
        BY <1>9, <2>1, <3>2 DEF AtLimit
      <3> QED
        BY <3>1, <3>2
    <2>4. Listed(m)'
      BY <2>2, <2>3 DEF Listed
    <2>5. m \notin Todo' \cup Started'
      BY <1>6 DEF Todo, Started, NoBatch
    <2>6. \A d \in Routine : ~Busy(d, m)'
      BY <1>5 DEF Busy, OthersSame, NodeWork
    <2>7. Tally(m)' <=> Tally(m)
      <3>1. Unanswered(m)' = Unanswered(m)
        BY DEF Unanswered, CallsOf
      <3> QED
        BY <3>1 DEF Tally
    <2>8. ~Here("mapcheck", m)'
      BY <1>5 DEF Here, NodeWork
    <2>9. Untaken(m)' /\ LoopOpen(m)' /\ MapTold(m)'
      BY <2>1, <2>2, <2>5, <2>6, <2>7, <2>8 DEF Untaken, LoopOpen, MapTold
    <2>10. Driven(m)'
      BY <2>3, <2>5 DEF Driven
    <2> QED
      BY <2>4, <2>9, <2>10 DEF NodeGoes
  <1>11. ASSUME NEW n \in Node, n # m PROVE NodeGoes(n)'
    <2>1. NodeGoes(n) /\ SameNode(n)
      BY <1>9, <1>11, Known DEF SameNode, CallsOf, Unanswered
    <2>2. \A g \in Elements(frames) : g.at \notin NodeWork
      BY <1>3
    <2> QED
      BY <1>1, <1>2, <1>4, <1>6, <1>11, <2>1, <2>2, NodeElse
  <1> QED
    BY <1>2, <1>7, <1>8, <1>9, <1>10, <1>11

\* A loop ends: at its limit it stays in pending_nodes.
LEMMA LoopEndsGoes ==
    ASSUME Before, NEW c \in Routine, StopLoopAtLimit(c) \/ StopLoopOnCondition(c)
    PROVE  Going'
  <1>1. /\ At(c, "loop") /\ TypeOK /\ StackOK /\ StacksInv /\ BaseInv /\ CallInv /\ LoadInv
        /\ MapInv /\ InlineCalls /\ "loop" \in NodeFrames /\ definition \in Definitions
        /\ "loop" \in Loops
    BY Known DEF StopLoopAtLimit, StopLoopOnCondition, Runs, NodeFrames, Loops
  <1>2. PICK n \in Node : n = Top(c).node /\ Kind[n] = "loop"
    BY <1>1, TopNode, TopMap
  <1>3. PICK f \in Frame : f = Schedule /\ f.at = "schedule"
    BY <1>1, FrameMade
  <1>4. /\ completed' = [completed EXCEPT ![n] = "done"]
        /\ \/ pending' = NotPending(n)
           \/ pending' = pending /\ iterations[n] >= MaxIterations
        /\ Become(c, <<f>>, "nothing")
        /\ UNCHANGED <<iterations, mapState, calls, answered, open>>
        /\ UNCHANGED <<cancelled, active, cached, expired>>
        /\ iterations[n] # 0
    <2>1. MaxIterations > 0 /\ MaxIterations \in Nat
      BY <1>1, <1>2, Inline, DefinitionFacts
    <2> QED
      BY <1>2, <1>3, <2>1 DEF StopLoopAtLimit, StopLoopOnCondition, LoopEnds, groupVars,
                              callVars, hostVars, timerVars
  <1>5. /\ CallsOf(n) \subseteq answered /\ \A d \in Routine : Busy(d, n) => d = c
        /\ Len(Tail(routines[c])) = 0
    BY <1>1, <1>2, <1>4, BusyHere
  <1>6. n \notin open'
    <2>1. Unanswered(n) = {} /\ ~Here("looped", n)
      BY <1>1, <1>5, Runner DEF Unanswered
    <2> QED
      BY <1>2, <1>4, <2>1, Known DEF NodeGoes, LoopOpen
  <1>7. f.at \notin NodeWork \cup {"batch"}
    BY <1>3 DEF NodeWork, Loops
  <1> QED
    BY <1>1, <1>2, <1>4, <1>5, <1>6, <1>7, DoneGoes, GoingStep, Known

\* A map is over.
LEMMA FinalizeMapGoes == ASSUME Before, NEW c \in Routine, FinalizeMap(c) PROVE Going'
  <1>1. /\ At(c, "aggregate") /\ TypeOK /\ StackOK /\ StacksInv /\ BaseInv /\ CallInv
        /\ LoadInv /\ MapInv /\ "aggregate" \in NodeFrames /\ definition \in Definitions
    BY Known DEF FinalizeMap, NodeFrames
  <1>2. PICK n \in Node : n = Top(c).node /\ Kind[n] = "map"
    BY <1>1, TopNode, TopMap
  <1>3. PICK f \in Frame : f = Schedule /\ f.at = "schedule"
    BY <1>1, FrameMade
  <1>4. /\ completed' = [completed EXCEPT ![n] = "done"] /\ pending' = NotPending(n)
        /\ Become(c, <<f>>, "nothing") /\ open' = open \ {n}
        /\ UNCHANGED <<iterations, mapState, calls, answered>>
        /\ UNCHANGED <<cancelled, active, cached, expired>>
    BY <1>2, <1>3 DEF FinalizeMap, callVars, hostVars, timerVars
  <1>5. \A d \in Routine : Busy(d, n) => d = c
    BY <1>1, <1>2, BusyLoop
  <1>6. Len(Tail(routines[c])) = 0
    BY <1>1, Alone DEF InBatch
  <1>7. f.at \notin NodeWork \cup {"batch"}
    BY <1>3 DEF NodeWork, Loops
  <1> QED
    BY <1>1, <1>2, <1>4, <1>5, <1>6, <1>7, DoneGoes, GoingStep, Known

\* An agent node succeeded.
LEMMA SucceededGoes == ASSUME Before, NEW c \in Routine, NodeSucceeded(c) PROVE Going'
  <1>1. /\ At(c, "complete") /\ TypeOK /\ StackOK /\ StacksInv /\ BaseInv /\ CallInv
        /\ LoadInv /\ MapInv /\ definition \in Definitions
    BY Known DEF NodeSucceeded, Runs
  <1>2. PICK k \in DOMAIN calls : k = Top(c).call
    BY <1>1, TopComplete
  <1>3. PICK n \in Node : n = calls[k].node /\ Kind[n] = "agent"
    BY <1>1, <1>2, CallFacts DEF NodeSucceeded
  <1>4. PICK f \in Frame : f = [at |-> "load", node |-> n]
    BY <1>1, FrameMade DEF NodeFrames
  <1>5. /\ completed' = [completed EXCEPT ![n] = "done"] /\ pending' = NotPending(n)
        /\ Become(c, <<f>>, "load")
        /\ UNCHANGED <<iterations, mapState, calls, answered, open>>
        /\ UNCHANGED <<cancelled, active, cached, expired>>
    BY <1>2, <1>3, <1>4 DEF NodeSucceeded, groupVars, callVars, hostVars, timerVars
  <1>6. \A d \in Routine : Busy(d, n) => d = c
    BY <1>1, <1>3, BusyLoop
  <1>7. Len(Tail(routines[c])) = 0
    BY <1>1, Alone DEF InBatch
  <1>8. f.at \notin NodeWork \cup {"batch"} /\ "complete" \notin NodeWork
    BY <1>4 DEF NodeWork, Loops
  <1>9. n \notin open'
    BY <1>3, <1>5, Known DEF NodeGoes, LoopOpen
  <1>10. /\ CallsKept /\ DOMAIN calls' = DOMAIN calls /\ Twins' /\ Alive'
         /\ \A m \in Node : completed[m] # "no" => completed'[m] # "no"
         /\ \A m \in Node : NodeGoes(m)'
    BY <1>1, <1>5, <1>6, <1>7, <1>8, <1>9, DoneGoes
  <1>11. Resolved(k)'
    <2>1. Kind' = Kind /\ completed'[n] = "done"
      BY <1>1, <1>5, <1>10, SameDefinition DEF TypeOK, CallsKept
    <2> QED
      BY <1>3, <1>5, <2>1 DEF Resolved
  <1>12. ASSUME NEW j \in DOMAIN calls PROVE Reaches(j)'
    <2>1. Held(j) => Reaches(j)'
      BY <1>1, <1>2, <1>11, Runner DEF Reaches
    <2>2. Reaches(j)
      BY Known DEF Going
    <2> QED
      BY <1>1, <1>5, <1>10, <2>1, <2>2, ReachKept
  <1> QED
    BY <1>5, <1>10, <1>12, SameDefinition, Known DEF Going, CallsKept

-----------------------------------------------------------------------------
(* Scheduling.                                                             *)

\* A round finds nodes that are ready; or nobody is at work, and the workflow is
\* finalized; or somebody is at work.
LEMMA ScheduleGoes == ASSUME Before, NEW c \in Routine, ScheduleNodes(c) PROVE WaitInv'
  <1> DEFINE batch == [at |-> "batch", todo |-> NextNodes, started |-> {}]
  <1>1. /\ At(c, "schedule") /\ TypeOK /\ StackOK /\ StacksInv /\ BaseInv /\ CallInv /\ LoadInv
        /\ MapInv /\ InlineCalls /\ definition \in Definitions /\ routines[c] # << >>
        /\ "nothing" \notin Awaits
    BY Known DEF ScheduleNodes, Runs, At
  <1>2. /\ NodesSame /\ UNCHANGED <<cancelled, active, cached, expired>>
    BY DEF ScheduleNodes, Become, NodesSame, nodeVars, groupVars, callVars, hostVars, timerVars
  <1>3. Len(Tail(routines[c])) = 0 /\ Batch = NoBatch
    BY <1>1, Alone DEF InBatch
  <1>4. /\ CallsKept /\ DOMAIN calls' = DOMAIN calls
        /\ \A n \in Node : completed'[n] = completed[n]
    BY <1>1, <1>2 DEF CallsKept, NodesSame, MapInv
  <1>5. "schedule" \notin NodeWork /\ turn = c
    BY <1>1, Runner DEF NodeWork, Loops
  <1>6. CASE NextNodes # {}
    <2>1. batch \in Frame /\ batch.at = "batch" /\ batch.todo = NextNodes /\ batch.started = {}
      <3>1. NextNodes \in SUBSET Node
        BY DEF NextNodes
      <3> QED
        BY <1>1, <3>1, FrameMade
    <2>2. Become(c, <<batch>>, "nothing")
      BY <1>6 DEF ScheduleNodes
    <2> HIDE DEF batch
    <2>3. PICK frames \in Seq(Frame) : /\ frames = <<batch>> /\ Elements(frames) = {batch}
                                       /\ Len(frames) = 1 /\ frames[1] = batch
      BY <2>1, FewFrames
    <2>4. Become(c, frames, "nothing") /\ Len(frames) # 0 /\ batch.at \notin {"execute", "launch"}
          /\ batch.at = "batch" /\ batch.at # "finalize"
      BY <2>1, <2>2, <2>3
    <2>5. /\ OthersSame(c) /\ turn' \in {c, Idle} /\ routines'[c][1] = batch
          /\ Batch' = IF Len(Tail(routines[c])) # 0 THEN Batch
                      ELSE IF batch.at = "batch" THEN batch ELSE NoBatch
      <3>1. /\ StackOK /\ StacksInv /\ At(c, "schedule") /\ Become(c, frames, "nothing")
            /\ Len(frames) = 1 /\ frames[1] = batch
        BY <1>1, <2>3, <2>4
      <3>2. Len(Tail(routines[c])) = 0 =>
               /\ batch.at \notin {"execute", "launch"}
               /\ batch.at = "finalize" => batch.handlers = << >>
               /\ "nothing" \in Awaits => batch.at \in Waits
        BY <1>1, <2>4
      <3>3. Len(Tail(routines[c])) # 0 =>
               "nothing" \notin Awaits /\ RestOK(batch.at, Tail(routines[c]))
        BY <1>3
      <3> QED
        BY <3>1, <3>2, <3>3, Swap
    <2>6. /\ \A f \in Frames : f \in Frames' \/ f = Top(c)
          /\ Len(frames) # 0 => routines'[c] # << >> /\ Head(routines'[c]) = frames[1]
      BY <1>1, <2>4, StackStep
    <2>7. Todo' = NextNodes /\ Started' = {}
      BY <1>3, <2>1, <2>5 DEF Todo, Started
    <2>8. Twins'
      <3>1. \A i \in 1 .. Len(frames) : frames[i].at # "launch"
        BY <2>3, <2>4
      <3> QED
        BY <1>1, <1>2, <2>4, <3>1, TwinsKept, Known DEF Going, NodesSame
    <2>9. ASSUME NEW n \in Node PROVE NodeGoes(n)'
      <3>1. NodeGoes(n) /\ SameNode(n)
        BY <1>2, Known DEF SameNode, NodesSame, CallsOf, Unanswered
      <3>2. n \in Todo' \cup Started' => pending[n] = 0 /\ completed[n] = "no"
        BY <2>7 DEF NextNodes, Ready
      <3>3. InHand(n) => Works(n)'
        BY <1>1, <1>5, <2>6, Runner DEF InHand, Works
      <3>4. \A d \in Routine : Busy(d, n)' => Busy(d, n)
        BY <2>1, <2>5 DEF Busy, OthersSame, Loops
      <3>5. ~Here("looped", n) /\ ~Here("mapcheck", n)'
        <4>1. ~Here("looped", n)
          BY <1>1, Runner
        <4>2. Head(routines'[c]).at = "batch"
          BY <2>1, <2>3, <2>4, <2>6
        <4> QED
          BY <2>5, <4>1, <4>2 DEF Here
      <3> QED
        BY <1>4, <2>7, <3>1, <3>2, <3>3, <3>4, <3>5, NodeKept
    <2>10. Alive'
      BY <2>4, <2>6 DEF Alive
    <2>11. Going'
      BY <1>1, <1>2, <1>4, <2>8, <2>9, <2>10, GoingStep, Known
    <2> QED
      BY <2>11 DEF WaitInv
  <1>7. CASE NextNodes = {} /\ (Finished \/ Stuck)
    <2>1. PICK f \in Frame : f = Finalize("success") /\ f.at = "finalize"
      BY <1>1, FrameMade DEF Outcome
    <2>2. Become(c, <<f>>, "nothing")
      BY <1>7, <2>1 DEF ScheduleNodes
    <2>3. turn' = c /\ Head(routines'[c]) = f
      BY <1>1, <2>2, OnTop
    <2> QED
      BY <2>1, <2>3, IdleName DEF WaitInv, Ending, Ends
  <1>8. CASE NextNodes = {} /\ ~Finished /\ ~Stuck
    <2>1. PICK frames \in Seq(Frame) : /\ frames = << >> /\ Elements(frames) = {}
                                       /\ Len(frames) = 0
      BY FewFrames
    <2>2. Become(c, frames, "nothing")
      BY <1>8, <2>1 DEF ScheduleNodes
    <2>3. routines'[c] = << >> /\ OthersSame(c) /\ turn' = Idle
      <3>1. /\ OthersSame(c) /\ turn' \in {c, Idle} /\ (turn' # Idle => routines'[c] # << >>)
            /\ \/ routines'[c] = << >> /\ Len(Tail(routines[c])) = 0
               \/ Len(Tail(routines[c])) # 0
        BY <1>1, <2>1, <2>2, StackStep
      <3> QED
        BY <1>3, <3>1
    <2>4. Batch' = NoBatch
      BY <2>3 DEF Batch
    <2>5. Twins'
      BY <2>3 DEF Twins
    <2>6. Alive'
      <3>1. PICK n \in Node : n \in open \/ pending[n] # 0
        BY <1>1, <1>8 DEF Stuck, TypeOK
      <3>2. NodeGoes(n)
        BY Known
      <3>3. CASE AtLimit(n) /\ pending[n] # 0
        <4>1. LoopAtLimit
          BY <1>1, <3>3 DEF LoopAtLimit, TypeOK
        <4>2. LoopAtLimit' <=> LoopAtLimit
          BY <1>2, SameDefinition DEF LoopAtLimit, AtLimit, NodesSame, MaxIterations
        <4> QED
          BY <4>1, <4>2 DEF Alive
      <3>4. CASE ~(AtLimit(n) /\ pending[n] # 0)
        <4>1. Works(n)
          BY <1>1, <3>1, <3>2, <3>4 DEF NodeGoes, Driven, TypeOK
        <4>2. CASE InHand(n)
          <5>1. PICK f \in Frames : f.at \in NodeWork
            BY <4>2 DEF InHand
          <5>2. f # Top(c)
            BY <1>1, <1>5, <5>1, Runner
          <5>3. f \in Frames'
            BY <1>1, <2>1, <2>2, <5>2, StackStep
          <5>4. PICK d \in Routine : f \in Elements(routines'[d])
            BY <5>3 DEF Frames
          <5>5. routines'[d] # << >>
            BY <5>4, FewFrames
          <5> QED
            BY <5>5 DEF Alive
        <4>3. CASE \E k \in CallsOf(n) : ~Resolved(k)
          <5>1. PICK k \in DOMAIN calls : ~Resolved(k)
            BY <4>3 DEF CallsOf
          <5>2. Reaches(k) /\ ~Held(k)
            BY <1>1, Runner, Known DEF Going
          <5> QED
            BY <1>2, <5>1, <5>2 DEF Reaches, Alive
        <4> QED
          BY <4>1, <4>2, <4>3 DEF Works
      <3> QED
        BY <3>3, <3>4
    <2>7. ASSUME NEW n \in Node PROVE NodeGoes(n)'
      <3>1. NodeGoes(n) /\ SameNode(n)
        BY <1>2, Known DEF SameNode, NodesSame, CallsOf, Unanswered
      <3> QED
        BY <1>1, <1>4, <1>5, <2>1, <2>2, <2>4, <3>1, NodeElse
    <2>8. Going'
      BY <1>1, <1>2, <1>4, <2>5, <2>6, <2>7, GoingStep, Known
    <2> QED
      BY <2>8 DEF WaitInv
  <1> QED
    BY <1>6, <1>7, <1>8

\* The node just executed is pending unless it is completed, and the next one is
\* executed.
LEMMA ExecuteGoes == ASSUME Before, NEW c \in Routine, ExecuteNext(c) PROVE Going'
  <1>1. /\ At(c, "batch") /\ TypeOK /\ StackOK /\ StacksInv /\ BaseInv /\ CallInv /\ LoadInv
        /\ MapInv /\ InlineCalls /\ definition \in Definitions /\ routines[c] # << >>
        /\ "nothing" \notin Awaits /\ "session" \notin Awaits
    BY Known DEF ExecuteNext, At
  <1>2. /\ UNCHANGED <<completed, iterations, mapState, calls, answered, open, definition>>
        /\ UNCHANGED <<cancelled, active, cached, expired>>
        /\ pending' = [n \in Node |-> IF n \in Top(c).started /\ completed[n] = "no"
                                      THEN pending[n] + 1 ELSE pending[n]]
    BY DEF ExecuteNext, Become, groupVars, callVars, hostVars, timerVars
  <1>3. Len(Tail(routines[c])) = 0 /\ Batch = Top(c)
    BY <1>1, Alone, BatchAt DEF InBatch
  <1>4. /\ Top(c).todo = Todo /\ Top(c).started = Started /\ Todo \subseteq Node
    <2>1. Top(c) \in Frame /\ Top(c).at = "batch"
      BY <1>1, TopFrame
    <2> QED
      BY <1>3, <2>1, FrameFields DEF Todo, Started
  <1>5. ASSUME NEW n \in Node
        PROVE  /\ n \in Started => pending[n] = 0 /\ pending'[n] = 1 /\ completed[n] = "no"
               /\ n \notin Started => pending'[n] = pending[n]
               /\ n \in Todo => n \notin Started /\ pending[n] = 0 /\ completed[n] = "no"
    <2>1. n \in Started => pending[n] = 0 /\ completed[n] = "no"
      BY Known DEF NodeGoes, Untaken
    <2>2. n \in Todo => n \notin Started /\ pending[n] = 0 /\ completed[n] = "no"
      BY Known DEF NodeGoes, Untaken, NodeOK, NodeGiven, Given
    <2> QED
      BY <1>2, <1>4, <2>1, <2>2
  <1>6. CallsKept /\ DOMAIN calls' = DOMAIN calls
    BY <1>1, <1>2 DEF CallsKept, MapInv
  <1>7. "batch" \notin NodeWork /\ \A m : ~Here("looped", m)
    BY <1>1, Runner DEF NodeWork, Loops
  <1>8. ASSUME NEW frames \in Seq(Frame), NEW await, Become(c, frames, await), Len(frames) # 0,
               frames[1].at \notin {"mapcheck"} \cup Loops,
               \A i \in 1 .. Len(frames) : frames[i].at # "launch",
               Todo' \cup Started' \subseteq Todo, \A n \in Started' : InHand(n)'
        PROVE  Going'
    <2>1. /\ OthersSame(c) /\ turn' \in {c, Idle}
          /\ \A f \in Frames : f \in Frames' \/ f = Top(c)
          /\ Len(frames) # 0 => /\ routines'[c] # << >> /\ routines'[c][1] = frames[1]
                                /\ Head(routines'[c]) = frames[1]
      BY <1>1, <1>8, StackStep
    <2>2. Twins'
      BY <1>1, <1>2, <1>8, TwinsKept, Known DEF Going
    <2>3. Alive'
      BY <1>8, <2>1 DEF Alive
    <2>4. ASSUME NEW n \in Node PROVE NodeGoes(n)'
      <3>1. NodeGoes(n) /\ SameCalls(n)
        BY <1>2, Known DEF SameCalls, CallsOf, Unanswered
      <3>2. InHand(n) => Works(n)'
        BY <1>1, <1>7, <2>1, Runner DEF InHand, Works
      <3>3. \A d \in Routine : Busy(d, n)' => Busy(d, n)
        BY <1>8, <2>1 DEF Busy, OthersSame
      <3>4. ~Here("mapcheck", n)'
        BY <1>8, <2>1 DEF Here
      <3>5. CASE n \notin Started
        <4>1. SameNode(n)
          BY <1>2, <1>5, <3>1, <3>5 DEF SameNode, SameCalls
        <4>2. n \in Started' => Works(n)'
          BY <1>8 DEF Works
        <4> QED
          BY <1>6, <1>7, <1>8, <3>1, <3>2, <3>3, <3>4, <4>1, <4>2, NodeKept
      <3>6. CASE n \in Started
        <4>1. n \notin Todo' \cup Started' /\ pending'[n] = 1
          BY <1>5, <1>8, <3>6
        <4>2. Listed(n)' /\ Untaken(n)'
          BY <4>1 DEF Listed, Untaken
        <4>3. LoopOpen(n)'
          BY <1>2, <1>7, <3>1, <3>3, SameDefinition DEF NodeGoes, LoopOpen, SameCalls
        <4>4. MapTold(n)'
          <5>1. Tally(n)' <=> Tally(n)
            BY <1>2, <3>1 DEF Tally, SameCalls
          <5> QED
            BY <1>2, <3>1, <3>4, <5>1, SameDefinition DEF NodeGoes, MapTold
        <4>5. Works(n)'
          <5>1. Works(n)
            BY <3>1, <3>6 DEF NodeGoes, Driven
          <5> QED
            BY <1>6, <3>1, <3>2, <5>1, WorksKept
        <4> QED
          BY <4>2, <4>3, <4>4, <4>5 DEF NodeGoes, Driven
      <3> QED
        BY <3>5, <3>6
    <2>5. \A n \in Node : completed'[n] = completed[n]
      BY <1>2
    <2> QED
      BY <1>1, <1>2, <1>6, <2>2, <2>3, <2>4, <2>5, GoingStep, Known
  <1>9. CASE Become(c, <<Schedule>>, "session")
    <2>1. PICK f \in Frame : f = Schedule /\ f.at = "schedule"
      BY <1>1, FrameMade
    <2>2. PICK frames \in Seq(Frame) : /\ frames = <<f>> /\ Len(frames) = 1 /\ frames[1] = f
      BY FewFrames
    <2>3. Become(c, frames, "session")
      BY <1>9, <2>1, <2>2
    <2>4. Batch' = IF Len(Tail(routines[c])) # 0 THEN Batch
                   ELSE IF f.at = "batch" THEN f ELSE NoBatch
      BY <1>1, <1>3, <2>1, <2>2, <2>3, Swap
    <2>5. Todo' = {} /\ Started' = {}
      BY <1>3, <2>1, <2>4 DEF Todo, Started, NoBatch
    <2>6. frames[1].at \notin {"mapcheck"} \cup Loops
      BY <2>1, <2>2 DEF Loops
    <2>7. \A i \in 1 .. Len(frames) : frames[i].at # "launch"
      BY <2>1, <2>2
    <2>8. Len(frames) # 0 /\ Todo' \cup Started' \subseteq Todo /\ \A n \in Started' : InHand(n)'
      BY <2>2, <2>5
    <2> QED
      BY <1>8, <2>2, <2>3, <2>6, <2>7, <2>8
  <1>10. ASSUME NEW n \in Todo,
                Become(c, <<[at |-> "execute", node |-> n],
                            [at |-> "batch", todo |-> Todo \ {n}, started |-> {n}]>>,
                       "nothing")
         PROVE  Going'
    <2>1. PICK f \in Frame : f = [at |-> "execute", node |-> n]
      BY <1>1, <1>4, FrameMade DEF NodeFrames
    <2>2. PICK g \in Frame : g = [at |-> "batch", todo |-> Todo \ {n}, started |-> {n}]
      <3>1. Todo \ {n} \in SUBSET Node /\ {n} \in SUBSET Node
        BY <1>4
      <3> QED
        BY <1>1, <3>1, FrameMade
    <2>3. PICK frames \in Seq(Frame) : frames = <<f, g>> /\ Elements(frames) = {f, g}
      BY FewFrames
    <2>4. /\ Become(c, frames, "nothing") /\ Len(frames) = 2 /\ frames[1] = f /\ frames[2] = g
      BY <1>10, <2>1, <2>2, <2>3
    <2>5. g.at = "batch" /\ f.at \in InBatch
      BY <2>1, <2>2 DEF InBatch
    <2>6. Batch' = IF Len(Tail(routines[c])) # 0 THEN Batch
                   ELSE IF g.at = "batch" THEN g ELSE NoBatch
      BY <1>1, <1>3, <2>4, <2>5, Push
    <2>7. Todo' = Todo \ {n} /\ Started' = {n}
      BY <1>3, <2>2, <2>5, <2>6 DEF Todo, Started
    <2>8. InHand(n)'
      <3>1. f \in Frames'
        BY <1>1, <2>3, <2>4, StackStep
      <3> QED
        BY <2>1, <3>1 DEF InHand, NodeWork
    <2>9. frames[1].at \notin {"mapcheck"} \cup Loops
      BY <2>1, <2>4 DEF Loops
    <2>10. \A i \in 1 .. Len(frames) : frames[i].at # "launch"
      BY <2>1, <2>2, <2>4
    <2> QED
      BY <1>8, <2>4, <2>7, <2>8, <2>9, <2>10
  <1> QED
    BY <1>4, <1>9, <1>10 DEF ExecuteNext

-----------------------------------------------------------------------------
(* Maps and loops.                                                         *)

\* A map starts: nothing of it was launched.
LEMMA StartMapGoes == ASSUME Before, NEW c \in Routine, StartMap(c) PROVE Going'
  <1>1. /\ At(c, "execute") /\ TypeOK /\ StackOK /\ StacksInv /\ BaseInv /\ CallInv /\ LoadInv
        /\ MapInv /\ InlineCalls /\ definition \in Definitions /\ routines[c] # << >>
        /\ "nothing" \notin Awaits /\ "execute" \in NodeFrames
    BY Known DEF StartMap, Runs, At, NodeFrames
  <1>2. PICK n \in Node : n = Top(c).node
    BY <1>1, TopNode
  <1>3. PICK f \in Frame : f = [at |-> "launch", node |-> n]
    BY <1>1, FrameMade DEF NodeFrames
  <1>4. PICK frames \in Seq(Frame) : /\ frames = <<f>> /\ Elements(frames) = {f}
                                     /\ Len(frames) = 1 /\ frames[1] = f
    BY FewFrames
  <1>5. /\ Become(c, frames, "nothing") /\ Len(frames) # 0 /\ Kind[n] = "map"
        /\ UNCHANGED <<completed, pending, calls, answered, iterations, definition>>
        /\ UNCHANGED <<cancelled, active, cached, expired>>
        /\ mapState' = [mapState EXCEPT ![n] = [next |-> 0, count |-> 0, active |-> {}]]
        /\ open' = open \cup {n}
    BY <1>2, <1>3, <1>4 DEF StartMap, Become, nodeVars, callVars, hostVars, timerVars
  <1>6. /\ Len(Tail(routines[c])) # 0 /\ n \in Started /\ Fresh(n)
    BY <1>1, <1>2, Executing
  <1>7. CallsKept /\ DOMAIN calls' = DOMAIN calls /\ \A m \in Node : completed'[m] = completed[m]
    BY <1>1, <1>5 DEF CallsKept, MapInv
  <1>8. Batch' = Batch \/ Batch' = NoBatch
    <2>1. \A g \in Elements(frames) : g.at # "batch"
      BY <1>3, <1>4
    <2> QED
      BY <1>1, <1>5, <2>1, BatchKept
  <1>9. /\ mapState'[n] = [next |-> 0, count |-> 0, active |-> {}]
        /\ \A m \in Node : m # n => mapState'[m] = mapState[m]
    BY <1>1, <1>5, CallFacts
  <1>10. /\ OthersSame(c) /\ turn' \in {c, Idle} /\ f \in Frames'
         /\ routines'[c] # << >> /\ routines'[c][1] = f /\ Head(routines'[c]) = f
    <2>1. /\ OthersSame(c) /\ turn' \in {c, Idle} /\ Elements(frames) \subseteq Frames'
          /\ Len(frames) # 0 => /\ routines'[c] # << >> /\ routines'[c][1] = frames[1]
                                /\ Head(routines'[c]) = frames[1]
      BY <1>1, <1>5, StackStep
    <2> QED
      BY <1>4, <1>5, <2>1
  <1>11. Twins'
    <2>1. PICK r : r = Tail(routines[c])
      OBVIOUS
    <2>2. /\ Len(r) \in Nat /\ RestOK("execute", r) /\ Len(r) # 0
      BY <1>1, <1>6, <2>1, StackAt
    <2>3. Len(r) = 1 /\ r[1].at = "batch"
      BY <2>2 DEF RestOK, InBatch
    <2>4. /\ Len(routines'[c]) = Len(frames) + Len(r)
          /\ \A i \in 1 .. Len(r) : routines'[c][Len(frames) + i] = r[i]
      BY <1>1, <1>5, <2>1, NewStack
    <2>5. Len(routines'[c]) = 2 /\ routines'[c][1 + 1] = r[1]
      BY <1>4, <2>3, <2>4
    <2>6. Twin(routines'[c][1], routines'[c][1 + 1], mapState')
      BY <1>3, <1>9, <1>10, <2>3, <2>5 DEF Twin
    <2>7. \A i \in 1 .. Len(frames) : frames[i].at = "launch" =>
             i < Len(routines'[c]) /\ Twin(routines'[c][i], routines'[c][i + 1], mapState')
      BY <1>4, <2>5, <2>6
    <2>8. \A g \in Frames : g.at = "launch" /\ mapState[g.node].count = 0
                            => mapState'[g.node].count = 0
      <3> SUFFICES ASSUME NEW g \in Frames, g.at = "launch", mapState[g.node].count = 0
                   PROVE  mapState'[g.node].count = 0
        OBVIOUS
      <3>1. g.node \in Node
        BY <1>1, InFrame, FrameFields DEF NodeFrames
      <3> QED
        BY <1>9, <3>1
    <2> QED
      BY <1>1, <1>5, <2>7, <2>8, TwinsKept, Known DEF Going
  <1>12. Alive'
    BY <1>10 DEF Alive
  <1>13. NodeGoes(n)'
    <2>1. pending[n] = 0 /\ completed[n] = "no"
      BY <1>6, Known DEF NodeGoes, Untaken
    <2>2. Kind'[n] = "map" /\ CallsOf(n)' = {}
      BY <1>5, <1>6, SameDefinition DEF CallsOf, Fresh
    <2>3. \A d \in Routine : ~Busy(d, n)'
      BY <1>3, <1>6, <1>10 DEF Busy, OthersSame, Fresh, Loops
    <2>4. ~Here("mapcheck", n)'
      BY <1>3, <1>10 DEF Here
    <2>5. Tally(n)'
      <3>1. Unanswered(n)' = {}
        BY <2>2 DEF Unanswered
      <3>2. Cardinality({}) = 0 /\ {} = {calls'[k].index : k \in {}}
        BY FS_EmptySet
      <3> QED
        BY <1>9, <3>1, <3>2 DEF Tally
    <2>6. Works(n)'
      BY <1>3, <1>10 DEF Works, InHand, NodeWork
    <2>7. Listed(n)' /\ Untaken(n)'
      BY <1>5, <2>1 DEF Listed, Untaken
    <2>8. LoopOpen(n)' /\ MapTold(n)' /\ Driven(n)'
      BY <2>2, <2>3, <2>4, <2>5, <2>6 DEF LoopOpen, MapTold, Driven
    <2> QED
      BY <2>7, <2>8 DEF NodeGoes
  <1>14. ASSUME NEW m \in Node, m # n PROVE NodeGoes(m)'
    <2>1. NodeGoes(m) /\ SameNode(m)
      BY <1>5, <1>9, <1>14, Known DEF SameNode, CallsOf, Unanswered
    <2>2. \A g \in Elements(frames) : g.node # m
      BY <1>3, <1>4, <1>14
    <2> QED
      BY <1>1, <1>2, <1>5, <1>7, <1>8, <1>14, <2>1, <2>2, NodeElse
  <1> QED
    BY <1>1, <1>5, <1>7, <1>11, <1>12, <1>13, <1>14, GoingStep, Known
-----------------------------------------------------------------------------
(* Calls.                                                                  *)

\* A call is made for n: it is held until it is published.
LEMMA CallGoes ==
    ASSUME Before, NEW c \in Routine, NEW place \in {"execute", "iterate", "launch"}, At(c, place),
           NEW n \in Node, n = Top(c).node, NEW index \in Nat, NEW rest \in Seq(Frame),
           rest = << >> \/ (rest = <<Top(c)>> /\ place = "launch"),
           StartCall(c, n, index, rest),
           UNCHANGED <<completed, pending, answered, cancelled, active, cached, expired>>,
           \A m \in Node : /\ m # n => iterations'[m] = iterations[m] /\ mapState'[m] = mapState[m]
                           /\ mapState'[m].count = mapState[m].count,
           open' \subseteq open \cup {n}, n \in open' => Kind[n] # "agent",
           completed[n] = "no" \/ Kind[n] = "map",
           Kind[n] = "map" => Tally(n)'
    PROVE  Going'
  <1>1. /\ TypeOK /\ StackOK /\ StacksInv /\ BaseInv /\ CallInv /\ LoadInv /\ MapInv
        /\ definition \in Definitions /\ routines[c] # << >> /\ "save" \notin Awaits
    BY Known DEF At
  <1>2. PICK e : e = Len(calls) + 1
    OBVIOUS
  <1>3. /\ DOMAIN calls' = DOMAIN calls \cup {e} /\ e \in Call /\ e \notin DOMAIN calls
        /\ calls'[e].node = n /\ \A k \in DOMAIN calls : calls'[k] = calls[k]
    <2>1. DOMAIN calls = 1 .. Len(calls) /\ Len(calls) \in Nat
      BY <1>1, CallFacts
    <2>2. e \notin DOMAIN calls
      BY <1>2, <2>1
    <2>3. /\ DOMAIN calls' = DOMAIN calls \cup {Len(calls) + 1} /\ Len(calls) + 1 \in Call
          /\ calls'[Len(calls) + 1].node = n
          /\ \A k \in DOMAIN calls : calls'[k] = calls[k]
      BY <1>1, NewCall
    <2> QED
      BY <1>2, <2>2, <2>3
  <1>4. PICK f \in Frame : f = [at |-> "publish", call |-> e] /\ f.at = "publish"
    BY <1>1, <1>3, FrameMade
  <1>5. PICK frames \in Seq(Frame) :
            /\ frames = <<f>> \o rest /\ Elements(frames) \subseteq {f} \cup Elements(rest)
            /\ Len(frames) = 1 + Len(rest) /\ frames[1] = f
            /\ \A i \in 1 .. Len(rest) : frames[1 + i] = rest[i]
    BY CallFrames
  <1>6. Become(c, frames, "save") /\ definition' = definition
    BY <1>2, <1>4, <1>5 DEF StartCall, Become
  <1>7. /\ Top(c) \in Frame /\ Elements(rest) \subseteq {Top(c)} /\ Len(rest) \in {0, 1}
        /\ Len(rest) = 1 => rest[1] = Top(c) /\ place = "launch"
        /\ Top(c).at = place
    <2>1. PICK g \in Frame : g = Top(c) /\ Top(c).at = place
      BY <1>1, TopFrame
    <2>2. Elements(<< >>) = {} /\ Len(<< >>) = 0
      BY FewFrames
    <2>3. Elements(<<g>>) = {g} /\ Len(<<g>>) = 1 /\ <<g>>[1] = g
      BY <2>1, FewFrames
    <2>4. CASE rest = << >>
      BY <2>1, <2>2, <2>4
    <2>5. CASE rest = <<g>> /\ place = "launch"
      BY <2>1, <2>3, <2>5
    <2> QED
      BY <2>1, <2>4, <2>5
  <1>8. Len(frames) # 0 /\ Len(frames) \in {1, 2}
    BY <1>5, <1>7
  <1>9. /\ OthersSame(c) /\ turn' = c /\ turn' # Idle
        /\ routines'[c] # << >> /\ routines'[c][1] = f /\ Head(routines'[c]) = f
    <2>1. /\ OthersSame(c)
          /\ Len(frames) # 0 => /\ routines'[c] # << >> /\ routines'[c][1] = frames[1]
                                /\ Head(routines'[c]) = frames[1]
      BY <1>1, <1>6, StackStep
    <2>2. Len(routines'[c]) # 0
      <3>1. /\ Len(routines'[c]) = Len(frames) + Len(Tail(routines[c]))
            /\ Len(Tail(routines[c])) \in Nat
        BY <1>1, <1>6, NewStack, StackAt
      <3> QED
        BY <1>8, <3>1
    <2>3. turn' = IF "save" \in Awaits \/ Len(routines'[c]) = 0 THEN Idle ELSE c
      BY <1>1, <1>6, NewStack
    <2> QED
      BY <1>1, <1>5, <1>8, <2>1, <2>2, <2>3, IdleName
  <1>10. CallsKept
    BY <1>3, <1>6, Known DEF CallsKept, MapInv
  <1>11. /\ e \in CallsOf(n)' /\ e \notin answered'
         /\ \A m \in Node : m # n => CallsOf(m)' = CallsOf(m) /\ Unanswered(m)' = Unanswered(m)
    BY <1>1, <1>3 DEF CallsOf, Unanswered, MapInv
  <1>12. Batch' = Batch \/ Batch' = NoBatch
    <2>1. \A g \in Elements(frames) : g.at # "batch"
      BY <1>4, <1>5, <1>7
    <2> QED
      BY <1>1, <1>6, <2>1, BatchKept
  <1>13. Kind' = Kind
    BY <1>6, SameDefinition
  <1>14. NodeGoes(n)'
    <2>1. NodeGoes(n)
      BY Known
    <2>2. Listed(n)' /\ Untaken(n)'
      BY <1>12, <2>1 DEF NodeGoes, Listed, Untaken, Todo, Started, NoBatch
    <2>3. \A d \in Routine : Busy(d, n)' => Busy(d, n)
      BY <1>4, <1>9 DEF Busy, OthersSame, Loops
    <2>4. LoopOpen(n)'
      BY <1>11, <1>13, <2>1, <2>3 DEF NodeGoes, LoopOpen, Unanswered
    <2>5. MapTold(n)'
      BY <1>4, <1>9, <1>13 DEF MapTold, Here
    <2>6. Works(n)'
      <3>1. ~Resolved(e)'
        BY <1>3, <1>11, <1>13 DEF Resolved
      <3> QED
        BY <1>11, <3>1 DEF Works
    <2> QED
      BY <2>2, <2>4, <2>5, <2>6 DEF NodeGoes, Driven
  <1>15. ASSUME NEW m \in Node, m # n PROVE NodeGoes(m)'
    <2>1. NodeGoes(m) /\ SameNode(m)
      BY <1>11, <1>15, Known DEF SameNode
    <2>2. \A g \in Elements(frames) : g.at \in NodeWork => g.node # m
      BY <1>4, <1>5, <1>7, <1>15 DEF NodeWork, Loops
    <2> QED
      BY <1>1, <1>6, <1>8, <1>10, <1>12, <1>15, <2>1, <2>2, NodeElse
  <1>16. Twins'
    <2>1. ASSUME NEW i \in 1 .. Len(frames), frames[i].at = "launch"
          PROVE  i < Len(routines'[c]) /\ Twin(routines'[c][i], routines'[c][i + 1], mapState')
      <3>1. Len(rest) = 1 /\ i = 2
        BY <1>4, <1>5, <1>7, <2>1
      <3>2. place = "launch" /\ Len(frames) = 2
        BY <1>5, <1>7, <3>1
      <3>3. PICK r : r = Tail(routines[c])
        OBVIOUS
      <3>4. /\ Len(r) \in Nat /\ Len(routines[c]) = Len(r) + 1 /\ RestOK("launch", r)
            /\ Head(routines[c]) = routines[c][1]
            /\ \A j \in 1 .. Len(r) : r[j] = routines[c][j + 1]
        BY <1>1, <3>2, <3>3, StackAt
      <3>5. PICK j \in Nat : j = Len(r) /\ j # 0
        BY <3>4 DEF RestOK
      <3>6. r[1] = routines[c][1 + 1]
        BY <3>4, <3>5
      <3>7. /\ Len(routines'[c]) = Len(frames) + Len(r)
            /\ \A l \in 1 .. Len(frames) : routines'[c][l] = frames[l]
            /\ \A l \in 1 .. Len(r) : routines'[c][Len(frames) + l] = r[l]
        BY <1>1, <1>6, <3>3, NewStack
      <3>8. Len(routines'[c]) = 2 + j /\ routines'[c][2] = frames[2] /\ routines'[c][2 + 1] = r[1]
        BY <3>2, <3>5, <3>7
      <3>9. frames[2] = Top(c)
        <4>1. frames[1 + 1] = rest[1]
          BY <1>5, <3>1
        <4> QED
          BY <1>7, <3>1, <4>1
      <3>10. Twin(Top(c), r[1], mapState)
        <4>1. turn = c /\ turn # Idle /\ Top(c) = routines[c][1] /\ Top(c).at = "launch"
          BY <1>1, <1>7, <3>2, <3>4, Runner DEF Top
        <4>2. 1 \in 1 .. (Len(routines[c]) - 1)
          BY <3>4, <3>5
        <4> QED
          BY <3>6, <4>1, <4>2, Known DEF Going, Twins
      <3>11. Twin(Top(c), r[1], mapState')
        BY <3>10 DEF Twin
      <3>12. i < Len(routines'[c])
        BY <3>1, <3>5, <3>8
      <3> QED
        BY <3>1, <3>8, <3>9, <3>11, <3>12
    <2>2. ASSUME NEW g \in Frames, g.at = "launch", mapState[g.node].count = 0
          PROVE  mapState'[g.node].count = 0
      <3>1. g.node \in Node
        BY <1>1, <2>2, InFrame, FrameFields DEF NodeFrames
      <3> QED
        BY <2>2, <3>1
    <2> QED
      BY <1>1, <1>6, <2>1, <2>2, TwinsKept, Known DEF Going
  <1>17. ASSUME NEW k \in DOMAIN calls' PROVE Reaches(k)'
    <2>1. CASE k = e
      BY <1>4, <1>9, <2>1 DEF Reaches, Held
    <2>2. CASE k # e
      <3>1. k \in DOMAIN calls
        BY <1>3, <2>2
      <3>2. Reaches(k) /\ ~Held(k)
        BY <1>1, <3>1, Runner, Known DEF Going
      <3>3. \A m \in Node : completed[m] # "no" => completed'[m] # "no"
        OBVIOUS
      <3> QED
        BY <1>1, <1>10, <3>1, <3>2, <3>3, ReachKept
    <2> QED
      BY <2>1, <2>2
  <1>18. Alive'
    BY <1>9 DEF Alive
  <1>19. ~cancelled' /\ active'
    BY Known DEF Going
  <1> QED
    BY <1>13, <1>14, <1>15, <1>16, <1>17, <1>18, <1>19, SameDefinition, <1>6 DEF Going

\* An agent node is given to its agent.
LEMMA AgentGoes == ASSUME Before, NEW c \in Routine, CallAgent(c) PROVE Going'
  <1>1. /\ At(c, "execute") /\ TypeOK /\ StackOK /\ BaseInv /\ CallInv
        /\ "execute" \in NodeFrames
    BY Known DEF CallAgent, Runs, NodeFrames
  <1>2. PICK n \in Node : n = Top(c).node
    BY <1>1, TopNode
  <1>3. PICK rest \in Seq(Frame) : rest = << >>
    BY FewFrames
  <1>4. /\ StartCall(c, n, 0, rest) /\ Kind[n] = "agent"
        /\ UNCHANGED <<completed, pending, iterations, open, answered, mapState>>
        /\ UNCHANGED <<cancelled, active, cached, expired>>
    BY <1>2, <1>3 DEF CallAgent, nodeVars, groupVars, hostVars, timerVars
  <1>5. completed[n] = "no"
    <2>1. n \in Started
      BY <1>1, <1>2, Executing
    <2> QED
      BY <2>1, Known DEF NodeGoes, Untaken
  <1>6. n \notin open
    BY <1>4, Known DEF NodeGoes, LoopOpen
  <1> QED
    BY <1>1, <1>2, <1>3, <1>4, <1>5, <1>6, CallGoes

\* An iteration of a loop is given to an agent.
LEMMA IterateGoes == ASSUME Before, NEW c \in Routine, Iterate(c) PROVE Going'
  <1>1. /\ At(c, "iterate") /\ TypeOK /\ StackOK /\ BaseInv /\ CallInv /\ MapInv
        /\ "iterate" \in Loops /\ routines[c] # << >>
    BY Known DEF Iterate, Loops, At
  <1>2. /\ Top(c).node \in Node /\ Top(c).index \in Nat /\ Kind[Top(c).node] = "loop"
    <2>1. Top(c) \in Frame /\ Top(c).at = "iterate"
      BY <1>1, TopFrame
    <2>2. Top(c).node \in Node /\ Top(c).index \in 0 .. (MaxIterations - 1)
      BY <2>1, FrameFields
    <2> QED
      BY <1>1, <2>2, TopMap
  <1>3. PICK n \in Node, index \in Nat : n = Top(c).node /\ index = Top(c).index
    BY <1>2
  <1>4. PICK rest \in Seq(Frame) : rest = << >>
    BY FewFrames
  <1>5. /\ StartCall(c, n, index, rest)
        /\ iterations' = [iterations EXCEPT ![n] = Top(c).index + 1]
        /\ open' = open \cup {n}
        /\ UNCHANGED <<completed, pending, answered, mapState>>
        /\ UNCHANGED <<cancelled, active, cached, expired>>
    BY <1>3, <1>4 DEF Iterate, nodeVars, hostVars, timerVars
  <1>6. completed[n] = "no"
    <2>1. Busy(c, n)
      BY <1>1, <1>3, BusyHere
    <2> QED
      BY <2>1, Known DEF NodeGoes, LoopOpen
  <1>7. \A m \in Node : m # n => iterations'[m] = iterations[m]
    BY <1>1, <1>5 DEF TypeOK
  <1> QED
    BY <1>1, <1>2, <1>3, <1>4, <1>5, <1>6, <1>7, CallGoes

\* An item of a map is given to an agent.
LEMMA LaunchItemGoes == ASSUME Before, NEW c \in Routine, LaunchItem(c) PROVE Going'
  <1>1. /\ At(c, "launch") /\ TypeOK /\ StackOK /\ BaseInv /\ CallInv /\ MapInv
        /\ "launch" \in NodeFrames /\ routines[c] # << >>
    BY Known DEF LaunchItem, NodeFrames, At
  <1>2. PICK n \in Node : n = Top(c).node /\ Kind[n] = "map"
    BY <1>1, TopNode, TopMap
  <1>3. PICK m : m = mapState[n]
    OBVIOUS
  <1>4. PICK rest \in Seq(Frame) : rest = <<Top(c)>>
    <2>1. Top(c) \in Frame
      BY <1>1, TopFrame
    <2> QED
      BY <2>1, FewFrames
  <1>5. /\ m.next \in Nat /\ m.count \in Nat /\ m.active \subseteq 0 .. (m.next - 1)
        /\ m.next = m.count + Cardinality(m.active) /\ IsFiniteSet(m.active)
        /\ m.active = {calls[k].index : k \in Unanswered(n)}
    <2>1. Tally(n)
      BY <1>2, Known DEF NodeGoes, MapTold
    <2>2. m.next \in 0 .. Items /\ m.count \in Nat /\ IsFiniteSet(m.active) /\ Items \in Nat
      BY <1>1, <1>3, CallFacts
    <2> QED
      BY <1>3, <2>1, <2>2 DEF Tally
  <1>6. /\ StartCall(c, n, m.next, rest)
        /\ mapState' = [mapState EXCEPT ![n] =
               [next |-> m.next + 1, count |-> m.count, active |-> m.active \cup {m.next}]]
        /\ UNCHANGED <<completed, pending, iterations, open, answered>>
        /\ UNCHANGED <<cancelled, active, cached, expired>>
    BY <1>2, <1>3, <1>4 DEF LaunchItem, nodeVars, hostVars, timerVars
  <1>7. /\ mapState'[n] = [next |-> m.next + 1, count |-> m.count, active |-> m.active \cup {m.next}]
        /\ \A d \in Node : d # n => mapState'[d] = mapState[d]
    BY <1>1, <1>6, CallFacts
  <1>8. \A d \in Node : mapState'[d].count = mapState[d].count
    BY <1>3, <1>7
  <1>9. PICK i \in Nat : i = m.next
    BY <1>5
  <1>10. PICK S : S = m.active
    OBVIOUS
  <1>11. Tally(n)'
    <2>1. PICK e : e = Len(calls) + 1
      OBVIOUS
    <2>2. /\ DOMAIN calls' = DOMAIN calls \cup {e} /\ calls'[e].node = n
          /\ calls'[e].index = i /\ \A k \in DOMAIN calls : calls'[k] = calls[k]
      BY <1>1, <1>6, <1>9, <2>1, NewCall
    <2>3. e \notin DOMAIN calls
      <3>1. DOMAIN calls = 1 .. Len(calls) /\ Len(calls) \in Nat
        BY <1>1, CallFacts
      <3> QED
        BY <2>1, <3>1
    <2>4. Unanswered(n)' = Unanswered(n) \cup {e}
      BY <1>1, <1>6, <2>2, <2>3 DEF Unanswered, CallsOf, MapInv
    <2>5. \A k \in Unanswered(n) : calls'[k] = calls[k]
      BY <2>2 DEF Unanswered, CallsOf
    <2>6. S \cup {i} = {calls'[k].index : k \in Unanswered(n)'}
      <3>1. S = {calls'[k].index : k \in Unanswered(n)}
        BY <1>5, <1>10, <2>5
      <3> QED
        BY <2>2, <2>4, <3>1
    <2>7. i \notin S /\ IsFiniteSet(S) /\ S \cup {i} \subseteq 0 .. ((i + 1) - 1)
      <3>1. S \subseteq 0 .. (i - 1)
        BY <1>5, <1>9, <1>10
      <3> QED
        BY <1>5, <1>10, <3>1
    <2>8. /\ Cardinality(S \cup {i}) = Cardinality(S) + 1 /\ Cardinality(S) \in Nat
      BY <2>7, FS_AddElement, FS_CardinalityType
    <2>9. i + 1 = m.count + Cardinality(S \cup {i})
      <3>1. PICK x \in Nat, y \in Nat : x = m.count /\ y = Cardinality(S)
        BY <1>5, <2>8
      <3>2. i = x + y /\ Cardinality(S \cup {i}) = y + 1
        BY <1>5, <1>9, <1>10, <2>8, <3>1
      <3>3. i + 1 = x + (y + 1)
        BY <3>2
      <3> QED
        BY <3>1, <3>2, <3>3
    <2>10. /\ mapState'[n].next = i + 1 /\ mapState'[n].count = m.count
           /\ mapState'[n].active = S \cup {i}
      BY <1>7, <1>9, <1>10
    <2> QED
      BY <2>6, <2>7, <2>9, <2>10 DEF Tally
  <1> QED
    <2>1. /\ StartCall(c, n, i, rest) /\ At(c, "launch") /\ n = Top(c).node
          /\ rest = <<Top(c)>>
      BY <1>1, <1>2, <1>4, <1>6, <1>9
    <2>2. /\ UNCHANGED <<completed, pending, answered, cancelled, active, cached, expired>>
          /\ open' \subseteq open \cup {n} /\ Kind[n] # "agent" /\ Kind[n] = "map"
          /\ \A d \in Node : /\ d # n => iterations'[d] = iterations[d] /\ mapState'[d] = mapState[d]
                             /\ mapState'[d].count = mapState[d].count
      BY <1>2, <1>6, <1>7, <1>8
    <2> QED
      BY <1>11, <2>1, <2>2, CallGoes
-----------------------------------------------------------------------------
(* Results of loops and maps.                                              *)

\* An iteration of a loop succeeds: its output is being loaded.
LEMMA IterationGoes == ASSUME Before, NEW c \in Routine, IterationSucceeded(c) PROVE Going'
  <1>1. /\ At(c, "complete") /\ TypeOK /\ StackOK /\ StacksInv /\ BaseInv /\ CallInv /\ LoadInv
        /\ MapInv /\ definition \in Definitions /\ routines[c] # << >> /\ "load" \notin Awaits
    BY Known DEF IterationSucceeded, Runs, At
  <1>2. PICK k \in DOMAIN calls : k = Top(c).call
    BY <1>1, TopComplete
  <1>3. PICK n \in ParentOf(k, "loop") : Become(c, <<[at |-> "looped", node |-> n]>>, "load")
    BY <1>2 DEF IterationSucceeded
  <1>4. /\ n \in Node /\ n \in open /\ Kind[n] = "loop" /\ k \in branches[n] /\ k \notin answered
    BY <1>1, <1>3 DEF ParentOf, TypeOK
  <1>5. k \in CallsOf(n) /\ calls[k].node = n
    <2>1. CallsApart(n)
      BY <1>4, Known DEF NodeOK
    <2> QED
      BY <1>4, <2>1 DEF CallsApart, CallsOf
  <1>6. PICK f \in Frame : f = [at |-> "looped", node |-> n]
    BY <1>1, <1>4, FrameMade DEF NodeFrames
  <1>7. PICK frames \in Seq(Frame) : /\ frames = <<f>> /\ Elements(frames) = {f}
                                     /\ Len(frames) = 1 /\ frames[1] = f
    BY FewFrames
  <1>8. /\ Become(c, frames, "load") /\ answered' = answered \cup {k}
        /\ UNCHANGED <<completed, pending, iterations, open, mapState, calls, definition>>
        /\ UNCHANGED <<cancelled, active, cached, expired>>
    BY <1>2, <1>3, <1>6, <1>7
       DEF IterationSucceeded, Become, nodeVars, callVars, hostVars, timerVars
  <1>9. CallsKept /\ DOMAIN calls' = DOMAIN calls
    BY <1>1, <1>8 DEF CallsKept, MapInv
  <1>10. /\ OthersSame(c) /\ turn' = c /\ turn' # Idle /\ f \in Frames'
         /\ routines'[c] # << >> /\ routines'[c][1] = f /\ Head(routines'[c]) = f
    <2>1. /\ OthersSame(c) /\ Elements(frames) \subseteq Frames'
          /\ Len(frames) # 0 => /\ routines'[c] # << >> /\ routines'[c][1] = frames[1]
                                /\ Head(routines'[c]) = frames[1]
      BY <1>1, <1>8, StackStep
    <2>2. turn' = c
      <3>1. Become(c, <<f>>, "load")
        BY <1>7, <1>8
      <3> QED
        BY <1>1, <3>1, OnTop
    <2> QED
      BY <1>7, <2>1, <2>2, IdleName
  <1>11. Batch' = NoBatch
    <2>1. Batch' = Batch \/ Batch' = NoBatch
      <3>1. \A g \in Elements(frames) : g.at # "batch"
        BY <1>6, <1>7
      <3> QED
        BY <1>1, <1>8, <3>1, BatchKept
    <2>2. Batch = NoBatch
      BY <1>1, Alone DEF InBatch
    <2> QED
      BY <2>1, <2>2
  <1>12. Twins'
    <2>1. \A i \in 1 .. Len(frames) : frames[i].at # "launch"
      BY <1>6, <1>7
    <2> QED
      BY <1>1, <1>8, <2>1, TwinsKept, Known DEF Going
  <1>13. NodeGoes(n)'
    <2>1. NodeGoes(n) /\ completed[n] = "no" /\ Kind' = Kind
      BY <1>4, <1>8, SameDefinition, Known DEF NodeGoes, LoopOpen
    <2>2. Listed(n)' /\ Untaken(n)'
      BY <1>8, <1>11, <2>1 DEF NodeGoes, Listed, Untaken, Todo, Started, NoBatch
    <2>3. LoopOpen(n)'
      BY <1>4, <1>6, <1>8, <1>10, <2>1 DEF LoopOpen, Here
    <2>4. MapTold(n)'
      BY <1>4, <1>6, <1>10, <2>1 DEF MapTold, Here
    <2>5. Works(n)'
      BY <1>6, <1>10 DEF Works, InHand, NodeWork, Loops
    <2> QED
      BY <2>2, <2>3, <2>4, <2>5 DEF NodeGoes, Driven
  <1>14. ASSUME NEW m \in Node, m # n PROVE NodeGoes(m)'
    <2>1. NodeGoes(m) /\ SameNode(m)
      BY <1>5, <1>8, <1>14, Known DEF SameNode, CallsOf, Unanswered
    <2>2. \A g \in Elements(frames) : g.at \in NodeWork => g.node # m
      BY <1>6, <1>7, <1>14
    <2>3. "complete" \notin NodeWork
      BY DEF NodeWork, Loops
    <2> QED
      BY <1>1, <1>7, <1>8, <1>9, <1>11, <2>1, <2>2, <2>3, NodeElse
  <1>15. ASSUME NEW j \in DOMAIN calls PROVE Reaches(j)'
    <2>1. Resolved(k)'
      BY <1>4, <1>5, <1>8, SameDefinition DEF Resolved
    <2>2. Held(j) => Reaches(j)'
      BY <1>1, <1>2, <2>1, Runner DEF Reaches
    <2>3. Reaches(j)
      BY Known DEF Going
    <2> QED
      BY <1>1, <1>8, <1>9, <2>2, <2>3, ReachKept
  <1>16. Alive'
    BY <1>10 DEF Alive
  <1> QED
    BY <1>8, <1>9, <1>12, <1>13, <1>14, <1>15, <1>16, SameDefinition, Known DEF Going

\* The results of a map are counted once.
LEMMA TallyGoes ==
    ASSUME TypeOK, NEW n \in Node, Tally(n), CallsApart(n), NEW k \in Unanswered(n),
           calls' = calls, answered' = answered \cup {k},
           mapState' = [mapState EXCEPT ![n] =
               [next |-> @.next, count |-> @.count + 1, active |-> @.active \ {calls[k].index}]]
    PROVE  Tally(n)' /\ \A m \in Node : m # n => mapState'[m] = mapState[m]
  <1>1. PICK m : m = mapState[n]
    OBVIOUS
  <1>2. PICK x : x = calls[k].index
    OBVIOUS
  <1>3. /\ mapState'[n] = [next |-> m.next, count |-> m.count + 1, active |-> m.active \ {x}]
        /\ \A d \in Node : d # n => mapState'[d] = mapState[d]
    BY <1>1, <1>2, CallFacts
  <1>4. PICK S : S = m.active
    OBVIOUS
  <1>5. /\ m.next \in Nat /\ m.count \in Nat /\ S \subseteq 0 .. (m.next - 1)
        /\ m.next = m.count + Cardinality(S) /\ IsFiniteSet(S)
        /\ S = {calls[j].index : j \in Unanswered(n)}
    <2>1. m.next \in 0 .. Items /\ m.count \in Nat /\ IsFiniteSet(S) /\ Items \in Nat
      BY <1>1, <1>4, CallFacts
    <2>2. /\ S \subseteq 0 .. (m.next - 1) /\ m.next = m.count + Cardinality(S)
          /\ S = {calls[j].index : j \in Unanswered(n)}
      BY <1>1, <1>4 DEF Tally
    <2>3. m.next \in Nat
      BY <2>1
    <2> QED
      BY <2>1, <2>2, <2>3
  <1>6. Unanswered(n)' = Unanswered(n) \ {k}
    BY DEF Unanswered, CallsOf
  <1>7. S \ {x} = {calls'[j].index : j \in Unanswered(n)'}
    <2>1. \A j \in Unanswered(n) : calls[j].index = x => j = k
      BY <1>2 DEF CallsApart, Unanswered
    <2> QED
      BY <1>2, <1>5, <1>6, <2>1
  <1>8. Cardinality(S \ {x}) = Cardinality(S) - 1 /\ Cardinality(S) \in Nat
    <2>1. x \in S
      BY <1>2, <1>5
    <2> QED
      BY <1>5, <2>1, FS_RemoveElement, FS_CardinalityType
  <1>9. m.next = (m.count + 1) + Cardinality(S \ {x})
    <2>1. PICK i \in Nat, a \in Nat, b \in Nat : i = m.next /\ a = m.count /\ b = Cardinality(S)
      BY <1>5, <1>8
    <2>2. i = a + b /\ Cardinality(S \ {x}) = b - 1
      BY <1>5, <1>8, <2>1
    <2>3. i = (a + 1) + (b - 1)
      BY <2>2
    <2> QED
      BY <2>1, <2>2, <2>3
  <1>10. /\ mapState'[n].next = m.next /\ mapState'[n].count = m.count + 1
         /\ mapState'[n].active = S \ {x}
    BY <1>3, <1>4
  <1>11. S \ {x} \subseteq 0 .. (m.next - 1)
    BY <1>5
  <1> QED
    BY <1>3, <1>7, <1>9, <1>10, <1>11 DEF Tally

\* An item of a map succeeds: the next ones are launched.
LEMMA ItemGoes == ASSUME Before, NEW c \in Routine, ItemSucceeded(c) PROVE Going'
  <1>1. /\ At(c, "complete") /\ TypeOK /\ StackOK /\ StacksInv /\ BaseInv /\ CallInv /\ LoadInv
        /\ MapInv /\ definition \in Definitions /\ routines[c] # << >> /\ "nothing" \notin Awaits
    BY Known DEF ItemSucceeded, Runs, At
  <1>2. PICK k \in DOMAIN calls : k = Top(c).call
    BY <1>1, TopComplete
  <1>3. PICK n \in ParentOf(k, "map") :
           /\ mapState' = [mapState EXCEPT ![n] =
                  [next |-> @.next, count |-> @.count + 1, active |-> @.active \ {calls[k].index}]]
           /\ Become(c, <<[at |-> "launch", node |-> n], [at |-> "mapcheck", node |-> n]>>,
                     "nothing")
    BY <1>2 DEF ItemSucceeded
  <1>4. /\ n \in Node /\ n \in open /\ Kind[n] = "map" /\ k \in branches[n] /\ k \notin answered
    BY <1>1, <1>3 DEF ParentOf, TypeOK
  <1>5. k \in CallsOf(n) /\ calls[k].node = n /\ k \in Unanswered(n)
    BY <1>4, Known DEF MapInv, MapOK, MapCalls, CallsOf, Unanswered
  <1>6. PICK f \in Frame, g \in Frame : /\ f = [at |-> "launch", node |-> n]
                                        /\ g = [at |-> "mapcheck", node |-> n]
    BY <1>1, <1>4, FrameMade DEF NodeFrames
  <1>7. PICK frames \in Seq(Frame) : frames = <<f, g>> /\ Elements(frames) = {f, g}
    BY FewFrames
  <1>8. /\ Become(c, frames, "nothing") /\ Len(frames) = 2 /\ frames[1] = f /\ frames[2] = g
        /\ Len(frames) # 0 /\ answered' = answered \cup {k}
        /\ UNCHANGED <<completed, pending, iterations, open, calls, definition>>
        /\ UNCHANGED <<cancelled, active, cached, expired>>
    <2>1. Len(frames) = 2 /\ frames[1] = f /\ frames[2] = g
      BY <1>7
    <2>2. Become(c, frames, "nothing")
      BY <1>3, <1>6, <1>7
    <2>3. definition' = definition
      BY <2>2 DEF Become
    <2>4. /\ answered' = answered \cup {k}
          /\ UNCHANGED <<completed, pending, iterations, open, calls>>
          /\ UNCHANGED <<cancelled, active, cached, expired>>
      BY <1>2 DEF ItemSucceeded, nodeVars, callVars, hostVars, timerVars
    <2> QED
      BY <2>1, <2>2, <2>3, <2>4
  <1>9. CallsKept /\ DOMAIN calls' = DOMAIN calls
    BY <1>1, <1>8 DEF CallsKept, MapInv
  <1>10. /\ OthersSame(c) /\ turn' \in {c, Idle} /\ f \in Frames'
         /\ routines'[c] # << >> /\ routines'[c][1] = f /\ Head(routines'[c]) = f
    <2>1. /\ OthersSame(c) /\ turn' \in {c, Idle} /\ Elements(frames) \subseteq Frames'
          /\ Len(frames) # 0 => /\ routines'[c] # << >> /\ routines'[c][1] = frames[1]
                                /\ Head(routines'[c]) = frames[1]
      BY <1>1, <1>8, StackStep
    <2> QED
      BY <1>7, <1>8, <2>1
  <1>11. Len(Tail(routines[c])) = 0 /\ Batch = NoBatch
    BY <1>1, Alone DEF InBatch
  <1>12. Batch' = NoBatch
    <2>1. \A h \in Elements(frames) : h.at # "batch"
      BY <1>6, <1>7
    <2> QED
      BY <1>1, <1>8, <1>11, <2>1, BatchKept
  <1>13. Twins'
    <2>1. /\ Len(routines'[c]) = Len(frames) + Len(Tail(routines[c]))
          /\ \A i \in 1 .. Len(frames) : routines'[c][i] = frames[i]
      BY <1>1, <1>8, NewStack
    <2>2. Len(routines'[c]) = 2 /\ routines'[c][2] = g
      <3>1. PICK a, b : a = Len(frames) /\ b = Len(Tail(routines[c]))
        OBVIOUS
      <3>2. a = 2 /\ b = 0
        BY <1>8, <1>11, <3>1
      <3>3. Len(routines'[c]) = a + b /\ \A i \in 1 .. a : routines'[c][i] = frames[i]
        BY <2>1, <3>1
      <3>4. 2 \in 1 .. a /\ a + b = 2
        BY <3>2
      <3>5. routines'[c][2] = frames[2]
        BY <3>3, <3>4
      <3> QED
        BY <1>8, <3>3, <3>4, <3>5
    <2>3. Twin(routines'[c][1], routines'[c][1 + 1], mapState')
      BY <1>6, <1>10, <2>2 DEF Twin
    <2>4. \A i \in 1 .. (Len(routines'[c]) - 1) : i = 1
      BY <2>2
    <2> QED
      BY <1>10, <2>3, <2>4 DEF Twins
  <1>14. Tally(n)' /\ \A m \in Node : m # n => mapState'[m] = mapState[m]
    <2>1. Tally(n) /\ CallsApart(n)
      BY <1>4, Known DEF NodeGoes, MapTold, NodeOK
    <2> QED
      BY <1>1, <1>3, <1>4, <1>5, <1>8, <2>1, TallyGoes
  <1>15. NodeGoes(n)'
    <2>1. NodeGoes(n) /\ Kind' = Kind
      BY <1>4, <1>8, SameDefinition, Known
    <2>2. Listed(n)' /\ Untaken(n)'
      BY <1>8, <1>12, <2>1 DEF NodeGoes, Listed, Untaken, Todo, Started, NoBatch
    <2>3. \A d \in Routine : ~Busy(d, n)'
      <3>1. \A d \in Routine : Busy(d, n)' => Busy(d, n)
        BY <1>6, <1>10 DEF Busy, OthersSame, Loops
      <3> QED
        BY <1>1, <1>4, <3>1, BusyLoop
    <2>4. LoopOpen(n)'
      BY <1>4, <2>1, <2>3 DEF LoopOpen
    <2>5. MapTold(n)'
      BY <1>6, <1>10, <1>14 DEF MapTold, Here
    <2>6. Works(n)'
      BY <1>6, <1>10 DEF Works, InHand, NodeWork
    <2> QED
      BY <2>2, <2>4, <2>5, <2>6 DEF NodeGoes, Driven
  <1>16. ASSUME NEW m \in Node, m # n PROVE NodeGoes(m)'
    <2>1. NodeGoes(m) /\ SameNode(m)
      BY <1>5, <1>8, <1>14, <1>16, Known DEF SameNode, CallsOf, Unanswered
    <2>2. \A h \in Elements(frames) : h.at \in NodeWork => h.node # m
      BY <1>6, <1>7, <1>16
    <2>3. "complete" \notin NodeWork
      BY DEF NodeWork, Loops
    <2> QED
      BY <1>1, <1>7, <1>8, <1>9, <1>12, <2>1, <2>2, <2>3, NodeElse
  <1>17. ASSUME NEW j \in DOMAIN calls PROVE Reaches(j)'
    <2>1. Resolved(k)'
      BY <1>4, <1>5, <1>8, SameDefinition DEF Resolved
    <2>2. Held(j) => Reaches(j)'
      BY <1>1, <1>2, <2>1, Runner DEF Reaches
    <2>3. Reaches(j)
      BY Known DEF Going
    <2> QED
      BY <1>1, <1>8, <1>9, <2>2, <2>3, ReachKept
  <1>18. Alive'
    BY <1>10 DEF Alive
  <1> QED
    BY <1>8, <1>9, <1>13, <1>15, <1>16, <1>17, <1>18, SameDefinition, Known DEF Going
-----------------------------------------------------------------------------
(* Timers, responses and the end of the workflow.                          *)

\* A timer, or an answer, only starts a coroutine.
LEMMA HostGoes ==
    ASSUME Before, UNCHANGED <<definition, completed, pending, iterations, open, answered, mapState>>,
           UNCHANGED <<calls, cancelled, active>>,
           \/ UNCHANGED loopVars /\ cached \cup expired \subseteq cached' \cup expired'
           \/ \E c \in Routine, f \in Frame :
                 /\ f.at = "complete" /\ Begin(c, f)
                 /\ cached \cup expired \subseteq cached' \cup expired' \cup {f.call}
    PROVE  Going'
  <1>1. /\ TypeOK /\ StackOK /\ BaseInv /\ MapInv
        /\ ~cancelled' /\ active' /\ Node' = Node /\ Kind' = Kind
    BY SameDefinition, Known DEF Going
  <1>2. CallsKept /\ DOMAIN calls' = DOMAIN calls
    BY <1>1 DEF CallsKept, MapInv
  <1>3. ASSUME NEW n \in Node PROVE NodeGoes(n) /\ SameNode(n)
    BY Known DEF SameNode, CallsOf, Unanswered
  <1>4. CASE UNCHANGED loopVars /\ cached \cup expired \subseteq cached' \cup expired'
    <2>1. routines' = routines /\ turn' = turn
      BY <1>4 DEF loopVars
    <2>2. ASSUME NEW n \in Node PROVE NodeGoes(n)'
      <3>1. Todo' = Todo /\ Started' = Started
        BY <2>1 DEF Todo, Started, Batch
      <3>2. InHand(n) => Works(n)'
        BY <2>1 DEF InHand, Works, Frames
      <3>3. \A d \in Routine : Busy(d, n)' <=> Busy(d, n)
        BY <2>1 DEF Busy
      <3>4. \A p : Here(p, n)' <=> Here(p, n)
        BY <2>1 DEF Here
      <3>5. n \in Started => Works(n)'
        <4>1. n \in Started => Works(n)
          BY <1>3 DEF NodeGoes, Driven
        <4> QED
          BY <1>2, <1>3, <3>2, <4>1, WorksKept DEF SameNode, SameCalls
      <3> QED
        BY <1>2, <1>3, <3>1, <3>2, <3>3, <3>4, <3>5, NodeKept
    <2>3. Twins'
      BY <2>1, Known DEF Going, Twins, Twin
    <2>4. Alive'
      <3>1. LoopAtLimit => LoopAtLimit'
        BY <1>1 DEF LoopAtLimit, AtLimit, MaxIterations
      <3>2. cached \cup expired # {} => cached' \cup expired' # {}
        BY <1>4
      <3> QED
        BY <2>1, <3>1, <3>2, Known DEF Going, Alive
    <2>5. ASSUME NEW k \in DOMAIN calls PROVE Reaches(k)'
      <3>1. Reaches(k) /\ (Held(k) => Held(k)')
        BY <2>1, Known DEF Going, Held
      <3>2. \A n \in Node : completed[n] # "no" => completed'[n] # "no"
        OBVIOUS
      <3>3. Held(k) => Reaches(k)'
        BY <3>1 DEF Reaches
      <3> QED
        BY <1>1, <1>2, <1>4, <3>1, <3>2, <3>3, ReachKept
    <2> QED
      BY <1>1, <1>2, <2>2, <2>3, <2>4, <2>5 DEF Going
  <1>5. ASSUME NEW c \in Routine, NEW f \in Frame, f.at = "complete", Begin(c, f),
               cached \cup expired \subseteq cached' \cup expired' \cup {f.call}
        PROVE  Going'
    <2>1. /\ turn = Idle /\ turn' = c /\ turn' # Idle /\ routines[c] = << >>
          /\ routines'[c] = <<f>> /\ OthersSame(c)
      BY <1>1, <1>5, IdleName DEF Begin, StackOK, OthersSame
    <2>2. Len(<<f>>) = 1 /\ <<f>>[1] = f /\ Head(<<f>>) = f
      OBVIOUS
    <2>3. \A g \in Frames : g \in Frames'
      <3> SUFFICES ASSUME NEW g \in Frames PROVE g \in Frames'
        OBVIOUS
      <3>1. PICK d \in Routine : g \in Elements(routines[d])
        BY DEF Frames
      <3>2. d # c
        BY <2>1, <3>1, FewFrames
      <3> QED
        BY <2>1, <3>1, <3>2 DEF Frames, OthersSame
    <2>4. Batch' = NoBatch
      BY <1>5, <2>1, <2>2 DEF Batch, BatchOf
    <2>5. ASSUME NEW n \in Node PROVE NodeGoes(n)'
      <3>1. n \notin Todo' \cup Started'
        BY <2>4 DEF Todo, Started, NoBatch
      <3>2. InHand(n) => Works(n)'
        BY <2>3 DEF InHand, Works
      <3>3. \A d \in Routine : Busy(d, n)' => Busy(d, n)
        BY <1>5, <2>1, <2>2 DEF Busy, OthersSame, Loops
      <3>4. ~Here("looped", n) /\ ~Here("mapcheck", n)'
        BY <1>5, <2>1, <2>2 DEF Here
      <3> QED
        BY <1>2, <1>3, <3>1, <3>2, <3>3, <3>4, NodeKept
    <2>6. Twins'
      BY <2>1, <2>2 DEF Twins
    <2>7. Alive'
      BY <2>1 DEF Alive
    <2>8. ASSUME NEW k \in DOMAIN calls PROVE Reaches(k)'
      <3>1. Reaches(k) /\ ~Held(k) /\ calls[k].node \in Node
        BY <1>1, <2>1, CallFacts, Known DEF Going, Held
      <3>2. Resolved(k) => Resolved(k)'
        BY <1>1 DEF Resolved
      <3>3. k = f.call => Held(k)'
        BY <1>5, <2>1, <2>2 DEF Held
      <3>4. k \in cached \cup expired => k \in cached' \cup expired' \/ Held(k)'
        BY <1>5, <3>3
      <3> QED
        BY <3>1, <3>2, <3>4 DEF Reaches
    <2> QED
      BY <1>1, <1>2, <2>5, <2>6, <2>7, <2>8 DEF Going
  <1> QED
    BY <1>4, <1>5

\* Timers, answers and cancel requests.
LEMMA HostStepsGo ==
    ASSUME Before,
           \/ \E k \in Call : ExpireTimer(k) \/ HandleTimeout(k)
           \/ \E k \in Call, reply \in Replies : ReceiveResponse(k, reply)
           \/ \E q \in 1 .. MaxCancels : ReceiveCancel(q)
           \/ UNCHANGED vars
    PROVE  WaitInv'
  <1>1. definition \in Definitions /\ active
    BY Known DEF Going
  <1>2. ASSUME NEW k \in Call, ExpireTimer(k) PROVE Going'
    <2>1. /\ UNCHANGED <<completed, pending, iterations, open, answered, mapState>>
          /\ UNCHANGED <<calls, cancelled, active>> /\ UNCHANGED loopVars
          /\ cached' = cached \ {k} /\ expired' = expired \cup {k}
      BY <1>2 DEF ExpireTimer, nodeVars, groupVars, callVars, hostVars
    <2>2. definition' = definition /\ cached \cup expired \subseteq cached' \cup expired'
      BY <2>1 DEF loopVars
    <2> QED
      BY <2>1, <2>2, HostGoes
  <1>3. ASSUME NEW k \in Call, HandleTimeout(k) PROVE Going'
    <2>1. PICK f \in Frame : f = [at |-> "complete", call |-> k, ok |-> FALSE]
      BY <1>1, FrameMade
    <2>2. PICK c \in Routine : c = <<"timeout", k>>
      BY DEF Routine
    <2>3. Begin(c, f) /\ definition' = definition
      BY <1>1, <1>3, <2>1, <2>2 DEF HandleTimeout, Begin
    <2>4. f.at = "complete" /\ f.call = k
      BY <2>1
    <2>5. /\ UNCHANGED <<completed, pending, iterations, open, answered, mapState>>
          /\ UNCHANGED <<calls, cancelled, active>>
          /\ cached' = cached /\ expired' = expired \ {k}
      BY <1>3 DEF HandleTimeout, nodeVars, groupVars, callVars, hostVars
    <2>6. cached \cup expired \subseteq cached' \cup expired' \cup {f.call}
      BY <2>4, <2>5
    <2> QED
      BY <2>3, <2>4, <2>5, <2>6, HostGoes
  <1>4. ASSUME NEW k \in Call, NEW reply \in Replies, ReceiveResponse(k, reply) PROVE Going'
    <2>1. PICK ok \in BOOLEAN : ok = (reply = "success")
      OBVIOUS
    <2>2. PICK f \in Frame : f = [at |-> "complete", call |-> k, ok |-> ok]
      BY <1>1, FrameMade
    <2>3. PICK c \in Routine : c = <<"response", k>>
      BY DEF Routine
    <2>4. reply # "canceled"
      BY <1>4 DEF Before, InlineEnds
    <2>5. Begin(c, f) /\ definition' = definition
      BY <1>4, <2>1, <2>2, <2>3, <2>4 DEF ReceiveResponse, Begin
    <2>6. f.at = "complete" /\ f.call = k
      BY <2>2
    <2>7. /\ UNCHANGED <<completed, pending, iterations, open, answered, mapState>>
          /\ UNCHANGED <<calls, cancelled, active>>
          /\ cached' = cached \ {k} /\ expired \subseteq expired'
      BY <1>4 DEF ReceiveResponse, nodeVars, groupVars, callVars, hostVars
    <2>8. cached \cup expired \subseteq cached' \cup expired' \cup {f.call}
      BY <2>6, <2>7
    <2> QED
      BY <2>5, <2>6, <2>7, <2>8, HostGoes
  <1>5. ASSUME NEW q \in 1 .. MaxCancels, ReceiveCancel(q) PROVE Ending'
    <2>1. PICK f \in Frame : f = Finalize("cancelled") /\ f.at = "finalize"
      BY <1>1, FrameMade DEF Outcome
    <2>2. PICK c \in Routine : c = <<"cancel", q>>
      BY DEF Routine
    <2>3. Begin(c, f)
      BY <1>5, <2>1, <2>2 DEF ReceiveCancel
    <2>4. turn' = c /\ routines'[c] = <<f>> /\ Head(<<f>>) = f
      BY <2>3, Known DEF Begin, StackOK
    <2> QED
      BY <2>1, <2>4, IdleName DEF Ending, Ends
  <1>6. CASE UNCHANGED vars
    <2>1. /\ UNCHANGED <<completed, pending, iterations, open, answered, mapState, definition>>
          /\ UNCHANGED <<calls, cancelled, active>> /\ UNCHANGED loopVars
          /\ UNCHANGED <<cached, expired>>
      BY <1>6 DEF vars, nodeVars, groupVars, callVars, hostVars, loopVars, timerVars
    <2> QED
      BY <2>1, HostGoes DEF WaitInv
  <1> QED
    BY <1>2, <1>3, <1>4, <1>5, <1>6 DEF WaitInv

\* A workflow that is over stays over.
LEMMA OverStays == ASSUME ~active, [Next]_vars PROVE ~active'
  <1>1. ASSUME NEW c \in Routine, Step(c) PROVE ~active'
    <2>1. CASE StopCancelled(c) \/ ScheduleNodes(c) \/ ExecuteNext(c) \/ CallAgent(c)
               \/ SkipNode(c) \/ PublishCall(c) \/ CallFails(c) \/ EvaluateSwitch(c)
      BY <2>1 DEF StopCancelled, ScheduleNodes, ExecuteNext, CallAgent, SkipNode, PublishCall,
                  CallFails, EvaluateSwitch, hostVars
    <2>2. CASE EnterLoop(c) \/ StopLoopAtLimit(c) \/ StopLoopOnCondition(c) \/ ContinueLoop(c)
               \/ Iterate(c) \/ IterationLoaded(c) \/ IterationSucceeded(c)
      BY <2>2 DEF EnterLoop, StopLoopAtLimit, StopLoopOnCondition, LoopEnds, ContinueLoop, Iterate,
                  IterationLoaded, IterationSucceeded, hostVars
    <2>3. CASE StartMap(c) \/ LaunchItem(c) \/ LaunchedAll(c) \/ CheckMap(c) \/ FinalizeMap(c)
               \/ ItemSucceeded(c)
      BY <2>3 DEF StartMap, LaunchItem, LaunchedAll, CheckMap, FinalizeMap, ItemSucceeded, hostVars
    <2>4. CASE NodeFailed(c) \/ NodeSucceeded(c) \/ OutputLoaded(c) \/ LoadFails(c)
               \/ StrayCompleted(c) \/ StrayLoaded(c) \/ BranchGone(c)
      BY <2>4 DEF NodeFailed, NodeSucceeded, OutputLoaded, LoadFails, StrayCompleted, StrayLoaded,
                  BranchGone, hostVars
    <2>5. CASE RunExitHandler(c) \/ OutputFails(c) \/ PublishResponse(c) \/ CleanUp(c)
      BY <2>5 DEF RunExitHandler, OutputFails, PublishResponse, CleanUp, hostVars
    <2> QED
      BY <1>1, <2>1, <2>2, <2>3, <2>4, <2>5 DEF Step
  <1>2. ASSUME NEW k \in Call, ExpireTimer(k) \/ HandleTimeout(k) PROVE ~active'
    BY <1>2 DEF ExpireTimer, HandleTimeout, hostVars
  <1>3. ASSUME NEW k \in Call, NEW reply \in Replies, ReceiveResponse(k, reply) PROVE ~active'
    BY <1>3 DEF ReceiveResponse, hostVars
  <1>4. ASSUME NEW q \in 1 .. MaxCancels, ReceiveCancel(q) PROVE ~active'
    BY <1>4 DEF ReceiveCancel
  <1>5. CASE UNCHANGED vars
    BY <1>5 DEF vars, hostVars
  <1> QED
    BY <1>1, <1>2, <1>3, <1>4, <1>5 DEF Next, Runnable, Terminated

\* The finalization goes on to its end without being interrupted.
LEMMA EndingSteps ==
    ASSUME InlineLoads, BaseInv, CallInv, NEW c \in Routine,
           turn = c, Head(routines[c]).at \in Ends, Step(c)
    PROVE  Ending'
  <1>1. /\ InlineCalls /\ definition \in Definitions /\ StackOK /\ StacksInv
        /\ "nothing" \notin Awaits /\ "save" \notin Awaits /\ "session" \notin Awaits
    BY StackFromType, InlineLoad DEF BaseInv, TypeOK, CallInv
  <1>2. ~(\/ SkipNode(c) \/ EvaluateSwitch(c)
          \/ CallFails(c) \/ LoadFails(c) \/ OutputFails(c))
    BY <1>1, NeverCalls
  <1>3. \A place : At(c, place) => place \in Ends
    BY DEF At
  <1>4. ~(StopCancelled(c) \/ ScheduleNodes(c) \/ ExecuteNext(c) \/ CallAgent(c) \/ PublishCall(c))
    BY <1>3 DEF StopCancelled, ScheduleNodes, ExecuteNext, CallAgent, PublishCall, Runs, Ends
  <1>5. ~(EnterLoop(c) \/ StopLoopAtLimit(c) \/ StopLoopOnCondition(c) \/ ContinueLoop(c)
          \/ Iterate(c) \/ IterationLoaded(c) \/ IterationSucceeded(c))
    BY <1>3 DEF EnterLoop, StopLoopAtLimit, StopLoopOnCondition, ContinueLoop, Iterate,
                IterationLoaded, IterationSucceeded, Runs, Ends
  <1>6. ~(StartMap(c) \/ LaunchItem(c) \/ LaunchedAll(c) \/ CheckMap(c) \/ FinalizeMap(c)
          \/ ItemSucceeded(c))
    BY <1>3 DEF StartMap, LaunchItem, LaunchedAll, CheckMap, FinalizeMap, ItemSucceeded, Runs, Ends
  <1>7. ~(NodeFailed(c) \/ NodeSucceeded(c) \/ OutputLoaded(c)
          \/ StrayCompleted(c) \/ StrayLoaded(c) \/ BranchGone(c))
    BY <1>3 DEF NodeFailed, NodeSucceeded, OutputLoaded, StrayCompleted, StrayLoaded, BranchGone,
                Runs, Ends
  <1>8. CASE RunExitHandler(c)
    <2>1. At(c, "finalize") /\ Top(c).handlers = << >> /\ routines[c] # << >>
      BY <1>1, <1>8, StackAt DEF RunExitHandler, At
    <2>2. PICK o \in Outcome : o = Top(c).outcome
      BY <1>1, <2>1, TopFrame, FrameFields
    <2>3. PICK f \in Frame : f = [at |-> "respond", outcome |-> o]
      BY <1>1, FrameMade
    <2>4. PICK await : await = IF o = "cancelled" THEN "nothing" ELSE "save"
      OBVIOUS
    <2>5. Become(c, <<f>>, await) /\ await \notin Awaits
      BY <1>1, <1>8, <2>1, <2>2, <2>3, <2>4 DEF RunExitHandler
    <2>6. turn' = c /\ Head(routines'[c]) = f
      BY <1>1, <2>1, <2>5, OnTop
    <2> QED
      BY <2>3, <2>6, IdleName DEF Ending, Ends
  <1>9. CASE PublishResponse(c)
    <2>1. routines[c] # << >>
      BY <1>9 DEF PublishResponse, At
    <2>2. PICK f \in Frame : f = [at |-> "cleanup"]
      BY <1>1, FrameMade
    <2>3. Become(c, <<f>>, "session")
      BY <1>9, <2>2 DEF PublishResponse
    <2>4. turn' = c /\ Head(routines'[c]) = f
      BY <1>1, <2>1, <2>3, OnTop
    <2> QED
      BY <2>2, <2>4, IdleName DEF Ending, Ends
  <1>10. CASE CleanUp(c)
    BY <1>10 DEF CleanUp, Ending
  <1> QED
    BY <1>2, <1>4, <1>5, <1>6, <1>7, <1>8, <1>9, <1>10 DEF Step

LEMMA EndingStays ==
    ASSUME InlineLoads, BaseInv, CallInv, Ending, [Next]_vars PROVE Ending'
  <1>1. CASE ~active
    BY <1>1, OverStays DEF Ending
  <1>2. CASE active
    <2>1. turn # Idle /\ Head(routines[turn]).at \in Ends
      BY <1>2 DEF Ending
    <2>2. ASSUME NEW c \in Routine, Step(c) PROVE Ending'
      <3>1. PICK place : At(c, place)
        BY <2>2 DEF Step, StopCancelled, ScheduleNodes, ExecuteNext, CallAgent, SkipNode,
                    PublishCall, CallFails, EvaluateSwitch, EnterLoop, StopLoopAtLimit,
                    StopLoopOnCondition, ContinueLoop, Iterate, IterationLoaded, StartMap,
                    LaunchItem, LaunchedAll, CheckMap, FinalizeMap, NodeFailed, NodeSucceeded,
                    OutputLoaded, LoadFails, StrayCompleted, StrayLoaded, BranchGone,
                    IterationSucceeded, ItemSucceeded, RunExitHandler, OutputFails,
                    PublishResponse, CleanUp, Runs
      <3>2. turn = c
        BY <2>1, <3>1 DEF At
      <3> QED
        BY <2>1, <2>2, <3>2, EndingSteps
    <2>3. ASSUME NEW k \in Call, ExpireTimer(k) PROVE Ending'
      BY <2>1, <2>3 DEF ExpireTimer, loopVars, Ending
    <2>4. ASSUME NEW k \in Call, HandleTimeout(k) PROVE FALSE
      BY <2>1, <2>4 DEF HandleTimeout, Begin
    <2>5. ASSUME NEW k \in Call, NEW reply \in Replies, ReceiveResponse(k, reply) PROVE FALSE
      BY <2>1, <2>5 DEF ReceiveResponse, Begin
    <2>6. ASSUME NEW q \in 1 .. MaxCancels, ReceiveCancel(q) PROVE FALSE
      BY <2>1, <2>6 DEF ReceiveCancel, Begin
    <2>7. CASE UNCHANGED vars
      BY <2>1, <2>7 DEF vars, loopVars, Ending
    <2> QED
      BY <2>2, <2>3, <2>4, <2>5, <2>6, <2>7 DEF Next, Runnable, Terminated
  <1> QED
    BY <1>1, <1>2

\* A node that fails ends the workflow.
LEMMA FailedEnds == ASSUME Before, NEW c \in Routine, NodeFailed(c) PROVE Ending'
  <1>1. At(c, "complete") /\ definition \in Definitions /\ StackOK /\ routines[c] # << >>
        /\ "nothing" \notin Awaits
    BY Known DEF NodeFailed, Runs, At
  <1>2. PICK f \in Frame : f = Finalize("failure") /\ f.at = "finalize"
    BY <1>1, FrameMade DEF Outcome
  <1>3. Become(c, <<f>>, "nothing")
    BY <1>2 DEF NodeFailed
  <1>4. turn' = c /\ Head(routines'[c]) = f
    BY <1>1, <1>3, OnTop
  <1> QED
    BY <1>2, <1>4, IdleName DEF Ending, Ends

-----------------------------------------------------------------------------
(* The theorem.                                                            *)

LEMMA RoutineGoes ==
    ASSUME Before, BranchInv, Branched, NEW c \in Routine, Step(c) PROVE WaitInv'
  <1>1. CASE ScheduleNodes(c)
    BY <1>1, ScheduleGoes
  <1>2. CASE StopCancelled(c)
    BY <1>2, Known DEF StopCancelled, Going
  <1>3. CASE \/ SkipNode(c) \/ EvaluateSwitch(c)
             \/ CallFails(c) \/ LoadFails(c) \/ OutputFails(c)
    BY <1>3, NeverCalls, Known
  <1>4. CASE ExecuteNext(c) \/ CallAgent(c) \/ PublishCall(c) \/ OutputLoaded(c)
    BY <1>4, ExecuteGoes, AgentGoes, PublishGoes, LoadedGoes DEF WaitInv
  <1>5. CASE EnterLoop(c) \/ StopLoopAtLimit(c) \/ StopLoopOnCondition(c) \/ ContinueLoop(c)
    BY <1>5, EnterLoopGoes, LoopEndsGoes, ContinueGoes DEF WaitInv
  <1>6. CASE Iterate(c) \/ IterationLoaded(c) \/ IterationSucceeded(c)
    BY <1>6, IterateGoes, IterationLoadedGoes, IterationGoes DEF WaitInv
  <1>7. CASE StartMap(c) \/ LaunchItem(c) \/ LaunchedAll(c) \/ CheckMap(c)
    BY <1>7, StartMapGoes, LaunchItemGoes, LaunchedGoes, CheckMapGoes DEF WaitInv
  <1>8. CASE FinalizeMap(c) \/ ItemSucceeded(c) \/ NodeSucceeded(c) \/ NodeFailed(c)
    BY <1>8, FinalizeMapGoes, ItemGoes, SucceededGoes, FailedEnds DEF WaitInv
  <1>9. CASE RunExitHandler(c) \/ PublishResponse(c) \/ CleanUp(c)
    <2>1. PICK place \in Ends : At(c, place)
      BY <1>9 DEF RunExitHandler, PublishResponse, CleanUp, Ends
    <2>2. turn = c /\ Head(routines[c]).at \in Ends
      BY <2>1, Runner, Known DEF At, Ends
    <2> QED
      BY <2>2, EndingSteps, Known DEF WaitInv
  <1>10. CASE StrayCompleted(c) \/ StrayLoaded(c) \/ BranchGone(c)
    BY <1>10, StrayGoes, NeverGone, Known DEF WaitInv
  <1> QED
    BY <1>1, <1>2, <1>3, <1>4, <1>5, <1>6, <1>7, <1>8, <1>9, <1>10 DEF Step

LEMMA NextWait ==
    ASSUME InlineEnds, BaseInv, MapInv, CallInv, BranchInv, LoadInv, Branched, WaitInv, [Next]_vars
    PROVE  WaitInv'
  <1>1. CASE Ending
    BY <1>1, EndingStays DEF WaitInv, InlineEnds
  <1>2. CASE Going
    <2>1. Before
      BY <1>2 DEF Before
    <2> QED
      BY <2>1, RoutineGoes, HostStepsGo DEF Next, Runnable, Terminated
  <1> QED
    BY <1>1, <1>2 DEF WaitInv

LEMMA InitWait == Init => WaitInv
  <1> SUFFICES ASSUME Init PROVE Going
    BY DEF WaitInv
  <1>1. PICK r \in Routine : r = <<"request", 0>> /\ turn = r /\ r # Idle
    BY IdleName DEF Init, Routine
  <1>2. /\ routines[r] = <<Schedule>> /\ \A d \in Routine : d # r => routines[d] = << >>
        /\ Len(<<Schedule>>) = 1 /\ <<Schedule>>[1] = Schedule /\ Schedule.at = "schedule"
        /\ Head(<<Schedule>>) = Schedule
    BY <1>1 DEF Init, Schedule
  <1>3. Todo = {} /\ Started = {}
    BY <1>1, <1>2 DEF Batch, BatchOf, NoBatch, Todo, Started
  <1>4. \A c \in Routine : \A n : ~Busy(c, n)
    <2>1. Len(<< >>) = 0
      OBVIOUS
    <2> QED
      BY <1>2, <2>1 DEF Busy, Loops
  <1>5. DOMAIN calls = {} /\ \A n : CallsOf(n) = {} /\ Unanswered(n) = {}
    <2>1. calls = << >> /\ DOMAIN << >> = {}
      BY DEF Init
    <2> QED
      BY <2>1 DEF CallsOf, Unanswered
  <1>6. ASSUME NEW n \in Node PROVE NodeGoes(n)
    <2>1. /\ completed[n] = "no" /\ pending[n] = 0 /\ open = {}
          /\ mapState[n] = [next |-> 0, count |-> 0, active |-> {}]
      BY DEF Init
    <2>2. \A p \in {"looped", "mapcheck"} : ~Here(p, n)
      BY <1>1, <1>2 DEF Here
    <2>3. Tally(n)
      <3>1. Cardinality({}) = 0 /\ {} = {calls[k].index : k \in {}}
        BY FS_EmptySet
      <3> QED
        BY <1>5, <2>1, <3>1 DEF Tally
    <2> QED
      BY <1>3, <1>4, <2>1, <2>2, <2>3
         DEF NodeGoes, Listed, Untaken, LoopOpen, MapTold, Driven
  <1>7. Twins /\ Alive
    BY <1>1, <1>2 DEF Twins, Alive
  <1>8. ~cancelled /\ active
    BY DEF Init
  <1> QED
    BY <1>5, <1>6, <1>7, <1>8 DEF Going

LEMMA WaitAlways == ASSUME InlineEnds PROVE Spec => [](BaseInv /\ CallInv /\ WaitInv)
  <1>1. InlineLoads /\ InlineCalls
    BY DEF InlineEnds, InlineLoads
  <1>2. Init => WaitInv
    BY InitWait
  <1>3. BaseInv /\ MapInv /\ CallInv /\ BranchInv /\ LoadInv /\ Branched /\ WaitInv /\ [Next]_vars
          => WaitInv'
    BY NextWait
  <1>4. Spec => [](BaseInv /\ MapInv /\ CallInv /\ BranchInv)
    BY <1>1, CallsAlways
  <1>5. Spec => [](CallInv /\ LoadInv)
    BY <1>1, LoadsAlways
  <1>6. Spec => []Branched
    BY <1>1, BranchedAlways
  <1> QED
    BY <1>2, <1>3, <1>4, <1>5, <1>6, PTL DEF Spec

\* A workflow that is alive and that no coroutine works for waits for a sub-task
\* that can still answer or time out, or one of its loops was ended by its
\* iteration limit and never left pending_nodes: when no await of the engine
\* suspends it but that between the iterations of a loop, nothing raises, no
\* sub-task is cancelled by others and no map is empty.
THEOREM ProgressInline == ASSUME InlineEnds PROVE Spec => [](LoopAtLimit \/ SomethingInProgress)
  <1>1. Spec => [](BaseInv /\ CallInv /\ WaitInv)
    BY WaitAlways
  <1>2. BaseInv /\ CallInv /\ WaitInv => LoopAtLimit \/ SomethingInProgress
    <2> SUFFICES ASSUME BaseInv, CallInv, WaitInv, active, Quiet, ~LoopAtLimit
                 PROVE  cached \cup expired # {}
      BY DEF SomethingInProgress
    <2>1. turn = Idle
      <3>1. turn # Idle => turn \in Routine /\ Running(routines[turn])
        BY DEF BaseInv, TypeOK, CallInv, StacksInv
      <3>2. Len(<< >>) = 0
        OBVIOUS
      <3> QED
        BY <3>1, <3>2 DEF Quiet, Running
    <2>2. Going
      BY <2>1 DEF WaitInv, Ending
    <2> QED
      BY <2>1, <2>2 DEF Going, Alive, Quiet
  <1> QED
    BY <1>1, <1>2, PTL

=============================================================================
