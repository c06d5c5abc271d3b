------------------------- MODULE MCWorkflowEngine -------------------------
(***************************************************************************)
(* WorkflowEngine on small definitions.                                    *)
(***************************************************************************)
EXTENDS WorkflowEngine, TLC

NoHandlers == [o \in Outcome |-> << >>]
Nobody(nodes) == [n \in nodes |-> {}]

\* a, then b (with a "when" clause), then c.
Chain ==
    LET nodes == {"a", "b", "c"}
    IN  [order |-> <<"a", "b", "c">>,
         kind |-> [n \in nodes |-> "agent"],
         dependsOn |-> [a |-> {}, b |-> {"a"}, c |-> {"b"}],
         target |-> Nobody(nodes), conditional |-> {"b"},
         onExit |-> NoHandlers,
         maxIterations |-> 0, items |-> 0, concurrencyLimit |-> 0]

\* a and b in parallel, then c.
Join == [Chain EXCEPT !.conditional = {},
                      !.dependsOn = [a |-> {}, b |-> {}, c |-> {"a", "b"}]]

\* The same, and c is also the handler of a failure.
HandledJoin == [Join EXCEPT !.onExit["failure"] = <<"c">>]

\* a and b in parallel, c after a alone.
Fork == [Join EXCEPT !.dependsOn["c"] = {"a"}]

\* a and b in parallel, and nothing else.
Pair ==
    LET nodes == {"a", "b"}
    IN  [order |-> <<"a", "b">>, kind |-> [n \in nodes |-> "agent"],
         dependsOn |-> Nobody(nodes), target |-> Nobody(nodes),
         conditional |-> {}, onExit |-> NoHandlers,
         maxIterations |-> 0, items |-> 0, concurrencyLimit |-> 0]

\* The switch s selects x or y, z follows either, next to the agent node w.
Switch ==
    LET nodes == {"w", "s", "x", "y", "z"}
    IN  [order |-> <<"w", "s", "x", "y", "z">>,
         kind |-> [n \in nodes |-> IF n = "s" THEN "switch" ELSE "agent"],
         dependsOn |-> [w |-> {}, s |-> {}, x |-> {"s"}, y |-> {"s"},
                        z |-> {"x", "y"}],
         target |-> [Nobody(nodes) EXCEPT !["s"] = {"x", "y"}],
         conditional |-> {}, onExit |-> NoHandlers,
         maxIterations |-> 0, items |-> 0, concurrencyLimit |-> 0]

\* A control node g over the agent node i, then z.
Loop ==
    LET nodes == {"g", "i", "z"}
    IN  [order |-> <<"g", "i", "z">>,
         kind |-> [n \in nodes |-> IF n = "g" THEN "loop" ELSE "agent"],
         dependsOn |-> [g |-> {}, i |-> {}, z |-> {"g"}],
         target |-> [Nobody(nodes) EXCEPT !["g"] = {"i"}],
         conditional |-> {}, onExit |-> NoHandlers,
         maxIterations |-> 3, items |-> 0, concurrencyLimit |-> 0]
Map == [Loop EXCEPT !.kind["g"] = "map", !.items = 3, !.concurrencyLimit = 2]

\* x and y in parallel with a loop g over i, which is written last: x and y can
\* both find g not yet pending.
Race ==
    LET nodes == {"x", "y", "g", "i"}
    IN  [order |-> <<"x", "y", "g", "i">>,
         kind |-> [n \in nodes |-> IF n = "g" THEN "loop" ELSE "agent"],
         dependsOn |-> Nobody(nodes),
         target |-> [Nobody(nodes) EXCEPT !["g"] = {"i"}],
         conditional |-> {}, onExit |-> NoHandlers,
         maxIterations |-> 2, items |-> 0, concurrencyLimit |-> 0]

\* The agent node a and b, the exit handler of every outcome.
Handled == [Pair EXCEPT !.onExit = [o \in Outcome |-> <<"b">>]]

\* A switch and, after it in the order, the agent node w.
SwitchFirst == [Switch EXCEPT !.order = <<"s", "w", "x", "y", "z">>]

\* a, then b and c in parallel, then d, which is written first.
Diamond ==
    LET nodes == {"a", "b", "c", "d"}
    IN  [order |-> <<"d", "a", "b", "c">>, kind |-> [n \in nodes |-> "agent"],
         dependsOn |-> [a |-> {}, b |-> {"a"}, c |-> {"a"}, d |-> {"b", "c"}],
         target |-> Nobody(nodes), conditional |-> {}, onExit |-> NoHandlers,
         maxIterations |-> 0, items |-> 0, concurrencyLimit |-> 0]

\* A loop g over i and a map m over j in parallel, then z.
LoopAndMap ==
    LET nodes == {"g", "i", "m", "j", "z"}
    IN  [order |-> <<"g", "m", "z", "i", "j">>,
         kind |-> [n \in nodes |-> CASE n = "g" -> "loop" [] n = "m" -> "map"
                                      [] OTHER -> "agent"],
         dependsOn |-> [Nobody(nodes) EXCEPT !["z"] = {"g", "m"}],
         target |-> [Nobody(nodes) EXCEPT !["g"] = {"i"}, !["m"] = {"j"}],
         conditional |-> {}, onExit |-> NoHandlers,
         maxIterations |-> 2, items |-> 2, concurrencyLimit |-> 1]

\* a, then b with a "when" clause.
LastConditional ==
    [Pair EXCEPT !.dependsOn["b"] = {"a"}, !.conditional = {"b"}]

\* The definitions of the runs.
OnlyChain == {Chain}
OnlyFork  == {Fork}
ShortLoop == {[Loop EXCEPT !.maxIterations = 1]}
AllKinds  == {HandledJoin, Switch, Loop, Race, Map}
PairOrMap == {Pair, Map}
Inlines   == {Diamond, LoopAndMap}
SkippedLast == {LastConditional}

\* Definitions that show where documents and code disagree.
OnlyJoin     == {Join}
OnlyHandled  == {Handled}
EmptyMap     == {[Map EXCEPT !.items = 0]}
SwitchBefore == {SwitchFirst}
OnlyRace     == {Race}
AgentChain   == {[Chain EXCEPT !.conditional = {}]}
=============================================================================
