----------------------------- MODULE FanOutJoin -----------------------------
(***************************************************************************)
(* What an agent promises about the peer calls of one model turn: the      *)
(* calls of a turn are issued together, each gets one result, and the      *)
(* agent is resumed with the results at most once, when the last call has  *)
(* one.  PeerDelegation implements it.                                     *)
(***************************************************************************)
EXTENDS Integers

CONSTANTS Turn,  \* the model turns
          Call   \* the calls a turn may make

VARIABLES issued,    \* the calls of each turn
          answered,  \* the calls of each turn that have a result
          resumed    \* the turns whose results went back to the model

vars == <<issued, answered, resumed>>

Init ==
    /\ issued = [t \in Turn |-> {}]
    /\ answered = [t \in Turn |-> {}]
    /\ resumed = {}

Issue(t, calls) ==
    /\ issued[t] = {} /\ calls # {}
    /\ issued' = [issued EXCEPT ![t] = calls]
    /\ UNCHANGED <<answered, resumed>>

\* Only calls that wait are answered.  The agent is resumed together with the
\* last answer, or never: the task may have ended.
Answer(t, calls) ==
    /\ calls # {} /\ calls \subseteq issued[t] \ answered[t]
    /\ answered' = [answered EXCEPT ![t] = @ \cup calls]
    /\ \/ resumed' = resumed
       \/ answered'[t] = issued[t] /\ resumed' = resumed \cup {t}
    /\ UNCHANGED issued

Next == \E t \in Turn, calls \in SUBSET Call : Issue(t, calls) \/ Answer(t, calls)

Spec == Init /\ [][Next]_vars
=============================================================================
