----------------------------- MODULE EventFeed ------------------------------
(***************************************************************************)
(* What the web gateway promises to the clients that follow a task: its    *)
(* events are numbered as the gateway emits them, a client sees none       *)
(* before it is emitted and none twice, and the events emitted before it   *)
(* subscribed, and those emitted after, each come in their order.  Events  *)
(* may be missing, and the two orders may interleave: a new event may      *)
(* overtake the backlog.  EventStream implements it.                       *)
(***************************************************************************)
EXTENDS Integers, Sequences

CONSTANTS Client, Final  \* the events are 1 .. Final

VARIABLES emitted,  \* how many events were emitted
          since,    \* the events emitted when a client subscribed
          stream    \* the events each client has seen

vars == <<emitted, since, stream>>

NotYet == -1

Init ==
    /\ emitted = 0
    /\ since = [c \in Client |-> NotYet]
    /\ stream = [c \in Client |-> <<>>]

Emit ==
    /\ emitted < Final
    /\ emitted' = emitted + 1
    /\ UNCHANGED <<since, stream>>

Subscribe(c) ==
    /\ since[c] = NotYet
    /\ since' = [since EXCEPT ![c] = emitted]
    /\ UNCHANGED <<emitted, stream>>

Backlog(c, e) == e <= since[c]

See(c, e) ==
    /\ since[c] # NotYet /\ e <= emitted
    /\ stream' = [stream EXCEPT ![c] = Append(@, e)]
    /\ \A i \in DOMAIN stream[c] :
          Backlog(c, stream[c][i]) = Backlog(c, e) => stream[c][i] < e
    /\ UNCHANGED <<emitted, since>>

Next == Emit \/ \E c \in Client : Subscribe(c) \/ \E e \in 1 .. Final : See(c, e)

Spec == Init /\ [][Next]_vars
=============================================================================
