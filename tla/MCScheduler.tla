---------------------------- MODULE MCScheduler -----------------------------
(***************************************************************************)
(* Scheduler on small instances.                                           *)
(***************************************************************************)
EXTENDS Scheduler

\* The job runner and a user start one run each of one task: they overlap, and
\* with one slot for both they also compete for it.
Runs == {"fire", "now"}
Tasks == {"t"}
Targets == [r \in Runs |-> "t"]
ByHand == {"now"}
=============================================================================
