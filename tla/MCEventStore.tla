---------------------------- MODULE MCEventStore ----------------------------
(***************************************************************************)
(* EventStore on a small instance.                                         *)
(***************************************************************************)
EXTENDS EventStore
=============================================================================
