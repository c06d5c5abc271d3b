--------------------------- MODULE MCEventStream ----------------------------
(***************************************************************************)
(* EventStream on a small instance, and plausible mistakes in its code.    *)
(***************************************************************************)
EXTENDS EventStream
=============================================================================
