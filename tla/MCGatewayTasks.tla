--------------------------- MODULE MCGatewayTasks ---------------------------
(***************************************************************************)
(* GatewayTasks on a small instance.                                       *)
(***************************************************************************)
EXTENDS GatewayTasks

\* One task: all others do to it is to delay the handling of its events, and the
\* processor may take its time anyway.
OneTask == {"t"}
=============================================================================
