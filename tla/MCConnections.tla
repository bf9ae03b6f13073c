---------------------------- MODULE MCConnections ----------------------------
(***************************************************************************)
(* Connections, with a thread, a task and its worker.                      *)
(***************************************************************************)
EXTENDS Connections
=============================================================================
