----------------------------- MODULE MCProcess -----------------------------
(***************************************************************************)
(* Process on small instances, with two terminals.  ProcessTree.cfg takes  *)
(* two pids beyond the shells and one descriptor beyond 0 and 1: the pid   *)
(* table and a descriptor array can fill up.                               *)
(***************************************************************************)
EXTENDS ProcessSessions
=============================================================================
