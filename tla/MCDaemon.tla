------------------------------ MODULE MCDaemon ------------------------------
(***************************************************************************)
(* An instance of Daemon for TLC.  The counters have two bits, so that the *)
(* count of all clients wraps and the count of active ones just does not.  *)
(***************************************************************************)
EXTENDS Daemon
=============================================================================
