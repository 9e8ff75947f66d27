---------------------------- MODULE MCSupervisor ----------------------------
(* The supervisor with limits small enough for all three to be reached.    *)
EXTENDS Supervisor
=============================================================================
