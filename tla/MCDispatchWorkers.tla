-------------------------- MODULE MCDispatchWorkers --------------------------
(* Small instances of DispatchWorkers. *)
EXTENDS DispatchWorkers
=============================================================================
