-------------------------- MODULE MCWorkerRegistry --------------------------
(* A small instance of the worker's registration for TLC. *)
EXTENDS WorkerRegistry
=============================================================================
