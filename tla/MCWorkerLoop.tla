---------------------------- MODULE MCWorkerLoop ----------------------------
(* Small instances of the worker loop. *)
EXTENDS WorkerLoop

=============================================================================
