---------------------------- MODULE MCWorkerPool ----------------------------
(* WorkerPool on a small instance: Pool.cfg gives the constants model values. *)
(* No symmetry: the run checks liveness.                                      *)
EXTENDS WorkerPool
=============================================================================
