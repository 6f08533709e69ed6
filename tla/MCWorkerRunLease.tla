-------------------------- MODULE MCWorkerRunLease --------------------------
(* TLC instance of WorkerRunLease. *)
EXTENDS WorkerRunLease, TLC

Symmetry == Permutations(Passes)
=============================================================================
