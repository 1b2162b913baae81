------------------------- MODULE MCWorkerLifecycle -------------------------
(* WorkerLifecycle on one or two processes. *)
EXTENDS WorkerLifecycle, TLC

Symmetry == Permutations(Workers)
=============================================================================
