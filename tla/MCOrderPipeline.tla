-------------------------- MODULE MCOrderPipeline --------------------------
(* OrderPipeline on one or two users; the bounds are in the cfg files. *)
EXTENDS OrderPipeline, TLC

Symmetry == Permutations(Users)
=============================================================================
