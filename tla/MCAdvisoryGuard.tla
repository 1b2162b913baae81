-------------------------- MODULE MCAdvisoryGuard --------------------------
(* AdvisoryGuard on a window of one instant and short round trips. *)
EXTENDS AdvisoryGuard, TLC

Symmetry == Permutations(Flights)
=============================================================================
