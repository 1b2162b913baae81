---------------------------- MODULE MCWebClient ----------------------------
(* WebClient with two ids, one unit and two reservation ids per user.      *)
EXTENDS WebClient, TLC

Symmetry == Permutations(Users) \cup Permutations(Rids)
=============================================================================
