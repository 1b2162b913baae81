---------------------------- MODULE MCApiProcess ----------------------------
(* ApiProcess with a tick of 250 ms: every budget has its real value. *)
EXTENDS ApiProcess
=============================================================================
