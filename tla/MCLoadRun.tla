----------------------------- MODULE MCLoadRun -----------------------------
(* LoadRun with a warmup and a measured scenario. *)
EXTENDS LoadRun
=============================================================================
