-------------------------- MODULE MCOrdersProducer --------------------------
(* OrdersProducer with three purchases on two slots. *)
EXTENDS OrdersProducer
=============================================================================
