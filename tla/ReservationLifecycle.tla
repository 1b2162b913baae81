------------------------ MODULE ReservationLifecycle ------------------------
(***************************************************************************)
(* What the flash sale promises, with the machinery left out.  Each        *)
(* reservation id of each user moves one way through                       *)
(*                                                                         *)
(*      idle  -->  held  -->  sold                                         *)
(*                      \-->  returned                                     *)
(*                                                                         *)
(* A confirmation needs a free unit and a user with no unit of their own.  *)
(* Sold and returned are final: an order is never withdrawn (I4), and a    *)
(* reservation whose unit went back to the counter is never revived (I1).  *)
(***************************************************************************)
EXTENDS Integers, FiniteSets

CONSTANTS Users, Rids, TotalStock

VARIABLE status

States == {"idle", "held", "sold", "returned"}

\* The reservations that occupy a unit.
Units == {x \in Users \X Rids : status[x[1]][x[2]] \in {"held", "sold"}}

Init == status = [u \in Users |-> [r \in Rids |-> "idle"]]

Confirm(u, r) ==
    /\ status[u][r] = "idle"
    /\ \A q \in Rids : status[u][q] \notin {"held", "sold"}
    /\ Cardinality(Units) < TotalStock
    /\ status' = [status EXCEPT ![u][r] = "held"]

Settle(u, r) ==
    /\ status[u][r] = "held"
    /\ status' = [status EXCEPT ![u][r] = "sold"]

Return(u, r) ==
    /\ status[u][r] = "held"
    /\ status' = [status EXCEPT ![u][r] = "returned"]

Next == \E u \in Users, r \in Rids : Confirm(u, r) \/ Settle(u, r) \/ Return(u, r)

Spec == Init /\ [][Next]_status

-----------------------------------------------------------------------------

TypeOK == status \in [Users -> [Rids -> States]]

\* I1: no more units are held or sold than the sale has.
NoOversell == Cardinality(Units) <= TotalStock

\* I2: a user never occupies two units.
OnePerUser == \A x, y \in Units : x[1] = y[1] => x = y
=============================================================================
