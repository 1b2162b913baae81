----------------------------- MODULE SaleStore -----------------------------
(***************************************************************************)
(* The Redis sale store on its own: every script of SaleScripts, called in *)
(* any order by the API (purchase), the DLQ sweep (compensate), the        *)
(* reconciler (compareAndRestoreReservation, reconcileBuyerMembership,     *)
(* reconcileStockFromReservations), the worker's boot (seed) and the       *)
(* operator (reset).  Callers only name reservation ids that a purchase    *)
(* has generated: queue payloads and order rows carry nothing else.        *)
(***************************************************************************)
EXTENDS SaleScripts

CONSTANTS
    MaxNow,       \* bound: the last instant of the clock
    MaxDrift      \* bound: restores between two stock reconciliations

ASSUME BoundsAssumption == MaxNow \in Nat /\ MaxDrift \in Nat

VARIABLES
    issued,       \* user -> reservation ids confirmed so far
    drift         \* observer: RESTORED replies since the counter was last
                  \* derived from the ledger

vars == <<seeded, stock, buyers, reservations, now, issued, drift>>

TypeOK ==
    /\ SaleTypeOK
    /\ issued \in [Users -> SUBSET Rids]
    /\ drift \in 0..MaxDrift

Init ==
    /\ seeded = FALSE
    /\ stock = NoStock
    /\ buyers = {}
    /\ reservations = [u \in Users |-> NoRid]
    /\ now = 0
    /\ issued = [u \in Users |-> {}]
    /\ drift = 0

-----------------------------------------------------------------------------

\* randomUUID() never repeats, hence r \notin issued[u].
Purchase(u, r) ==
    /\ r \notin issued[u]
    /\ PurchaseScript(u, r)
    /\ issued' = IF PurchaseOutcome(u) = "CONFIRMED"
                 THEN [issued EXCEPT ![u] = @ \cup {r}]
                 ELSE issued
    /\ UNCHANGED <<now, drift>>

Compensate(u, r) ==
    /\ r \in issued[u]
    /\ CompensateScript(u, r)
    /\ UNCHANGED <<now, issued, drift>>

CompareAndRestore(u, r) ==
    /\ r \in issued[u]
    /\ drift < MaxDrift
    /\ CompareRestoreScript(u, r)
    /\ drift' = IF RestoreOutcome(u, r) = "RESTORED" THEN drift + 1 ELSE drift
    /\ UNCHANGED <<now, issued>>

ReconcileBuyerMembership(u) ==
    /\ ReconcileMembershipScript(u)
    /\ UNCHANGED <<now, issued, drift>>

ReconcileStockFromReservations ==
    /\ ReconcileStateScript
    /\ drift' = IF ReconcileStateOutcome = "RECONCILED" THEN 0 ELSE drift
    /\ UNCHANGED <<now, issued>>

Seed ==
    /\ SeedScript
    /\ UNCHANGED <<now, issued, drift>>

Reset ==
    /\ ResetKeys
    /\ drift' = 0
    /\ UNCHANGED <<now, issued>>

\* Redis TIME advances between scripts.
Tick ==
    /\ now < MaxNow
    /\ now' = now + 1
    /\ UNCHANGED <<seeded, stock, buyers, reservations, issued, drift>>

Next ==
    \/ \E u \in Users, r \in Rids :
          Purchase(u, r) \/ Compensate(u, r) \/ CompareAndRestore(u, r)
    \/ \E u \in Users : ReconcileBuyerMembership(u)
    \/ ReconcileStockFromReservations
    \/ Seed
    \/ Reset
    \/ Tick

Spec == Init /\ [][Next]_vars

-----------------------------------------------------------------------------
(* Properties *)

\* The buyers set and the reservations hash never disagree: purchase.lua,
\* compensate.lua and compare-restore-reservation.lua write both or neither, so
\* the duplicate check of purchase.lua and the SREM token of compensate.lua
\* always see one truth.
BuyersMatchLedger == buyers = Reserved

\* I1 at the store.  A unit is either in the counter or held by a reservation:
\* purchase and compensation conserve the total exactly, a restore (which does
\* not decrement) can inflate it by at most one each, and the cap of
\* compensate.lua can only take inflated units away.  No unit is ever lost.
UnitsAccounted ==
    seeded => /\ TotalStock <= stock + Cardinality(Reserved)
              /\ stock + Cardinality(Reserved) <= TotalStock + drift

\* The counter stays within 0..totalStock whatever the callers do, in
\* particular when the same reservation is restored and compensated again and
\* again (the COMPENSATED_CAPPED branch).
StockInRange == seeded => stock \in 0..TotalStock

\* I3, as what a step may do: a user gains a reservation that was never issued
\* before only through a purchase inside [startsAt, endsAt), with a unit in the
\* counter and no previous claim on the sale.
ConfirmedOnlyInWindow ==
    [][\A u \in Users :
          issued'[u] # issued[u] =>
             /\ StartsAt <= now /\ now < EndsAt
             /\ u \notin buyers
             /\ stock > 0 /\ stock' = stock - 1]_vars
=============================================================================
