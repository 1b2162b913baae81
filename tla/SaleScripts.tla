---------------------------- MODULE SaleScripts ----------------------------
(***************************************************************************)
(* The Redis keys of one sale and the Lua scripts of packages/redis that   *)
(* read and write them.  Redis runs a script to completion before the next *)
(* command, so every script is one atomic action on the sale keys.  The    *)
(* modules that drive the scripts (SaleStore, OrderPipeline) extend this   *)
(* module and supply the callers.                                          *)
(*                                                                         *)
(* A reservation hash entry "<reservationId>:<reservedAtMs>" is            *)
(* represented by its identity: the scripts compare nothing else.          *)
(***************************************************************************)
EXTENDS Integers, FiniteSets

CONSTANTS
    Users,        \* user ids that may buy
    Rids,         \* reservation ids (UUIDs) purchase() may generate for a user
    NoRid,        \* the hash has no field for the user (HGET returns nil)
    TotalStock,   \* config.totalStock
    StartsAt,     \* config.startsAtMs
    EndsAt        \* config.endsAtMs

ASSUME UsersAssumption == IsFiniteSet(Users)
ASSUME RidsAssumption  == NoRid \notin Rids
ASSUME StockAssumption == TotalStock \in Nat
\* SaleRedisStore.seed refuses a window that is empty or reversed.
ASSUME WindowAssumption == StartsAt \in Nat /\ EndsAt \in Nat /\ StartsAt < EndsAt

VARIABLES
    seeded,        \* sale:{id}:config exists
    stock,         \* sale:{id}:stock, NoStock when the key is missing
    buyers,        \* sale:{id}:buyers
    reservations,  \* sale:{id}:reservations, user -> reservation id
    now            \* Redis TIME

saleKeys == <<seeded, stock, buyers, reservations>>

NoStock == -1

SaleTypeOK ==
    /\ seeded \in BOOLEAN
    /\ stock \in Int /\ stock >= NoStock
    /\ buyers \subseteq Users
    /\ reservations \in [Users -> Rids \cup {NoRid}]
    /\ now \in Nat

\* tonumber(redis.call('GET', stock) or '0'), clamped at zero.
StockValue == IF stock < 0 THEN 0 ELSE stock

\* The users that have a field in the reservations hash; HLEN is its cardinality.
Reserved == {u \in Users : reservations[u] # NoRid}

-----------------------------------------------------------------------------
(* purchase.lua *)

AlreadyPurchased(u) == u \in buyers \/ reservations[u] # NoRid

\* Mutant: the end of the window is inclusive.
PurchaseOutcomeLateByOne(u) ==
    IF ~seeded THEN "NOT_INITIALIZED"
    ELSE IF now < StartsAt THEN "SALE_NOT_STARTED"
    ELSE IF now > EndsAt THEN "SALE_ENDED"
    ELSE IF AlreadyPurchased(u) THEN "ALREADY_PURCHASED"
    ELSE IF StockValue <= 0 THEN "SOLD_OUT"
    ELSE "CONFIRMED"

\* Mutant: the counter is checked before the user's own reservation.
PurchaseOutcomeStockFirst(u) ==
    IF ~seeded THEN "NOT_INITIALIZED"
    ELSE IF now < StartsAt THEN "SALE_NOT_STARTED"
    ELSE IF now >= EndsAt THEN "SALE_ENDED"
    ELSE IF StockValue <= 0 THEN "SOLD_OUT"
    ELSE IF AlreadyPurchased(u) THEN "ALREADY_PURCHASED"
    ELSE "CONFIRMED"

\* The checks of purchase.lua, in the order in which the script makes them.
PurchaseOutcome(u) ==
    IF ~seeded THEN "NOT_INITIALIZED"
    ELSE IF now < StartsAt THEN "SALE_NOT_STARTED"
    ELSE IF now >= EndsAt THEN "SALE_ENDED"
    ELSE IF AlreadyPurchased(u) THEN "ALREADY_PURCHASED"
    ELSE IF StockValue <= 0 THEN "SOLD_OUT"
    ELSE "CONFIRMED"

\* A confirmation decrements, admits the buyer and records the reservation; a
\* duplicate repairs the buyers set; every other outcome writes nothing.
PurchaseScript(u, r) ==
    /\ \/ /\ PurchaseOutcome(u) = "CONFIRMED"
          /\ stock' = StockValue - 1
          /\ buyers' = buyers \cup {u}
          /\ reservations' = [reservations EXCEPT ![u] = r]
       \/ /\ PurchaseOutcome(u) = "ALREADY_PURCHASED"
          /\ buyers' = buyers \cup {u}
          /\ UNCHANGED <<stock, reservations>>
       \/ /\ PurchaseOutcome(u) \notin {"CONFIRMED", "ALREADY_PURCHASED"}
          /\ UNCHANGED <<stock, buyers, reservations>>
    /\ UNCHANGED seeded

-----------------------------------------------------------------------------
(* compensate.lua *)

\* Mutant: any reservation of the user is taken for the one to compensate.
IdentityIgnored(u, r) == r # NoRid /\ reservations[u] # NoRid

\* The idempotency token: the reservation on file is the one to compensate.
IdentityMatches(u, r) == r # NoRid /\ reservations[u] = r

\* Mutant: the cap at totalStock is dropped.
CompensatedStockUncapped(u) == IF u \notin buyers THEN stock ELSE StockValue + 1

\* Mutant: the unit is not returned.
CompensatedStockKept(u) == stock

\* Stock after a matching compensation.  Nothing is returned for a user who is
\* not a buyer, nor beyond totalStock (which is only known once seeded).
CompensatedStock(u) ==
    IF u \notin buyers \/ (seeded /\ StockValue >= TotalStock)
    THEN stock
    ELSE StockValue + 1

CompensateOutcome(u, r) ==
    IF ~IdentityMatches(u, r) \/ u \notin buyers THEN "NOOP"
    ELSE IF seeded /\ StockValue >= TotalStock THEN "COMPENSATED_CAPPED"
    ELSE "COMPENSATED"

\* Mutant: the SREM of the buyer is forgotten.
CompensateKeepsBuyer(u, r) ==
    /\ IF IdentityMatches(u, r)
       THEN /\ stock' = CompensatedStock(u)
            /\ reservations' = [reservations EXCEPT ![u] = NoRid]
       ELSE UNCHANGED <<stock, reservations>>
    /\ UNCHANGED <<seeded, buyers>>

CompensateScript(u, r) ==
    /\ IF IdentityMatches(u, r)
       THEN /\ stock' = CompensatedStock(u)
            /\ reservations' = [reservations EXCEPT ![u] = NoRid]
            /\ buyers' = buyers \ {u}
       ELSE UNCHANGED <<stock, reservations, buyers>>
    /\ UNCHANGED seeded

-----------------------------------------------------------------------------
(* compare-restore-reservation.lua *)

RestoreOutcome(u, r) ==
    IF reservations[u] = NoRid THEN "RESTORED"
    ELSE IF reservations[u] = r THEN "ALREADY_MATCHED"
    ELSE "CONFLICT"

\* The compare-and-set of reconciliation.  It never touches the stock counter.
CompareRestoreScript(u, r) ==
    /\ IF RestoreOutcome(u, r) = "CONFLICT"
       THEN UNCHANGED <<buyers, reservations>>
       ELSE /\ reservations' = [reservations EXCEPT ![u] = r]
            /\ buyers' = buyers \cup {u}
    /\ UNCHANGED <<seeded, stock>>

-----------------------------------------------------------------------------
(* inspect-reservation-membership.lua and reconcile-membership.lua *)

InspectMembership(u) ==
    CASE u \in buyers    /\ u \in Reserved    -> "BOTH"
      [] u \notin buyers /\ u \notin Reserved -> "NEITHER"
      [] u \in buyers    /\ u \notin Reserved -> "BUYER_ONLY"
      [] u \notin buyers /\ u \in Reserved    -> "RESERVATION_ONLY"

ReconcileMembershipScript(u) ==
    /\ buyers' = IF u \in Reserved THEN buyers \cup {u} ELSE buyers \ {u}
    /\ UNCHANGED <<seeded, stock, reservations>>

-----------------------------------------------------------------------------
(* reconcile-state.lua *)

ReconcileStateOutcome ==
    IF ~seeded THEN "NOT_INITIALIZED"
    ELSE IF Cardinality(Reserved) > TotalStock THEN "OVERCOMMITTED"
    ELSE "RECONCILED"

\* Stock is derived from the ledger; an overcommitted ledger is left alone.
ReconcileStateScript ==
    /\ stock' = IF ReconcileStateOutcome = "RECONCILED"
                THEN TotalStock - Cardinality(Reserved)
                ELSE stock
    /\ UNCHANGED <<seeded, buyers, reservations>>

-----------------------------------------------------------------------------
(* seed.lua, and SaleRedisStore.reset (DEL of every sale key) *)

SeedOutcome ==
    IF ~seeded THEN "SEEDED"
    ELSE IF stock = NoStock THEN "STOCK_MISSING"
    ELSE "ALREADY_SEEDED"

\* Gated on the existence of config: a second seed never resets the counter.
SeedScript ==
    /\ seeded' = TRUE
    /\ stock' = IF SeedOutcome = "SEEDED" THEN TotalStock ELSE stock
    /\ UNCHANGED <<buyers, reservations>>

ResetKeys ==
    /\ seeded' = FALSE
    /\ stock' = NoStock
    /\ buyers' = {}
    /\ reservations' = [u \in Users |-> NoRid]
=============================================================================
