-------------------------- MODULE SaleStoreProofs --------------------------
(***************************************************************************)
(* Proofs about SaleStore for any number of users, any stock and any       *)
(* window: the types, the agreement of the buyers set with the ledger, the *)
(* conservation of units and the range of the counter, and what a          *)
(* confirmation requires.                                                  *)
(*                                                                         *)
(* None of the four invariants is inductive alone.  Units are conserved by *)
(* a compensation only when the compensated user is also a buyer           *)
(* (BuyersMatchLedger) and the counter did not already exceed totalStock   *)
(* (StockInRange); a seed that meets a ledger restored before it (the cold *)
(* start after a reset) conserves them only because everything in that     *)
(* ledger came from a restore (UnseededIsRestored).                        *)
(***************************************************************************)
EXTENDS SaleStore, FiniteSetTheorems, TLAPS

\* Before the sale is seeded, the ledger holds what restores put there.
UnseededIsRestored == ~seeded => Cardinality(Reserved) <= drift

IInv ==
    /\ TypeOK
    /\ BuyersMatchLedger
    /\ UnitsAccounted
    /\ StockInRange
    /\ UnseededIsRestored

-----------------------------------------------------------------------------
(* The ledger as a set of users *)

Holders(ledger) == {u \in Users : ledger[u] # NoRid}

\* HLEN of the reservations hash is a natural number.
LEMMA HoldersFinite ==
    ASSUME NEW ledger
    PROVE  /\ IsFiniteSet(Holders(ledger))
           /\ Cardinality(Holders(ledger)) \in Nat
<1>1. Holders(ledger) \subseteq Users
    BY DEF Holders
<1>2. IsFiniteSet(Holders(ledger))
    BY <1>1, UsersAssumption, FS_Subset
<1> QED BY <1>2, FS_CardinalityType

\* HSET of a field that is absent.
LEMMA HoldersAfterSet ==
    ASSUME NEW ledger, NEW after, NEW u \in Users,
           ledger[u] = NoRid, after[u] # NoRid,
           \A v \in Users : v # u => after[v] = ledger[v]
    PROVE  /\ Holders(after) = Holders(ledger) \cup {u}
           /\ Cardinality(Holders(after)) = Cardinality(Holders(ledger)) + 1
<1>1. Holders(after) = Holders(ledger) \cup {u}
    BY DEF Holders
<1>2. u \notin Holders(ledger)
    BY DEF Holders
<1>3. Cardinality(Holders(ledger) \cup {u}) = Cardinality(Holders(ledger)) + 1
    BY <1>2, HoldersFinite, FS_AddElement
<1> QED BY <1>1, <1>3

\* HDEL of a field that is present.
LEMMA HoldersAfterDelete ==
    ASSUME NEW ledger \in [Users -> Rids \cup {NoRid}], NEW u \in Users,
           ledger[u] # NoRid,
           NEW after, after = [ledger EXCEPT ![u] = NoRid]
    PROVE  /\ after \in [Users -> Rids \cup {NoRid}]
           /\ Holders(after) = Holders(ledger) \ {u}
           /\ Cardinality(Holders(after)) = Cardinality(Holders(ledger)) - 1
<1>1. Holders(after) = Holders(ledger) \ {u}
    BY DEF Holders
<1>2. u \in Holders(ledger)
    BY DEF Holders
<1>3. Cardinality(Holders(ledger) \ {u}) = Cardinality(Holders(ledger)) - 1
    BY <1>2, HoldersFinite, FS_RemoveElement
<1>4. after \in [Users -> Rids \cup {NoRid}]
    OBVIOUS
<1> QED BY <1>1, <1>3, <1>4

\* The empty ledger.
LEMMA HoldersEmpty ==
    /\ Holders([u \in Users |-> NoRid]) = {}
    /\ Cardinality(Holders([u \in Users |-> NoRid])) = 0
<1>1. Holders([u \in Users |-> NoRid]) = {}
    BY DEF Holders
<1> QED BY <1>1, FS_EmptySet

\* HLEN of the reservations hash, now and after a step.
LEMMA ReservedIsHolders ==
    /\ Reserved = Holders(reservations) /\ Cardinality(Reserved) \in Nat
    /\ Reserved' = Holders(reservations') /\ Cardinality(Reserved') \in Nat
<1>1. Reserved = Holders(reservations) /\ Reserved' = Holders(reservations')
    BY DEF Reserved, Holders
<1> QED BY <1>1, HoldersFinite

-----------------------------------------------------------------------------
(* The inductive invariant *)

\* SaleStore starts with no sale key in Redis.
LEMMA InitIInv ==
    Init => IInv
<1> SUFFICES ASSUME Init PROVE IInv
    OBVIOUS
<1>1. Reserved = {} /\ Cardinality(Reserved) = 0
    BY HoldersEmpty, ReservedIsHolders DEF Init
<1>2. TypeOK
    <2>1. issued \in [Users -> SUBSET Rids] /\ reservations \in [Users -> Rids \cup {NoRid}]
        BY DEF Init
    <2>2. seeded \in BOOLEAN /\ buyers \subseteq Users
        BY DEF Init
    <2>3. stock \in Int /\ stock >= NoStock /\ now \in Nat /\ drift \in 0..MaxDrift
        BY BoundsAssumption DEF Init, NoStock
    <2> QED BY <2>1, <2>2, <2>3 DEF TypeOK, SaleTypeOK
<1>3. BuyersMatchLedger /\ UnitsAccounted /\ StockInRange /\ UnseededIsRestored
    BY <1>1 DEF Init, BuyersMatchLedger, UnitsAccounted, StockInRange, UnseededIsRestored
<1> QED BY <1>2, <1>3 DEF IInv

\* purchase.lua
LEMMA PurchaseIInv ==
    ASSUME IInv, NEW u \in Users, NEW r \in Rids, Purchase(u, r)
    PROVE  IInv'
<1> USE StockAssumption
<1>0. /\ TypeOK /\ BuyersMatchLedger /\ UnitsAccounted /\ StockInRange /\ UnseededIsRestored
      /\ PurchaseScript(u, r) /\ seeded' = seeded /\ drift' = drift /\ now' = now
    BY DEF IInv, Purchase, PurchaseScript
<1>1. CASE PurchaseOutcome(u) = "CONFIRMED"
    <2>1. /\ seeded /\ ~AlreadyPurchased(u) /\ StockValue > 0
          /\ stock' = StockValue - 1 /\ buyers' = buyers \cup {u}
          /\ reservations' = [reservations EXCEPT ![u] = r]
          /\ issued' = [issued EXCEPT ![u] = @ \cup {r}]
        BY <1>1, <1>0 DEF Purchase, PurchaseScript, PurchaseOutcome, TypeOK, SaleTypeOK, StockValue
    <2>2. stock > 0 /\ stock' = stock - 1 /\ reservations[u] = NoRid
        BY <2>1, <1>0 DEF AlreadyPurchased, StockValue, TypeOK, SaleTypeOK
    <2>3. /\ reservations' \in [Users -> Rids \cup {NoRid}]
          /\ Reserved' = Reserved \cup {u}
          /\ Cardinality(Reserved') = Cardinality(Reserved) + 1
        <3>1. reservations \in [Users -> Rids \cup {NoRid}]
            BY <1>0 DEF TypeOK, SaleTypeOK
        <3>2. /\ reservations' \in [Users -> Rids \cup {NoRid}]
              /\ reservations'[u] # NoRid
              /\ \A v \in Users : v # u => reservations'[v] = reservations[v]
            BY <2>1, <3>1, RidsAssumption
        <3>3. /\ Holders(reservations') = Holders(reservations) \cup {u}
              /\ Cardinality(Holders(reservations')) = Cardinality(Holders(reservations)) + 1
            BY <2>2, <3>2, HoldersAfterSet
        <3> QED BY <3>2, <3>3, ReservedIsHolders
    <2>4. TypeOK'
        BY <2>1, <2>2, <2>3, <1>0 DEF TypeOK, SaleTypeOK, NoStock
    <2>5. BuyersMatchLedger'
        BY <2>1, <2>3, <1>0 DEF BuyersMatchLedger
    <2>6. UnitsAccounted' /\ StockInRange' /\ UnseededIsRestored'
        BY <2>1, <2>2, <2>3, <1>0, ReservedIsHolders
        DEF UnitsAccounted, StockInRange, UnseededIsRestored, TypeOK, SaleTypeOK
    <2> QED BY <2>4, <2>5, <2>6 DEF IInv
<1>2. CASE PurchaseOutcome(u) # "CONFIRMED"
    <2>1. stock' = stock /\ reservations' = reservations /\ issued' = issued
        BY <1>2, <1>0 DEF Purchase, PurchaseScript
    <2>2. buyers' = buyers
        <3>1. CASE PurchaseOutcome(u) = "ALREADY_PURCHASED"
            <4>1. AlreadyPurchased(u)
                BY <3>1 DEF PurchaseOutcome
            <4>2. u \in buyers
                BY <4>1, <1>0 DEF AlreadyPurchased, BuyersMatchLedger, Reserved
            <4> QED BY <3>1, <4>2, <1>0 DEF PurchaseScript
        <3>2. CASE PurchaseOutcome(u) # "ALREADY_PURCHASED"
            BY <3>2, <1>2, <1>0 DEF PurchaseScript
        <3> QED BY <3>1, <3>2
    <2>3. Reserved' = Reserved
        BY <2>1 DEF Reserved
    <2> QED BY <2>1, <2>2, <2>3, <1>0
        DEF IInv, TypeOK, SaleTypeOK, BuyersMatchLedger, UnitsAccounted, StockInRange,
            UnseededIsRestored
<1> QED BY <1>1, <1>2

\* compensate.lua
LEMMA CompensateIInv ==
    ASSUME IInv, NEW u \in Users, NEW r \in Rids, Compensate(u, r)
    PROVE  IInv'
<1> USE StockAssumption
<1>0. /\ TypeOK /\ BuyersMatchLedger /\ UnitsAccounted /\ StockInRange /\ UnseededIsRestored
      /\ CompensateScript(u, r) /\ seeded' = seeded /\ drift' = drift /\ now' = now
      /\ issued' = issued
    BY DEF IInv, Compensate, CompensateScript
<1>1. CASE IdentityMatches(u, r)
    <2>1. /\ reservations[u] # NoRid
          /\ stock' = CompensatedStock(u) /\ buyers' = buyers \ {u}
          /\ reservations' = [reservations EXCEPT ![u] = NoRid]
        BY <1>1, <1>0, RidsAssumption DEF CompensateScript, IdentityMatches
    <2>2. u \in buyers
        BY <2>1, <1>0 DEF BuyersMatchLedger, Reserved
    <2>3. /\ reservations' \in [Users -> Rids \cup {NoRid}]
          /\ Reserved' = Reserved \ {u}
          /\ Cardinality(Reserved') = Cardinality(Reserved) - 1
        BY <2>1, <1>0, HoldersAfterDelete, ReservedIsHolders DEF TypeOK, SaleTypeOK
    <2>4. /\ stock' \in Int /\ stock' >= NoStock
          /\ seeded => stock' = IF stock >= TotalStock THEN stock ELSE stock + 1
        BY <2>1, <2>2, <1>0
        DEF CompensatedStock, StockValue, StockInRange, TypeOK, SaleTypeOK, NoStock
    <2>5. TypeOK'
        BY <2>1, <2>3, <2>4, <1>0 DEF TypeOK, SaleTypeOK
    <2>6. BuyersMatchLedger'
        BY <2>1, <2>3, <1>0 DEF BuyersMatchLedger
    <2>7. UnitsAccounted' /\ StockInRange' /\ UnseededIsRestored'
        BY <2>3, <2>4, <1>0, ReservedIsHolders
        DEF UnitsAccounted, StockInRange, UnseededIsRestored, TypeOK, SaleTypeOK
    <2> QED BY <2>5, <2>6, <2>7 DEF IInv
<1>2. CASE ~IdentityMatches(u, r)
    <2>1. UNCHANGED <<stock, reservations, buyers>>
        BY <1>2, <1>0 DEF CompensateScript
    <2>2. Reserved' = Reserved
        BY <2>1 DEF Reserved
    <2> QED BY <2>1, <2>2, <1>0
        DEF IInv, TypeOK, SaleTypeOK, BuyersMatchLedger, UnitsAccounted, StockInRange,
            UnseededIsRestored
<1> QED BY <1>1, <1>2

\* compare-restore-reservation.lua
LEMMA CompareAndRestoreIInv ==
    ASSUME IInv, NEW u \in Users, NEW r \in Rids, CompareAndRestore(u, r)
    PROVE  IInv'
<1> USE StockAssumption
<1>0. /\ TypeOK /\ BuyersMatchLedger /\ UnitsAccounted /\ StockInRange /\ UnseededIsRestored
      /\ CompareRestoreScript(u, r) /\ seeded' = seeded /\ stock' = stock
      /\ now' = now /\ issued' = issued /\ drift < MaxDrift
    BY DEF IInv, CompareAndRestore, CompareRestoreScript
<1>1. reservations \in [Users -> Rids \cup {NoRid}]
    BY <1>0 DEF TypeOK, SaleTypeOK
<1>2. CASE RestoreOutcome(u, r) = "RESTORED"
    <2>1. /\ reservations[u] = NoRid
          /\ reservations' = [reservations EXCEPT ![u] = r]
          /\ buyers' = buyers \cup {u}
          /\ drift' = drift + 1
        BY <1>2, <1>0 DEF CompareRestoreScript, CompareAndRestore, RestoreOutcome
    <2>2. /\ reservations' \in [Users -> Rids \cup {NoRid}]
          /\ reservations'[u] # NoRid
          /\ \A v \in Users : v # u => reservations'[v] = reservations[v]
        BY <2>1, <1>1, RidsAssumption
    <2>3. /\ Reserved' = Reserved \cup {u}
          /\ Cardinality(Reserved') = Cardinality(Reserved) + 1
        <3>1. reservations[u] = NoRid
            BY <2>1
        <3>2. /\ Holders(reservations') = Holders(reservations) \cup {u}
              /\ Cardinality(Holders(reservations')) = Cardinality(Holders(reservations)) + 1
            BY <3>1, <2>2, HoldersAfterSet
        <3> QED BY <3>2, ReservedIsHolders
    <2>4. drift \in 0..MaxDrift /\ drift' \in 0..MaxDrift
        BY <2>1, <1>0, BoundsAssumption DEF TypeOK
    <2>5. TypeOK'
        BY <2>1, <2>2, <2>4, <1>0 DEF TypeOK, SaleTypeOK
    <2>6. BuyersMatchLedger'
        BY <2>1, <2>3, <1>0 DEF BuyersMatchLedger
    <2>7. UnitsAccounted' /\ StockInRange' /\ UnseededIsRestored'
        BY <2>1, <2>3, <2>4, <1>0, ReservedIsHolders
        DEF UnitsAccounted, StockInRange, UnseededIsRestored, TypeOK, SaleTypeOK
    <2> QED BY <2>5, <2>6, <2>7 DEF IInv
<1>3. CASE RestoreOutcome(u, r) # "RESTORED"
    <2>1. reservations[u] # NoRid /\ drift' = drift
        BY <1>3, <1>0 DEF CompareAndRestore, RestoreOutcome
    <2>2. u \in buyers
        BY <2>1, <1>0 DEF BuyersMatchLedger, Reserved
    <2>3. buyers' = buyers /\ reservations' = reservations
        BY <1>3, <1>1, <1>0, <2>2 DEF CompareRestoreScript, RestoreOutcome
    <2>4. Reserved' = Reserved
        BY <2>3 DEF Reserved
    <2> QED BY <2>1, <2>3, <2>4, <1>0
        DEF IInv, TypeOK, SaleTypeOK, BuyersMatchLedger, UnitsAccounted, StockInRange,
            UnseededIsRestored
<1> QED BY <1>2, <1>3

\* reconcile-membership.lua: with the two keys in agreement there is nothing to
\* repair.
LEMMA ReconcileBuyerMembershipIInv ==
    ASSUME IInv, NEW u \in Users, ReconcileBuyerMembership(u)
    PROVE  IInv'
<1>1. buyers' = buyers /\ UNCHANGED <<seeded, stock, reservations, now, issued, drift>>
    BY DEF IInv, BuyersMatchLedger, ReconcileBuyerMembership, ReconcileMembershipScript
<1>2. Reserved' = Reserved
    BY <1>1 DEF Reserved
<1> QED BY <1>1, <1>2
    DEF IInv, TypeOK, SaleTypeOK, BuyersMatchLedger, UnitsAccounted, StockInRange,
        UnseededIsRestored

\* reconcile-state.lua: the counter is derived from HLEN, or left alone.
LEMMA ReconcileStockIInv ==
    ASSUME IInv, ReconcileStockFromReservations
    PROVE  IInv'
<1> USE StockAssumption
<1>0. /\ TypeOK /\ BuyersMatchLedger /\ UnitsAccounted /\ StockInRange /\ UnseededIsRestored
      /\ UNCHANGED <<seeded, buyers, reservations, now, issued>>
    BY DEF IInv, ReconcileStockFromReservations, ReconcileStateScript
<1>1. Reserved' = Reserved /\ Cardinality(Reserved) \in Nat
    BY <1>0, ReservedIsHolders DEF Reserved
<1>2. CASE ReconcileStateOutcome = "RECONCILED"
    <2>1. /\ seeded /\ Cardinality(Reserved) <= TotalStock
          /\ stock' = TotalStock - Cardinality(Reserved) /\ drift' = 0
        BY <1>2, <1>1 DEF ReconcileStockFromReservations, ReconcileStateScript,
                          ReconcileStateOutcome
    <2>2. TypeOK'
        BY <2>1, <1>0, <1>1, BoundsAssumption DEF TypeOK, SaleTypeOK, NoStock
    <2>3. BuyersMatchLedger' /\ UnitsAccounted' /\ StockInRange' /\ UnseededIsRestored'
        BY <2>1, <1>0, <1>1
        DEF BuyersMatchLedger, UnitsAccounted, StockInRange, UnseededIsRestored
    <2> QED BY <2>2, <2>3 DEF IInv
<1>3. CASE ReconcileStateOutcome # "RECONCILED"
    <2>1. stock' = stock /\ drift' = drift
        BY <1>3 DEF ReconcileStockFromReservations, ReconcileStateScript
    <2> QED BY <2>1, <1>0, <1>1
        DEF IInv, TypeOK, SaleTypeOK, BuyersMatchLedger, UnitsAccounted, StockInRange,
            UnseededIsRestored
<1> QED BY <1>2, <1>3

\* seed.lua: the first seed meets only restored reservations, a later one
\* writes nothing.
LEMMA SeedIInv ==
    ASSUME IInv, Seed
    PROVE  IInv'
<1> USE StockAssumption
<1>0. /\ TypeOK /\ BuyersMatchLedger /\ UnitsAccounted /\ StockInRange /\ UnseededIsRestored
      /\ SeedScript /\ seeded' = TRUE /\ UNCHANGED <<buyers, reservations, now, issued, drift>>
    BY DEF IInv, Seed, SeedScript
<1>1. Reserved' = Reserved /\ Cardinality(Reserved) \in Nat
    BY <1>0, ReservedIsHolders DEF Reserved
<1>2. drift \in Nat /\ stock \in Int
    BY <1>0, BoundsAssumption DEF TypeOK, SaleTypeOK
<1>3. CASE seeded
    <2>1. stock' = stock
        BY <1>3, <1>0 DEF SeedScript, SeedOutcome
    <2>2. seeded' = seeded
        BY <1>3, <1>0 DEF TypeOK, SaleTypeOK
    <2> QED BY <2>1, <2>2, <1>0, <1>1
        DEF IInv, TypeOK, SaleTypeOK, BuyersMatchLedger, UnitsAccounted, StockInRange,
            UnseededIsRestored
<1>4. CASE ~seeded
    <2>1. stock' = TotalStock
        BY <1>4, <1>0 DEF SeedScript, SeedOutcome
    <2>2. Cardinality(Reserved) <= drift
        BY <1>4, <1>0 DEF UnseededIsRestored
    <2>3. UnitsAccounted' /\ StockInRange' /\ UnseededIsRestored'
        BY <2>1, <2>2, <1>0, <1>1, <1>2 DEF UnitsAccounted, StockInRange, UnseededIsRestored
    <2>4. stock' \in Int /\ stock' >= NoStock
        BY <2>1 DEF NoStock
    <2>5. TypeOK' /\ BuyersMatchLedger'
        BY <2>4, <1>0, <1>1 DEF TypeOK, SaleTypeOK, BuyersMatchLedger
    <2> QED BY <2>3, <2>5 DEF IInv
<1> QED BY <1>3, <1>4

\* SaleRedisStore.reset
LEMMA ResetIInv ==
    ASSUME IInv, Reset
    PROVE  IInv'
<1>1. /\ seeded' = FALSE /\ stock' = NoStock /\ buyers' = {} /\ drift' = 0
      /\ reservations' = [u \in Users |-> NoRid] /\ UNCHANGED <<now, issued>>
    BY DEF Reset, ResetKeys
<1>2. Reserved' = {} /\ Cardinality(Reserved') = 0
    BY <1>1, HoldersEmpty, ReservedIsHolders
<1>3. reservations' \in [Users -> Rids \cup {NoRid}]
    BY <1>1
<1>4. stock' \in Int /\ stock' >= NoStock /\ drift' \in 0..MaxDrift
    BY <1>1, BoundsAssumption DEF NoStock
<1>5. TypeOK'
    BY <1>1, <1>3, <1>4 DEF IInv, TypeOK, SaleTypeOK
<1>6. BuyersMatchLedger' /\ UnitsAccounted' /\ StockInRange' /\ UnseededIsRestored'
    BY <1>1, <1>2 DEF BuyersMatchLedger, UnitsAccounted, StockInRange, UnseededIsRestored
<1> QED BY <1>5, <1>6 DEF IInv

\* Time passes, or nothing happens.
LEMMA TickIInv ==
    ASSUME IInv, Tick \/ UNCHANGED vars
    PROVE  IInv'
<1>1. /\ UNCHANGED <<seeded, stock, buyers, reservations, issued, drift>>
      /\ now' = now \/ now' = now + 1
    BY DEF Tick, vars
<1>2. Reserved' = Reserved
    BY <1>1 DEF Reserved
<1>3. now' \in Nat
    BY <1>1 DEF IInv, TypeOK, SaleTypeOK
<1> QED BY <1>1, <1>2, <1>3
    DEF IInv, TypeOK, SaleTypeOK, BuyersMatchLedger, UnitsAccounted, StockInRange,
        UnseededIsRestored

\* Every script of the store preserves the invariant.
LEMMA NextIInv ==
    IInv /\ [Next]_vars => IInv'
<1> SUFFICES ASSUME IInv, [Next]_vars PROVE IInv'
    OBVIOUS
<1>1. CASE \E u \in Users, r \in Rids :
              Purchase(u, r) \/ Compensate(u, r) \/ CompareAndRestore(u, r)
    BY <1>1, PurchaseIInv, CompensateIInv, CompareAndRestoreIInv
<1>2. CASE \E u \in Users : ReconcileBuyerMembership(u)
    BY <1>2, ReconcileBuyerMembershipIInv
<1>3. CASE ReconcileStockFromReservations
    BY <1>3, ReconcileStockIInv
<1>4. CASE Seed
    BY <1>4, SeedIInv
<1>5. CASE Reset
    BY <1>5, ResetIInv
<1>6. CASE Tick \/ UNCHANGED vars
    BY <1>6, TickIInv
<1> QED BY <1>1, <1>2, <1>3, <1>4, <1>5, <1>6 DEF Next

\* The inductive invariant holds in every reachable state.
LEMMA Invariance ==
    Spec => []IInv
<1>1. Init => IInv
    BY InitIInv
<1>2. IInv /\ [Next]_vars => IInv'
    BY NextIInv
<1> QED BY <1>1, <1>2, PTL DEF Spec

-----------------------------------------------------------------------------
(* Theorems *)

\* Whatever the scripts are called with, the sale keys keep their types.
THEOREM TypeCorrect ==
    Spec => []TypeOK
<1>1. IInv => TypeOK
    BY DEF IInv
<1> QED BY <1>1, Invariance, PTL

\* The buyers set and the reservations hash name the same users, always: the
\* scripts write both keys or neither.
THEOREM BuyersAlwaysMatchLedger ==
    Spec => []BuyersMatchLedger
<1>1. IInv => BuyersMatchLedger
    BY DEF IInv
<1> QED BY <1>1, Invariance, PTL

\* I1 at the store: no unit is lost, and none is created except by restores,
\* which are undone by the next stock reconciliation.
THEOREM UnitsAlwaysAccounted ==
    Spec => []UnitsAccounted
<1>1. IInv => UnitsAccounted
    BY DEF IInv
<1> QED BY <1>1, Invariance, PTL

\* The counter of a seeded sale stays within 0..totalStock.
THEOREM StockAlwaysInRange ==
    Spec => []StockInRange
<1>1. IInv => StockInRange
    BY DEF IInv
<1> QED BY <1>1, Invariance, PTL

\* I2 and I3 at the store: a confirmation happens inside the window, to a user
\* who has no unit, and takes exactly one unit from the counter.
THEOREM ConfirmationsAreGuarded ==
    Spec => ConfirmedOnlyInWindow
<1>1. IInv /\ [Next]_vars =>
         [\A u \in Users :
             issued'[u] # issued[u] =>
                /\ StartsAt <= now /\ now < EndsAt
                /\ u \notin buyers
                /\ stock > 0 /\ stock' = stock - 1]_vars
    <2> SUFFICES ASSUME IInv, Next, NEW u \in Users, issued'[u] # issued[u]
                 PROVE  /\ StartsAt <= now /\ now < EndsAt
                        /\ u \notin buyers
                        /\ stock > 0 /\ stock' = stock - 1
        OBVIOUS
    <2>1. PICK v \in Users, r \in Rids : Purchase(v, r)
        BY DEF Next, Compensate, CompareAndRestore, ReconcileBuyerMembership,
               ReconcileStockFromReservations, Seed, Reset, Tick
    <2>2. PurchaseOutcome(v) = "CONFIRMED" /\ issued' = [issued EXCEPT ![v] = @ \cup {r}]
        BY <2>1 DEF Purchase
    <2>3. u = v
        BY <2>2 DEF IInv, TypeOK
    <2>4. /\ ~(now < StartsAt) /\ ~(now >= EndsAt)
          /\ ~AlreadyPurchased(v) /\ ~(StockValue <= 0)
          /\ stock' = StockValue - 1
        BY <2>1, <2>2 DEF Purchase, PurchaseScript, PurchaseOutcome
    <2> QED BY <2>3, <2>4, WindowAssumption
        DEF IInv, TypeOK, SaleTypeOK, AlreadyPurchased, StockValue
<1> QED BY <1>1, Invariance, PTL DEF Spec, ConfirmedOnlyInWindow
=============================================================================
