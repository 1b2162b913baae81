-------------------------- MODULE WebClientProofs --------------------------
(***************************************************************************)
(* Proofs about the shopper's page over the HTTP edge and the sale store,  *)
(* for any users, stock, window, limits and number of gestures.            *)
(*                                                                         *)
(* The page takes steps of the store or none (PageKeepsStore), so the      *)
(* store's invariant (SaleStoreProofs) carries over; HoldersWereIssued is  *)
(* added to it, since the buyers set is what a lookup answers from.        *)
(* The page's properties need what is still on its way:                    *)
(*  - SubmitInv: a purchase in flight is for the id in the field, because  *)
(*    the input is disabled meanwhile, and feedback only follows a         *)
(*    submission of a valid id;                                            *)
(*  - ConfirmedInv and LookInv: an answer that is on its way and says      *)
(*    "confirmed" or "found" is about a user who was issued a reservation, *)
(*    which stays true however late it lands since issued only grows;      *)
(*  - StaleInv: after a confirmation a poll that was read before it has a  *)
(*    refresh queued behind it.                                            *)
(***************************************************************************)
EXTENDS WebClient, SaleStoreProofs

\* The envelopes that POST /api/purchase, GET /api/sale/status and
\* GET /api/purchase/:userId answer.
PurchaseReply == [kind : {"purchase"}, status : Outcomes, stock : NoStock..TotalStock]

SaleReply == {ApiError} \cup [kind : {"sale"}, stock : 0..TotalStock]

StatusReply ==
    {ApiError} \cup
    [kind : {"status"}, purchased : BOOLEAN,
     order : {"none", "reserved", "persisted", "compensated"}]

\* The calls of the page, at every stage.
Purchases ==
    {NoBuy} \cup [at : {"sent", "admitted"}, user : Users]
            \cup [at : {"answered"}, user : Users, reply : PurchaseReply]

Lookups ==
    {NoLookup} \cup [at : {"sent"}, user : Users]
               \cup [at : {"read"}, user : Users, reply : StatusReply]

\* What the lookup panel shows, and the lookups behind it.
Results ==
    {NoResult} \cup
    [user : Users, copy : {"unavailable", "found", "released", "not found"}]

Looks == [own : Lookups, old : SUBSET (Lookups \ {NoLookup}), result : Results]

\* The flight and the whole state of useSaleStatus.
Flights ==
    {NoFlight} \cup [at : {"sent"}]
               \cup [at : {"read"}, reply : SaleReply, fresh : BOOLEAN]

Polls ==
    [flight : Flights, queued : BOOLEAN, timer : {"off", "now", "later"},
     shown : [stock : NoStock..TotalStock, fresh : BOOLEAN], unavailable : BOOLEAN]

Forms ==
    [field : Users \cup {NoUser}, attempted : Users \cup {NoUser}, interaction : Interactions]

\* Types of the page, with the shape of everything in flight.
PageTypes ==
    /\ open \in BOOLEAN /\ visible \in BOOLEAN /\ rateWait \in BOOLEAN /\ orphan \in BOOLEAN
    /\ form \in Forms
    /\ buy \in Purchases
    /\ look \in Looks
    /\ poll \in Polls
    /\ ops \in {"off", "running", "timer"}
    /\ bucket \in [Users -> 0..UserMax + 1]
    /\ gestures \in 0..MaxGestures

\* Whoever holds a reservation was issued one: restores only put back what a
\* purchase once confirmed.
HoldersWereIssued == \A u \in Users : reservations[u] # NoRid => issued[u] # {}

\* The invariant of the store under the page.
StoreInv == IInv /\ HoldersWereIssued

\* A purchase in flight, and any feedback, belong to the id in the field.
SubmitInv ==
    /\ (buy.at # "none") = (form.interaction = "submitting")
    /\ ~open => form.interaction # "submitting"
    /\ form.interaction \in {"submitting", "confirmed", "refused", "rate_limited", "unknown"} =>
          form.field \in Users /\ form.attempted = form.field
    /\ buy.at # "none" => buy.user = form.field

\* A confirmation, on its way or on the screen, is of an issued reservation.
ConfirmedInv ==
    /\ buy.at = "answered" /\ buy.reply.status = "CONFIRMED" => issued[buy.user] # {}
    /\ form.interaction = "confirmed" => issued[form.field] # {}

\* A lookup in flight, or its result, belongs to the id in the field.
LookInv ==
    /\ look.own # NoLookup => look.own.user = form.field /\ look.result = NoResult
    /\ look.own.at = "read" /\ CopyOf(look.own.reply) = "found" => issued[look.own.user] # {}
    /\ look.result # NoResult =>
          /\ look.result.user = form.field
          /\ look.result.copy = "found" => issued[look.result.user] # {}

\* OldSnapshotIsReplaced, and what it needs of a flight that is about to land.
StaleInv ==
    /\ OldSnapshotIsReplaced
    /\ form.interaction = "confirmed" /\ poll.flight.at = "read" /\ ~poll.flight.fresh =>
          poll.queued

\* The inductive invariant.
WebInv ==
    /\ StoreInv /\ PageTypes /\ SubmitInv /\ ConfirmedInv /\ LookInv
    /\ PollingFollowsPage /\ StaleInv

\* No reservation id is ever taken back from the issued ones.
Grows == \A u \in Users : issued[u] \subseteq issued'[u]

\* Its part about the page.
PageInv ==
    /\ PageTypes /\ SubmitInv /\ ConfirmedInv /\ LookInv /\ PollingFollowsPage /\ StaleInv

-----------------------------------------------------------------------------
(* Requests in flight *)

\* A flight of the poll is none, sent, or read with a reply.
LEMMA FlightKinds ==
    ASSUME NEW f \in Flights
    PROVE  /\ f.at \in {"none", "sent", "read"}
           /\ f = NoFlight <=> f.at = "none"
           /\ f.at = "read" => f \in [at : {"read"}, reply : SaleReply, fresh : BOOLEAN]
BY DEF Flights, NoFlight

\* A lookup is none, sent, or read with a reply, and names a user.
LEMMA LookupKinds ==
    ASSUME NEW l \in Lookups
    PROVE  /\ l.at \in {"none", "sent", "read"}
           /\ l = NoLookup <=> l.at = "none"
           /\ l # NoLookup => l.user \in Users
           /\ l.at = "read" => l.reply \in StatusReply
BY DEF Lookups, NoLookup

\* A purchase call is none, on its way, admitted, or answered, and names a user.
LEMMA PurchaseKinds ==
    ASSUME NEW b \in Purchases
    PROVE  /\ b.at \in {"none", "sent", "admitted", "answered"}
           /\ b = NoBuy <=> b.at = "none"
           /\ b.at # "none" => b.user \in Users
           /\ b.at \in {"sent", "admitted"} => b \in [at : {"sent", "admitted"}, user : Users]
           /\ b.at = "answered" => b.reply \in PurchaseReply
BY DEF Purchases, NoBuy

\* A lookup result names a user.
LEMMA ResultKinds ==
    ASSUME NEW r \in Results, r # NoResult
    PROVE  r.user \in Users
BY DEF Results, NoResult

\* The calls with which everything starts.
LEMMA StartStates ==
    /\ NoFlight \in Flights /\ [at |-> "sent"] \in Flights
    /\ NoBuy \in Purchases /\ NoLookup \in Lookups /\ NoResult \in Results
    /\ NoFlight.at = "none" /\ NoBuy.at = "none" /\ NoLookup.at = "none"
    /\ [at |-> "sent"].at = "sent"
BY DEF Flights, NoFlight, Purchases, NoBuy, Lookups, NoLookup, Results, NoResult

-----------------------------------------------------------------------------
(* What the functions of useSaleStatus do to its state *)

\* poll(): starts a flight, or queues one behind the flight or the hidden page.
LEMMA PolledPoll ==
    ASSUME NEW p \in Polls, NEW seen \in BOOLEAN
    PROVE  /\ Polled(p, seen) \in Polls
           /\ Polled(p, seen).shown = p.shown /\ Polled(p, seen).timer = p.timer
           /\ Polled(p, seen).unavailable = p.unavailable
           /\ ~seen \/ p.flight # NoFlight =>
                 Polled(p, seen).flight = p.flight /\ Polled(p, seen).queued
           /\ seen /\ p.flight = NoFlight => Polled(p, seen).flight.at = "sent"
<1>1. PICK f : f = [at |-> "sent"]
    OBVIOUS
<1>2. f \in Flights /\ f.at = "sent"
    BY <1>1, StartStates
<1>3. Polled(p, seen) = IF ~seen \/ p.flight # NoFlight
                        THEN [p EXCEPT !.queued = TRUE]
                        ELSE [p EXCEPT !.flight = f, !.queued = FALSE]
    BY <1>1 DEF Polled
<1> HIDE <1>1
<1>4. CASE ~seen \/ p.flight # NoFlight
    <2>1. Polled(p, seen) = [p EXCEPT !.queued = TRUE]
        BY <1>3, <1>4
    <2> QED BY <1>4, <2>1 DEF Polls
<1>5. CASE seen /\ p.flight = NoFlight
    <2>1. Polled(p, seen) = [p EXCEPT !.flight = f, !.queued = FALSE]
        BY <1>3, <1>5
    <2>2. /\ Polled(p, seen) \in Polls /\ Polled(p, seen).flight = f
          /\ Polled(p, seen).shown = p.shown /\ Polled(p, seen).timer = p.timer
          /\ Polled(p, seen).unavailable = p.unavailable
        BY <1>2, <2>1 DEF Polls
    <2> QED BY <1>2, <1>5, <2>2
<1> QED BY <1>4, <1>5

\* refresh(): like poll(), with the timer cleared.
LEMMA RefreshedPoll ==
    ASSUME NEW p \in Polls, NEW seen \in BOOLEAN
    PROVE  /\ Refreshed(p, seen) \in Polls
           /\ Refreshed(p, seen).shown = p.shown /\ Refreshed(p, seen).timer = "off"
           /\ Refreshed(p, seen).unavailable = p.unavailable
           /\ ~seen \/ p.flight # NoFlight =>
                 Refreshed(p, seen).flight = p.flight /\ Refreshed(p, seen).queued
           /\ seen /\ p.flight = NoFlight => Refreshed(p, seen).flight.at = "sent"
<1>1. PICK q : q = [p EXCEPT !.queued = TRUE, !.timer = "off"]
    OBVIOUS
<1>2. /\ q \in Polls /\ q.shown = p.shown /\ q.timer = "off" /\ q.unavailable = p.unavailable
      /\ q.flight = p.flight
    BY <1>1 DEF Polls
<1>3. Refreshed(p, seen) = Polled(q, seen)
    BY <1>1 DEF Refreshed
<1> HIDE <1>1
<1> QED BY <1>2, <1>3, PolledPoll

\* applySnapshot changes what is shown and nothing else.
LEMMA SnapshotAppliedPoll ==
    ASSUME NEW p \in Polls, NEW n \in NoStock..TotalStock
    PROVE  /\ SnapshotApplied(p, n) \in Polls
           /\ SnapshotApplied(p, n).flight = p.flight
           /\ SnapshotApplied(p, n).timer = p.timer
           /\ SnapshotApplied(p, n).unavailable = p.unavailable
           /\ SnapshotApplied(p, n).queued = p.queued
<1>1. PICK s : s = [stock |-> n, fresh |-> TRUE]
    OBVIOUS
<1>2. s \in [stock : NoStock..TotalStock, fresh : BOOLEAN]
    BY <1>1
<1>3. SnapshotApplied(p, n) = IF n = NoStock \/ p.shown.stock = NoStock THEN p
                              ELSE [p EXCEPT !.shown = s]
    BY <1>1 DEF SnapshotApplied
<1> HIDE <1>1
<1> QED BY <1>2, <1>3 DEF Polls

\* The finally block: no flight, and a timer, due at once when one is queued.
LEMMA LandedPoll ==
    ASSUME NEW p \in Polls
    PROVE  /\ Landed(p) \in Polls
           /\ Landed(p).flight = NoFlight
           /\ Landed(p).timer = IF p.queued THEN "now" ELSE "later"
           /\ Landed(p).shown = p.shown
           /\ Landed(p).unavailable = p.unavailable
           /\ Landed(p).queued = p.queued
<1>1. PICK f : f = NoFlight
    OBVIOUS
<1>2. f \in Flights
    BY <1>1, StartStates
<1>3. PICK t : t = IF p.queued THEN "now" ELSE "later"
    OBVIOUS
<1>4. t \in {"off", "now", "later"}
    BY <1>3
<1>5. Landed(p) = [p EXCEPT !.flight = f, !.timer = t]
    BY <1>1, <1>3 DEF Landed
<1>6. /\ Landed(p) \in Polls /\ Landed(p).flight = f /\ Landed(p).timer = t
      /\ Landed(p).shown = p.shown /\ Landed(p).unavailable = p.unavailable
      /\ Landed(p).queued = p.queued
    BY <1>2, <1>4, <1>5 DEF Polls
<1> QED BY <1>1, <1>3, <1>6

\* The observer ages what was read and changes no control state.
LEMMA AgedPoll ==
    ASSUME NEW p \in Polls
    PROVE  /\ Aged(p) \in Polls
           /\ Aged(p).flight = NoFlight <=> p.flight = NoFlight
           /\ Aged(p).timer = p.timer
<1>1. PICK s : s = [p.shown EXCEPT !.fresh = FALSE]
    OBVIOUS
<1>2. s \in [stock : NoStock..TotalStock, fresh : BOOLEAN]
    BY <1>1 DEF Polls
<1>3. PICK f : f = IF p.flight.at = "read" THEN [p.flight EXCEPT !.fresh = FALSE] ELSE p.flight
    OBVIOUS
<1>4. p.flight \in Flights
    BY DEF Polls
<1>5. ASSUME p.flight.at = "read"
      PROVE  f \in [at : {"read"}, reply : SaleReply, fresh : BOOLEAN]
    <2>1. p.flight \in [at : {"read"}, reply : SaleReply, fresh : BOOLEAN]
        BY <1>4, <1>5, FlightKinds
    <2> QED BY <1>3, <1>5, <2>1
<1>6. f \in Flights /\ (f = NoFlight <=> p.flight = NoFlight)
    BY <1>3, <1>4, <1>5, FlightKinds DEF Flights
<1>7. Aged(p) = [p EXCEPT !.shown = s, !.flight = f]
    BY <1>1, <1>3 DEF Aged
<1> HIDE <1>1, <1>3
<1> QED BY <1>2, <1>6, <1>7 DEF Polls

-----------------------------------------------------------------------------
(* The store under the page *)

\* No step of the store takes an issued reservation id back.
LEMMA IssuedGrows ==
    ASSUME IInv, [Next]_vars
    PROVE  Grows
<1>1. issued \in [Users -> SUBSET Rids]
    BY DEF IInv, TypeOK
<1>2. ASSUME NEW u \in Users, NEW r \in Rids, Purchase(u, r)
      PROVE  Grows
    BY <1>1, <1>2 DEF Purchase, Grows
<1>3. CASE issued' = issued
    BY <1>3 DEF Grows
<1> QED BY <1>2, <1>3
    DEF Next, vars, Compensate, CompareAndRestore, ReconcileBuyerMembership,
        ReconcileStockFromReservations, Seed, Reset, Tick

\* Every step of the store keeps HoldersWereIssued: a purchase issues the id it
\* records, and a restore only records issued ones.
LEMMA HoldersStep ==
    ASSUME StoreInv, [Next]_vars, Grows
    PROVE  HoldersWereIssued'
<1> USE DEF StoreInv
<1>1. /\ issued \in [Users -> SUBSET Rids] /\ reservations \in [Users -> Rids \cup {NoRid}]
      /\ HoldersWereIssued
    BY DEF IInv, TypeOK, SaleTypeOK
<1>2. ASSUME NEW u \in Users, NEW r \in Rids, Purchase(u, r)
      PROVE  HoldersWereIssued'
    <2>1. CASE PurchaseOutcome(u) = "CONFIRMED"
        <3>1. reservations' = [reservations EXCEPT ![u] = r]
            BY <1>2, <2>1 DEF Purchase, PurchaseScript
        <3>2. issued' = [issued EXCEPT ![u] = @ \cup {r}]
            BY <1>2, <2>1 DEF Purchase
        <3> QED BY <1>1, <3>1, <3>2 DEF HoldersWereIssued
    <2>2. CASE PurchaseOutcome(u) # "CONFIRMED"
        BY <1>1, <1>2, <2>2 DEF Purchase, PurchaseScript, HoldersWereIssued
    <2> QED BY <2>1, <2>2
<1>3. ASSUME NEW u \in Users, NEW r \in Rids, Compensate(u, r)
      PROVE  HoldersWereIssued'
    BY <1>1, <1>3 DEF Compensate, CompensateScript, HoldersWereIssued
<1>4. ASSUME NEW u \in Users, NEW r \in Rids, CompareAndRestore(u, r)
      PROVE  HoldersWereIssued'
    BY <1>1, <1>4 DEF CompareAndRestore, CompareRestoreScript, HoldersWereIssued
<1>5. CASE Reset
    BY <1>5 DEF Reset, ResetKeys, HoldersWereIssued
<1>6. CASE reservations' = reservations /\ issued' = issued
    BY <1>1, <1>6 DEF HoldersWereIssued
<1> QED BY <1>2, <1>3, <1>4, <1>5, <1>6
    DEF Next, vars, ReconcileBuyerMembership, ReconcileMembershipScript,
        ReconcileStockFromReservations, ReconcileStateScript, Seed, SeedScript, Tick

\* The invariant of the store is kept by its steps.
LEMMA StoreStep ==
    ASSUME StoreInv, [Next]_vars
    PROVE  StoreInv' /\ Grows
<1>1. IInv'
    BY NextIInv DEF StoreInv
<1>2. Grows
    BY IssuedGrows DEF StoreInv
<1> QED BY <1>1, <1>2, HoldersStep DEF StoreInv

\* A served purchase is a purchase of the store, or leaves it alone.
LEMMA ServeIsStep ==
    ASSUME NEW u \in Users, NEW r \in Rids, NEW reply, ServePurchase(u, r, reply)
    PROVE  [Next]_vars
BY DEF ServePurchase, GuardRefuses, Next, vars

\* A step of the page is a step of the store, or leaves it alone.
LEMMA WebIsStoreStep ==
    ASSUME PageTypes, [WebNext]_webVars
    PROVE  [Next]_vars
<1>1. ASSUME NEW r \in Rids, BuyServed(r)
      PROVE  [Next]_vars
    <2>1. buy.user \in Users
        BY <1>1, PurchaseKinds DEF PageTypes, BuyServed
    <2> QED BY <1>1, <2>1, ServeIsStep DEF BuyServed
<1> QED BY <1>1
    DEF WebNext, webVars, vars, ChangeUserId, Submit, BuyAdmission, BuyAnswered, BuyFails,
        RateWaitEnds, Check, CheckServed, CheckSettles, PollTimer, PollServed, PollAnswered,
        PollFails, OpsTimer, OpsSettles, OrphanSettles, Hide, Show, Retry, Unmount, Others

-----------------------------------------------------------------------------
(* What a step that leaves a part of the page alone keeps *)

\* SubmitInv depends on the form, the purchase and the mount.
LEMMA SubmitFrame ==
    ASSUME SubmitInv, UNCHANGED <<buy, form, open>>
    PROVE  SubmitInv'
BY DEF SubmitInv

\* ConfirmedInv survives whatever the store does.
LEMMA ConfirmedFrame ==
    ASSUME PageTypes, SubmitInv, ConfirmedInv, UNCHANGED <<buy, form>>, Grows
    PROVE  ConfirmedInv'
<1>1. buy.at = "answered" => buy.user \in Users
    BY PurchaseKinds DEF PageTypes
<1>2. form.interaction = "confirmed" => form.field \in Users
    BY DEF SubmitInv
<1> QED BY <1>1, <1>2 DEF ConfirmedInv, Grows

\* LookInv survives whatever the store does, and changes of the feedback.
LEMMA LookFrame ==
    ASSUME PageTypes, LookInv, look' = look, form'.field = form.field, Grows
    PROVE  LookInv'
<1>1. look.own.at = "read" => look.own.user \in Users
    BY LookupKinds DEF PageTypes, Looks
<1>2. look.result # NoResult => look.result.user \in Users
    BY ResultKinds DEF PageTypes, Looks
<1>3. CopyOf(look.own.reply)' = CopyOf(look.own.reply)
    BY DEF CopyOf
<1> QED BY <1>1, <1>2, <1>3 DEF LookInv, Grows

\* PollingFollowsPage depends on the two hooks, the mount and the visibility.
LEMMA PollFrame ==
    ASSUME PollingFollowsPage, UNCHANGED <<poll, ops, open, visible>>
    PROVE  PollingFollowsPage'
BY DEF PollingFollowsPage

\* StaleInv depends on the poll, the visibility and a confirmation.
LEMMA StaleFrame ==
    ASSUME StaleInv, UNCHANGED <<poll, visible>>,
           form'.interaction = "confirmed" => form.interaction = "confirmed"
    PROVE  StaleInv'
BY DEF StaleInv, OldSnapshotIsReplaced

\* The counter of a seeded sale is within its range.
LEMMA StockValueRange ==
    ASSUME IInv, seeded
    PROVE  StockValue \in 0..TotalStock
BY StockAssumption DEF IInv, StockInRange, StockValue

\* Every answer of POST /api/purchase is a purchase envelope.
LEMMA RepliesOfPurchase ==
    ASSUME IInv, NEW u \in Users, NEW reply \in PurchaseReplies(u)
    PROVE  reply \in PurchaseReply
<1>1. NoStock \in NoStock..TotalStock /\ 0..TotalStock \subseteq NoStock..TotalStock
    BY StockAssumption DEF NoStock
<1>2. PurchaseOutcome(u) \in Outcomes
    BY DEF PurchaseOutcome, Outcomes
<1>3. Remaining(u) \in NoStock..TotalStock
    <2>1. CASE ~seeded
        BY <2>1, <1>1 DEF Remaining, PurchaseOutcome
    <2>2. CASE seeded
        <3>1. StockValue \in 0..TotalStock
            BY <2>2, StockValueRange
        <3>2. PurchaseOutcome(u) # "NOT_INITIALIZED"
            BY <2>2 DEF PurchaseOutcome
        <3>3. PurchaseOutcome(u) = "CONFIRMED" => StockValue > 0
            BY <3>1, StockAssumption DEF PurchaseOutcome
        <3>4. Remaining(u) = IF PurchaseOutcome(u) = "CONFIRMED" THEN StockValue - 1 ELSE StockValue
            BY <3>2 DEF Remaining
        <3> QED BY <3>1, <3>3, <3>4, StockAssumption DEF NoStock
    <2> QED BY <2>1, <2>2 DEF IInv, TypeOK, SaleTypeOK
<1>4. ASSUME NEW o \in Outcomes, NEW n \in NoStock..TotalStock
      PROVE  PurchaseEnvelope(o, n) \in PurchaseReply
    BY DEF PurchaseEnvelope, PurchaseReply
<1>5. GuardReply \in PurchaseReply
    BY <1>1, <1>4 DEF GuardReply, GuardOutcome, Outcomes
<1>6. UnavailableReply \in PurchaseReply
    BY <1>1, <1>4 DEF UnavailableReply, Outcomes
<1>7. ScriptReply(u) \in PurchaseReply
    BY <1>2, <1>3, <1>4 DEF ScriptReply
<1> QED BY <1>5, <1>6, <1>7 DEF PurchaseReplies

-----------------------------------------------------------------------------
(* The form *)

\* An edit cannot meet a purchase in flight; it drops the lookup and its result,
\* and any feedback about the id before it.
LEMMA ChangeUserIdInv ==
    ASSUME WebInv, Grows, NEW u \in Users \cup {NoUser}, ChangeUserId(u)
    PROVE  PageInv'
<1>0. /\ PageTypes /\ SubmitInv /\ ConfirmedInv /\ PollingFollowsPage /\ StaleInv
      /\ u # form.field /\ form.interaction # "submitting" /\ open
      /\ UNCHANGED <<open, visible, buy, rateWait, poll, ops, orphan, bucket>>
      /\ look' = Superseded(look)
    BY DEF WebInv, ChangeUserId
<1>1. PICK i : i = IF form.attempted \notin {NoUser, u} THEN "idle" ELSE form.interaction
    OBVIOUS
<1>2. i \in Interactions
    BY <1>0, <1>1 DEF PageTypes, Forms, Interactions
<1>3. form' = [form EXCEPT !.field = u, !.interaction = i]
    BY <1>1 DEF ChangeUserId, ChangedForm
<1>4. /\ form' \in Forms /\ form'.field = u /\ form'.attempted = form.attempted
      /\ form'.interaction = i
    BY <1>0, <1>2, <1>3 DEF PageTypes, Forms
<1>5. i \notin {"submitting", "confirmed", "refused", "rate_limited", "unknown"}
    BY <1>0, <1>1, NoUserAssumption DEF SubmitInv
<1>6. look' \in Looks /\ look'.own = NoLookup /\ look'.result = NoResult
    <2>1. look \in Looks
        BY <1>0 DEF PageTypes
    <2>2. PICK o : o = IF look.own = NoLookup THEN look.old ELSE look.old \cup {look.own}
        OBVIOUS
    <2>3. o \in SUBSET (Lookups \ {NoLookup})
        BY <2>1, <2>2 DEF Looks
    <2>4. look' = [own |-> NoLookup, result |-> NoResult, old |-> o]
        BY <1>0, <2>2 DEF Superseded
    <2> QED BY <2>3, <2>4, StartStates DEF Looks
<1>7. gestures' \in 0..MaxGestures
    BY <1>0, GesturesAssumption DEF ChangeUserId, Gesture, PageTypes
<1>8. PageTypes'
    BY <1>0, <1>4, <1>6, <1>7 DEF PageTypes
<1>9. buy.at = "none"
    BY <1>0 DEF SubmitInv
<1>10. SubmitInv'
    BY <1>0, <1>4, <1>5, <1>9 DEF SubmitInv
<1>11. ConfirmedInv'
    BY <1>0, <1>4, <1>5, <1>9 DEF ConfirmedInv
<1>12. LookInv'
    BY <1>6, StartStates DEF LookInv
<1>13. PollingFollowsPage' /\ StaleInv'
    BY <1>0, <1>4, <1>5, PollFrame, StaleFrame
<1> QED BY <1>8, <1>10, <1>11, <1>12, <1>13 DEF PageInv

\* A submission ties the purchase in flight to the field.
LEMMA SubmitPageInv ==
    ASSUME WebInv, Grows, Submit
    PROVE  PageInv'
<1>0. /\ PageTypes /\ SubmitInv /\ ConfirmedInv /\ LookInv /\ PollingFollowsPage /\ StaleInv
      /\ form.interaction # "submitting" /\ open
      /\ UNCHANGED <<open, visible, rateWait, look, poll, ops, orphan, bucket>>
      /\ gestures' \in 0..MaxGestures
    BY GesturesAssumption DEF WebInv, PageTypes, Submit, ButtonEnabled, Gesture
<1>1. form \in Forms /\ buy \in Purchases
    BY <1>0 DEF PageTypes
<1>2. CASE form.field = NoUser
    <2>1. form' = [form EXCEPT !.interaction = "invalid"] /\ buy' = buy
        BY <1>2 DEF Submit
    <2>2. /\ form' \in Forms /\ form'.interaction = "invalid" /\ form'.field = form.field
        BY <1>1, <2>1 DEF Forms, Interactions
    <2>3. buy.at = "none"
        BY <1>0 DEF SubmitInv
    <2>4. PageTypes'
        BY <1>0, <1>1, <2>1, <2>2 DEF PageTypes
    <2>5. SubmitInv' /\ ConfirmedInv'
        BY <1>0, <2>1, <2>2, <2>3 DEF SubmitInv, ConfirmedInv
    <2>6. LookInv' /\ PollingFollowsPage' /\ StaleInv'
        BY <1>0, <2>2, LookFrame, PollFrame, StaleFrame
    <2> QED BY <2>4, <2>5, <2>6 DEF PageInv
<1>3. CASE form.field # NoUser
    <2>1. /\ form' = [form EXCEPT !.attempted = form.field, !.interaction = "submitting"]
          /\ buy' = [at |-> "sent", user |-> form.field]
        BY <1>3 DEF Submit
    <2>2. /\ form' \in Forms /\ form'.interaction = "submitting" /\ form'.field = form.field
          /\ form'.attempted = form.field /\ form.field \in Users
        BY <1>1, <1>3, <2>1 DEF Forms, Interactions
    <2>3. buy' \in Purchases /\ buy'.at = "sent" /\ buy'.user = form.field
        BY <2>1, <2>2 DEF Purchases
    <2>4. PageTypes'
        BY <1>0, <2>2, <2>3 DEF PageTypes
    <2>5. SubmitInv' /\ ConfirmedInv'
        BY <1>0, <2>2, <2>3 DEF SubmitInv, ConfirmedInv
    <2>6. LookInv' /\ PollingFollowsPage' /\ StaleInv'
        BY <1>0, <2>2, LookFrame, PollFrame, StaleFrame
    <2> QED BY <2>4, <2>5, <2>6 DEF PageInv
<1> QED BY <1>2, <1>3

\* The limiter's script keeps a counter in its range.
LEMMA ScriptCounts ==
    ASSUME bucket \in [Users -> 0..UserMax + 1], NEW u \in Users, RateLimitUserScript(u)
    PROVE  bucket' \in [Users -> 0..UserMax + 1]
<1>1. PICK n : n = IF bucket[u] > UserMax THEN bucket[u] ELSE bucket[u] + 1
    OBVIOUS
<1>2. n \in 0..UserMax + 1
    BY <1>1, UserMaxAssumption
<1>3. bucket' = [bucket EXCEPT ![u] = n]
    BY <1>1 DEF RateLimitUserScript
<1> HIDE <1>1
<1> QED BY <1>2, <1>3

\* Steps of the purchase that do not end it.
LEMMA BuyAdvances ==
    ASSUME WebInv, Grows, buy.at # "none",
           buy' \in Purchases, buy'.at # "none", buy'.user = buy.user,
           buy'.at = "answered" /\ buy'.reply.status = "CONFIRMED" => issued'[buy.user] # {},
           poll' \in Polls, poll'.flight = NoFlight <=> poll.flight = NoFlight,
           poll'.timer = poll.timer,
           bucket' \in [Users -> 0..UserMax + 1],
           UNCHANGED <<open, visible, form, rateWait, look, ops, orphan, gestures>>
    PROVE  PageInv'
<1>0. PageTypes /\ SubmitInv /\ ConfirmedInv /\ LookInv /\ PollingFollowsPage /\ StaleInv
    BY DEF WebInv
<1>1. PageTypes'
    BY <1>0 DEF PageTypes
<1>2. SubmitInv' /\ form'.interaction = "submitting"
    BY <1>0 DEF SubmitInv
<1>3. ConfirmedInv'
    BY <1>2 DEF ConfirmedInv
<1>4. LookInv'
    BY <1>0, LookFrame
<1>5. PollingFollowsPage'
    BY <1>0 DEF PollingFollowsPage
<1>6. StaleInv'
    BY <1>2 DEF StaleInv, OldSnapshotIsReplaced
<1> QED BY <1>1, <1>2, <1>3, <1>4, <1>5, <1>6 DEF PageInv

\* The limiters answer "rate limited", never "confirmed".
LEMMA BuyAdmissionInv ==
    ASSUME WebInv, Grows, BuyAdmission
    PROVE  PageInv'
<1>0. /\ PageTypes /\ buy.at = "sent" /\ buy \in Purchases /\ poll \in Polls
      /\ UNCHANGED <<open, visible, form, rateWait, look, poll, ops, orphan, gestures>>
      /\ bucket \in [Users -> 0..UserMax + 1]
    BY DEF WebInv, PageTypes, BuyAdmission
<1>1. buy \in [at : {"sent", "admitted"}, user : Users] /\ buy.user \in Users
    BY <1>0, PurchaseKinds
<1>2. bucket' \in [Users -> 0..UserMax + 1]
    BY <1>0, <1>1, ScriptCounts DEF BuyAdmission, CanActivate
<1>3. PICK e : e = PurchaseEnvelope("RATE_LIMITED", NoStock)
    OBVIOUS
<1>4. e \in PurchaseReply /\ e.status = "RATE_LIMITED"
    BY <1>3, StockAssumption DEF PurchaseEnvelope, PurchaseReply, Outcomes, NoStock
<1>5. Rendered("purchase", "ip limit") = e /\ Rendered("purchase", "RATE_LIMITED") = e
    BY <1>3 DEF Rendered, Respond, Outcomes
<1>6. \/ buy' = [at |-> "answered", user |-> buy.user, reply |-> e]
      \/ buy' = [buy EXCEPT !.at = "admitted"]
    BY <1>5 DEF BuyAdmission, Answered
<1> HIDE <1>3
<1>7. /\ buy' \in Purchases /\ buy'.at # "none" /\ buy'.user = buy.user
      /\ ~(buy'.at = "answered" /\ buy'.reply.status = "CONFIRMED")
    BY <1>1, <1>4, <1>6 DEF Purchases
<1> QED BY <1>0, <1>2, <1>7, BuyAdvances

\* The script answers "confirmed" only when it has issued a reservation.
LEMMA BuyServedInv ==
    ASSUME WebInv, Grows, NEW r \in Rids, BuyServed(r)
    PROVE  PageInv'
<1>0. /\ PageTypes /\ IInv /\ buy.at = "admitted" /\ buy \in Purchases /\ poll \in Polls
      /\ UNCHANGED <<bucket, open, visible, form, rateWait, look, ops, orphan, gestures>>
      /\ bucket \in [Users -> 0..UserMax + 1]
    BY DEF WebInv, StoreInv, PageTypes, BuyServed
<1>1. buy.user \in Users
    BY <1>0, PurchaseKinds
<1>2. PICK reply \in PurchaseReplies(buy.user) :
         ServePurchase(buy.user, r, reply) /\ Answered(reply)
    BY DEF BuyServed
<1>3. reply \in PurchaseReply
    BY <1>0, <1>1, RepliesOfPurchase
<1>4. buy' = [at |-> "answered", user |-> buy.user, reply |-> reply]
    BY <1>2 DEF Answered
<1>5. buy' \in Purchases /\ buy'.at = "answered" /\ buy'.user = buy.user /\ buy'.reply = reply
    BY <1>1, <1>3, <1>4 DEF Purchases
<1>6. ASSUME reply.status = "CONFIRMED"
      PROVE  issued'[buy.user] # {}
    <2>1. GuardReply.status # "CONFIRMED" /\ UnavailableReply.status # "CONFIRMED"
        BY DEF GuardReply, GuardOutcome, UnavailableReply, PurchaseEnvelope
    <2>2. reply = ScriptReply(buy.user) /\ Purchase(buy.user, r)
        BY <1>2, <1>6, <2>1 DEF ServePurchase
    <2>3. PurchaseOutcome(buy.user) = "CONFIRMED"
        BY <1>6, <2>2 DEF ScriptReply, PurchaseEnvelope
    <2>4. issued' = [issued EXCEPT ![buy.user] = @ \cup {r}]
        BY <2>2, <2>3 DEF Purchase
    <2> QED BY <1>0, <1>1, <2>4 DEF IInv, TypeOK
<1>7. poll' = poll \/ poll' = Aged(poll)
    BY DEF BuyServed
<1>8. /\ poll' \in Polls /\ (poll'.flight = NoFlight <=> poll.flight = NoFlight)
      /\ poll'.timer = poll.timer
    BY <1>0, <1>7, AgedPoll
<1> QED BY <1>0, <1>5, <1>6, <1>8, BuyAdvances

\* The answer of a purchase ends it: with the feedback, and perhaps a refresh.
LEMMA BuyAnsweredInv ==
    ASSUME WebInv, Grows, BuyAnswered
    PROVE  PageInv'
<1>0. /\ PageTypes /\ SubmitInv /\ ConfirmedInv /\ LookInv /\ PollingFollowsPage /\ StaleInv
      /\ buy.at = "answered" /\ buy \in Purchases /\ poll \in Polls /\ form \in Forms
      /\ ops \in {"off", "running", "timer"} /\ visible \in BOOLEAN /\ rateWait \in BOOLEAN
      /\ UNCHANGED <<bucket, open, visible, look, orphan, gestures>>
      /\ buy' = NoBuy /\ ops' = OpsRefreshed(ops, visible)
    BY DEF WebInv, PageTypes, BuyAnswered
<1>1. buy.reply \in PurchaseReply /\ buy.user \in Users
    BY <1>0, PurchaseKinds
<1>2. PICK outcome : outcome = buy.reply.status
    OBVIOUS
<1>3. PICK i : i = InteractionOf(outcome)
    OBVIOUS
<1>4. /\ i \in {"confirmed", "rate_limited", "invalid", "refused"}
      /\ i = "confirmed" <=> outcome = "CONFIRMED"
    BY <1>3 DEF InteractionOf
<1>5. form' = [form EXCEPT !.interaction = i]
    BY <1>2, <1>3 DEF BuyAnswered
<1>6. form' \in Forms /\ form'.interaction = i /\ form'.field = form.field
      /\ form'.attempted = form.attempted
    BY <1>0, <1>4, <1>5 DEF Forms, Interactions
<1>7. /\ form.interaction = "submitting" /\ open
      /\ form.field = buy.user /\ form.attempted = form.field
    BY <1>0 DEF SubmitInv, PageTypes
<1>8. PICK applied : applied = SnapshotApplied(poll, buy.reply.stock)
    OBVIOUS
<1>9. applied \in Polls /\ applied.flight = poll.flight /\ applied.timer = poll.timer
    BY <1>0, <1>1, <1>8, SnapshotAppliedPoll DEF PurchaseReply
<1>10. poll' = IF outcome \in {"ALREADY_PURCHASED", "INVALID_USER_ID", "RATE_LIMITED"}
               THEN applied
               ELSE Refreshed(applied, visible)
    BY <1>2, <1>8 DEF BuyAnswered
<1>11. /\ poll' \in Polls
       /\ visible => poll'.flight # NoFlight \/ poll'.timer # "off"
    <2>1. CASE outcome \in {"ALREADY_PURCHASED", "INVALID_USER_ID", "RATE_LIMITED"}
        BY <1>0, <1>7, <1>9, <1>10, <2>1 DEF PollingFollowsPage
    <2>2. CASE outcome \notin {"ALREADY_PURCHASED", "INVALID_USER_ID", "RATE_LIMITED"}
        BY <1>0, <1>9, <1>10, <2>2, RefreshedPoll, StartStates
    <2> QED BY <2>1, <2>2
<1>12. ops' \in {"off", "running", "timer"} /\ (visible => ops' # "off")
    BY <1>0, <1>7 DEF OpsRefreshed, OpsPolled, PollingFollowsPage
<1>13. rateWait' \in BOOLEAN
    BY DEF BuyAnswered
<1>14. PageTypes'
    BY <1>0, <1>6, <1>11, <1>12, <1>13, StartStates DEF PageTypes
<1>15. SubmitInv'
    BY <1>0, <1>1, <1>4, <1>6, <1>7, StartStates DEF SubmitInv
<1>16. ConfirmedInv'
    <2>1. outcome = "CONFIRMED" => issued[buy.user] # {}
        BY <1>0, <1>2 DEF ConfirmedInv
    <2> QED BY <1>0, <1>1, <1>4, <1>6, <1>7, <2>1, StartStates DEF ConfirmedInv, Grows
<1>17. LookInv'
    BY <1>0, <1>6, LookFrame
<1>18. PollingFollowsPage'
    BY <1>0, <1>7, <1>11, <1>12 DEF PollingFollowsPage
<1>19. StaleInv'
    <2>1. CASE i = "confirmed"
        <3>1. poll' = Refreshed(applied, visible)
            BY <1>4, <1>10, <2>1
        <3>2. poll'.flight \in Flights /\ applied.flight \in Flights
            BY <1>9, <1>11 DEF Polls
        <3>3. /\ ~visible => poll'.queued
              /\ poll'.flight.at = "sent" \/ poll'.queued
            BY <1>0, <1>9, <3>1, RefreshedPoll
        <3>4. visible => poll'.flight.at \in {"sent", "read"}
            BY <1>0, <1>9, <3>1, <3>2, RefreshedPoll, FlightKinds
        <3> QED BY <1>0, <3>3, <3>4 DEF StaleInv, OldSnapshotIsReplaced
    <2>2. CASE i # "confirmed"
        BY <1>6, <2>2 DEF StaleInv, OldSnapshotIsReplaced
    <2> QED BY <2>1, <2>2
<1> QED BY <1>14, <1>15, <1>16, <1>17, <1>18, <1>19 DEF PageInv

\* A lost answer becomes "unknown", about the id in the field.
LEMMA BuyFailsInv ==
    ASSUME WebInv, Grows, BuyFails
    PROVE  PageInv'
<1>0. /\ PageTypes /\ SubmitInv /\ ConfirmedInv /\ LookInv /\ PollingFollowsPage /\ StaleInv
      /\ buy.at # "none" /\ buy \in Purchases /\ form \in Forms
      /\ bucket \in [Users -> 0..UserMax + 1]
      /\ UNCHANGED <<open, visible, rateWait, look, poll, ops, orphan, gestures>>
      /\ buy' = NoBuy /\ form' = [form EXCEPT !.interaction = "unknown"]
    BY DEF WebInv, PageTypes, BuyFails
<1>1. buy.user \in Users
    BY <1>0, PurchaseKinds
<1>2. bucket' \in [Users -> 0..UserMax + 1]
    BY <1>0, <1>1, ScriptCounts DEF BuyFails
<1>3. /\ form' \in Forms /\ form'.interaction = "unknown" /\ form'.field = form.field
      /\ form'.attempted = form.attempted
    BY <1>0 DEF Forms, Interactions
<1>4. PageTypes'
    BY <1>0, <1>2, <1>3, StartStates DEF PageTypes
<1>5. SubmitInv' /\ ConfirmedInv'
    BY <1>0, <1>1, <1>3, StartStates DEF SubmitInv, ConfirmedInv
<1>6. LookInv' /\ PollingFollowsPage' /\ StaleInv'
    BY <1>0, <1>3, LookFrame, PollFrame, StaleFrame
<1> QED BY <1>4, <1>5, <1>6 DEF PageInv

\* The end of the countdown takes the feedback away, or nothing.
LEMMA RateWaitEndsInv ==
    ASSUME WebInv, Grows, RateWaitEnds
    PROVE  PageInv'
<1>0. /\ PageTypes /\ SubmitInv /\ ConfirmedInv /\ LookInv /\ PollingFollowsPage /\ StaleInv
      /\ form \in Forms /\ rateWait' = FALSE
      /\ UNCHANGED <<bucket, open, visible, buy, look, poll, ops, orphan, gestures>>
    BY DEF WebInv, PageTypes, RateWaitEnds
<1>1. PICK i : i = IF form.interaction = "rate_limited" THEN "idle" ELSE form.interaction
    OBVIOUS
<1>2. form' = [form EXCEPT !.interaction = i] /\ i \in Interactions
    BY <1>0, <1>1 DEF RateWaitEnds, Forms, Interactions
<1>3. /\ form' \in Forms /\ form'.interaction = i /\ form'.field = form.field
      /\ form'.attempted = form.attempted
    BY <1>0, <1>2 DEF Forms
<1>4. PageTypes'
    BY <1>0, <1>3 DEF PageTypes
<1>5. SubmitInv'
    BY <1>0, <1>1, <1>3 DEF SubmitInv
<1>6. ConfirmedInv'
    <2>1. buy.at = "answered" => buy.user \in Users
        BY <1>0, PurchaseKinds DEF PageTypes
    <2>2. i = "confirmed" => form.interaction = "confirmed" /\ form.field \in Users
        BY <1>0, <1>1 DEF SubmitInv
    <2> QED BY <1>0, <1>3, <2>1, <2>2 DEF ConfirmedInv, Grows
<1>7. LookInv' /\ PollingFollowsPage' /\ StaleInv'
    BY <1>0, <1>1, <1>3, LookFrame, PollFrame, StaleFrame
<1> QED BY <1>4, <1>5, <1>6, <1>7 DEF PageInv

-----------------------------------------------------------------------------
(* Reservation lookups *)

\* Only the lookups change.
LEMMA LookStep ==
    ASSUME WebInv, Grows, look' \in Looks, LookInv', gestures' \in 0..MaxGestures,
           UNCHANGED <<bucket, open, visible, form, buy, rateWait, poll, ops, orphan>>
    PROVE  PageInv'
<1>0. PageTypes /\ SubmitInv /\ ConfirmedInv /\ PollingFollowsPage /\ StaleInv
    BY DEF WebInv
<1>1. PageTypes'
    BY <1>0 DEF PageTypes
<1> QED BY <1>0, <1>1, SubmitFrame, ConfirmedFrame, PollFrame, StaleFrame DEF PageInv

\* A lookup starts for the id in the field and takes the old result away.
LEMMA CheckInv ==
    ASSUME WebInv, Grows, Check
    PROVE  PageInv'
<1>0. /\ PageTypes /\ look \in Looks /\ form \in Forms /\ form.field # NoUser
      /\ gestures' \in 0..MaxGestures
      /\ UNCHANGED <<bucket, open, visible, form, buy, rateWait, poll, ops, orphan>>
    BY GesturesAssumption DEF WebInv, PageTypes, Check, Gesture
<1>1. form.field \in Users
    BY <1>0 DEF Forms
<1>2. PICK l : l = [at |-> "sent", user |-> form.field]
    OBVIOUS
<1>3. l \in Lookups /\ l.at = "sent" /\ l.user = form.field
    BY <1>1, <1>2 DEF Lookups
<1>4. look' = [look EXCEPT !.own = l, !.result = NoResult]
    BY <1>2 DEF Check
<1> HIDE <1>2
<1>5. look' \in Looks /\ look'.own = l /\ look'.result = NoResult
    BY <1>0, <1>3, <1>4, StartStates DEF Looks
<1>6. LookInv'
    BY <1>0, <1>3, <1>5 DEF LookInv
<1> QED BY <1>0, <1>5, <1>6, LookStep

\* What GET /api/purchase/:userId may answer.
LEMMA StatusReplies ==
    ASSUME StoreInv, NEW u \in Users, NEW reply \in PurchaseStatus(u)
    PROVE  reply \in StatusReply /\ (CopyOf(reply) = "found" => issued[u] # {})
<1>1. CASE reply = ApiError
    <2>1. ApiError.kind # "status"
        BY DEF ApiError
    <2>2. CopyOf(reply) = "unavailable"
        BY <1>1, <2>1 DEF CopyOf
    <2> QED BY <1>1, <2>2 DEF StatusReply
<1>2. ASSUME NEW row \in OrderRows(u), reply = StatusOfRow(u, row)
      PROVE  reply \in StatusReply /\ (CopyOf(reply) = "found" => issued[u] # {})
    <2>1. row \in {"none", "persisted", "compensated"} /\ (row # "none" => issued[u] # {})
        BY DEF OrderRows
    <2>2. u \in buyers => issued[u] # {}
        BY DEF StoreInv, IInv, BuyersMatchLedger, HoldersWereIssued, Reserved
    <2>3. PICK p \in BOOLEAN, o \in {"none", "reserved", "persisted", "compensated"} :
             reply = StatusEnvelope(p, o) /\ (p => issued[u] # {})
        <3>1. CASE row = "persisted"
            BY <1>2, <2>1, <3>1 DEF StatusOfRow
        <3>2. CASE row = "compensated"
            BY <1>2, <2>1, <3>2 DEF StatusOfRow
        <3>3. CASE row = "none" /\ u \in buyers
            BY <1>2, <2>2, <3>3 DEF StatusOfRow
        <3>4. CASE row = "none" /\ u \notin buyers
            <4>1. (u \in buyers) = FALSE
                BY <3>4
            <4>2. reply = StatusEnvelope(u \in buyers, "none")
                BY <1>2, <3>4 DEF StatusOfRow
            <4> QED BY <4>1, <4>2
        <3> QED BY <2>1, <3>1, <3>2, <3>3, <3>4
    <2>4. reply \in StatusReply /\ reply.kind = "status" /\ reply.purchased = p
        BY <2>3 DEF StatusEnvelope, StatusReply
    <2>5. CopyOf(reply) = "found" => p
        BY <2>4 DEF CopyOf
    <2> QED BY <2>3, <2>4, <2>5
<1> QED BY <1>1, <1>2 DEF PurchaseStatus

\* The server reads the status; "found" needs an order or a buyer.
LEMMA CheckServedInv ==
    ASSUME WebInv, Grows, CheckServed
    PROVE  PageInv'
<1>0. /\ PageTypes /\ LookInv /\ StoreInv /\ look \in Looks /\ look.own.at = "sent"
      /\ gestures' \in 0..MaxGestures
      /\ UNCHANGED <<bucket, open, visible, form, buy, rateWait, poll, ops, orphan>>
    BY DEF WebInv, PageTypes, CheckServed
<1>1. look.own \in Lookups
    BY <1>0 DEF Looks
<1>2. look.own.user \in Users /\ look.own # NoLookup
    BY <1>0, <1>1, LookupKinds
<1>3. PICK reply \in PurchaseStatus(look.own.user) : look' = [look EXCEPT !.own = Read(@, reply)]
    BY DEF CheckServed
<1>4. reply \in StatusReply /\ (CopyOf(reply) = "found" => issued[look.own.user] # {})
    BY <1>0, <1>2, StatusReplies
<1>5. PICK l : l = [at |-> "read", user |-> look.own.user, reply |-> reply]
    OBVIOUS
<1>6. l \in Lookups /\ l.at = "read" /\ l.user = look.own.user /\ l.reply = reply
    BY <1>2, <1>4, <1>5 DEF Lookups
<1>7. look' = [look EXCEPT !.own = l]
    BY <1>3, <1>5 DEF Read
<1> HIDE <1>3, <1>5
<1>8. look' \in Looks /\ look'.own = l /\ look'.result = look.result
    BY <1>0, <1>6, <1>7 DEF Looks
<1>9. look.result = NoResult /\ look.own.user = form.field
    BY <1>0, <1>2 DEF LookInv
<1>10. issued[look.own.user] # {} => issued'[look.own.user] # {}
    BY <1>2 DEF Grows
<1>11. CopyOf(look.own.reply)' = CopyOf(reply)
    BY <1>6, <1>8 DEF CopyOf
<1>12. LookInv'
    BY <1>0, <1>4, <1>6, <1>8, <1>9, <1>10, <1>11 DEF LookInv
<1> QED BY <1>0, <1>8, <1>12, LookStep

\* The current lookup shows its result; a superseded one changes nothing.
LEMMA CheckSettlesInv ==
    ASSUME WebInv, Grows, NEW l \in look.old \cup ({look.own} \ {NoLookup}), CheckSettles(l)
    PROVE  PageInv'
<1>0. /\ PageTypes /\ LookInv /\ look \in Looks
      /\ gestures' \in 0..MaxGestures
      /\ UNCHANGED <<bucket, open, visible, form, buy, rateWait, poll, ops, orphan>>
    BY DEF WebInv, PageTypes, CheckSettles
<1>1. look.own \in Lookups /\ look.old \subseteq Lookups \ {NoLookup}
    BY <1>0 DEF Looks
<1>2. PICK rest : rest = look.old \ {l}
    OBVIOUS
<1>3. rest \in SUBSET (Lookups \ {NoLookup})
    BY <1>1, <1>2
<1>4. CASE l = look.own /\ look.own # NoLookup
    <2>1. PICK result \in ShownResult(l) :
             look' = [own |-> NoLookup, old |-> rest, result |-> result]
        BY <1>2, <1>4 DEF CheckSettles, OwnsLookup
    <2>2. l \in Lookups /\ l.user \in Users /\ l.user = form.field
        BY <1>0, <1>1, <1>4, LookupKinds DEF LookInv
    <2>3. PICK c : result = [user |-> l.user, copy |-> c]
                   /\ (c = "unavailable" \/ (l.at = "read" /\ c = CopyOf(l.reply)))
        BY <2>1 DEF ShownResult
    <2>4. c \in {"unavailable", "found", "released", "not found"}
        BY <2>3 DEF CopyOf
    <2>5. result \in Results /\ result.user = l.user /\ result.copy = c
        BY <2>2, <2>3, <2>4 DEF Results
    <2>6. look' \in Looks /\ look'.own = NoLookup /\ look'.result = result
        BY <1>3, <2>1, <2>5, StartStates DEF Looks
    <2>7. c = "found" => issued[l.user] # {}
        BY <1>0, <1>4, <2>3 DEF LookInv
    <2>8. issued[l.user] # {} => issued'[l.user] # {}
        BY <2>2 DEF Grows
    <2>9. LookInv'
        BY <1>0, <2>2, <2>5, <2>6, <2>7, <2>8, StartStates DEF LookInv
    <2> QED BY <1>0, <2>6, <2>9, LookStep
<1>5. CASE l # look.own
    <2>1. look' = [look EXCEPT !.old = rest]
        BY <1>2, <1>5 DEF CheckSettles, OwnsLookup
    <2>2. look' \in Looks /\ look'.own = look.own /\ look'.result = look.result
        BY <1>0, <1>3, <2>1 DEF Looks
    <2>3. LookInv'
        <3>1. look.own.at = "read" => look.own.user \in Users
            BY <1>1, LookupKinds
        <3>2. look.result # NoResult => look.result.user \in Users
            BY <1>0, ResultKinds DEF Looks
        <3>3. CopyOf(look.own.reply)' = CopyOf(look.own.reply)
            BY <2>2 DEF CopyOf
        <3> QED BY <1>0, <2>2, <3>1, <3>2, <3>3 DEF LookInv, Grows
    <2> QED BY <1>0, <2>2, <2>3, LookStep
<1> QED BY <1>1, <1>4, <1>5

-----------------------------------------------------------------------------
(* Polling *)

\* Only the two hooks, the visibility and the gestures change.
LEMMA PollStep ==
    ASSUME WebInv, Grows, poll' \in Polls, ops' \in {"off", "running", "timer"},
           visible' \in BOOLEAN, orphan' \in BOOLEAN, gestures' \in 0..MaxGestures,
           PollingFollowsPage', StaleInv',
           UNCHANGED <<bucket, open, form, buy, rateWait, look>>
    PROVE  PageInv'
<1>0. PageTypes /\ SubmitInv /\ ConfirmedInv /\ LookInv
    BY DEF WebInv
<1>1. PageTypes'
    BY <1>0 DEF PageTypes
<1> QED BY <1>0, <1>1, SubmitFrame, ConfirmedFrame, LookFrame DEF PageInv

\* A poll leaves a stale screen with a read that replaces it.
LEMMA PolledStale ==
    ASSUME StaleInv, form' = form, visible' = visible, visible \in BOOLEAN, poll \in Polls,
           NEW p \in Polls, p.flight = poll.flight, p.shown = poll.shown,
           poll' = Polled(p, visible)
    PROVE  StaleInv'
<1>1. p.flight \in Flights
    BY DEF Polls
<1>2. CASE visible /\ p.flight = NoFlight
    <2>1. poll'.flight.at = "sent"
        BY <1>2, PolledPoll
    <2> QED BY <2>1 DEF StaleInv, OldSnapshotIsReplaced
<1>3. CASE ~visible \/ p.flight # NoFlight
    <2>1. poll'.flight = p.flight /\ poll'.queued
        BY <1>3, PolledPoll
    <2>2. visible => p.flight.at \in {"sent", "read"}
        BY <1>1, <1>3, FlightKinds
    <2> QED BY <2>1, <2>2 DEF StaleInv, OldSnapshotIsReplaced
<1> QED BY <1>2, <1>3

\* Refresh of both hooks of an open page, which may be shown by the same step.
LEMMA RefreshStep ==
    ASSUME WebInv, Grows, open, visible' \in BOOLEAN, visible => visible',
           poll' = Refreshed(poll, visible'), ops' = OpsRefreshed(ops, visible'),
           gestures' \in 0..MaxGestures,
           UNCHANGED <<bucket, open, form, buy, rateWait, look, orphan>>
    PROVE  PageInv'
<1>0. /\ PageTypes /\ PollingFollowsPage /\ StaleInv /\ poll \in Polls /\ orphan \in BOOLEAN
      /\ ops \in {"off", "running", "timer"}
    BY DEF WebInv, PageTypes
<1>1. poll' \in Polls /\ poll.flight \in Flights
    BY <1>0, RefreshedPoll DEF Polls
<1>2. ops' \in {"off", "running", "timer"} /\ (visible' => ops' # "off")
    BY <1>0 DEF OpsRefreshed, OpsPolled
<1>3. visible' => poll'.flight # NoFlight
    <2>1. ~visible' \/ poll.flight # NoFlight => poll'.flight = poll.flight
        BY <1>0, RefreshedPoll
    <2>2. visible' /\ poll.flight = NoFlight => poll'.flight.at = "sent"
        BY <1>0, RefreshedPoll
    <2> QED BY <2>1, <2>2, StartStates
<1>4. PollingFollowsPage'
    BY <1>2, <1>3 DEF PollingFollowsPage
<1>5. StaleInv'
    <2>1. CASE visible' /\ poll.flight = NoFlight
        <3>1. poll'.flight.at = "sent"
            BY <1>0, <2>1, RefreshedPoll
        <3> QED BY <3>1 DEF StaleInv, OldSnapshotIsReplaced
    <2>2. CASE ~visible' \/ poll.flight # NoFlight
        <3>1. poll'.flight = poll.flight /\ poll'.queued
            BY <1>0, <2>2, RefreshedPoll
        <3>2. visible' => poll.flight.at \in {"sent", "read"}
            BY <1>1, <2>2, FlightKinds
        <3> QED BY <3>1, <3>2 DEF StaleInv, OldSnapshotIsReplaced
    <2> QED BY <2>1, <2>2
<1> QED BY <1>0, <1>1, <1>2, <1>4, <1>5, PollStep

\* A timer of the poll fires.
LEMMA PollTimerInv ==
    ASSUME WebInv, Grows, PollTimer
    PROVE  PageInv'
<1>0. /\ PageTypes /\ PollingFollowsPage /\ StaleInv /\ poll \in Polls /\ poll.timer # "off"
      /\ visible \in BOOLEAN /\ orphan \in BOOLEAN /\ ops \in {"off", "running", "timer"}
      /\ UNCHANGED <<bucket, open, visible, form, buy, rateWait, look, ops, orphan>>
    BY DEF WebInv, PageTypes, PollTimer
<1>1. gestures' \in 0..MaxGestures
    BY <1>0, GesturesAssumption DEF PageTypes, PollTimer, Gesture
<1>2. PICK p : p = [poll EXCEPT !.timer = "off"]
    OBVIOUS
<1>3. p \in Polls /\ p.flight = poll.flight /\ p.shown = poll.shown
    BY <1>0, <1>2 DEF Polls
<1>4. poll' = Polled(p, visible)
    BY <1>2 DEF PollTimer
<1> HIDE <1>2
<1>5. poll' \in Polls /\ (visible => poll'.flight # NoFlight)
    BY <1>0, <1>3, <1>4, PolledPoll, StartStates
<1>6. open
    BY <1>0 DEF PollingFollowsPage, PageTypes
<1>7. PollingFollowsPage'
    BY <1>0, <1>5, <1>6 DEF PollingFollowsPage
<1>8. StaleInv'
    BY <1>0, <1>3, <1>4, PolledStale
<1> QED BY <1>0, <1>1, <1>5, <1>7, <1>8, PollStep

\* GET /api/sale/status answers the counter of a seeded sale, or an error.
LEMMA StatusIsReply ==
    ASSUME IInv
    PROVE  SaleStatus \in SaleReply
<1>1. CASE ~seeded \/ stock < 0
    BY <1>1 DEF SaleStatus, Rendered, Respond, Outcomes, SaleReply
<1>2. CASE ~(~seeded \/ stock < 0)
    <2>1. SaleStatus = [kind |-> "sale", stock |-> stock]
        BY <1>2 DEF SaleStatus, SaleEnvelope
    <2>2. stock \in 0..TotalStock
        BY <1>2 DEF IInv, StockInRange
    <2> QED BY <2>1, <2>2 DEF SaleReply
<1> QED BY <1>1, <1>2

\* A read is as new as the store.
LEMMA PollServedInv ==
    ASSUME WebInv, Grows, PollServed
    PROVE  PageInv'
<1>0. /\ PageTypes /\ PollingFollowsPage /\ StaleInv /\ poll \in Polls /\ poll.flight.at = "sent"
      /\ visible \in BOOLEAN /\ orphan \in BOOLEAN /\ ops \in {"off", "running", "timer"}
      /\ gestures \in 0..MaxGestures /\ SaleStatus \in SaleReply
      /\ UNCHANGED <<bucket, open, visible, form, buy, rateWait, look, ops, orphan, gestures>>
    BY StatusIsReply DEF WebInv, StoreInv, PageTypes, PollServed
<1>1. PICK f : f = [at |-> "read", reply |-> SaleStatus, fresh |-> TRUE]
    OBVIOUS
<1>2. f \in Flights /\ f.at = "read" /\ f.fresh = TRUE
    BY <1>0, <1>1 DEF Flights
<1>3. poll' = [poll EXCEPT !.flight = f]
    BY <1>1 DEF PollServed
<1> HIDE <1>1
<1>4. poll' \in Polls /\ poll'.flight = f /\ poll'.timer = poll.timer
    BY <1>0, <1>2, <1>3 DEF Polls
<1>5. poll.flight # NoFlight /\ f # NoFlight
    BY <1>0, <1>2, StartStates
<1>6. PollingFollowsPage'
    BY <1>0, <1>4, <1>5 DEF PollingFollowsPage
<1>7. StaleInv'
    BY <1>2, <1>4 DEF StaleInv, OldSnapshotIsReplaced
<1> QED BY <1>0, <1>4, <1>6, <1>7, PollStep

\* A read that was overtaken by the own purchase has a refresh queued.
LEMMA PollAnsweredInv ==
    ASSUME WebInv, Grows, PollAnswered
    PROVE  PageInv'
<1>0. /\ PageTypes /\ PollingFollowsPage /\ StaleInv /\ poll \in Polls /\ poll.flight.at = "read"
      /\ visible \in BOOLEAN /\ orphan \in BOOLEAN /\ ops \in {"off", "running", "timer"}
      /\ gestures \in 0..MaxGestures
      /\ AcceptsSale(poll.flight.reply)
      /\ UNCHANGED <<bucket, open, visible, form, buy, rateWait, look, ops, orphan, gestures>>
    BY DEF WebInv, PageTypes, PollAnswered
<1>1. poll.flight \in Flights
    BY <1>0 DEF Polls
<1>2. poll.flight.fresh \in BOOLEAN /\ poll.flight # NoFlight
    BY <1>0, <1>1, FlightKinds
<1>3. PICK n : n = poll.flight.reply.stock
    OBVIOUS
<1>4. n \in NoStock..TotalStock
    BY <1>0, <1>3, StockAssumption DEF AcceptsSale, NoStock
<1>5. PICK s : s = [stock |-> n, fresh |-> poll.flight.fresh]
    OBVIOUS
<1>6. s \in [stock : NoStock..TotalStock, fresh : BOOLEAN] /\ s.fresh = poll.flight.fresh
    BY <1>2, <1>4, <1>5
<1>7. PICK q : q = Landed(poll)
    OBVIOUS
<1>8. /\ q \in Polls /\ q.flight = NoFlight /\ q.timer = IF poll.queued THEN "now" ELSE "later"
    BY <1>0, <1>7, LandedPoll
<1>9. poll' = [q EXCEPT !.shown = s, !.unavailable = FALSE]
    BY <1>3, <1>5, <1>7 DEF PollAnswered
<1> HIDE <1>3, <1>5, <1>7
<1>10. /\ poll' \in Polls /\ poll'.flight = q.flight /\ poll'.timer = q.timer
       /\ poll'.shown = s
    BY <1>6, <1>8, <1>9 DEF Polls
<1>11. open /\ ops = ops'
    BY <1>0, <1>2 DEF PollingFollowsPage, PageTypes
<1>12. PollingFollowsPage'
    BY <1>0, <1>8, <1>10, <1>11 DEF PollingFollowsPage
<1>13. form.interaction = "confirmed" /\ ~poll.flight.fresh => poll.queued
    BY <1>0 DEF StaleInv
<1>14. StaleInv'
    <2>1. poll'.flight.at = "none"
        BY <1>8, <1>10, StartStates
    <2>2. form.interaction = "confirmed" /\ ~s.fresh => poll'.timer = "now"
        BY <1>6, <1>8, <1>10, <1>13
    <2> QED BY <1>0, <1>10, <2>1, <2>2 DEF StaleInv, OldSnapshotIsReplaced
<1> QED BY <1>0, <1>10, <1>12, <1>14, PollStep

\* A failed poll sets the timer, and says so.
LEMMA PollFailsInv ==
    ASSUME WebInv, Grows, PollFails
    PROVE  PageInv'
<1>0. /\ PageTypes /\ PollingFollowsPage /\ StaleInv /\ poll \in Polls /\ poll.flight # NoFlight
      /\ visible \in BOOLEAN /\ orphan \in BOOLEAN /\ ops \in {"off", "running", "timer"}
      /\ gestures \in 0..MaxGestures
      /\ UNCHANGED <<bucket, open, visible, form, buy, rateWait, look, ops, orphan, gestures>>
    BY DEF WebInv, PageTypes, PollFails
<1>1. PICK q : q = Landed(poll)
    OBVIOUS
<1>2. q \in Polls /\ q.flight = NoFlight /\ q.timer = IF poll.queued THEN "now" ELSE "later"
    BY <1>0, <1>1, LandedPoll
<1>3. poll' = [q EXCEPT !.unavailable = TRUE]
    BY <1>1 DEF PollFails
<1> HIDE <1>1
<1>4. /\ poll' \in Polls /\ poll'.flight = q.flight /\ poll'.timer = q.timer
      /\ poll'.unavailable = TRUE
    BY <1>2, <1>3 DEF Polls
<1>5. open
    BY <1>0 DEF PollingFollowsPage, PageTypes
<1>6. PollingFollowsPage'
    BY <1>0, <1>2, <1>4, <1>5 DEF PollingFollowsPage
<1>7. StaleInv'
    <2>1. poll'.flight.at = "none"
        BY <1>2, <1>4, StartStates
    <2> QED BY <1>4, <2>1 DEF StaleInv, OldSnapshotIsReplaced
<1> QED BY <1>0, <1>4, <1>6, <1>7, PollStep

\* The steps of the operations hook, and the end of an aborted call.
LEMMA OpsInv ==
    ASSUME WebInv, Grows, OpsTimer \/ OpsSettles \/ OrphanSettles
    PROVE  PageInv'
<1>0. /\ PageTypes /\ PollingFollowsPage /\ StaleInv /\ poll \in Polls
      /\ visible \in BOOLEAN /\ orphan \in BOOLEAN /\ ops \in {"off", "running", "timer"}
      /\ gestures \in 0..MaxGestures
      /\ UNCHANGED <<bucket, open, visible, form, buy, rateWait, look, poll, gestures>>
      /\ orphan' \in BOOLEAN
    BY DEF WebInv, PageTypes, OpsTimer, OpsSettles, OrphanSettles
<1>1. ops' \in {"off", "running", "timer"}
    BY <1>0 DEF OpsTimer, OpsSettles, OrphanSettles, OpsPolled
<1>2. PollingFollowsPage'
    BY <1>0 DEF PollingFollowsPage, PageTypes, OpsTimer, OpsSettles, OrphanSettles, OpsPolled
<1>3. StaleInv'
    BY <1>0, StaleFrame
<1> QED BY <1>0, <1>1, <1>2, <1>3, PollStep

\* Hiding leaves everything in place; showing and retrying refresh both hooks.
LEMMA VisibilityInv ==
    ASSUME WebInv, Grows, Hide \/ Show \/ Retry
    PROVE  PageInv'
<1>0. /\ PageTypes /\ PollingFollowsPage /\ StaleInv /\ poll \in Polls
      /\ visible \in BOOLEAN /\ orphan \in BOOLEAN /\ ops \in {"off", "running", "timer"}
    BY DEF WebInv, PageTypes
<1>1. gestures' \in 0..MaxGestures
    <2>1. gestures' = gestures \/ (gestures < MaxGestures /\ gestures' = gestures + 1)
        BY DEF Hide, Show, Retry, Gesture
    <2>2. gestures \in 0..MaxGestures
        BY <1>0 DEF PageTypes
    <2> QED BY <2>1, <2>2, GesturesAssumption
<1>2. CASE Hide
    <2>1. /\ visible' = FALSE /\ visible /\ open
          /\ UNCHANGED <<bucket, open, form, buy, rateWait, look, poll, ops, orphan>>
        BY <1>2 DEF Hide
    <2>2. PollingFollowsPage'
        BY <2>1 DEF PollingFollowsPage
    <2>3. StaleInv'
        BY <1>0, <2>1 DEF StaleInv, OldSnapshotIsReplaced
    <2> QED BY <1>0, <1>1, <2>1, <2>2, <2>3, PollStep
<1>3. CASE Show
    <2>1. visible' = TRUE
        BY <1>3 DEF Show
    <2> QED BY <1>0, <1>1, <1>3, <2>1, RefreshStep DEF Show
<1>4. CASE Retry
    BY <1>0, <1>1, <1>4, RefreshStep DEF Retry
<1> QED BY <1>2, <1>3, <1>4

\* The state of a page that has just been mounted, or is gone.
LEMMA FreshStates ==
    /\ FreshForm \in Forms /\ FreshForm.interaction = "idle" /\ FreshForm.field = NoUser
    /\ FreshForm.attempted = NoUser
    /\ FreshLook \in Looks /\ FreshLook.own = NoLookup /\ FreshLook.result = NoResult
    /\ FreshPoll \in Polls /\ FreshPoll.flight = NoFlight /\ FreshPoll.timer = "off"
    /\ FreshPoll.shown.fresh = TRUE
<1>1. /\ FreshForm \in Forms /\ FreshForm.interaction = "idle" /\ FreshForm.field = NoUser
      /\ FreshForm.attempted = NoUser
    BY DEF FreshForm, Forms, Interactions
<1>2. FreshLook \in Looks /\ FreshLook.own = NoLookup /\ FreshLook.result = NoResult
    BY StartStates DEF FreshLook, Looks
<1>3. PICK s : s = [stock |-> NoStock, fresh |-> TRUE]
    OBVIOUS
<1>4. s \in [stock : NoStock..TotalStock, fresh : BOOLEAN] /\ s.fresh = TRUE
    BY <1>3, StockAssumption DEF NoStock
<1>5. FreshPoll = [flight |-> NoFlight, queued |-> FALSE, timer |-> "off", shown |-> s,
                   unavailable |-> FALSE]
    BY <1>3 DEF FreshPoll
<1> HIDE <1>3
<1>6. FreshPoll \in Polls /\ FreshPoll.flight = NoFlight /\ FreshPoll.timer = "off"
      /\ FreshPoll.shown = s
    BY <1>4, <1>5, StartStates DEF Polls
<1> QED BY <1>1, <1>2, <1>4, <1>6

\* A closed page has no call and no timer.
LEMMA UnmountInv ==
    ASSUME WebInv, Grows, Unmount
    PROVE  PageInv'
<1>0. /\ PageTypes /\ open' = FALSE /\ form' = FreshForm /\ buy' = NoBuy /\ rateWait' = FALSE
      /\ look' = FreshLook /\ poll' = FreshPoll /\ ops' = "off" /\ orphan' \in BOOLEAN
      /\ UNCHANGED <<bucket, visible, gestures>>
    BY DEF WebInv, Unmount
<1>1. PageTypes'
    BY <1>0, FreshStates, StartStates DEF PageTypes
<1>2. SubmitInv' /\ ConfirmedInv'
    BY <1>0, FreshStates, StartStates DEF SubmitInv, ConfirmedInv
<1>3. LookInv'
    BY <1>0, FreshStates, StartStates DEF LookInv
<1>4. PollingFollowsPage'
    BY <1>0, FreshStates DEF PollingFollowsPage
<1>5. StaleInv'
    BY <1>0, FreshStates DEF StaleInv, OldSnapshotIsReplaced
<1> QED BY <1>1, <1>2, <1>3, <1>4, <1>5 DEF PageInv

\* Steps of the rest of the world, and stuttering.
LEMMA OthersInv ==
    ASSUME WebInv, Grows, UNCHANGED <<page, gestures>>, bucket' \in [Users -> 0..UserMax + 1]
    PROVE  PageInv'
<1>0. /\ PageTypes /\ SubmitInv /\ ConfirmedInv /\ LookInv /\ PollingFollowsPage /\ StaleInv
      /\ UNCHANGED <<open, visible, form, buy, rateWait, look, poll, ops, orphan, gestures>>
    BY DEF WebInv, page
<1>1. PageTypes'
    BY <1>0 DEF PageTypes
<1> QED BY <1>0, <1>1, SubmitFrame, ConfirmedFrame, LookFrame, PollFrame, StaleFrame DEF PageInv

-----------------------------------------------------------------------------
(* Every step *)

\* Every step keeps the invariant of the page.
LEMMA NextPageInv ==
    ASSUME WebInv, Grows, [WebNext]_webVars
    PROVE  PageInv'
<1>0. bucket \in [Users -> 0..UserMax + 1]
    BY DEF WebInv, PageTypes
<1>1. CASE \E u \in Users \cup {NoUser} : ChangeUserId(u)
    BY <1>1, ChangeUserIdInv
<1>2. CASE Submit
    BY <1>2, SubmitPageInv
<1>3. CASE BuyAdmission
    BY <1>3, BuyAdmissionInv
<1>4. CASE \E r \in Rids : BuyServed(r)
    BY <1>4, BuyServedInv
<1>5. CASE BuyAnswered
    BY <1>5, BuyAnsweredInv
<1>6. CASE BuyFails
    BY <1>6, BuyFailsInv
<1>7. CASE RateWaitEnds
    BY <1>7, RateWaitEndsInv
<1>8. CASE Check
    BY <1>8, CheckInv
<1>9. CASE CheckServed
    BY <1>9, CheckServedInv
<1>10. CASE \E l \in look.old \cup ({look.own} \ {NoLookup}) : CheckSettles(l)
    BY <1>10, CheckSettlesInv
<1>11. CASE PollTimer
    BY <1>11, PollTimerInv
<1>12. CASE PollServed
    BY <1>12, PollServedInv
<1>13. CASE PollAnswered
    BY <1>13, PollAnsweredInv
<1>14. CASE PollFails
    BY <1>14, PollFailsInv
<1>15. CASE OpsTimer \/ OpsSettles \/ OrphanSettles
    BY <1>15, OpsInv
<1>16. CASE Hide \/ Show \/ Retry
    BY <1>16, VisibilityInv
<1>17. CASE Unmount
    BY <1>17, UnmountInv
<1>18. CASE Others
    <2>1. CASE Next /\ UNCHANGED <<bucket, page, gestures>>
        BY <1>0, <2>1, OthersInv
    <2>2. ASSUME NEW u \in Users, WindowExpires(u) /\ UNCHANGED <<vars, page, gestures>>
          PROVE  PageInv'
        <3>1. bucket' \in [Users -> 0..UserMax + 1]
            BY <1>0, <2>2, UserMaxAssumption DEF WindowExpires
        <3> QED BY <2>2, <3>1, OthersInv
    <2> QED BY <1>18, <2>1, <2>2 DEF Others
<1>19. CASE UNCHANGED webVars
    <2>1. UNCHANGED <<page, gestures>> /\ bucket' = bucket
        BY <1>19 DEF webVars
    <2> QED BY <1>0, <2>1, OthersInv
<1> QED BY <1>1, <1>2, <1>3, <1>4, <1>5, <1>6, <1>7, <1>8, <1>9, <1>10, <1>11, <1>12, <1>13,
           <1>14, <1>15, <1>16, <1>17, <1>18, <1>19 DEF WebNext

\* The invariant is inductive.
LEMMA NextWebInv ==
    WebInv /\ [WebNext]_webVars => WebInv'
<1> SUFFICES ASSUME WebInv, [WebNext]_webVars PROVE WebInv'
    OBVIOUS
<1>1. [Next]_vars
    BY WebIsStoreStep DEF WebInv
<1>2. StoreInv' /\ Grows
    BY <1>1, StoreStep DEF WebInv
<1>3. PageInv'
    BY <1>2, NextPageInv
<1> QED BY <1>2, <1>3 DEF WebInv, PageInv

\* It holds when the page is mounted.
LEMMA InitWebInv ==
    WebInit => WebInv
<1> SUFFICES ASSUME WebInit PROVE WebInv
    OBVIOUS
<1>1. StoreInv
    BY InitIInv DEF WebInit, Init, StoreInv, HoldersWereIssued
<1>2. PICK u \in Users : form = [FreshForm EXCEPT !.field = u]
    BY DEF WebInit
<1>3. form \in Forms /\ form.field = u /\ form.interaction = "idle"
    BY <1>2, FreshStates DEF Forms
<1>4. /\ open = TRUE /\ visible \in BOOLEAN /\ buy = NoBuy /\ rateWait = FALSE
      /\ look = FreshLook /\ poll = Polled(FreshPoll, visible) /\ ops = OpsPolled("off", visible)
      /\ orphan \in BOOLEAN /\ gestures = 0 /\ bucket = [v \in Users |-> 0]
    BY DEF WebInit
<1>5. poll \in Polls /\ (visible => poll.flight # NoFlight)
    BY <1>4, FreshStates, PolledPoll, StartStates
<1>6. ops \in {"off", "running", "timer"} /\ (visible => ops # "off")
    BY <1>4 DEF OpsPolled
<1>7. 0 \in 0..MaxGestures /\ bucket \in [Users -> 0..UserMax + 1]
    BY <1>4, GesturesAssumption, UserMaxAssumption
<1>8. PageTypes
    BY <1>3, <1>4, <1>5, <1>6, <1>7, FreshStates, StartStates DEF PageTypes
<1>9. SubmitInv /\ ConfirmedInv
    BY <1>3, <1>4, StartStates DEF SubmitInv, ConfirmedInv
<1>10. LookInv
    BY <1>4, FreshStates, StartStates DEF LookInv
<1>11. PollingFollowsPage
    BY <1>4, <1>5, <1>6 DEF PollingFollowsPage
<1>12. StaleInv
    BY <1>3 DEF StaleInv, OldSnapshotIsReplaced
<1> QED BY <1>1, <1>8, <1>9, <1>10, <1>11, <1>12 DEF WebInv

\* It holds always.
LEMMA WebInvariance ==
    WebSpec => []WebInv
<1> QED BY InitWebInv, NextWebInv, PTL DEF WebSpec

-----------------------------------------------------------------------------
(* Theorems *)

\* The page and the store under it keep their types: the purchase in flight is
\* the one being submitted, the lookup in flight is for the id in the field, and
\* the limiter counts in its range.
THEOREM WebTypes ==
    WebSpec => []WebTypeOK
<1>1. WebInv => WebTypeOK
    <2> SUFFICES ASSUME WebInv PROVE WebTypeOK
        OBVIOUS
    <2>1. TypeOK /\ StockInRange
        BY DEF WebInv, StoreInv, IInv
    <2>2. PageTypes /\ SubmitInv /\ LookInv
        BY DEF WebInv
    <2>3. buy.at \in {"none", "sent", "admitted", "answered"}
        BY <2>2, PurchaseKinds DEF PageTypes
    <2> QED BY <2>1, <2>2, <2>3 DEF WebTypeOK, PageTypes, SubmitInv, LookInv, Forms, Polls
<1> QED BY <1>1, WebInvariance, PTL

\* Feedback is about the id in the field, and a secured card was reserved, however
\* late the answer comes and whatever the store does meanwhile.
THEOREM FeedbackNeverMisplaced ==
    WebSpec => []FeedbackIsForField
<1>1. WebInv => FeedbackIsForField
    BY DEF WebInv, SubmitInv, ConfirmedInv, FeedbackIsForField
<1> QED BY <1>1, WebInvariance, PTL

\* The lookup result answers the last lookup for the id in the field, and "found"
\* is said only of a user who was issued a reservation.
THEOREM LookupsAreCurrent ==
    WebSpec => []LookupIsCurrent
<1>1. WebInv => LookupIsCurrent
    BY DEF WebInv, LookInv, LookupIsCurrent
<1> QED BY <1>1, WebInvariance, PTL

\* While the page is open and visible both hooks have a call in flight or a timer
\* set; a closed page has neither.
THEOREM PollingNeverDies ==
    WebSpec => []PollingFollowsPage
<1>1. WebInv => PollingFollowsPage
    BY DEF WebInv
<1> QED BY <1>1, WebInvariance, PTL

\* After a confirmed purchase an older snapshot on the screen is about to be
\* replaced, unless the page says that the sale is unavailable.
THEOREM OldSnapshotsAreReplaced ==
    WebSpec => []OldSnapshotIsReplaced
<1>1. WebInv => OldSnapshotIsReplaced
    BY DEF WebInv, StaleInv
<1> QED BY <1>1, WebInvariance, PTL

\* POST /api/purchase does not answer "Sold out" to the holder of a unit.
THEOREM SoldOutIsNeverOwnUnit ==
    WebSpec => SoldOutOnlyToOthers
<1>1. WebInv /\ [WebNext]_webVars =>
         [buy'.at = "answered" /\ buy.at = "admitted" /\ buy'.reply.status = "SOLD_OUT" =>
             buy.user \notin Reserved]_webVars
    <2> SUFFICES ASSUME WebInv, WebNext, buy'.at = "answered", buy.at = "admitted",
                        buy'.reply.status = "SOLD_OUT"
                 PROVE  buy.user \notin Reserved
        OBVIOUS
    <2>1. buy' # buy
        OBVIOUS
    <2>2. NoBuy.at = "none"
        BY StartStates
    <2>3. ~Submit
        BY DEF WebInv, SubmitInv, Submit, ButtonEnabled
    <2>4. PICK r \in Rids : BuyServed(r)
        BY <2>1, <2>2, <2>3
        DEF WebNext, ChangeUserId, BuyAdmission, BuyAnswered, BuyFails,
            RateWaitEnds, Check, CheckServed, CheckSettles, PollTimer, PollServed, PollAnswered,
            PollFails, OpsTimer, OpsSettles, OrphanSettles, Hide, Show, Retry, Unmount, Others,
            page
    <2>5. PICK reply \in PurchaseReplies(buy.user) :
             ServePurchase(buy.user, r, reply) /\ Answered(reply)
        BY <2>4 DEF BuyServed
    <2>6. reply.status = "SOLD_OUT"
        BY <2>5 DEF Answered
    <2>7. GuardReply.status # "SOLD_OUT" /\ UnavailableReply.status # "SOLD_OUT"
        BY DEF GuardReply, GuardOutcome, UnavailableReply, PurchaseEnvelope
    <2>8. reply = ScriptReply(buy.user)
        BY <2>5, <2>6, <2>7 DEF PurchaseReplies
    <2>9. PurchaseOutcome(buy.user) = "SOLD_OUT"
        BY <2>6, <2>8 DEF ScriptReply, PurchaseEnvelope
    <2> QED BY <2>9 DEF PurchaseOutcome, AlreadyPurchased, Reserved
<1> QED BY <1>1, WebInvariance, PTL DEF WebSpec, SoldOutOnlyToOthers

\* Composition: the page, the HTTP edge and the rest of the world together only
\* take steps of the sale store, so that every theorem about the store holds
\* under them.
THEOREM PageKeepsStore ==
    WebSpec => Spec
<1>1. WebInit => Init
    BY DEF WebInit
<1>2. WebInv /\ [WebNext]_webVars => [Next]_vars
    BY WebIsStoreStep DEF WebInv
<1> QED BY <1>1, <1>2, WebInvariance, PTL DEF WebSpec, Spec
=============================================================================
