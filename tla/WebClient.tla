----------------------------- MODULE WebClient -----------------------------
(***************************************************************************)
(* The page of one shopper (App.tsx and its hooks useSaleStatus and        *)
(* useOpsSnapshot) over the HTTP edge and the sale store.  The page edits  *)
(* and submits a user id, looks reservations up, polls the sale and the    *)
(* operations snapshot, is hidden and shown, and is closed; every call     *)
(* may be answered late or never.  Other shoppers, other tabs and          *)
(* abandoned requests are the free calls of SaleStore.                     *)
(*                                                                         *)
(* The steps of a component between two awaits are one action.  Wording    *)
(* is left out: interaction keeps the distinctions that the code tests.    *)
(***************************************************************************)
EXTENDS ApiEdge

CONSTANTS
    NoUser,        \* an empty (invalid) field; attemptedId = null
    MaxGestures    \* bound: edits, submits, lookups, hidings, retries and regular
                   \* polls together, after the first edit; an edit that aborts
                   \* a lookup is free

ASSUME NoUserAssumption == NoUser \notin Users
ASSUME GesturesAssumption == MaxGestures \in Nat

VARIABLES
    open,          \* the component is mounted
    visible,       \* document.visibilityState
    form,          \* userId, attemptedId, interaction
    buy,           \* the POST /api/purchase in flight
    rateWait,      \* rateUntil lies ahead
    look,          \* the lookups: the current one, superseded ones, checkResult
    poll,          \* useSaleStatus
    ops,           \* useOpsSnapshot
    orphan,        \* calls that an earlier mount aborted have not settled yet
    gestures

page == <<open, visible, form, buy, rateWait, look, poll, ops, orphan>>
webVars == <<vars, bucket, page, gestures>>

Interactions == {"idle", "submitting", "invalid", "confirmed", "refused", "rate_limited",
                 "unknown"}

NoBuy == [at |-> "none"]
NoLookup == [at |-> "none"]
NoResult == [copy |-> "none"]
NoFlight == [at |-> "none"]

FreshForm == [field |-> NoUser, attempted |-> NoUser, interaction |-> "idle"]
FreshLook == [own |-> NoLookup, old |-> {}, result |-> NoResult]
FreshPoll == [flight |-> NoFlight, queued |-> FALSE, timer |-> "off",
              shown |-> [stock |-> NoStock, fresh |-> TRUE],  \* sale, null without stock
              unavailable |-> FALSE]

\* Types, with the store's own and the range of its counter: a compensation
\* after a restore does not push it past totalStock.  The purchase in flight is
\* the one being submitted, and the lookup in flight is for the id in the field.
WebTypeOK ==
    /\ TypeOK /\ StockInRange
    /\ open \in BOOLEAN /\ visible \in BOOLEAN /\ rateWait \in BOOLEAN /\ orphan \in BOOLEAN
    /\ form \in [field : Users \cup {NoUser}, attempted : Users \cup {NoUser},
                 interaction : Interactions]
    /\ buy.at \in {"none", "sent", "admitted", "answered"}
    /\ (buy.at # "none") = (form.interaction = "submitting")
    /\ look.own # NoLookup => look.own.user = form.field
    /\ poll.timer \in {"off", "now", "later"}
    /\ poll.shown.stock \in NoStock..TotalStock
    /\ ops \in {"off", "running", "timer"}
    /\ bucket \in [Users -> 0..UserMax + 1]
    /\ gestures \in 0..MaxGestures

\* An aborted call rejects before the user or the network can do anything.
Gesture == ~orphan /\ gestures < MaxGestures /\ gestures' = gestures + 1

-----------------------------------------------------------------------------
(* useSaleStatus, as what its functions do to poll *)

Polled(p, seen) ==
    IF ~seen \/ p.flight # NoFlight
    THEN [p EXCEPT !.queued = TRUE]
    ELSE [p EXCEPT !.flight = [at |-> "sent"], !.queued = FALSE]

\* Mutant: a refresh during a flight is dropped.
RefreshedUnlessBusy(p, seen) ==
    IF p.flight # NoFlight THEN p ELSE Polled([p EXCEPT !.queued = TRUE, !.timer = "off"], seen)

Refreshed(p, seen) == Polled([p EXCEPT !.queued = TRUE, !.timer = "off"], seen)

\* applySnapshot: only onto a sale that is already shown.
SnapshotApplied(p, remaining) ==
    IF remaining = NoStock \/ p.shown.stock = NoStock THEN p
    ELSE [p EXCEPT !.shown = [stock |-> remaining, fresh |-> TRUE]]

\* The finally block of a flight that is still the page's own.
Landed(p) == [p EXCEPT !.flight = NoFlight, !.timer = IF p.queued THEN "now" ELSE "later"]

\* The client accepts a decodable snapshot of a successful response.
AcceptsSale(reply) == reply.kind = "sale" /\ reply.stock \in 0..TotalStock

-----------------------------------------------------------------------------
(* useOpsSnapshot *)

\* A poll fetches the metrics, the readiness or both, and runs until all have
\* settled.  A poll in progress swallows the call.
OpsPolled(o, seen) == IF seen /\ o # "running" THEN "running" ELSE o

OpsRefreshed(o, seen) == OpsPolled(IF o = "timer" THEN "off" ELSE o, seen)

-----------------------------------------------------------------------------

\* StrictMode mounts twice: the calls of the first mount are aborted.  The user
\* has typed a first id.
WebInit ==
    /\ Init
    /\ bucket = [u \in Users |-> 0]
    /\ open = TRUE
    /\ visible \in BOOLEAN
    /\ \E u \in Users : form = [FreshForm EXCEPT !.field = u]
    /\ buy = NoBuy
    /\ rateWait = FALSE
    /\ look = FreshLook
    /\ poll = Polled(FreshPoll, visible)
    /\ ops = OpsPolled("off", visible)
    /\ orphan \in {FALSE, visible}
    /\ gestures = 0

-----------------------------------------------------------------------------
(* The form *)

\* The lookup in flight, if any, is superseded: generation, abort, no result.
Superseded(l) ==
    [own |-> NoLookup, result |-> NoResult,
     old |-> IF l.own = NoLookup THEN l.old ELSE l.old \cup {l.own}]

\* changeUserId
ChangedForm(u) ==
    [form EXCEPT !.field = u,
                 !.interaction = IF form.attempted \notin {NoUser, u} THEN "idle" ELSE @]

\* Mutant: the input is not disabled while a purchase is submitted.
ChangeUserIdAnyTime(u) ==
    /\ open /\ u # form.field
    /\ IF look.own # NoLookup THEN UNCHANGED gestures ELSE Gesture
    /\ form' = ChangedForm(u)
    /\ look' = Superseded(look)
    /\ UNCHANGED <<vars, bucket, open, visible, buy, rateWait, poll, ops, orphan>>

\* The input is disabled while a purchase is submitted.
ChangeUserId(u) ==
    /\ open /\ u # form.field
    /\ form.interaction # "submitting"
    /\ IF look.own # NoLookup THEN UNCHANGED gestures ELSE Gesture
    /\ form' = ChangedForm(u)
    /\ look' = Superseded(look)
    /\ UNCHANGED <<vars, bucket, open, visible, buy, rateWait, poll, ops, orphan>>

\* derivePresentationState at the page's estimate t of the server's clock.
PresentationState(remaining, t) ==
    IF t < StartsAt THEN "upcoming"
    ELSE IF t >= EndsAt THEN "ended"
    ELSE IF remaining <= 0 THEN "sold_out"
    ELSE "active"

\* The buy button, with an estimate that is right up to one tick.
ButtonEnabled ==
    /\ poll.shown.stock # NoStock
    /\ form.interaction # "submitting"
    /\ ~(form.interaction = "confirmed" /\ form.attempted = form.field)
    /\ ~rateWait
    /\ \E t \in {now - 1, now, now + 1} : PresentationState(poll.shown.stock, t) = "active"

Submit ==
    /\ open /\ ButtonEnabled
    /\ Gesture
    /\ IF form.field = NoUser
       THEN /\ form' = [form EXCEPT !.interaction = "invalid"]
            /\ UNCHANGED buy
       ELSE /\ form' = [form EXCEPT !.attempted = form.field, !.interaction = "submitting"]
            /\ buy' = [at |-> "sent", user |-> form.field]
    /\ UNCHANGED <<vars, bucket, open, visible, rateWait, look, poll, ops, orphan>>

Answered(reply) == buy' = [at |-> "answered", user |-> buy.user, reply |-> reply]

\* The IP limiter, then the guard of the route.
BuyAdmission ==
    /\ buy.at = "sent"
    /\ \/ Answered(Rendered("purchase", "ip limit")) /\ UNCHANGED bucket
       \/ CanActivate(buy.user, TRUE) /\ buy' = [buy EXCEPT !.at = "admitted"]
       \/ CanActivate(buy.user, FALSE) /\ Answered(Rendered("purchase", "RATE_LIMITED"))
    /\ UNCHANGED <<vars, open, visible, form, rateWait, look, poll, ops, orphan, gestures>>

\* Observer: what the page has read or shows is older than its own reservation.
Aged(p) ==
    [p EXCEPT !.shown.fresh = FALSE,
              !.flight = IF p.flight.at = "read" THEN [p.flight EXCEPT !.fresh = FALSE] ELSE @]

BuyServed(r) ==
    /\ buy.at = "admitted"
    /\ \E reply \in PurchaseReplies(buy.user) :
          ServePurchase(buy.user, r, reply) /\ Answered(reply)
    /\ poll' = IF issued' = issued THEN poll ELSE Aged(poll)
    /\ UNCHANGED <<bucket, open, visible, form, rateWait, look, ops, orphan, gestures>>

\* outcomeFeedback
InteractionOf(outcome) ==
    CASE outcome = "CONFIRMED"       -> "confirmed"
      [] outcome = "RATE_LIMITED"    -> "rate_limited"
      [] outcome = "INVALID_USER_ID" -> "invalid"
      [] OTHER                       -> "refused"

\* The purchase envelope arrives: feedback, snapshot, refreshes.
BuyAnswered ==
    /\ buy.at = "answered" /\ buy.reply.kind = "purchase"
    /\ LET outcome == buy.reply.status
           applied == SnapshotApplied(poll, buy.reply.stock) IN
       /\ form' = [form EXCEPT !.interaction = InteractionOf(outcome)]
       /\ rateWait' = (rateWait \/ outcome = "RATE_LIMITED")
       /\ poll' = IF outcome \in {"ALREADY_PURCHASED", "INVALID_USER_ID", "RATE_LIMITED"}
                  THEN applied
                  ELSE Refreshed(applied, visible)
    /\ ops' = OpsRefreshed(ops, visible)
    /\ buy' = NoBuy
    /\ UNCHANGED <<vars, bucket, open, visible, look, orphan, gestures>>

\* The connection fails, at any time (there is no timeout).  A request that is
\* still on its way may yet be counted, and may yet buy: SaleStore's Purchase.
BuyFails ==
    /\ buy.at # "none"
    /\ form' = [form EXCEPT !.interaction = "unknown"]
    /\ buy' = NoBuy
    /\ UNCHANGED bucket \/ (buy.at = "sent" /\ RateLimitUserScript(buy.user))
    /\ UNCHANGED <<vars, open, visible, rateWait, look, poll, ops, orphan, gestures>>

\* The countdown of the button ends.
RateWaitEnds ==
    /\ open /\ rateWait
    /\ rateWait' = FALSE
    /\ form' = [form EXCEPT !.interaction = IF @ = "rate_limited" THEN "idle" ELSE @]
    /\ UNCHANGED <<vars, bucket, open, visible, buy, look, poll, ops, orphan, gestures>>

-----------------------------------------------------------------------------
(* Reservation lookups: check() *)

\* The button is disabled by a lookup or a purchase in flight.
Check ==
    /\ open /\ look.own = NoLookup /\ form.interaction # "submitting"
    /\ form.field # NoUser
    /\ Gesture
    /\ look' = [look EXCEPT !.own = [at |-> "sent", user |-> form.field], !.result = NoResult]
    /\ UNCHANGED <<vars, bucket, open, visible, form, buy, rateWait, poll, ops, orphan>>

Read(l, reply) == [at |-> "read", user |-> l.user, reply |-> reply]

CheckServed ==
    /\ look.own.at = "sent"
    /\ \E reply \in PurchaseStatus(look.own.user) : look' = [look EXCEPT !.own = Read(@, reply)]
    /\ UNCHANGED <<vars, bucket, open, visible, form, buy, rateWait, poll, ops, orphan, gestures>>

\* Mutant: the answer of any lookup is taken.
OwnsAnyLookup(l) == TRUE

OwnsLookup(l) == l = look.own

\* statusCopy; an order that contradicts "purchased" does not decode.
CopyOf(reply) ==
    IF reply.kind # "status" THEN "unavailable"
    ELSE IF reply.purchased THEN "found"
    ELSE IF reply.order = "compensated" THEN "released"
    ELSE "not found"

ShownResult(l) ==
    {[user |-> l.user, copy |-> "unavailable"]} \cup
    (IF l.at = "read" THEN {[user |-> l.user, copy |-> CopyOf(l.reply)]} ELSE {})

\* An answer, an error or the timeout of 4 s.  A superseded lookup returns.
CheckSettles(l) ==
    /\ IF OwnsLookup(l)
       THEN \E result \in ShownResult(l) :
               look' = [own |-> NoLookup, old |-> look.old \ {l}, result |-> result]
       ELSE look' = [look EXCEPT !.old = @ \ {l}]
    /\ UNCHANGED <<vars, bucket, open, visible, form, buy, rateWait, poll, ops, orphan, gestures>>

-----------------------------------------------------------------------------
(* Polling *)

\* A regular poll counts as a gesture, an immediate one does not.
PollTimer ==
    /\ poll.timer # "off"
    /\ IF poll.timer = "later" THEN Gesture ELSE UNCHANGED gestures
    /\ poll' = Polled([poll EXCEPT !.timer = "off"], visible)
    /\ UNCHANGED <<vars, bucket, open, visible, form, buy, rateWait, look, ops, orphan>>

PollServed ==
    /\ poll.flight.at = "sent" /\ ~orphan
    /\ poll' = [poll EXCEPT !.flight = [at |-> "read", reply |-> SaleStatus, fresh |-> TRUE]]
    /\ UNCHANGED <<vars, bucket, open, visible, form, buy, rateWait, look, ops, orphan, gestures>>

PollAnswered ==
    /\ poll.flight.at = "read" /\ AcceptsSale(poll.flight.reply)
    /\ poll' = [Landed(poll) EXCEPT
                  !.shown = [stock |-> poll.flight.reply.stock, fresh |-> poll.flight.fresh],
                  !.unavailable = FALSE]
    /\ UNCHANGED <<vars, bucket, open, visible, form, buy, rateWait, look, ops, orphan, gestures>>

\* An error envelope, a lost reply, the IP limiter or the timeout of 4 s.
PollFails ==
    /\ poll.flight # NoFlight /\ ~orphan
    /\ poll' = [Landed(poll) EXCEPT !.unavailable = TRUE]
    /\ UNCHANGED <<vars, bucket, open, visible, form, buy, rateWait, look, ops, orphan, gestures>>

\* The timer is set for the resource that is due first.
OpsTimer ==
    /\ ops = "timer"
    /\ ops' = OpsPolled("off", visible)
    /\ UNCHANGED <<vars, bucket, open, visible, form, buy, rateWait, look, poll, orphan, gestures>>

\* All resources of the poll are answered, or have failed.
OpsSettles ==
    /\ ops = "running" /\ ~orphan
    /\ ops' = "timer"
    /\ UNCHANGED <<vars, bucket, open, visible, form, buy, rateWait, look, poll, orphan, gestures>>

\* Mutant: the aborted call of an earlier mount ends the flight of this one.
OrphanEndsFlight ==
    /\ orphan
    /\ orphan' = FALSE
    /\ poll' = [poll EXCEPT !.flight = NoFlight]
    /\ UNCHANGED <<vars, bucket, open, visible, form, buy, rateWait, look, ops, gestures>>

\* The generation and the controller of the call are no longer the page's.
OrphanSettles ==
    /\ orphan
    /\ orphan' = FALSE
    /\ UNCHANGED <<vars, bucket, open, visible, form, buy, rateWait, look, poll, ops, gestures>>

Hide ==
    /\ open /\ visible
    /\ Gesture
    /\ visible' = FALSE
    /\ UNCHANGED <<vars, bucket, open, form, buy, rateWait, look, poll, ops, orphan>>

Show ==
    /\ open /\ ~visible
    /\ visible' = TRUE
    /\ poll' = Refreshed(poll, TRUE)
    /\ ops' = OpsRefreshed(ops, TRUE)
    /\ UNCHANGED <<vars, bucket, open, form, buy, rateWait, look, orphan, gestures>>

\* The button of the banner.
Retry ==
    /\ open /\ poll.unavailable
    /\ Gesture
    /\ poll' = Refreshed(poll, visible)
    /\ ops' = OpsRefreshed(ops, visible)
    /\ UNCHANGED <<vars, bucket, open, visible, form, buy, rateWait, look, orphan>>

\* Every call is aborted, every timer cleared, and the state is gone.
Unmount ==
    /\ open
    /\ open' = FALSE
    /\ form' = FreshForm /\ buy' = NoBuy /\ rateWait' = FALSE /\ look' = FreshLook
    /\ poll' = FreshPoll /\ ops' = "off"
    /\ orphan' = (poll.flight # NoFlight \/ ops = "running" \/ buy # NoBuy \/ look.own # NoLookup)
    /\ UNCHANGED <<vars, bucket, visible, gestures>>

-----------------------------------------------------------------------------

\* The rest of the world: other clients, workers, operators, time.
Others ==
    \/ Next /\ UNCHANGED <<bucket, page, gestures>>
    \/ \E u \in Users : WindowExpires(u) /\ UNCHANGED <<vars, page, gestures>>

WebNext ==
    \/ \E u \in Users \cup {NoUser} : ChangeUserId(u)
    \/ Submit \/ BuyAdmission \/ (\E r \in Rids : BuyServed(r)) \/ BuyAnswered \/ BuyFails
    \/ RateWaitEnds
    \/ Check \/ CheckServed
    \/ \E l \in look.old \cup ({look.own} \ {NoLookup}) : CheckSettles(l)
    \/ PollTimer \/ PollServed \/ PollAnswered \/ PollFails
    \/ OpsTimer \/ OpsSettles
    \/ OrphanSettles
    \/ Hide \/ Show \/ Retry \/ Unmount
    \/ Others

WebSpec == WebInit /\ [][WebNext]_webVars

-----------------------------------------------------------------------------
(* Properties *)

\* "Card secured", "Too many attempts" and "Result unknown" are about the id in
\* the field, and a secured card was really reserved: no answer to an earlier
\* submission is ever shown for another id, however late it comes.
FeedbackIsForField ==
    /\ form.interaction \in {"confirmed", "refused", "rate_limited", "unknown"} =>
          form.attempted = form.field
    /\ form.interaction = "confirmed" => issued[form.field] # {}

\* The lookup result on the screen answers the last lookup, for the id in the
\* field: an answer to a superseded lookup never takes its place, and "found"
\* is only said of a user who was issued a reservation.
LookupIsCurrent ==
    /\ look.own # NoLookup => look.result = NoResult
    /\ look.result # NoResult =>
          /\ look.result.user = form.field
          /\ look.result.copy = "found" => issued[look.result.user] # {}

\* Polling never dies and never outlives the page: while the page is open and
\* visible each hook has a call in flight or a timer set, and a closed page has
\* neither, although flights, refreshes, timers and visibility overlap freely.
PollingFollowsPage ==
    /\ open /\ visible =>
          /\ poll.flight # NoFlight \/ poll.timer # "off"
          /\ ops # "off"
    /\ ~open => poll.flight = NoFlight /\ poll.timer = "off" /\ ops = "off"

\* After a confirmed purchase, a poll that was read before it may land after its
\* answer and put the old stock back on the screen; then a newer read is already
\* on its way, or due at once, unless the last poll failed.
OldSnapshotIsReplaced ==
    form.interaction = "confirmed" /\ ~poll.shown.fresh =>
        \/ poll.flight.at = "sent"
        \/ poll.flight.at = "read" /\ (poll.flight.fresh \/ poll.queued)
        \/ poll.timer = "now"
        \/ ~visible /\ poll.queued
        \/ poll.unavailable

\* A shopper who retries after an unknown result is not told "Sold out" about a
\* unit that is already reserved for them.
SoldOutOnlyToOthers ==
    [][buy'.at = "answered" /\ buy.at = "admitted" /\ buy'.reply.status = "SOLD_OUT" =>
          buy.user \notin Reserved]_webVars
=============================================================================
