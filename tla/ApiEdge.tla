------------------------------ MODULE ApiEdge ------------------------------
(***************************************************************************)
(* The HTTP edge of the API over the sale store: the limiters, the         *)
(* exception filter and the handlers of POST /api/purchase,                *)
(* GET /api/purchase/:userId and GET /api/sale/status.                     *)
(*                                                                         *)
(* A reply keeps its envelope (a purchase outcome, a sale snapshot, an     *)
(* order status, or the error envelope) and the fields that the browser    *)
(* acts on.  NoStock stands for stockRemaining: null.  The rows of the     *)
(* orders table belong to OrderPipeline: here a user who was issued a      *)
(* reservation may have a row of either status, or none yet.               *)
(***************************************************************************)
EXTENDS SaleStore

CONSTANT UserMax       \* RATE_LIMIT_USER_MAX

ASSUME UserMaxAssumption == UserMax \in Nat \ {0}

VARIABLE bucket        \* rl:u:<saleId>:<ip>:<user>: attempts counted in the fixed
                       \* window, 0 when the key has expired

Outcomes == {"CONFIRMED", "ALREADY_PURCHASED", "SOLD_OUT", "SALE_NOT_STARTED", "SALE_ENDED",
             "NOT_INITIALIZED", "INVALID_USER_ID", "RATE_LIMITED", "UPSTREAM_UNAVAILABLE"}

PurchaseEnvelope(outcome, remaining) ==
    [kind |-> "purchase", status |-> outcome, stock |-> remaining]
SaleEnvelope(remaining) == [kind |-> "sale", stock |-> remaining]
StatusEnvelope(purchased, order) ==
    [kind |-> "status", purchased |-> purchased, order |-> order]
ApiError == [kind |-> "error"]

-----------------------------------------------------------------------------
(* Errors: HttpExceptionFilter *)

\* Only the purchase route answers an outcome in the purchase envelope.
Respond(route, outcome) ==
    IF route = "purchase" THEN PurchaseEnvelope(outcome, NoStock) ELSE ApiError

\* What a thrown error becomes.  A body that does not parse counts as an invalid
\* user id; the IP limiter throws a complete envelope of its own; an exception
\* that carries an outcome is rendered as that outcome; nothing else leaks.
Rendered(route, thrown) ==
    CASE thrown = "body parse" -> Respond(route, "INVALID_USER_ID")
      [] thrown = "ip limit"   -> Respond(route, "RATE_LIMITED")
      [] thrown \in Outcomes   -> Respond(route, thrown)
      [] OTHER                 -> ApiError

-----------------------------------------------------------------------------
(* The limiters *)

\* RATE_LIMIT_USER_SCRIPT: open a window or count in the open one.  Counts beyond
\* the limit are alike, so the counter stops one above it.
RateLimitUserScript(u) ==
    bucket' = [bucket EXCEPT ![u] = IF @ > UserMax THEN @ ELSE @ + 1]

\* The key expires with its window, which later attempts do not extend.
WindowExpires(u) ==
    /\ bucket[u] > 0
    /\ bucket' = [bucket EXCEPT ![u] = 0]

\* PerUserRateLimitGuard.canActivate: an error of the limiter's store, whether
\* or not the script has run, admits the request.
CanActivate(u, admitted) ==
    \/ RateLimitUserScript(u) /\ admitted = (bucket'[u] <= UserMax)
    \/ RateLimitUserScript(u) /\ admitted = TRUE
    \/ UNCHANGED bucket /\ admitted = TRUE

-----------------------------------------------------------------------------
(* POST /api/purchase *)

\* The fast-path guard answers without the script, and only what is true
\* (AdvisoryGuard).
GuardOutcome == IF now < StartsAt THEN "SALE_NOT_STARTED" ELSE "SALE_ENDED"

GuardReply == PurchaseEnvelope(GuardOutcome, NoStock)

GuardRefuses ==
    /\ now < StartsAt \/ now >= EndsAt
    /\ UNCHANGED vars

\* The stockRemaining that purchase.lua returns, null before the sale is seeded.
Remaining(u) ==
    CASE PurchaseOutcome(u) = "NOT_INITIALIZED" -> NoStock
      [] PurchaseOutcome(u) = "CONFIRMED"       -> StockValue - 1
      [] OTHER                                  -> StockValue

ScriptReply(u) == PurchaseEnvelope(PurchaseOutcome(u), Remaining(u))
UnavailableReply == PurchaseEnvelope("UPSTREAM_UNAVAILABLE", NoStock)
PurchaseReplies(u) == {GuardReply, ScriptReply(u), UnavailableReply}

\* PurchaseService.purchase.  An error from Redis is answered
\* UPSTREAM_UNAVAILABLE, whether or not the script has run.
ServePurchase(u, r, reply) ==
    \/ reply = GuardReply /\ GuardRefuses
    \/ reply \in {ScriptReply(u), UnavailableReply} /\ Purchase(u, r)
    \/ reply = UnavailableReply /\ UNCHANGED vars

-----------------------------------------------------------------------------
(* GET /api/sale/status and GET /api/purchase/:userId *)

\* SaleService.getStatus: a sale without a counter is not initialized either.
SaleStatus ==
    IF ~seeded \/ stock < 0 THEN Rendered("sale", "NOT_INITIALIZED") ELSE SaleEnvelope(stock)

\* The rows readPersistedOrder may return; none also when Postgres is down.
OrderRows(u) == {"none"} \cup (IF issued[u] # {} THEN {"persisted", "compensated"} ELSE {})

\* PurchaseStatusService.getStatus: the row first, the buyers set without one.
StatusOfRow(u, row) ==
    IF row # "none" THEN StatusEnvelope(row = "persisted", row)
    ELSE StatusEnvelope(u \in buyers, IF u \in buyers THEN "reserved" ELSE "none")

PurchaseStatus(u) == {StatusOfRow(u, row) : row \in OrderRows(u)} \cup {ApiError}
=============================================================================
