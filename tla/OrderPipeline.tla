--------------------------- MODULE OrderPipeline ---------------------------
(***************************************************************************)
(* From a confirmed purchase to a durable order.  The module composes      *)
(*                                                                         *)
(*   - the API, which runs purchase.lua and then tries to enqueue a job;   *)
(*   - the BullMQ orders queue, which holds at most one job per user (the  *)
(*     job id is "<saleId>-<userId>");                                     *)
(*   - the worker's processors, which persist an order in a Postgres       *)
(*     transaction, and may outlive the job lock (stalled jobs);           *)
(*   - the worker's maintenance chain: reconciliation passes (runDiff) and *)
(*     DLQ sweeps (sweepFailed), one at a time under the session lock.     *)
(*                                                                         *)
(* Every Redis script, queue command and Postgres commit is a step of its  *)
(* own, so that all the components interleave between them.                *)
(***************************************************************************)
EXTENDS SaleScripts

CONSTANTS
    Attempts,          \* ORDERS_JOB_ATTEMPTS
    MaxStalledCount,   \* ORDERS_MAX_STALLED_COUNT
    MaxNow,            \* bound: last instant of the clock
    MaxCrashes,        \* bound: crashes of the worker process, and passes or
                       \* sweeps that end in an error of Redis or Postgres
    MaxResolveAborts,  \* bound: resolutions that compensated in Redis and then
                       \* lost their Postgres transaction
    MaxLosses,         \* bound: reservation fields lost from the Redis hash
    LateAdds           \* TRUE: queue.add of the API may still land after its
                       \* reservation has been compensated

ASSUME AttemptsAssumption == Attempts \in Nat \ {0} /\ MaxStalledCount \in Nat
ASSUME PipelineBounds ==
    /\ MaxNow \in Nat /\ MaxCrashes \in Nat
    /\ MaxResolveAborts \in Nat /\ MaxLosses \in Nat
    /\ LateAdds \in BOOLEAN

VARIABLES
    (***********************************************************************)
    (* Durable state besides the sale keys                                 *)
    (***********************************************************************)
    row,        \* Postgres orders: user -> [id, status]
    job,        \* BullMQ: user -> [id, state, attempts, stalls]
    (***********************************************************************)
    (* The API                                                             *)
    (***********************************************************************)
    issued,     \* user -> reservation ids generated by confirmed purchases
    pending,    \* <<user, id>>: queue.add called but not yet landed
    (***********************************************************************)
    (* The worker                                                          *)
    (***********************************************************************)
    consuming,  \* boot reconciliation done, the consumer runs
    proc,       \* running processors: [user, id, own, stage]
    phase,      \* where the maintenance chain is
    byUser,     \* runDiff: the order rows as scanned
    scanned,    \* runDiff: identities as scanned, of the live jobs and then of
                \* the ledger entries
    todo,       \* users the current loop has still to visit
    task,       \* the user being visited, and how far
    failed,     \* the sweep met an operational error
    (***********************************************************************)
    (* Fault budgets used so far                                           *)
    (***********************************************************************)
    crashes, aborts, losses,
    (***********************************************************************)
    (* Observer                                                            *)
    (***********************************************************************)
    credited    \* user -> id -> compensations that incremented the counter
                \* (0, 1, or 2 for "more than once")

queueVars  == <<row, job>>
apiVars    == <<issued, pending>>
passVars   == <<phase, byUser, scanned, todo, task, failed>>
faultVars  == <<crashes, aborts, losses>>
vars == <<saleKeys, now, queueVars, apiVars, consuming, proc, passVars, faultVars,
          credited>>

-----------------------------------------------------------------------------
(* Data *)

NoRow == [id |-> NoRid, status |-> "none"]
NoJob == [id |-> NoRid, state |-> "none", attempts |-> 0, stalls |-> 0]
NoTask == [step |-> "none"]

Rows == {NoRow} \cup [id : Rids, status : {"persisted", "compensated"}]
Jobs == {NoJob} \cup
        [id : Rids, state : {"waiting", "active", "completed", "failed"},
         attempts : 0..Attempts, stalls : 0..(MaxStalledCount + 1)]
Procs == [user : Users, id : Rids, own : BOOLEAN,
          stage : {"start", "insert", "promote", "done", "error"}]
Phases == {"idle", "scanJobs", "restoreRows", "restoreJobs", "repair",
           "buyers", "stock", "scanFailed", "dlq"}

\* BullMQ's delayed (backing off) and waiting are told apart by no code here.
LiveStates == {"waiting", "active", "failed"}

Persisted == {u \in Users : row[u].status = "persisted"}

IsPersisted(r, id)   == r.status = "persisted" /\ r.id = id
IsCompensated(r, id) == r.status = "compensated" /\ r.id = id

TypeOK ==
    /\ SaleTypeOK
    /\ row \in [Users -> Rows]
    /\ job \in [Users -> Jobs]
    /\ issued \in [Users -> SUBSET Rids]
    /\ pending \subseteq Users \X Rids
    /\ consuming \in BOOLEAN
    /\ proc \subseteq Procs
    /\ phase \in Phases
    /\ byUser \in [Users -> Rows]
    /\ scanned \in [Users -> Rids \cup {NoRid}]
    /\ todo \subseteq Users
    /\ task # NoTask => task.user \in Users
    /\ failed \in BOOLEAN
    /\ crashes \in 0..MaxCrashes
    /\ aborts \in 0..MaxResolveAborts
    /\ losses \in 0..MaxLosses
    /\ credited \in [Users -> [Rids -> 0..2]]

\* The worker has seeded the sale and its first boot pass is over.
Init ==
    /\ seeded = TRUE
    /\ stock = TotalStock
    /\ buyers = {}
    /\ reservations = [u \in Users |-> NoRid]
    /\ now = 0
    /\ row = [u \in Users |-> NoRow]
    /\ job = [u \in Users |-> NoJob]
    /\ issued = [u \in Users |-> {}]
    /\ pending = {}
    /\ consuming = TRUE
    /\ proc = {}
    /\ phase = "idle"
    /\ byUser = [u \in Users |-> NoRow]
    /\ scanned = [u \in Users |-> NoRid]
    /\ todo = {}
    /\ task = NoTask
    /\ failed = FALSE
    /\ crashes = 0 /\ aborts = 0 /\ losses = 0
    /\ credited = [u \in Users |-> [r \in Rids |-> 0]]

Tick ==
    /\ now < MaxNow
    /\ now' = now + 1
    /\ UNCHANGED <<saleKeys, queueVars, apiVars, consuming, proc, passVars, faultVars, credited>>

-----------------------------------------------------------------------------
(* The API: PurchaseService.purchase and enqueueConfirmedOrder *)

\* queue.add under a job id that exists is a no-op, whatever its payload.
QueueAdd(u, id) ==
    job' = IF job[u] = NoJob
           THEN [job EXCEPT ![u] = [NoJob EXCEPT !.id = id, !.state = "waiting"]]
           ELSE job

\* randomUUID(): which fresh id is drawn makes no difference.
FreshRid(u) == CHOOSE r \in Rids : r \notin issued[u]

Purchase(u) ==
    /\ Rids \ issued[u] # {}
    /\ PurchaseScript(u, FreshRid(u))
    /\ IF PurchaseOutcome(u) = "CONFIRMED"
       THEN /\ issued' = [issued EXCEPT ![u] = @ \cup {FreshRid(u)}]
            /\ pending' = pending \cup {<<u, FreshRid(u)>>}
       ELSE UNCHANGED apiVars
    /\ UNCHANGED <<now, queueVars, consuming, proc, passVars, faultVars, credited>>

EnqueueLands(u, r) ==
    /\ <<u, r>> \in pending
    /\ LateAdds \/ reservations[u] = r
    /\ QueueAdd(u, r)
    /\ pending' = pending \ {<<u, r>>}
    /\ UNCHANGED <<saleKeys, now, row, issued, consuming, proc, passVars, faultVars, credited>>

\* Both attempts failed, the API crashed, or the reply of purchase.lua was lost:
\* the purchase stands and nothing is compensated.
EnqueueFails(u, r) ==
    /\ <<u, r>> \in pending
    /\ pending' = pending \ {<<u, r>>}
    /\ UNCHANGED <<saleKeys, now, queueVars, issued, consuming, proc, passVars, faultVars, credited>>

-----------------------------------------------------------------------------
(* Postgres locks.  A transaction first takes the advisory lock of its      *)
(* reservation and then the user's row (by the unique index when it inserts *)
(* it, by FOR UPDATE when it exists), and keeps both until it ends.         *)

WritingStages == {"insert", "promote"}

ResolverIn(u) == task # NoTask /\ task.user = u /\ task.step \in {"compensate", "commit"}

\* Mutant: pg_advisory_xact_lock is not taken.
NeverAdvisoryLocked(u, id) == FALSE

AdvisoryLocked(u, id) ==
    \/ \E p \in proc : p.user = u /\ p.id = id /\ p.stage \in WritingStages
    \/ ResolverIn(u) /\ task.id = id

RowLocked(u) ==
    \/ \E p \in proc : p.user = u /\ p.stage \in WritingStages
    \/ ResolverIn(u) /\ task.row # NoRow

-----------------------------------------------------------------------------
(* The consumer: BullMQ hands a job to OrderProcessor.process, which calls  *)
(* OrderRepository.persist.                                                 *)

Advance(p, stage) == proc' = (proc \ {p}) \cup {[p EXCEPT !.stage = stage]}

StartJob(u) ==
    /\ consuming
    /\ job[u].state = "waiting"
    /\ job' = [job EXCEPT ![u].state = "active"]
    /\ proc' = proc \cup {[user |-> u, id |-> job[u].id, own |-> TRUE, stage |-> "start"]}
    /\ UNCHANGED <<saleKeys, now, row, apiVars, consuming, passVars, faultVars, credited>>

\* Mutant: a compensated row is promoted without asking the ledger.
PersistWithoutLedger(u, id) ==
    IF row[u] = NoRow THEN "insert"
    ELSE IF row[u].id = id THEN "done"
    ELSE IF row[u].status = "compensated" THEN "promote"
    ELSE "error"

\* Mutant: the row is promoted whatever its status is.
PersistOverPersisted(u, id) ==
    IF row[u] = NoRow THEN "insert"
    ELSE IF row[u].id = id THEN "done"
    ELSE IF reservations[u] = id THEN "promote"
    ELSE "error"

\* INSERT ... ON CONFLICT DO NOTHING, then what the row and the ledger say.
PersistDecision(u, id) ==
    IF row[u] = NoRow THEN "insert"
    ELSE IF row[u].id = id THEN "done"
    ELSE IF row[u].status = "compensated" /\ reservations[u] = id THEN "promote"
    ELSE "error"

PersistBegin(p) ==
    /\ p.stage = "start"
    /\ ~AdvisoryLocked(p.user, p.id)
    /\ ~RowLocked(p.user)
    /\ Advance(p, PersistDecision(p.user, p.id))
    /\ UNCHANGED <<saleKeys, now, queueVars, apiVars, consuming, passVars, faultVars, credited>>

\* The commit may succeed although its acknowledgement is lost.
PersistCommit(p) ==
    /\ p.stage \in WritingStages
    /\ row' = [row EXCEPT ![p.user] = [id |-> p.id, status |-> "persisted"]]
    /\ Advance(p, "done") \/ Advance(p, "error")
    /\ UNCHANGED <<saleKeys, now, job, apiVars, consuming, passVars, faultVars, credited>>

PersistAbort(p) ==
    /\ p.stage \in {"start"} \cup WritingStages
    /\ Advance(p, "error")
    /\ UNCHANGED <<saleKeys, now, queueVars, apiVars, consuming, passVars, faultVars, credited>>

\* BullMQ moves the job only for the processor that still owns its lock.
FinishedJob(p) ==
    IF p.stage = "done" THEN [job[p.user] EXCEPT !.state = "completed"]
    ELSE [job[p.user] EXCEPT
            !.attempts = @ + 1,
            !.state = IF job[p.user].attempts + 1 >= Attempts THEN "failed" ELSE "waiting"]

FinishJob(p) ==
    /\ p.stage \in {"done", "error"}
    /\ job' = IF p.own THEN [job EXCEPT ![p.user] = FinishedJob(p)] ELSE job
    /\ proc' = proc \ {p}
    /\ UNCHANGED <<saleKeys, now, row, apiVars, consuming, passVars, faultVars, credited>>

\* The stalled check of any worker: the lock expired, with its processor dead
\* or merely slow.  A slow processor runs on without the lock.
Stall(u) ==
    /\ job[u].state = "active"
    /\ job' = [job EXCEPT ![u].stalls = @ + 1,
                          ![u].state = IF job[u].stalls >= MaxStalledCount
                                       THEN "failed" ELSE "waiting"]
    /\ proc' = {IF p.user = u THEN [p EXCEPT !.own = FALSE] ELSE p : p \in proc}
    /\ UNCHANGED <<saleKeys, now, row, apiVars, consuming, passVars, faultVars, credited>>

\* removeOnComplete: { count: 1000 }: completed jobs disappear at some point.
EvictCompleted(u) ==
    /\ job[u].state = "completed"
    /\ job' = [job EXCEPT ![u] = NoJob]
    /\ UNCHANGED <<saleKeys, now, row, apiVars, consuming, proc, passVars, faultVars, credited>>

-----------------------------------------------------------------------------
(* ReconciliationService.runDiff, under the session lock *)

ForgetSnapshot ==
    /\ byUser' = [u \in Users |-> NoRow]
    /\ scanned' = [u \in Users |-> NoRid]

\* A pass or a sweep that throws, or returns.
Leave ==
    /\ phase' = "idle"
    /\ todo' = {}
    /\ task' = NoTask
    /\ failed' = FALSE
    /\ ForgetSnapshot

\* Frame of the steps of a pass that leave the queue and Postgres alone.
PassFrame == UNCHANGED <<now, queueVars, apiVars, consuming, proc, faultVars, credited>>

\* scanOrders.  At boot the pass waits until no job is active.
StartPass ==
    /\ phase = "idle"
    /\ consuming \/ \A u \in Users : job[u].state # "active"
    /\ phase' = "scanJobs"
    /\ byUser' = row
    /\ UNCHANGED <<saleKeys, scanned, todo, task, failed>>
    /\ PassFrame

\* scanJobs lists one state after the other, so a job that moves between lists
\* may be missed; a failed job cannot move.
ScanJobs ==
    /\ phase = "scanJobs"
    /\ \E missed \in SUBSET {u \in Users : job[u].state \in {"waiting", "active"}} :
          scanned' = [u \in Users |-> IF job[u].state \in LiveStates /\ u \notin missed
                                     THEN job[u].id ELSE NoRid]
    /\ phase' = "restoreRows"
    /\ todo' = {u \in Users : byUser[u].status = "persisted"}
    /\ UNCHANGED <<saleKeys, byUser, task, failed>>
    /\ PassFrame

\* for (const order of orders): put persisted identities back in the ledger.
RestoreRow(u) ==
    /\ phase = "restoreRows" /\ task = NoTask
    /\ u \in todo
    /\ CompareRestoreScript(u, byUser[u].id)
    /\ todo' = todo \ {u}
    /\ task' = IF RestoreOutcome(u, byUser[u].id) = "CONFLICT"
               THEN [step |-> "ensure", user |-> u, id |-> reservations[u],
                     member |-> FALSE, targeted |-> "no", handle |-> NoRid]
               ELSE NoTask
    /\ UNCHANGED <<phase, byUser, scanned, failed>>
    /\ PassFrame

\* Mutant: jobs whose reservation was already compensated are restored too.
RestoreCompensatedToo ==
    /\ phase = "restoreRows" /\ todo = {} /\ task = NoTask
    /\ phase' = "restoreJobs"
    /\ todo' = {u \in Users : scanned[u] # NoRid}
    /\ UNCHANGED <<saleKeys, byUser, scanned, task, failed>>
    /\ PassFrame

RestoreRowsDone ==
    /\ phase = "restoreRows" /\ todo = {} /\ task = NoTask
    /\ phase' = "restoreJobs"
    /\ todo' = {u \in Users : scanned[u] # NoRid /\ ~IsCompensated(byUser[u], scanned[u])}
    /\ UNCHANGED <<saleKeys, byUser, scanned, task, failed>>
    /\ PassFrame

\* for (const item of jobs): a conflict is only an incident.
RestoreJob(u) ==
    /\ phase = "restoreJobs"
    /\ u \in todo
    /\ CompareRestoreScript(u, scanned[u])
    /\ todo' = todo \ {u}
    /\ UNCHANGED <<phase, byUser, scanned, task, failed>>
    /\ PassFrame

\* scanLedger
ScanLedger ==
    /\ phase = "restoreJobs" /\ todo = {}
    /\ phase' = "repair"
    /\ todo' = Reserved
    /\ scanned' = reservations
    /\ UNCHANGED <<saleKeys, byUser, task, failed>>
    /\ PassFrame

\* Mutant: the buyers set is repaired and the lost job is not.
RepairMembersOnly(u) ==
    /\ phase = "repair" /\ task = NoTask
    /\ u \in todo
    /\ todo' = todo \ {u}
    /\ task' = [step |-> "member", user |-> u, id |-> scanned[u], member |-> TRUE,
                targeted |-> "no", handle |-> NoRid]
    /\ UNCHANGED <<saleKeys, phase, byUser, scanned, failed>>
    /\ PassFrame

\* for (const entry of ledger): the identity is the one that was scanned.
RepairEntry(u) ==
    /\ phase = "repair" /\ task = NoTask
    /\ u \in todo
    /\ todo' = todo \ {u}
    /\ task' = [step |-> IF IsPersisted(byUser[u], scanned[u]) THEN "member" ELSE "ensure",
                user |-> u, id |-> scanned[u], member |-> TRUE, targeted |-> "no",
                handle |-> NoRid]
    /\ UNCHANGED <<saleKeys, phase, byUser, scanned, failed>>
    /\ PassFrame

-----------------------------------------------------------------------------
(* ensureLiveReservationQueued: make sure a job carries the live reservation *)

\* The job it looks at: the one under the user's job id, or the one whose handle
\* the adjudication fetched earlier, of which only the state is read again.
CurrentJob ==
    IF task.targeted = "no" THEN job[task.user]
    ELSE [id |-> task.handle, state |-> job[task.user].state]

EnsureDecision(current, live, durable) ==
    IF current.id = NoRid THEN "add"
    ELSE IF current.id = live
         THEN IF current.state \in LiveStates \/ IsPersisted(durable, live) THEN "covered"
              ELSE IF current.state = "completed" THEN "remove" ELSE "collision"
    ELSE IF current.state \notin {"active", "none"} /\ durable.id = current.id
         THEN "remove" ELSE "collision"

\* What the caller does next: the final inspection of an adjudication, a
\* membership repair, or the next user.
AfterEnsure ==
    IF task.targeted = "restore"
    THEN [step |-> "reinspect", user |-> task.user, handle |-> task.handle]
    ELSE IF task.member THEN [task EXCEPT !.step = "member"] ELSE NoTask

EnsureQueued ==
    /\ task.step = "ensure"
    /\ LET decision == EnsureDecision(CurrentJob, task.id, byUser[task.user]) IN
       IF decision = "collision" /\ task.targeted = "inspect"
       THEN Leave
       ELSE /\ task' = IF decision \in {"add", "remove"}
                       THEN [task EXCEPT !.step = decision]
                       ELSE AfterEnsure
            /\ UNCHANGED <<phase, byUser, scanned, todo, failed>>
    /\ UNCHANGED saleKeys
    /\ PassFrame

\* current.remove() throws when a processor has meanwhile locked the job.
RemoveStaleJob ==
    /\ task.step = "remove"
    /\ IF job[task.user].state = "active"
       THEN Leave /\ UNCHANGED job
       ELSE /\ job' = [job EXCEPT ![task.user] = NoJob]
            /\ task' = [task EXCEPT !.step = "add"]
            /\ UNCHANGED <<phase, byUser, scanned, todo, failed>>
    /\ UNCHANGED <<saleKeys, now, row, apiVars, consuming, proc, faultVars, credited>>

\* enqueueAfterRemoval / enqueueLiveReservation; a raced job is left in place.
EnqueueLive ==
    /\ task.step = "add"
    /\ QueueAdd(task.user, task.id)
    /\ IF task.targeted = "inspect" /\ job'[task.user].id # task.id
       THEN Leave
       ELSE /\ task' = AfterEnsure
            /\ UNCHANGED <<phase, byUser, scanned, todo, failed>>
    /\ UNCHANGED <<saleKeys, now, row, apiVars, consuming, proc, faultVars, credited>>

\* The loop over the ledger ignores the reply; a buyer that was inspected must
\* be PRESENT now.
RepairMembership ==
    /\ task.step = "member"
    /\ ReconcileMembershipScript(task.user)
    /\ IF phase = "buyers" /\ task.user \notin Reserved
       THEN Leave
       ELSE task' = NoTask /\ UNCHANGED <<phase, byUser, scanned, todo, failed>>
    /\ PassFrame

-----------------------------------------------------------------------------
(* The buyers scan of runDiff and adjudicateBuyerOnly *)

ScanBuyers ==
    /\ phase = "repair" /\ todo = {} /\ task = NoTask
    /\ phase' = "buyers"
    /\ todo' = {u \in buyers : scanned[u] = NoRid}
    /\ UNCHANGED <<saleKeys, byUser, scanned, task, failed>>
    /\ PassFrame

EnsureInspected(u, targeted, handle) ==
    [step |-> "ensure", user |-> u, id |-> reservations[u],
     member |-> InspectMembership(u) = "RESERVATION_ONLY", targeted |-> targeted,
     handle |-> handle]

InspectBuyer(u) ==
    /\ phase = "buyers" /\ task = NoTask
    /\ u \in todo
    /\ todo' = todo \ {u}
    /\ task' = CASE InspectMembership(u) = "NEITHER"    -> NoTask
                 [] InspectMembership(u) = "BUYER_ONLY" -> [step |-> "readRow", user |-> u]
                 [] OTHER                               -> EnsureInspected(u, "no", NoRid)
    /\ UNCHANGED <<saleKeys, phase, byUser, scanned, failed>>
    /\ PassFrame

\* The adjudication re-reads the row and then the job of the user.
AdjudicateReadRow ==
    /\ task.step = "readRow"
    /\ byUser' = IF row[task.user] = NoRow THEN byUser
                 ELSE [byUser EXCEPT ![task.user] = row[task.user]]
    /\ task' = [step |-> "readJob", user |-> task.user, row |-> row[task.user]]
    /\ UNCHANGED <<saleKeys, phase, scanned, todo, failed>>
    /\ PassFrame

AdjudicateReadJob ==
    /\ task.step = "readJob"
    /\ task' = [step |-> "adjudicate", user |-> task.user, row |-> task.row,
                id |-> IF job[task.user].state \in LiveStates
                       THEN job[task.user].id ELSE NoRid,
                handle |-> job[task.user].id]
    /\ UNCHANGED <<saleKeys, phase, byUser, scanned, todo, failed>>
    /\ PassFrame

\* The identity to restore; NoRid when the buyer can only be dropped.
Candidate == IF task.row.status = "persisted" THEN task.row.id ELSE task.id

Unrecoverable ==
    \/ task.row = NoRow /\ task.id = NoRid
    \/ task.row.status = "persisted" /\ task.id \notin {NoRid, task.row.id}

\* applyRecoveryCandidate: when a durable order meets another reservation, that
\* one is given a job first.
Recover ==
    /\ CompareRestoreScript(task.user, Candidate)
    /\ task' = IF /\ RestoreOutcome(task.user, Candidate) = "CONFLICT"
                  /\ task.row.status = "persisted"
               THEN [step |-> "ensure", user |-> task.user, id |-> reservations[task.user],
                     member |-> FALSE, targeted |-> "restore", handle |-> task.handle]
               ELSE [step |-> "reinspect", user |-> task.user, handle |-> task.handle]

\* Only a compensated row speaks for the buyer: the entry is dropped, unless a
\* reservation has appeared.
DropBuyer ==
    /\ ReconcileMembershipScript(task.user)
    /\ task' = [step |-> "reinspect", user |-> task.user, handle |-> task.handle]

Adjudicate ==
    /\ task.step = "adjudicate"
    /\ \/ Unrecoverable /\ UNCHANGED saleKeys /\ Leave
       \/ /\ ~Unrecoverable /\ Candidate # NoRid
          /\ Recover
          /\ UNCHANGED <<phase, byUser, scanned, todo, failed>>
       \/ /\ ~Unrecoverable /\ Candidate = NoRid /\ task.user \notin Reserved
          /\ DropBuyer
          /\ UNCHANGED <<phase, byUser, scanned, todo, failed>>
       \/ /\ ~Unrecoverable /\ Candidate = NoRid /\ task.user \in Reserved
          /\ ReconcileMembershipScript(task.user)
          /\ Leave
    /\ PassFrame

AdjudicateReinspect ==
    /\ task.step = "reinspect"
    /\ IF InspectMembership(task.user) = "BUYER_ONLY"
       THEN Leave
       ELSE /\ task' = IF InspectMembership(task.user) = "NEITHER" THEN NoTask
                       ELSE EnsureInspected(task.user, "inspect", task.handle)
            /\ UNCHANGED <<phase, byUser, scanned, todo, failed>>
    /\ UNCHANGED saleKeys
    /\ PassFrame

BuyersDone ==
    /\ phase = "buyers" /\ todo = {} /\ task = NoTask
    /\ phase' = "stock"
    /\ ForgetSnapshot
    /\ UNCHANGED <<saleKeys, todo, task, failed>>
    /\ PassFrame

\* reconcileStockFromReservations; anything but RECONCILED fails the pass.
ReconcileStock ==
    /\ phase = "stock"
    /\ ReconcileStateScript
    /\ phase' = IF ReconcileStateOutcome = "RECONCILED" THEN "scanFailed" ELSE "idle"
    /\ UNCHANGED <<byUser, scanned, todo, task, failed>>
    /\ PassFrame

-----------------------------------------------------------------------------
(* sweepFailed and OrderRepository.resolveFailed *)

\* The DLQ timer and the failed hint run a sweep on its own.
StartSweep ==
    /\ phase = "idle"
    /\ consuming
    /\ phase' = "scanFailed"
    /\ UNCHANGED <<saleKeys, byUser, scanned, todo, task, failed>>
    /\ PassFrame

\* One page of the failed jobs; failedScanOffset moves on from sweep to sweep, so
\* any page may be the next.
ListFailed ==
    /\ phase = "scanFailed"
    /\ phase' = "dlq"
    /\ LET jobs == {u \in Users : job[u].state = "failed"} IN
       /\ todo' \in SUBSET jobs
       /\ todo' = {} => jobs = {}
    /\ UNCHANGED <<saleKeys, byUser, scanned, task, failed>>
    /\ PassFrame

\* Mutant: the resolution does not look for a persisted order.
ResolveBlindly(u, id) ==
    IF IsCompensated(row[u], id) THEN "compensateAfterCommit" ELSE "compensate"

\* The transaction reads the row under both locks and decides.
ResolveDecision(u, id) ==
    IF IsPersisted(row[u], id) THEN "removeJob"
    ELSE IF IsCompensated(row[u], id) THEN "compensateAfterCommit"
    ELSE "compensate"

ResolveBegin(u) ==
    /\ phase = "dlq" /\ task = NoTask
    /\ u \in todo
    /\ ~AdvisoryLocked(u, job[u].id)
    /\ ~RowLocked(u)
    /\ todo' = todo \ {u}
    /\ task' = [step |-> ResolveDecision(u, job[u].id), user |-> u, id |-> job[u].id,
                row |-> row[u]]
    /\ UNCHANGED <<saleKeys, phase, byUser, scanned, failed>>
    /\ PassFrame

\* Redis is compensated inside the still open transaction, or after the commit
\* when the marker row was found.
ResolveCompensate ==
    /\ task.step \in {"compensate", "compensateAfterCommit"}
    /\ CompensateScript(task.user, task.id)
    /\ task' = [task EXCEPT !.step = IF @ = "compensate" THEN "commit" ELSE "removeJob"]
    /\ credited' = IF CompensateOutcome(task.user, task.id) = "COMPENSATED"
                   THEN [credited EXCEPT ![task.user][task.id] = IF @ = 0 THEN 1 ELSE 2]
                   ELSE credited
    /\ UNCHANGED <<phase, byUser, scanned, todo, failed>>
    /\ UNCHANGED <<now, queueVars, apiVars, consuming, proc, faultVars>>

\* The insert of the marker meets the unique index: it waits for a transaction
\* that is writing the user's row, and fails if that one committed first.
MarkerBlocked ==
    /\ task.row = NoRow
    /\ \E p \in proc : p.user = task.user /\ p.stage \in WritingStages

MarkerConflict == task.row = NoRow /\ row[task.user] # NoRow

ResolveCommit ==
    /\ task.step = "commit"
    /\ ~MarkerBlocked /\ ~MarkerConflict
    /\ row' = IF task.row.status = "persisted" THEN row
              ELSE [row EXCEPT ![task.user] = [id |-> task.id, status |-> "compensated"]]
    /\ \/ task' = [task EXCEPT !.step = "removeJob"] /\ UNCHANGED failed
       \/ task' = NoTask /\ failed' = TRUE              \* acknowledgement lost
    /\ UNCHANGED <<saleKeys, now, job, apiVars, consuming, proc, phase, byUser,
                   scanned, todo, faultVars, credited>>

\* The Redis call or the transaction fails: rollback, the job stays failed.
\* Only an abort after the compensation is charged to the budget.
ResolveAbort ==
    /\ \/ task.step \in {"compensate", "compensateAfterCommit"} /\ UNCHANGED aborts
       \/ /\ task.step = "commit"
          /\ IF MarkerConflict THEN UNCHANGED aborts
             ELSE aborts < MaxResolveAborts /\ aborts' = aborts + 1
    /\ task' = NoTask
    /\ failed' = TRUE
    /\ UNCHANGED <<saleKeys, now, queueVars, apiVars, consuming, proc, phase, byUser,
                   scanned, todo, crashes, losses, credited>>

\* job.remove(), which may fail too.
RemoveFailedJob ==
    /\ task.step = "removeJob"
    /\ \/ job' = [job EXCEPT ![task.user] = NoJob] /\ UNCHANGED failed
       \/ UNCHANGED job /\ failed' = TRUE
    /\ task' = NoTask
    /\ UNCHANGED <<saleKeys, now, row, apiVars, consuming, proc, phase, byUser,
                   scanned, todo, faultVars, credited>>

\* The end of a sweep, and of the pass it belongs to.  A boot pass that met no
\* error starts the consumer.
SweepDone ==
    /\ phase = "dlq" /\ todo = {} /\ task = NoTask
    /\ Leave
    /\ consuming' = (consuming \/ ~failed)
    /\ UNCHANGED <<saleKeys, now, queueVars, apiVars, proc, faultVars, credited>>

-----------------------------------------------------------------------------
(* Faults *)

\* The worker process dies.  Its transactions roll back; BullMQ notices the
\* orphaned active jobs later (Stall).  A crash between the compensation and
\* the commit is charged to the abort budget as well.
WorkerCrash ==
    /\ crashes < MaxCrashes
    /\ crashes' = crashes + 1
    /\ IF task.step = "commit"
       THEN aborts < MaxResolveAborts /\ aborts' = aborts + 1
       ELSE UNCHANGED aborts
    /\ proc' = {}
    /\ consuming' = FALSE
    /\ Leave
    /\ UNCHANGED <<saleKeys, now, queueVars, apiVars, losses, credited>>

\* An awaited call of a pass or of a sweep fails, and the error ends it.  Those of
\* a resolution are collected (ResolveAbort).
PassFails ==
    /\ phase # "idle"
    /\ phase = "dlq" => task = NoTask
    /\ crashes < MaxCrashes
    /\ crashes' = crashes + 1
    /\ Leave
    /\ UNCHANGED <<saleKeys, now, queueVars, apiVars, consuming, proc, aborts, losses, credited>>

\* Redis loses a field of the reservations hash but keeps the buyer.
LoseReservation(u) ==
    /\ losses < MaxLosses
    /\ reservations[u] # NoRid
    /\ losses' = losses + 1
    /\ reservations' = [reservations EXCEPT ![u] = NoRid]
    /\ UNCHANGED <<seeded, stock, buyers, now, queueVars, apiVars, consuming, proc,
                   passVars, crashes, aborts, credited>>

-----------------------------------------------------------------------------

Api == \E u \in Users :
          \/ Purchase(u)
          \/ \E r \in Rids : EnqueueLands(u, r) \/ EnqueueFails(u, r)

Consumer ==
    \/ \E u \in Users : StartJob(u) \/ Stall(u) \/ EvictCompleted(u)
    \/ \E p \in proc : PersistBegin(p) \/ PersistCommit(p) \/ PersistAbort(p) \/ FinishJob(p)

\* A pass or sweep under way, one awaited call at a time.
MaintenanceStep ==
    \/ ScanJobs \/ RestoreRowsDone \/ ScanLedger \/ ScanBuyers \/ BuyersDone
    \/ \E u \in Users : \/ RestoreRow(u) \/ RestoreJob(u) \/ RepairEntry(u)
                        \/ InspectBuyer(u) \/ ResolveBegin(u)
    \/ EnsureQueued \/ RemoveStaleJob \/ EnqueueLive \/ RepairMembership
    \/ AdjudicateReadRow \/ AdjudicateReadJob \/ Adjudicate \/ AdjudicateReinspect
    \/ ReconcileStock \/ ListFailed
    \/ ResolveCompensate \/ ResolveCommit \/ RemoveFailedJob \/ SweepDone

Faults == WorkerCrash \/ PassFails \/ ResolveAbort \/ \E u \in Users : LoseReservation(u)

Next == Tick \/ Api \/ Consumer \/ StartPass \/ StartSweep \/ MaintenanceStep \/ Faults

Spec == Init /\ [][Next]_vars

\* What the deployment guarantees: the timers keep scheduling passes and sweeps
\* (a FIFO chain, so neither starves the other), an awaited call of the chain
\* returns, Redis and Postgres do not fail every resolution for ever, the
\* consumer keeps taking jobs, a transaction ends, and a job whose processor is
\* gone is found by the stalled check.
Fairness ==
    /\ SF_vars(StartPass) /\ SF_vars(StartSweep)
    /\ WF_vars(MaintenanceStep)
    /\ SF_vars(ResolveCompensate) /\ SF_vars(ResolveCommit)
    /\ \A u \in Users :
          /\ WF_vars(StartJob(u))
          /\ WF_vars((\A p \in proc : p.user # u \/ ~p.own) /\ Stall(u))
          /\ \A r \in Rids, own \in BOOLEAN :
                WF_vars(\E p \in proc : /\ p.user = u /\ p.id = r /\ p.own = own
                                        /\ \/ PersistBegin(p) \/ PersistCommit(p)
                                           \/ PersistAbort(p) \/ FinishJob(p))

FairSpec == Spec /\ Fairness

-----------------------------------------------------------------------------
(* Properties *)

\* I1 at the end of the pipeline: Postgres never holds more persisted orders
\* than the sale has units, whatever stalls, retries, compensations and
\* concurrent repairs did on the way.
NoOversell == Cardinality(Persisted) <= TotalStock

\* The counter and the ledger together never promise more than totalStock,
\* although a restore does not decrement: the reconciler only restores what was
\* never given back.
UnitsNeverInflated == stock + Cardinality(Reserved) <= TotalStock

\* Every durable order still owns its reservation, so nobody can compensate it
\* away, resell its unit or buy a second time (persist / resolveFailed under
\* the advisory lock, and the identity check of compensate.lua).
PersistedHoldsReservation ==
    \A u \in Persisted : reservations[u] = row[u].id /\ u \in buyers

\* A durable order is final: neither a late processor of an older reservation
\* nor the resolution of a failed job rewrites a persisted row.
PersistedIsFinal ==
    [][\A u \in Persisted : row'[u] = row[u]]_row

\* A confirmed reservation is withdrawn only because its own job failed for
\* good: the leftover failed job of an earlier reservation of the same user
\* (same job id, other identity) never costs the user the new one.
WithdrawnOnlyByOwnFailure ==
    [][\A u \in Users :
          reservations[u] # NoRid /\ reservations'[u] # reservations[u] =>
             job[u].state = "failed" /\ job[u].id = reservations[u]]_reservations

\* A reservation gives its unit back at most once, however often its failed job
\* is listed, resolved and restored from (failure-modes.integration.spec.ts, test
\* 4: a compensation that is retried "never increments twice").
CompensatedOnce == \A u \in Users, r \in Rids : credited[u][r] <= 1

\* The pipeline implements the abstract lifecycle of reservations.
ReservationStatus ==
    [u \in Users |-> [r \in Rids |->
        CASE IsPersisted(row[u], r)   -> "sold"
          [] ~IsPersisted(row[u], r) /\ reservations[u] = r -> "held"
          [] r \notin issued[u]       -> "idle"
          [] OTHER                    -> "returned"]]

Lifecycle == INSTANCE ReservationLifecycle WITH status <- ReservationStatus

\* Refinement: through every interleaving, each reservation id goes from idle to
\* held, and from held to sold or returned, once and for good.
ImplementsLifecycle == Lifecycle!Spec

\* I4: a confirmed reservation does not stay in limbo.  It becomes a durable
\* order, or its unit goes back to the sale.
ConfirmationSettles ==
    \A u \in Users, r \in Rids :
        reservations[u] = r ~> IsPersisted(row[u], r) \/ reservations[u] # r
=============================================================================
