----------------------------- MODULE LoadAudit -----------------------------
(***************************************************************************)
(* The audit process of the load harness (load/audit.ts) and the system it *)
(* audits once the workload has ended.  A snapshot is collected in several *)
(* reads (queue, worker, order counts, order rows, stock, buyers,          *)
(* reservations) while the worker goes on; waitForConvergence looks for    *)
(* two equal snapshots of an idle system and confirms them with a third;   *)
(* evaluateAudit judges it and publishAuditReport writes audit.json.       *)
(*                                                                         *)
(* The system's own steps are those of OrderPipeline, reduced to what a    *)
(* snapshot can tell apart.                                                *)
(***************************************************************************)
EXTENDS Naturals, FiniteSets

CONSTANTS
    Users,       \* users whose purchase was confirmed
    Stock,       \* the scenario's initial stock
    MaxLosses    \* bound: reservation fields lost while the audit runs

ASSUME AuditAssumption ==
    /\ IsFiniteSet(Users) /\ Stock \in Nat /\ MaxLosses \in Nat
    /\ Cardinality(Users) <= Stock

VARIABLES
    sys,         \* jobs and rows per user, buyers, reservations, stock
    audit,       \* where the audit is, the snapshot it is collecting, the
                 \* candidate and whether 250 ms have passed since
    file         \* audit.json

auditVars == <<sys, audit, file>>

NoSnap == [idle |-> FALSE, persisted |-> 0, compensated |-> 0,
           rows |-> [u \in Users |-> "none"], stock |-> 0, buyers |-> {}, ledger |-> {}]

Rows == {"none", "persisted", "compensated"}
With(rows, status) == {u \in Users : rows[u] = status}

AuditOff == [pc |-> "off", final |-> FALSE, snap |-> NoSnap, cand |-> NoSnap,
             aged |-> FALSE, seen |-> FALSE]

Snaps == [idle : BOOLEAN, persisted : 0..Cardinality(Users),
          compensated : 0..Cardinality(Users), rows : [Users -> Rows],
          stock : 0..(Stock + MaxLosses), buyers : SUBSET Users, ledger : SUBSET Users]

SysQuiet == [job |-> [u \in Users |-> "done"], row |-> [u \in Users |-> "none"],
             buyers |-> {}, ledger |-> {}, stock |-> Stock, losses |-> 0]

AuditTypeOK ==
    /\ sys \in [job : [Users -> {"lost", "waiting", "active", "failed", "done"}],
                row : [Users -> Rows], buyers : SUBSET Users, ledger : SUBSET Users,
                stock : 0..(Stock + MaxLosses), losses : 0..MaxLosses]
    /\ audit.pc \in {"off", "queue", "worker", "counts", "rows", "stock", "buyers", "ledger",
                     "judge", "sleep", "publish", "linked", "exit0", "exit1"}
    /\ audit.snap \in Snaps /\ audit.cand \in Snaps
    /\ {audit.final, audit.aged, audit.seen} \subseteq BOOLEAN
    /\ file \in [state : {"none", "temp", "linked", "proven", "revoked"}, pass : BOOLEAN]

AuditInit ==
    /\ sys = SysQuiet
    /\ audit = AuditOff
    /\ file = [state |-> "none", pass |-> FALSE]

AuditRuns == audit.pc \notin {"off", "exit0", "exit1"}

\* What an instantaneous snapshot of the system would show.
Actual(s) ==
    [idle |-> \A u \in Users : s.job[u] \notin {"waiting", "active", "failed"},
     persisted |-> Cardinality(With(s.row, "persisted")),
     compensated |-> Cardinality(With(s.row, "compensated")),
     rows |-> s.row, stock |-> s.stock, buyers |-> s.buyers, ledger |-> s.ledger]

-----------------------------------------------------------------------------
(* The system while it is audited (external to load/) *)

SysStep(s) ==
    /\ AuditRuns
    /\ sys' = s
    /\ audit' = [audit EXCEPT !.seen = @ \/ (audit.cand # NoSnap /\ Actual(s) = audit.cand)]
    /\ UNCHANGED file

\* A worker takes the job; the reconciler enqueues one that never arrived.
JobStarts(u) == sys.job[u] = "waiting" /\ SysStep([sys EXCEPT !.job[u] = "active"])
JobRecovered(u) == sys.job[u] = "lost" /\ SysStep([sys EXCEPT !.job[u] = "waiting"])

\* The order commits before its job completes.
OrderPersists(u) ==
    /\ sys.job[u] = "active" /\ sys.row[u] = "none" /\ u \in sys.ledger
    /\ SysStep([sys EXCEPT !.row[u] = "persisted"])

JobEnds(u) ==
    /\ sys.job[u] = "active"
    /\ SysStep([sys EXCEPT !.job[u] = IF sys.row[u] = "persisted" THEN "done" ELSE "failed"])

\* The DLQ sweep returns the unit, then writes the row, then removes the job.
UnitReturned(u) ==
    /\ sys.job[u] = "failed" /\ u \in sys.ledger /\ sys.row[u] = "none"
    /\ SysStep([sys EXCEPT !.ledger = @ \ {u}, !.buyers = @ \ {u}, !.stock = @ + 1])

RowCompensated(u) ==
    /\ sys.job[u] = "failed" /\ u \notin sys.ledger
    /\ SysStep([sys EXCEPT !.row[u] = "compensated", !.job[u] = "done"])

\* A reservation field is lost; the reconciler restores a persisted order's.
FieldLost(u) ==
    /\ u \in sys.ledger /\ sys.losses < MaxLosses /\ sys.job[u] = "done"
    /\ SysStep([sys EXCEPT !.ledger = @ \ {u}, !.losses = @ + 1])

FieldRestored(u) ==
    /\ sys.row[u] = "persisted" /\ u \notin sys.ledger
    /\ SysStep([sys EXCEPT !.ledger = @ \cup {u}, !.buyers = @ \cup {u}])

SystemNext ==
    \E u \in Users :
        \/ JobStarts(u) \/ JobRecovered(u) \/ OrderPersists(u) \/ JobEnds(u)
        \/ UnitReturned(u) \/ RowCompensated(u) \/ FieldLost(u) \/ FieldRestored(u)

-----------------------------------------------------------------------------
(* collectSnapshot *)

\* The audit's connections, and the state the workload left behind: a job per
\* confirmed purchase, waiting or never enqueued.
AuditStarts(jobs) ==
    /\ sys' = [SysQuiet EXCEPT !.job = jobs, !.buyers = Users, !.ledger = Users,
                               !.stock = Stock - Cardinality(Users)]
    /\ audit' = [AuditOff EXCEPT !.pc = "queue"]
    /\ file' = [state |-> "none", pass |-> FALSE]

Read(pc, snap, next) ==
    /\ audit.pc = pc
    /\ audit' = [audit EXCEPT !.pc = next, !.snap = snap]
    /\ UNCHANGED <<sys, file>>

\* The API's readiness: the queue counts.
ReadQueue ==
    Read("queue", [NoSnap EXCEPT !.idle = \A u \in Users : sys.job[u] \notin {"waiting", "active", "failed"}],
         "worker")

\* The worker's readiness and its active and failed jobs.
ReadWorker(ready) ==
    Read("worker", [audit.snap EXCEPT !.idle = /\ @ /\ ready
                                               /\ \A u \in Users : sys.job[u] \notin {"active", "failed"}],
         "counts")

ReadCounts ==
    Read("counts", [audit.snap EXCEPT !.persisted = Cardinality(With(sys.row, "persisted")),
                                      !.compensated = Cardinality(With(sys.row, "compensated"))],
         "rows")

ReadRows == Read("rows", [audit.snap EXCEPT !.rows = sys.row], "stock")
ReadStock == Read("stock", [audit.snap EXCEPT !.stock = sys.stock], "buyers")
ReadBuyers == Read("buyers", [audit.snap EXCEPT !.buyers = sys.buyers], "ledger")
ReadLedger == Read("ledger", [audit.snap EXCEPT !.ledger = sys.ledger], "judge")

CollectNext ==
    \/ ReadQueue \/ ReadCounts \/ ReadRows \/ ReadStock \/ ReadBuyers \/ ReadLedger
    \/ \E ready \in BOOLEAN : ReadWorker(ready)

-----------------------------------------------------------------------------
(* waitForConvergence *)

\* reset()
Reset(a) == [a EXCEPT !.cand = NoSnap, !.aged = FALSE, !.seen = FALSE, !.final = FALSE,
                      !.snap = NoSnap, !.pc = "sleep"]

\* A read failed: collectOne swallows it and the search starts over.
CollectFails ==
    /\ audit.pc \in {"counts", "rows", "stock", "buyers", "ledger"}
    /\ audit' = Reset(audit)
    /\ UNCHANGED <<sys, file>>

\* Mutant: the second snapshot is compared by the queue alone.
SameIdleness == audit.cand # NoSnap

\* The canonical fingerprints are equal.
SameFingerprint == audit.cand # NoSnap /\ audit.snap = audit.cand

\* One pass of the loop after a collection.
Judge ==
    /\ audit.pc = "judge"
    /\ audit' =
        CASE ~audit.snap.idle -> Reset(audit)
          [] audit.snap.idle /\ audit.final ->
                IF SameFingerprint THEN [audit EXCEPT !.pc = "publish"] ELSE Reset(audit)
          [] audit.snap.idle /\ ~audit.final /\ ~SameFingerprint ->
                [audit EXCEPT !.cand = audit.snap, !.aged = FALSE, !.snap = NoSnap,
                              !.seen = (Actual(sys) = audit.snap), !.pc = "sleep"]
          [] audit.snap.idle /\ ~audit.final /\ SameFingerprint ->
                [audit EXCEPT !.final = audit.aged, !.snap = NoSnap,
                              !.pc = IF audit.aged THEN "queue" ELSE "sleep"]
    /\ UNCHANGED <<sys, file>>

\* sleepForRetry: shorter than 250 ms, or not.
Wake(long) ==
    /\ audit.pc = "sleep"
    /\ audit' = [audit EXCEPT !.pc = "queue", !.aged = audit.cand # NoSnap /\ (@ \/ long)]
    /\ UNCHANGED <<sys, file>>

\* The deadline, which ends the search without a report.
Expires ==
    /\ audit.pc \in {"judge", "sleep"}
    /\ audit' = [AuditOff EXCEPT !.pc = "exit1"]
    /\ UNCHANGED <<sys, file>>

-----------------------------------------------------------------------------
(* evaluateAudit, without the sale window (I3) and the configuration *)

I1(s, expected) ==
    /\ s.stock \in 0..Stock
    /\ s.stock + Cardinality(s.ledger) = Stock
    /\ s.persisted = Cardinality(s.ledger)
    /\ s.persisted = expected /\ expected = Cardinality(Users)

I2(s) == s.buyers = s.ledger /\ s.buyers = With(s.rows, "persisted")

I4(s, expected) ==
    /\ s.idle
    /\ expected = s.persisted + s.compensated
    /\ \A u \in With(s.rows, "persisted") : u \in s.ledger
    /\ Cardinality(s.ledger) = Cardinality(With(s.rows, "persisted"))
    /\ With(s.rows, "compensated") \cap (s.buyers \cup s.ledger) = {}

EvaluateAudit(s, expected) == I1(s, expected) /\ I2(s) /\ I4(s, expected)

-----------------------------------------------------------------------------
(* publishAuditReport *)

\* The report is written to a retained temporary file, made read-only, and
\* linked to audit.json.
LinkReport(expected) ==
    /\ audit.pc = "publish"
    /\ file' = [state |-> "linked", pass |-> EvaluateAudit(audit.snap, expected)]
    /\ audit' = [audit EXCEPT !.pc = "linked"]
    /\ UNCHANGED sys

\* A publication that fails takes all permissions from the linked file.
FailedReport == [file EXCEPT !.state = IF @ = "linked" THEN "revoked" ELSE "temp"]

\* A check of the publication failed, before or after the link.  The chmod may
\* fail as well, and leave the linked file as it is.
PublishFails ==
    /\ audit.pc \in {"publish", "linked"}
    /\ file' = FailedReport \/ (audit.pc = "linked" /\ UNCHANGED file)
    /\ audit' = [AuditOff EXCEPT !.pc = "exit1", !.seen = audit.seen]
    /\ UNCHANGED sys

\* Identity, size, mode and bytes are proven: the exit code is the verdict,
\* unless closing the temporary file or the directory fails.
PublishProven(closes) ==
    /\ audit.pc = "linked"
    /\ file' = [file EXCEPT !.state = "proven"]
    /\ audit' = [audit EXCEPT !.pc = IF file.pass /\ closes THEN "exit0" ELSE "exit1"]
    /\ UNCHANGED sys

AuditNext(expected) ==
    \/ SystemNext \/ CollectNext \/ CollectFails \/ Judge \/ Expires
    \/ LinkReport(expected) \/ PublishFails
    \/ \E long \in BOOLEAN : Wake(long)
    \/ \E closes \in BOOLEAN : PublishProven(closes)
=============================================================================
