------------------------ MODULE OrderPipelineProofs ------------------------
(***************************************************************************)
(* What the order pipeline keeps true for every number of users, units,    *)
(* attempts, stalls, crashes and reservation identities.                   *)
(*                                                                         *)
(*  1. With every fault of the model: the types, the limits of the job     *)
(*     counters and the one owner of a job's lock (TypeInv); and that a    *)
(*     persisted order is final (LockInv: what the advisory lock and the   *)
(*     unique index leave possible inside a transaction).                  *)
(*                                                                         *)
(*  2. As long as Redis loses no field of the ledger (MaxLosses = 0): a    *)
(*     reservation is withdrawn only through its own failed job.           *)
(*                                                                         *)
(*  3. If, besides, no resolution aborts between its compensation and the  *)
(*     commit of its marker (NothingLost): a persisted order keeps its     *)
(*     reservation.                                                        *)
(*                                                                         *)
(*  4. If, besides, no queue.add lands after its reservation was           *)
(*     compensated (FaultFree): no unit is sold twice or invented, a       *)
(*     reservation gives its unit back at most once, and the pipeline      *)
(*     implements ReservationLifecycle, so that it keeps its promise.      *)
(*                                                                         *)
(* Each hypothesis is needed: oversell_after_lost_commit shows what one    *)
(* compensation whose marker is not committed can do, and TLC refutes the  *)
(* others in the same way.  Crashes of the worker, stalls, retries, failed *)
(* adds and purchases that follow a compensation are unrestricted.         *)
(*                                                                         *)
(* The properties are about the ledger, the counter and the orders table;  *)
(* none is inductive alone.  UnitInv ties them to what is in flight: the   *)
(* row says whether the identity it names still stands (RowInv), a         *)
(* transaction writes only for the identity on file (WriteInv), and the    *)
(* row snapshot of a reconciliation pass is still true when it is used     *)
(* (PassInv).  Without late adds a leftover job of an earlier reservation  *)
(* meets its marker (LeftoverInv), so that a pass restores nothing that    *)
(* was withdrawn (ScanInv) and the counter and the ledger add up           *)
(* (CountInv).                                                             *)
(***************************************************************************)
EXTENDS OrderPipeline, FiniteSetTheorems, TLAPS

-----------------------------------------------------------------------------
(* The inductive invariants *)

\* What the maintenance chain may be visiting.
EnsureTasks ==
    [step : {"ensure", "remove", "add", "member"}, user : Users,
     id : Rids, member : BOOLEAN, targeted : {"no", "restore", "inspect"},
     handle : Rids \cup {NoRid}]
AdjudicateTasks ==
    [step : {"readRow"}, user : Users]
      \cup [step : {"readJob"}, user : Users, row : Rows]
      \cup [step : {"adjudicate"}, user : Users, row : Rows, id : Rids \cup {NoRid},
            handle : Rids \cup {NoRid}]
      \cup [step : {"reinspect"}, user : Users, handle : Rids \cup {NoRid}]
ResolveTasks ==
    [step : {"compensate", "compensateAfterCommit", "commit", "removeJob"},
     user : Users, id : Rids, row : Rows]

\* Which tasks belong to which loop.
TaskInv ==
    \/ task = NoTask
    \/ /\ task \in EnsureTasks /\ phase \in {"restoreRows", "repair", "buyers"}
       /\ task.targeted = "no" \/ phase = "buyers"
    \/ task \in AdjudicateTasks /\ phase = "buyers"
    \/ task \in ResolveTasks /\ phase = "dlq"

\* What a loop knows of the users it has still to visit; and the failed job a
\* sweep resolves stays where it is until the sweep removes it.
LoopInv ==
    /\ phase = "restoreRows" => \A u \in todo : byUser[u].status = "persisted"
    /\ phase \in {"restoreJobs", "repair"} => \A u \in todo : scanned[u] # NoRid
    /\ phase = "dlq" =>
          /\ \A u \in todo : job[u].state = "failed"
          /\ task # NoTask => /\ task.user \notin todo
                              /\ job[task.user].state = "failed"
                              /\ job[task.user].id = task.id

\* A job that may still run has attempts left, and the one processor that owns
\* a job's lock runs the job that is active.
JobInv ==
    /\ \A u \in Users : job[u].state \in {"waiting", "active"} =>
          job[u].attempts < Attempts /\ job[u].stalls <= MaxStalledCount
    /\ \A p \in proc : p.own => job[p.user].state = "active" /\ job[p.user].id = p.id
    /\ \A p, q \in proc : p.own /\ q.own /\ p.user = q.user => p = q

\* The first inductive invariant.
TypeInv == TypeOK /\ TaskInv /\ LoopInv /\ JobInv

Writing(p) == p.stage \in WritingStages

\* One transaction at a time writes a user's row ...
OneWriter == \A p, q \in proc : Writing(p) /\ Writing(q) /\ p.user = q.user => p = q

\* ... or a processor inserts it while the resolution of another reservation
\* that found no row is under way ...
WriterAndResolver ==
    \A p \in proc : Writing(p) /\ ResolverIn(p.user) => task.row = NoRow /\ p.id # task.id

\* ... and what such a transaction has read is still so.
WriterRead ==
    \A p \in proc : /\ p.stage = "insert" => row[p.user] = NoRow
                    /\ p.stage = "promote" => row[p.user].status = "compensated"

\* ... for a resolution too, save that the row it found missing may have been
\* inserted for another reservation.
ResolverRead ==
    task.step \in {"compensate", "commit"} =>
        /\ task.row # NoRow => row[task.user] = task.row
        /\ task.row = NoRow /\ row[task.user] # NoRow => row[task.user].status = "persisted"
        /\ ~IsPersisted(row[task.user], task.id)

\* The second: what row locks and advisory locks leave possible.
LockInv == OneWriter /\ WriterAndResolver /\ WriterRead /\ ResolverRead

\* Nothing goes wrong between the compensation in Redis and the commit of its
\* marker, and no field of the ledger is lost.
NothingLost == MaxResolveAborts = 0 /\ MaxLosses = 0

\* Nor does a queue.add land after the compensation of its reservation.
FaultFree == NothingLost /\ LateAdds = FALSE

\* The buyers set agrees with the ledger.
LedgerInv ==
    /\ seeded
    /\ buyers = Reserved
    /\ stock \in Nat

\* Every identity in the system was handed out by a confirmed purchase.
IssuedInv ==
    /\ \A u \in Users : reservations[u] # NoRid => reservations[u] \in issued[u]
    /\ \A u \in Users : row[u] # NoRow => row[u].id \in issued[u]
    /\ \A u \in Users : job[u] # NoJob => job[u].id \in issued[u]
    /\ \A u \in Users, r \in Rids : <<u, r>> \in pending => r \in issued[u]
    /\ \A p \in proc : p.id \in issued[p.user]

Committing(u, r) == task.step = "commit" /\ task.user = u /\ task.id = r

\* The row says whether the reservation it names still stands; a reservation is
\* only gone once a row shows it, or is just about to be written.
RowInv ==
    \A u \in Users :
        /\ row[u].status = "persisted" => reservations[u] = row[u].id
        /\ row[u].status = "compensated" => reservations[u] # row[u].id
        /\ \A r \in issued[u] :
              reservations[u] # r => row[u] # NoRow \/ Committing(u, r)

\* The leftover job of a reservation that is gone meets its own marker, or an
\* order that was persisted since (unless it was added late).
LeftoverInv ==
    \A u \in Users :
        job[u] # NoJob /\ reservations[u] # job[u].id =>
            \/ IsCompensated(row[u], job[u].id)
            \/ row[u].status = "persisted"
            \/ Committing(u, job[u].id)

\* A processor writes only for the reservation on file; a resolution past its
\* compensation has withdrawn its own.
WriteInv ==
    /\ \A p \in proc : Writing(p) => reservations[p.user] = p.id
    /\ task.step \in {"compensateAfterCommit", "commit"} => reservations[task.user] # task.id

\* The snapshots of a pass: the rows it restores from still stand.
PassInv ==
    /\ task.step \notin {"readRow", "readJob", "adjudicate", "reinspect"}
    /\ task.step \in {"ensure", "remove", "add", "member"} =>
          reservations[task.user] = task.id /\ task.targeted = "no"
    /\ phase \in {"scanJobs", "restoreRows", "restoreJobs"} =>
          \A u \in Users :
             /\ byUser[u].status = "persisted" => row[u] = byUser[u]
             /\ row[u].status = "compensated" => byUser[u] = row[u]
    /\ phase \in {"restoreRows", "restoreJobs"} =>
          \A u \in Users : scanned[u] # NoRid => scanned[u] \in issued[u]
    /\ phase = "restoreJobs" => \A u \in todo : ~IsCompensated(byUser[u], scanned[u])
    /\ phase = "repair" =>
          \A u \in Users : scanned[u] # NoRid => reservations[u] = scanned[u]

\* The jobs it restores from belong to reservations that were not withdrawn.
ScanInv ==
    phase \in {"restoreRows", "restoreJobs"} =>
        \A u \in Users : scanned[u] # NoRid =>
            \/ reservations[u] = scanned[u]
            \/ IsCompensated(byUser[u], scanned[u])
            \/ row[u].status = "persisted"

\* A unit went back at most once, and for a reservation that is gone.
CreditInv ==
    \A u \in Users, r \in Rids :
        /\ credited[u][r] <= 1
        /\ credited[u][r] # 0 => r \in issued[u] /\ reservations[u] # r

\* The counter and the ledger add up.
CountInv == stock + Cardinality(Reserved) = TotalStock

\* What is in the ledger, the table, the queue and the chain, together; and,
\* without late adds, what this means for the units.
UnitInv ==
    /\ LedgerInv /\ IssuedInv /\ RowInv /\ WriteInv /\ PassInv
    /\ ~LateAdds => LeftoverInv /\ ScanInv /\ CreditInv /\ CountInv
-----------------------------------------------------------------------------
(* Types, tasks, loops and jobs: TypeInv *)

\* The seeded sale, with queue, table and chain empty, satisfies TypeInv.
LEMMA InitTypeInv ==
    Init => TypeInv
<1> SUFFICES ASSUME Init PROVE TypeInv
    OBVIOUS
<1> USE DEF Init
<1>1. SaleTypeOK
    BY StockAssumption DEF SaleTypeOK, NoStock
<1>2. row \in [Users -> Rows] /\ byUser \in [Users -> Rows] /\ job \in [Users -> Jobs]
    BY DEF Rows, Jobs
<1>3. crashes \in 0..MaxCrashes /\ aborts \in 0..MaxResolveAborts /\ losses \in 0..MaxLosses
    BY PipelineBounds
<1>4. credited \in [Users -> [Rids -> 0..2]]
    OBVIOUS
<1>5. TypeOK
    BY <1>1, <1>2, <1>3, <1>4 DEF TypeOK, Phases
<1>6. TaskInv /\ LoopInv /\ JobInv
    BY DEF TaskInv, LoopInv, JobInv, NoJob
<1> QED BY <1>5, <1>6 DEF TypeInv

\* queue.add keeps the job there is, or creates a waiting one.
LEMMA QueueAddJob ==
    ASSUME TypeInv, NEW u \in Users, NEW id \in Rids, QueueAdd(u, id)
    PROVE  /\ job' \in [Users -> Jobs]
           /\ \A v \in Users : v # u => job'[v] = job[v]
           /\ job[u] # NoJob => job'[u] = job[u]
           /\ job[u] = NoJob => /\ job'[u].id = id /\ job'[u].state = "waiting"
                                /\ job'[u].attempts = 0 /\ job'[u].stalls = 0
<1> DEFINE new == [NoJob EXCEPT !.id = id, !.state = "waiting"]
<1>1. /\ new \in Jobs /\ new.id = id /\ new.state = "waiting"
      /\ new.attempts = 0 /\ new.stalls = 0
    <2>1. 0 \in 0..Attempts /\ 0 \in 0..(MaxStalledCount + 1)
        BY AttemptsAssumption
    <2>2. new \in Jobs
        BY <2>1 DEF NoJob, Jobs
    <2> QED BY <2>2 DEF NoJob
<1>2. job \in [Users -> Jobs] /\ job' = IF job[u] = NoJob THEN [job EXCEPT ![u] = new] ELSE job
    BY DEF TypeInv, TypeOK, QueueAdd
<1> HIDE DEF new
<1> QED BY <1>1, <1>2

\* A new job disturbs neither a processor nor a loop.
LEMMA QueueAddInv ==
    ASSUME TypeInv, NEW u \in Users, NEW id \in Rids, QueueAdd(u, id),
           UNCHANGED proc
    PROVE  JobInv' /\ \A v \in Users : job[v].state = "failed" => job'[v] = job[v]
<1>1. /\ \A v \in Users : v # u => job'[v] = job[v]
      /\ job[u] # NoJob => job'[u] = job[u]
      /\ job[u] = NoJob => /\ job'[u].id = id /\ job'[u].state = "waiting"
                           /\ job'[u].attempts = 0 /\ job'[u].stalls = 0
    BY QueueAddJob
<1>2. \A v \in Users : job[v].state \in {"active", "failed"} => job'[v] = job[v]
    BY <1>1 DEF NoJob
<1>3. \A v \in Users : job'[v].state \in {"waiting", "active"} =>
         job'[v].attempts < Attempts /\ job'[v].stalls <= MaxStalledCount
    BY <1>1, AttemptsAssumption DEF TypeInv, JobInv
<1>4. \A p \in proc : p.own => job'[p.user] = job[p.user]
    BY <1>2 DEF TypeInv, TypeOK, JobInv, Procs
<1> QED BY <1>2, <1>3, <1>4 DEF TypeInv, JobInv

\* A processor that moves on keeps its user, its reservation and its lock.
LEMMA AdvanceProc ==
    ASSUME TypeInv, NEW p \in proc,
           NEW s \in {"start", "insert", "promote", "done", "error"}, Advance(p, s)
    PROVE  /\ proc' \subseteq Procs
           /\ \A q \in proc' : \/ q \in proc /\ q # p
                               \/ /\ q = [p EXCEPT !.stage = s]
                                  /\ q.user = p.user /\ q.id = p.id /\ q.own = p.own
                                  /\ q.stage = s
<1>1. proc \subseteq Procs
    BY DEF TypeInv, TypeOK
<1> QED BY <1>1 DEF Advance, Procs

\* A processor that moves on to its next stage keeps TypeInv.
LEMMA AdvanceTypeInv ==
    ASSUME TypeInv, NEW p \in proc,
           NEW s \in {"start", "insert", "promote", "done", "error"}, Advance(p, s),
           row' \in [Users -> Rows],
           UNCHANGED <<saleKeys, now, job, apiVars, consuming, passVars, faultVars, credited>>
    PROVE  TypeInv'
<1>1. /\ proc' \subseteq Procs
      /\ \A q \in proc' : \/ q \in proc /\ q # p
                          \/ /\ q = [p EXCEPT !.stage = s]
                             /\ q.user = p.user /\ q.id = p.id /\ q.own = p.own
    BY AdvanceProc
<1>2. TypeOK' /\ TaskInv' /\ LoopInv'
    BY <1>1 DEF TypeInv, TypeOK, SaleTypeOK, TaskInv, LoopInv, saleKeys, apiVars, passVars,
                faultVars
<1>3. JobInv'
    BY <1>1 DEF TypeInv, JobInv
<1> QED BY <1>2, <1>3 DEF TypeInv

\* Whatever throws or ends leaves no loop behind.
LEMMA LeaveInv ==
    ASSUME Leave
    PROVE  /\ phase' \in Phases /\ phase' = "idle" /\ todo' = {} /\ task' = NoTask
           /\ failed' \in BOOLEAN
           /\ byUser' \in [Users -> Rows]
           /\ scanned' \in [Users -> Rids \cup {NoRid}]
           /\ TaskInv' /\ LoopInv'
BY DEF Leave, ForgetSnapshot, Phases, Rows, TaskInv, LoopInv

\* The purchase and the two outcomes of its enqueue keep TypeInv.
LEMMA ApiTypeInv ==
    ASSUME TypeInv, Api
    PROVE  TypeInv'
<1>1. ASSUME NEW u \in Users, Purchase(u) PROVE TypeInv'
    <2>1. FreshRid(u) \in Rids
        BY <1>1 DEF Purchase, FreshRid
    <2>2. SaleTypeOK'
        <3>1. SaleTypeOK /\ PurchaseScript(u, FreshRid(u)) /\ now' = now
            BY <1>1 DEF TypeInv, TypeOK, Purchase
        <3>2. stock' \in Int /\ stock' >= NoStock
            BY <3>1 DEF PurchaseScript, PurchaseOutcome, StockValue, SaleTypeOK, NoStock
        <3> QED BY <2>1, <3>1, <3>2 DEF PurchaseScript, SaleTypeOK
    <2>3. issued' \in [Users -> SUBSET Rids] /\ pending' \subseteq Users \X Rids
        BY <1>1, <2>1 DEF Purchase, apiVars, TypeInv, TypeOK
    <2>4. UNCHANGED <<queueVars, consuming, proc, passVars, faultVars, credited>>
        BY <1>1 DEF Purchase
    <2> QED BY <2>2, <2>3, <2>4 DEF TypeInv, TypeOK, TaskInv, LoopInv, JobInv, queueVars,
                                    passVars, faultVars
<1>2. ASSUME NEW u \in Users, NEW r \in Rids, EnqueueLands(u, r) PROVE TypeInv'
    <2>1. job' \in [Users -> Jobs] /\ JobInv'
          /\ \A v \in Users : job[v].state = "failed" => job'[v] = job[v]
        BY <1>2, QueueAddJob, QueueAddInv DEF EnqueueLands
    <2>2. pending' \subseteq Users \X Rids
        BY <1>2 DEF EnqueueLands, TypeInv, TypeOK
    <2>3. UNCHANGED <<saleKeys, now, row, issued, consuming, proc, passVars, faultVars, credited>>
        BY <1>2 DEF EnqueueLands
    <2>4. TypeOK' /\ TaskInv'
        BY <2>1, <2>2, <2>3 DEF TypeInv, TypeOK, SaleTypeOK, TaskInv, saleKeys, passVars, faultVars
    <2>5. LoopInv'
        BY <2>1, <2>3 DEF TypeInv, TypeOK, TaskInv, LoopInv, passVars, ResolveTasks
    <2> QED BY <2>1, <2>4, <2>5 DEF TypeInv
<1>3. ASSUME NEW u \in Users, NEW r \in Rids, EnqueueFails(u, r) PROVE TypeInv'
    BY <1>3 DEF EnqueueFails, TypeInv, TypeOK, SaleTypeOK, TaskInv, LoopInv, JobInv, saleKeys,
                queueVars, passVars, faultVars
<1> QED BY <1>1, <1>2, <1>3 DEF Api

\* Taking a job, finding it stalled, evicting it, and every step of its
\* processors keep TypeInv: a counter grows only while the job may still run.
LEMMA ConsumerTypeInv ==
    ASSUME TypeInv, Consumer
    PROVE  TypeInv'
<1> USE DEF TypeInv
<1>0. /\ TypeOK /\ TaskInv /\ LoopInv /\ JobInv
      /\ proc \subseteq Procs /\ job \in [Users -> Jobs] /\ row \in [Users -> Rows]
    BY DEF TypeOK
<1>1. ASSUME NEW u \in Users, StartJob(u) PROVE TypeInv'
    <2>1. /\ job[u] \in Jobs /\ job[u] # NoJob /\ job[u].state = "waiting"
          /\ job' = [job EXCEPT ![u].state = "active"]
        BY <1>0, <1>1 DEF StartJob, NoJob
    <2>2. /\ job' \in [Users -> Jobs]
          /\ job'[u] = [job[u] EXCEPT !.state = "active"]
          /\ \A v \in Users : v # u => job'[v] = job[v]
        BY <1>0, <2>1 DEF Jobs
    <2>3. /\ job'[u].state = "active" /\ job'[u].id = job[u].id
          /\ job'[u].attempts = job[u].attempts /\ job'[u].stalls = job[u].stalls
        BY <2>1, <2>2 DEF Jobs
    <2>4. DEFINE new == [user |-> u, id |-> job[u].id, own |-> TRUE, stage |-> "start"]
    <2>5. new \in Procs /\ proc' = proc \cup {new}
        BY <1>1, <2>1 DEF StartJob, Procs, Jobs
    <2>6. \A p \in proc : p.user = u => ~p.own
        BY <1>0, <2>1 DEF JobInv
    <2> HIDE DEF new
    <2>7. new.user = u /\ new.id = job[u].id /\ new.own
        BY DEF new
    <2>8. JobInv'
        BY <1>0, <2>1, <2>2, <2>3, <2>5, <2>6, <2>7 DEF JobInv, Procs
    <2>9. TypeOK' /\ TaskInv' /\ LoopInv'
        BY <1>0, <1>1, <2>1, <2>2, <2>5
        DEF StartJob, TypeOK, SaleTypeOK, TaskInv, LoopInv, ResolveTasks, saleKeys, apiVars,
            passVars, faultVars
    <2> QED BY <2>8, <2>9
<1>2. ASSUME NEW u \in Users, Stall(u) PROVE TypeInv'
    <2>1. /\ job[u] \in Jobs /\ job[u] # NoJob /\ job[u].state = "active"
        BY <1>0, <1>2 DEF Stall, NoJob
    <2>2. /\ job[u].stalls \in 0..MaxStalledCount /\ job[u].attempts < Attempts
          /\ job[u].stalls + 1 \in 0..(MaxStalledCount + 1)
          /\ job[u].attempts \in 0..Attempts
        BY <1>0, <2>1, AttemptsAssumption DEF JobInv, Jobs
    <2>3. PICK n \in 0..(MaxStalledCount + 1), s \in {"waiting", "active", "completed", "failed"} :
             /\ n = job[u].stalls + 1
             /\ s = IF job[u].stalls >= MaxStalledCount THEN "failed" ELSE "waiting"
             /\ job' = [job EXCEPT ![u] = [job[u] EXCEPT !.stalls = n, !.state = s]]
        BY <1>0, <1>2, <2>2 DEF Stall
    <2>4. /\ job' \in [Users -> Jobs]
          /\ \A v \in Users : v # u => job'[v] = job[v]
          /\ job'[u].state = s /\ job'[u].attempts = job[u].attempts
          /\ job'[u].stalls = job[u].stalls + 1
        <3> DEFINE new == [job[u] EXCEPT !.stalls = n, !.state = s]
        <3>1. /\ new \in Jobs /\ new.state = s /\ new.attempts = job[u].attempts
              /\ new.stalls = job[u].stalls + 1
            BY <2>1, <2>3 DEF Jobs
        <3>2. job' = [job EXCEPT ![u] = new]
            BY <2>3
        <3> HIDE DEF new
        <3> QED BY <1>0, <3>1, <3>2
    <2>5. /\ proc' \subseteq Procs
          /\ \A p \in proc' : \/ p \in proc /\ p.user # u
                              \/ p.user = u /\ ~p.own
        BY <1>0, <1>2 DEF Stall, Procs
    <2>6. JobInv'
        <3>2. \A v \in Users : job'[v].state \in {"waiting", "active"} =>
                  job'[v].attempts < Attempts /\ job'[v].stalls <= MaxStalledCount
            BY <1>0, <2>2, <2>3, <2>4, AttemptsAssumption DEF JobInv
        <3>3. \A p \in proc' : p.own => p \in proc /\ p.user # u /\ p.user \in Users
            BY <2>5 DEF Procs
        <3> QED BY <1>0, <2>4, <3>2, <3>3 DEF JobInv
    <2>7. TypeOK' /\ TaskInv' /\ LoopInv'
        BY <1>0, <1>2, <2>1, <2>4, <2>5
        DEF Stall, TypeOK, SaleTypeOK, TaskInv, LoopInv, ResolveTasks, saleKeys, apiVars,
            passVars, faultVars
    <2> QED BY <2>6, <2>7
<1>3. ASSUME NEW u \in Users, EvictCompleted(u) PROVE TypeInv'
    <2>1. /\ job' \in [Users -> Jobs] /\ job'[u] = NoJob
          /\ \A v \in Users : v # u => job'[v] = job[v]
        BY <1>0, <1>3 DEF EvictCompleted, Jobs
    <2>2. JobInv'
        BY <1>0, <1>3, <2>1 DEF EvictCompleted, JobInv, NoJob, Procs
    <2>3. TypeOK' /\ TaskInv' /\ LoopInv'
        BY <1>0, <1>3, <2>1
        DEF EvictCompleted, TypeOK, SaleTypeOK, TaskInv, LoopInv, ResolveTasks, saleKeys,
            apiVars, passVars, faultVars
    <2> QED BY <2>2, <2>3
<1>4. ASSUME NEW p \in proc, PersistBegin(p) PROVE TypeInv'
    <2>1. PersistDecision(p.user, p.id) \in {"start", "insert", "promote", "done", "error"}
        BY DEF PersistDecision
    <2>2. row' = row
        BY <1>4 DEF PersistBegin, queueVars
    <2> QED BY <1>0, <1>4, <2>1, <2>2, AdvanceTypeInv DEF PersistBegin, queueVars
<1>5. ASSUME NEW p \in proc, PersistCommit(p) PROVE TypeInv'
    <2>1. row' \in [Users -> Rows]
        BY <1>0, <1>5 DEF PersistCommit, Procs, Rows
    <2>2. PICK s \in {"done", "error"} : Advance(p, s)
        BY <1>5 DEF PersistCommit
    <2> QED BY <1>5, <2>1, <2>2, AdvanceTypeInv DEF PersistCommit
<1>6. ASSUME NEW p \in proc, PersistAbort(p) PROVE TypeInv'
    <2>1. row' = row /\ Advance(p, "error")
        BY <1>6 DEF PersistAbort, queueVars
    <2> QED BY <1>0, <1>6, <2>1, AdvanceTypeInv DEF PersistAbort, queueVars
<1>7. ASSUME NEW p \in proc, FinishJob(p) PROVE TypeInv'
    <2>0. p \in Procs /\ p.user \in Users /\ proc' \subseteq proc /\ p \notin proc'
        BY <1>0, <1>7 DEF FinishJob, Procs
    <2>1. CASE ~p.own
        BY <1>0, <1>7, <2>0, <2>1
        DEF FinishJob, TypeOK, SaleTypeOK, TaskInv, LoopInv, JobInv, saleKeys, apiVars,
            passVars, faultVars
    <2>2. CASE p.own
        <3>1. /\ job[p.user] \in Jobs /\ job[p.user].state = "active" /\ job[p.user] # NoJob
              /\ job[p.user].attempts \in 0..(Attempts - 1)
              /\ job[p.user].stalls \in 0..MaxStalledCount
            BY <1>0, <2>0, <2>2, AttemptsAssumption DEF JobInv, Jobs, NoJob
        <3>2. job' = [job EXCEPT ![p.user] = FinishedJob(p)]
            BY <1>7, <2>2 DEF FinishJob
        <3>3. /\ FinishedJob(p) \in Jobs
              /\ FinishedJob(p).state \in {"completed", "failed", "waiting"}
              /\ FinishedJob(p).state = "waiting" =>
                    FinishedJob(p).attempts < Attempts /\ FinishedJob(p).stalls <= MaxStalledCount
            <4>1. CASE p.stage = "done"
                BY <3>1, <4>1 DEF FinishedJob, Jobs, NoJob
            <4>2. CASE p.stage # "done"
                <5>1. job[p.user].attempts + 1 \in 0..Attempts /\ 0 \in 0..(MaxStalledCount + 1)
                    BY <3>1, AttemptsAssumption
                <5>2. PICK n \in 0..Attempts, s \in {"waiting", "active", "completed", "failed"} :
                         /\ n = job[p.user].attempts + 1
                         /\ s = IF n >= Attempts THEN "failed" ELSE "waiting"
                         /\ FinishedJob(p) = [job[p.user] EXCEPT !.attempts = n, !.state = s]
                    BY <4>2, <5>1 DEF FinishedJob
                <5>3. /\ FinishedJob(p) \in Jobs /\ FinishedJob(p).state = s
                      /\ FinishedJob(p).attempts = n
                      /\ FinishedJob(p).stalls = job[p.user].stalls
                    BY <3>1, <5>2 DEF Jobs
                <5> QED BY <3>1, <5>2, <5>3, AttemptsAssumption
            <4> QED BY <4>1, <4>2
        <3>4. /\ job' \in [Users -> Jobs] /\ job'[p.user] = FinishedJob(p)
              /\ \A v \in Users : v # p.user => job'[v] = job[v]
            BY <1>0, <2>0, <3>2, <3>3
        <3>5. JobInv'
            BY <1>0, <2>0, <2>2, <3>3, <3>4 DEF JobInv, Procs
        <3>6. \A v \in Users : job[v].state = "failed" => job'[v] = job[v]
            BY <3>1, <3>4
        <3>7. TypeOK' /\ TaskInv' /\ LoopInv'
            BY <1>0, <1>7, <2>0, <3>4, <3>6
            DEF FinishJob, TypeOK, SaleTypeOK, TaskInv, LoopInv, ResolveTasks, saleKeys, apiVars,
                passVars, faultVars
        <3> QED BY <3>5, <3>7
    <2> QED BY <2>1, <2>2
<1> QED BY <1>1, <1>2, <1>3, <1>4, <1>5, <1>6, <1>7 DEF Consumer

\* The loops of runDiff.
LEMMA PassTypeInv ==
    ASSUME TypeInv,
           \/ StartPass \/ ScanJobs \/ RestoreRowsDone \/ ScanLedger \/ ScanBuyers
           \/ BuyersDone \/ ReconcileStock
           \/ \E u \in Users : \/ RestoreRow(u) \/ RestoreJob(u) \/ RepairEntry(u)
                               \/ InspectBuyer(u)
    PROVE  TypeInv'
<1> USE DEF TypeInv, PassFrame, saleKeys, queueVars, apiVars, passVars, faultVars
<1>1. CASE StartPass
    BY <1>1 DEF StartPass, TypeOK, SaleTypeOK, Phases, TaskInv, LoopInv, JobInv, EnsureTasks,
                AdjudicateTasks, ResolveTasks
<1>2. CASE ScanJobs
    BY <1>2 DEF ScanJobs, TypeOK, SaleTypeOK, Phases, TaskInv, LoopInv, JobInv, EnsureTasks,
                AdjudicateTasks, ResolveTasks, LiveStates, Jobs, NoJob
<1>3. CASE RestoreRowsDone
    BY <1>3 DEF RestoreRowsDone, TypeOK, SaleTypeOK, Phases, TaskInv, LoopInv, JobInv
<1>4. CASE ScanLedger
    BY <1>4 DEF ScanLedger, Reserved, TypeOK, SaleTypeOK, Phases, TaskInv, LoopInv, JobInv
<1>5. CASE ScanBuyers
    BY <1>5 DEF ScanBuyers, TypeOK, SaleTypeOK, Phases, TaskInv, LoopInv, JobInv
<1>6. CASE BuyersDone
    BY <1>6 DEF BuyersDone, ForgetSnapshot, Rows, TypeOK, SaleTypeOK, Phases, TaskInv, LoopInv,
                JobInv
<1>7. CASE ReconcileStock
    <2>1. Reserved \subseteq Users
        BY DEF Reserved
    <2>2. Cardinality(Reserved) \in Nat
        BY <2>1, UsersAssumption, FS_Subset, FS_CardinalityType
    <2>3. SaleTypeOK'
        BY <1>7, <2>2, StockAssumption DEF ReconcileStock, ReconcileStateScript,
           ReconcileStateOutcome, TypeOK, SaleTypeOK, NoStock
    <2>4. phase' \in {"scanFailed", "idle"} /\ task = NoTask
        BY <1>7 DEF ReconcileStock, TaskInv, EnsureTasks, AdjudicateTasks, ResolveTasks
    <2> QED BY <1>7, <2>3, <2>4 DEF ReconcileStock, TypeOK, Phases, TaskInv, LoopInv, JobInv
<1>8. ASSUME NEW u \in Users, RestoreRow(u) PROVE TypeInv'
    <2>1. byUser[u] \in Rows /\ byUser[u].status = "persisted" /\ byUser[u].id \in Rids
        BY <1>8 DEF RestoreRow, TypeOK, LoopInv, Rows, NoRow
    <2>2. SaleTypeOK'
        BY <1>8, <2>1 DEF RestoreRow, CompareRestoreScript, TypeOK, SaleTypeOK
    <2>3. /\ task' = NoTask \/ (task' \in EnsureTasks /\ task'.targeted = "no")
          /\ task' # NoTask => task'.user \in Users
        BY <1>8, <2>1 DEF RestoreRow, RestoreOutcome, TypeOK, SaleTypeOK, EnsureTasks
    <2> QED BY <1>8, <2>2, <2>3 DEF RestoreRow, TypeOK, TaskInv, LoopInv, JobInv
<1>9. ASSUME NEW u \in Users, RestoreJob(u) PROVE TypeInv'
    BY <1>9 DEF RestoreJob, CompareRestoreScript, TypeOK, SaleTypeOK, TaskInv, LoopInv, JobInv
<1>10. ASSUME NEW u \in Users, RepairEntry(u) PROVE TypeInv'
    <2>1. task' \in EnsureTasks /\ task'.targeted = "no"
        BY <1>10 DEF RepairEntry, EnsureTasks, TypeOK, LoopInv
    <2> QED BY <1>10, <2>1 DEF RepairEntry, TypeOK, SaleTypeOK, TaskInv, LoopInv, JobInv, EnsureTasks
<1>11. ASSUME NEW u \in Users, InspectBuyer(u) PROVE TypeInv'
    <2>1. task' = NoTask \/ task' \in EnsureTasks \/ task' \in AdjudicateTasks
        BY <1>11 DEF InspectBuyer, InspectMembership, EnsureInspected, Reserved, EnsureTasks,
                     AdjudicateTasks, TypeOK, SaleTypeOK
    <2>2. task' # NoTask => task'.user \in Users
        BY <2>1 DEF EnsureTasks, AdjudicateTasks
    <2> QED BY <1>11, <2>1, <2>2 DEF InspectBuyer, TypeOK, SaleTypeOK, TaskInv, LoopInv, JobInv
<1> QED BY <1>1, <1>2, <1>3, <1>4, <1>5, <1>6, <1>7, <1>8, <1>9, <1>10, <1>11

\* ensureLiveReservationQueued and the membership repair.
LEMMA EnsureTypeInv ==
    ASSUME TypeInv, EnsureQueued \/ RemoveStaleJob \/ EnqueueLive \/ RepairMembership
    PROVE  TypeInv'
<1> USE DEF TypeInv, PassFrame, saleKeys, queueVars, apiVars, passVars, faultVars
<1>0. /\ task \in EnsureTasks /\ task.user \in Users /\ task.id \in Rids
      /\ phase \in {"restoreRows", "repair", "buyers"}
      /\ task.targeted \in {"no", "restore", "inspect"} /\ task.handle \in Rids \cup {NoRid}
      /\ task.targeted = "no" \/ phase = "buyers"
      /\ task.step \in {"ensure", "remove", "add", "member"}
    BY DEF EnsureQueued, RemoveStaleJob, EnqueueLive, RepairMembership, TaskInv, NoTask,
           EnsureTasks, AdjudicateTasks, ResolveTasks
<1>1. ASSUME NEW s \in {"ensure", "remove", "add", "member"}
      PROVE  /\ [task EXCEPT !.step = s] \in EnsureTasks
             /\ [task EXCEPT !.step = s].user \in Users
             /\ [task EXCEPT !.step = s].targeted = task.targeted
    BY <1>0 DEF EnsureTasks
<1> DEFINE Goal(t) ==
        \/ t = NoTask
        \/ t \in EnsureTasks /\ t.user \in Users /\ t.targeted = task.targeted
        \/ t \in AdjudicateTasks /\ t.user \in Users /\ phase = "buyers"
<1>2. Goal(AfterEnsure)
    <2>1. CASE task.targeted = "restore"
        BY <1>0, <2>1 DEF AfterEnsure, AdjudicateTasks
    <2>2. CASE task.targeted # "restore" /\ task.member
        <3>1. AfterEnsure = [task EXCEPT !.step = "member"]
            BY <2>2 DEF AfterEnsure
        <3> QED BY <1>1, <3>1
    <2>3. CASE task.targeted # "restore" /\ ~task.member
        BY <2>3 DEF AfterEnsure
    <2> QED BY <2>1, <2>2, <2>3
<1>3. CASE EnsureQueued
    <2>1. CASE Leave
        BY <1>3, <2>1, LeaveInv DEF EnsureQueued, TypeOK, SaleTypeOK, JobInv
    <2>2. CASE ~Leave
        <3>1. /\ UNCHANGED <<phase, byUser, scanned, todo, failed>>
              /\ \/ \E s \in {"remove", "add"} : task' = [task EXCEPT !.step = s]
                 \/ task' = AfterEnsure
            BY <1>3, <2>2 DEF EnsureQueued
        <3>2. Goal(task')
            <4>1. CASE task' = AfterEnsure
                BY <1>2, <4>1
            <4>2. CASE \E s \in {"remove", "add"} : task' = [task EXCEPT !.step = s]
                <5>1. PICK s \in {"remove", "add"} : task' = [task EXCEPT !.step = s]
                    BY <4>2
                <5>2. /\ task' \in EnsureTasks /\ task'.user \in Users
                      /\ task'.targeted = task.targeted
                    BY <1>1, <5>1
                <5> QED BY <5>2
            <4> QED BY <3>1, <4>1, <4>2
        <3> QED BY <1>0, <1>3, <3>1, <3>2 DEF EnsureQueued, TypeOK, SaleTypeOK, TaskInv, LoopInv,
                                              JobInv
    <2> QED BY <2>1, <2>2
<1>4. CASE RemoveStaleJob
    <2>1. CASE job[task.user].state = "active"
        BY <1>4, <2>1, LeaveInv DEF RemoveStaleJob, TypeOK, SaleTypeOK, JobInv
    <2>2. CASE job[task.user].state # "active"
        <3>1. /\ job' \in [Users -> Jobs] /\ job'[task.user] = NoJob
              /\ \A v \in Users : v # task.user => job'[v] = job[v]
            BY <1>0, <1>4, <2>2 DEF RemoveStaleJob, TypeOK, Jobs
        <3>2. /\ task' \in EnsureTasks /\ task'.user \in Users
              /\ task'.targeted = task.targeted
              /\ UNCHANGED <<phase, byUser, scanned, todo, failed>>
            BY <1>1, <1>4, <2>2 DEF RemoveStaleJob
        <3>3. JobInv'
            <4>1. \A p \in proc : p.own => p.user \in Users /\ p.user # task.user
                BY <2>2 DEF JobInv, TypeOK, Procs
            <4>2. \A v \in Users : job'[v].state \in {"waiting", "active"} => job'[v] = job[v]
                BY <3>1 DEF NoJob
            <4>3. proc' = proc
                BY <1>4 DEF RemoveStaleJob
            <4> QED BY <3>1, <4>1, <4>2, <4>3 DEF JobInv
        <3>4. TypeOK' /\ TaskInv' /\ LoopInv'
            BY <1>0, <1>4, <3>1, <3>2 DEF RemoveStaleJob, TypeOK, SaleTypeOK, TaskInv, LoopInv
        <3> QED BY <3>3, <3>4
    <2> QED BY <2>1, <2>2
<1>5. CASE EnqueueLive
    <2>1. job' \in [Users -> Jobs] /\ JobInv'
        BY <1>0, <1>5, QueueAddJob, QueueAddInv DEF EnqueueLive
    <2>2. CASE Leave
        BY <1>5, <2>1, <2>2, LeaveInv DEF EnqueueLive, TypeOK, SaleTypeOK
    <2>3. CASE ~Leave
        <3>1. /\ UNCHANGED <<phase, byUser, scanned, todo, failed>>
              /\ Goal(task')
            BY <1>2, <1>5, <2>3 DEF EnqueueLive
        <3>2. TypeOK' /\ TaskInv' /\ LoopInv'
            BY <1>0, <1>5, <2>1, <3>1 DEF EnqueueLive, TypeOK, SaleTypeOK, TaskInv, LoopInv
        <3> QED BY <2>1, <3>2
    <2> QED BY <2>2, <2>3
<1>6. CASE RepairMembership
    <2>1. SaleTypeOK'
        BY <1>0, <1>6 DEF RepairMembership, ReconcileMembershipScript, TypeOK, SaleTypeOK
    <2>2. CASE Leave
        BY <1>6, <2>1, <2>2, LeaveInv DEF RepairMembership, TypeOK, JobInv
    <2>3. CASE ~Leave
        BY <1>0, <1>6, <2>1, <2>3 DEF RepairMembership, TypeOK, TaskInv, LoopInv, JobInv
    <2> QED BY <2>2, <2>3
<1> QED BY <1>3, <1>4, <1>5, <1>6

\* adjudicateBuyerOnly
LEMMA AdjudicateTypeInv ==
    ASSUME TypeInv,
           AdjudicateReadRow \/ AdjudicateReadJob \/ Adjudicate \/ AdjudicateReinspect
    PROVE  TypeInv'
<1> USE DEF TypeInv, PassFrame, saleKeys, queueVars, apiVars, passVars, faultVars
<1>0. /\ task \in AdjudicateTasks /\ task.user \in Users /\ phase = "buyers"
      /\ task.step \in {"readJob", "adjudicate"} => task.row \in Rows
      /\ task.step = "adjudicate" => task.id \in Rids \cup {NoRid}
      /\ task.step \in {"adjudicate", "reinspect"} => task.handle \in Rids \cup {NoRid}
    <2>1. task.step \in {"readRow", "readJob", "adjudicate", "reinspect"}
        BY DEF AdjudicateReadRow, AdjudicateReadJob, Adjudicate, AdjudicateReinspect
    <2>2. task \in AdjudicateTasks /\ phase = "buyers"
        BY <2>1 DEF TaskInv, NoTask, EnsureTasks, ResolveTasks
    <2> QED BY <2>2 DEF AdjudicateTasks
<1>1. CASE AdjudicateReadRow
    BY <1>0, <1>1 DEF AdjudicateReadRow, AdjudicateTasks, TypeOK, SaleTypeOK, TaskInv, LoopInv,
                      JobInv
<1>2. CASE AdjudicateReadJob
    BY <1>0, <1>2 DEF AdjudicateReadJob, AdjudicateTasks, TypeOK, SaleTypeOK, TaskInv, LoopInv,
                      JobInv, LiveStates, Jobs, NoJob
<1>3. CASE Adjudicate
    <2>1. Candidate # NoRid => Candidate \in Rids
        BY <1>0, <1>3 DEF Adjudicate, Candidate, Rows, NoRow
    <2>2. SaleTypeOK'
        BY <1>0, <1>3, <2>1 DEF Adjudicate, Recover, DropBuyer, CompareRestoreScript,
           ReconcileMembershipScript, TypeOK, SaleTypeOK
    <2>3. CASE Leave
        BY <1>3, <2>2, <2>3, LeaveInv DEF Adjudicate, TypeOK, JobInv
    <2>4. CASE ~Leave
        <3>1. \/ task' \in AdjudicateTasks /\ task'.user \in Users
              \/ task' \in EnsureTasks /\ task'.user \in Users
            <4>1. CASE Recover
                <5>1. CASE RestoreOutcome(task.user, Candidate) = "CONFLICT"
                    <6>1. reservations[task.user] \in Rids
                        BY <1>0, <5>1 DEF RestoreOutcome, TypeOK, SaleTypeOK
                    <6> QED BY <1>0, <1>3, <4>1, <6>1 DEF Adjudicate, Recover, AdjudicateTasks,
                                                          EnsureTasks
                <5>2. CASE RestoreOutcome(task.user, Candidate) # "CONFLICT"
                    BY <1>0, <1>3, <4>1, <5>2 DEF Adjudicate, Recover, AdjudicateTasks
                <5> QED BY <5>1, <5>2
            <4>2. CASE DropBuyer
                BY <1>0, <1>3, <4>2 DEF Adjudicate, DropBuyer, AdjudicateTasks
            <4> QED BY <1>3, <2>4, <4>1, <4>2 DEF Adjudicate
        <3>2. UNCHANGED <<phase, byUser, scanned, todo, failed>>
            BY <1>3, <2>4 DEF Adjudicate
        <3> QED BY <1>0, <1>3, <2>2, <3>1, <3>2 DEF Adjudicate, TypeOK, TaskInv, LoopInv, JobInv
    <2> QED BY <2>3, <2>4
<1>4. CASE AdjudicateReinspect
    <2>1. CASE Leave
        BY <1>4, <2>1, LeaveInv DEF AdjudicateReinspect, TypeOK, SaleTypeOK, JobInv
    <2>2. CASE ~Leave
        <3>1. task' = NoTask \/ (task' \in EnsureTasks /\ task'.user \in Users)
            <4>1. CASE reservations[task.user] = NoRid
                <5>1. InspectMembership(task.user) \in {"NEITHER", "BUYER_ONLY"}
                    BY <1>0, <4>1 DEF InspectMembership, Reserved
                <5> QED BY <1>4, <2>2, <5>1 DEF AdjudicateReinspect
            <4>2. CASE reservations[task.user] # NoRid
                <5>1. EnsureInspected(task.user, "inspect", task.handle) \in EnsureTasks
                    <6>1. task.handle \in Rids \cup {NoRid} /\ reservations[task.user] \in Rids
                        BY <1>0, <1>4, <4>2 DEF AdjudicateReinspect, TypeOK, SaleTypeOK
                    <6> QED BY <1>0, <6>1 DEF EnsureInspected, EnsureTasks
                <5>2. task' \in {NoTask, EnsureInspected(task.user, "inspect", task.handle)}
                    BY <1>4, <2>2 DEF AdjudicateReinspect
                <5>3. EnsureInspected(task.user, "inspect", task.handle).user = task.user
                    BY DEF EnsureInspected
                <5> QED BY <1>0, <5>1, <5>2, <5>3
            <4> QED BY <4>1, <4>2
        <3> QED BY <1>0, <1>4, <2>2, <3>1 DEF AdjudicateReinspect, TypeOK, SaleTypeOK, TaskInv,
                                              LoopInv, JobInv
    <2> QED BY <2>1, <2>2
<1> QED BY <1>1, <1>2, <1>3, <1>4

\* sweepFailed and resolveFailed
LEMMA SweepTypeInv ==
    ASSUME TypeInv,
           \/ StartSweep \/ ListFailed \/ (\E u \in Users : ResolveBegin(u))
           \/ ResolveCompensate \/ ResolveCommit \/ ResolveAbort \/ RemoveFailedJob \/ SweepDone
    PROVE  TypeInv'
<1> USE DEF TypeInv, PassFrame, saleKeys, queueVars, apiVars, passVars, faultVars
<1>0. task.step \in {"compensate", "compensateAfterCommit", "commit", "removeJob"} =>
        /\ task \in ResolveTasks /\ task.user \in Users /\ task.id \in Rids /\ phase = "dlq"
        /\ task # NoTask /\ task.user \notin todo
        /\ job[task.user].state = "failed" /\ job[task.user].id = task.id
    BY DEF TaskInv, LoopInv, NoTask, EnsureTasks, AdjudicateTasks, ResolveTasks
<1>1. CASE StartSweep
    BY <1>1 DEF StartSweep, TypeOK, SaleTypeOK, Phases, TaskInv, LoopInv, JobInv, EnsureTasks,
                AdjudicateTasks, ResolveTasks
<1>2. CASE ListFailed
    BY <1>2 DEF ListFailed, TypeOK, SaleTypeOK, Phases, TaskInv, LoopInv, JobInv, EnsureTasks,
                AdjudicateTasks, ResolveTasks
<1>3. ASSUME NEW u \in Users, ResolveBegin(u) PROVE TypeInv'
    <2>1. /\ job[u].state = "failed" /\ job[u].id \in Rids /\ row[u] \in Rows
          /\ ResolveDecision(u, job[u].id)
                \in {"compensate", "compensateAfterCommit", "commit", "removeJob"}
        BY <1>3 DEF ResolveBegin, ResolveDecision, LoopInv, TypeOK, Jobs, NoJob
    <2>2. task' \in ResolveTasks /\ task'.user = u /\ task'.id = job[u].id
        BY <1>3, <2>1 DEF ResolveBegin, ResolveTasks
    <2> QED BY <1>3, <2>1, <2>2 DEF ResolveBegin, TypeOK, SaleTypeOK, TaskInv, LoopInv, JobInv
<1>4. CASE ResolveCompensate
    <2>1. SaleTypeOK'
        BY <1>4 DEF ResolveCompensate, CompensateScript, CompensatedStock, StockValue, NoStock,
                    TypeOK, SaleTypeOK
    <2>2. /\ task' \in ResolveTasks /\ task'.user = task.user /\ task'.id = task.id
          /\ task'.user \in Users
        BY <1>0, <1>4 DEF ResolveCompensate, ResolveTasks
    <2>3. credited' \in [Users -> [Rids -> 0..2]]
        BY <1>0, <1>4 DEF ResolveCompensate, TypeOK
    <2> QED BY <1>0, <1>4, <2>1, <2>2, <2>3 DEF ResolveCompensate, TypeOK, TaskInv, LoopInv, JobInv
<1>5. CASE ResolveCommit
    <2>1. row' \in [Users -> Rows]
        BY <1>0, <1>5 DEF ResolveCommit, TypeOK, Rows
    <2>2. \/ task' = NoTask
          \/ task' \in ResolveTasks /\ task'.user = task.user /\ task'.id = task.id
        BY <1>0, <1>5 DEF ResolveCommit, ResolveTasks
    <2>3. failed' \in BOOLEAN
        BY <1>5 DEF ResolveCommit, TypeOK
    <2> QED BY <1>0, <1>5, <2>1, <2>2, <2>3 DEF ResolveCommit, TypeOK, SaleTypeOK, TaskInv, LoopInv,
                                                JobInv
<1>6. CASE ResolveAbort
    BY <1>0, <1>6, PipelineBounds DEF ResolveAbort, TypeOK, SaleTypeOK, TaskInv, LoopInv, JobInv
<1>7. CASE RemoveFailedJob
    <2>1. /\ job' \in [Users -> Jobs]
          /\ \A v \in Users : v # task.user => job'[v] = job[v]
          /\ job'[task.user] \in {NoJob, job[task.user]}
        BY <1>0, <1>7 DEF RemoveFailedJob, TypeOK, Jobs
    <2>2. JobInv'
        <3>1. \A p \in proc : p.own => p.user \in Users /\ p.user # task.user
            BY <1>0, <1>7 DEF RemoveFailedJob, JobInv, TypeOK, Procs
        <3>2. \A v \in Users : job'[v].state \in {"waiting", "active"} => job'[v] = job[v]
            BY <2>1 DEF NoJob
        <3>3. proc' = proc
            BY <1>7 DEF RemoveFailedJob
        <3> QED BY <2>1, <3>1, <3>2, <3>3 DEF JobInv
    <2>3. failed' \in BOOLEAN
        BY <1>7 DEF RemoveFailedJob, TypeOK
    <2>4. TypeOK' /\ TaskInv' /\ LoopInv'
        BY <1>0, <1>7, <2>1, <2>3 DEF RemoveFailedJob, TypeOK, SaleTypeOK, TaskInv, LoopInv
    <2> QED BY <2>2, <2>4
<1>8. CASE SweepDone
    BY <1>8, LeaveInv DEF SweepDone, TypeOK, SaleTypeOK, JobInv
<1> QED BY <1>1, <1>2, <1>3, <1>4, <1>5, <1>6, <1>7, <1>8

\* Every step, and every fault, keeps TypeInv.
LEMMA NextTypeInv ==
    TypeInv /\ [Next]_vars => TypeInv'
<1> SUFFICES ASSUME TypeInv, [Next]_vars PROVE TypeInv'
    OBVIOUS
<1> USE DEF vars, saleKeys, queueVars, apiVars, passVars, faultVars
<1>1. CASE Tick
    BY <1>1 DEF Tick, TypeInv, TypeOK, SaleTypeOK, TaskInv, LoopInv, JobInv
<1>2. CASE WorkerCrash
    <2>1. crashes' \in 0..MaxCrashes /\ aborts' \in 0..MaxResolveAborts
        BY <1>2, PipelineBounds DEF WorkerCrash, TypeInv, TypeOK
    <2>2. TypeOK' /\ TaskInv' /\ LoopInv'
        BY <1>2, <2>1, LeaveInv DEF WorkerCrash, TypeInv, TypeOK, SaleTypeOK
    <2>3. JobInv'
        BY <1>2 DEF WorkerCrash, TypeInv, JobInv
    <2> QED BY <2>2, <2>3 DEF TypeInv
<1>3. CASE PassFails
    <2>1. crashes' \in 0..MaxCrashes
        BY <1>3, PipelineBounds DEF PassFails, TypeInv, TypeOK
    <2> QED BY <1>3, <2>1, LeaveInv DEF PassFails, TypeInv, TypeOK, SaleTypeOK, JobInv
<1>4. ASSUME NEW u \in Users, LoseReservation(u) PROVE TypeInv'
    BY <1>4, PipelineBounds DEF LoseReservation, TypeInv, TypeOK, SaleTypeOK, TaskInv, LoopInv,
                                JobInv
<1>5. CASE UNCHANGED vars
    BY <1>5 DEF TypeInv, TypeOK, SaleTypeOK, TaskInv, LoopInv, JobInv
<1> QED
    BY <1>1, <1>2, <1>3, <1>4, <1>5, ApiTypeInv, ConsumerTypeInv, PassTypeInv, EnsureTypeInv,
       AdjudicateTypeInv, SweepTypeInv
    DEF Next, MaintenanceStep, Faults

\* The declared types of the pipeline, with every fault of the model allowed:
\* no retry, stall or crash takes a counter of a job past its limit.
THEOREM PipelineTypes ==
    Spec => []TypeInv
BY InitTypeInv, NextTypeInv, PTL DEF Spec

-----------------------------------------------------------------------------
(* Who writes a row: LockInv *)

\* A step that writes no row, starts no writing transaction and is not a step
\* of a resolution.
LEMMA LockFrame ==
    ASSUME LockInv, row' = row,
           task'.step \in {"compensate", "commit"} => task' = task,
           \A q \in proc' : Writing(q) => q \in proc
    PROVE  LockInv'
<1>1. OneWriter'
    BY DEF LockInv, OneWriter
<1>2. WriterAndResolver'
    BY DEF LockInv, WriterAndResolver, ResolverIn
<1>3. WriterRead'
    BY DEF LockInv, WriterRead, Writing, WritingStages
<1>4. ResolverRead'
    BY DEF LockInv, ResolverRead
<1> QED BY <1>1, <1>2, <1>3, <1>4 DEF LockInv

\* The transactions of the processors keep LockInv: only one is past its read of
\* a user's row, and a second one finds the lock taken.
LEMMA ConsumerLockInv ==
    ASSUME TypeInv, LockInv, Consumer
    PROVE  LockInv'
<1> USE DEF queueVars, passVars, Writing, WritingStages
<1>0. proc \subseteq Procs /\ OneWriter /\ WriterAndResolver /\ WriterRead /\ ResolverRead
    BY DEF TypeInv, TypeOK, LockInv
<1>1. ASSUME NEW u \in Users, StartJob(u) PROVE LockInv'
    BY <1>1, LockFrame DEF StartJob
<1>2. ASSUME NEW u \in Users, Stall(u) PROVE LockInv'
    <2>1. row' = row /\ task' = task
        BY <1>2 DEF Stall
    <2>2. \A q \in proc' : \E p \in proc :
             /\ q.user = p.user /\ q.id = p.id /\ q.stage = p.stage
             /\ q = IF p.user = u THEN [p EXCEPT !.own = FALSE] ELSE p
        BY <1>0, <1>2 DEF Stall, Procs
    <2>3. OneWriter'
        <3>1. ASSUME NEW q1 \in proc', NEW q2 \in proc',
                     Writing(q1), Writing(q2), q1.user = q2.user
              PROVE  q1 = q2
            <4>1. PICK p1 \in proc : /\ q1.user = p1.user /\ q1.stage = p1.stage
                                     /\ q1 = IF p1.user = u THEN [p1 EXCEPT !.own = FALSE] ELSE p1
                BY <2>2
            <4>2. PICK p2 \in proc : /\ q2.user = p2.user /\ q2.stage = p2.stage
                                     /\ q2 = IF p2.user = u THEN [p2 EXCEPT !.own = FALSE] ELSE p2
                BY <2>2
            <4>3. p1 = p2
                BY <1>0, <3>1, <4>1, <4>2 DEF OneWriter
            <4> QED BY <4>1, <4>2, <4>3
        <3> QED BY <3>1 DEF OneWriter
    <2>4. WriterAndResolver' /\ WriterRead' /\ ResolverRead'
        BY <1>0, <2>1, <2>2 DEF WriterAndResolver, WriterRead, ResolverRead, ResolverIn
    <2> QED BY <2>3, <2>4 DEF LockInv
<1>3. ASSUME NEW u \in Users, EvictCompleted(u) PROVE LockInv'
    BY <1>3, LockFrame DEF EvictCompleted
<1>4. ASSUME NEW p \in proc, PersistBegin(p) PROVE LockInv'
    <2> DEFINE s == PersistDecision(p.user, p.id)
    <2>1. /\ s \in {"start", "insert", "promote", "done", "error"} /\ Advance(p, s)
          /\ row' = row /\ task' = task
        BY <1>4 DEF PersistBegin, PersistDecision
    <2>2. /\ \A q \in proc : Writing(q) => q.user # p.user
          /\ ResolverIn(p.user) => task.row = NoRow /\ task.id # p.id
        BY <1>4 DEF PersistBegin, AdvisoryLocked, RowLocked
    <2>3. /\ s = "insert" => row[p.user] = NoRow
          /\ s = "promote" => row[p.user].status = "compensated"
        BY DEF PersistDecision
    <2> HIDE DEF s
    <2>4. \A q \in proc' : \/ q \in proc /\ q # p
                           \/ /\ q.user = p.user /\ q.id = p.id /\ q.stage = s
                              /\ q = [p EXCEPT !.stage = s]
        BY <2>1, AdvanceProc
    <2>5. OneWriter'
        BY <1>0, <2>2, <2>4 DEF OneWriter
    <2>6. WriterAndResolver'
        BY <1>0, <2>1, <2>2, <2>4 DEF WriterAndResolver, ResolverIn
    <2>7. WriterRead' /\ ResolverRead'
        BY <1>0, <2>1, <2>3, <2>4 DEF WriterRead, ResolverRead
    <2> QED BY <2>5, <2>6, <2>7 DEF LockInv
<1>5. ASSUME NEW p \in proc, PersistCommit(p) PROVE LockInv'
    <2>1. PICK s \in {"done", "error"} : Advance(p, s)
        BY <1>5 DEF PersistCommit
    <2>2. \A q \in proc' : Writing(q) => q \in proc /\ q # p
        BY <2>1, AdvanceProc
    <2>3. /\ Writing(p) /\ p.user \in Users /\ task' = task
          /\ row'[p.user] = [id |-> p.id, status |-> "persisted"]
          /\ \A v \in Users : v # p.user => row'[v] = row[v]
        BY <1>0, <1>5 DEF PersistCommit, TypeInv, TypeOK, Procs
    <2>4. OneWriter' /\ WriterAndResolver'
        BY <1>0, <2>2, <2>3 DEF OneWriter, WriterAndResolver, ResolverIn
    <2>5. WriterRead'
        <3>1. \A q \in proc' : Writing(q) => q.user \in Users /\ q.user # p.user
            BY <1>0, <2>2, <2>3 DEF OneWriter, Procs
        <3> QED BY <1>0, <2>2, <2>3, <3>1 DEF WriterRead
    <2>6. ResolverRead'
        <3>1. task.step \in {"compensate", "commit"} => task.user \in Users /\ task # NoTask
            BY DEF TypeInv, TaskInv, NoTask, EnsureTasks, AdjudicateTasks, ResolveTasks
        <3>2. CASE task.step \in {"compensate", "commit"} /\ task.user = p.user
            BY <1>0, <2>3, <3>1, <3>2 DEF WriterAndResolver, ResolverIn, ResolverRead, IsPersisted
        <3>3. CASE ~(task.step \in {"compensate", "commit"} /\ task.user = p.user)
            BY <1>0, <2>3, <3>1, <3>3 DEF ResolverRead
        <3> QED BY <3>2, <3>3
    <2> QED BY <2>4, <2>5, <2>6 DEF LockInv
<1>6. ASSUME NEW p \in proc, PersistAbort(p) PROVE LockInv'
    <2>1. \A q \in proc' : Writing(q) => q \in proc
        BY <1>6, AdvanceProc DEF PersistAbort
    <2> QED BY <1>6, <2>1, LockFrame DEF PersistAbort
<1>7. ASSUME NEW p \in proc, FinishJob(p) PROVE LockInv'
    BY <1>7, LockFrame DEF FinishJob
<1> QED BY <1>1, <1>2, <1>3, <1>4, <1>5, <1>6, <1>7 DEF Consumer

\* The resolution of a failed job keeps LockInv from its read of the row to the
\* commit of its marker.
LEMMA ResolveLockInv ==
    ASSUME TypeInv, LockInv,
           (\E u \in Users : ResolveBegin(u)) \/ ResolveCompensate \/ ResolveCommit
    PROVE  LockInv'
<1> USE DEF PassFrame, queueVars, passVars
<1>0. /\ proc \subseteq Procs /\ OneWriter /\ WriterAndResolver /\ WriterRead /\ ResolverRead
      /\ row \in [Users -> Rows]
    BY DEF TypeInv, TypeOK, LockInv
<1>1. task.step \in {"compensate", "compensateAfterCommit", "commit"} =>
        task \in ResolveTasks /\ task.user \in Users /\ task # NoTask
    BY DEF TypeInv, TaskInv, NoTask, EnsureTasks, AdjudicateTasks, ResolveTasks
<1>2. ASSUME NEW u \in Users, ResolveBegin(u) PROVE LockInv'
    <2>1. /\ row' = row /\ proc' = proc
          /\ task'.user = u /\ task'.row = row[u] /\ task'.id = job[u].id
          /\ task'.step = ResolveDecision(u, job[u].id)
        BY <1>2 DEF ResolveBegin
    <2>2. \A q \in proc : Writing(q) => q.user # u
        BY <1>2 DEF ResolveBegin, RowLocked, Writing
    <2>3. OneWriter' /\ WriterRead'
        BY <1>0, <2>1 DEF OneWriter, WriterRead
    <2>4. WriterAndResolver'
        BY <2>1, <2>2 DEF WriterAndResolver, ResolverIn
    <2>5. ResolverRead'
        BY <2>1 DEF ResolverRead, ResolveDecision, IsPersisted
    <2> QED BY <2>3, <2>4, <2>5 DEF LockInv
<1>3. CASE ResolveCompensate
    <2>1. /\ row' = row /\ proc' = proc
          /\ task.step \in {"compensate", "compensateAfterCommit"}
          /\ task' = [task EXCEPT !.step = IF @ = "compensate" THEN "commit" ELSE "removeJob"]
        BY <1>3 DEF ResolveCompensate
    <2>2. /\ task'.user = task.user /\ task'.id = task.id /\ task'.row = task.row
          /\ task'.step \in {"compensate", "commit"} => task.step = "compensate"
        BY <1>1, <2>1 DEF ResolveTasks
    <2>3. OneWriter' /\ WriterRead'
        BY <1>0, <2>1 DEF OneWriter, WriterRead
    <2>4. WriterAndResolver'
        BY <1>0, <1>1, <2>1, <2>2 DEF WriterAndResolver, ResolverIn
    <2>5. ResolverRead'
        BY <1>0, <2>1, <2>2 DEF ResolverRead
    <2> QED BY <2>3, <2>4, <2>5 DEF LockInv
<1>4. CASE ResolveCommit
    <2>1. /\ task.step = "commit" /\ ~MarkerBlocked /\ ~MarkerConflict /\ proc' = proc
          /\ row' = IF task.row.status = "persisted" THEN row
                    ELSE [row EXCEPT ![task.user] = [id |-> task.id, status |-> "compensated"]]
        BY <1>4 DEF ResolveCommit
    <2>2. task'.step \notin {"compensate", "commit"}
        BY <1>1, <1>4 DEF ResolveCommit, ResolveTasks, NoTask
    <2>3. \A q \in proc : Writing(q) => q.user # task.user /\ q.user \in Users
        BY <1>0, <1>1, <2>1 DEF WriterAndResolver, ResolverIn, MarkerBlocked, Writing, Procs
    <2>4. OneWriter'
        BY <1>0, <2>1 DEF OneWriter
    <2>5. WriterAndResolver' /\ ResolverRead'
        BY <2>2 DEF WriterAndResolver, ResolverIn, ResolverRead
    <2>6. WriterRead'
        <3>1. \A q \in proc : Writing(q) => row'[q.user] = row[q.user]
            BY <1>0, <2>1, <2>3
        <3> QED BY <1>0, <2>1, <3>1 DEF WriterRead, Writing, WritingStages
    <2> QED BY <2>4, <2>5, <2>6 DEF LockInv
<1> QED BY <1>2, <1>3, <1>4

\* The other steps of the chain and of the API neither write a row nor move a
\* resolution, and a crash ends every transaction.
LEMMA OtherLockInv ==
    ASSUME TypeInv, LockInv,
           \/ Tick \/ Api \/ StartPass \/ StartSweep \/ Faults
           \/ ScanJobs \/ RestoreRowsDone \/ ScanLedger \/ ScanBuyers \/ BuyersDone
           \/ \E u \in Users : \/ RestoreRow(u) \/ RestoreJob(u) \/ RepairEntry(u)
                               \/ InspectBuyer(u)
           \/ EnsureQueued \/ RemoveStaleJob \/ EnqueueLive \/ RepairMembership
           \/ AdjudicateReadRow \/ AdjudicateReadJob \/ Adjudicate \/ AdjudicateReinspect
           \/ ReconcileStock \/ ListFailed \/ RemoveFailedJob \/ SweepDone
    PROVE  LockInv'
<1> USE DEF PassFrame, queueVars, passVars, NoTask
<1>1. CASE Tick \/ Api \/ \E u \in Users : LoseReservation(u)
    BY <1>1, LockFrame DEF Tick, Api, Purchase, EnqueueLands, EnqueueFails, LoseReservation
<1>2. CASE \/ StartPass \/ StartSweep \/ ScanJobs \/ RestoreRowsDone \/ ScanLedger \/ ScanBuyers
           \/ BuyersDone \/ ReconcileStock \/ ListFailed
    BY <1>2, LockFrame
    DEF StartPass, StartSweep, ScanJobs, RestoreRowsDone, ScanLedger, ScanBuyers, BuyersDone,
        ReconcileStock, ListFailed
<1>3. CASE ResolveAbort \/ RemoveFailedJob \/ SweepDone \/ WorkerCrash \/ PassFails
    BY <1>3, LockFrame DEF ResolveAbort, RemoveFailedJob, SweepDone, WorkerCrash, PassFails, Leave
<1>4. ASSUME NEW u \in Users, RestoreRow(u) \/ RestoreJob(u) \/ RepairEntry(u) \/ InspectBuyer(u)
      PROVE  LockInv'
    <2>1. row' = row /\ proc' = proc
        BY <1>4 DEF RestoreRow, RestoreJob, RepairEntry, InspectBuyer
    <2>2. task'.step \notin {"compensate", "commit"} \/ task' = task
        BY <1>4 DEF RestoreRow, RestoreJob, RepairEntry, InspectBuyer, EnsureInspected
    <2> QED BY <2>1, <2>2, LockFrame
<1>5. CASE EnsureQueued \/ RemoveStaleJob \/ EnqueueLive \/ RepairMembership
    <2>1. row' = row /\ proc' = proc
        BY <1>5 DEF EnsureQueued, RemoveStaleJob, EnqueueLive, RepairMembership
    <2>2. TypeInv' /\ phase' # "dlq"
        <3>1. phase # "dlq"
            BY <1>5 DEF TypeInv, TaskInv, EnsureTasks, AdjudicateTasks, ResolveTasks, EnsureQueued,
                        RemoveStaleJob, EnqueueLive, RepairMembership
        <3> QED BY <1>5, <3>1, EnsureTypeInv
                DEF EnsureQueued, RemoveStaleJob, EnqueueLive, RepairMembership, Leave
    <2>3. task'.step \notin {"compensate", "commit"}
        BY <2>2 DEF TypeInv, TaskInv, EnsureTasks, AdjudicateTasks
    <2> QED BY <2>1, <2>3, LockFrame
<1>6. CASE AdjudicateReadRow \/ AdjudicateReadJob \/ Adjudicate \/ AdjudicateReinspect
    <2>1. row' = row /\ proc' = proc
        BY <1>6 DEF AdjudicateReadRow, AdjudicateReadJob, Adjudicate, AdjudicateReinspect
    <2>2. task'.step \notin {"compensate", "commit"}
        BY <1>6 DEF AdjudicateReadRow, AdjudicateReadJob, Adjudicate, Recover, DropBuyer,
                    AdjudicateReinspect, EnsureInspected, Leave
    <2> QED BY <2>1, <2>2, LockFrame
<1> QED BY <1>1, <1>2, <1>3, <1>4, <1>5, <1>6 DEF Faults

\* Every step, and every fault, keeps LockInv.
LEMMA NextLockInv ==
    TypeInv /\ LockInv /\ [Next]_vars => LockInv'
<1> SUFFICES ASSUME TypeInv, LockInv, [Next]_vars PROVE LockInv'
    OBVIOUS
<1>1. CASE UNCHANGED vars
    BY <1>1, LockFrame DEF vars, queueVars, passVars
<1>2. CASE Next
    BY <1>2, ConsumerLockInv, ResolveLockInv, OtherLockInv DEF Next, MaintenanceStep, Faults
<1> QED BY <1>1, <1>2

\* Only a processor's transaction and a resolution write rows.
LEMMA RowWriters ==
    ASSUME [Next]_vars
    PROVE  row' = row \/ ResolveCommit \/ \E p \in proc : PersistCommit(p)
<1> USE DEF PassFrame, queueVars
<1>1. CASE Tick \/ Api \/ StartPass \/ StartSweep \/ Faults \/ UNCHANGED vars
    BY <1>1 DEF Tick, Api, Purchase, EnqueueLands, EnqueueFails, StartPass, StartSweep, Faults,
                WorkerCrash, PassFails, ResolveAbort, LoseReservation, vars
<1>2. CASE Consumer
    BY <1>2 DEF Consumer, StartJob, Stall, EvictCompleted, PersistBegin, PersistAbort, FinishJob
<1>3. CASE MaintenanceStep
    BY <1>3 DEF MaintenanceStep, ScanJobs, RestoreRowsDone, ScanLedger, ScanBuyers, BuyersDone,
                RestoreRow, RestoreJob, RepairEntry, InspectBuyer, ResolveBegin, EnsureQueued,
                RemoveStaleJob, EnqueueLive, RepairMembership, AdjudicateReadRow,
                AdjudicateReadJob, Adjudicate, AdjudicateReinspect, ReconcileStock, ListFailed,
                ResolveCompensate, RemoveFailedJob, SweepDone
<1> QED BY <1>1, <1>2, <1>3 DEF Next

\* A persisted order is never rewritten, whatever crashes, aborted resolutions,
\* lost ledger fields and late adds there are (persist and resolveFailed under
\* the advisory lock and the unique index).
THEOREM PersistedOrdersFinal ==
    Spec => PersistedIsFinal
<1>1. Init => LockInv
    BY DEF Init, LockInv, OneWriter, WriterAndResolver, WriterRead, ResolverRead, NoTask
<1>2. ASSUME TypeInv, LockInv, [Next]_vars
      PROVE  \A u \in Persisted : row'[u] = row[u]
    <2>0. /\ proc \subseteq Procs /\ row \in [Users -> Rows] /\ WriterRead /\ ResolverRead
        BY <1>2 DEF TypeInv, TypeOK, LockInv
    <2>1. CASE ResolveCommit
        <3>1. task.step = "commit" /\ ~MarkerConflict
            BY <2>1 DEF ResolveCommit
        <3>2. task.row.status = "persisted" \/ row[task.user].status # "persisted"
            BY <2>0, <3>1 DEF ResolverRead, MarkerConflict, NoRow
        <3> QED BY <2>0, <2>1, <3>2 DEF ResolveCommit, Persisted
    <2>2. ASSUME NEW p \in proc, PersistCommit(p)
          PROVE  \A u \in Persisted : row'[u] = row[u]
        <3>1. row[p.user].status # "persisted"
            BY <2>0, <2>2 DEF PersistCommit, WriterRead, WritingStages, NoRow
        <3> QED BY <2>0, <2>2, <3>1 DEF PersistCommit, Persisted
    <2> QED BY <1>2, <2>1, <2>2, RowWriters
<1>3. TypeInv /\ LockInv /\ [Next]_vars => [\A u \in Persisted : row'[u] = row[u]]_row
    BY <1>2
<1> QED BY <1>1, <1>3, InitTypeInv, NextTypeInv, NextLockInv, PTL DEF Spec, PersistedIsFinal

-----------------------------------------------------------------------------
(* Units and identities without the faults: UnitInv *)

PipelineInv == TypeInv /\ LockInv /\ UnitInv

\* The users with a field in the ledger, now and after a step.
LEMMA ReservedFinite ==
    /\ IsFiniteSet(Reserved) /\ Cardinality(Reserved) \in Nat
    /\ IsFiniteSet(Reserved') /\ Cardinality(Reserved') \in Nat
<1>1. Reserved \subseteq Users /\ Reserved' \subseteq Users
    BY DEF Reserved
<1>2. IsFiniteSet(Reserved) /\ IsFiniteSet(Reserved')
    BY <1>1, UsersAssumption, FS_Subset
<1> QED BY <1>2, FS_CardinalityType

\* HSET of an absent field, and HDEL of a present one.
LEMMA ReservedGrows ==
    ASSUME NEW u \in Users, reservations[u] = NoRid, reservations'[u] # NoRid,
           \A v \in Users : v # u => reservations'[v] = reservations[v]
    PROVE  /\ Reserved' = Reserved \cup {u}
           /\ Cardinality(Reserved') = Cardinality(Reserved) + 1
<1>1. Reserved' = Reserved \cup {u} /\ u \notin Reserved
    BY DEF Reserved
<1> QED BY <1>1, ReservedFinite, FS_AddElement

\* Withdrawing a reservation makes the ledger one entry smaller.
LEMMA ReservedShrinks ==
    ASSUME NEW u \in Users, reservations[u] # NoRid, reservations'[u] = NoRid,
           \A v \in Users : v # u => reservations'[v] = reservations[v]
    PROVE  /\ Reserved' = Reserved \ {u}
           /\ Cardinality(Reserved') = Cardinality(Reserved) - 1
           /\ Cardinality(Reserved) > 0
<1>1. Reserved' = Reserved \ {u} /\ u \in Reserved
    BY DEF Reserved
<1>2. Cardinality(Reserved') = Cardinality(Reserved) - 1
    BY <1>1, ReservedFinite, FS_RemoveElement
<1> QED BY <1>1, <1>2, ReservedFinite

\* Where a job after a step comes from: it was there, or it carries the
\* reservation on file or, added late, one that was issued.
JobsKept ==
    \A u \in Users : job'[u] # NoJob =>
        \/ job[u] # NoJob /\ job'[u].id = job[u].id
        \/ reservations[u] # NoRid /\ job'[u].id = reservations[u]
        \/ LateAdds /\ job'[u].id \in issued[u]

\* And a processor runs an issued reservation, and writes only the one on file.
ProcsKept ==
    \A q \in proc' : /\ q.user \in Users /\ q.id \in issued[q.user]
                     /\ Writing(q) => reservations[q.user] = q.id

\* With the processors unchanged, no transaction starts to write.
LEMMA SameProcs ==
    ASSUME PipelineInv, proc' = proc
    PROVE  ProcsKept
BY DEF PipelineInv, TypeInv, TypeOK, UnitInv, IssuedInv, WriteInv, ProcsKept, Procs

\* With the jobs unchanged, no job carries a new identity.
LEMMA SameJobs ==
    ASSUME job' = job
    PROVE  JobsKept
BY DEF JobsKept

\* A step that changes neither the ledger nor a row keeps the invariant if it
\* keeps the snapshots and does not lose a commit that is due.
LEMMA UnitFrame ==
    ASSUME PipelineInv, UNCHANGED <<saleKeys, issued, row, credited>>, pending' \subseteq pending,
           JobsKept, ProcsKept, PassInv', ~LateAdds => ScanInv',
           task.step = "commit" =>
              \/ task'.step = "commit" /\ task'.user = task.user /\ task'.id = task.id
              \/ task.user \in Users /\ row[task.user].status = "persisted",
           task'.step \in {"compensateAfterCommit", "commit"} =>
              reservations[task'.user] # task'.id
    PROVE  UnitInv'
<1> USE DEF PipelineInv, UnitInv, saleKeys
<1>1. LedgerInv' /\ (~LateAdds => CreditInv' /\ CountInv')
    BY DEF LedgerInv, CreditInv, CountInv, Reserved
<1>2. IssuedInv'
    BY DEF IssuedInv, JobsKept, ProcsKept
<1>3. \A u \in Users : \A r : Committing(u, r) => Committing(u, r)' \/ row[u].status = "persisted"
    BY DEF Committing
<1>4. RowInv'
    BY <1>3 DEF RowInv, NoRow
<1>5. ~LateAdds => LeftoverInv'
    BY <1>3 DEF LeftoverInv, JobsKept
<1>6. WriteInv'
    BY DEF WriteInv, ProcsKept
<1> QED BY <1>1, <1>2, <1>4, <1>5, <1>6

\* The same for a step that leaves the maintenance chain alone.
LEMMA QuietFrame ==
    ASSUME PipelineInv, UNCHANGED <<saleKeys, issued, row, credited, passVars>>,
           pending' \subseteq pending, JobsKept, ProcsKept
    PROVE  UnitInv'
<1>1. PassInv' /\ (~LateAdds => ScanInv')
    BY DEF PipelineInv, UnitInv, PassInv, ScanInv, saleKeys, passVars
<1>2. task' = task
    BY DEF passVars
<1>3. task.step \in {"compensateAfterCommit", "commit"} => reservations[task.user] # task.id
    BY DEF PipelineInv, UnitInv, WriteInv
<1> QED BY <1>1, <1>2, <1>3, UnitFrame

\* Before the first purchase all units are in the counter.
LEMMA InitUnitInv ==
    Init => UnitInv
<1> SUFFICES ASSUME Init PROVE UnitInv
    OBVIOUS
<1> USE DEF Init
<1>1. Reserved = {} /\ Cardinality(Reserved) = 0
    <2>1. Reserved = {}
        BY DEF Reserved
    <2> QED BY <2>1, FS_EmptySet
<1>2. LedgerInv /\ CountInv
    BY <1>1, StockAssumption DEF LedgerInv, CountInv
<1>3. IssuedInv /\ RowInv /\ LeftoverInv /\ WriteInv /\ PassInv /\ ScanInv /\ CreditInv
    BY DEF IssuedInv, RowInv, LeftoverInv, WriteInv, PassInv, ScanInv, CreditInv, NoRow, NoTask
<1> QED BY <1>2, <1>3 DEF UnitInv

\* purchase.lua and the enqueue.
LEMMA PurchaseUnitInv ==
    ASSUME PipelineInv, NEW u \in Users, Purchase(u)
    PROVE  UnitInv'
<1> USE DEF PipelineInv, UnitInv
<1>0. /\ TypeOK /\ SaleTypeOK /\ PurchaseScript(u, FreshRid(u)) /\ LedgerInv
      /\ UNCHANGED <<now, queueVars, consuming, proc, passVars, faultVars, credited>>
    BY DEF Purchase, TypeInv, TypeOK
<1>1. CASE PurchaseOutcome(u) # "CONFIRMED"
    <2>1. buyers' = buyers /\ stock' = stock /\ reservations' = reservations
        BY <1>0, <1>1 DEF PurchaseScript, PurchaseOutcome, AlreadyPurchased, LedgerInv, Reserved
    <2>2. UNCHANGED <<saleKeys, issued, pending, row, credited, passVars, proc, job>>
        BY <1>0, <1>1, <2>1 DEF Purchase, PurchaseScript, saleKeys, apiVars, queueVars
    <2> QED BY <2>2, QuietFrame, SameJobs, SameProcs
<1>2. CASE PurchaseOutcome(u) = "CONFIRMED"
    <2> DEFINE r == FreshRid(u)
    <2>1. r \in Rids /\ r \notin issued[u]
        BY DEF Purchase, FreshRid
    <2>2. /\ reservations[u] = NoRid /\ u \notin buyers /\ stock > 0
          /\ stock' = stock - 1 /\ buyers' = buyers \cup {u} /\ seeded' = seeded
          /\ reservations' = [reservations EXCEPT ![u] = r]
        BY <1>0, <1>2 DEF PurchaseScript, PurchaseOutcome, AlreadyPurchased, StockValue,
                          LedgerInv
    <2>3. issued' = [issued EXCEPT ![u] = @ \cup {r}] /\ pending' = pending \cup {<<u, r>>}
        BY <1>2 DEF Purchase
    <2> HIDE DEF r
    <2>4. /\ reservations'[u] = r /\ issued'[u] = issued[u] \cup {r}
          /\ \A v \in Users : v # u => reservations'[v] = reservations[v] /\ issued'[v] = issued[v]
        BY <1>0, <2>2, <2>3 DEF TypeOK, SaleTypeOK
    <2>5. row' = row /\ job' = job /\ proc' = proc /\ task' = task /\ phase' = phase
          /\ byUser' = byUser /\ scanned' = scanned /\ todo' = todo /\ credited' = credited
        BY <1>0 DEF queueVars, passVars
    <2>6. proc \subseteq Procs /\ r # NoRid
        BY <1>0, <2>1, RidsAssumption DEF TypeOK
    <2>7. LedgerInv' /\ (~LateAdds => CountInv')
        <3>1. Reserved' = Reserved \cup {u} /\ Cardinality(Reserved') = Cardinality(Reserved) + 1
            BY <2>2, <2>4, <2>6, ReservedGrows
        <3> QED BY <2>2, <3>1, ReservedFinite, StockAssumption DEF LedgerInv, CountInv
    <2>8. IssuedInv'
        <3>1. \A v \in Users, q \in Rids : <<v, q>> \in pending' => q \in issued'[v]
            BY <2>3, <2>4 DEF IssuedInv
        <3> QED BY <2>4, <2>5, <2>6, <3>1 DEF IssuedInv, Procs
    <2>9. RowInv'
        <3>1. ASSUME NEW v \in Users
              PROVE  /\ row[v].status = "persisted" => reservations'[v] = row[v].id
                     /\ row[v].status = "compensated" => reservations'[v] # row[v].id
            <4>1. row[v].status \in {"persisted", "compensated"} =>
                     row[v] # NoRow /\ row[v].id \in Rids /\ row[v].id \in issued[v]
                BY <1>0 DEF TypeOK, Rows, NoRow, IssuedInv
            <4> QED BY <2>1, <2>2, <2>4, <4>1, RidsAssumption DEF RowInv
        <3>2. ASSUME NEW v \in Users, NEW q \in issued'[v], reservations'[v] # q
              PROVE  q \in issued[v] /\ reservations[v] # q
            BY <2>2, <2>4, <3>2, RidsAssumption, <1>0 DEF TypeOK
        <3>3. \A v, q : Committing(v, q)' <=> Committing(v, q)
            BY <2>5 DEF Committing
        <3> QED BY <2>5, <3>1, <3>2, <3>3 DEF RowInv
    <2>10. ~LateAdds => LeftoverInv'
        <3>1. ASSUME NEW v \in Users, job[v] # NoJob, reservations'[v] # job[v].id
              PROVE  reservations[v] # job[v].id
            BY <2>2, <2>4, <3>1, <1>0, RidsAssumption DEF IssuedInv, TypeOK
        <3>2. \A v, q : Committing(v, q)' <=> Committing(v, q)
            BY <2>5 DEF Committing
        <3> QED BY <2>5, <3>1, <3>2 DEF LeftoverInv
    <2>11. WriteInv'
        <3>1. ASSUME NEW p \in proc, Writing(p) PROVE reservations'[p.user] = p.id
            BY <2>2, <2>4, <2>6, <3>1, RidsAssumption DEF WriteInv, Procs
        <3>2. ASSUME task.step \in {"compensateAfterCommit", "commit"}
              PROVE  reservations'[task.user] # task.id
            <4>1. task \in ResolveTasks /\ task # NoTask /\ phase = "dlq"
                BY <3>2 DEF TypeInv, TaskInv, NoTask, EnsureTasks, AdjudicateTasks
            <4>2. task.user \in Users /\ task.id \in issued[task.user]
                BY <4>1 DEF TypeInv, LoopInv, IssuedInv, ResolveTasks, NoJob
            <4> QED BY <2>1, <2>4, <3>2, <4>2 DEF WriteInv
        <3> QED BY <2>5, <3>1, <3>2 DEF WriteInv
    <2>12. PassInv'
        <3>1. \A v \in Users : reservations[v] # NoRid => reservations'[v] = reservations[v]
            BY <2>2, <2>4
        <3>2. task.step \in {"ensure", "remove", "add", "member"} =>
                 task.user \in Users /\ task.id # NoRid
            BY RidsAssumption DEF TypeInv, TaskInv, NoTask, EnsureTasks, AdjudicateTasks,
                                  ResolveTasks
        <3>3. \A v \in Users : issued[v] \subseteq issued'[v]
            BY <2>4
        <3> QED BY <2>5, <3>1, <3>2, <3>3 DEF PassInv
    <2>13. ~LateAdds => CreditInv' /\ ScanInv'
        <3>1. \A v \in Users : reservations[v] # NoRid => reservations'[v] = reservations[v]
            BY <2>2, <2>4
        <3> QED BY <2>1, <2>4, <2>5, <3>1 DEF CreditInv, ScanInv
    <2> QED BY <2>7, <2>8, <2>9, <2>10, <2>11, <2>12, <2>13
<1> QED BY <1>1, <1>2

\* An add of the API that lands or fails keeps UnitInv.
LEMMA EnqueueUnitInv ==
    ASSUME PipelineInv, NEW u \in Users, NEW r \in Rids, EnqueueLands(u, r) \/ EnqueueFails(u, r)
    PROVE  UnitInv'
<1>1. CASE EnqueueFails(u, r)
    BY <1>1, QuietFrame, SameJobs, SameProcs DEF EnqueueFails, queueVars
<1>2. CASE EnqueueLands(u, r)
    <2>1. /\ r # NoRid /\ QueueAdd(u, r) /\ r \in issued[u]
          /\ reservations[u] = r \/ LateAdds
        BY <1>2, RidsAssumption DEF EnqueueLands, PipelineInv, UnitInv, IssuedInv
    <2>2. JobsKept
        BY <2>1, QueueAddJob DEF JobsKept, PipelineInv
    <2> QED BY <1>2, <2>2, QuietFrame, SameProcs DEF EnqueueLands
<1> QED BY <1>1, <1>2

\* The consumer: jobs move and processors advance; only a commit writes a row.
LEMMA ConsumerUnitInv ==
    ASSUME PipelineInv, Consumer
    PROVE  UnitInv'
<1> USE DEF PipelineInv, UnitInv
<1>0. /\ proc \subseteq Procs /\ job \in [Users -> Jobs] /\ row \in [Users -> Rows]
      /\ \A p \in proc : p.user \in Users /\ p.id \in Rids /\ p.id \in issued[p.user]
      /\ \A p \in proc : Writing(p) => reservations[p.user] = p.id
    BY DEF TypeInv, TypeOK, Procs, IssuedInv, WriteInv
<1>1. ASSUME NEW u \in Users, StartJob(u) PROVE UnitInv'
    <2>1. job[u] # NoJob
        BY <1>1 DEF StartJob, NoJob
    <2>2. JobsKept
        <3>1. \A v \in Users : job'[v].id = job[v].id
            BY <1>0, <1>1, <2>1 DEF StartJob, Jobs
        <3>2. \A v \in Users : v # u => job'[v] = job[v]
            BY <1>0, <1>1 DEF StartJob
        <3> QED BY <2>1, <3>1, <3>2 DEF JobsKept
    <2>3. ProcsKept
        <3>1. job[u].id \in issued[u]
            BY <2>1 DEF IssuedInv
        <3> QED BY <1>0, <1>1, <3>1 DEF StartJob, ProcsKept, Writing, WritingStages
    <2> QED BY <1>1, <2>2, <2>3, QuietFrame DEF StartJob, apiVars
<1>2. ASSUME NEW u \in Users, Stall(u) PROVE UnitInv'
    <2>1. job[u] # NoJob /\ job[u] \in Jobs
        BY <1>0, <1>2 DEF Stall, NoJob
    <2>2. JobsKept
        <3>1. job'[u].id = job[u].id
            BY <1>0, <1>2, <2>1 DEF Stall, Jobs
        <3>2. \A v \in Users : v # u => job'[v] = job[v]
            BY <1>0, <1>2 DEF Stall
        <3> QED BY <2>1, <3>1, <3>2 DEF JobsKept
    <2>3. ProcsKept
        <3>1. \A q \in proc' : \E p \in proc : q.user = p.user /\ q.id = p.id /\ q.stage = p.stage
            BY <1>0, <1>2 DEF Stall, Procs
        <3> QED BY <1>0, <3>1 DEF ProcsKept, Writing
    <2> QED BY <1>2, <2>2, <2>3, QuietFrame DEF Stall, apiVars
<1>3. ASSUME NEW u \in Users, EvictCompleted(u) PROVE UnitInv'
    <2>1. JobsKept
        BY <1>0, <1>3 DEF EvictCompleted, JobsKept
    <2> QED BY <1>3, <2>1, QuietFrame, SameProcs DEF EvictCompleted, apiVars
<1>4. ASSUME NEW p \in proc, PersistBegin(p) PROVE UnitInv'
    <2> DEFINE s == PersistDecision(p.user, p.id)
    <2>1. s \in {"start", "insert", "promote", "done", "error"} /\ Advance(p, s)
        BY <1>4 DEF PersistBegin, PersistDecision
    <2>2. s \in WritingStages => reservations[p.user] = p.id
        <3>1. ~Committing(p.user, p.id)
            BY <1>4 DEF PersistBegin, AdvisoryLocked, ResolverIn, Committing, NoTask
        <3>2. row[p.user] = NoRow => reservations[p.user] = p.id
            BY <1>0, <3>1 DEF RowInv
        <3> QED BY <3>2 DEF PersistDecision, WritingStages
    <2> HIDE DEF s
    <2>3. ProcsKept
        <3>1. \A q \in proc' : \/ q \in proc
                               \/ q.user = p.user /\ q.id = p.id /\ q.stage = s
            BY <2>1, AdvanceProc
        <3> QED BY <1>0, <2>2, <3>1 DEF ProcsKept, Writing
    <2> QED BY <1>4, <2>3, QuietFrame, SameJobs DEF PersistBegin, apiVars, queueVars
<1>5. ASSUME NEW p \in proc, PersistCommit(p) PROVE UnitInv'
    <2>1. /\ Writing(p) /\ reservations[p.user] = p.id /\ p.user \in Users /\ p.id \in Rids
          /\ p.id \in issued[p.user]
        BY <1>0, <1>5 DEF PersistCommit, Writing
    <2>2. /\ row' = [row EXCEPT ![p.user] = [id |-> p.id, status |-> "persisted"]]
          /\ row'[p.user] = [id |-> p.id, status |-> "persisted"]
          /\ \A v \in Users : v # p.user => row'[v] = row[v]
          /\ UNCHANGED <<saleKeys, now, job, apiVars, consuming, passVars, faultVars, credited>>
        BY <1>0, <1>5, <2>1 DEF PersistCommit
    <2>3. PICK s \in {"done", "error"} : Advance(p, s)
        BY <1>5 DEF PersistCommit
    <2>4. \A q \in proc' : \/ q \in proc
                           \/ q.user = p.user /\ q.id = p.id /\ q.stage \notin WritingStages
        BY <2>3, AdvanceProc DEF WritingStages
    <2>5. row[p.user].status # "persisted"
        BY <2>1 DEF LockInv, WriterRead, Writing, WritingStages, NoRow
    <2>6. LedgerInv' /\ (~LateAdds => CreditInv' /\ CountInv')
        BY <2>2 DEF LedgerInv, CreditInv, CountInv, Reserved, saleKeys, apiVars
    <2>7. IssuedInv'
        BY <1>0, <2>1, <2>2, <2>4 DEF IssuedInv, saleKeys, apiVars
    <2>8. RowInv' /\ (~LateAdds => LeftoverInv')
        <3>1. \A v, q : Committing(v, q)' <=> Committing(v, q)
            BY <2>2 DEF Committing, passVars
        <3>2. row'[p.user] # NoRow
            BY <2>2 DEF NoRow
        <3>3. RowInv'
            BY <2>1, <2>2, <3>1, <3>2 DEF RowInv, saleKeys, apiVars
        <3>4. ~LateAdds => LeftoverInv'
            BY <2>1, <2>2, <3>1 DEF LeftoverInv, saleKeys
        <3> QED BY <3>3, <3>4
    <2>9. WriteInv'
        BY <2>2, <2>4 DEF WriteInv, Writing, saleKeys, passVars
    <2>10. PassInv' /\ (~LateAdds => ScanInv')
        BY <2>1, <2>2, <2>5 DEF PassInv, ScanInv, saleKeys, passVars, apiVars
    <2> QED BY <2>6, <2>7, <2>8, <2>9, <2>10
<1>6. ASSUME NEW p \in proc, PersistAbort(p) PROVE UnitInv'
    <2>1. ProcsKept
        <3>1. \A q \in proc' : \/ q \in proc
                               \/ q.user = p.user /\ q.id = p.id /\ q.stage = "error"
            BY <1>6, AdvanceProc DEF PersistAbort
        <3> QED BY <1>0, <3>1 DEF ProcsKept, Writing, WritingStages
    <2> QED BY <1>6, <2>1, QuietFrame, SameJobs DEF PersistAbort, apiVars, queueVars
<1>7. ASSUME NEW p \in proc, FinishJob(p) PROVE UnitInv'
    <2>1. ProcsKept
        BY <1>0, <1>7 DEF FinishJob, ProcsKept
    <2>2. JobsKept
        <3>1. CASE ~p.own
            BY <1>7, <3>1, SameJobs DEF FinishJob
        <3>2. CASE p.own
            <4>1. job[p.user] \in Jobs /\ job[p.user] # NoJob
                BY <1>0, <3>2 DEF TypeInv, JobInv, NoJob
            <4>2. FinishedJob(p).id = job[p.user].id
                BY <4>1 DEF FinishedJob, Jobs
            <4>3. job' = [job EXCEPT ![p.user] = FinishedJob(p)]
                BY <1>7, <3>2 DEF FinishJob
            <4> QED BY <1>0, <4>1, <4>2, <4>3 DEF JobsKept
        <3> QED BY <3>1, <3>2
    <2> QED BY <1>7, <2>1, <2>2, QuietFrame DEF FinishJob, apiVars
<1> QED BY <1>1, <1>2, <1>3, <1>4, <1>5, <1>6, <1>7 DEF Consumer

\* runDiff restores nothing that is gone: its compare-and-sets find what the
\* ledger already holds, so that a pass changes no sale key.  Only a job that
\* was added late can bring its reservation back.
LEMMA PassUnitInv ==
    ASSUME PipelineInv,
           \/ StartPass \/ ScanJobs \/ RestoreRowsDone \/ ScanLedger \/ ScanBuyers
           \/ BuyersDone \/ ReconcileStock
           \/ \E u \in Users : \/ RestoreRow(u) \/ RestoreJob(u) \/ RepairEntry(u)
                               \/ InspectBuyer(u)
    PROVE  UnitInv' /\ (~LateAdds => reservations' = reservations)
<1> USE DEF PipelineInv, UnitInv, PassFrame, saleKeys, queueVars, apiVars
<1>0. /\ TypeOK /\ PassInv /\ LedgerInv /\ RowInv
      /\ phase # "dlq" => task.step \notin {"compensateAfterCommit", "commit"}
    BY DEF TypeInv, TaskInv, NoTask, EnsureTasks, AdjudicateTasks
<1>1. ASSUME UNCHANGED <<saleKeys, issued, pending, row, credited, proc, job>>, phase # "dlq",
             PassInv', ~LateAdds => ScanInv',
             task'.step \notin {"compensateAfterCommit", "commit"}
      PROVE  UnitInv' /\ reservations' = reservations
    BY <1>0, <1>1, UnitFrame, SameJobs, SameProcs
<1>2. CASE StartPass
    <2>1. PassInv' /\ (~LateAdds => ScanInv') /\ task' = task
        BY <1>0, <1>2 DEF StartPass, PassInv, ScanInv
    <2> QED BY <1>0, <1>1, <1>2, <2>1 DEF StartPass
<1>3. CASE ScanJobs
    <2>1. ASSUME NEW u \in Users, scanned'[u] # NoRid
          PROVE  job[u] # NoJob /\ scanned'[u] = job[u].id /\ scanned'[u] \in issued[u]
        BY <1>3, <2>1 DEF ScanJobs, LiveStates, NoJob, IssuedInv
    <2>2. ASSUME ~LateAdds, NEW u \in Users, scanned'[u] # NoRid
          PROVE  \/ reservations[u] = scanned'[u]
                 \/ IsCompensated(byUser[u], scanned'[u])
                 \/ row[u].status = "persisted"
        <3>1. ~Committing(u, job[u].id)
            BY <1>0, <1>3 DEF ScanJobs, Committing
        <3>2. IsCompensated(row[u], job[u].id) => IsCompensated(byUser[u], job[u].id)
            BY <1>0, <1>3 DEF ScanJobs, PassInv, IsCompensated
        <3> QED BY <2>1, <2>2, <3>1, <3>2 DEF LeftoverInv
    <2>3. PassInv' /\ task' = task
        BY <1>0, <1>3, <2>1 DEF ScanJobs, PassInv
    <2>4. ~LateAdds => ScanInv'
        BY <1>3, <2>2 DEF ScanJobs, ScanInv
    <2> QED BY <1>0, <1>1, <1>3, <2>3, <2>4 DEF ScanJobs
<1>4. CASE RestoreRowsDone
    <2>1. PassInv' /\ (~LateAdds => ScanInv') /\ task' = task
        BY <1>0, <1>4 DEF RestoreRowsDone, PassInv, ScanInv
    <2> QED BY <1>0, <1>1, <1>4, <2>1 DEF RestoreRowsDone
<1>5. CASE ScanLedger
    <2>1. PassInv' /\ (~LateAdds => ScanInv') /\ task' = task
        BY <1>0, <1>5 DEF ScanLedger, PassInv, ScanInv
    <2> QED BY <1>0, <1>1, <1>5, <2>1 DEF ScanLedger
<1>6. CASE ScanBuyers
    <2>1. PassInv' /\ (~LateAdds => ScanInv') /\ task' = task
        BY <1>0, <1>6 DEF ScanBuyers, PassInv, ScanInv
    <2> QED BY <1>0, <1>1, <1>6, <2>1 DEF ScanBuyers
<1>7. CASE BuyersDone
    <2>1. PassInv' /\ (~LateAdds => ScanInv') /\ task' = task
        BY <1>0, <1>7 DEF BuyersDone, PassInv, ScanInv
    <2> QED BY <1>0, <1>1, <1>7, <2>1 DEF BuyersDone
<1>8. CASE ReconcileStock
    <2>1. /\ UNCHANGED <<seeded, buyers, reservations, now, row, job, issued, pending, proc, credited>>
          /\ task' = task /\ phase' \in {"scanFailed", "idle"} /\ phase = "stock"
        BY <1>8 DEF ReconcileStock, ReconcileStateScript
    <2>2. stock' \in Nat /\ (~LateAdds => stock' = stock)
        BY <1>0, <1>8, ReservedFinite, StockAssumption
        DEF ReconcileStock, ReconcileStateScript, ReconcileStateOutcome, LedgerInv, CountInv
    <2>3. LedgerInv' /\ (~LateAdds => CountInv' /\ CreditInv')
        BY <1>0, <2>1, <2>2 DEF LedgerInv, CountInv, CreditInv, Reserved
    <2>4. IssuedInv' /\ RowInv' /\ WriteInv' /\ (~LateAdds => LeftoverInv')
        BY <1>0, <2>1 DEF IssuedInv, RowInv, WriteInv, LeftoverInv, Committing
    <2>5. PassInv' /\ (~LateAdds => ScanInv')
        BY <1>0, <2>1 DEF PassInv, ScanInv
    <2> QED BY <2>1, <2>3, <2>4, <2>5
<1>9. ASSUME NEW u \in Users, RestoreRow(u) PROVE UnitInv' /\ reservations' = reservations
    <2>1. reservations[u] = byUser[u].id /\ reservations[u] # NoRid /\ u \in buyers
        <3>1. byUser[u].status = "persisted" /\ row[u] = byUser[u]
            BY <1>0, <1>9 DEF RestoreRow, TypeInv, LoopInv, PassInv
        <3>2. byUser[u].id \in Rids
            BY <1>0, <3>1 DEF TypeOK, Rows, NoRow
        <3> QED BY <1>0, <3>1, <3>2, RidsAssumption DEF RowInv, LedgerInv, Reserved
    <2>2. UNCHANGED saleKeys /\ task' = NoTask
        <3>1. RestoreOutcome(u, byUser[u].id) = "ALREADY_MATCHED"
            BY <2>1 DEF RestoreOutcome
        <3>2. /\ task' = NoTask /\ seeded' = seeded /\ stock' = stock
              /\ buyers' = buyers \cup {u}
              /\ reservations' = [reservations EXCEPT ![u] = byUser[u].id]
            BY <1>9, <3>1 DEF RestoreRow, CompareRestoreScript
        <3> QED BY <1>0, <2>1, <3>2 DEF TypeOK, SaleTypeOK
    <2>3. PassInv' /\ (~LateAdds => ScanInv')
        BY <1>0, <1>9, <2>2 DEF RestoreRow, PassInv, ScanInv, NoTask
    <2> QED BY <1>0, <1>1, <1>9, <2>2, <2>3 DEF RestoreRow, NoTask
<1>10. ASSUME NEW u \in Users, RestoreJob(u)
       PROVE  UnitInv' /\ (~LateAdds => reservations' = reservations)
    <2>1. /\ phase = "restoreJobs" /\ phase' = phase /\ task = NoTask /\ u \in todo
          /\ todo' \subseteq todo /\ scanned[u] # NoRid /\ CompareRestoreScript(u, scanned[u])
          /\ UNCHANGED <<now, row, job, issued, pending, proc, credited, byUser, scanned, task>>
        BY <1>0, <1>10 DEF RestoreJob, TypeInv, LoopInv, TaskInv
    <2>2. CASE reservations[u] # NoRid
        <3>1. u \in buyers
            BY <1>0, <2>2 DEF LedgerInv, Reserved
        <3>2. UNCHANGED saleKeys
            <4>1. CASE reservations[u] # scanned[u]
                BY <2>1, <2>2, <4>1 DEF CompareRestoreScript, RestoreOutcome, saleKeys
            <4>2. CASE reservations[u] = scanned[u]
                <5>1. /\ seeded' = seeded /\ stock' = stock /\ buyers' = buyers \cup {u}
                      /\ reservations' = [reservations EXCEPT ![u] = scanned[u]]
                    BY <2>1, <2>2, <4>2 DEF CompareRestoreScript, RestoreOutcome
                <5> QED BY <1>0, <3>1, <4>2, <5>1 DEF TypeOK, SaleTypeOK, saleKeys
            <4> QED BY <4>1, <4>2
        <3>3. PassInv' /\ (~LateAdds => ScanInv')
            BY <1>0, <2>1, <3>2 DEF PassInv, ScanInv, NoTask
        <3> QED BY <1>1, <2>1, <3>2, <3>3 DEF NoTask
    <2>3. CASE reservations[u] = NoRid
        <3>1. LateAdds
            <4>1. row[u].status = "persisted" => row[u].id \in Rids
                BY <1>0 DEF TypeOK, Rows, NoRow
            <4> QED BY <1>0, <2>1, <2>3, <4>1, RidsAssumption DEF PassInv, ScanInv, RowInv
        <3>2. /\ seeded' = seeded /\ stock' = stock /\ buyers' = buyers \cup {u}
              /\ reservations' = [reservations EXCEPT ![u] = scanned[u]]
            BY <2>1, <2>3 DEF CompareRestoreScript, RestoreOutcome
        <3>3. /\ reservations'[u] = scanned[u] /\ scanned[u] \in issued[u]
              /\ \A v \in Users : v # u => reservations'[v] = reservations[v]
            BY <1>0, <2>1, <3>2 DEF TypeOK, SaleTypeOK, PassInv
        <3>4. LedgerInv'
            BY <1>0, <2>1, <3>2, <3>3 DEF LedgerInv, Reserved
        <3>5. IssuedInv'
            BY <2>1, <3>3 DEF IssuedInv
        <3>6. RowInv'
            <4>1. row[u].status # "persisted"
                <5>1. row[u].status = "persisted" => row[u].id \in Rids
                    BY <1>0 DEF TypeOK, Rows, NoRow
                <5> QED BY <1>0, <2>3, <5>1, RidsAssumption DEF RowInv
            <4>2. row[u].status = "compensated" => row[u].id # scanned[u]
                BY <1>0, <2>1 DEF PassInv, IsCompensated
            <4>3. \A r \in issued[u] : r # NoRid => row[u] # NoRow
                BY <1>0, <2>1, <2>3 DEF RowInv, Committing, NoTask
            <4>4. \A v \in Users : \A r \in issued[v] : r # NoRid
                BY <1>0, RidsAssumption DEF TypeOK
            <4> QED BY <1>0, <2>1, <3>3, <4>1, <4>2, <4>3, <4>4 DEF RowInv, Committing
        <3>7. WriteInv'
            <4>1. \A q \in proc : q.user \in Users /\ q.id # NoRid
                BY <1>0, RidsAssumption DEF TypeOK, Procs
            <4> QED BY <2>1, <2>3, <3>3, <4>1 DEF WriteInv, NoTask
        <3>8. PassInv'
            BY <1>0, <2>1 DEF PassInv, NoTask
        <3> QED BY <3>1, <3>4, <3>5, <3>6, <3>7, <3>8
    <2> QED BY <2>2, <2>3
<1>11. ASSUME NEW u \in Users, RepairEntry(u) PROVE UnitInv' /\ reservations' = reservations
    <2>1. /\ task'.user = u /\ task'.id = scanned[u] /\ task'.targeted = "no"
          /\ task'.step \in {"member", "ensure"} /\ scanned[u] # NoRid
        BY <1>11 DEF RepairEntry, TypeInv, LoopInv
    <2>2. PassInv' /\ (~LateAdds => ScanInv')
        BY <1>0, <1>11, <2>1 DEF RepairEntry, PassInv, ScanInv
    <2> QED BY <1>0, <1>1, <1>11, <2>1, <2>2 DEF RepairEntry
<1>12. ASSUME NEW u \in Users, InspectBuyer(u) PROVE UnitInv' /\ reservations' = reservations
    <2>1. \/ task' = NoTask
          \/ /\ task'.step = "ensure" /\ task'.user = u /\ task'.id = reservations[u]
             /\ task'.targeted = "no"
        <3>1. InspectMembership(u) \in {"BOTH", "NEITHER"}
            BY <1>0 DEF InspectMembership, LedgerInv
        <3> QED BY <1>12, <3>1 DEF InspectBuyer, EnsureInspected
    <2>2. PassInv' /\ (~LateAdds => ScanInv')
        BY <1>0, <1>12, <2>1 DEF InspectBuyer, PassInv, ScanInv, NoTask
    <2> QED BY <1>0, <1>1, <1>12, <2>1, <2>2 DEF InspectBuyer, NoTask
<1> QED BY <1>2, <1>3, <1>4, <1>5, <1>6, <1>7, <1>8, <1>9, <1>10, <1>11, <1>12

\* ensureLiveReservationQueued enqueues for the reservation on file only.
LEMMA EnsureUnitInv ==
    ASSUME PipelineInv, EnsureQueued \/ RemoveStaleJob \/ EnqueueLive \/ RepairMembership
    PROVE  UnitInv' /\ reservations' = reservations
<1> USE DEF PipelineInv, UnitInv, PassFrame, saleKeys, queueVars, apiVars
<1>0. /\ TypeOK /\ PassInv /\ LedgerInv
      /\ task \in EnsureTasks /\ task.user \in Users /\ task.id \in Rids
      /\ task.step \in {"ensure", "remove", "add", "member"}
      /\ reservations[task.user] = task.id /\ task.targeted = "no"
      /\ task.id # NoRid
    <2>1. task.step \in {"ensure", "remove", "add", "member"}
        BY DEF EnsureQueued, RemoveStaleJob, EnqueueLive, RepairMembership
    <2>2. task \in EnsureTasks
        BY <2>1 DEF TypeInv, TaskInv, NoTask, AdjudicateTasks, ResolveTasks
    <2> QED BY <2>1, <2>2, RidsAssumption DEF TypeInv, PassInv, EnsureTasks
<1>1. ASSUME NEW s \in {"ensure", "remove", "add", "member"}, task' = [task EXCEPT !.step = s]
      PROVE  /\ task'.step = s /\ task'.user = task.user /\ task'.id = task.id
             /\ task'.targeted = "no"
    BY <1>0, <1>1 DEF EnsureTasks
<1>2. ASSUME UNCHANGED <<saleKeys, issued, pending, row, credited, proc>>, JobsKept,
             PassInv', ~LateAdds => ScanInv',
             task'.step \notin {"compensateAfterCommit", "commit"}
      PROVE  UnitInv' /\ reservations' = reservations
    BY <1>0, <1>2, UnitFrame, SameProcs
<1>3. ASSUME UNCHANGED <<saleKeys, issued, pending, row, credited, proc, phase, byUser, scanned>>,
             todo' = todo,
             JobsKept,
             \/ task' = NoTask
             \/ \E s \in {"ensure", "remove", "add", "member"} : task' = [task EXCEPT !.step = s]
      PROVE  UnitInv' /\ reservations' = reservations
    <2>1. \/ task' = NoTask
          \/ /\ task'.step \in {"ensure", "remove", "add", "member"}
             /\ task'.user = task.user /\ task'.id = task.id /\ task'.targeted = "no"
        BY <1>1, <1>3
    <2>2. /\ PassInv' /\ (~LateAdds => ScanInv')
          /\ task'.step \notin {"compensateAfterCommit", "commit"}
        BY <1>0, <1>3, <2>1 DEF PassInv, ScanInv, NoTask
    <2> QED BY <1>2, <1>3, <2>2
<1>4. AfterEnsure = NoTask \/ AfterEnsure = [task EXCEPT !.step = "member"]
    BY <1>0 DEF AfterEnsure
<1>5. CASE EnsureQueued
    <2>1. /\ UNCHANGED <<phase, byUser, scanned, todo, failed>>
          /\ \/ \E s \in {"add", "remove"} : task' = [task EXCEPT !.step = s]
             \/ task' = AfterEnsure
        BY <1>0, <1>5 DEF EnsureQueued
    <2> QED BY <1>3, <1>4, <1>5, <2>1, SameJobs DEF EnsureQueued
<1>6. CASE RemoveStaleJob
    <2>1. CASE job[task.user].state = "active"
        <3>1. phase' = "idle" /\ task' = NoTask
            BY <1>6, <2>1 DEF RemoveStaleJob, Leave
        <3>2. PassInv' /\ ScanInv' /\ task'.step \notin {"compensateAfterCommit", "commit"}
            BY <3>1 DEF PassInv, ScanInv, NoTask
        <3> QED BY <1>2, <1>6, <2>1, <3>2, SameJobs DEF RemoveStaleJob
    <2>2. CASE job[task.user].state # "active"
        <3>1. JobsKept
            BY <1>0, <1>6, <2>2 DEF RemoveStaleJob, JobsKept, TypeOK
        <3>2. task' = [task EXCEPT !.step = "add"] /\ UNCHANGED <<phase, byUser, scanned, todo>>
            BY <1>6, <2>2 DEF RemoveStaleJob
        <3> QED BY <1>3, <1>6, <3>1, <3>2 DEF RemoveStaleJob
    <2> QED BY <2>1, <2>2
<1>7. CASE EnqueueLive
    <2>1. JobsKept
        BY <1>0, <1>7, QueueAddJob DEF EnqueueLive, JobsKept
    <2>2. task' = AfterEnsure /\ UNCHANGED <<phase, byUser, scanned, todo>>
        BY <1>0, <1>7 DEF EnqueueLive
    <2> QED BY <1>3, <1>4, <1>7, <2>1, <2>2 DEF EnqueueLive
<1>8. CASE RepairMembership
    <2>1. UNCHANGED saleKeys
        BY <1>0, <1>8 DEF RepairMembership, ReconcileMembershipScript, LedgerInv, Reserved
    <2>2. task' = NoTask /\ UNCHANGED <<phase, byUser, scanned, todo>>
        BY <1>0, <1>8 DEF RepairMembership, Reserved
    <2> QED BY <1>3, <1>8, <2>1, <2>2, SameJobs DEF RepairMembership
<1> QED BY <1>5, <1>6, <1>7, <1>8

\* A resolution compensates its own reservation, and leaves the marker behind.
LEMMA ResolveUnitInv ==
    ASSUME PipelineInv, ResolveCompensate \/ ResolveCommit
    PROVE  UnitInv'
<1> USE DEF PipelineInv, UnitInv
<1>0. /\ TypeOK /\ SaleTypeOK /\ LedgerInv
      /\ task \in ResolveTasks /\ task.user \in Users /\ task.id \in Rids /\ task.row \in Rows
      /\ task # NoTask /\ phase = "dlq"
      /\ job[task.user].state = "failed" /\ job[task.user].id = task.id /\ job[task.user] # NoJob
      /\ task.id \in issued[task.user] /\ task.id # NoRid
      /\ proc \subseteq Procs
    <2>1. task.step \in {"compensate", "compensateAfterCommit", "commit"}
        BY DEF ResolveCompensate, ResolveCommit
    <2>2. task \in ResolveTasks /\ phase = "dlq" /\ task # NoTask
        BY <2>1 DEF TypeInv, TaskInv, NoTask, EnsureTasks, AdjudicateTasks
    <2>3. job[task.user].state = "failed" /\ job[task.user].id = task.id /\ job[task.user] # NoJob
        BY <2>2 DEF TypeInv, LoopInv, NoJob
    <2> QED BY <2>2, <2>3, RidsAssumption DEF TypeInv, TypeOK, ResolveTasks, IssuedInv
<1>1. CASE ResolveCompensate
    <2>1. /\ task.step \in {"compensate", "compensateAfterCommit"}
          /\ CompensateScript(task.user, task.id)
          /\ UNCHANGED <<row, job, issued, pending, proc, phase, byUser, scanned, todo>>
          /\ task' = [task EXCEPT !.step = IF @ = "compensate" THEN "commit" ELSE "removeJob"]
        BY <1>1 DEF ResolveCompensate, queueVars, apiVars
    <2>2. /\ task'.user = task.user /\ task'.id = task.id /\ task'.row = task.row
          /\ task.step = "compensate" => task'.step = "commit"
          /\ task.step = "compensateAfterCommit" => task'.step = "removeJob"
        BY <1>0, <2>1 DEF ResolveTasks
    <2>3. CASE reservations[task.user] # task.id
        <3>1. UNCHANGED saleKeys /\ credited' = credited
            BY <1>1, <2>1, <2>3 DEF ResolveCompensate, CompensateScript, CompensateOutcome,
                                    IdentityMatches, saleKeys
        <3>2. PassInv' /\ ScanInv'
            BY <1>0, <2>1, <2>2, <3>1 DEF PassInv, ScanInv, saleKeys
        <3>3. /\ task.step # "commit"
              /\ task'.step \in {"compensateAfterCommit", "commit"} =>
                    reservations[task'.user] # task'.id
            BY <2>1, <2>2, <2>3
        <3> QED BY <2>1, <3>1, <3>2, <3>3, UnitFrame, SameJobs, SameProcs
    <2>4. CASE reservations[task.user] = task.id
        <3>1. task.step = "compensate" /\ task'.step = "commit"
            BY <2>1, <2>2, <2>4 DEF WriteInv
        <3>2. /\ stock' = CompensatedStock(task.user)
              /\ reservations' = [reservations EXCEPT ![task.user] = NoRid]
              /\ buyers' = buyers \ {task.user} /\ seeded' = seeded
            BY <1>0, <2>1, <2>4 DEF CompensateScript, IdentityMatches
        <3>3. /\ reservations'[task.user] = NoRid
              /\ \A v \in Users : v # task.user => reservations'[v] = reservations[v]
            BY <1>0, <3>2 DEF SaleTypeOK
        <3>4. /\ Reserved' = Reserved \ {task.user}
              /\ Cardinality(Reserved') = Cardinality(Reserved) - 1 /\ Cardinality(Reserved) > 0
            BY <1>0, <2>4, <3>3, ReservedShrinks
        <3>5. /\ task.user \in buyers /\ StockValue = stock
              /\ ~LateAdds => stock < TotalStock
            BY <1>0, <2>4, <3>4, ReservedFinite, StockAssumption
            DEF LedgerInv, CountInv, Reserved, StockValue
        <3>6. LedgerInv' /\ (~LateAdds => CountInv')
            <4>1. stock' \in {stock, stock + 1} /\ (~LateAdds => stock' = stock + 1)
                BY <1>0, <3>2, <3>5, StockAssumption DEF CompensatedStock, LedgerInv
            <4> QED BY <1>0, <3>2, <3>4, <4>1, ReservedFinite, StockAssumption
                    DEF LedgerInv, CountInv
        <3>7. IssuedInv'
            BY <1>0, <2>1, <3>3 DEF IssuedInv
        <3>8. row[task.user].status # "persisted"
            BY <1>0, <2>4, <3>1 DEF LockInv, ResolverRead, IsPersisted, RowInv
        <3>9. ~\E v, q : Committing(v, q)
            BY <3>1 DEF Committing
        <3>10. \A v, q : v = task.user /\ q = task.id => Committing(v, q)'
            BY <2>2, <3>1 DEF Committing
        <3>11. RowInv'
            <4>1. ASSUME NEW v \in Users
                  PROVE  /\ row[v].status = "persisted" => reservations'[v] = row[v].id
                         /\ row[v].status = "compensated" => reservations'[v] # row[v].id
                <5>1. row[v].status = "compensated" => row[v].id # NoRid
                    BY <1>0, RidsAssumption DEF TypeOK, Rows, NoRow
                <5> QED BY <3>3, <3>8, <5>1 DEF RowInv
            <4>2. ASSUME NEW v \in Users, NEW q \in issued[v], reservations'[v] # q
                  PROVE  row[v] # NoRow \/ Committing(v, q)'
                <5>1. CASE reservations[v] # q
                    BY <3>9, <5>1 DEF RowInv
                <5>2. CASE reservations[v] = q
                    BY <2>4, <3>3, <3>10, <4>2, <5>2
                <5> QED BY <5>1, <5>2
            <4> QED BY <2>1, <4>1, <4>2 DEF RowInv
        <3>12. ~LateAdds => LeftoverInv'
            <4>1. ASSUME ~LateAdds, NEW v \in Users, job[v] # NoJob, reservations'[v] # job[v].id
                  PROVE  \/ IsCompensated(row[v], job[v].id) \/ row[v].status = "persisted"
                         \/ Committing(v, job[v].id)'
                <5>1. CASE v = task.user
                    BY <1>0, <2>1, <2>2, <3>1, <5>1 DEF Committing
                <5>2. CASE v # task.user
                    BY <3>3, <3>9, <4>1, <5>2 DEF LeftoverInv
                <5> QED BY <5>1, <5>2
            <4> QED BY <2>1, <4>1 DEF LeftoverInv
        <3>13. WriteInv'
            <4>1. ASSUME NEW p \in proc, Writing(p) PROVE p.user \in Users /\ p.user # task.user
                <5>1. p.user = task.user => p.id # task.id
                    BY <1>0, <3>1, <4>1 DEF LockInv, WriterAndResolver, ResolverIn
                <5> QED BY <1>0, <2>4, <4>1, <5>1 DEF WriteInv, Procs
            <4> QED BY <1>0, <2>1, <2>2, <3>3, <4>1 DEF WriteInv
        <3>14. PassInv' /\ ScanInv'
            BY <1>0, <2>1, <2>2, <3>1 DEF PassInv, ScanInv
        <3>15. ~LateAdds => CreditInv'
            <4> SUFFICES ASSUME ~LateAdds PROVE CreditInv'
                OBVIOUS
            <4>1. credited' = [credited EXCEPT ![task.user][task.id] = IF @ = 0 THEN 1 ELSE 2]
                     \/ credited' = credited
                BY <1>1 DEF ResolveCompensate
            <4>2. credited[task.user][task.id] = 0
                BY <1>0, <2>4 DEF CreditInv
            <4>3. \A v \in Users, q \in Rids :
                     \/ credited'[v][q] = credited[v][q]
                     \/ v = task.user /\ q = task.id /\ credited'[v][q] = 1
                BY <1>0, <4>1, <4>2 DEF TypeOK
            <4> QED BY <1>0, <2>1, <2>4, <3>3, <4>3, RidsAssumption DEF CreditInv, TypeOK
        <3> QED BY <3>6, <3>7, <3>11, <3>12, <3>13, <3>14, <3>15
    <2> QED BY <2>3, <2>4
<1>2. CASE ResolveCommit
    <2>1. /\ task.step = "commit" /\ ~MarkerBlocked /\ ~MarkerConflict
          /\ UNCHANGED <<saleKeys, job, issued, pending, proc, phase, byUser, scanned, todo, credited>>
          /\ row' = IF task.row.status = "persisted" THEN row
                    ELSE [row EXCEPT ![task.user] = [id |-> task.id, status |-> "compensated"]]
        BY <1>2 DEF ResolveCommit, apiVars
    <2>2. task'.step \in {"removeJob", "none"}
        BY <1>0, <1>2 DEF ResolveCommit, ResolveTasks, NoTask
    <2>3. reservations[task.user] # task.id
        BY <2>1 DEF WriteInv
    <2>4. PassInv' /\ ScanInv'
        BY <1>0, <2>1, <2>2 DEF PassInv, ScanInv
    <2>5. CASE task.row.status = "persisted"
        <3>1. row' = row /\ row[task.user].status = "persisted"
            BY <2>1, <2>5 DEF LockInv, ResolverRead, NoRow
        <3> QED BY <1>0, <2>1, <2>2, <2>4, <3>1, UnitFrame, SameJobs, SameProcs
    <2>6. CASE task.row.status # "persisted"
        <3>1. /\ row'[task.user] = [id |-> task.id, status |-> "compensated"]
              /\ \A v \in Users : v # task.user => row'[v] = row[v]
            BY <1>0, <2>1, <2>6 DEF TypeOK
        <3>2. row[task.user].status # "persisted"
            BY <2>1, <2>6 DEF LockInv, ResolverRead, MarkerConflict, NoRow
        <3>3. \A v \in Users : \A q : Committing(v, q) => v = task.user /\ q = task.id
            BY DEF Committing
        <3>4. LedgerInv' /\ IssuedInv' /\ (~LateAdds => CreditInv' /\ CountInv')
            BY <1>0, <2>1, <3>1 DEF LedgerInv, CreditInv, CountInv, IssuedInv, Reserved, saleKeys
        <3>5. RowInv'
            <4>1. row'[task.user] # NoRow
                BY <3>1 DEF NoRow
            <4> QED BY <2>1, <2>3, <3>1, <3>3, <4>1 DEF RowInv, saleKeys
        <3>6. ~LateAdds => LeftoverInv'
            <4>1. IsCompensated(row'[task.user], job[task.user].id)
                BY <1>0, <3>1 DEF IsCompensated
            <4> QED BY <2>1, <3>1, <3>3, <4>1 DEF LeftoverInv, saleKeys
        <3>7. WriteInv'
            BY <2>1, <2>2 DEF WriteInv, saleKeys
        <3> QED BY <2>4, <3>4, <3>5, <3>6, <3>7
    <2> QED BY <2>5, <2>6
<1> QED BY <1>1, <1>2

\* The other steps of a sweep, and what interrupts it.  A commit that is due is
\* given up only for an order that was persisted meanwhile.
LEMMA SweepUnitInv ==
    ASSUME NothingLost, PipelineInv,
           \/ StartSweep \/ ListFailed \/ (\E u \in Users : ResolveBegin(u))
           \/ ResolveAbort \/ RemoveFailedJob \/ SweepDone \/ WorkerCrash \/ PassFails
    PROVE  UnitInv'
<1> USE DEF PipelineInv, UnitInv, PassFrame, saleKeys, queueVars, apiVars, faultVars
<1>0. TypeOK /\ PassInv /\ aborts \in 0..MaxResolveAborts
    BY DEF TypeInv, TypeOK
<1>1. ~(aborts < MaxResolveAborts)
    BY <1>0 DEF NothingLost
<1>2. CASE StartSweep \/ ListFailed
    <2>1. task' = task /\ PassInv' /\ (~LateAdds => ScanInv')
        BY <1>0, <1>2 DEF StartSweep, ListFailed, PassInv, ScanInv
    <2>2. task.step \notin {"compensateAfterCommit", "commit"}
        BY <1>2 DEF StartSweep, ListFailed, TypeInv, TaskInv, NoTask, EnsureTasks, AdjudicateTasks
    <2> QED BY <1>2, <2>1, <2>2, UnitFrame, SameJobs, SameProcs DEF StartSweep, ListFailed
<1>3. ASSUME NEW u \in Users, ResolveBegin(u) PROVE UnitInv'
    <2>1. /\ task = NoTask /\ phase = "dlq" /\ task'.user = u /\ task'.id = job[u].id
          /\ task'.step = ResolveDecision(u, job[u].id) /\ phase' = phase
        BY <1>3 DEF ResolveBegin
    <2>2. /\ task'.step \in {"removeJob", "compensateAfterCommit", "compensate"}
          /\ task'.step = "compensateAfterCommit" => IsCompensated(row[u], job[u].id)
        BY <2>1 DEF ResolveDecision
    <2>3. task'.step = "compensateAfterCommit" => reservations[u] # job[u].id
        BY <2>2 DEF RowInv, IsCompensated
    <2>4. PassInv' /\ (~LateAdds => ScanInv')
        BY <1>0, <1>3, <2>1, <2>2 DEF ResolveBegin, PassInv, ScanInv
    <2> QED BY <1>3, <2>1, <2>2, <2>3, <2>4, UnitFrame, SameJobs, SameProcs DEF ResolveBegin, NoTask
<1>4. CASE ResolveAbort
    <2>1. task' = NoTask /\ phase' = phase /\ task.user \in Users /\ phase = "dlq"
        BY <1>4 DEF ResolveAbort, TypeInv, TypeOK, TaskInv, NoTask, EnsureTasks, AdjudicateTasks,
                    ResolveTasks
    <2>2. task.step = "commit" => row[task.user].status = "persisted"
        BY <1>1, <1>4 DEF ResolveAbort, MarkerConflict, LockInv, ResolverRead
    <2>3. PassInv' /\ (~LateAdds => ScanInv')
        BY <2>1 DEF PassInv, ScanInv, NoTask
    <2> QED BY <1>4, <2>1, <2>2, <2>3, UnitFrame, SameJobs, SameProcs DEF ResolveAbort, NoTask
<1>5. CASE RemoveFailedJob
    <2>1. task' = NoTask /\ phase' = phase /\ phase = "dlq" /\ task.user \in Users
        BY <1>5 DEF RemoveFailedJob, TypeInv, TypeOK, TaskInv, NoTask, EnsureTasks,
                    AdjudicateTasks, ResolveTasks
    <2>2. JobsKept
        BY <1>0, <1>5, <2>1 DEF RemoveFailedJob, JobsKept, TypeOK
    <2>3. PassInv' /\ (~LateAdds => ScanInv') /\ task.step # "commit"
        BY <1>5, <2>1 DEF RemoveFailedJob, PassInv, ScanInv, NoTask
    <2> QED BY <1>5, <2>1, <2>2, <2>3, UnitFrame, SameProcs DEF RemoveFailedJob, NoTask
<1>6. CASE SweepDone
    <2>1. task = NoTask /\ task' = NoTask /\ phase' = "idle"
        BY <1>6 DEF SweepDone, Leave
    <2>2. PassInv' /\ (~LateAdds => ScanInv')
        BY <2>1 DEF PassInv, ScanInv, NoTask
    <2> QED BY <1>6, <2>1, <2>2, UnitFrame, SameJobs, SameProcs DEF SweepDone, NoTask
<1>7. CASE WorkerCrash
    <2>1. task' = NoTask /\ phase' = "idle" /\ proc' = {} /\ task.step # "commit"
        BY <1>1, <1>7 DEF WorkerCrash, Leave
    <2>2. PassInv' /\ (~LateAdds => ScanInv') /\ ProcsKept
        BY <2>1 DEF PassInv, ScanInv, NoTask, ProcsKept
    <2> QED BY <1>7, <2>1, <2>2, UnitFrame, SameJobs DEF WorkerCrash, NoTask
<1>8. CASE PassFails
    <2>1. task' = NoTask /\ phase' = "idle" /\ task.step # "commit"
        BY <1>8 DEF PassFails, Leave, TypeInv, TaskInv, NoTask, EnsureTasks, AdjudicateTasks
    <2>2. PassInv' /\ (~LateAdds => ScanInv')
        BY <2>1 DEF PassInv, ScanInv, NoTask
    <2> QED BY <1>8, <2>1, <2>2, UnitFrame, SameJobs, SameProcs DEF PassFails, NoTask
<1> QED BY <1>2, <1>3, <1>4, <1>5, <1>6, <1>7, <1>8

\* As long as nothing is lost, every step keeps UnitInv.
LEMMA NextUnitInv ==
    ASSUME NothingLost, PipelineInv, [Next]_vars
    PROVE  PipelineInv'
<1>1. TypeInv' /\ LockInv'
    BY NextTypeInv, NextLockInv DEF PipelineInv
<1>2. ~AdjudicateReadRow /\ ~AdjudicateReadJob /\ ~Adjudicate /\ ~AdjudicateReinspect
    BY DEF PipelineInv, UnitInv, PassInv, AdjudicateReadRow, AdjudicateReadJob, Adjudicate,
           AdjudicateReinspect
<1>3. ASSUME NEW u \in Users, LoseReservation(u) PROVE FALSE
    BY <1>3 DEF LoseReservation, NothingLost, PipelineInv, TypeInv, TypeOK
<1>4. ASSUME Tick \/ UNCHANGED vars PROVE UnitInv'
    BY <1>4, QuietFrame, SameJobs, SameProcs DEF Tick, vars, queueVars, apiVars
<1>5. UnitInv'
    BY <1>2, <1>3, <1>4, PurchaseUnitInv, EnqueueUnitInv, ConsumerUnitInv, PassUnitInv,
       EnsureUnitInv, ResolveUnitInv, SweepUnitInv
    DEF Next, Api, MaintenanceStep, Faults
<1> QED BY <1>1, <1>5 DEF PipelineInv

\* The inductive invariant holds throughout.
LEMMA PipelineInvariance ==
    ASSUME NothingLost
    PROVE  Spec => []PipelineInv
<1>1. Init => PipelineInv
    <2>1. Init => LockInv
        BY DEF Init, LockInv, OneWriter, WriterAndResolver, WriterRead, ResolverRead, NoTask
    <2> QED BY <2>1, InitTypeInv, InitUnitInv DEF PipelineInv
<1>2. PipelineInv /\ [Next]_vars => PipelineInv'
    BY NextUnitInv
<1> QED BY <1>1, <1>2, PTL DEF Spec

\* The counting parts of the invariant, without late adds.
LEMMA Counting ==
    ASSUME FaultFree, PipelineInv
    PROVE  NothingLost /\ LeftoverInv /\ ScanInv /\ CreditInv /\ CountInv
BY DEF FaultFree, PipelineInv, UnitInv

\* Without those faults, the counter and the ledger together never promise more
\* than totalStock, however reconciliation, sweeps and purchases interleave.
THEOREM UnitsAreConserved ==
    ASSUME FaultFree
    PROVE  Spec => []UnitsNeverInflated
<1>1. PipelineInv => UnitsNeverInflated
    BY Counting, StockAssumption DEF CountInv, UnitsNeverInflated
<1> QED BY <1>1, PipelineInvariance, PTL DEF FaultFree

\* Every persisted order still owns its reservation and its place among the
\* buyers: nobody compensates it away, not even the job of a queue.add that
\* lands after its reservation was compensated.
THEOREM PersistedKeepsReservation ==
    ASSUME NothingLost
    PROVE  Spec => []PersistedHoldsReservation
<1>1. PipelineInv => PersistedHoldsReservation
    <2> SUFFICES ASSUME PipelineInv, NEW u \in Persisted
                 PROVE  reservations[u] = row[u].id /\ u \in buyers
        BY DEF PersistedHoldsReservation
    <2>1. u \in Users /\ row[u].status = "persisted" /\ row[u].id \in Rids
        BY DEF Persisted, PipelineInv, TypeInv, TypeOK, Rows, NoRow
    <2> QED BY <2>1, RidsAssumption DEF PipelineInv, UnitInv, RowInv, LedgerInv, Reserved
<1> QED BY <1>1, PipelineInvariance, PTL

\* I1: the orders table never holds more persisted orders than the sale has
\* units.
THEOREM OrdersNeverOversold ==
    ASSUME FaultFree
    PROVE  Spec => []NoOversell
<1>1. PipelineInv => NoOversell
    <2> SUFFICES ASSUME PipelineInv PROVE NoOversell
        OBVIOUS
    <2>1. Persisted \subseteq Reserved
        <3>1. \A u \in Users : row[u].status = "persisted" => row[u].id \in Rids
            BY DEF PipelineInv, TypeInv, TypeOK, Rows, NoRow
        <3> QED BY <3>1, RidsAssumption DEF Persisted, Reserved, PipelineInv, UnitInv, RowInv
    <2>2. Cardinality(Persisted) <= Cardinality(Reserved) /\ IsFiniteSet(Persisted)
        BY <2>1, ReservedFinite, FS_Subset
    <2>3. Cardinality(Persisted) \in Nat
        BY <2>2, FS_CardinalityType
    <2>4. CountInv /\ stock \in Nat
        BY Counting DEF PipelineInv, UnitInv, LedgerInv
    <2> QED BY <2>2, <2>3, <2>4, ReservedFinite, StockAssumption DEF NoOversell, CountInv
<1> QED BY <1>1, PipelineInvariance, PTL DEF FaultFree

\* A reservation gives its unit back at most once.
THEOREM UnitsReturnedOnce ==
    ASSUME FaultFree
    PROVE  Spec => []CompensatedOnce
<1>1. PipelineInv => CompensatedOnce
    BY Counting DEF CreditInv, CompensatedOnce
<1> QED BY <1>1, PipelineInvariance, PTL DEF FaultFree

\* Only a purchase and the compensation of a resolution change the ledger.
LEMMA LedgerWriters ==
    ASSUME FaultFree, PipelineInv, [Next]_vars
    PROVE  reservations' = reservations \/ ResolveCompensate \/ \E u \in Users : Purchase(u)
<1> USE DEF PassFrame, saleKeys
<1>1. CASE Tick \/ UNCHANGED vars
    BY <1>1 DEF Tick, vars
<1>2. ASSUME NEW u \in Users, NEW r \in Rids, EnqueueLands(u, r) \/ EnqueueFails(u, r)
      PROVE  reservations' = reservations
    BY <1>2 DEF EnqueueLands, EnqueueFails
<1>3. CASE Consumer
    BY <1>3 DEF Consumer, StartJob, Stall, EvictCompleted, PersistBegin, PersistCommit,
                PersistAbort, FinishJob
<1>4. ~AdjudicateReadRow /\ ~AdjudicateReadJob /\ ~Adjudicate /\ ~AdjudicateReinspect
    BY DEF PipelineInv, UnitInv, PassInv, AdjudicateReadRow, AdjudicateReadJob, Adjudicate,
           AdjudicateReinspect
<1>5. ASSUME \/ StartSweep \/ ListFailed \/ (\E u \in Users : ResolveBegin(u)) \/ ResolveAbort
             \/ RemoveFailedJob \/ SweepDone \/ WorkerCrash \/ PassFails \/ ResolveCommit
      PROVE  reservations' = reservations
    BY <1>5 DEF StartSweep, ListFailed, ResolveBegin, ResolveAbort, RemoveFailedJob, SweepDone,
                WorkerCrash, PassFails, ResolveCommit
<1>6. ASSUME NEW u \in Users, LoseReservation(u) PROVE FALSE
    BY <1>6 DEF LoseReservation, FaultFree, NothingLost, PipelineInv, TypeInv, TypeOK
<1> QED BY <1>1, <1>2, <1>3, <1>4, <1>5, <1>6, PassUnitInv, EnsureUnitInv
        DEF FaultFree, Next, Api, MaintenanceStep, Faults

\* A purchase touches only a user without a reservation.
LEMMA PurchaseLedger ==
    ASSUME PipelineInv, NEW u \in Users, Purchase(u), reservations' # reservations
    PROVE  /\ PurchaseOutcome(u) = "CONFIRMED" /\ reservations[u] = NoRid
           /\ FreshRid(u) \in Rids /\ FreshRid(u) \notin issued[u]
           /\ reservations' = [reservations EXCEPT ![u] = FreshRid(u)]
           /\ issued' = [issued EXCEPT ![u] = @ \cup {FreshRid(u)}]
           /\ stock > 0
<1>1. PurchaseOutcome(u) = "CONFIRMED" /\ reservations' = [reservations EXCEPT ![u] = FreshRid(u)]
    BY DEF Purchase, PurchaseScript
<1>2. reservations[u] = NoRid /\ stock > 0
    BY <1>1 DEF PurchaseOutcome, AlreadyPurchased, StockValue, PipelineInv, UnitInv, LedgerInv
<1>3. FreshRid(u) \in Rids /\ FreshRid(u) \notin issued[u]
    BY DEF Purchase, FreshRid
<1> QED BY <1>1, <1>2, <1>3 DEF Purchase

\* A compensation that changes the ledger withdraws the reservation of the
\* failed job it resolves, before any order of that reservation exists.
LEMMA CompensateLedger ==
    ASSUME PipelineInv, ResolveCompensate, reservations' # reservations
    PROVE  /\ task.user \in Users /\ task.id \in Rids /\ task.id \in issued[task.user]
           /\ job[task.user].state = "failed" /\ job[task.user].id = task.id
           /\ reservations[task.user] = task.id
           /\ reservations' = [reservations EXCEPT ![task.user] = NoRid]
           /\ row' = row /\ issued' = issued /\ row[task.user].status # "persisted"
<1> USE DEF PipelineInv, UnitInv
<1>1. task \in ResolveTasks /\ phase = "dlq" /\ task # NoTask
    BY DEF ResolveCompensate, TypeInv, TaskInv, NoTask, EnsureTasks, AdjudicateTasks
<1>2. /\ task.user \in Users /\ task.id \in Rids
      /\ job[task.user].state = "failed" /\ job[task.user].id = task.id
      /\ task.id \in issued[task.user]
    BY <1>1 DEF TypeInv, LoopInv, ResolveTasks, IssuedInv, NoJob
<1>3. /\ reservations[task.user] = task.id
      /\ reservations' = [reservations EXCEPT ![task.user] = NoRid]
    BY DEF ResolveCompensate, CompensateScript, IdentityMatches
<1>4. row[task.user].status # "persisted"
    <2>1. task.step = "compensate"
        BY <1>3 DEF ResolveCompensate, WriteInv
    <2> QED BY <1>2, <1>3, <2>1 DEF LockInv, ResolverRead, IsPersisted, RowInv
<1> QED BY <1>2, <1>3, <1>4 DEF ResolveCompensate, queueVars, apiVars

\* A reservation on file is safe from every script but one: the purchase refuses
\* its user, the compare-and-set of a repair keeps what it finds, and the
\* compensation asks for the identity of the failed job it resolves.
LEMMA ReservationEnds ==
    ASSUME TypeInv, [Next]_vars, NEW u \in Users,
           reservations[u] # NoRid, reservations'[u] # reservations[u]
    PROVE  \/ job[u].state = "failed" /\ job[u].id = reservations[u]
           \/ LoseReservation(u)
<1> USE DEF PassFrame, saleKeys
<1>0. reservations \in [Users -> Rids \cup {NoRid}]
    BY DEF TypeInv, TypeOK, SaleTypeOK
<1>1. CASE Tick \/ UNCHANGED vars
    BY <1>1 DEF Tick, vars
<1>2. ASSUME NEW v \in Users, Purchase(v) PROVE FALSE
    <2>1. /\ reservations' = [reservations EXCEPT ![v] = FreshRid(v)]
          /\ PurchaseOutcome(v) = "CONFIRMED"
        BY <1>2 DEF Purchase, PurchaseScript
    <2>2. reservations[v] = NoRid
        BY <2>1 DEF PurchaseOutcome, AlreadyPurchased
    <2> QED BY <1>0, <2>1, <2>2
<1>3. ASSUME NEW v \in Users, NEW r \in Rids, EnqueueLands(v, r) \/ EnqueueFails(v, r)
      PROVE  FALSE
    BY <1>3 DEF EnqueueLands, EnqueueFails
<1>4. CASE Consumer
    BY <1>4 DEF Consumer, StartJob, Stall, EvictCompleted, PersistBegin, PersistCommit,
                PersistAbort, FinishJob
<1>5. ASSUME NEW v \in Users, NEW r, CompareRestoreScript(v, r) PROVE FALSE
    BY <1>0, <1>5 DEF CompareRestoreScript, RestoreOutcome
<1>6. ASSUME NEW v \in Users, RestoreRow(v) \/ RestoreJob(v) PROVE FALSE
    BY <1>5, <1>6 DEF RestoreRow, RestoreJob
<1>7. CASE Adjudicate
    <2>1. task.user \in Users
        BY <1>7 DEF Adjudicate, NoTask, TypeInv, TypeOK
    <2>2. reservations' = reservations \/ CompareRestoreScript(task.user, Candidate)
        BY <1>7 DEF Adjudicate, Recover, DropBuyer, ReconcileMembershipScript
    <2> QED BY <1>5, <2>1, <2>2
<1>8. ASSUME \/ StartPass \/ ScanJobs \/ RestoreRowsDone \/ ScanLedger \/ ScanBuyers \/ BuyersDone
             \/ EnsureQueued \/ RemoveStaleJob \/ EnqueueLive \/ RepairMembership
             \/ (\E v \in Users : RepairEntry(v) \/ InspectBuyer(v))
             \/ AdjudicateReadRow \/ AdjudicateReadJob \/ AdjudicateReinspect \/ ReconcileStock
      PROVE  FALSE
    BY <1>8 DEF StartPass, ScanJobs, RestoreRowsDone, ScanLedger, ScanBuyers, BuyersDone,
                EnsureQueued, RemoveStaleJob, EnqueueLive, RepairMembership, RepairEntry,
                InspectBuyer, AdjudicateReadRow, AdjudicateReadJob, AdjudicateReinspect,
                ReconcileStock, ReconcileMembershipScript, ReconcileStateScript
<1>9. ASSUME \/ StartSweep \/ ListFailed \/ (\E v \in Users : ResolveBegin(v)) \/ ResolveAbort
             \/ RemoveFailedJob \/ SweepDone \/ WorkerCrash \/ PassFails \/ ResolveCommit
      PROVE  FALSE
    BY <1>9 DEF StartSweep, ListFailed, ResolveBegin, ResolveAbort, RemoveFailedJob, SweepDone,
                WorkerCrash, PassFails, ResolveCommit
<1>10. CASE ResolveCompensate
    <2>1. task \in ResolveTasks /\ phase = "dlq" /\ task # NoTask
        BY <1>10 DEF ResolveCompensate, TypeInv, TaskInv, NoTask, EnsureTasks, AdjudicateTasks
    <2>2. /\ task.user \in Users
          /\ job[task.user].state = "failed" /\ job[task.user].id = task.id
        BY <2>1 DEF TypeInv, LoopInv, ResolveTasks
    <2>3. /\ reservations[task.user] = task.id
          /\ reservations' = [reservations EXCEPT ![task.user] = NoRid]
        BY <1>10 DEF ResolveCompensate, CompensateScript, IdentityMatches
    <2> QED BY <1>0, <2>2, <2>3
<1>11. ASSUME NEW v \in Users, LoseReservation(v) PROVE LoseReservation(u)
    BY <1>0, <1>11 DEF LoseReservation
<1> QED BY <1>1, <1>2, <1>3, <1>4, <1>6, <1>7, <1>8, <1>9, <1>10, <1>11
        DEF Next, Api, MaintenanceStep, Faults

\* As long as Redis loses nothing, a confirmed reservation is withdrawn only
\* because its own job failed for good, never through the leftover job of an
\* earlier one: neither aborted resolutions nor late adds can change that.
THEOREM WithdrawnByOwnFailure ==
    ASSUME MaxLosses = 0
    PROVE  Spec => WithdrawnOnlyByOwnFailure
<1> DEFINE Withdrawal ==
        \A u \in Users :
            reservations[u] # NoRid /\ reservations'[u] # reservations[u] =>
                job[u].state = "failed" /\ job[u].id = reservations[u]
<1>1. ASSUME TypeInv, [Next]_vars PROVE [Withdrawal]_reservations
    <2>1. ASSUME NEW u \in Users, LoseReservation(u) PROVE FALSE
        BY <1>1, <2>1 DEF LoseReservation, TypeInv, TypeOK
    <2> QED BY <1>1, <2>1, ReservationEnds
<1>2. TypeInv /\ [Next]_vars => [Withdrawal]_reservations
    BY <1>1
<1> QED BY <1>2, PipelineTypes, PTL DEF Spec, WithdrawnOnlyByOwnFailure

-----------------------------------------------------------------------------
(* The refinement of ReservationLifecycle *)

\* The status of one reservation, by the user's row, the identity on file and
\* the identities issued.
StatusOf(entry, onFile, ids, r) ==
    CASE IsPersisted(entry, r)                    -> "sold"
      [] ~IsPersisted(entry, r) /\ onFile = r     -> "held"
      [] r \notin ids                             -> "idle"
      [] OTHER                                    -> "returned"

\* The four cases of a reservation's status.
LEMMA StatusOfCases ==
    ASSUME NEW entry, NEW onFile, NEW ids, NEW r
    PROVE  /\ IsPersisted(entry, r) /\ r \in ids => StatusOf(entry, onFile, ids, r) = "sold"
           /\ ~IsPersisted(entry, r) /\ onFile = r /\ r \in ids =>
                 StatusOf(entry, onFile, ids, r) = "held"
           /\ ~IsPersisted(entry, r) /\ onFile # r /\ r \notin ids =>
                 StatusOf(entry, onFile, ids, r) = "idle"
           /\ ~IsPersisted(entry, r) /\ onFile # r /\ r \in ids =>
                 StatusOf(entry, onFile, ids, r) = "returned"
BY DEF StatusOf

\* ReservationStatus, before and after a step, one reservation at a time.
LEMMA StatusIs ==
    ASSUME NEW u \in Users, NEW r \in Rids
    PROVE  /\ ReservationStatus[u][r] = StatusOf(row[u], reservations[u], issued[u], r)
           /\ ReservationStatus'[u][r] = StatusOf(row'[u], reservations'[u], issued'[u], r)
BY DEF ReservationStatus, StatusOf, IsPersisted

\* An identity on file or in a row was issued.
LEMMA OnFileIssued ==
    ASSUME PipelineInv, NEW u \in Users, NEW r \in Rids
    PROVE  /\ reservations[u] = r => r \in issued[u]
           /\ IsPersisted(row[u], r) => r \in issued[u] /\ reservations[u] = r
<1>1. reservations[u] = r => r \in issued[u]
    BY RidsAssumption DEF PipelineInv, UnitInv, IssuedInv
<1>2. IsPersisted(row[u], r) => reservations[u] = r
    BY DEF PipelineInv, UnitInv, RowInv, IsPersisted
<1> QED BY <1>1, <1>2

\* A reservation is held or sold while it is the one on file.
LEMMA StatusOnFile ==
    ASSUME PipelineInv, NEW u \in Users, NEW r \in Rids
    PROVE  ReservationStatus[u][r] \in {"held", "sold"} <=> reservations[u] = r
BY OnFileIssued, StatusIs, StatusOfCases

\* The units in use are those of the ledger.
LEMMA UnitsAreReserved ==
    ASSUME PipelineInv
    PROVE  /\ IsFiniteSet(Lifecycle!Units)
           /\ Cardinality(Lifecycle!Units) <= Cardinality(Reserved)
<1> DEFINE unit(u) == <<u, reservations[u]>>
           image == {unit(u) : u \in Reserved}
<1>1. Lifecycle!Units \subseteq image
    <2> SUFFICES ASSUME NEW x \in Lifecycle!Units PROVE x \in image
        OBVIOUS
    <2>1. /\ x \in Users \X Rids
          /\ ReservationStatus[x[1]][x[2]] \in {"held", "sold"}
        BY DEF Lifecycle!Units
    <2>2. x[1] \in Users /\ x[2] \in Rids /\ x = <<x[1], x[2]>>
        BY <2>1
    <2>3. reservations[x[1]] = x[2]
        BY <2>1, <2>2, StatusOnFile
    <2>4. x[1] \in Reserved
        BY <2>2, <2>3, RidsAssumption DEF Reserved
    <2> QED BY <2>2, <2>3, <2>4
<1>2. IsFiniteSet(image) /\ Cardinality(image) <= Cardinality(Reserved)
    <2>1. [u \in Reserved |-> unit(u)] \in Surjection(Reserved, image)
        BY DEF Surjection
    <2> QED BY <2>1, ReservedFinite, FS_Surjection
<1>3. IsFiniteSet(Lifecycle!Units) /\ Cardinality(Lifecycle!Units) <= Cardinality(image)
    BY <1>1, <1>2, FS_Subset
<1>4. Cardinality(Lifecycle!Units) \in Nat /\ Cardinality(image) \in Nat
    BY <1>2, <1>3, FS_CardinalityType
<1> QED BY <1>2, <1>3, <1>4, ReservedFinite

\* A step that changes no ledger entry and persists nothing new leaves every
\* status as it is.
LEMMA StatusFrame ==
    ASSUME UNCHANGED <<reservations, issued>>,
           \A u \in Users, r \in Rids : IsPersisted(row[u], r)' <=> IsPersisted(row[u], r)
    PROVE  ReservationStatus' = ReservationStatus
BY DEF ReservationStatus

\* A step that moves one reservation.
LEMMA StatusExcept ==
    ASSUME NEW u \in Users, NEW r \in Rids, NEW s, ReservationStatus'[u][r] = s,
           \A v \in Users, q \in Rids :
               v # u \/ q # r => ReservationStatus'[v][q] = ReservationStatus[v][q]
    PROVE  ReservationStatus' = [ReservationStatus EXCEPT ![u][r] = s]
<1> DEFINE X == {ReservationStatus[v][q] : v \in Users, q \in Rids} \cup
                {ReservationStatus'[v][q] : v \in Users, q \in Rids}
<1>1. ReservationStatus \in [Users -> [Rids -> X]] /\ ReservationStatus' \in [Users -> [Rids -> X]]
    BY DEF ReservationStatus
<1> HIDE DEF X
<1> QED BY <1>1

\* A confirmed purchase is a Confirm.
LEMMA PurchaseConfirms ==
    ASSUME FaultFree, PipelineInv, NEW u \in Users, Purchase(u)
    PROVE  ReservationStatus' = ReservationStatus \/ \E r \in Rids : Lifecycle!Confirm(u, r)
<1>1. row' = row
    BY DEF Purchase, queueVars
<1>2. CASE reservations' = reservations
    <2>1. PurchaseOutcome(u) # "CONFIRMED"
        <3>1. ASSUME PurchaseOutcome(u) = "CONFIRMED" PROVE FALSE
            <4>1. /\ reservations[u] = NoRid /\ FreshRid(u) \in Rids
                  /\ reservations' = [reservations EXCEPT ![u] = FreshRid(u)]
                BY <3>1 DEF Purchase, PurchaseScript, PurchaseOutcome, AlreadyPurchased, FreshRid
            <4> QED BY <1>2, <4>1, RidsAssumption DEF PipelineInv, TypeInv, TypeOK, SaleTypeOK
        <3> QED BY <3>1
    <2>2. issued' = issued
        BY <2>1 DEF Purchase, apiVars
    <2> QED BY <1>1, <1>2, <2>2, StatusFrame DEF IsPersisted
<1>3. CASE reservations' # reservations
    <2> DEFINE r == FreshRid(u)
    <2>1. /\ reservations[u] = NoRid /\ r \in Rids /\ r \notin issued[u] /\ stock > 0
          /\ reservations' = [reservations EXCEPT ![u] = r]
          /\ issued' = [issued EXCEPT ![u] = @ \cup {r}]
        BY <1>3, PurchaseLedger
    <2> HIDE DEF r
    <2>2. /\ reservations'[u] = r /\ issued'[u] = issued[u] \cup {r} /\ r # NoRid
          /\ \A v \in Users : v # u => reservations'[v] = reservations[v] /\ issued'[v] = issued[v]
        BY <2>1, RidsAssumption DEF PipelineInv, TypeInv, TypeOK, SaleTypeOK
    <2>3. ~IsPersisted(row[u], r)
        BY <2>1, OnFileIssued
    <2>4. ReservationStatus[u][r] = "idle" /\ ReservationStatus'[u][r] = "held"
        <3>1. ReservationStatus[u][r] = "idle"
            BY <2>1, <2>2, <2>3, StatusIs, StatusOfCases
        <3>2. r \in issued'[u]
            BY <2>2
        <3> QED BY <1>1, <2>1, <2>2, <2>3, <3>1, <3>2, StatusIs, StatusOfCases
    <2>5. ASSUME NEW v \in Users, NEW q \in Rids, v # u \/ q # r
          PROVE  ReservationStatus'[v][q] = ReservationStatus[v][q]
        <3>1. CASE v # u
            BY <1>1, <2>2, <3>1, StatusIs
        <3>2. CASE v = u /\ q # r
            <4>1. ~IsPersisted(row[u], q) /\ reservations[u] # q /\ reservations'[u] # q
                BY <2>1, <2>2, <3>2, OnFileIssued, RidsAssumption
            <4>2. q \in issued'[u] <=> q \in issued[u]
                BY <2>2, <3>2
            <4> QED BY <1>1, <3>2, <4>1, <4>2, StatusIs, StatusOfCases
        <3> QED BY <2>5, <3>1, <3>2
    <2>6. ReservationStatus' = [ReservationStatus EXCEPT ![u][r] = "held"]
        BY <2>1, <2>4, <2>5, StatusExcept
    <2>7. \A q \in Rids : ReservationStatus[u][q] \notin {"held", "sold"}
        BY <2>1, StatusOnFile, RidsAssumption
    <2>8. Cardinality(Lifecycle!Units) < TotalStock
        <3>1. stock \in Nat /\ stock + Cardinality(Reserved) = TotalStock
            BY Counting DEF PipelineInv, UnitInv, LedgerInv, CountInv
        <3>2. Cardinality(Lifecycle!Units) \in Nat
            BY UnitsAreReserved, FS_CardinalityType
        <3> QED BY <2>1, <3>1, <3>2, UnitsAreReserved, ReservedFinite, StockAssumption
    <2>9. Lifecycle!Cardinality(Lifecycle!Units) = Cardinality(Lifecycle!Units)
        BY Zenon DEF Lifecycle!Cardinality, Cardinality
    <2>10. Lifecycle!Confirm(u, r)
        BY <2>4, <2>6, <2>7, <2>8, <2>9 DEF Lifecycle!Confirm
    <2> QED BY <2>1, <2>10
<1> QED BY <1>2, <1>3

\* A processor's commit is a Settle.
LEMMA CommitSettles ==
    ASSUME PipelineInv, NEW p \in proc, PersistCommit(p)
    PROVE  p.user \in Users /\ p.id \in Rids /\ Lifecycle!Settle(p.user, p.id)
<1>1. p.user \in Users /\ p.id \in Rids
    BY DEF PipelineInv, TypeInv, TypeOK, Procs
<1>2. /\ reservations' = reservations /\ issued' = issued
      /\ row'[p.user] = [id |-> p.id, status |-> "persisted"]
      /\ \A v \in Users : v # p.user => row'[v] = row[v]
    BY <1>1 DEF PersistCommit, saleKeys, apiVars, PipelineInv, TypeInv, TypeOK
<1>3. reservations[p.user] = p.id /\ row[p.user].status # "persisted"
    BY DEF PersistCommit, PipelineInv, UnitInv, WriteInv, Writing, LockInv, WriterRead,
           WritingStages, NoRow
<1>4. p.id \in issued[p.user]
    BY <1>1, <1>3, OnFileIssued
<1>5. ReservationStatus[p.user][p.id] = "held"
    BY <1>1, <1>3, <1>4, StatusIs, StatusOfCases DEF IsPersisted
<1>6. ReservationStatus'[p.user][p.id] = "sold"
    <2>1. IsPersisted(row'[p.user], p.id)
        BY <1>2 DEF IsPersisted
    <2> QED BY <1>1, <1>2, <1>4, <2>1, StatusIs, StatusOfCases
<1>7. ASSUME NEW v \in Users, NEW q \in Rids, v # p.user \/ q # p.id
      PROVE  ReservationStatus'[v][q] = ReservationStatus[v][q]
    <2>1. CASE v # p.user
        BY <1>2, <2>1, StatusIs
    <2>2. CASE v = p.user /\ q # p.id
        <3>1. ~IsPersisted(row[v], q) /\ ~IsPersisted(row'[v], q)
            BY <1>2, <1>3, <2>2 DEF IsPersisted
        <3> QED BY <1>2, <1>3, <2>2, <3>1, StatusIs, StatusOfCases
    <2> QED BY <1>7, <2>1, <2>2
<1>8. ReservationStatus' = [ReservationStatus EXCEPT ![p.user][p.id] = "sold"]
    BY <1>1, <1>6, <1>7, StatusExcept
<1> QED BY <1>1, <1>5, <1>8 DEF Lifecycle!Settle

\* A compensation is a Return, or changes nothing.
LEMMA CompensationReturns ==
    ASSUME PipelineInv, ResolveCompensate
    PROVE  \/ ReservationStatus' = ReservationStatus
           \/ \E u \in Users, r \in Rids : Lifecycle!Return(u, r)
<1>1. row' = row /\ issued' = issued
    BY DEF ResolveCompensate, queueVars, apiVars
<1>2. CASE reservations' = reservations
    BY <1>1, <1>2, StatusFrame DEF IsPersisted
<1>3. CASE reservations' # reservations
    <2>1. PICK u \in Users, r \in Rids :
             /\ r \in issued[u] /\ reservations[u] = r
             /\ reservations' = [reservations EXCEPT ![u] = NoRid]
             /\ row[u].status # "persisted"
        BY <1>3, CompensateLedger
    <2>2. /\ reservations'[u] = NoRid
          /\ \A v \in Users : v # u => reservations'[v] = reservations[v]
        BY <2>1 DEF PipelineInv, TypeInv, TypeOK, SaleTypeOK
    <2>3. \A q \in Rids : ~IsPersisted(row[u], q) /\ reservations'[u] # q
        BY <2>1, <2>2, RidsAssumption DEF IsPersisted
    <2>4. ReservationStatus[u][r] = "held" /\ ReservationStatus'[u][r] = "returned"
        BY <1>1, <2>1, <2>3, StatusIs, StatusOfCases
    <2>5. ASSUME NEW v \in Users, NEW q \in Rids, v # u \/ q # r
          PROVE  ReservationStatus'[v][q] = ReservationStatus[v][q]
        <3>1. CASE v # u
            BY <1>1, <2>2, <3>1, StatusIs
        <3>2. CASE v = u /\ q # r
            BY <1>1, <2>1, <2>3, <3>2, StatusIs, StatusOfCases
        <3> QED BY <2>5, <3>1, <3>2
    <2>6. ReservationStatus' = [ReservationStatus EXCEPT ![u][r] = "returned"]
        BY <2>4, <2>5, StatusExcept
    <2> QED BY <2>4, <2>6 DEF Lifecycle!Return
<1> QED BY <1>2, <1>3

\* Only a purchase issues identities.
LEMMA IssuedWriters ==
    ASSUME [Next]_vars
    PROVE  issued' = issued \/ \E u \in Users : Purchase(u)
<1> USE DEF PassFrame, apiVars
<1>1. CASE Tick \/ StartPass \/ StartSweep \/ Faults \/ UNCHANGED vars
    BY <1>1 DEF Tick, StartPass, StartSweep, Faults, WorkerCrash, PassFails, ResolveAbort,
                LoseReservation, vars
<1>2. CASE Api
    BY <1>2 DEF Api, EnqueueLands, EnqueueFails
<1>3. CASE Consumer
    BY <1>3 DEF Consumer, StartJob, Stall, EvictCompleted, PersistBegin, PersistCommit,
                PersistAbort, FinishJob
<1>4. CASE MaintenanceStep
    BY <1>4 DEF MaintenanceStep, ScanJobs, RestoreRowsDone, ScanLedger, ScanBuyers, BuyersDone,
                RestoreRow, RestoreJob, RepairEntry, InspectBuyer, ResolveBegin, EnsureQueued,
                RemoveStaleJob, EnqueueLive, RepairMembership, AdjudicateReadRow,
                AdjudicateReadJob, Adjudicate, AdjudicateReinspect, ReconcileStock, ListFailed,
                ResolveCompensate, ResolveCommit, RemoveFailedJob, SweepDone
<1> QED BY <1>1, <1>2, <1>3, <1>4 DEF Next

\* The pipeline implements the abstract lifecycle: through every interleaving,
\* each reservation goes from idle to held and then to sold or returned, once
\* and for good, and a unit is confirmed only while one is free.
THEOREM PipelineImplementsLifecycle ==
    ASSUME FaultFree
    PROVE  Spec => ImplementsLifecycle
<1>1. Init => Lifecycle!Init
    <2> SUFFICES ASSUME Init PROVE Lifecycle!Init
        OBVIOUS
    <2>1. \A u \in Users, r \in Rids : ReservationStatus[u][r] = "idle"
        BY RidsAssumption DEF Init, ReservationStatus, IsPersisted, NoRow
    <2>2. ReservationStatus = [u \in Users |-> [r \in Rids |-> "idle"]]
        BY <2>1 DEF ReservationStatus
    <2> QED BY <2>2 DEF Lifecycle!Init
<1>2. ASSUME PipelineInv, [Next]_vars PROVE [Lifecycle!Next]_ReservationStatus
    <2>1. ASSUME NEW u \in Users, Purchase(u) PROVE [Lifecycle!Next]_ReservationStatus
        BY <1>2, <2>1, PurchaseConfirms DEF Lifecycle!Next
    <2>2. ASSUME NEW p \in proc, PersistCommit(p) PROVE [Lifecycle!Next]_ReservationStatus
        BY <1>2, <2>2, CommitSettles DEF Lifecycle!Next
    <2>3. CASE ResolveCompensate
        BY <1>2, <2>3, CompensationReturns DEF Lifecycle!Next
    <2>4. CASE ResolveCommit
        <3>1. reservations' = reservations /\ issued' = issued
            BY <2>4 DEF ResolveCommit, saleKeys, apiVars
        <3>2. ASSUME NEW u \in Users, NEW r \in Rids
              PROVE  IsPersisted(row'[u], r) <=> IsPersisted(row[u], r)
            <4>1. row[u].status = "persisted" => row'[u] = row[u]
                BY <1>2, <2>4 DEF ResolveCommit, PipelineInv, LockInv, ResolverRead, MarkerConflict,
                                  NoRow, TypeInv, TypeOK
            <4>2. row'[u] = row[u] \/ row'[u].status = "compensated"
                BY <1>2, <2>4 DEF ResolveCommit, PipelineInv, TypeInv, TypeOK
            <4> QED BY <4>1, <4>2 DEF IsPersisted
        <3> QED BY <3>1, <3>2, StatusFrame DEF IsPersisted
    <2>5. CASE /\ row' = row /\ reservations' = reservations
               /\ ~\E u \in Users : Purchase(u)
        <3>1. issued' = issued
            BY <1>2, <2>5, IssuedWriters
        <3> QED BY <2>5, <3>1, StatusFrame DEF IsPersisted
    <2> QED BY <1>2, <2>1, <2>2, <2>3, <2>4, <2>5, RowWriters, LedgerWriters
<1>3. PipelineInv /\ [Next]_vars => [Lifecycle!Next]_ReservationStatus
    BY <1>2
<1> QED BY <1>1, <1>3, PipelineInvariance, PTL DEF FaultFree, Spec, ImplementsLifecycle, Lifecycle!Spec

-----------------------------------------------------------------------------
(* What an implementation of ReservationLifecycle inherits.  Neither I1 nor I2 *)
(* follows from the shape of the statuses alone: both rest on sold and         *)
(* returned being final, so that a unit is taken only by Confirm.  Nothing     *)
(* here looks into ReservationStatus.                                          *)

Promise ==
    /\ Lifecycle!TypeOK
    /\ IsFiniteSet(Lifecycle!Units) /\ Cardinality(Lifecycle!Units) <= TotalStock
    /\ Lifecycle!OnePerUser

\* The abstract specification counts as this module does.
LEMMA SameCardinality ==
    ASSUME NEW S
    PROVE  Lifecycle!Cardinality(S) = Cardinality(S)
BY Zenon DEF Lifecycle!Cardinality, Cardinality

\* A settlement keeps the unit, a return gives it back.
LEMMA UnitsAfterEnd ==
    ASSUME Lifecycle!TypeOK, NEW u \in Users, NEW r \in Rids,
           Lifecycle!Settle(u, r) \/ Lifecycle!Return(u, r)
    PROVE  Lifecycle!TypeOK' /\ Lifecycle!Units' \subseteq Lifecycle!Units
<1>1. PICK s \in {"sold", "returned"} :
         /\ ReservationStatus[u][r] = "held"
         /\ ReservationStatus' = [ReservationStatus EXCEPT ![u][r] = s]
    BY DEF Lifecycle!Settle, Lifecycle!Return
<1>2. Lifecycle!TypeOK'
    BY <1>1 DEF Lifecycle!TypeOK, Lifecycle!States
<1>3. ASSUME NEW x \in Users \X Rids, ReservationStatus'[x[1]][x[2]] \in {"held", "sold"}
      PROVE  ReservationStatus[x[1]][x[2]] \in {"held", "sold"}
    BY <1>1, <1>3 DEF Lifecycle!TypeOK
<1>4. Lifecycle!Units' \subseteq Lifecycle!Units
    BY <1>3 DEF Lifecycle!Units
<1> QED BY <1>2, <1>4

\* A confirmation occupies one more unit.
LEMMA UnitsAfterConfirm ==
    ASSUME Lifecycle!TypeOK, NEW u \in Users, NEW r \in Rids, Lifecycle!Confirm(u, r)
    PROVE  /\ Lifecycle!TypeOK' /\ Lifecycle!Units' = Lifecycle!Units \cup {<<u, r>>}
           /\ <<u, r>> \notin Lifecycle!Units
<1>1. /\ ReservationStatus[u][r] = "idle"
      /\ ReservationStatus' = [ReservationStatus EXCEPT ![u][r] = "held"]
    BY DEF Lifecycle!Confirm
<1>2. Lifecycle!TypeOK'
    BY <1>1 DEF Lifecycle!TypeOK, Lifecycle!States
<1>3. <<u, r>> \notin Lifecycle!Units
    BY <1>1 DEF Lifecycle!Units
<1>4. ASSUME NEW x \in Users \X Rids
      PROVE  x \in Lifecycle!Units' <=> x \in Lifecycle!Units \/ x = <<u, r>>
    <2>1. PICK v \in Users, q \in Rids : x = <<v, q>>
        OBVIOUS
    <2>2. x \in Lifecycle!Units <=> ReservationStatus[v][q] \in {"held", "sold"}
        BY <2>1 DEF Lifecycle!Units
    <2>3. x \in Lifecycle!Units' <=> ReservationStatus'[v][q] \in {"held", "sold"}
        BY <2>1 DEF Lifecycle!Units
    <2>4. ReservationStatus'[v][q] = IF v = u /\ q = r THEN "held" ELSE ReservationStatus[v][q]
        BY <1>1 DEF Lifecycle!TypeOK
    <2> QED BY <2>1, <2>2, <2>3, <2>4
<1>5. Lifecycle!Units \subseteq Users \X Rids /\ Lifecycle!Units' \subseteq Users \X Rids
    BY DEF Lifecycle!Units
<1>6. Lifecycle!Units' = Lifecycle!Units \cup {<<u, r>>}
    BY <1>4, <1>5
<1> QED BY <1>2, <1>3, <1>6

\* Each of the three transitions preserves I1 and I2.
LEMMA NextPromise ==
    ASSUME Promise, [Lifecycle!Next]_ReservationStatus
    PROVE  Promise'
<1>1. ASSUME NEW u \in Users, NEW r \in Rids, Lifecycle!Confirm(u, r) PROVE Promise'
    <2>1. /\ Lifecycle!TypeOK' /\ Lifecycle!Units' = Lifecycle!Units \cup {<<u, r>>}
          /\ <<u, r>> \notin Lifecycle!Units
        BY <1>1, UnitsAfterConfirm DEF Promise
    <2>2. Cardinality(Lifecycle!Units') = Cardinality(Lifecycle!Units) + 1
        BY <2>1, FS_AddElement DEF Promise
    <2>3. IsFiniteSet(Lifecycle!Units') /\ Cardinality(Lifecycle!Units) \in Nat
        BY <2>1, FS_AddElement, FS_CardinalityType DEF Promise
    <2>4. Cardinality(Lifecycle!Units) < TotalStock
        BY <1>1, SameCardinality DEF Lifecycle!Confirm
    <2>5. Cardinality(Lifecycle!Units') <= TotalStock
        BY <2>2, <2>4, <2>3, StockAssumption
    <2>6. \A x \in Lifecycle!Units : x[1] # u
        BY <1>1 DEF Lifecycle!Confirm, Lifecycle!Units
    <2>7. Lifecycle!OnePerUser'
        BY <2>1, <2>6 DEF Lifecycle!OnePerUser, Promise
    <2> QED BY <2>1, <2>5, <2>7, <2>3 DEF Promise
<1>2. ASSUME NEW u \in Users, NEW r \in Rids, Lifecycle!Settle(u, r) \/ Lifecycle!Return(u, r)
      PROVE  Promise'
    <2>1. Lifecycle!TypeOK' /\ Lifecycle!Units' \subseteq Lifecycle!Units
        BY <1>2, UnitsAfterEnd DEF Promise
    <2>2. /\ IsFiniteSet(Lifecycle!Units')
          /\ Cardinality(Lifecycle!Units') <= Cardinality(Lifecycle!Units)
        BY <2>1, FS_Subset DEF Promise
    <2>3. Cardinality(Lifecycle!Units') \in Nat /\ Cardinality(Lifecycle!Units) \in Nat
        BY <2>2, FS_CardinalityType DEF Promise
    <2>4. Cardinality(Lifecycle!Units') <= TotalStock
        BY <2>2, <2>3, StockAssumption DEF Promise
    <2>5. Lifecycle!OnePerUser'
        BY <2>1 DEF Lifecycle!OnePerUser, Promise
    <2> QED BY <2>1, <2>2, <2>4, <2>5 DEF Promise
<1>3. CASE UNCHANGED ReservationStatus
    BY <1>3 DEF Promise, Lifecycle!TypeOK, Lifecycle!OnePerUser, Lifecycle!Units
<1> QED BY <1>1, <1>2, <1>3 DEF Lifecycle!Next

\* I1 and I2: whatever implements the lifecycle never has more units held or
\* sold than the stock, and never two of them for one user.
THEOREM LifecycleKeepsPromise ==
    Lifecycle!Spec => [](Lifecycle!NoOversell /\ Lifecycle!OnePerUser)
<1>1. Lifecycle!Init => Promise
    <2> SUFFICES ASSUME Lifecycle!Init PROVE Promise
        OBVIOUS
    <2>1. Lifecycle!Units = {}
        BY DEF Lifecycle!Init, Lifecycle!Units
    <2>2. IsFiniteSet(Lifecycle!Units) /\ Cardinality(Lifecycle!Units) = 0
        BY <2>1, FS_EmptySet
    <2>3. Lifecycle!TypeOK
        BY DEF Lifecycle!Init, Lifecycle!TypeOK, Lifecycle!States
    <2> QED BY <2>1, <2>2, <2>3, StockAssumption DEF Promise, Lifecycle!OnePerUser
<1>2. Promise /\ [Lifecycle!Next]_ReservationStatus => Promise'
    BY NextPromise
<1>3. Promise => Lifecycle!NoOversell /\ Lifecycle!OnePerUser
    BY SameCardinality DEF Promise, Lifecycle!NoOversell
<1> QED BY <1>1, <1>2, <1>3, PTL DEF Lifecycle!Spec

\* So the pipeline never has more units held or sold than the stock, counted
\* over all the reservations it ever issued, nor two of them for one user.
THEOREM PipelineKeepsPromise ==
    ASSUME FaultFree
    PROVE  Spec => [](Lifecycle!NoOversell /\ Lifecycle!OnePerUser)
<1>1. ImplementsLifecycle => Lifecycle!Spec
    BY DEF ImplementsLifecycle
<1> QED BY <1>1, PipelineImplementsLifecycle, LifecycleKeepsPromise, PTL

=============================================================================
