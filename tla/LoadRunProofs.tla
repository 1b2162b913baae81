--------------------------- MODULE LoadRunProofs ---------------------------
(***************************************************************************)
(* What a load run keeps true for every number of confirmed purchases,     *)
(* every stock that covers them, every number of lost reservation fields   *)
(* and every number of scenarios: the four invariants of LoadRun.          *)
(*                                                                         *)
(* The audit (ReportSeen).  No read of collectSnapshot is atomic with the  *)
(* next, so equality of snapshots alone proves nothing; what helps is the  *)
(* direction in which the system moves.  A row is written once (RowsOlder) *)
(* and a unit that is returned leaves a buyer whose row is still to be     *)
(* written (ReturnedSince).  So a candidate whose rows still hold agrees   *)
(* in stock and buyers with an idle system (OlderIdle).  The second, equal *)
(* snapshot also has the counts and the reservations of its last read:     *)
(* from then on the candidate has been the system's state, or a row has    *)
(* been written since, or a job that must still write one is under way     *)
(* (Witnessed).  The third snapshot's queue read excludes the last case    *)
(* and its rows the second.  With two snapshots the argument would end     *)
(* before that, which is why waitForConvergence collects a final one.      *)
(*                                                                         *)
(* The runner.  TermInv: the registry refuses every spawn from the moment  *)
(* a termination has listed its targets.  QuietInv: the only children are  *)
(* the one the step awaits and the docker stats of the tick in flight,     *)
(* samplers are on only beside a living workload or while they are being   *)
(* stopped.  DoneInv: a workload or an audit the runner has signalled is   *)
(* charged to the scenario at a later step at the latest (HarmInv lists    *)
(* the steps at which it may still be pending), so no harmed run passes.   *)
(***************************************************************************)
EXTENDS LoadRun, FiniteSetTheorems, TLAPS

(* Types of the audit *)

AuditPcs == {"off", "queue", "worker", "counts", "rows", "stock", "buyers", "ledger",
             "judge", "sleep", "publish", "linked", "exit0", "exit1"}
SysRec == [job : [Users -> {"lost", "waiting", "active", "failed", "done"}],
           row : [Users -> Rows], buyers : SUBSET Users, ledger : SUBSET Users,
           stock : 0..(Stock + MaxLosses), losses : 0..MaxLosses]
AuditRec == [pc : AuditPcs, final : BOOLEAN, snap : Snaps, cand : Snaps,
             aged : BOOLEAN, seen : BOOLEAN]
FileRec == [state : {"none", "temp", "linked", "proven", "revoked"}, pass : BOOLEAN]

AuditTypes == sys \in SysRec /\ audit \in AuditRec /\ file \in FileRec

-----------------------------------------------------------------------------
(* The audited system and a snapshot of it *)

\* No job is waiting, active or failed: what the queue's counts show.
Idle(s) == \A u \in Users : s.job[u] \notin {"waiting", "active", "failed"}

\* A job, its row and its unit, in every state of the audited system.
JobConsistent(s, u) ==
    /\ s.job[u] \in {"lost", "waiting", "failed"} => s.row[u] = "none"
    /\ s.job[u] = "active" => s.row[u] \in {"none", "persisted"}
    /\ s.job[u] = "done" => s.row[u] \in {"persisted", "compensated"}
    /\ s.job[u] \in {"lost", "waiting", "active"} => u \in s.buyers /\ u \in s.ledger
    /\ s.job[u] = "failed" => (u \in s.ledger <=> u \in s.buyers)
    /\ s.row[u] = "persisted" => u \in s.buyers
    /\ s.row[u] = "compensated" => u \notin s.buyers /\ u \notin s.ledger

\* Every reservation is accounted for, and so is the stock.
Consistent(s) ==
    /\ \A u \in Users : JobConsistent(s, u)
    /\ s.stock = Stock - Cardinality(s.buyers)

\* The snapshot x was read before the system reached s: rows written since are
\* unknown to it, and stock and buyers differ only by a unit returned since,
\* whose compensated row is unknown to it, too.
RowsOlder(x, s) == \A u \in Users : x.rows[u] \in {"none", s.row[u]}
ReturnedSince(x, s) == \E u \in Users \ s.buyers : x.rows[u] = "none"
StockOlder(x, s) == s.stock = x.stock \/ ReturnedSince(x, s)
BuyersOlder(x, s) == s.buyers = x.buyers \/ ReturnedSince(x, s)

\* No order is persisted whose job still has to complete.
Clean(s) == \A u \in Users : s.job[u] = "active" => s.row[u] = "none"

\* The order counts of x are those of these rows.
CountsOf(x, rows) ==
    /\ x.persisted = Cardinality(With(rows, "persisted"))
    /\ x.compensated = Cardinality(With(rows, "compensated"))

\* There is a candidate; and the state it shows has been the system's, or its
\* rows are outdated, or will be before the queue is idle again.
HasCand == audit.cand # NoSnap
Witnessed == audit.seen \/ sys.row # audit.cand.rows \/ (~Idle(sys) /\ Clean(sys))

\* What has been read at a place of collectSnapshot.
AfterQueue == {"worker", "counts", "rows", "stock", "buyers", "ledger", "judge"}
AfterCounts == {"rows", "stock", "buyers", "ledger", "judge"}
AfterRows == {"stock", "buyers", "ledger", "judge"}
AfterStock == {"buyers", "ledger", "judge"}
AfterBuyers == {"ledger", "judge"}

\* The parts of the snapshot that have been read are older than the system.
SnapOlder ==
    /\ audit.pc \in AfterRows => RowsOlder(audit.snap, sys)
    /\ audit.pc \in AfterStock => StockOlder(audit.snap, sys)
    /\ audit.pc \in AfterBuyers => BuyersOlder(audit.snap, sys)

\* So is the whole candidate; if it shows the present state, that is noted.
CandOlder ==
    AuditRuns /\ HasCand =>
        /\ audit.cand.idle
        /\ RowsOlder(audit.cand, sys) /\ StockOlder(audit.cand, sys) /\ BuyersOlder(audit.cand, sys)
        /\ Actual(sys) = audit.cand => audit.seen

\* A snapshot beside a candidate: idle with the candidate's rows excludes an
\* order whose job is not complete, so the counts are the candidate's, and when
\* the two are equal the candidate is witnessed.
Second ==
    HasCand =>
        /\ audit.pc \in AfterQueue /\ audit.snap.idle /\ sys.row = audit.cand.rows => Clean(sys)
        /\ audit.pc \in AfterCounts /\ sys.row = audit.cand.rows =>
               CountsOf(audit.snap, audit.cand.rows)
        /\ audit.pc = "judge" /\ audit.snap = audit.cand => Witnessed

\* The final snapshot: it keeps the candidate, it starts from a witnessed one,
\* its idle queue and then its rows leave only that the candidate was seen.
Third ==
    /\ audit.final => HasCand /\ audit.pc # "sleep"
    /\ audit.final /\ audit.pc = "queue" => Witnessed
    /\ audit.final /\ audit.pc \in {"worker", "counts", "rows"} /\ audit.snap.idle =>
           audit.seen \/ sys.row # audit.cand.rows
    /\ audit.final /\ audit.pc \in AfterRows /\ audit.snap.idle =>
           audit.seen \/ audit.snap.rows # audit.cand.rows
    /\ audit.pc \in {"publish", "linked"} => audit.seen

\* audit.json appears with its link; exit code 0 stands for a proven pass; a
\* report that can be read shows a state that was seen.
FileInv ==
    /\ AuditRuns /\ audit.pc # "linked" => file.state = "none"
    /\ audit.pc = "exit0" => file.state = "proven" /\ file.pass
    /\ Readable => audit.seen

AuditInv == /\ AuditTypes
            /\ AuditRuns => Consistent(sys)
            /\ SnapOlder /\ CandOlder /\ Second /\ Third /\ FileInv

-----------------------------------------------------------------------------
(* The runner *)

RunRec == [step : Steps, scenario : 1..Scenarios, failures : BOOLEAN, green : BOOLEAN,
           failed : BOOLEAN, passed : 0..Scenarios, written : BOOLEAN,
           cleanup : {"no", "ok", "bad"}, harmed : BOOLEAN]
ChildRec == [Roles -> {"none", "running", "termed", "late", "killed"}]
RegistryRec == [mode : {"open", "draining", "terminal"}, active : BOOLEAN,
                targets : SUBSET NonCleanup, forced : BOOLEAN]
SamplerRec == [on : BOOLEAN, tick : {"none", "http", "stats", "failing"},
               code : {"null", "0", "1"}, failed : BOOLEAN, drain : BOOLEAN]

RunTypes ==
    /\ run \in RunRec /\ child \in ChildRec /\ registry \in RegistryRec
    /\ sampler \in SamplerRec /\ interrupted \in 0..2 /\ expected \in 0..Cardinality(Users)

\* A termination under way keeps the registry closed and knows its targets.
TermInv ==
    /\ registry.active => registry.mode # "open"
    /\ TerminationExact

\* The samplers may be on: the workload lives, or has just ended.
AtLoad == run.step = "stopping" \/ (run.step = "workload" /\ Alive("workload"))

\* Which children there can be, and how long samplers and their drain last.
QuietInv ==
    /\ \A r \in NonCleanup \ {"sampler"} :
           Alive(r) => run.step \in DOMAIN Awaited /\ Awaited[run.step] = r
    /\ Alive("sampler") => sampler.tick = "stats"
    /\ Alive("audit") <=> audit.pc # "off"
    /\ sampler.on \/ sampler.tick # "none" => AtLoad
    /\ sampler.drain => AtLoad \/ run.step = "drain"
    /\ registry.mode = "draining" => sampler.drain

\* The scenario's audit report is proven, and passes.
Proven == file.state = "proven" /\ file.pass

\* A signalled workload or audit that no recorded failure accounts for yet: the
\* interruption or the failed sampler that did it will be noticed.
HarmInv ==
    run.harmed /\ ~run.failed /\ ~run.failures =>
        \/ /\ interrupted > 0
           /\ \/ run.step \in {"stopping", "drain", "evidence", "summary", "audit"}
              \/ run.step = "workload" /\ Alive("workload")
              \/ run.step = "after" /\ ~Alive("observability")
        \/ /\ sampler.failed
           /\ \/ run.step \in {"stopping", "drain"}
              \/ run.step = "workload" /\ Alive("workload")

\* What a scenario has achieved so far, and what the results rest on.
DoneInv ==
    /\ HarmInv
    /\ run.step \in {"after", "ps", "inspect", "logs", "verdict"} /\ ~run.failures => Proven
    /\ run.step \notin {"write", "cleanup", "ended", "crashed"} =>
           /\ run.passed <= run.scenario - 1
           /\ ~run.failed => run.passed = run.scenario - 1
    /\ run.step = "write" /\ ~run.failed => run.passed = Scenarios /\ ~run.harmed /\ Proven
    /\ run.written => run.step \in {"cleanup", "ended"}
    /\ ResultsTrusted

IInv == RunTypes /\ AuditInv /\ TermInv /\ QuietInv /\ DoneInv

-----------------------------------------------------------------------------
(* Facts about types and counts *)

\* A count of rows is at most the number of users.
LEMMA Counted ==
    ASSUME NEW rows, NEW status
    PROVE  Cardinality(With(rows, status)) \in 0..Cardinality(Users)
<1>1. With(rows, status) \subseteq Users
    BY DEF With
<1>2. /\ IsFiniteSet(With(rows, status))
      /\ Cardinality(With(rows, status)) <= Cardinality(Users)
    BY <1>1, AuditAssumption, FS_Subset
<1>3. Cardinality(With(rows, status)) \in Nat /\ Cardinality(Users) \in Nat
    BY <1>2, AuditAssumption, FS_CardinalityType
<1> QED
    BY <1>2, <1>3

\* An empty snapshot is a snapshot, and not an idle one.
LEMMA NoSnapType == NoSnap \in Snaps /\ NoSnap.idle = FALSE
<1>1. Cardinality(Users) \in Nat /\ Stock \in Nat /\ MaxLosses \in Nat
    BY AuditAssumption, FS_CardinalityType
<1> QED
    BY <1>1 DEF NoSnap, Snaps, Rows

\* An audit that has not begun has no candidate.
LEMMA AuditOffType ==
    /\ AuditOff \in AuditRec
    /\ AuditOff.pc = "off" /\ AuditOff.cand = NoSnap /\ AuditOff.final = FALSE
    /\ AuditOff.seen = FALSE
BY NoSnapType DEF AuditOff, AuditRec, AuditPcs

\* The stock that is left when these users hold a unit.
LEMMA BuyersBound ==
    ASSUME NEW b \in SUBSET Users
    PROVE  /\ Stock - Cardinality(b) \in 0..(Stock + MaxLosses)
           /\ \A u \in b : /\ Stock - Cardinality(b \ {u}) = Stock - Cardinality(b) + 1
                           /\ Stock - Cardinality(b) + 1 \in 0..(Stock + MaxLosses)
<1>1. IsFiniteSet(b) /\ Cardinality(b) <= Cardinality(Users)
    BY AuditAssumption, FS_Subset
<1>2. Cardinality(b) \in Nat /\ Cardinality(Users) \in Nat
    BY <1>1, AuditAssumption, FS_CardinalityType
<1>3. \A u \in b : Cardinality(b \ {u}) = Cardinality(b) - 1 /\ Cardinality(b) # 0
    BY <1>1, FS_RemoveElement, FS_EmptySet
<1> QED
    BY <1>1, <1>2, <1>3, AuditAssumption

\* The system before its workload is a state of it.
LEMMA SysQuietType == SysQuiet \in SysRec
<1>1. Stock \in 0..(Stock + MaxLosses) /\ 0 \in 0..MaxLosses
    BY AuditAssumption
<1> QED
    BY <1>1 DEF SysQuiet, SysRec, Rows

-----------------------------------------------------------------------------
(* The steps of the audited system *)

\* What a step of the system does to its state.
SysMove(s) ==
    \E u \in Users :
        \/ sys.job[u] = "waiting" /\ s = [sys EXCEPT !.job[u] = "active"]
        \/ sys.job[u] = "lost" /\ s = [sys EXCEPT !.job[u] = "waiting"]
        \/ /\ sys.job[u] = "active" /\ sys.row[u] = "none" /\ u \in sys.ledger
           /\ s = [sys EXCEPT !.row[u] = "persisted"]
        \/ /\ sys.job[u] = "active"
           /\ s = [sys EXCEPT !.job[u] = IF sys.row[u] = "persisted" THEN "done" ELSE "failed"]
        \/ /\ sys.job[u] = "failed" /\ u \in sys.ledger /\ sys.row[u] = "none"
           /\ s = [sys EXCEPT !.ledger = @ \ {u}, !.buyers = @ \ {u}, !.stock = @ + 1]
        \/ /\ sys.job[u] = "failed" /\ u \notin sys.ledger
           /\ s = [sys EXCEPT !.row[u] = "compensated", !.job[u] = "done"]
        \/ /\ u \in sys.ledger /\ sys.losses < MaxLosses /\ sys.job[u] = "done"
           /\ s = [sys EXCEPT !.ledger = @ \ {u}, !.losses = @ + 1]
        \/ /\ sys.row[u] = "persisted" /\ u \notin sys.ledger
           /\ s = [sys EXCEPT !.ledger = @ \cup {u}, !.buyers = @ \cup {u}]

\* The actions of the system are its moves.
LEMMA SystemNextMoves ==
    ASSUME SystemNext
    PROVE  AuditRuns /\ SysMove(sys') /\ SysStep(sys')
<1>1. PICK u \in Users :
        \/ JobStarts(u) \/ JobRecovered(u) \/ OrderPersists(u) \/ JobEnds(u)
        \/ UnitReturned(u) \/ RowCompensated(u) \/ FieldLost(u) \/ FieldRestored(u)
    BY DEF SystemNext
<1>2. CASE JobStarts(u) \/ JobRecovered(u)
    BY <1>2 DEF JobStarts, JobRecovered, SysStep, SysMove
<1>3. CASE OrderPersists(u) \/ JobEnds(u)
    BY <1>3 DEF OrderPersists, JobEnds, SysStep, SysMove
<1>4. CASE UnitReturned(u) \/ RowCompensated(u)
    BY <1>4 DEF UnitReturned, RowCompensated, SysStep, SysMove
<1>5. CASE FieldLost(u) \/ FieldRestored(u)
    BY <1>5 DEF FieldLost, FieldRestored, SysStep, SysMove
<1> QED
    BY <1>1, <1>2, <1>3, <1>4, <1>5

\* One step of the audited system keeps it consistent; a row that is written
\* stays; a unit that is returned leaves a buyer whose row is not written yet;
\* and while no row is written, a job that is under way stays under way.
LEMMA MoveFacts ==
    ASSUME sys \in SysRec, Consistent(sys), NEW s, SysMove(s)
    PROVE  /\ s \in SysRec /\ Consistent(s)
           /\ \A u \in Users : sys.row[u] \in {"none", s.row[u]}
           /\ s.buyers \subseteq sys.buyers
           /\ \/ s.stock = sys.stock /\ s.buyers = sys.buyers
              \/ \E u \in Users \ s.buyers : sys.row[u] = "none"
           /\ s.row = sys.row /\ Clean(sys) => Clean(s) /\ (~Idle(sys) => ~Idle(s))
<1> DEFINE Goal(x) ==
           /\ x \in SysRec /\ Consistent(x)
           /\ \A u \in Users : sys.row[u] \in {"none", x.row[u]}
           /\ x.buyers \subseteq sys.buyers
           /\ \/ x.stock = sys.stock /\ x.buyers = sys.buyers
              \/ \E u \in Users \ x.buyers : sys.row[u] = "none"
           /\ x.row = sys.row /\ Clean(sys) => Clean(x) /\ (~Idle(sys) => ~Idle(x))
<1>1. PICK u \in Users :
        \/ sys.job[u] = "waiting" /\ s = [sys EXCEPT !.job[u] = "active"]
        \/ sys.job[u] = "lost" /\ s = [sys EXCEPT !.job[u] = "waiting"]
        \/ /\ sys.job[u] = "active" /\ sys.row[u] = "none" /\ u \in sys.ledger
           /\ s = [sys EXCEPT !.row[u] = "persisted"]
        \/ /\ sys.job[u] = "active"
           /\ s = [sys EXCEPT !.job[u] = IF sys.row[u] = "persisted" THEN "done" ELSE "failed"]
        \/ /\ sys.job[u] = "failed" /\ u \in sys.ledger /\ sys.row[u] = "none"
           /\ s = [sys EXCEPT !.ledger = @ \ {u}, !.buyers = @ \ {u}, !.stock = @ + 1]
        \/ /\ sys.job[u] = "failed" /\ u \notin sys.ledger
           /\ s = [sys EXCEPT !.row[u] = "compensated", !.job[u] = "done"]
        \/ /\ u \in sys.ledger /\ sys.losses < MaxLosses /\ sys.job[u] = "done"
           /\ s = [sys EXCEPT !.ledger = @ \ {u}, !.losses = @ + 1]
        \/ /\ sys.row[u] = "persisted" /\ u \notin sys.ledger
           /\ s = [sys EXCEPT !.ledger = @ \cup {u}, !.buyers = @ \cup {u}]
    BY DEF SysMove
<1>2. /\ \A v \in Users : JobConsistent(sys, v)
      /\ sys.stock = Stock - Cardinality(sys.buyers)
    BY DEF Consistent
<1>3. ASSUME sys.job[u] \in {"waiting", "lost"},
             s = [sys EXCEPT !.job[u] = IF sys.job[u] = "waiting" THEN "active" ELSE "waiting"]
      PROVE  Goal(s)
  <2>1. s \in SysRec
    BY <1>3 DEF SysRec
  <2>2. /\ s.row = sys.row /\ s.buyers = sys.buyers /\ s.ledger = sys.ledger
        /\ s.stock = sys.stock
        /\ s.job[u] \in {"waiting", "active"}
        /\ \A v \in Users \ {u} : s.job[v] = sys.job[v]
    BY <1>3 DEF SysRec
  <2>3. \A v \in Users : JobConsistent(s, v)
    BY <1>2, <1>3, <2>2 DEF JobConsistent
  <2>4. Clean(sys) => Clean(s) /\ ~Idle(s)
    BY <1>2, <1>3, <2>2 DEF JobConsistent, Clean, Idle
  <2> QED
    BY <1>2, <2>1, <2>2, <2>3, <2>4 DEF Consistent
<1>4. ASSUME sys.job[u] = "active", sys.row[u] = "none", u \in sys.ledger,
             s = [sys EXCEPT !.row[u] = "persisted"]
      PROVE  Goal(s)
  <2>1. s \in SysRec
    BY <1>4 DEF SysRec, Rows
  <2>2. /\ s.job = sys.job /\ s.buyers = sys.buyers /\ s.ledger = sys.ledger
        /\ s.stock = sys.stock
        /\ s.row[u] = "persisted"
        /\ \A v \in Users \ {u} : s.row[v] = sys.row[v]
    BY <1>4 DEF SysRec
  <2>3. \A v \in Users : JobConsistent(s, v)
    BY <1>2, <1>4, <2>2 DEF JobConsistent
  <2>4. s.row # sys.row
    BY <1>4, <2>2
  <2> QED
    BY <1>2, <1>4, <2>1, <2>2, <2>3, <2>4 DEF Consistent
<1>5. ASSUME sys.job[u] = "active",
             s = [sys EXCEPT !.job[u] = IF sys.row[u] = "persisted" THEN "done" ELSE "failed"]
      PROVE  Goal(s)
  <2>1. s \in SysRec
    BY <1>5 DEF SysRec
  <2>2. /\ s.row = sys.row /\ s.buyers = sys.buyers /\ s.ledger = sys.ledger
        /\ s.stock = sys.stock
        /\ s.job[u] = IF sys.row[u] = "persisted" THEN "done" ELSE "failed"
        /\ \A v \in Users \ {u} : s.job[v] = sys.job[v]
    BY <1>5 DEF SysRec
  <2>3. \A v \in Users : JobConsistent(s, v)
    BY <1>2, <1>5, <2>2 DEF JobConsistent
  <2>4. Clean(sys) => Clean(s) /\ ~Idle(s)
    BY <1>2, <1>5, <2>2 DEF JobConsistent, Clean, Idle
  <2> QED
    BY <1>2, <2>1, <2>2, <2>3, <2>4 DEF Consistent
<1>6. ASSUME sys.job[u] = "failed", u \in sys.ledger, sys.row[u] = "none",
             s = [sys EXCEPT !.ledger = @ \ {u}, !.buyers = @ \ {u}, !.stock = @ + 1]
      PROVE  Goal(s)
  <2>1. /\ s.job = sys.job /\ s.row = sys.row /\ s.losses = sys.losses
        /\ s.buyers = sys.buyers \ {u} /\ s.ledger = sys.ledger \ {u}
        /\ s.stock = sys.stock + 1
    BY <1>6 DEF SysRec
  <2>2. sys.buyers \in SUBSET Users
    BY DEF SysRec
  <2>3. s.stock = Stock - Cardinality(s.buyers) /\ s.stock \in 0..(Stock + MaxLosses)
    <3>1. CASE u \in sys.buyers
        BY <1>2, <2>1, <2>2, <3>1, BuyersBound
    <3>2. CASE u \notin sys.buyers
        BY <1>2, <1>6, <3>2 DEF JobConsistent
    <3> QED
        BY <3>1, <3>2
  <2>4. s \in SysRec
    BY <1>6, <2>1, <2>3 DEF SysRec
  <2>5. \A v \in Users : JobConsistent(s, v)
    BY <1>2, <1>6, <2>1 DEF JobConsistent
  <2>6. Clean(sys) => Clean(s) /\ ~Idle(s)
    BY <1>6, <2>1 DEF Clean, Idle
  <2> QED
    BY <1>6, <2>1, <2>3, <2>4, <2>5, <2>6 DEF Consistent
<1>7. ASSUME sys.job[u] = "failed", u \notin sys.ledger,
             s = [sys EXCEPT !.row[u] = "compensated", !.job[u] = "done"]
      PROVE  Goal(s)
  <2>1. s \in SysRec
    BY <1>7 DEF SysRec, Rows
  <2>2. /\ s.buyers = sys.buyers /\ s.ledger = sys.ledger /\ s.stock = sys.stock
        /\ s.row[u] = "compensated" /\ s.job[u] = "done"
        /\ \A v \in Users \ {u} : s.row[v] = sys.row[v] /\ s.job[v] = sys.job[v]
    BY <1>7 DEF SysRec
  <2>3. \A v \in Users : JobConsistent(s, v)
    BY <1>2, <1>7, <2>2 DEF JobConsistent
  <2>4. sys.row[u] = "none" /\ s.row # sys.row
    BY <1>2, <1>7, <2>2 DEF JobConsistent
  <2> QED
    BY <1>2, <2>1, <2>2, <2>3, <2>4 DEF Consistent
<1>8. ASSUME u \in sys.ledger, sys.losses < MaxLosses, sys.job[u] = "done",
             s = [sys EXCEPT !.ledger = @ \ {u}, !.losses = @ + 1]
      PROVE  Goal(s)
  <2>1. /\ s.job = sys.job /\ s.row = sys.row /\ s.stock = sys.stock
        /\ s.buyers = sys.buyers /\ s.ledger = sys.ledger \ {u}
    BY <1>8 DEF SysRec
  <2>2. sys.losses + 1 \in 0..MaxLosses
    BY <1>8, AuditAssumption DEF SysRec
  <2>3. s \in SysRec
    BY <1>8, <2>2 DEF SysRec
  <2>4. \A v \in Users : JobConsistent(s, v)
    BY <1>2, <1>8, <2>1 DEF JobConsistent
  <2>5. (Clean(sys) => Clean(s)) /\ (~Idle(sys) => ~Idle(s))
    BY <2>1 DEF Clean, Idle
  <2> QED
    BY <1>2, <2>1, <2>3, <2>4, <2>5 DEF Consistent
<1>9. ASSUME sys.row[u] = "persisted", u \notin sys.ledger,
             s = [sys EXCEPT !.ledger = @ \cup {u}, !.buyers = @ \cup {u}]
      PROVE  Goal(s)
  <2>1. u \in sys.buyers
    BY <1>2, <1>9 DEF JobConsistent
  <2>2. /\ s.job = sys.job /\ s.row = sys.row /\ s.stock = sys.stock
        /\ s.buyers = sys.buyers /\ s.ledger = sys.ledger \cup {u}
    BY <1>9, <2>1 DEF SysRec
  <2>3. s \in SysRec
    BY <1>9 DEF SysRec
  <2>4. \A v \in Users : JobConsistent(s, v)
    BY <1>2, <1>9, <2>2 DEF JobConsistent
  <2>5. (Clean(sys) => Clean(s)) /\ (~Idle(sys) => ~Idle(s))
    BY <2>2 DEF Clean, Idle
  <2> QED
    BY <1>2, <2>2, <2>3, <2>4, <2>5 DEF Consistent
<1> HIDE DEF Goal
<1>10. Goal(s)
    BY <1>1, <1>3, <1>4, <1>5, <1>6, <1>7, <1>8, <1>9
<1> QED
    BY <1>10 DEF Goal

\* What a snapshot has read stays older than the system.
LEMMA OlderStays ==
    ASSUME sys \in SysRec, Consistent(sys), NEW s, SysMove(s), NEW x,
           RowsOlder(x, sys)
    PROVE  /\ RowsOlder(x, s)
           /\ StockOlder(x, sys) => StockOlder(x, s)
           /\ BuyersOlder(x, sys) => BuyersOlder(x, s)
           /\ s.row = x.rows => sys.row = x.rows
<1>1. /\ s \in SysRec
      /\ \A u \in Users : sys.row[u] \in {"none", s.row[u]}
      /\ s.buyers \subseteq sys.buyers
      /\ \/ s.stock = sys.stock /\ s.buyers = sys.buyers
         \/ \E u \in Users \ s.buyers : sys.row[u] = "none"
    BY MoveFacts
<1>2. RowsOlder(x, s)
    BY <1>1 DEF RowsOlder
<1>3. s.row = x.rows => sys.row = x.rows
  <2> SUFFICES ASSUME s.row = x.rows PROVE sys.row = x.rows
    OBVIOUS
  <2>1. \A u \in Users : sys.row[u] = x.rows[u]
    BY <1>1 DEF RowsOlder
  <2> QED
    BY <1>1, <2>1 DEF SysRec
<1>4. ReturnedSince(x, sys) => ReturnedSince(x, s)
    BY <1>1 DEF ReturnedSince
<1>5. (\E u \in Users \ s.buyers : sys.row[u] = "none") => ReturnedSince(x, s)
    BY DEF ReturnedSince, RowsOlder
<1> QED
    BY <1>1, <1>2, <1>3, <1>4, <1>5 DEF StockOlder, BuyersOlder

\* An idle system that shows the rows of a snapshot shows its stock and its
\* buyers, too: a unit that was returned in between has written a row since.
LEMMA OlderIdle ==
    ASSUME sys \in SysRec, Consistent(sys), Idle(sys), NEW x \in Snaps,
           sys.row = x.rows, StockOlder(x, sys), BuyersOlder(x, sys)
    PROVE  sys.stock = x.stock /\ sys.buyers = x.buyers
<1>1. ~ReturnedSince(x, sys)
  <2> SUFFICES ASSUME NEW u \in Users \ sys.buyers, sys.row[u] = "none" PROVE FALSE
    BY DEF ReturnedSince
  <2>1. JobConsistent(sys, u)
    BY DEF Consistent
  <2>2. sys.job[u] \in {"lost", "waiting", "active", "failed", "done"}
    BY DEF SysRec
  <2> QED
    BY <2>1, <2>2 DEF JobConsistent, Idle
<1> QED
    BY <1>1 DEF StockOlder, BuyersOlder

-----------------------------------------------------------------------------
(* The steps of the audit *)

\* A move notes whether it reaches the state of the candidate.
LEMMA SysStepFacts ==
    ASSUME audit \in AuditRec, NEW s, SysStep(s)
    PROVE  /\ audit' \in AuditRec /\ sys' = s /\ file' = file
           /\ audit'.pc = audit.pc /\ audit'.final = audit.final /\ audit'.snap = audit.snap
           /\ audit'.cand = audit.cand
           /\ audit'.seen = (audit.seen \/ (HasCand /\ Actual(s) = audit.cand))
<1>1. (audit.seen \/ (audit.cand # NoSnap /\ Actual(s) = audit.cand)) \in BOOLEAN
    BY DEF AuditRec
<1> QED
    BY <1>1 DEF SysStep, AuditRec, HasCand

\* The worker, the reconciler and the losses.
LEMMA SystemStep ==
    ASSUME AuditInv, SystemNext
    PROVE  AuditInv'
<1>1. AuditRuns /\ SysMove(sys') /\ SysStep(sys')
    BY SystemNextMoves
<1>2. sys \in SysRec /\ audit \in AuditRec /\ file \in FileRec /\ Consistent(sys)
    BY <1>1 DEF AuditInv, AuditTypes
<1>3. /\ audit' \in AuditRec /\ file' = file
      /\ audit'.pc = audit.pc /\ audit'.final = audit.final /\ audit'.snap = audit.snap
      /\ audit'.cand = audit.cand
      /\ audit'.seen = (audit.seen \/ (HasCand /\ Actual(sys') = audit.cand))
    BY <1>1, <1>2, SysStepFacts
<1>4. /\ sys' \in SysRec /\ Consistent(sys')
      /\ sys'.row = sys.row /\ Clean(sys) => Clean(sys') /\ (~Idle(sys) => ~Idle(sys'))
    BY <1>1, <1>2, MoveFacts
<1>5. Consistent(sys)' /\ (HasCand <=> HasCand') /\ AuditRuns'
      /\ (audit.seen => audit'.seen)
    BY <1>1, <1>3, <1>4 DEF Consistent, JobConsistent, HasCand, AuditRuns
<1>6. SnapOlder'
    BY <1>1, <1>2, <1>3, OlderStays
       DEF AuditInv, SnapOlder, AfterRows, AfterStock, AfterBuyers
<1>7. CandOlder'
    BY <1>1, <1>2, <1>3, <1>5, OlderStays DEF AuditInv, CandOlder
<1>8. HasCand => (sys'.row = audit.cand.rows => sys'.row = sys.row /\ sys.row = audit.cand.rows)
    BY <1>1, <1>2, OlderStays DEF AuditInv, CandOlder
<1>9. HasCand /\ Witnessed => Witnessed'
    BY <1>3, <1>4, <1>5, <1>8 DEF Witnessed
<1>10. Second'
    BY <1>3, <1>4, <1>5, <1>8, <1>9 DEF AuditInv, Second
<1>11. Third'
    BY <1>3, <1>5, <1>8, <1>9 DEF AuditInv, Third
<1>12. FileInv'
    BY <1>1, <1>3, <1>5 DEF AuditInv, FileInv, AuditRuns, Readable
<1> QED
    BY <1>2, <1>3, <1>4, <1>5, <1>6, <1>7, <1>10, <1>11, <1>12 DEF AuditInv, AuditTypes

\* A read fills in the snapshot and goes on.
LEMMA ReadFacts ==
    ASSUME audit \in AuditRec, NEW pc, NEW x \in Snaps, NEW next \in AuditPcs, Read(pc, x, next)
    PROVE  /\ audit' \in AuditRec /\ sys' = sys /\ file' = file /\ audit.pc = pc
           /\ audit'.pc = next /\ audit'.snap = x
           /\ audit'.final = audit.final /\ audit'.cand = audit.cand /\ audit'.seen = audit.seen
BY DEF Read, AuditRec

\* A read changes nothing that the candidate is compared with.
LEMMA ReadFrame ==
    ASSUME AuditInv, NEW pc \in AfterQueue \cup {"queue"}, NEW x \in Snaps,
           NEW next \in AfterQueue, Read(pc, x, next)
    PROVE  /\ AuditTypes' /\ AuditRuns /\ (AuditRuns => Consistent(sys))' /\ CandOlder' /\ FileInv'
           /\ HasCand' = HasCand /\ (Witnessed <=> Witnessed')
<1>1. audit \in AuditRec /\ next \in AuditPcs
    BY DEF AuditInv, AuditTypes, AfterQueue, AuditPcs
<1>2. /\ audit' \in AuditRec /\ sys' = sys /\ file' = file /\ audit.pc = pc
      /\ audit'.pc = next /\ audit'.snap = x
      /\ audit'.final = audit.final /\ audit'.cand = audit.cand /\ audit'.seen = audit.seen
    BY <1>1, ReadFacts
<1>3. AuditRuns /\ AuditRuns' /\ audit.pc # "linked" /\ audit'.pc # "exit0"
    BY <1>2 DEF AuditRuns, AfterQueue
<1>4. AuditTypes'
    BY <1>2 DEF AuditInv, AuditTypes
<1>5. Consistent(sys)'
    BY <1>2, <1>3 DEF AuditInv, Consistent, JobConsistent
<1>6. HasCand' = HasCand
    BY <1>2 DEF HasCand
<1>7. CandOlder'
    BY <1>2, <1>3, <1>6 DEF AuditInv, CandOlder, RowsOlder, StockOlder, BuyersOlder, ReturnedSince, Actual, With
<1>8. FileInv'
    BY <1>2, <1>3 DEF AuditInv, FileInv, Readable
<1>9. Witnessed <=> Witnessed'
    BY <1>2 DEF Witnessed, Idle, Clean
<1> QED
    BY <1>3, <1>4, <1>5, <1>6, <1>7, <1>8, <1>9

\* The queue: idle at this instant, so no persisted order is incomplete.
LEMMA QueueRead ==
    ASSUME AuditInv, ReadQueue
    PROVE  AuditInv'
<1>1. PICK x : x = [NoSnap EXCEPT !.idle = \A u \in Users : sys.job[u] \notin {"waiting", "active", "failed"}]
    OBVIOUS
<1>2. x \in Snaps /\ x.idle = Idle(sys)
    BY <1>1, NoSnapType DEF Snaps, Idle
<1>3. Read("queue", x, "worker")
    BY <1>1 DEF ReadQueue
<1> HIDE <1>1
<1>4. /\ sys' = sys /\ audit.pc = "queue" /\ audit'.pc = "worker" /\ audit'.snap = x
      /\ audit'.final = audit.final /\ audit'.cand = audit.cand /\ audit'.seen = audit.seen
    BY <1>2, <1>3, ReadFacts DEF AuditInv, AuditTypes, AuditPcs
<1>5. /\ AuditTypes' /\ (AuditRuns => Consistent(sys))' /\ CandOlder' /\ FileInv'
      /\ HasCand' = HasCand /\ (Witnessed <=> Witnessed')
    BY <1>2, <1>3, ReadFrame DEF AfterQueue
<1>6. SnapOlder'
    BY <1>4 DEF SnapOlder, AfterRows, AfterStock, AfterBuyers
<1>7. x.idle => Clean(sys')
    BY <1>2, <1>4 DEF Clean, Idle
<1>8. Second'
    BY <1>4, <1>7 DEF Second, AfterCounts
<1>9. Third'
    BY <1>2, <1>4, <1>5 DEF AuditInv, Third, AfterRows, Witnessed
<1> QED
    BY <1>5, <1>6, <1>8, <1>9 DEF AuditInv

\* The worker: whatever it says only weakens that the snapshot is idle.
LEMMA WorkerRead ==
    ASSUME AuditInv, NEW ready \in BOOLEAN, ReadWorker(ready)
    PROVE  AuditInv'
<1>1. PICK x : x = [audit.snap EXCEPT !.idle = /\ @ /\ ready
                                               /\ \A u \in Users : sys.job[u] \notin {"active", "failed"}]
    OBVIOUS
<1>2. x \in Snaps /\ (x.idle => audit.snap.idle)
    BY <1>1 DEF Snaps, AuditInv, AuditTypes, AuditRec
<1>3. Read("worker", x, "counts")
    BY <1>1 DEF ReadWorker
<1> HIDE <1>1
<1>4. /\ sys' = sys /\ audit.pc = "worker" /\ audit'.pc = "counts" /\ audit'.snap = x
      /\ audit'.final = audit.final /\ audit'.cand = audit.cand /\ audit'.seen = audit.seen
    BY <1>2, <1>3, ReadFacts DEF AuditInv, AuditTypes, AuditPcs
<1>5. /\ AuditTypes' /\ (AuditRuns => Consistent(sys))' /\ CandOlder' /\ FileInv'
      /\ HasCand' = HasCand /\ (Witnessed <=> Witnessed')
    BY <1>2, <1>3, ReadFrame DEF AfterQueue
<1>6. SnapOlder'
    BY <1>4 DEF SnapOlder, AfterRows, AfterStock, AfterBuyers
<1>7. Second'
    BY <1>2, <1>4, <1>5 DEF AuditInv, Second, AfterQueue, AfterCounts
<1>8. Third'
    BY <1>2, <1>4, <1>5 DEF AuditInv, Third, AfterRows
<1> QED
    BY <1>5, <1>6, <1>7, <1>8 DEF AuditInv

\* The counts: those of the candidate, if the rows are still its rows.
LEMMA CountsRead ==
    ASSUME AuditInv, ReadCounts
    PROVE  AuditInv'
<1>1. PICK x : x = [audit.snap EXCEPT !.persisted = Cardinality(With(sys.row, "persisted")),
                                      !.compensated = Cardinality(With(sys.row, "compensated"))]
    OBVIOUS
<1>2. x \in Snaps /\ x.idle = audit.snap.idle /\ CountsOf(x, sys.row)
    BY <1>1, Counted DEF Snaps, AuditInv, AuditTypes, AuditRec, CountsOf
<1>3. Read("counts", x, "rows")
    BY <1>1 DEF ReadCounts
<1> HIDE <1>1
<1>4. /\ sys' = sys /\ audit.pc = "counts" /\ audit'.pc = "rows" /\ audit'.snap = x
      /\ audit'.final = audit.final /\ audit'.cand = audit.cand /\ audit'.seen = audit.seen
    BY <1>2, <1>3, ReadFacts DEF AuditInv, AuditTypes, AuditPcs
<1>5. /\ AuditTypes' /\ (AuditRuns => Consistent(sys))' /\ CandOlder' /\ FileInv'
      /\ HasCand' = HasCand /\ (Witnessed <=> Witnessed')
    BY <1>2, <1>3, ReadFrame DEF AfterQueue
<1>6. SnapOlder'
    BY <1>4 DEF SnapOlder, AfterRows, AfterStock, AfterBuyers
<1>7. Second'
    BY <1>2, <1>4, <1>5 DEF AuditInv, Second, AfterQueue, AfterCounts
<1>8. Third'
    BY <1>2, <1>4, <1>5 DEF AuditInv, Third, AfterRows
<1> QED
    BY <1>5, <1>6, <1>7, <1>8 DEF AuditInv

\* The rows: the final snapshot's are not the candidate's unless it was seen.
LEMMA RowsRead ==
    ASSUME AuditInv, ReadRows
    PROVE  AuditInv'
<1>1. PICK x : x = [audit.snap EXCEPT !.rows = sys.row]
    OBVIOUS
<1>2. /\ x \in Snaps /\ x.idle = audit.snap.idle /\ x.rows = sys.row
      /\ x.persisted = audit.snap.persisted /\ x.compensated = audit.snap.compensated
    BY <1>1 DEF Snaps, AuditInv, AuditTypes, AuditRec, SysRec
<1>3. Read("rows", x, "stock")
    BY <1>1 DEF ReadRows
<1> HIDE <1>1
<1>4. /\ sys' = sys /\ audit.pc = "rows" /\ audit'.pc = "stock" /\ audit'.snap = x
      /\ audit'.final = audit.final /\ audit'.cand = audit.cand /\ audit'.seen = audit.seen
    BY <1>2, <1>3, ReadFacts DEF AuditInv, AuditTypes, AuditPcs
<1>5. /\ AuditTypes' /\ (AuditRuns => Consistent(sys))' /\ CandOlder' /\ FileInv'
      /\ HasCand' = HasCand /\ (Witnessed <=> Witnessed')
    BY <1>2, <1>3, ReadFrame DEF AfterQueue
<1>6. SnapOlder'
    BY <1>2, <1>4 DEF SnapOlder, AfterRows, AfterStock, AfterBuyers, RowsOlder
<1>7. Second'
    BY <1>2, <1>4, <1>5 DEF AuditInv, Second, AfterQueue, AfterCounts, CountsOf
<1>8. Third'
    BY <1>2, <1>4, <1>5 DEF AuditInv, Third, AfterRows
<1> QED
    BY <1>5, <1>6, <1>7, <1>8 DEF AuditInv

\* The stock, which later moves may only raise.
LEMMA StockRead ==
    ASSUME AuditInv, ReadStock
    PROVE  AuditInv'
<1>1. PICK x : x = [audit.snap EXCEPT !.stock = sys.stock]
    OBVIOUS
<1>2. /\ x \in Snaps /\ x.idle = audit.snap.idle /\ x.rows = audit.snap.rows
      /\ x.persisted = audit.snap.persisted /\ x.compensated = audit.snap.compensated
      /\ x.stock = sys.stock
    BY <1>1 DEF Snaps, AuditInv, AuditTypes, AuditRec, SysRec
<1>3. Read("stock", x, "buyers")
    BY <1>1 DEF ReadStock
<1> HIDE <1>1
<1>4. /\ sys' = sys /\ audit.pc = "stock" /\ audit'.pc = "buyers" /\ audit'.snap = x
      /\ audit'.final = audit.final /\ audit'.cand = audit.cand /\ audit'.seen = audit.seen
    BY <1>2, <1>3, ReadFacts DEF AuditInv, AuditTypes, AuditPcs
<1>5. /\ AuditTypes' /\ (AuditRuns => Consistent(sys))' /\ CandOlder' /\ FileInv'
      /\ HasCand' = HasCand /\ (Witnessed <=> Witnessed')
    BY <1>2, <1>3, ReadFrame DEF AfterQueue
<1>6. SnapOlder'
    BY <1>2, <1>4 DEF AuditInv, SnapOlder, AfterRows, AfterStock, AfterBuyers, RowsOlder, StockOlder
<1>7. Second'
    BY <1>2, <1>4, <1>5 DEF AuditInv, Second, AfterQueue, AfterCounts, CountsOf
<1>8. Third'
    BY <1>2, <1>4, <1>5 DEF AuditInv, Third, AfterRows
<1> QED
    BY <1>5, <1>6, <1>7, <1>8 DEF AuditInv

\* The buyers, whom later moves may only remove.
LEMMA BuyersRead ==
    ASSUME AuditInv, ReadBuyers
    PROVE  AuditInv'
<1>1. PICK x : x = [audit.snap EXCEPT !.buyers = sys.buyers]
    OBVIOUS
<1>2. /\ x \in Snaps /\ x.idle = audit.snap.idle /\ x.rows = audit.snap.rows
      /\ x.persisted = audit.snap.persisted /\ x.compensated = audit.snap.compensated
      /\ x.stock = audit.snap.stock /\ x.buyers = sys.buyers
    BY <1>1 DEF Snaps, AuditInv, AuditTypes, AuditRec, SysRec
<1>3. Read("buyers", x, "ledger")
    BY <1>1 DEF ReadBuyers
<1> HIDE <1>1
<1>4. /\ sys' = sys /\ audit.pc = "buyers" /\ audit'.pc = "ledger" /\ audit'.snap = x
      /\ audit'.final = audit.final /\ audit'.cand = audit.cand /\ audit'.seen = audit.seen
    BY <1>2, <1>3, ReadFacts DEF AuditInv, AuditTypes, AuditPcs
<1>5. /\ AuditTypes' /\ (AuditRuns => Consistent(sys))' /\ CandOlder' /\ FileInv'
      /\ HasCand' = HasCand /\ (Witnessed <=> Witnessed')
    BY <1>2, <1>3, ReadFrame DEF AfterQueue
<1>6. SnapOlder'
    BY <1>2, <1>4 DEF AuditInv, SnapOlder, AfterRows, AfterStock, AfterBuyers, RowsOlder, StockOlder,
                      BuyersOlder, ReturnedSince
<1>7. Second'
    BY <1>2, <1>4, <1>5 DEF AuditInv, Second, AfterQueue, AfterCounts, CountsOf
<1>8. Third'
    BY <1>2, <1>4, <1>5 DEF AuditInv, Third, AfterRows
<1> QED
    BY <1>5, <1>6, <1>7, <1>8 DEF AuditInv

\* The last read: a second snapshot that equals the candidate shows the system
\* as it is, unless a row was written or a job that must still write one is
\* under way.
LEMMA LedgerRead ==
    ASSUME AuditInv, ReadLedger
    PROVE  AuditInv'
<1>1. PICK x : x = [audit.snap EXCEPT !.ledger = sys.ledger]
    OBVIOUS
<1>2. /\ x \in Snaps /\ x.idle = audit.snap.idle /\ x.rows = audit.snap.rows
      /\ x.persisted = audit.snap.persisted /\ x.compensated = audit.snap.compensated
      /\ x.stock = audit.snap.stock /\ x.buyers = audit.snap.buyers /\ x.ledger = sys.ledger
    BY <1>1 DEF Snaps, AuditInv, AuditTypes, AuditRec, SysRec
<1>3. Read("ledger", x, "judge")
    BY <1>1 DEF ReadLedger
<1> HIDE <1>1
<1>4. /\ sys' = sys /\ audit.pc = "ledger" /\ audit'.pc = "judge" /\ audit'.snap = x
      /\ audit'.final = audit.final /\ audit'.cand = audit.cand /\ audit'.seen = audit.seen
    BY <1>2, <1>3, ReadFacts DEF AuditInv, AuditTypes, AuditPcs
<1>5. /\ AuditTypes' /\ AuditRuns /\ (AuditRuns => Consistent(sys))' /\ CandOlder' /\ FileInv'
      /\ HasCand' = HasCand /\ (Witnessed <=> Witnessed')
    BY <1>2, <1>3, ReadFrame DEF AfterQueue
<1>6. SnapOlder'
    BY <1>2, <1>4 DEF AuditInv, SnapOlder, AfterRows, AfterStock, AfterBuyers, RowsOlder, StockOlder,
                      BuyersOlder, ReturnedSince
<1>7. ASSUME HasCand, x = audit.cand
      PROVE  Witnessed
  <2>1. /\ sys \in SysRec /\ Consistent(sys) /\ audit.cand \in Snaps /\ audit.cand.idle
        /\ StockOlder(audit.cand, sys) /\ BuyersOlder(audit.cand, sys)
        /\ Actual(sys) = audit.cand => audit.seen
    BY <1>5, <1>7 DEF AuditInv, AuditTypes, AuditRec, CandOlder
  <2> SUFFICES ASSUME sys.row = audit.cand.rows PROVE audit.seen \/ (~Idle(sys) /\ Clean(sys))
    BY DEF Witnessed
  <2>2. Clean(sys) /\ CountsOf(x, sys.row)
    BY <1>2, <1>4, <1>7, <2>1 DEF AuditInv, Second, AfterQueue, AfterCounts, CountsOf
  <2>3. CASE Idle(sys)
    <3>1. sys.stock = x.stock /\ sys.buyers = x.buyers
        BY <1>7, <2>1, <2>3, OlderIdle
    <3>2. x = [idle |-> x.idle, persisted |-> x.persisted, compensated |-> x.compensated,
               rows |-> x.rows, stock |-> x.stock, buyers |-> x.buyers, ledger |-> x.ledger]
        BY <1>2 DEF Snaps
    <3>3. Actual(sys) = [idle |-> TRUE, persisted |-> x.persisted, compensated |-> x.compensated,
               rows |-> x.rows, stock |-> x.stock, buyers |-> x.buyers, ledger |-> x.ledger]
        BY <1>2, <1>7, <2>2, <2>3, <3>1 DEF Actual, Idle, CountsOf
    <3>4. x.idle = TRUE
        BY <1>7, <2>1 DEF Snaps
    <3> QED
        BY <1>7, <2>1, <3>2, <3>3, <3>4
  <2> QED
    BY <2>2, <2>3
<1>8. Second'
    BY <1>2, <1>4, <1>5, <1>7 DEF AuditInv, Second, AfterQueue, AfterCounts, CountsOf
<1>9. Third'
    BY <1>2, <1>4, <1>5 DEF AuditInv, Third, AfterRows
<1> QED
    BY <1>5, <1>6, <1>8, <1>9 DEF AuditInv

\* The search starts over: nothing is known about a snapshot.
LEMMA ResetStep ==
    ASSUME AuditInv, AuditRuns, audit.pc # "linked", audit' = Reset(audit), UNCHANGED <<sys, file>>
    PROVE  AuditInv'
<1>1. /\ audit' \in AuditRec /\ audit'.pc = "sleep" /\ audit'.cand = NoSnap
      /\ audit'.final = FALSE
    BY NoSnapType DEF AuditInv, AuditTypes, AuditRec, AuditPcs, Reset
<1>2. ~HasCand' /\ AuditRuns'
    BY <1>1 DEF HasCand, AuditRuns
<1>3. file.state = "none"
    BY DEF AuditInv, FileInv
<1>4. Consistent(sys)'
    BY DEF AuditInv, Consistent, JobConsistent
<1>5. SnapOlder' /\ CandOlder' /\ Second' /\ Third'
    BY <1>1, <1>2 DEF SnapOlder, CandOlder, Second, Third, AfterRows, AfterStock, AfterBuyers
<1>6. FileInv'
    BY <1>1, <1>3 DEF FileInv, Readable
<1> QED
    BY <1>1, <1>4, <1>5, <1>6 DEF AuditInv, AuditTypes

\* The audit's process is about to exit, or has not begun.
LEMMA OffStep ==
    ASSUME AuditInv, sys' \in SysRec, file' \in FileRec, audit' \in AuditRec,
           audit'.pc \in {"off", "exit1"}, audit'.cand = NoSnap, audit'.final = FALSE,
           Readable' => audit'.seen
    PROVE  AuditInv'
<1>1. ~HasCand' /\ ~AuditRuns'
    BY DEF HasCand, AuditRuns
<1>2. SnapOlder' /\ CandOlder' /\ Second' /\ Third'
    BY <1>1 DEF SnapOlder, CandOlder, Second, Third, AfterRows, AfterStock, AfterBuyers
<1> QED
    BY <1>1, <1>2 DEF AuditInv, AuditTypes, FileInv

\* waitForConvergence: a new candidate, a confirmed one, or a new search.
LEMMA JudgeStep ==
    ASSUME AuditInv, Judge
    PROVE  AuditInv'
<1>1. /\ audit \in AuditRec /\ audit.pc = "judge" /\ AuditRuns /\ sys' = sys /\ file' = file
      /\ file.state = "none"
    BY DEF Judge, AuditInv, AuditTypes, FileInv, AuditRuns
<1>2. /\ audit.snap \in Snaps /\ audit.cand \in Snaps /\ audit.snap.idle \in BOOLEAN
      /\ audit.final \in BOOLEAN /\ audit.aged \in BOOLEAN
    BY <1>1 DEF AuditRec, Snaps
<1>3. Consistent(sys)'
    BY <1>1 DEF AuditInv, Consistent, JobConsistent
<1>4. /\ AuditTypes => sys \in SysRec /\ file \in FileRec
      /\ RowsOlder(audit.snap, sys) /\ StockOlder(audit.snap, sys) /\ BuyersOlder(audit.snap, sys)
    BY <1>1 DEF AuditInv, AuditTypes, SnapOlder, AfterRows, AfterStock, AfterBuyers
<1>5. ASSUME audit' = Reset(audit) PROVE AuditInv'
    BY <1>1, <1>5, ResetStep
<1>6. ASSUME audit.snap.idle, audit.final, SameFingerprint,
             audit' = [audit EXCEPT !.pc = "publish"]
      PROVE  AuditInv'
  <2>1. /\ audit' \in AuditRec /\ audit'.pc = "publish" /\ audit'.cand = audit.cand
        /\ audit'.final = audit.final /\ audit'.seen = audit.seen
    BY <1>1, <1>6 DEF AuditRec, AuditPcs
  <2>2. HasCand /\ HasCand' /\ AuditRuns' /\ audit.snap = audit.cand
    BY <1>6, <2>1 DEF HasCand, SameFingerprint, AuditRuns
  <2>3. audit.seen
    BY <1>1, <1>6, <2>2 DEF AuditInv, Third, AfterRows
  <2>4. SnapOlder' /\ Second' /\ Third'
    BY <2>1, <2>2, <2>3
       DEF SnapOlder, Second, Third, AfterQueue, AfterCounts, AfterRows, AfterStock, AfterBuyers
  <2>5. CandOlder'
    BY <1>1, <2>1, <2>2, <2>3
       DEF AuditInv, CandOlder, RowsOlder, StockOlder, BuyersOlder, ReturnedSince
  <2>6. FileInv'
    BY <1>1, <2>1 DEF FileInv, Readable
  <2> QED
    BY <1>1, <1>3, <1>4, <2>1, <2>4, <2>5, <2>6 DEF AuditInv, AuditTypes
<1>7. ASSUME audit.snap.idle, ~audit.final,
             audit' = [audit EXCEPT !.cand = audit.snap, !.aged = FALSE, !.snap = NoSnap,
                                    !.seen = (Actual(sys) = audit.snap), !.pc = "sleep"]
      PROVE  AuditInv'
  <2>1. PICK a : a = [audit EXCEPT !.cand = audit.snap, !.aged = FALSE, !.snap = NoSnap]
    OBVIOUS
  <2>2. /\ a \in AuditRec /\ a.cand = audit.snap /\ a.final = audit.final
    BY <1>1, <1>2, <2>1, NoSnapType DEF AuditRec
  <2>3. audit' = [a EXCEPT !.seen = (Actual(sys) = audit.snap), !.pc = "sleep"]
    BY <1>1, <1>7, <2>1 DEF AuditRec
  <2> HIDE <2>1
  <2>4. /\ audit' \in AuditRec /\ audit'.pc = "sleep" /\ audit'.cand = audit.snap
        /\ audit'.final = audit.final /\ audit'.seen = (Actual(sys) = audit.snap)
    BY <2>2, <2>3 DEF AuditRec, AuditPcs
  <2>5. SnapOlder' /\ Second' /\ Third'
    BY <1>7, <2>4
       DEF SnapOlder, Second, Third, AfterQueue, AfterCounts, AfterRows, AfterStock, AfterBuyers
  <2>6. Actual(sys)' = Actual(sys)
    BY <1>1 DEF Actual, With
  <2>7. CandOlder'
    BY <1>1, <1>4, <1>7, <2>4, <2>6
       DEF CandOlder, RowsOlder, StockOlder, BuyersOlder, ReturnedSince
  <2>8. FileInv'
    BY <1>1, <2>4 DEF FileInv, Readable
  <2> QED
    BY <1>1, <1>3, <1>4, <2>4, <2>5, <2>7, <2>8 DEF AuditInv, AuditTypes
<1>8. ASSUME audit.snap.idle, ~audit.final, SameFingerprint,
             audit' = [audit EXCEPT !.final = audit.aged, !.snap = NoSnap,
                                    !.pc = IF audit.aged THEN "queue" ELSE "sleep"]
      PROVE  AuditInv'
  <2>1. /\ audit' \in AuditRec /\ audit'.pc = IF audit.aged THEN "queue" ELSE "sleep"
        /\ audit'.cand = audit.cand /\ audit'.final = audit.aged /\ audit'.seen = audit.seen
    BY <1>1, <1>2, <1>8, NoSnapType DEF AuditRec, AuditPcs
  <2>2. HasCand /\ HasCand' /\ AuditRuns' /\ audit.snap = audit.cand
    BY <1>8, <2>1 DEF HasCand, SameFingerprint, AuditRuns
  <2>3. Witnessed'
    <3>1. Witnessed
        BY <1>1, <2>2 DEF AuditInv, Second
    <3> QED
        BY <1>1, <2>1, <3>1 DEF Witnessed, Idle, Clean
  <2>4. SnapOlder' /\ Second' /\ Third'
    BY <2>1, <2>2, <2>3
       DEF SnapOlder, Second, Third, AfterQueue, AfterCounts, AfterRows, AfterStock, AfterBuyers
  <2>5. Actual(sys)' = Actual(sys)
    BY <1>1 DEF Actual, With
  <2>6. CandOlder'
    BY <1>1, <2>1, <2>2, <2>5
       DEF AuditInv, CandOlder, RowsOlder, StockOlder, BuyersOlder, ReturnedSince
  <2>7. FileInv'
    BY <1>1, <2>1 DEF FileInv, Readable
  <2> QED
    BY <1>1, <1>3, <1>4, <2>1, <2>4, <2>6, <2>7 DEF AuditInv, AuditTypes
<1>9. CASE ~audit.snap.idle
    BY <1>5, <1>9 DEF Judge
<1>10. CASE audit.snap.idle /\ audit.final
    BY <1>5, <1>6, <1>10 DEF Judge
<1>11. CASE audit.snap.idle /\ ~audit.final /\ ~SameFingerprint
    BY <1>7, <1>11 DEF Judge
<1>12. CASE audit.snap.idle /\ ~audit.final /\ SameFingerprint
    BY <1>8, <1>12 DEF Judge
<1> QED
    BY <1>2, <1>9, <1>10, <1>11, <1>12

\* A new collection after the pause.
LEMMA WakeStep ==
    ASSUME AuditInv, NEW long \in BOOLEAN, Wake(long)
    PROVE  AuditInv'
<1>1. /\ audit \in AuditRec /\ audit.pc = "sleep" /\ sys' = sys /\ file' = file /\ AuditRuns
    BY DEF Wake, AuditInv, AuditTypes, AuditRuns
<1>2. (audit.cand # NoSnap /\ (audit.aged \/ long)) \in BOOLEAN
    OBVIOUS
<1>3. /\ audit' \in AuditRec /\ audit'.pc = "queue" /\ audit'.cand = audit.cand
      /\ audit'.final = audit.final /\ audit'.seen = audit.seen
    BY <1>1, <1>2 DEF Wake, AuditRec, AuditPcs
<1>4. ~audit.final /\ AuditRuns' /\ HasCand' = HasCand
    BY <1>1, <1>3 DEF AuditInv, Third, AuditRuns, HasCand
<1>5. Consistent(sys)' /\ Actual(sys)' = Actual(sys)
    BY <1>1 DEF AuditInv, Consistent, JobConsistent, Actual, With
<1>6. SnapOlder' /\ Second' /\ Third'
    BY <1>3, <1>4
       DEF SnapOlder, Second, Third, AfterQueue, AfterCounts, AfterRows, AfterStock, AfterBuyers
<1>7. CandOlder'
    BY <1>1, <1>3, <1>4, <1>5
       DEF AuditInv, CandOlder, RowsOlder, StockOlder, BuyersOlder, ReturnedSince
<1>8. FileInv'
    BY <1>1, <1>3 DEF AuditInv, FileInv, Readable
<1> QED
    BY <1>1, <1>3, <1>5, <1>6, <1>7, <1>8 DEF AuditInv, AuditTypes

\* The publication: the report that is linked has been seen.
LEMMA PublishStep ==
    ASSUME AuditInv, sys' = sys, file' \in FileRec, audit.pc \in {"publish", "linked"},
           NEW pc \in {"linked", "exit0", "exit1"}, audit' = [audit EXCEPT !.pc = pc],
           pc = "exit0" => file'.state = "proven" /\ file'.pass
    PROVE  AuditInv'
<1>1. /\ audit' \in AuditRec /\ audit'.pc = pc /\ audit'.cand = audit.cand
      /\ audit'.final = audit.final /\ audit'.seen = audit.seen
    BY DEF AuditInv, AuditTypes, AuditRec, AuditPcs
<1>2. audit.seen /\ AuditRuns /\ (HasCand' <=> HasCand)
    BY <1>1 DEF AuditInv, Third, AuditRuns, HasCand
<1>3. Consistent(sys)' /\ Actual(sys)' = Actual(sys)
    BY <1>2 DEF AuditInv, Consistent, JobConsistent, Actual, With
<1>4. SnapOlder' /\ Second' /\ Third'
    BY <1>1, <1>2
       DEF AuditInv, SnapOlder, Second, Third, AfterQueue, AfterCounts, AfterRows, AfterStock, AfterBuyers
<1>5. CandOlder'
    BY <1>1, <1>2, <1>3
       DEF AuditInv, CandOlder, RowsOlder, StockOlder, BuyersOlder, ReturnedSince
<1>6. FileInv'
    BY <1>1, <1>2 DEF FileInv, AuditRuns
<1> QED
    BY <1>1, <1>3, <1>4, <1>5, <1>6 DEF AuditInv, AuditTypes

\* Every step of the audit process or of the system beside it.
LEMMA AuditStep ==
    ASSUME AuditInv, NEW e, AuditNext(e)
    PROVE  AuditInv'
<1>1. CASE SystemNext
    BY <1>1, SystemStep
<1>2. CASE CollectNext
    BY <1>2, QueueRead, WorkerRead, CountsRead, RowsRead, StockRead, BuyersRead, LedgerRead
       DEF CollectNext
<1>3. CASE CollectFails
    BY <1>3, ResetStep DEF CollectFails, AuditRuns
<1>4. CASE Judge
    BY <1>4, JudgeStep
<1>5. CASE Expires
  <2>1. file.state = "none" /\ UNCHANGED <<sys, file>>
    BY <1>5 DEF Expires, AuditInv, FileInv, AuditRuns
  <2>2. /\ audit' \in AuditRec /\ audit'.pc = "exit1" /\ audit'.cand = NoSnap
        /\ audit'.final = FALSE
    BY <1>5, AuditOffType DEF Expires, AuditRec, AuditPcs
  <2> QED
    BY <2>1, <2>2, OffStep DEF AuditInv, AuditTypes, Readable
<1>6. CASE LinkReport(e)
  <2>1. EvaluateAudit(audit.snap, e) \in BOOLEAN
    BY DEF EvaluateAudit, I1, I2, I4
  <2>2. file' \in FileRec
    BY <1>6, <2>1 DEF LinkReport, FileRec
  <2> QED
    BY <1>6, <2>2, PublishStep DEF LinkReport
<1>7. CASE PublishFails
  <2>1. /\ file' \in FileRec /\ sys' = sys
        /\ file'.state \in {"revoked", "temp"} \/ file' = file
    BY <1>7 DEF PublishFails, FailedReport, FileRec, AuditInv, AuditTypes
  <2>2. /\ audit' \in AuditRec /\ audit'.pc = "exit1" /\ audit'.cand = NoSnap
        /\ audit'.final = FALSE /\ audit'.seen = audit.seen
    <3>1. audit.seen \in BOOLEAN
      BY DEF AuditInv, AuditTypes, AuditRec
    <3> QED
      BY <1>7, <3>1, AuditOffType DEF PublishFails, AuditRec, AuditPcs
  <2>3. Readable' => audit'.seen
    BY <2>1, <2>2 DEF Readable, AuditInv, FileInv
  <2> QED
    BY <2>1, <2>2, <2>3, OffStep DEF AuditInv, AuditTypes
<1>8. ASSUME NEW long \in BOOLEAN, Wake(long) PROVE AuditInv'
    BY <1>8, WakeStep
<1>9. ASSUME NEW closes \in BOOLEAN, PublishProven(closes) PROVE AuditInv'
  <2>1. /\ file' \in FileRec /\ file'.state = "proven" /\ file'.pass = file.pass
        /\ sys' = sys /\ audit.pc = "linked"
    BY <1>9 DEF PublishProven, FileRec, AuditInv, AuditTypes
  <2>2. PICK pc \in {"exit0", "exit1"} : pc = IF file.pass /\ closes THEN "exit0" ELSE "exit1"
    OBVIOUS
  <2>3. audit' = [audit EXCEPT !.pc = pc]
    BY <1>9, <2>2 DEF PublishProven
  <2> QED
    BY <2>1, <2>2, <2>3, PublishStep
<1> QED
    BY <1>1, <1>2, <1>3, <1>4, <1>5, <1>6, <1>7, <1>8, <1>9 DEF AuditNext

\* The audit begins with nothing read, on what the workload left behind.
LEMMA AuditBegins ==
    ASSUME AuditInv, NEW jobs \in [Users -> {"waiting", "lost"}], AuditStarts(jobs)
    PROVE  AuditInv' /\ audit'.pc = "queue"
<1>1. PICK n : n = Stock - Cardinality(Users)
    OBVIOUS
<1>2. n \in 0..(Stock + MaxLosses)
    BY <1>1, BuyersBound
<1>3. PICK s : s = [SysQuiet EXCEPT !.job = jobs, !.buyers = Users]
    OBVIOUS
<1>4. /\ s \in SysRec /\ s.job = jobs /\ s.buyers = Users
      /\ s.row = [u \in Users |-> "none"]
    BY <1>3, SysQuietType DEF SysQuiet, SysRec
<1>5. sys' = [s EXCEPT !.ledger = Users, !.stock = n]
    BY <1>1, <1>3, SysQuietType DEF AuditStarts, SysRec
<1> HIDE <1>3
<1>6. /\ sys' \in SysRec /\ sys'.job = jobs /\ sys'.buyers = Users /\ sys'.ledger = Users
      /\ sys'.row = [u \in Users |-> "none"] /\ sys'.stock = n
    BY <1>2, <1>4, <1>5 DEF SysRec
<1>7. Consistent(sys)'
    BY <1>1, <1>6 DEF Consistent, JobConsistent
<1>8. /\ audit' \in AuditRec /\ audit'.pc = "queue" /\ audit'.cand = NoSnap
      /\ audit'.final = FALSE
    BY AuditOffType DEF AuditStarts, AuditRec, AuditPcs
<1>9. file' \in FileRec /\ file'.state = "none"
    BY DEF AuditStarts, FileRec
<1>10. ~HasCand'
    BY <1>8 DEF HasCand
<1>11. SnapOlder' /\ CandOlder' /\ Second' /\ Third'
    BY <1>8, <1>10 DEF SnapOlder, CandOlder, Second, Third, AfterRows, AfterStock, AfterBuyers
<1>12. FileInv'
    BY <1>8, <1>9 DEF FileInv, Readable
<1> QED
    BY <1>6, <1>7, <1>8, <1>9, <1>11, <1>12 DEF AuditInv, AuditTypes

-----------------------------------------------------------------------------
(* Frames, and what the runner's records become *)

\* What the runner does without its audit.
LEMMA AuditFrame ==
    ASSUME AuditInv, UNCHANGED auditVars
    PROVE  AuditInv'
BY DEF auditVars, AuditInv, AuditTypes, Consistent, JobConsistent, SnapOlder, CandOlder, Second,
       Third, FileInv, RowsOlder, StockOlder, BuyersOlder, ReturnedSince, Clean, Idle, CountsOf,
       HasCand, Witnessed, AuditRuns, Actual, With, Readable

\* Which step awaits which child.
LEMMA AwaitedRoles ==
    /\ \A s \in DOMAIN Awaited : Awaited[s] \in Roles \ {"sampler"} /\ s \in Steps
    /\ \A s \in DOMAIN Awaited : Awaited[s] = "workload" <=> s = "workload"
    /\ \A s \in DOMAIN Awaited : Awaited[s] = "audit" <=> s = "audit"
    /\ \A s \in DOMAIN Awaited : Awaited[s] = "cleanup" <=> s = "cleanup"
    /\ \A s \in DOMAIN Awaited :
           Awaited[s] = "observability" <=> s \in {"before", "after", "ps", "inspect", "logs"}
    /\ DOMAIN Awaited = {"datastore", "recreate", "render", "probe", "before", "workload", "audit",
                         "after", "ps", "inspect", "logs", "cleanup"}
BY DEF Awaited, Roles, Steps

\* EndScenario after a failure: the run has failed.
LEMMA ScenarioFails ==
    ASSUME NEW r \in RunRec, NEW e, e = EndScenario(r, FALSE)
    PROVE  /\ e \in RunRec
           /\ e.step \in {"write", "enter"} /\ e.failures = FALSE
           /\ e.failed = TRUE /\ e.harmed = r.harmed /\ e.written = r.written
           /\ e.passed = r.passed
           /\ e.step = "enter" => e.scenario = r.scenario + 1
<1> DEFINE last == r.scenario = Scenarios \/ r.scenario = 1
           step == IF last THEN "write" ELSE "enter"
           scenario == IF last THEN r.scenario ELSE r.scenario + 1
<1>1. r.passed \in 0..Scenarios /\ scenario \in 1..Scenarios
    BY ScenariosAssumption DEF RunRec
<1>2. step \in Steps /\ TRUE \in BOOLEAN
    BY DEF Steps, RunRec
<1>3. PICK a : a = [r EXCEPT !.failed = TRUE, !.passed = r.passed, !.failures = FALSE]
    OBVIOUS
<1>4. e = [a EXCEPT !.green = TRUE, !.step = step, !.scenario = scenario]
    BY <1>3 DEF EndScenario, RunRec
<1>5. /\ a \in RunRec /\ a.failed = TRUE /\ a.passed = r.passed /\ a.failures = FALSE
      /\ a.harmed = r.harmed /\ a.written = r.written
    BY <1>1, <1>2, <1>3 DEF RunRec
<1>6. /\ e \in RunRec /\ e.failed = TRUE /\ e.passed = r.passed /\ e.failures = FALSE
      /\ e.harmed = r.harmed /\ e.written = r.written /\ e.step = step /\ e.scenario = scenario
    <2> HIDE DEF step, scenario
    <2> HIDE <1>3
    <2> QED
        BY <1>1, <1>2, <1>4, <1>5 DEF RunRec
<1> QED
    BY <1>6

\* EndScenario without one: one more scenario has passed.
LEMMA ScenarioPasses ==
    ASSUME NEW r \in RunRec, r.passed <= r.scenario - 1, NEW e, e = EndScenario(r, TRUE)
    PROVE  /\ e \in RunRec
           /\ e.step \in {"write", "enter"} /\ e.failures = FALSE
           /\ e.failed = r.failed /\ e.harmed = r.harmed /\ e.written = r.written
           /\ e.passed = r.passed + 1
           /\ e.step = "enter" => e.scenario = r.scenario + 1
           /\ e.step = "write" => e.scenario = Scenarios /\ e.scenario = r.scenario
<1> DEFINE last == r.scenario = Scenarios
           step == IF last THEN "write" ELSE "enter"
           scenario == IF last THEN r.scenario ELSE r.scenario + 1
<1>1. r.passed + 1 \in 0..Scenarios /\ scenario \in 1..Scenarios
    BY ScenariosAssumption DEF RunRec
<1>2. step \in Steps /\ r.failed \in BOOLEAN
    BY DEF Steps, RunRec
<1>3. PICK a : a = [r EXCEPT !.failed = r.failed, !.passed = r.passed + 1, !.failures = FALSE]
    OBVIOUS
<1>4. e = [a EXCEPT !.green = TRUE, !.step = step, !.scenario = scenario]
    BY <1>3 DEF EndScenario, RunRec
<1>5. /\ a \in RunRec /\ a.failed = r.failed /\ a.passed = r.passed + 1 /\ a.failures = FALSE
      /\ a.harmed = r.harmed /\ a.written = r.written
    BY <1>1, <1>2, <1>3 DEF RunRec
<1>6. /\ e \in RunRec /\ e.failed = r.failed /\ e.passed = r.passed + 1 /\ e.failures = FALSE
      /\ e.harmed = r.harmed /\ e.written = r.written /\ e.step = step /\ e.scenario = scenario
    <2>1. PICK b \in Steps, c \in 1..Scenarios :
             b = step /\ c = scenario /\ e = [a EXCEPT !.green = TRUE, !.step = b, !.scenario = c]
        BY <1>1, <1>2, <1>4
    <2> HIDE DEF step, scenario
    <2>2. e \in RunRec /\ e.step = b /\ e.scenario = c
        <3>1. PICK x : x = [a EXCEPT !.green = TRUE, !.step = b]
            OBVIOUS
        <3>2. x \in RunRec /\ x.step = b
            BY <1>5, <3>1 DEF RunRec
        <3>3. e = [x EXCEPT !.scenario = c]
            BY <2>1, <3>1
        <3> HIDE <3>1
        <3> QED BY <3>2, <3>3 DEF RunRec
    <2>3. /\ e.failed = a.failed /\ e.passed = a.passed /\ e.failures = a.failures
          /\ e.harmed = a.harmed /\ e.written = a.written
        BY <1>5, <2>1 DEF RunRec
    <2> QED
        BY <1>5, <2>1, <2>2, <2>3
<1> QED
    BY <1>6

\* A noted failure is only added.
LEMMA NotedFacts ==
    ASSUME NEW r \in RunRec, NEW ok \in BOOLEAN, NEW next \in Steps, NEW e, e = Noted(r, ok, next)
    PROVE  /\ e \in RunRec /\ e.step = next /\ e.failures = (r.failures \/ ~ok)
           /\ e.failed = r.failed /\ e.harmed = r.harmed /\ e.written = r.written
           /\ e.passed = r.passed /\ e.scenario = r.scenario
<1>1. (r.failures \/ ~ok) \in BOOLEAN /\ (r.green /\ ok) \in BOOLEAN
    OBVIOUS
<1> QED
    BY <1>1 DEF Noted, RunRec

\* A step that goes on changes nothing else.
LEMMA StepFacts ==
    ASSUME NEW r \in RunRec, NEW next \in Steps, NEW e, e = [r EXCEPT !.step = next]
    PROVE  /\ e \in RunRec /\ e.step = next /\ e.failures = r.failures
           /\ e.failed = r.failed /\ e.harmed = r.harmed /\ e.written = r.written
           /\ e.passed = r.passed /\ e.scenario = r.scenario
BY DEF RunRec

\* A run whose step changes while no child is awaited.
LEMMA QuietMoves ==
    ASSUME QuietInv, UNCHANGED <<child, registry, sampler, audit>>,
           run.step \in DOMAIN Awaited => ~Alive(Awaited[run.step]),
           sampler.on \/ sampler.tick # "none" => run'.step = "stopping",
           sampler.drain => run'.step \in {"stopping", "drain"}
    PROVE  QuietInv'
<1>1. \A r \in NonCleanup \ {"sampler"} : ~Alive(r)
    BY DEF QuietInv
<1> QED
    BY <1>1 DEF QuietInv, Alive, AtLoad

\* Steps that touch neither children nor registry.
LEMMA TermFrame ==
    ASSUME TermInv, UNCHANGED <<child, registry, interrupted>>
    PROVE  TermInv'
BY DEF TermInv, TerminationExact, Targets, Alive

\* A scenario that has failed.
LEMMA DoneFails ==
    ASSUME RunTypes, DoneInv, run.step \notin {"write", "cleanup", "ended", "crashed"},
           run' = EndScenario(run, FALSE)
    PROVE  DoneInv' /\ run' \in RunRec /\ run'.step \in {"write", "enter"}
<1>1. /\ run' \in RunRec
      /\ run'.step \in {"write", "enter"} /\ run'.failures = FALSE
      /\ run'.failed = TRUE /\ run'.written = run.written
      /\ run'.passed = run.passed
      /\ run'.step = "enter" => run'.scenario = run.scenario + 1
    <2>1. run \in RunRec
        BY DEF RunTypes
    <2> QED
        BY <2>1, ScenarioFails
<1>2. run.passed <= run.scenario - 1 /\ ~run.written
    BY DEF DoneInv
<1>3. run.passed \in Nat /\ run.scenario \in Nat
    BY ScenariosAssumption DEF RunTypes, RunRec
<1>4. ASSUME NEW p \in Nat, NEW n \in Nat, p <= n - 1 PROVE p <= (n + 1) - 1
    BY <1>4
<1>5. run'.step = "enter" => run'.passed <= run'.scenario - 1
  <2>1. run.passed <= (run.scenario + 1) - 1
    BY <1>2, <1>3, <1>4
  <2> QED
    BY <1>1, <2>1, Zenon
<1> QED
    BY <1>1, <1>2, <1>5 DEF DoneInv, HarmInv, ResultsTrusted

\* A step whose failure is noted, or that goes on to the next.
LEMMA DoneGoesOn ==
    ASSUME RunTypes, DoneInv,
           run' \in RunRec, run'.failed = run.failed, run'.harmed = run.harmed,
           run'.written = run.written, run'.passed = run.passed, run'.scenario = run.scenario,
           run.failures => run'.failures,
           run.step \notin {"write", "cleanup", "ended", "crashed"},
           run'.step \notin {"write", "cleanup", "ended", "crashed"},
           HarmInv',
           run'.step \in {"after", "ps", "inspect", "logs", "verdict"} /\ ~run'.failures => Proven'
    PROVE  DoneInv'
<1>1. ~run.written
    BY DEF DoneInv
<1> QED
    BY <1>1 DEF DoneInv, ResultsTrusted

\* A signal ends no child, and never reaches the cleanup.
LEMMA SignalledFacts ==
    ASSUME child \in ChildRec, NEW rs \in SUBSET NonCleanup, NEW from, "none" \notin from,
           NEW to \in {"termed", "killed"}
    PROVE  /\ Signalled(rs, from, to) \in ChildRec
           /\ \A r \in Roles : Signalled(rs, from, to)[r] # "none" <=> Alive(r)
           /\ Signalled(rs, from, to)["cleanup"] = child["cleanup"]
BY DEF Signalled, ChildRec, Alive, NonCleanup, Roles

\* terminateNonCleanup: it ends no child by itself, closes the registry, and
\* its targets are all the children there are.
LEMMA TerminateFacts ==
    ASSUME RunTypes, TermInv, NEW terminal \in BOOLEAN, NEW force \in BOOLEAN,
           Terminate(terminal, force)
    PROVE  /\ registry' \in RegistryRec /\ child' \in ChildRec /\ run' \in RunRec
           /\ \A r \in Roles : Alive(r)' <=> Alive(r)
           /\ child'["cleanup"] = child["cleanup"]
           /\ registry'.active /\ registry'.mode # "open" /\ Targets \subseteq registry'.targets
           /\ terminal \/ registry.mode = "terminal" => registry'.mode = "terminal"
           /\ run'.step = run.step /\ run'.failures = run.failures /\ run'.failed = run.failed
           /\ run'.written = run.written /\ run'.passed = run.passed
           /\ run'.scenario = run.scenario
           /\ run'.harmed => run.harmed \/ Targets \cap {"workload", "audit"} # {}
<1> USE DEF RunTypes
<1>1. Targets \subseteq NonCleanup
    BY DEF Targets
<1>3. CASE registry.active
  <2>1. /\ registry' = [registry EXCEPT !.mode = IF terminal THEN "terminal" ELSE registry.mode,
                                        !.forced = registry.forced \/ force]
        /\ child' = IF force
                    THEN Signalled(registry.targets, {"running", "termed", "late"}, "killed")
                    ELSE child
        /\ run' = run
    BY <1>3 DEF Terminate
  <2>2. /\ registry' \in RegistryRec /\ registry'.active = registry.active
        /\ registry'.mode = (IF terminal THEN "terminal" ELSE registry.mode)
        /\ registry'.targets = registry.targets
    BY <2>1 DEF RegistryRec
  <2>3. registry.mode # "open" /\ Targets \subseteq registry.targets
    BY <1>3 DEF TermInv, TerminationExact
  <2>4. registry.targets \in SUBSET NonCleanup
    BY DEF RegistryRec
  <2>5. /\ child' \in ChildRec /\ \A r \in Roles : Alive(r)' <=> Alive(r)
        /\ child'["cleanup"] = child["cleanup"]
    BY <2>1, <2>4, SignalledFacts DEF Alive
  <2> QED
    BY <1>3, <2>1, <2>2, <2>3, <2>5
<1>4. CASE ~registry.active
  <2>1. /\ registry' = [mode |-> IF terminal \/ registry.mode = "terminal" THEN "terminal" ELSE "draining",
                        active |-> TRUE, targets |-> Targets, forced |-> FALSE]
        /\ child' = Signalled(Targets, {"running"}, "termed")
        /\ run' = [run EXCEPT !.harmed = run.harmed \/ Targets \cap {"workload", "audit"} # {}]
    BY <1>4 DEF Terminate
  <2>2. /\ registry' \in RegistryRec /\ registry'.active = TRUE
        /\ registry'.mode = (IF terminal \/ registry.mode = "terminal" THEN "terminal" ELSE "draining")
        /\ registry'.targets = Targets
    BY <1>1, <2>1 DEF RegistryRec
  <2>3. /\ child' \in ChildRec /\ \A r \in Roles : Alive(r)' <=> Alive(r)
        /\ child'["cleanup"] = child["cleanup"]
    BY <1>1, <2>1, SignalledFacts DEF Alive
  <2>4. (run.harmed \/ Targets \cap {"workload", "audit"} # {}) \in BOOLEAN
    OBVIOUS
  <2>5. /\ run' \in RunRec /\ run'.step = run.step /\ run'.failures = run.failures
        /\ run'.failed = run.failed /\ run'.written = run.written /\ run'.passed = run.passed
        /\ run'.scenario = run.scenario
        /\ run'.harmed = (run.harmed \/ Targets \cap {"workload", "audit"} # {})
    BY <2>1, <2>4 DEF RunRec
  <2> QED
    BY <2>2, <2>3, <2>5
<1> QED
    BY <1>3, <1>4

-----------------------------------------------------------------------------
(* The registry's steps *)

\* SIGINT and SIGTERM.
LEMMA SignalStep ==
    ASSUME IInv, Signal
    PROVE  IInv'
<1> USE DEF IInv
<1>1. /\ run.step \notin Over /\ interrupted' = IF interrupted < 2 THEN interrupted + 1 ELSE 2
      /\ Terminate(TRUE, interrupted > 0)
      /\ UNCHANGED <<sampler, expected>> /\ UNCHANGED auditVars
    BY DEF Signal
<1>2. interrupted \in 0..2 /\ interrupted' \in 1..2 /\ (interrupted > 0) \in BOOLEAN
    BY <1>1 DEF RunTypes
<1>3. /\ registry' \in RegistryRec /\ child' \in ChildRec /\ run' \in RunRec
      /\ \A r \in Roles : Alive(r)' <=> Alive(r)
      /\ child'["cleanup"] = child["cleanup"]
      /\ registry'.active /\ registry'.mode # "open" /\ Targets \subseteq registry'.targets
      /\ registry'.mode = "terminal"
      /\ run'.step = run.step /\ run'.failures = run.failures /\ run'.failed = run.failed
      /\ run'.written = run.written /\ run'.passed = run.passed
      /\ run'.scenario = run.scenario
      /\ run'.harmed => run.harmed \/ Targets \cap {"workload", "audit"} # {}
    BY <1>1, <1>2, TerminateFacts
<1>4. RunTypes'
    BY <1>1, <1>2, <1>3 DEF RunTypes
<1>5. AuditInv'
    BY <1>1, AuditFrame
<1>6. Targets' = Targets
    BY <1>3 DEF Targets, NonCleanup
<1>7. TermInv'
    BY <1>3, <1>6 DEF TermInv, TerminationExact
<1>8. QuietInv'
    BY <1>1, <1>3 DEF QuietInv, auditVars, NonCleanup, Roles, AtLoad
<1>9. Targets \cap {"workload", "audit"} # {} =>
        run.step = "audit" \/ (run.step = "workload" /\ Alive("workload"))
    BY AwaitedRoles DEF Targets, QuietInv, NonCleanup, Roles
<1>10. HarmInv'
    <2>1. interrupted > 0 => interrupted' > 0
        BY <1>2
    <2>2. interrupted' > 0
        BY <1>2
    <2> QED
        BY <1>1, <1>3, <1>9, <2>1, <2>2 DEF DoneInv, HarmInv, Roles
<1>11. run'.written \/ run.step = "write" => (run'.harmed => run.harmed)
    BY <1>3, <1>9 DEF DoneInv
<1>12. Proven' = Proven
    BY <1>1 DEF Proven, auditVars
<1>13. DoneInv'
    BY <1>1, <1>3, <1>10, <1>11, <1>12 DEF DoneInv, ResultsTrusted, Proven, auditVars
<1> QED
    BY <1>4, <1>5, <1>7, <1>8, <1>13

\* What the invariant says does not tell the states of a child apart, but for
\* the cleanup's, and forgets how far a termination has gone.
LEMMA ChildFrame ==
    ASSUME IInv, UNCHANGED <<auditVars, run, interrupted, expected>>,
           registry' \in RegistryRec, registry'.active = registry.active,
           registry'.mode = registry.mode, registry'.targets = registry.targets,
           sampler' = sampler,
           child' \in ChildRec, child'["cleanup"] # "termed",
           \A r \in Roles : Alive(r)' <=> Alive(r)
    PROVE  IInv'
<1> USE DEF IInv
<1>1. RunTypes'
    BY DEF RunTypes
<1>2. AuditInv'
    BY AuditFrame
<1>3. Targets' = Targets
    BY DEF Targets, NonCleanup
<1>4. TermInv'
    BY <1>3 DEF TermInv, TerminationExact
<1>5. QuietInv'
    BY DEF QuietInv, auditVars, NonCleanup, Roles, AtLoad
<1>6. HarmInv'
    BY DEF DoneInv, HarmInv, Roles
<1>7. DoneInv'
    BY <1>6 DEF DoneInv, ResultsTrusted, Proven, auditVars
<1> QED
    BY <1>1, <1>2, <1>4, <1>5, <1>7

\* A command's timeout and its SIGKILL.
LEMMA TimerStep ==
    ASSUME IInv, NEW r \in Roles, TimesOut(r) \/ LateKilled(r)
    PROVE  IInv'
<1>1. child \in ChildRec /\ child["cleanup"] # "termed"
    BY DEF IInv, RunTypes, TermInv, TerminationExact
<1>2. PICK to \in {"late", "killed"} : child' = [child EXCEPT ![r] = to] /\ child[r] # "none"
    BY DEF TimesOut, LateKilled
<1>3. /\ child' \in ChildRec /\ child'["cleanup"] # "termed"
      /\ \A q \in Roles : Alive(q)' <=> Alive(q)
    BY <1>1, <1>2 DEF ChildRec, Alive
<1>4. UNCHANGED <<auditVars, run, interrupted, expected>> /\ UNCHANGED <<registry, sampler>>
    BY DEF TimesOut, LateKilled
<1> QED
    BY <1>3, <1>4, ChildFrame DEF IInv, RunTypes

\* The end of the force delay.
LEMMA KillSurvivorsStep ==
    ASSUME IInv, KillSurvivors
    PROVE  IInv'
<1>1. /\ child \in ChildRec /\ registry \in RegistryRec /\ child["cleanup"] # "termed"
    BY DEF IInv, RunTypes, TermInv, TerminationExact
<1>2. registry.targets \in SUBSET NonCleanup
    BY <1>1 DEF RegistryRec
<1>3. /\ child' \in ChildRec /\ child'["cleanup"] # "termed"
      /\ \A q \in Roles : Alive(q)' <=> Alive(q)
    BY <1>1, <1>2, SignalledFacts DEF KillSurvivors, Alive
<1>4. /\ registry' \in RegistryRec /\ registry'.active = registry.active
      /\ registry'.mode = registry.mode /\ registry'.targets = registry.targets
    BY <1>1 DEF KillSurvivors, RegistryRec
<1>5. UNCHANGED <<auditVars, run, interrupted, expected>> /\ sampler' = sampler
    BY DEF KillSurvivors
<1> QED
    BY <1>3, <1>4, <1>5, ChildFrame

\* The registry is opened again only with no target left.
LEMMA TerminationEndsStep ==
    ASSUME IInv, TerminationEnds
    PROVE  IInv'
<1> USE DEF IInv
<1>1. /\ registry.active /\ \A r \in registry.targets : ~Alive(r)
      /\ UNCHANGED <<run, child, interrupted, expected>> /\ UNCHANGED auditVars
    BY DEF TerminationEnds
<1>2. /\ registry' \in RegistryRec /\ registry'.active = FALSE /\ registry'.targets = {}
      /\ registry'.mode = (IF registry.mode = "terminal" THEN "terminal" ELSE "open")
    BY DEF TerminationEnds, RegistryRec
<1>3. /\ sampler' \in SamplerRec /\ sampler'.drain = FALSE /\ sampler'.on = sampler.on
      /\ sampler'.tick = sampler.tick /\ sampler'.failed = sampler.failed
    BY DEF TerminationEnds, RunTypes, SamplerRec
<1>4. RunTypes'
    BY <1>1, <1>2, <1>3 DEF RunTypes
<1>5. AuditInv'
    BY <1>1, AuditFrame
<1>6. Targets = {} /\ Targets' = Targets
    BY <1>1 DEF TermInv, TerminationExact, Targets, Alive
<1>7. TermInv'
    BY <1>1, <1>2, <1>6 DEF TermInv, TerminationExact
<1>8. QuietInv'
    BY <1>1, <1>2, <1>3 DEF QuietInv, auditVars, Alive, AtLoad
<1>9. DoneInv'
    BY <1>1, <1>3 DEF DoneInv, HarmInv, ResultsTrusted, Proven, auditVars, Alive
<1> QED
    BY <1>4, <1>5, <1>7, <1>8, <1>9

-----------------------------------------------------------------------------
(* The samplers' steps *)

\* A step of the samplers that charges nothing to the run.
LEMMA SamplerFrame ==
    ASSUME IInv, UNCHANGED <<run, registry, interrupted, expected>>, UNCHANGED auditVars,
           sampler' \in SamplerRec, sampler.failed => sampler'.failed,
           sampler'.drain = sampler.drain,
           sampler'.on \/ sampler'.tick # "none" => AtLoad,
           child' \in ChildRec, \A r \in Roles \ {"sampler"} : child'[r] = child[r],
           Alive("sampler")' => sampler'.tick = "stats",
           Alive("sampler")' => Alive("sampler") \/ registry.mode = "open"
    PROVE  IInv'
<1> USE DEF IInv
<1>1. RunTypes'
    BY DEF RunTypes
<1>2. AuditInv'
    BY AuditFrame
<1>3. registry.mode # "open" => Targets' \subseteq Targets
    BY DEF Targets, NonCleanup, Alive
<1>4. TermInv'
    BY <1>3 DEF TermInv, TerminationExact, Roles
<1>5. QuietInv'
    BY DEF QuietInv, auditVars, NonCleanup, Roles, Alive, AtLoad
<1>6. DoneInv'
    BY DEF DoneInv, HarmInv, ResultsTrusted, Proven, auditVars, Roles, Alive
<1> QED
    BY <1>1, <1>2, <1>4, <1>5, <1>6

\* A sampler that is on, or has a tick in flight, belongs to a load.
LEMMA SamplerAtLoad ==
    ASSUME IInv, sampler.on \/ sampler.tick # "none"
    PROVE  AtLoad
BY DEF IInv, QuietInv

\* The first failed tick terminates the workload, the others are counted.
LEMMA TickFailsStep ==
    ASSUME IInv, sampler.tick \in {"http", "failing"}, TickFails,
           UNCHANGED <<interrupted, expected>>, UNCHANGED auditVars
    PROVE  IInv'
<1> USE DEF IInv
<1>1. sampler \in SamplerRec /\ AtLoad /\ ~Alive("sampler")
    BY SamplerAtLoad DEF RunTypes, QuietInv
<1>2. (sampler.drain \/ ~sampler.failed) \in BOOLEAN
    OBVIOUS
<1>3. PICK a : a = [sampler EXCEPT !.tick = "none", !.code = "1"]
    OBVIOUS
<1>4. a \in SamplerRec /\ a.tick = "none" /\ a.on = sampler.on
    BY <1>1, <1>3 DEF SamplerRec
<1>5. sampler' = [a EXCEPT !.failed = TRUE, !.drain = sampler.drain \/ ~sampler.failed]
    BY <1>1, <1>3 DEF TickFails, SamplerRec
<1> HIDE <1>3
<1>6. /\ sampler' \in SamplerRec /\ sampler'.tick = "none" /\ sampler'.on = sampler.on
      /\ sampler'.failed = TRUE /\ sampler'.drain = (sampler.drain \/ ~sampler.failed)
    BY <1>2, <1>4, <1>5 DEF SamplerRec
<1>7. CASE sampler.failed
  <2>1. UNCHANGED <<run, child, registry>> /\ sampler'.drain = sampler.drain
    BY <1>1, <1>6, <1>7 DEF TickFails, SamplerRec
  <2> QED
    BY <1>1, <1>6, <2>1, SamplerFrame DEF RunTypes, Alive
<1>8. CASE ~sampler.failed
  <2>1. /\ registry' \in RegistryRec /\ child' \in ChildRec /\ run' \in RunRec
        /\ \A r \in Roles : Alive(r)' <=> Alive(r)
        /\ child'["cleanup"] = child["cleanup"]
        /\ registry'.active /\ registry'.mode # "open" /\ Targets \subseteq registry'.targets
        /\ registry.mode = "terminal" => registry'.mode = "terminal"
        /\ run'.step = run.step /\ run'.failures = run.failures /\ run'.failed = run.failed
        /\ run'.written = run.written /\ run'.passed = run.passed
        /\ run'.scenario = run.scenario
    BY <1>8, TerminateFacts DEF TickFails
  <2>2. RunTypes'
    BY <1>6, <2>1 DEF RunTypes
  <2>3. AuditInv'
    BY AuditFrame
  <2>4. Targets' = Targets
    BY <2>1 DEF Targets, NonCleanup
  <2>5. TermInv'
    BY <2>1, <2>4 DEF TermInv, TerminationExact
  <2>6. run.step \in {"workload", "stopping"} /\ AtLoad'
    BY <1>1, <2>1 DEF AtLoad, Roles
  <2>7. sampler'.drain
    BY <1>6, <1>8
  <2>8. QuietInv'
    BY <1>6, <2>1, <2>6, <2>7 DEF QuietInv, auditVars, NonCleanup, Roles, AtLoad
  <2>9. HarmInv'
    BY <1>6, <2>6 DEF HarmInv, AtLoad
  <2>10. DoneInv'
    BY <2>1, <2>6, <2>9 DEF DoneInv, ResultsTrusted, Proven, auditVars
  <2> QED
    BY <2>2, <2>3, <2>5, <2>8, <2>10
<1> QED
    BY <1>7, <1>8

\* The steps of startSamplers and stopSamplers.
LEMMA SamplerStep ==
    ASSUME IInv, StopSamplers \/ Tick \/ StatsClose \/ StatsFail \/ TickSteps
    PROVE  IInv'
<1>1. sampler \in SamplerRec /\ child \in ChildRec /\ (Alive("sampler") => sampler.tick = "stats")
    BY DEF IInv, RunTypes, QuietInv
<1>2. CASE StopSamplers
  <2>1. /\ UNCHANGED <<run, child, registry, interrupted, expected>> /\ UNCHANGED auditVars
        /\ run.step = "stopping"
    BY <1>2 DEF StopSamplers
  <2>2. /\ sampler' \in SamplerRec /\ sampler'.failed = sampler.failed
        /\ sampler'.drain = sampler.drain /\ sampler'.tick = sampler.tick
    BY <1>1, <1>2 DEF StopSamplers, SamplerRec
  <2> QED
    BY <1>1, <2>1, <2>2, SamplerFrame DEF Alive, AtLoad
<1>3. CASE Tick
  <2>1. /\ UNCHANGED <<run, child, registry, interrupted, expected>> /\ UNCHANGED auditVars
        /\ sampler.on /\ sampler.tick = "none"
    BY <1>3 DEF Tick
  <2>2. /\ sampler' \in SamplerRec /\ sampler'.failed = sampler.failed
        /\ sampler'.drain = sampler.drain
    BY <1>1, <1>3 DEF Tick, SamplerRec
  <2>3. AtLoad /\ ~Alive("sampler")
    BY <1>1, <2>1, SamplerAtLoad
  <2> QED
    BY <1>1, <2>1, <2>2, <2>3, SamplerFrame DEF Alive
<1>4. CASE StatsClose \/ StatsFail
  <2>1. /\ UNCHANGED <<run, registry, interrupted, expected>> /\ UNCHANGED auditVars
        /\ sampler.tick = "stats" /\ child' = [child EXCEPT !["sampler"] = "none"]
    BY <1>4 DEF StatsClose, StatsFail
  <2>2. /\ sampler' \in SamplerRec /\ sampler'.failed = sampler.failed
        /\ sampler'.drain = sampler.drain
    BY <1>1, <1>4 DEF StatsClose, StatsFail, SamplerRec
  <2>3. /\ child' \in ChildRec /\ \A r \in Roles \ {"sampler"} : child'[r] = child[r]
        /\ ~Alive("sampler")'
    BY <1>1, <2>1 DEF ChildRec, Alive, Roles
  <2>4. AtLoad
    BY <2>1, SamplerAtLoad
  <2> QED
    BY <2>1, <2>2, <2>3, <2>4, SamplerFrame
<1>5. CASE StatsFailed
    BY <1>5, TickFailsStep DEF StatsFailed
<1>6. CASE ProbesDone
  <2>1. sampler.tick = "http" /\ UNCHANGED <<interrupted, expected>> /\ UNCHANGED auditVars
    BY <1>6 DEF ProbesDone
  <2>2. AtLoad
    BY <2>1, SamplerAtLoad
  <2>3. CASE /\ sampler' = [sampler EXCEPT !.tick = "none"]
             /\ UNCHANGED <<run, child, registry>>
    <3>1. /\ sampler' \in SamplerRec /\ sampler'.failed = sampler.failed
          /\ sampler'.drain = sampler.drain
        BY <1>1, <2>3 DEF SamplerRec
    <3> QED
        BY <1>1, <2>1, <2>2, <2>3, <3>1, SamplerFrame DEF Alive
  <2>4. CASE /\ Accepts
             /\ sampler' = [sampler EXCEPT !.tick = "stats"]
             /\ child' = [child EXCEPT !["sampler"] = "running"]
             /\ UNCHANGED <<run, registry>>
    <3>1. /\ sampler' \in SamplerRec /\ sampler'.failed = sampler.failed
          /\ sampler'.drain = sampler.drain /\ sampler'.tick = "stats"
        BY <1>1, <2>4 DEF SamplerRec
    <3>2. child' \in ChildRec /\ \A r \in Roles \ {"sampler"} : child'[r] = child[r]
        BY <1>1, <2>4 DEF ChildRec
    <3> QED
        BY <2>1, <2>2, <2>4, <3>1, <3>2, SamplerFrame DEF Accepts
  <2>5. CASE TickFails
    BY <2>1, <2>5, TickFailsStep
  <2> QED
    BY <1>6, <2>3, <2>4, <2>5 DEF ProbesDone
<1> QED
    BY <1>2, <1>3, <1>4, <1>5, <1>6 DEF TickSteps

-----------------------------------------------------------------------------
(* The run's steps *)

\* The run moves on, and nothing else changes.
LEMMA RunMoves ==
    ASSUME IInv, UNCHANGED <<child, registry, sampler, interrupted>>,
           UNCHANGED auditVars, expected' \in 0..Cardinality(Users), run' \in RunRec,
           run.step \in DOMAIN Awaited => ~Alive(Awaited[run.step]),
           sampler.on \/ sampler.tick # "none" => run'.step = "stopping",
           sampler.drain => run'.step \in {"stopping", "drain"},
           DoneInv'
    PROVE  IInv'
<1>1. RunTypes'
    BY DEF IInv, RunTypes
<1>2. AuditInv' /\ TermInv' /\ QuietInv'
    BY AuditFrame, TermFrame, QuietMoves DEF IInv, auditVars
<1> QED
    BY <1>1, <1>2 DEF IInv

\* Readiness of worker, API and sale.
LEMMA ReadyStep ==
    ASSUME IInv, NEW ok \in BOOLEAN, Ready(ok)
    PROVE  IInv'
<1> USE DEF IInv
<1>1. /\ run.step = "ready" /\ run \in RunRec /\ expected \in 0..Cardinality(Users)
      /\ UNCHANGED <<child, registry, sampler, interrupted, expected>> /\ UNCHANGED auditVars
    BY DEF Ready, RunTypes
<1>2. ~sampler.on /\ sampler.tick = "none" /\ ~sampler.drain /\ run.step \notin DOMAIN Awaited
    BY <1>1, AwaitedRoles DEF QuietInv, RunTypes, SamplerRec, AtLoad
<1>3. DoneInv' /\ run' \in RunRec
  <2>1. CASE run' = [run EXCEPT !.step = "render"]
    <3>1. /\ run' \in RunRec /\ run'.step = "render" /\ run'.failures = run.failures
          /\ run'.failed = run.failed /\ run'.harmed = run.harmed /\ run'.written = run.written
          /\ run'.passed = run.passed /\ run'.scenario = run.scenario
        BY <1>1, <2>1, StepFacts, AwaitedRoles
    <3>2. HarmInv'
        BY <1>1, <3>1 DEF DoneInv, HarmInv
    <3> QED
        BY <1>1, <3>1, <3>2, DoneGoesOn
  <2>2. CASE run' = EndScenario(run, FALSE)
    BY <1>1, <2>2, DoneFails
  <2> QED
    BY <2>1, <2>2 DEF Ready
<1> QED
    BY <1>1, <1>2, <1>3, RunMoves

\* The samplers have stopped.
LEMMA StoppedStep ==
    ASSUME IInv, SamplersStopped
    PROVE  IInv'
<1> USE DEF IInv
<1>1. /\ run.step = "stopping" /\ run \in RunRec /\ expected \in 0..Cardinality(Users)
      /\ ~sampler.on /\ sampler.tick = "none"
      /\ UNCHANGED <<child, registry, sampler, interrupted, expected>> /\ UNCHANGED auditVars
    BY DEF SamplersStopped, Stopped, RunTypes
<1>2. (run.green /\ ~SamplerFailure /\ sampler.code = "0") \in BOOLEAN
    OBVIOUS
<1>3. /\ run' \in RunRec /\ run'.step = "drain" /\ run'.failures = run.failures
      /\ run'.failed = run.failed /\ run'.harmed = run.harmed /\ run'.written = run.written
      /\ run'.passed = run.passed /\ run'.scenario = run.scenario
    BY <1>1, <1>2 DEF SamplersStopped, RunRec, Steps
<1>4. HarmInv'
    BY <1>1, <1>3 DEF DoneInv, HarmInv
<1>5. DoneInv'
    BY <1>1, <1>3, <1>4, DoneGoesOn
<1> QED
    BY <1>1, <1>3, <1>5, RunMoves, AwaitedRoles

\* The drain of a failed sampler is over, and its failure is noted.
LEMMA DrainStep ==
    ASSUME IInv, AwaitDrain
    PROVE  IInv'
<1> USE DEF IInv
<1>1. /\ run.step = "drain" /\ run \in RunRec /\ expected \in 0..Cardinality(Users)
      /\ ~sampler.drain /\ sampler \in SamplerRec
      /\ UNCHANGED <<child, registry, sampler, interrupted, expected>> /\ UNCHANGED auditVars
    BY DEF AwaitDrain, Drained, RunTypes
<1>2. (run.failures \/ SamplerFailure) \in BOOLEAN
    OBVIOUS
<1>3. /\ run' \in RunRec /\ run'.step = "evidence"
      /\ run'.failures = (run.failures \/ sampler.failed)
      /\ run'.failed = run.failed /\ run'.harmed = run.harmed /\ run'.written = run.written
      /\ run'.passed = run.passed /\ run'.scenario = run.scenario
    BY <1>1, <1>2 DEF AwaitDrain, RunRec, Steps, SamplerFailure
<1>4. HarmInv'
    BY <1>1, <1>3 DEF DoneInv, HarmInv
<1>5. DoneInv'
    BY <1>1, <1>3, <1>4, DoneGoesOn
<1>6. ~sampler.on /\ sampler.tick = "none"
    BY <1>1 DEF QuietInv, AtLoad
<1> QED
    BY <1>1, <1>3, <1>5, <1>6, RunMoves, AwaitedRoles

\* validateSamplerEvidence.
LEMMA EvidenceStep ==
    ASSUME IInv, NEW ok \in BOOLEAN, Evidence(ok)
    PROVE  IInv'
<1> USE DEF IInv
<1>1. /\ run.step = "evidence" /\ run \in RunRec /\ expected \in 0..Cardinality(Users)
      /\ run' = Noted(run, ok, "summary")
      /\ UNCHANGED <<child, registry, sampler, interrupted, expected>> /\ UNCHANGED auditVars
    BY DEF Evidence, RunTypes
<1>2. /\ run' \in RunRec /\ run'.step = "summary" /\ run'.failures = (run.failures \/ ~ok)
      /\ run'.failed = run.failed /\ run'.harmed = run.harmed /\ run'.written = run.written
      /\ run'.passed = run.passed /\ run'.scenario = run.scenario
    BY <1>1, NotedFacts DEF Steps
<1>3. HarmInv'
    BY <1>1, <1>2 DEF DoneInv, HarmInv
<1>4. DoneInv'
    BY <1>1, <1>2, <1>3, DoneGoesOn
<1>5. ~sampler.on /\ sampler.tick = "none" /\ ~sampler.drain
    BY <1>1 DEF QuietInv, AtLoad
<1> QED
    BY <1>1, <1>2, <1>4, <1>5, RunMoves, AwaitedRoles

\* The k6 summary.
LEMMA SummaryStep ==
    ASSUME IInv, NEW ok \in BOOLEAN, NEW counted \in BOOLEAN, NEW n \in {Cardinality(Users), 0},
           Summary(ok, counted, n)
    PROVE  IInv'
<1> USE DEF IInv
<1>1. /\ run.step = "summary" /\ run \in RunRec /\ expected \in 0..Cardinality(Users)
      /\ ok => counted
      /\ run' = Noted(run, ok, IF counted THEN "audit" ELSE "after")
      /\ expected' = (IF counted THEN n ELSE expected)
      /\ UNCHANGED <<child, registry, sampler, interrupted>> /\ UNCHANGED auditVars
    BY DEF Summary, RunTypes
<1>2. expected' \in 0..Cardinality(Users)
    <2>1. Cardinality(Users) \in Nat
        BY AuditAssumption, FS_CardinalityType
    <2> QED
        BY <1>1, <2>1
<1>3. PICK next \in Steps : next = IF counted THEN "audit" ELSE "after"
    BY AwaitedRoles
<1>4. /\ run' \in RunRec /\ run'.step = next /\ run'.failures = (run.failures \/ ~ok)
      /\ run'.failed = run.failed /\ run'.harmed = run.harmed /\ run'.written = run.written
      /\ run'.passed = run.passed /\ run'.scenario = run.scenario
    BY <1>1, <1>3, NotedFacts
<1>5. HarmInv'
    BY <1>1, <1>3, <1>4 DEF DoneInv, HarmInv
<1>6. DoneInv'
    BY <1>1, <1>3, <1>4, <1>5, DoneGoesOn
<1>7. ~sampler.on /\ sampler.tick = "none" /\ ~sampler.drain
    BY <1>1 DEF QuietInv, AtLoad
<1> QED
    BY <1>1, <1>2, <1>4, <1>6, <1>7, RunMoves, AwaitedRoles

\* The verdict: no recorded failure, hence nothing harmed.
LEMMA VerdictStep ==
    ASSUME IInv, NEW warnings \in BOOLEAN, Verdict(warnings)
    PROVE  IInv'
<1> USE DEF IInv
<1>1. /\ run.step = "verdict" /\ run \in RunRec /\ expected \in 0..Cardinality(Users)
      /\ run' = EndScenario(run, ~run.failures /\ ~warnings /\ Readable /\ run.green)
      /\ UNCHANGED <<child, registry, sampler, interrupted, expected>> /\ UNCHANGED auditVars
    BY DEF Verdict, RunTypes
<1>2. ~sampler.on /\ sampler.tick = "none" /\ ~sampler.drain
    BY <1>1 DEF QuietInv, AtLoad
<1>3. PICK ok \in BOOLEAN : ok = (~run.failures /\ ~warnings /\ Readable /\ run.green)
    OBVIOUS
<1>4. ok \in BOOLEAN /\ run' = EndScenario(run, ok) /\ (ok => ~run.failures)
    BY <1>1, <1>3
<1> HIDE <1>3
<1>5. /\ run.passed <= run.scenario - 1
      /\ ~run.failed => run.passed = run.scenario - 1
      /\ ok => Proven
      /\ ok /\ run.harmed => run.failed
      /\ ~run.written
    BY <1>1, <1>4 DEF DoneInv, HarmInv
<1>6. DoneInv' /\ run' \in RunRec
  <2>1. CASE ~ok
    <3>1. ok = FALSE
        BY <2>1
    <3> QED
        BY <1>1, <1>4, <3>1, DoneFails
  <2>2. CASE ok
    <3>1. PICK e : e = EndScenario(run, TRUE)
        OBVIOUS
    <3>2. /\ e \in RunRec
          /\ e.step \in {"write", "enter"} /\ e.failures = FALSE
          /\ e.failed = run.failed /\ e.harmed = run.harmed
          /\ e.written = run.written
          /\ e.passed = run.passed + 1
          /\ e.step = "enter" => e.scenario = run.scenario + 1
          /\ e.step = "write" => e.scenario = Scenarios /\ e.scenario = run.scenario
      <4>1. run \in RunRec /\ run.passed <= run.scenario - 1
        BY <1>1, <1>5
      <4> QED
        BY <3>1, <4>1, ScenarioPasses
    <3>3. run' = e
      <4>1. ok = TRUE
        BY <1>4, <2>2
      <4> QED
        BY <1>4, <3>1, <4>1
    <3>4. run.passed \in Nat /\ run.scenario \in Nat /\ Scenarios \in Nat
        BY <1>1, ScenariosAssumption DEF RunRec
    <3> HIDE <3>1
    <3>6. e.step = "enter" => /\ e.passed <= e.scenario - 1
                              /\ ~e.failed => e.passed = e.scenario - 1
        BY <1>5, <3>2, <3>4
    <3>7. e.step = "write" /\ ~e.failed => e.passed = Scenarios
        BY <1>5, <2>2, <3>2, <3>4
    <3>8. Proven' = Proven
        BY <1>1 DEF Proven, auditVars
    <3> QED
        BY <1>5, <2>2, <3>2, <3>3, <3>6, <3>7, <3>8 DEF DoneInv, HarmInv, ResultsTrusted
  <2> QED
    BY <2>1, <2>2
<1> QED
    BY <1>1, <1>2, <1>6, RunMoves, AwaitedRoles

\* The results.
LEMMA WriteStep ==
    ASSUME IInv, NEW wanted \in BOOLEAN, NEW ok \in BOOLEAN, Write(wanted, ok)
    PROVE  IInv'
<1> USE DEF IInv
<1>1. /\ run.step = "write" /\ run \in RunRec /\ expected \in 0..Cardinality(Users)
      /\ UNCHANGED <<child, registry, sampler, interrupted, expected>> /\ UNCHANGED auditVars
    BY DEF Write, RunTypes
<1>2. ~sampler.on /\ sampler.tick = "none" /\ ~sampler.drain
    BY <1>1 DEF QuietInv, AtLoad
<1>3. PICK w \in BOOLEAN, f \in BOOLEAN :
        /\ w = (wanted /\ ~run.failed /\ ok) /\ f = (run.failed \/ (wanted /\ ~run.failed /\ ~ok))
    OBVIOUS
<1>4. run' = [run EXCEPT !.step = "cleanup", !.written = w, !.failed = f]
    BY <1>3 DEF Write
<1>5. /\ run' \in RunRec /\ run'.step = "cleanup" /\ run'.written = w
      /\ run'.failed = f /\ run'.failures = run.failures
      /\ run'.harmed = run.harmed /\ run'.passed = run.passed
    BY <1>1, <1>4, AwaitedRoles DEF RunRec
<1>6. run.harmed => run.failed \/ run.failures
    BY <1>1 DEF DoneInv, HarmInv
<1>7. run'.written => run.passed = Scenarios /\ ~run.harmed /\ Proven
    BY <1>1, <1>3, <1>5 DEF DoneInv
<1>8. HarmInv'
    BY <1>3, <1>5, <1>6 DEF HarmInv
<1>9. DoneInv'
    BY <1>1, <1>5, <1>7, <1>8 DEF DoneInv, ResultsTrusted, Proven, auditVars
<1> QED
    BY <1>1, <1>2, <1>5, <1>9, RunMoves, AwaitedRoles

\* A scenario begins with a new report.
LEMMA EnterStep ==
    ASSUME IInv, NEW ok \in BOOLEAN, Enter(ok)
    PROVE  IInv'
<1> USE DEF IInv
<1>1. /\ run.step = "enter" /\ run \in RunRec
      /\ run' = [run EXCEPT !.step = "recreate"] \/ run' = EndScenario(run, FALSE)
      /\ sampler' = SamplersOff /\ file' = [state |-> "none", pass |-> FALSE] /\ expected' = 0
      /\ UNCHANGED <<sys, audit, child, registry, interrupted>>
    BY DEF Enter, RunTypes
<1>2. /\ sampler' \in SamplerRec /\ ~sampler'.on /\ sampler'.tick = "none" /\ ~sampler'.drain
    BY <1>1 DEF SamplersOff, SamplerRec
<1>3. expected' \in 0..Cardinality(Users)
    BY <1>1, AuditAssumption, FS_CardinalityType
<1>4. ~Alive("audit") /\ audit.pc = "off" /\ ~Alive("sampler") /\ registry.mode # "draining"
    BY <1>1, AwaitedRoles DEF QuietInv, NonCleanup, Roles, AtLoad
<1>5. file' \in FileRec /\ file'.state = "none"
    BY <1>1 DEF FileRec
<1>6. AuditInv'
  <2>1. FileInv'
    BY <1>1, <1>4, <1>5 DEF FileInv, Readable, AuditRuns
  <2>2. AuditTypes'
    BY <1>1, <1>5 DEF AuditInv, AuditTypes
  <2>3. ~AuditRuns' /\ SnapOlder'
    BY <1>1, <1>4 DEF AuditRuns, SnapOlder, AfterRows, AfterStock, AfterBuyers
  <2>4. CandOlder'
    BY <2>3 DEF CandOlder
  <2>5. Second' /\ Third'
    BY <1>1, <1>4 DEF AuditInv, Second, Third, HasCand, AfterQueue, AfterCounts, AfterRows
  <2> QED
    BY <2>1, <2>2, <2>3, <2>4, <2>5 DEF AuditInv
<1>7. DoneInv' /\ run' \in RunRec
  <2>1. CASE run' = [run EXCEPT !.step = "recreate"]
    <3>1. /\ run' \in RunRec /\ run'.step = "recreate" /\ run'.failures = run.failures
          /\ run'.failed = run.failed /\ run'.harmed = run.harmed /\ run'.written = run.written
          /\ run'.passed = run.passed /\ run'.scenario = run.scenario
        BY <1>1, <2>1, StepFacts, AwaitedRoles
    <3>2. HarmInv'
        BY <1>1, <3>1 DEF DoneInv, HarmInv
    <3> QED
        BY <1>1, <3>1, <3>2, DoneGoesOn
  <2>2. CASE run' = EndScenario(run, FALSE)
    BY <1>1, <2>2, DoneFails
  <2> QED
    BY <1>1, <2>1, <2>2
<1>8. RunTypes'
    BY <1>1, <1>2, <1>3, <1>7 DEF RunTypes
<1>9. TermInv'
    BY <1>1, TermFrame
<1>10. \A r \in NonCleanup \ {"sampler"} : ~Alive(r)
    BY <1>1, AwaitedRoles DEF QuietInv
<1>11. QuietInv'
    BY <1>1, <1>2, <1>4, <1>10 DEF QuietInv, Alive
<1> QED
    BY <1>6, <1>7, <1>8, <1>9, <1>11

\* The child that was awaited is gone or was never there: the run continues.
LEMMA ContinueDone ==
    ASSUME IInv, run.step \in DOMAIN Awaited, NEW how \in {"ok", "bad", "refused"}, Continue(how),
           UNCHANGED <<file, sampler, interrupted>>,
           \A r \in Roles \ {Awaited[run.step]} : child'[r] = child[r],
           child'[Awaited[run.step]] = "none",
           how = "ok" => Alive(Awaited[run.step]),
           how = "ok" /\ run.step = "audit" => Proven,
           how = "refused" => run.step \notin {"workload", "cleanup"}
    PROVE  /\ DoneInv' /\ run' \in RunRec
           /\ run.step = "workload" => run'.step = "stopping"
<1> USE DEF IInv
<1>1. /\ run \in RunRec /\ Proven' = Proven
      /\ DOMAIN Awaited = {"datastore", "recreate", "render", "probe", "before", "workload", "audit",
                           "after", "ps", "inspect", "logs", "cleanup"}
    BY AwaitedRoles DEF RunTypes, Proven
<1>2. PICK ok \in BOOLEAN : ok = (how = "ok")
    OBVIOUS
<1>3. ASSUME NEW next \in Steps, run' = [run EXCEPT !.step = next],
             run.step \in {"datastore", "recreate", "render", "probe", "before"},
             next \in {"enter", "ready", "probe", "before", "workload"}
      PROVE  DoneInv' /\ run' \in RunRec
  <2>1. /\ run' \in RunRec /\ run'.step = next /\ run'.failures = run.failures
        /\ run'.failed = run.failed /\ run'.harmed = run.harmed /\ run'.written = run.written
        /\ run'.passed = run.passed /\ run'.scenario = run.scenario
    BY <1>1, <1>3, StepFacts
  <2>2. HarmInv'
    BY <1>3, <2>1 DEF DoneInv, HarmInv
  <2> QED
    BY <1>3, <2>1, <2>2, DoneGoesOn
<1>4. ASSUME run' = EndScenario(run, FALSE), run.step # "cleanup"
      PROVE  DoneInv' /\ run' \in RunRec
    BY <1>1, <1>4, DoneFails
<1>5. ASSUME NEW next \in Steps, run' = Noted(run, ok, next),
             \/ run.step = "workload" /\ next = "stopping"
             \/ run.step = "audit" /\ next = "after"
             \/ run.step \in {"after", "ps", "inspect", "logs"} /\ next \in {"ps", "inspect", "logs", "verdict"}
      PROVE  DoneInv' /\ run' \in RunRec
  <2>1. /\ run' \in RunRec /\ run'.step = next /\ run'.failures = (run.failures \/ ~ok)
        /\ run'.failed = run.failed /\ run'.harmed = run.harmed /\ run'.written = run.written
        /\ run'.passed = run.passed /\ run'.scenario = run.scenario
    BY <1>1, <1>5, NotedFacts
  <2>2. HarmInv'
    <3>1. CASE run.step = "workload"
        BY <1>5, <2>1, <3>1 DEF DoneInv, HarmInv
    <3>2. CASE run.step = "audit"
      <4>1. ~Alive("observability")'
        BY <3>2, AwaitedRoles DEF QuietInv, Alive, NonCleanup, Roles
      <4> QED
        BY <1>5, <2>1, <3>2, <4>1 DEF DoneInv, HarmInv
    <3>3. CASE run.step \in {"after", "ps", "inspect", "logs"}
      <4>1. run.step = "after" /\ ok => Alive("observability")
        BY <1>2, AwaitedRoles
      <4> QED
        BY <1>5, <2>1, <3>3, <4>1 DEF DoneInv, HarmInv
    <3> QED
        BY <1>5, <3>1, <3>2, <3>3
  <2>3. run'.step \in {"after", "ps", "inspect", "logs", "verdict"} /\ ~run'.failures => Proven'
    BY <1>1, <1>2, <1>5, <2>1 DEF DoneInv
  <2> QED
    BY <1>5, <2>1, <2>2, <2>3, DoneGoesOn
<1>6. CASE run.step = "datastore"
  <2>1. CASE ok
    BY <1>2, <1>3, <1>6, <2>1 DEF Continue, Steps
  <2>2. CASE ~ok
    <3>1. run' = [run EXCEPT !.failed = TRUE, !.step = "cleanup"]
        BY <1>2, <1>6, <2>2 DEF Continue
    <3>2. /\ run' \in RunRec /\ run'.failed = TRUE /\ run'.step = "cleanup"
          /\ run'.written = run.written
        BY <1>1, <3>1, AwaitedRoles DEF RunRec
    <3>3. ~run.written
        BY <1>6 DEF DoneInv
    <3> QED
        BY <1>6, <3>2, <3>3 DEF DoneInv, HarmInv, ResultsTrusted
  <2> QED
    BY <1>6, <2>1, <2>2
<1>7. CASE run.step \in {"recreate", "render", "probe"}
  <2>1. PICK next \in Steps : /\ next \in {"ready", "probe", "before"}
                              /\ run' = IF ok THEN [run EXCEPT !.step = next] ELSE EndScenario(run, FALSE)
    BY <1>2, <1>7 DEF Continue, Required, Probed, Steps, Awaited
  <2> QED
    BY <1>3, <1>4, <1>7, <2>1
<1>8. CASE run.step = "before"
  <2>1. run' = IF ok THEN [run EXCEPT !.step = "workload"] ELSE EndScenario(run, FALSE)
    BY <1>2, <1>8 DEF Continue, Captured, Required
  <2> QED
    BY <1>3, <1>4, <1>8, <2>1, AwaitedRoles
<1>9. CASE run.step = "after"
  <2>1. run' = Noted(run, ok, "ps")
    BY <1>2, <1>9 DEF Continue, Captured
  <2> QED
    BY <1>5, <1>9, <2>1, AwaitedRoles
<1>10. CASE run.step = "workload"
  <2>1. run' = Noted(run, ok, "stopping")
    BY <1>2, <1>10 DEF Continue
  <2>2. "stopping" \in Steps
    BY DEF Steps
  <2>3. run'.step = "stopping"
    BY <1>1, <2>1, <2>2, NotedFacts
  <2> QED
    BY <1>5, <1>10, <2>1, <2>2, <2>3
<1>11. CASE run.step \in {"audit", "ps", "inspect"} /\ how = "refused"
  <2>1. run' = EndScenario(run, FALSE)
    BY <1>11 DEF Continue
  <2> QED
    BY <1>4, <1>11, <2>1
<1>12. CASE run.step \in {"audit", "ps", "inspect"} /\ how # "refused"
  <2>1. PICK next \in Steps :
          /\ run' = Noted(run, ok, next)
          /\ \/ run.step = "audit" /\ next = "after"
             \/ run.step \in {"after", "ps", "inspect", "logs"} /\ next \in {"ps", "inspect", "logs", "verdict"}
    BY <1>2, <1>12, AwaitedRoles DEF Continue, Listed, Inspected
  <2> QED
    BY <1>5, <1>12, <2>1
<1>13. CASE run.step = "logs"
  <2>1. run' = Noted(run, ok, "verdict")
    BY <1>2, <1>13 DEF Continue, Logged
  <2> QED
    BY <1>5, <1>13, <2>1 DEF Steps
<1>14. CASE run.step = "cleanup"
  <2>1. run' = [run EXCEPT !.step = "ended", !.cleanup = how]
    BY <1>14 DEF Continue, CleanedUp
  <2>2. how \in {"ok", "bad"}
    BY <1>14
  <2>3. /\ run' \in RunRec /\ run'.step = "ended" /\ run'.failures = run.failures
        /\ run'.failed = run.failed /\ run'.harmed = run.harmed /\ run'.written = run.written
        /\ run'.passed = run.passed
    BY <1>1, <2>1, <2>2 DEF RunRec, Steps
  <2> QED
    BY <1>1, <1>14, <2>3 DEF DoneInv, HarmInv, ResultsTrusted, Proven
<1> QED
    BY <1>1, <1>6, <1>7, <1>8, <1>9, <1>10, <1>11, <1>12, <1>13, <1>14

\* A refused or failed spawn.
LEMMA SpawnFailsStep ==
    ASSUME IInv, SpawnFails
    PROVE  IInv'
<1> USE DEF IInv
<1>1. /\ run.step \in DOMAIN Awaited /\ ~Alive(Awaited[run.step]) /\ run \in RunRec
      /\ expected \in 0..Cardinality(Users)
      /\ UNCHANGED <<child, registry, sampler, interrupted, expected>> /\ UNCHANGED auditVars
    BY DEF SpawnFails, AtChild, Crash, RunTypes
<1>2. ~sampler.on /\ sampler.tick = "none" /\ ~sampler.drain
    BY <1>1, AwaitedRoles DEF QuietInv, AtLoad
<1>3. CASE run.step = "workload" /\ Crash
  <2>1. run' = [run EXCEPT !.step = "crashed"] /\ "crashed" \in Steps
    BY <1>3 DEF Crash, Steps
  <2>2. /\ run' \in RunRec /\ run'.step = "crashed" /\ run'.failures = run.failures
        /\ run'.failed = run.failed /\ run'.harmed = run.harmed /\ run'.written = run.written
        /\ run'.passed = run.passed /\ run'.scenario = run.scenario
    BY <1>1, <2>1, StepFacts
  <2>3. ~Alive("workload") /\ ~run.written
    BY <1>1, <1>3, AwaitedRoles DEF DoneInv
  <2>4. DoneInv'
    BY <1>1, <1>3, <2>2, <2>3 DEF DoneInv, HarmInv, ResultsTrusted
  <2> QED
    BY <1>1, <1>2, <2>2, <2>4, RunMoves
<1>4. CASE run.step \notin {"workload", "cleanup"} /\ Continue("refused")
  <2>1. DoneInv' /\ run' \in RunRec
    BY <1>1, <1>4, ContinueDone DEF Alive, auditVars
  <2> QED
    BY <1>1, <1>2, <2>1, RunMoves
<1> QED
    BY <1>3, <1>4 DEF SpawnFails

\* A spawn the registry accepts: no termination is under way.
LEMMA SpawnStep ==
    ASSUME IInv, Spawn
    PROVE  IInv'
<1> USE DEF IInv
<1>1. /\ run.step \in DOMAIN Awaited /\ ~Alive(Awaited[run.step])
      /\ run.step = "cleanup" \/ Accepts
      /\ child' = [child EXCEPT ![Awaited[run.step]] = "running"]
      /\ UNCHANGED <<run, registry, interrupted, expected>>
      /\ run.step # "audit" => UNCHANGED auditVars
    BY DEF Spawn, AtChild
<1>2. Awaited[run.step] \in Roles \ {"sampler"} /\ child \in ChildRec
    BY <1>1, AwaitedRoles DEF RunTypes
<1>3. /\ child' \in ChildRec /\ child'[Awaited[run.step]] = "running"
      /\ \A r \in Roles \ {Awaited[run.step]} : child'[r] = child[r]
    BY <1>1, <1>2 DEF ChildRec
<1>4. \A r \in NonCleanup \ {"sampler"} : ~Alive(r)
    BY <1>1 DEF QuietInv
<1>5. ~sampler.on /\ sampler.tick = "none" /\ ~sampler.drain /\ ~Alive("sampler")
    BY <1>1, AwaitedRoles DEF QuietInv, AtLoad
<1>6. /\ sampler' \in SamplerRec /\ sampler'.tick = "none"
      /\ run.step = "workload" => ~sampler'.drain
      /\ run.step # "workload" => sampler' = sampler
  <2>1. CASE run.step = "workload"
    BY <2>1 DEF Spawn, SamplersOff, SamplerRec
  <2>2. CASE run.step # "workload"
    BY <1>5, <2>2 DEF Spawn, RunTypes
  <2> QED
    BY <2>1, <2>2
<1>7. AuditInv' /\ (run.step = "audit" => audit'.pc = "queue")
  <2>1. CASE run.step = "audit"
    <3>1. PICK jobs \in [Users -> {"waiting", "lost"}] : AuditStarts(jobs)
        BY <2>1 DEF Spawn
    <3> QED
        BY <2>1, <3>1, AuditBegins
  <2>2. CASE run.step # "audit"
    BY <1>1, <2>2, AuditFrame
  <2> QED
    BY <2>1, <2>2
<1>8. RunTypes'
    BY <1>1, <1>3, <1>6 DEF RunTypes
<1>9. TermInv'
  <2>1. CASE run.step = "cleanup"
    <3>1. Awaited[run.step] = "cleanup"
        BY <1>1, <2>1, AwaitedRoles
    <3>2. Targets' = Targets
        BY <1>3, <3>1 DEF Targets, NonCleanup, Alive
    <3> QED
        BY <1>1, <1>3, <3>1, <3>2 DEF TermInv, TerminationExact
  <2>2. CASE run.step # "cleanup"
    <3>1. child'["cleanup"] = child["cleanup"] /\ registry.mode = "open" /\ interrupted = 0
        BY <1>1, <1>3, <2>2, AwaitedRoles DEF Accepts, Roles
    <3> QED
        BY <1>1, <3>1 DEF TermInv, TerminationExact
  <2> QED
    BY <2>1, <2>2
<1>10. QuietInv'
  <2>1. \A r \in NonCleanup \ {"sampler"} :
          Alive(r)' => run'.step \in DOMAIN Awaited /\ Awaited[run'.step] = r
    BY <1>1, <1>3, <1>4 DEF Alive, NonCleanup
  <2>2. ~Alive("sampler")'
    BY <1>2, <1>3, <1>5 DEF Alive, Roles
  <2>3. Alive("audit")' <=> audit'.pc # "off"
    <3>1. CASE run.step = "audit"
        BY <1>1, <1>3, <1>7, <3>1, AwaitedRoles DEF Alive
    <3>2. CASE run.step # "audit"
      <4>1. child'["audit"] = child["audit"] /\ audit' = audit
        BY <1>1, <1>3, <3>2, AwaitedRoles DEF Roles, auditVars
      <4> QED
        BY <4>1 DEF QuietInv, Alive
    <3> QED
        BY <3>1, <3>2
  <2>4. CASE run.step = "workload"
    <3>1. Alive("workload")' /\ registry.mode = "open"
        BY <1>1, <1>3, <2>4, AwaitedRoles DEF Alive, Accepts
    <3> QED
        BY <1>1, <1>6, <2>1, <2>2, <2>3, <2>4, <3>1 DEF QuietInv, AtLoad
  <2>5. CASE run.step # "workload"
    BY <1>1, <1>5, <1>6, <2>1, <2>2, <2>3, <2>5 DEF QuietInv
  <2> QED
    BY <2>4, <2>5
<1>11. HarmInv'
  <2>1. CASE run.step = "workload"
    <3>1. ~Alive("workload")
        BY <1>1, <2>1, AwaitedRoles
    <3> QED
        BY <1>1, <2>1, <3>1 DEF DoneInv, HarmInv
  <2>2. CASE run.step = "after"
    <3>1. ~(interrupted > 0)
        BY <1>1, <2>2 DEF Accepts
    <3> QED
        BY <1>1, <2>2, <3>1 DEF DoneInv, HarmInv
  <2>3. CASE run.step \notin {"workload", "after"}
    BY <1>1, <1>6, <2>3 DEF DoneInv, HarmInv
  <2> QED
    BY <2>1, <2>2, <2>3
<1>12. DoneInv'
  <2>1. CASE run.step = "audit"
    BY <1>1, <1>11, <2>1 DEF DoneInv, ResultsTrusted
  <2>2. CASE run.step # "audit"
    BY <1>1, <1>11, <2>2 DEF DoneInv, ResultsTrusted, Proven, auditVars
  <2> QED
    BY <2>1, <2>2
<1> QED
    BY <1>7, <1>8, <1>9, <1>10, <1>12

\* The awaited child ends.
LEMMA ClosesStep ==
    ASSUME IInv, NEW ok \in BOOLEAN, Closes(ok)
    PROVE  IInv'
<1> USE DEF IInv
<1>1. /\ run.step \in DOMAIN Awaited /\ CanClose(Awaited[run.step], ok)
      /\ child' = [child EXCEPT ![Awaited[run.step]] = "none"]
      /\ Continue(IF ok THEN "ok" ELSE "bad")
      /\ UNCHANGED <<file, registry, sampler, interrupted>>
    BY DEF Closes
<1>2. Awaited[run.step] \in Roles \ {"sampler"} /\ child \in ChildRec
    BY <1>1, AwaitedRoles DEF RunTypes
<1>3. /\ child' \in ChildRec /\ child'[Awaited[run.step]] = "none"
      /\ \A r \in Roles \ {Awaited[run.step]} : child'[r] = child[r]
    BY <1>1, <1>2 DEF ChildRec
<1>4. Alive(Awaited[run.step]) /\ (ok /\ run.step = "audit" => Proven)
    BY <1>1, AwaitedRoles DEF CanClose, AuditInv, FileInv, Proven
<1>5. PICK how \in {"ok", "bad"} : how = IF ok THEN "ok" ELSE "bad"
    OBVIOUS
<1>6. Continue(how) /\ (how = "ok" <=> ok)
    BY <1>1, <1>5
<1>7. DoneInv' /\ run' \in RunRec /\ (run.step = "workload" => run'.step = "stopping")
    BY <1>1, <1>3, <1>4, <1>6, ContinueDone
<1>8. /\ AuditInv' /\ expected' \in 0..Cardinality(Users)
      /\ run.step = "audit" => audit'.pc = "off"
      /\ run.step # "audit" => audit' = audit
  <2>1. CASE run.step = "audit"
    <3>1. /\ audit' \in AuditRec /\ audit'.pc = "off" /\ audit'.cand = NoSnap
          /\ audit'.final = FALSE /\ audit'.seen = audit.seen
        BY <2>1, AuditOffType DEF Closes, AuditRec, AuditInv, AuditTypes
    <3>2. sys' \in SysRec /\ file' \in FileRec /\ expected' = 0 /\ (Readable' => audit'.seen)
        BY <1>1, <2>1, <3>1, SysQuietType DEF Closes, AuditInv, AuditTypes, FileInv, Readable
    <3>3. expected' \in 0..Cardinality(Users)
        BY <3>2, AuditAssumption, FS_CardinalityType
    <3> QED
        BY <2>1, <3>1, <3>2, <3>3, OffStep
  <2>2. CASE run.step # "audit"
    <3>1. UNCHANGED auditVars /\ expected' = expected
        BY <1>1, <2>2 DEF Closes, auditVars
    <3> QED
        BY <2>2, <3>1, AuditFrame DEF RunTypes, auditVars
  <2> QED
    BY <2>1, <2>2
<1>9. RunTypes'
    BY <1>1, <1>3, <1>7, <1>8 DEF RunTypes
<1>10. Targets' \subseteq Targets /\ child'["cleanup"] # "termed"
    BY <1>3 DEF Targets, Alive, NonCleanup, Roles, TermInv, TerminationExact
<1>11. TermInv'
    BY <1>1, <1>10 DEF TermInv, TerminationExact
<1>12. QuietInv'
  <2>1. \A r \in NonCleanup \ {"sampler"} : ~Alive(r)'
    BY <1>3 DEF QuietInv, Alive, NonCleanup
  <2>2. Alive("audit")' <=> audit'.pc # "off"
    BY <1>8, <2>1, AwaitedRoles DEF QuietInv, NonCleanup, Roles
  <2>3. Alive("sampler")' => sampler'.tick = "stats"
    BY <1>1, <1>2, <1>3 DEF QuietInv, Alive, Roles
  <2>4. sampler.on \/ sampler.tick # "none" \/ sampler.drain => run'.step = "stopping"
    BY <1>1, <1>7, AwaitedRoles DEF QuietInv, AtLoad
  <2> QED
    BY <1>1, <2>1, <2>2, <2>3, <2>4 DEF QuietInv, AtLoad
<1> QED
    BY <1>7, <1>8, <1>9, <1>11, <1>12

\* The audit process ends only with its child.
LEMMA AuditStaysOn ==
    ASSUME audit \in AuditRec, audit.pc # "off", NEW e, AuditNext(e)
    PROVE  audit'.pc # "off"
<1>1. CASE SystemNext
  <2>1. SysStep(sys')
    BY <1>1, SystemNextMoves
  <2> QED
    BY <2>1, SysStepFacts
<1>2. CASE CollectNext
    BY <1>2 DEF CollectNext, Read, ReadQueue, ReadWorker, ReadCounts, ReadRows, ReadStock,
                ReadBuyers, ReadLedger, AuditRec
<1>3. CASE CollectFails
    BY <1>3 DEF CollectFails, Reset, AuditRec
<1>4. CASE Judge
  <2>1. audit.snap.idle \in BOOLEAN /\ audit.final \in BOOLEAN /\ SameFingerprint \in BOOLEAN
    BY DEF AuditRec, Snaps, SameFingerprint
  <2> HIDE DEF SameFingerprint
  <2>2. CASE ~audit.snap.idle
    BY <1>4, <2>2 DEF Judge, Reset, AuditRec
  <2>3. CASE audit.snap.idle /\ audit.final
    BY <1>4, <2>3 DEF Judge, Reset, AuditRec
  <2>4. CASE audit.snap.idle /\ ~audit.final /\ ~SameFingerprint
    BY <1>4, <2>4 DEF Judge, AuditRec
  <2>5. CASE audit.snap.idle /\ ~audit.final /\ SameFingerprint
    BY <1>4, <2>5 DEF Judge, AuditRec
  <2> QED
    BY <2>1, <2>2, <2>3, <2>4, <2>5
<1>5. CASE Expires \/ PublishFails
    BY <1>5, AuditOffType DEF Expires, PublishFails, AuditRec
<1>6. CASE LinkReport(e)
    BY <1>6 DEF LinkReport, AuditRec
<1>7. ASSUME NEW long \in BOOLEAN, Wake(long) PROVE audit'.pc # "off"
    BY <1>7 DEF Wake, AuditRec
<1>8. ASSUME NEW closes \in BOOLEAN, PublishProven(closes) PROVE audit'.pc # "off"
    BY <1>8 DEF PublishProven, AuditRec
<1> QED
    BY <1>1, <1>2, <1>3, <1>4, <1>5, <1>6, <1>7, <1>8 DEF AuditNext

\* The audit child beside the runner.
LEMMA AuditStepsStep ==
    ASSUME IInv, AuditSteps
    PROVE  IInv'
<1> USE DEF IInv
<1>1. /\ Alive("audit") /\ AuditNext(expected)
      /\ UNCHANGED <<run, child, registry, sampler, interrupted, expected>>
    BY DEF AuditSteps, Alive
<1>2. run.step = "audit" /\ audit.pc # "off"
    BY <1>1, AwaitedRoles DEF QuietInv, NonCleanup, Roles
<1>3. AuditInv'
    BY <1>1, AuditStep
<1>4. audit'.pc # "off"
    BY <1>1, <1>2, AuditStaysOn DEF AuditInv, AuditTypes
<1>5. RunTypes' /\ TermInv'
    BY <1>1, TermFrame DEF RunTypes
<1>6. QuietInv'
    BY <1>1, <1>2, <1>4 DEF QuietInv, Alive, AtLoad
<1>7. DoneInv'
    BY <1>1, <1>2 DEF DoneInv, HarmInv, ResultsTrusted, Alive
<1> QED
    BY <1>3, <1>5, <1>6, <1>7

\* Nothing has begun.
LEMMA InitIInv ==
    ASSUME Init
    PROVE  IInv
<1> USE DEF Init
<1>1. run \in RunRec /\ child \in ChildRec /\ registry \in RegistryRec
    <2>1. "datastore" \in Steps
        BY AwaitedRoles
    <2>2. 1 \in 1..Scenarios /\ 0 \in 0..Scenarios
        BY ScenariosAssumption
    <2> QED
        BY <2>1, <2>2 DEF RunRec, ChildRec, RegistryRec, NonCleanup, Roles
<1>2. /\ run.step = "datastore" /\ run.scenario = 1 /\ run.passed = 0 /\ run.written = FALSE
      /\ run.harmed = FALSE
    OBVIOUS
<1>3. /\ sampler \in SamplerRec /\ ~sampler.on /\ sampler.tick = "none" /\ ~sampler.drain
    BY DEF SamplersOff, SamplerRec
<1>4. expected \in 0..Cardinality(Users) /\ interrupted \in 0..2
    BY AuditAssumption, FS_CardinalityType
<1>5. /\ audit \in AuditRec /\ audit.pc = "off" /\ audit.cand = NoSnap /\ audit.final = FALSE
    BY AuditOffType DEF AuditInit
<1>6. sys \in SysRec /\ file \in FileRec /\ file.state = "none"
    BY SysQuietType DEF AuditInit, FileRec
<1>7. AuditInv
  <2>1. ~HasCand /\ ~AuditRuns
    BY <1>5 DEF HasCand, AuditRuns
  <2>2. SnapOlder /\ CandOlder /\ Second /\ Third
    BY <1>5, <2>1 DEF SnapOlder, CandOlder, Second, Third, AfterRows, AfterStock, AfterBuyers
  <2> QED
    BY <1>5, <1>6, <2>1, <2>2 DEF AuditInv, AuditTypes, FileInv, Readable
<1>8. \A r \in Roles : ~Alive(r)
    BY DEF Alive
<1>9. TermInv
    BY <1>4, <1>8 DEF TermInv, TerminationExact, Targets, NonCleanup, Roles
<1>10. QuietInv
    BY <1>3, <1>5, <1>8 DEF QuietInv, NonCleanup, Roles
<1>11. DoneInv
    BY <1>2 DEF DoneInv, HarmInv, ResultsTrusted
<1> QED
    BY <1>1, <1>3, <1>4, <1>7, <1>9, <1>10, <1>11 DEF IInv, RunTypes

\* Every step of a load run preserves the invariant.
LEMMA NextIInv ==
    ASSUME IInv, [Next]_vars
    PROVE  IInv'
<1>1. CASE MainSteps
  <2>1. ASSUME NEW ok \in BOOLEAN, Enter(ok) \/ Ready(ok) \/ Evidence(ok) \/ Verdict(ok)
        PROVE  IInv'
    BY <2>1, EnterStep, ReadyStep, EvidenceStep, VerdictStep
  <2>2. ASSUME NEW wanted \in BOOLEAN, NEW ok \in BOOLEAN, Write(wanted, ok) PROVE IInv'
    BY <2>2, WriteStep
  <2>3. ASSUME NEW ok \in BOOLEAN, NEW counted \in BOOLEAN, NEW n \in {Cardinality(Users), 0},
               Summary(ok, counted, n)
        PROVE  IInv'
    BY <2>3, SummaryStep
  <2> QED
    BY <1>1, <2>1, <2>2, <2>3, SpawnStep, SpawnFailsStep, SamplerStep, StoppedStep, DrainStep
       DEF MainSteps
<1>2. CASE TimerSteps
    BY <1>2, TimerStep DEF TimerSteps
<1>3. CASE UNCHANGED vars
  <2>1. /\ UNCHANGED <<run, child, registry, sampler, interrupted, expected>> /\ UNCHANGED auditVars
    BY <1>3 DEF vars
  <2> QED
    BY <2>1, ChildFrame DEF IInv, RunTypes, TermInv, TerminationExact, Alive
<1>4. ASSUME NEW ok \in BOOLEAN, Closes(ok) PROVE IInv'
    BY <1>4, ClosesStep
<1> QED
    BY <1>1, <1>2, <1>3, <1>4, SamplerStep, KillSurvivorsStep, TerminationEndsStep, SignalStep,
       AuditStepsStep
       DEF Next

\* main() of stress.mjs, its samplers and registry and the audit process of
\* load/audit.ts keep the inductive invariant, under every interleaving with
\* the worker, signals and timeouts.
THEOREM LoadRunInvariant == FairSpec => []IInv
<1>1. Init => IInv
    BY InitIInv
<1>2. IInv /\ [Next]_vars => IInv'
    BY NextIInv
<1> QED
    BY <1>1, <1>2, PTL DEF FairSpec

\* The types are part of the invariant.
LEMMA IInvTypes == IInv => TypeOK
BY DEF IInv, RunTypes, AuditInv, AuditTypes, TypeOK, AuditTypeOK, RunRec, ChildRec, RegistryRec,
       SamplerRec, SysRec, AuditRec, AuditPcs, FileRec

\* The types of the runner, its children and samplers and of the audit.
THEOREM LoadRunTypes == FairSpec => []TypeOK
BY LoadRunInvariant, IInvTypes, PTL

\* createChildRegistry: a termination knows every child it has to end, none is
\* spawned behind its back by main() or a sampler's tick, the cleanup is never
\* among them, and an interruption closes the registry for good.
THEOREM LoadTerminationExact == FairSpec => []TerminationExact
<1>1. IInv => TerminationExact
    BY DEF IInv, TermInv
<1> QED
    BY <1>1, LoadRunInvariant, PTL

\* Where no load is left.
LEMMA IInvQuiet == IInv => QuietAfterLoad
<1> SUFFICES ASSUME IInv, run.step \notin {"workload", "stopping", "drain"} \cup Over
             PROVE  /\ ~Alive("workload") /\ ~Alive("sampler")
                    /\ ~sampler.on /\ sampler.tick = "none"
                    /\ registry.mode # "draining"
    BY DEF QuietAfterLoad
<1>1. ~sampler.on /\ sampler.tick = "none" /\ ~sampler.drain
    BY DEF IInv, QuietInv, AtLoad
<1> QED
    BY <1>1, AwaitedRoles DEF IInv, QuietInv, NonCleanup, Roles

\* stopSamplers and the drain that is awaited after it: no workload, no tick and
\* no drain of a scenario is left when its audit, the next scenario or the
\* cleanup begins.
THEOREM LoadQuiet == FairSpec => []QuietAfterLoad
BY LoadRunInvariant, IInvQuiet, PTL

\* main() writes results only if every scenario passed with a proven, passing
\* report and the runner signalled no workload and no audit of the run, although
\* a child that gets SIGTERM may exit 0.
THEOREM LoadResultsTrusted == FairSpec => []ResultsTrusted
<1>1. IInv => ResultsTrusted
    BY DEF IInv, DoneInv
<1> QED
    BY <1>1, LoadRunInvariant, PTL

\* waitForConvergence and publishAuditReport: whatever audit.json shows has been
\* the state of the system at one instant, although the seven reads of a snapshot
\* interleave with the worker, the reconciler and losses.
THEOREM LoadReportSeen == FairSpec => []ReportSeen
<1>1. IInv => ReportSeen
    BY DEF IInv, AuditInv, FileInv, ReportSeen
<1> QED
    BY <1>1, LoadRunInvariant, PTL
=============================================================================
