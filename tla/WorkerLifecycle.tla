-------------------------- MODULE WorkerLifecycle --------------------------
(***************************************************************************)
(* The life of a worker process: ReconciliationService.startLifecycle      *)
(* (boot: pause the queue, recover orphans, drain, diff, start the         *)
(* consumer, resume), the chain of periodic passes and DLQ sweeps, the     *)
(* OrdersConsumer it starts and may lose, the readiness it publishes, and  *)
(* its shutdown.  Worker processes may overlap (a restart during a slow    *)
(* shutdown): the queue and the Postgres session lock are shared.          *)
(*                                                                         *)
(* What a pass or a sweep does to orders is the subject of OrderPipeline;  *)
(* here it ends healthy, degraded or with an error.  Code between two      *)
(* awaits is one step.                                                     *)
(*                                                                         *)
(* Assumed of Postgres: the session lock lasts as long as the process that *)
(* took it works under it.  Its connection is lost only with the process   *)
(* (an error of a checked-out client is an uncaught exception, which shuts *)
(* the process down: Crash), or shows in the unlock (UnlockFails).  Work   *)
(* that goes on after a connection was lost, until the process learns of   *)
(* it, is not modelled.                                                    *)
(***************************************************************************)
EXTENDS Integers, Sequences, FiniteSets, SequencesExt

CONSTANTS
    Workers,      \* worker processes
    NoWorker,     \* nobody holds the session lock
    MaxRestarts   \* bound: processes started after the first ones

ASSUME WorkersAssumption == NoWorker \notin Workers
ASSUME RestartsAssumption == MaxRestarts \in Nat

VARIABLES
    worker,       \* the volatile state of each process
    paused,       \* the orders queue is paused (in Redis)
    active,       \* the job a worker processes: "no", "mine", or "orphan" when
                  \* its process died
    lock,         \* holder of the advisory lock flash-reconcile:<saleId>
    restarts

vars == <<worker, paused, active, lock, restarts>>

Stages == {"lock", "pause", "prepare", "drain", "diff", "start", "install", "resume",
           "verify", "publish", "unlock", "running", "cleanup", "cleanupClose", "dead",
           "aborted", "down"}

\* Steps of startLifecycle before processingStarted, and after it.
BeforeProcessing == {"lock", "pause", "prepare", "drain", "diff", "start"}
Transition == {"install", "resume", "verify", "publish"}

Fresh == [boot |-> "lock",
          consumer |-> "none",             \* none, prepared, running, terminated, closed
          closing |-> FALSE,
          subscribed |-> FALSE,            \* terminationDisposer
          fatal |-> FALSE,                 \* fatalError
          timers |-> FALSE,                \* lifecycleDisposer
          degraded |-> FALSE,              \* bootResult.degraded
          bootstrapReconciled |-> FALSE,
          consumerReady |-> FALSE,
          healthy |-> FALSE,               \* reconciliationHealthy
          confirmed |-> FALSE,             \* reconciliationFailureConfirmed
          chain |-> <<>>,                  \* maintenanceTail: scheduled, oldest first
          busy |-> FALSE,                  \* the head of the chain runs
          coalesced |-> FALSE,             \* passCoalesced
          wasHealthy |-> FALSE,            \* captured by runContinuousPass
          structural |-> FALSE]            \* observer: a confirmed failure has been
                                           \* met and no healthy pass since

\* Types and bounds: triggers that arrive faster than passes end do not make the
\* maintenance chain grow.
TypeOK ==
    /\ \A w \in Workers :
          /\ worker[w].boot \in Stages
          /\ Len(worker[w].chain) <= 2 /\ IsInjective(worker[w].chain)
    /\ paused \in BOOLEAN
    /\ active \in [Workers -> {"no", "mine", "orphan"}]
    /\ lock \in Workers \cup {NoWorker}
    /\ restarts \in 0..MaxRestarts

Init ==
    /\ worker = [w \in Workers |-> Fresh]
    /\ paused = FALSE
    /\ active = [w \in Workers |-> "no"]
    /\ lock = NoWorker
    /\ restarts = 0

Become(w, state) == worker' = [worker EXCEPT ![w] = state]
Boot(w, stage) == Become(w, [worker[w] EXCEPT !.boot = stage])
Release(w) == lock' = IF lock = w THEN NoWorker ELSE lock

\* fail(): an error is a confirmed failure.
Failed(state) == [state EXCEPT !.healthy = FALSE, !.confirmed = TRUE, !.structural = TRUE]

\* The flags that every teardown clears.
TornDown(state) ==
    [Failed(state) EXCEPT !.bootstrapReconciled = FALSE, !.consumerReady = FALSE,
                          !.timers = FALSE, !.subscribed = FALSE]

-----------------------------------------------------------------------------
(* Boot, under the session lock from the pause until readiness is published *)

AcquireLock(w) ==
    /\ worker[w].boot = "lock" /\ ~worker[w].closing
    /\ lock = NoWorker
    /\ lock' = w
    /\ Boot(w, "pause")
    /\ UNCHANGED <<paused, active, restarts>>

BootPause(w) ==
    /\ worker[w].boot = "pause" /\ ~worker[w].closing
    /\ paused' = TRUE
    /\ Boot(w, "prepare")
    /\ UNCHANGED <<active, lock, restarts>>

\* Mutant: the consumer, and with it the stalled check, is created only later.
BootPrepareLazily(w) ==
    /\ worker[w].boot = "prepare" /\ ~worker[w].closing
    /\ Boot(w, "drain")
    /\ UNCHANGED <<paused, active, lock, restarts>>

\* The consumer is created, but does not run: only its stalled check does.
BootPrepare(w) ==
    /\ worker[w].boot = "prepare" /\ ~worker[w].closing
    /\ Become(w, [worker[w] EXCEPT !.boot = "drain",
                    !.consumer = IF @ = "none" THEN "prepared" ELSE @])
    /\ UNCHANGED <<paused, active, lock, restarts>>

\* Mutant: the diff does not wait for the active jobs.
BootWithoutDrain(w) ==
    /\ worker[w].boot = "drain" /\ ~worker[w].closing
    /\ Boot(w, "diff")
    /\ UNCHANGED <<paused, active, lock, restarts>>

\* getActiveCount() = 0, orphans included.
BootDrained(w) ==
    /\ worker[w].boot = "drain" /\ ~worker[w].closing
    /\ \A v \in Workers : active[v] = "no"
    /\ Boot(w, "diff")
    /\ UNCHANGED <<paused, active, lock, restarts>>

\* ensureSale, seed and runDiff; then the subscription to terminations.
BootDiff(w) ==
    /\ worker[w].boot = "diff" /\ ~worker[w].closing
    /\ \E degraded \in BOOLEAN :
          Become(w, [worker[w] EXCEPT !.boot = "start", !.degraded = degraded,
                       !.bootstrapReconciled = FALSE, !.consumerReady = FALSE,
                       !.healthy = FALSE, !.subscribed = TRUE])
    /\ UNCHANGED <<paused, active, lock, restarts>>

\* Any awaited call of bootPass may fail, the drain by its deadline: the lock is
\* released and the boot starts over after a delay.
BootFail(w) ==
    /\ worker[w].boot \in {"pause", "prepare", "drain", "diff"}
    /\ ~worker[w].closing
    /\ Become(w, [Failed(worker[w]) EXCEPT !.boot = "lock"])
    /\ Release(w)
    /\ UNCHANGED <<paused, active, restarts>>

\* A checkpoint after stop(): planned cancellation.
BootAbort(w) ==
    /\ worker[w].boot \in BeforeProcessing /\ worker[w].closing
    /\ Become(w, [worker[w] EXCEPT !.boot = "aborted", !.subscribed = FALSE])
    /\ Release(w)
    /\ UNCHANGED <<paused, active, restarts>>

ConsumerStart(w) ==
    /\ worker[w].boot = "start" /\ ~worker[w].closing
    /\ Become(w, [worker[w] EXCEPT !.boot = "install", !.consumer = "running"])
    /\ UNCHANGED <<paused, active, lock, restarts>>

\* checkpoint() and throwIfConsumerTerminated()
Interrupted(w) == worker[w].closing \/ worker[w].fatal

InstallContinuousLifecycle(w) ==
    /\ worker[w].boot = "install" /\ ~Interrupted(w)
    /\ Become(w, [worker[w] EXCEPT !.boot = "resume", !.timers = TRUE])
    /\ UNCHANGED <<paused, active, lock, restarts>>

\* queue.resume() was called before the checkpoint that notices an interruption.
Resume(w) ==
    /\ worker[w].boot = "resume"
    /\ paused' = FALSE
    /\ Boot(w, "verify")
    /\ UNCHANGED <<active, lock, restarts>>

Verify(w) ==
    /\ worker[w].boot = "verify" /\ ~Interrupted(w)
    /\ ~paused
    /\ Boot(w, "publish")
    /\ UNCHANGED <<paused, active, lock, restarts>>

\* bootResult is not used after this.
Published(state) ==
    [state EXCEPT !.boot = "unlock", !.bootstrapReconciled = TRUE, !.consumerReady = TRUE,
                  !.healthy = ~state.degraded, !.confirmed = state.degraded,
                  !.structural = state.degraded,
                  !.degraded = FALSE]

\* Mutant: readiness is published without a last look at the consumer.
PublishUnchecked(w) ==
    /\ worker[w].boot = "publish" /\ ~worker[w].closing
    /\ Become(w, Published(worker[w]))
    /\ UNCHANGED <<paused, active, lock, restarts>>

Publish(w) ==
    /\ worker[w].boot = "publish" /\ ~Interrupted(w)
    /\ Become(w, Published(worker[w]))
    /\ UNCHANGED <<paused, active, lock, restarts>>

Unlock(w) ==
    /\ worker[w].boot = "unlock"
    /\ Boot(w, "running")
    /\ Release(w)
    /\ UNCHANGED <<paused, active, restarts>>

\* The unlock fails, with the connection that held the lock, after readiness was
\* published: cleanupHalfTransition follows, outside the lock.
UnlockFails(w) ==
    /\ worker[w].boot = "unlock"
    /\ Become(w, [TornDown(worker[w]) EXCEPT !.boot = "cleanup"])
    /\ Release(w)
    /\ UNCHANGED <<paused, active, restarts>>

\* An interruption, or a failing call, once processing may have started:
\* cleanupHalfTransition.
TransitionFails(w) ==
    /\ worker[w].boot \in {"start"} \cup Transition
    /\ worker[w].boot = "start" => ~worker[w].closing
    /\ Become(w, [TornDown(worker[w]) EXCEPT !.boot = "cleanup"])
    /\ UNCHANGED <<paused, active, lock, restarts>>

CleanupPause(w) ==
    /\ worker[w].boot = "cleanup"
    /\ paused' \in {TRUE, paused}
    /\ Boot(w, "cleanupClose")
    /\ UNCHANGED <<active, lock, restarts>>

\* consumer.close() waits for the job being processed.  After a failed unlock the
\* lock, if this process has it at all, belongs to a pass or sweep.
CleanupClose(w) ==
    /\ worker[w].boot = "cleanupClose"
    /\ active[w] # "mine"
    /\ Become(w, [worker[w] EXCEPT !.boot = "dead", !.consumer = "closed"])
    /\ IF worker[w].busy THEN UNCHANGED lock ELSE Release(w)
    /\ UNCHANGED <<paused, active, restarts>>

-----------------------------------------------------------------------------
(* The consumer *)

TakeJob(w) ==
    /\ worker[w].consumer = "running" /\ ~worker[w].closing
    /\ worker[w].boot # "cleanupClose"
    /\ ~paused
    /\ active[w] = "no"
    /\ active' = [active EXCEPT ![w] = "mine"]
    /\ UNCHANGED <<worker, paused, lock, restarts>>

FinishJob(w) ==
    /\ active[w] = "mine"
    /\ active' = [active EXCEPT ![w] = "no"]
    /\ UNCHANGED <<worker, paused, lock, restarts>>

\* The stalled check of any prepared or running consumer returns an orphan.
RecoverOrphan(w) ==
    /\ active[w] = "orphan"
    /\ \E v \in Workers : worker[v].consumer \in {"prepared", "running"}
    /\ active' = [active EXCEPT ![w] = "no"]
    /\ UNCHANGED <<worker, paused, lock, restarts>>

\* handleRunTermination and, if subscribed, handleUnexpectedConsumerTermination.
ConsumerTerminates(w) ==
    /\ worker[w].consumer = "running" /\ ~worker[w].closing
    /\ worker[w].boot # "cleanupClose"
    /\ LET ended == [worker[w] EXCEPT !.consumer = "terminated"] IN
       Become(w, IF worker[w].subscribed
                 THEN [Failed(ended) EXCEPT !.consumerReady = FALSE, !.timers = FALSE,
                                            !.fatal = TRUE]
                 ELSE ended)
    /\ UNCHANGED <<paused, active, lock, restarts>>

-----------------------------------------------------------------------------
(* Passes and sweeps: triggerPass, triggerDlqSweep, scheduleMaintenance *)

Scheduled(state, work) == [state EXCEPT !.chain = Append(@, work)]

\* runContinuousPass reads the health as soon as it is called.
PassScheduled(state) == Scheduled([state EXCEPT !.wasHealthy = state.healthy], "pass")

\* Mutant: a trigger during a pass schedules another one at once.
TriggerPassAlways(w) ==
    /\ worker[w].timers /\ Len(worker[w].chain) < 4
    /\ Become(w, PassScheduled(worker[w]))
    /\ UNCHANGED <<paused, active, lock, restarts>>

TriggerPass(w) ==
    /\ worker[w].timers
    /\ Become(w, IF Contains(worker[w].chain, "pass")
                 THEN [worker[w] EXCEPT !.coalesced = TRUE]
                 ELSE PassScheduled(worker[w]))
    /\ UNCHANGED <<paused, active, lock, restarts>>

\* By the timer or by a failed hint.
TriggerDlqSweep(w) ==
    /\ worker[w].timers
    /\ ~Contains(worker[w].chain, "sweep")
    /\ Become(w, Scheduled(worker[w], "sweep"))
    /\ UNCHANGED <<paused, active, lock, restarts>>

StartWork(w) ==
    /\ worker[w].chain # <<>> /\ ~worker[w].busy /\ ~worker[w].closing
    /\ lock = NoWorker
    /\ lock' = w
    /\ Become(w, [worker[w] EXCEPT !.busy = TRUE])
    /\ UNCHANGED <<paused, active, restarts>>

\* The promise settles: the next work of the chain, and after a pass, whose
\* wasHealthy is gone, the one that was coalesced into it.
Settled(state) ==
    LET done == [state EXCEPT !.chain = Tail(@), !.busy = FALSE]
        popped == IF Head(state.chain) = "pass" THEN [done EXCEPT !.wasHealthy = FALSE]
                                                ELSE done IN
    IF Head(state.chain) = "pass" /\ state.coalesced /\ ~state.closing
    THEN PassScheduled([popped EXCEPT !.coalesced = FALSE])
    ELSE popped

PassResult(state, degraded) ==
    [state EXCEPT !.healthy = ~degraded,
                  !.confirmed = @ /\ degraded /\ ~state.wasHealthy,
                  !.structural = @ /\ degraded]

SweepResult(state, unsafe) == IF unsafe THEN Failed(state) ELSE state

WorkEnds(w) ==
    /\ worker[w].busy
    /\ \E bad \in BOOLEAN :
          Become(w, Settled(IF Head(worker[w].chain) = "pass"
                            THEN PassResult(worker[w], bad)
                            ELSE SweepResult(worker[w], bad)))
    /\ Release(w)
    /\ UNCHANGED <<paused, active, restarts>>

\* Mutant: the wait for the lock ignores the abort signal.
WorkFailsOnlyRunning(w) ==
    /\ worker[w].busy
    /\ Become(w, Settled(Failed(worker[w])))
    /\ Release(w)
    /\ UNCHANGED <<paused, active, restarts>>

\* An error, or after stop() the next checkpoint, even of the wait for the lock.
WorkFails(w) ==
    /\ worker[w].chain # <<>>
    /\ worker[w].busy \/ worker[w].closing
    /\ Become(w, Settled(Failed(worker[w])))
    /\ IF worker[w].busy THEN Release(w) ELSE UNCHANGED lock
    /\ UNCHANGED <<paused, active, restarts>>

-----------------------------------------------------------------------------
(* Shutdown, crash and restart *)

\* stop(), by a signal or because start() or waitForFatal() rejected.
Stop(w) ==
    /\ ~worker[w].closing
    /\ worker[w].boot # "down"
    /\ Become(w, [TornDown(worker[w]) EXCEPT !.closing = TRUE])
    /\ UNCHANGED <<paused, active, lock, restarts>>

\* consumer.close(), start(), the pass and the sweep have all settled.
Stopped(w) ==
    /\ worker[w].closing
    /\ worker[w].boot \in {"running", "dead", "aborted"}
    /\ worker[w].chain = <<>>
    /\ active[w] # "mine"
    /\ Become(w, [Fresh EXCEPT !.boot = "down"])
    /\ UNCHANGED <<paused, active, lock, restarts>>

\* The process dies (or the watchdog of the shutdown kills it): Postgres drops
\* the session lock, Redis keeps the pause and the active job.
Crash(w) ==
    /\ worker[w].boot # "down"
    /\ Become(w, [Fresh EXCEPT !.boot = "down"])
    /\ active' = [active EXCEPT ![w] = IF @ = "mine" THEN "orphan" ELSE @]
    /\ Release(w)
    /\ UNCHANGED <<paused, restarts>>

Restart(w) ==
    /\ worker[w].boot = "down"
    /\ restarts < MaxRestarts
    /\ restarts' = restarts + 1
    /\ Become(w, Fresh)
    /\ UNCHANGED <<paused, active, lock>>

-----------------------------------------------------------------------------

Booting(w) ==
    \/ AcquireLock(w) \/ BootPause(w) \/ BootPrepare(w) \/ BootDrained(w) \/ BootDiff(w)
    \/ BootAbort(w) \/ ConsumerStart(w) \/ InstallContinuousLifecycle(w) \/ Resume(w)
    \/ Verify(w) \/ Publish(w) \/ Unlock(w) \/ CleanupPause(w) \/ CleanupClose(w)

Consuming(w) == TakeJob(w) \/ FinishJob(w) \/ RecoverOrphan(w) \/ ConsumerTerminates(w)

Maintaining(w) ==
    TriggerPass(w) \/ TriggerDlqSweep(w) \/ StartWork(w) \/ WorkEnds(w) \/ WorkFails(w)

Next == \E w \in Workers :
    \/ Booting(w) \/ BootFail(w) \/ TransitionFails(w) \/ UnlockFails(w)
    \/ Consuming(w) \/ Maintaining(w)
    \/ Stop(w) \/ Stopped(w) \/ Crash(w) \/ Restart(w)

Spec == Init /\ [][Next]_vars

\* Awaited calls return; the boot does not fail for ever; the lock, contended
\* by polling, is obtained in the end; a job ends; orphans are found; a process
\* whose supervision failed is stopped.
Fairness ==
    \A w \in Workers :
        /\ WF_vars(Booting(w))
        /\ WF_vars(Interrupted(w) /\ TransitionFails(w))
        /\ SF_vars(AcquireLock(w)) /\ SF_vars(BootPause(w)) /\ SF_vars(BootPrepare(w))
        /\ SF_vars(BootDrained(w)) /\ SF_vars(BootDiff(w))
        /\ WF_vars(FinishJob(w)) /\ SF_vars(RecoverOrphan(w))
        /\ SF_vars(StartWork(w)) /\ WF_vars(WorkEnds(w) \/ WorkFails(w))
        /\ WF_vars((worker[w].boot = "dead" \/ worker[w].fatal) /\ Stop(w))
        /\ WF_vars(Stopped(w))

FairSpec == Spec /\ Fairness

-----------------------------------------------------------------------------
(* Properties *)

\* HealthService.readiness may answer "ok": within the grace window, an
\* unconfirmed unhealthy pass is reported healthy.
MayReportReady(w) ==
    /\ worker[w].bootstrapReconciled /\ worker[w].consumerReady
    /\ worker[w].healthy \/ ~worker[w].confirmed

\* The boot diff sees a queue at rest: between the drain and the end of the diff
\* no worker, not even an overlapping one, processes a job, and no other pass or
\* sweep runs.
BootDiffIsQuiet ==
    \A w, v \in Workers :
        worker[w].boot = "diff" => active[v] = "no" /\ ~worker[v].busy

\* A worker that may report ready has a running consumer and its timers: no
\* late write of a pass, a boot or a termination leaves the flags set on a
\* worker that is not serving.
ReadyMeansServing ==
    \A w \in Workers : MayReportReady(w) =>
        /\ worker[w].consumer = "running" /\ worker[w].timers /\ ~worker[w].closing

\* HealthService: "Every other source of unhealthy [...] is reported degraded
\* immediately, with no grace window."
ConfirmedNeverMasked ==
    \A w \in Workers : worker[w].structural => ~MayReportReady(w)

\* A worker that is neither stopped nor crashed finishes its boot, although a
\* dead predecessor left an active job behind and the queue is paused.
BootCompletes ==
    \A w \in Workers :
        worker[w].boot = "lock" ~>
            worker[w].boot \in {"running", "dead", "down"} \/ worker[w].closing

\* A stop always completes: boot, pass, sweep and consumer, whatever they are
\* waiting for, give way.
StopCompletes == \A w \in Workers : worker[w].closing ~> worker[w].boot = "down"
=============================================================================
