----------------------------- MODULE ApiProcess -----------------------------
(***************************************************************************)
(* The API process around the purchase path: readiness requests            *)
(* (HealthService) and the queue-depth observer they share                 *)
(* (QueueDepthProbe), the process signals and the watchdog                 *)
(* (ProcessShutdownController), and the ordered shutdown of everything the *)
(* process owns (InfraModule).                                             *)
(*                                                                         *)
(* Code between two awaits is one step.  Time is discrete: a timer is the  *)
(* number of ticks it has left, no tick passes while a timer is due or a   *)
(* continuation is ready, and timers due at once fire in any order.        *)
(***************************************************************************)
EXTENDS Naturals, FiniteSets

CONSTANTS
    ProbeDeadline,   \* QUEUE_DEPTH_DEADLINE_MS, in ticks
    ReadyBudget,     \* DEFAULT_READINESS_BUDGET_MS
    ResourceBudget,  \* RESOURCE_SHUTDOWN_BUDGET_MS
    ProcessBudget    \* PROCESS_SHUTDOWN_BUDGET_MS and PROCESS_WATCHDOG_MS

ASSUME BudgetAssumption ==
    /\ ProbeDeadline \in Nat \ {0}
    /\ ReadyBudget \in Nat \ {0}
    /\ ResourceBudget \in Nat \ {0}
    /\ ProcessBudget \in Nat
    /\ ProbeDeadline < ResourceBudget
    /\ ReadyBudget < ProcessBudget
    /\ 3 * ResourceBudget < ProcessBudget

VARIABLES
    proc,       \* the process: application, exit, exitCode, watchdog, signals
                \* that still have their handler
    request,    \* the readiness request a client waits for: ticks its budget has
                \* left, checks without an answer, and whether it can still be
                \* healthy
    busy,       \* some other HTTP request is in flight
    probe,      \* QueueDepthProbe
    infra,      \* shutdownSequence: its step, that attempt's budget, and the
                \* time spent before the pool's turn
    closed      \* application clients in their terminal state

vars == <<proc, request, busy, probe, infra, closed>>

Off == ProcessBudget + 1
Signals == {"SIGTERM", "SIGINT"}
Clients == {"store", "limit"}
AllChecks == {"redis", "postgres", "sale", "queue"}

NoRequest == [left |-> Off, pending |-> {}, healthy |-> FALSE]

\* Types and bounds.  At most three resource budgets are spent before the pool's
\* turn (producer, probe, both Redis clients together), so that pool.end()
\* always gets what the process budget leaves beyond them.
TypeOK ==
    /\ proc \in [app : {"none", "listening"}, exit : {"running", "0", "1", "signal"},
                 code : 0..1, watchdog : 0..Off, handlers : SUBSET Signals]
    /\ request \in [left : 0..Off, pending : SUBSET AllChecks, healthy : BOOLEAN]
    /\ busy \in BOOLEAN
    /\ probe \in [gen : {"none", "open", "cut", "closing"},
                  flight : {"none", "command", "dispose"}, timer : 0..Off,
                  close : {"no", "flight", "dispose", "done"}]
    /\ infra \in [step : {"idle", "drain", "producer", "probe", "redis", "pg", "end"},
                  left : 0..Off, spent : 0..3 * ResourceBudget]
    /\ closed \subseteq Clients \cup {"pg"}

Init ==
    /\ proc = [app |-> "none", exit |-> "running", code |-> 0, watchdog |-> Off,
               handlers |-> Signals]
    /\ request = NoRequest
    /\ busy = FALSE
    /\ probe = [gen |-> "none", flight |-> "none", timer |-> Off, close |-> "no"]
    /\ infra = [step |-> "idle", left |-> Off, spent |-> 0]
    /\ closed = {}

Running == proc.exit = "running"
ShuttingDown == proc.watchdog # Off
Closing == probe.close # "no"

\* NestFactory.create has returned and the server listens.
Bootstrap ==
    /\ Running /\ ~ShuttingDown
    /\ proc.app = "none"
    /\ proc' = [proc EXCEPT !.app = "listening"]
    /\ UNCHANGED <<request, busy, probe, infra, closed>>

-----------------------------------------------------------------------------
(* Readiness *)

\* The clients of a serving process may be ended from outside (an operator,
\* an outage): closeRedisClientOnce and closePgPoolOnce provide for it.
ClientLost(c) ==
    /\ Running /\ proc.app = "listening" /\ infra.step = "idle"
    /\ c \notin closed
    /\ closed' = closed \cup {c}
    /\ UNCHANGED <<proc, request, busy, probe, infra>>

\* Another request arrives, or is answered.
OtherRequest ==
    /\ Running /\ proc.app = "listening"
    /\ busy \/ infra.step = "idle"
    /\ busy' = ~busy
    /\ UNCHANGED <<proc, request, probe, infra, closed>>

\* depth: joins the flight there is, or starts one on the generation there is.
Depth ==
    IF probe.flight # "none" THEN probe
    ELSE [probe EXCEPT !.gen = "open", !.flight = "command", !.timer = ProbeDeadline]

\* getReadiness starts the four budgeted checks; checkClock answers at once.
GetReadiness(fresh) ==
    /\ Running /\ proc.app = "listening" /\ infra.step = "idle"
    /\ request = NoRequest
    /\ request' = [left |-> ReadyBudget, pending |-> AllChecks, healthy |-> fresh]
    /\ probe' = Depth
    /\ UNCHANGED <<proc, busy, infra, closed>>

\* Only redis, clock and sale degrade the pod.
Degrading == {"redis", "sale"}

\* checkRedis, checkPostgres, checkSale: each answers ok or, having swallowed
\* its error, not ok.
CheckAnswers(c, ok) ==
    /\ Running
    /\ c \in request.pending \ {"queue"}
    /\ ok => IF c = "postgres" THEN "pg" \notin closed ELSE "store" \notin closed
    /\ request' = [request EXCEPT !.pending = @ \ {c},
                                  !.healthy = @ /\ (ok \/ c \notin Degrading)]
    /\ UNCHANGED <<proc, busy, probe, infra, closed>>

\* All checks are in, or the budget ends the wait with the fallbacks: 200 or
\* 503 with retry-after is sent.
ReadinessReply ==
    /\ Running
    /\ request # NoRequest
    /\ request.pending = {} \/ request.left = 0
    /\ request' = NoRequest
    /\ UNCHANGED <<proc, busy, probe, infra, closed>>

\* The client of the readiness request hangs up.  What is left of its handler
\* changes nothing any more; the flight it may have started goes on.
ClientHangsUp ==
    /\ Running
    /\ request # NoRequest
    /\ request' = NoRequest
    /\ UNCHANGED <<proc, busy, probe, infra, closed>>

\* checkQueue, when the flight it joined settles.
QueueAnswered == [request EXCEPT !.pending = @ \ {"queue"}]

-----------------------------------------------------------------------------
(* QueueDepthProbe *)

\* getJobCounts replies in time.  The generation is kept.
CommandReplies ==
    /\ Running
    /\ probe.flight = "command" /\ probe.gen = "open"
    /\ probe' = [probe EXCEPT !.flight = "none", !.timer = Off]
    /\ request' = QueueAnswered
    /\ UNCHANGED <<proc, busy, infra, closed>>

\* Mutant: disposeGeneration waits for Queue.close() without a deadline.
DisposingForever(p) == [p EXCEPT !.gen = "closing", !.timer = Off]

\* disposeGeneration races Queue.close() against a deadline.
Disposing(p) == [p EXCEPT !.gen = "closing", !.timer = ProbeDeadline]

\* The command fails, is cut by close(), or is cut by its deadline:
\* disconnect(false) settles it and the flight disposes the generation.
CommandFails ==
    /\ Running
    /\ probe.flight = "command"
    /\ probe' = [Disposing(probe) EXCEPT !.flight = "dispose"]
    /\ UNCHANGED <<proc, request, busy, infra, closed>>

\* Queue.close() settles (it need not), or disposal stops waiting for it.
DisposeEnds(settled) ==
    /\ Running
    /\ probe.gen = "closing"
    /\ settled \/ probe.timer = 0
    /\ probe' = [probe EXCEPT !.gen = "none", !.timer = Off, !.flight = "none"]
    /\ request' = IF probe.flight = "dispose" THEN QueueAnswered ELSE request
    /\ UNCHANGED <<proc, busy, infra, closed>>

\* Mutant: close() leaves the running command to its own deadline.
ProbeCloseUncut == [probe EXCEPT !.close = "flight"]

\* close(), up to its first await.
ProbeClose ==
    [probe EXCEPT !.close = "flight", !.gen = IF @ = "open" THEN "cut" ELSE @]

\* close() has seen the flight end and disposes the generation it captured,
\* which shares the flight's disposal if there was one.
ProbeCloseContinues ==
    /\ Running
    /\ probe.close = "flight" /\ probe.flight = "none"
    /\ probe' = IF probe.gen = "none" THEN [probe EXCEPT !.close = "done"]
                ELSE [Disposing(probe) EXCEPT !.close = "dispose"]
    /\ UNCHANGED <<proc, request, busy, infra, closed>>

ProbeCloseReturns ==
    /\ Running
    /\ probe.close = "dispose" /\ probe.gen = "none"
    /\ probe' = [probe EXCEPT !.close = "done"]
    /\ UNCHANGED <<proc, request, busy, infra, closed>>

ProbeReady ==
    \/ probe.close = "flight" /\ probe.flight = "none"
    \/ probe.close = "dispose" /\ probe.gen = "none"
    \/ probe.flight = "command" /\ probe.gen = "cut"

-----------------------------------------------------------------------------
(* ProcessShutdownController *)

\* Mutant: every trigger starts the watchdog afresh.
Rearmed == ProcessBudget

\* armWatchdog
Armed == IF ShuttingDown THEN proc.watchdog ELSE ProcessBudget

\* A nonzero exit code sticks.
ExitCode(code) == IF code # 0 THEN 1 ELSE proc.code

\* shutdown: the first trigger starts close(), all share its promise.  Without
\* an application there is nothing to close.
Shutdown(code, handlers) ==
    /\ proc' = [proc EXCEPT !.code = ExitCode(code), !.watchdog = Armed,
                            !.handlers = handlers]
    /\ infra' = IF ShuttingDown THEN infra
                ELSE [infra EXCEPT !.step = IF proc.app = "none" THEN "end" ELSE "drain"]
    /\ UNCHANGED <<request, busy, probe, closed>>

\* process.once: the second signal of a kind meets the default action.
Signal(s) ==
    /\ Running
    /\ \/ s \in proc.handlers /\ Shutdown(0, proc.handlers \ {s})
       \/ /\ s \notin proc.handlers
          /\ proc' = [proc EXCEPT !.exit = "signal"]
          /\ UNCHANGED <<request, busy, probe, infra, closed>>

UnhandledRejection ==
    /\ Running
    /\ Shutdown(1, proc.handlers)

\* Mutant: a forced exit keeps the code of the triggers.
WatchdogKeepsCode ==
    /\ Running
    /\ proc.watchdog = 0
    /\ proc' = [proc EXCEPT !.exit = IF proc.code = 0 THEN "0" ELSE "1"]
    /\ UNCHANGED <<request, busy, probe, infra, closed>>

WatchdogFires ==
    /\ Running
    /\ proc.watchdog = 0
    /\ proc' = [proc EXCEPT !.exit = "1"]
    /\ UNCHANGED <<request, busy, probe, infra, closed>>

\* app.close() rejects before it reaches the shutdown hook: the failure is
\* logged, the code becomes 1 and the process exits with its clients open.
CloseFails ==
    /\ Running
    /\ infra.step = "drain"
    /\ proc' = [proc EXCEPT !.code = 1]
    /\ infra' = [infra EXCEPT !.step = "end"]
    /\ UNCHANGED <<request, busy, probe, closed>>

\* close() has settled.
Exit ==
    /\ Running
    /\ infra.step = "end"
    /\ proc' = [proc EXCEPT !.exit = IF proc.code = 0 THEN "0" ELSE "1"]
    /\ UNCHANGED <<request, busy, probe, infra, closed>>

-----------------------------------------------------------------------------
(* InfraModule.shutdownSequence *)

\* app.close() lets the server's connections finish before the shutdown hook;
\* a handler whose client has left does not hold it up.
Drained ==
    /\ Running
    /\ infra.step = "drain"
    /\ request = NoRequest /\ ~busy
    /\ infra' = [infra EXCEPT !.step = "producer", !.left = ResourceBudget]
    /\ UNCHANGED <<proc, request, busy, probe, closed>>

\* OrdersQueueService.close settles, fails, or its budget ends the attempt.
\* The probe's attempt begins.
ProducerAttempted(settled) ==
    /\ Running
    /\ infra.step = "producer"
    /\ settled \/ infra.left = 0
    /\ infra' = [infra EXCEPT !.step = "probe", !.left = ResourceBudget]
    /\ probe' = ProbeClose
    /\ UNCHANGED <<proc, request, busy, closed>>

\* The probe's close settled, or its budget is over: the Redis clients begin.
ProbeAttempted ==
    /\ Running
    /\ infra.step = "probe"
    /\ probe.close = "done" \/ infra.left = 0
    /\ infra' = [infra EXCEPT !.step = "redis", !.left = ResourceBudget]
    /\ UNCHANGED <<proc, request, busy, probe, closed>>

\* Mutant: one Redis client after the other, each with its own budget.
RedisLeftSequential == ResourceBudget

\* Both Redis attempts run against budgets that started together.
RedisLeft == infra.left

\* closeRedisClient ends the client, or fails or runs out of budget, and then
\* abort() disconnects it: it is at its end in every case.
RedisAttempted(c, settled) ==
    /\ Running
    /\ infra.step = "redis" /\ c \in Clients \ closed
    /\ settled \/ infra.left = 0
    /\ closed' = closed \cup {c}
    /\ infra' = [infra EXCEPT !.left = RedisLeft]
    /\ UNCHANGED <<proc, request, busy, probe>>

\* Both Redis attempts are over: the pool gets what is left of the budget,
\* unless it has ended already.
RedisDone ==
    /\ Running
    /\ infra.step = "redis" /\ Clients \subseteq closed
    /\ infra' = IF "pg" \in closed THEN [infra EXCEPT !.step = "end", !.left = Off]
                ELSE [infra EXCEPT !.step = "pg",
                                   !.left = IF infra.spent < ProcessBudget
                                            THEN ProcessBudget - infra.spent ELSE 0]
    /\ UNCHANGED <<proc, request, busy, probe, closed>>

\* pool.end() settles, fails, or its budget ends the attempt.
PgAttempted(settled) ==
    /\ Running
    /\ infra.step = "pg"
    /\ settled \/ infra.left = 0
    /\ infra' = [infra EXCEPT !.step = "end", !.left = Off]
    /\ closed' = IF settled THEN closed \cup {"pg"} ELSE closed
    /\ UNCHANGED <<proc, request, busy, probe>>

InfraReady ==
    \/ infra.step = "drain" /\ request = NoRequest /\ ~busy
    \/ infra.step = "probe" /\ probe.close = "done"
    \/ infra.step = "redis" /\ Clients \subseteq closed
    \/ infra.step = "end"

-----------------------------------------------------------------------------

Earlier(t) == IF t = Off THEN Off ELSE t - 1

\* Ticks after the decision on the pool's budget no longer matter to it.
SequenceRuns == infra.step \in {"producer", "probe", "redis"}

Tick ==
    /\ Running
    /\ \A t \in {proc.watchdog, request.left, probe.timer, infra.left} : t > 0
    /\ ~ProbeReady /\ ~InfraReady
    /\ request = NoRequest \/ request.pending # {}
    /\ proc' = [proc EXCEPT !.watchdog = Earlier(@)]
    /\ request' = [request EXCEPT !.left = Earlier(@)]
    /\ probe' = [probe EXCEPT !.timer = Earlier(@)]
    /\ infra' = [infra EXCEPT !.left = Earlier(@),
                              !.spent = IF SequenceRuns THEN @ + 1 ELSE @]
    /\ UNCHANGED <<busy, closed>>

\* What the event loop and the clock run without anyone's help.
Internal ==
    \/ Tick \/ ReadinessReply \/ DisposeEnds(FALSE) \/ ProbeCloseContinues
    \/ ProbeCloseReturns \/ WatchdogFires \/ Exit \/ Drained
    \/ ProducerAttempted(FALSE) \/ ProbeAttempted \/ RedisDone \/ PgAttempted(FALSE)
    \/ \E c \in Clients : RedisAttempted(c, FALSE)
    \/ probe.timer = 0 /\ CommandFails
    \/ probe.gen = "cut" /\ CommandFails

\* Requests, clients, signals and replies, which may or may not come.
External ==
    \/ CloseFails
    \/ Bootstrap \/ OtherRequest \/ ClientHangsUp \/ CommandReplies \/ UnhandledRejection
    \/ CommandFails \/ DisposeEnds(TRUE) \/ ProducerAttempted(TRUE) \/ PgAttempted(TRUE)
    \/ \E fresh \in BOOLEAN : GetReadiness(fresh)
    \/ \E c \in AllChecks, ok \in BOOLEAN : CheckAnswers(c, ok)
    \/ \E c \in Clients : RedisAttempted(c, TRUE)
    \/ \E c \in Clients \cup {"pg"} : ClientLost(c)
    \/ \E s \in Signals : Signal(s)

Next == Internal \/ External

\* Only time and the event loop are fair: nobody need send a request or a
\* signal, and no client, queue or server need ever answer.
FairSpec == Init /\ [][Next]_vars /\ WF_vars(Internal)

-----------------------------------------------------------------------------

\* QueueDepthProbe.close() always settles inside the budget InfraModule gives
\* it, although a flight alone may last two deadlines: the attempt never ends
\* by timeout, and the observer is gone when the Redis clients are closed.
ProbeCloseFits ==
    infra.step \in {"redis", "pg"} =>
        probe.close = "done" /\ probe.gen = "none" /\ probe.flight = "none"

\* A process that exits 0 has let go of what it owns: there was no application
\* yet, or no client waits and the Redis clients and the observer are
\* at their end.  What the watchdog cuts short never looks like a clean exit.
CleanExit ==
    proc.exit = "0" /\ proc.app = "listening" =>
        /\ request = NoRequest /\ ~busy
        /\ Clients \subseteq closed /\ probe.close = "done" /\ probe.gen = "none"

\* Once a shutdown is under way the process ends, whatever hangs and however
\* many further rejections arrive.
ShutdownEnds == ShuttingDown ~> ~Running

\* Every depth() flight settles or the process ends, although neither the
\* command nor Queue.close() need ever settle.
FlightSettles == probe.flight # "none" ~> (probe.flight = "none" \/ ~Running)
=============================================================================
