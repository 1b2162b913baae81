-------------------------- MODULE ApiProcessProofs --------------------------
(***************************************************************************)
(* The API's shutdown, for every value of the deadlines and budgets that   *)
(* satisfies BudgetAssumption.                                             *)
(*                                                                         *)
(* ProbeCloseFits and CleanExit speak of the end of a shutdown; what makes *)
(* them hold is spread over its steps.  SettleInv follows the observer's   *)
(* close() against the budget of its attempt: a cut command settles before *)
(* any time passes, and the disposal that follows has less time left than  *)
(* the attempt.  DrainInv and EndInv follow what has been let go of at     *)
(* each step of the sequence.                                              *)
(***************************************************************************)
EXTENDS ApiProcess, TLAPS

Procs == [app : {"none", "listening"}, exit : {"running", "0", "1", "signal"},
          code : 0..1, watchdog : 0..Off, handlers : SUBSET Signals]
Requests == [left : 0..Off, pending : SUBSET AllChecks, healthy : BOOLEAN]
Probes == [gen : {"none", "open", "cut", "closing"},
           flight : {"none", "command", "dispose"}, timer : 0..Off,
           close : {"no", "flight", "dispose", "done"}]
Infras == [step : {"idle", "drain", "producer", "probe", "redis", "pg", "end"},
           left : 0..Off, spent : 0..3 * ResourceBudget]

\* Each attempt spends its own budget only, and before the sequence there is
\* none.
BudgetInv ==
    /\ infra.step \in {"idle", "drain"} => infra.spent = 0
    /\ infra.step = "producer" => infra.spent + infra.left <= ResourceBudget
    /\ infra.step = "probe" => infra.spent + infra.left <= 2 * ResourceBudget
    /\ infra.step = "redis" => infra.spent + infra.left <= 3 * ResourceBudget

\* The observer's generation, its flight and close() fit together, and close()
\* begins with its attempt.
ProbeInv ==
    /\ probe.flight = "command" => probe.gen \in {"open", "cut"}
    /\ probe.flight = "dispose" => probe.gen = "closing"
    /\ probe.gen = "open" => probe.close = "no"
    /\ probe.gen = "cut" => probe.close = "flight"
    /\ probe.gen = "closing" =>
          probe.timer <= ProbeDeadline /\ (probe.flight = "dispose" \/ probe.close = "dispose")
    /\ probe.close = "dispose" => probe.flight = "none"
    /\ probe.close = "done" => probe.gen = "none" /\ probe.flight = "none"
    /\ infra.step \in {"idle", "drain", "producer"} => probe.close = "no"
    /\ infra.step = "probe" => probe.close # "no"

\* close() of the observer settles before its attempt's budget is over.
SettleInv ==
    /\ infra.step = "probe" /\ probe.close # "done" =>
          /\ infra.left > 0
          /\ probe.gen = "cut" => ProbeDeadline < infra.left
          /\ probe.gen = "closing" => probe.timer < infra.left
    /\ infra.step \in {"redis", "pg"} => probe.close = "done"

\* A shutdown is what moves the sequence, only an application is drained, and
\* after the drain no client waits.
DrainInv ==
    /\ infra.step = "idle" <=> ~ShuttingDown
    /\ infra.step \notin {"idle", "end"} => proc.app = "listening"
    /\ infra.step \in {"producer", "probe", "redis", "pg"} => request = NoRequest /\ ~busy
    /\ infra.step = "pg" => Clients \subseteq closed

LetGo ==
    /\ request = NoRequest /\ ~busy
    /\ Clients \subseteq closed /\ probe.close = "done"

\* A sequence that ended without error has let go of everything.
EndInv ==
    /\ infra.step = "end" /\ proc.code = 0 /\ proc.app = "listening" => LetGo
    /\ proc.exit = "0" => infra.step = "end" /\ proc.code = 0

ApiInv == TypeOK /\ BudgetInv /\ ProbeInv /\ SettleInv /\ DrainInv /\ EndInv

-----------------------------------------------------------------------------
(* Lemmas *)

\* TypeOK, by the sets above.
LEMMA Types ==
    TypeOK <=> /\ proc \in Procs /\ request \in Requests /\ busy \in BOOLEAN
               /\ probe \in Probes /\ infra \in Infras /\ closed \subseteq Clients \cup {"pg"}
BY DEF TypeOK, Procs, Requests, Probes, Infras

\* The deadlines and budgets fit into the range of the timers.
LEMMA Timers ==
    /\ 0 \in 0..Off /\ Off \in 0..Off /\ ProcessBudget \in 0..Off /\ ProcessBudget # Off
    /\ ProbeDeadline \in 0..Off /\ ReadyBudget \in 0..Off /\ ResourceBudget \in 0..Off
    /\ ProbeDeadline < ResourceBudget /\ ResourceBudget # Off /\ ReadyBudget # Off
    /\ Off \in Nat /\ ResourceBudget \in Nat /\ ProbeDeadline \in Nat
    /\ 0 \in 0..3 * ResourceBudget
BY BudgetAssumption DEF Off

\* The request nobody waits for.
LEMMA NoRequestFields ==
    /\ NoRequest \in Requests
    /\ NoRequest.left = Off /\ NoRequest.pending = {}
    /\ \A q \in Requests : q.left = Off /\ q.pending = {} /\ q.healthy = FALSE => q = NoRequest
BY Timers DEF NoRequest, Requests

\* A tick takes one from a timer that runs, and leaves the others off.
LEMMA EarlierTimer ==
    ASSUME NEW t \in 0..Off, t > 0
    PROVE  /\ Earlier(t) \in 0..Off /\ (Earlier(t) = Off <=> t = Off)
           /\ t # Off => Earlier(t) = t - 1
BY Timers DEF Earlier

-----------------------------------------------------------------------------
(* The invariant, action by action *)

\* Before the application is created nothing runs.
LEMMA InitApiInv ==
    Init => ApiInv
<1> SUFFICES ASSUME Init PROVE ApiInv
    OBVIOUS
<1>1. TypeOK
    <2>1. proc \in Procs
        BY Timers DEF Init, Procs
    <2>2. probe \in Probes /\ infra \in Infras
        BY Timers DEF Init, Probes, Infras
    <2> QED BY <2>1, <2>2, NoRequestFields, Types DEF Init
<1>2. BudgetInv /\ ProbeInv /\ SettleInv /\ DrainInv /\ EndInv
    BY Timers DEF Init, BudgetInv, ProbeInv, SettleInv, DrainInv, EndInv, ShuttingDown
<1> QED BY <1>1, <1>2 DEF ApiInv

\* Steps that move neither the sequence nor the observer: requests come and go
\* only while there is an application and no shutdown has drained them.
LEMMA ServingInv ==
    ASSUME ApiInv,
           \/ Bootstrap \/ OtherRequest \/ ReadinessReply \/ ClientHangsUp
           \/ \E c \in AllChecks, ok \in BOOLEAN : CheckAnswers(c, ok)
           \/ \E c \in Clients \cup {"pg"} : ClientLost(c)
    PROVE  ApiInv'
<1>1. /\ proc \in Procs /\ request \in Requests /\ busy \in BOOLEAN
      /\ probe \in Probes /\ infra \in Infras /\ closed \subseteq Clients \cup {"pg"}
    BY Types DEF ApiInv
<1>2. CASE Bootstrap
    <2>1. /\ proc' \in Procs /\ proc'.app = "listening" /\ proc'.exit = proc.exit
          /\ proc'.code = proc.code /\ proc'.watchdog = proc.watchdog
        BY <1>1, <1>2 DEF Bootstrap, Procs
    <2>2. UNCHANGED <<request, busy, probe, infra, closed>> /\ infra.step = "idle"
        BY <1>2 DEF Bootstrap, ApiInv, DrainInv
    <2>3. TypeOK'
        BY <1>1, <2>1, <2>2, Types DEF TypeOK, Procs, Requests, Probes, Infras
    <2> QED BY <2>1, <2>2, <2>3 DEF ApiInv, BudgetInv, ProbeInv, SettleInv, DrainInv, EndInv,
                                    LetGo, ShuttingDown
<1>3. CASE OtherRequest
    <2>1. UNCHANGED <<proc, request, probe, infra, closed>> /\ busy' \in BOOLEAN
        BY <1>1, <1>3 DEF OtherRequest
    <2>2. infra.step \in {"idle", "drain", "end"} /\ (infra.step = "end" => proc.code # 0)
        BY <1>1, <1>3 DEF OtherRequest, ApiInv, DrainInv, EndInv, LetGo, Infras
    <2>3. TypeOK'
        BY <1>1, <2>1, Types DEF TypeOK, Procs, Requests, Probes, Infras
    <2>4. proc.exit # "0"
        BY <1>3 DEF OtherRequest, Running
    <2> QED BY <2>1, <2>2, <2>3, <2>4 DEF ApiInv, BudgetInv, ProbeInv, SettleInv, DrainInv, EndInv,
                                    LetGo, ShuttingDown
<1>4. ASSUME request' \in Requests, request # NoRequest,
             UNCHANGED <<proc, busy, probe, infra, closed>>
      PROVE  ApiInv'
    <2>1. TypeOK'
        BY <1>1, <1>4, Types DEF TypeOK, Procs, Requests, Probes, Infras
    <2> QED BY <1>4, <2>1 DEF ApiInv, BudgetInv, ProbeInv, SettleInv, DrainInv, EndInv, LetGo,
                              ShuttingDown
<1>5. CASE ReadinessReply \/ ClientHangsUp
    BY <1>4, <1>5, NoRequestFields DEF ReadinessReply, ClientHangsUp
<1>6. ASSUME NEW c \in AllChecks, NEW ok \in BOOLEAN, CheckAnswers(c, ok)
      PROVE  ApiInv'
    <2>1. request # NoRequest
        BY <1>6, NoRequestFields DEF CheckAnswers
    <2>2. PICK h \in BOOLEAN : request' = [request EXCEPT !.pending = @ \ {c}, !.healthy = h]
        <3>1. (request.healthy /\ (ok \/ c \notin Degrading)) \in BOOLEAN
            BY <1>1 DEF Requests
        <3> QED BY <1>6, <3>1 DEF CheckAnswers
    <2>3. request' \in Requests
        BY <1>1, <2>2 DEF Requests
    <2> QED BY <1>4, <1>6, <2>1, <2>3 DEF CheckAnswers
<1>7. ASSUME NEW c \in Clients \cup {"pg"}, ClientLost(c) PROVE ApiInv'
    <2>1. /\ UNCHANGED <<proc, request, busy, probe, infra>> /\ closed' = closed \cup {c}
          /\ infra.step = "idle"
        BY <1>7 DEF ClientLost
    <2>2. TypeOK'
        BY <1>1, <2>1, Types DEF TypeOK, Procs, Requests, Probes, Infras
    <2> QED BY <2>1, <2>2 DEF ApiInv, BudgetInv, ProbeInv, SettleInv, DrainInv, EndInv, ShuttingDown
<1> QED BY <1>2, <1>3, <1>5, <1>6, <1>7

\* What the observer does outside its attempt leaves the rest of the process
\* alone, and in its attempt brings close() nearer to its end.
LEMMA ObserverInv ==
    ASSUME ApiInv,
           \/ \E fresh \in BOOLEAN : GetReadiness(fresh)
           \/ CommandReplies \/ CommandFails \/ ProbeCloseContinues \/ ProbeCloseReturns
           \/ \E settled \in BOOLEAN : DisposeEnds(settled)
    PROVE  ApiInv'
<1>1. /\ proc \in Procs /\ request \in Requests /\ busy \in BOOLEAN
      /\ probe \in Probes /\ infra \in Infras /\ closed \subseteq Clients \cup {"pg"}
      /\ ProbeInv /\ SettleInv /\ DrainInv /\ EndInv
    BY Types DEF ApiInv
<1>2. UNCHANGED <<proc, busy, infra, closed>> /\ proc.exit = "running"
    BY DEF GetReadiness, CommandReplies, CommandFails, ProbeCloseContinues, ProbeCloseReturns,
           DisposeEnds, Running
<1>3. ASSUME probe' \in Probes, ProbeInv', SettleInv', request' \in Requests,
             request = NoRequest => request' = NoRequest \/ infra.step = "idle",
             probe.close = "done" => probe'.close = "done"
      PROVE  ApiInv'
    <2>1. TypeOK'
        BY <1>1, <1>2, <1>3, Types DEF TypeOK, Procs, Requests, Probes, Infras
    <2>2. BudgetInv' /\ DrainInv'
        BY <1>1, <1>2, <1>3 DEF ApiInv, BudgetInv, DrainInv, ShuttingDown
    <2>3. EndInv'
        BY <1>1, <1>2, <1>3 DEF EndInv, LetGo
    <2> QED BY <1>3, <2>1, <2>2, <2>3 DEF ApiInv
<1>4. QueueAnswered \in Requests /\ (request = NoRequest => QueueAnswered = NoRequest)
    <2>1. /\ QueueAnswered \in Requests /\ QueueAnswered.left = request.left
          /\ QueueAnswered.pending = request.pending \ {"queue"}
          /\ QueueAnswered.healthy = request.healthy
        BY <1>1 DEF QueueAnswered, Requests
    <2> QED BY <2>1, NoRequestFields DEF NoRequest
<1>5. ASSUME NEW fresh \in BOOLEAN, GetReadiness(fresh) PROVE ApiInv'
    <2>1. request' \in Requests /\ infra.step = "idle" /\ probe.close = "no"
        BY <1>1, <1>5, Timers DEF GetReadiness, Requests, ProbeInv
    <2>2. CASE probe.flight # "none"
        <3>1. probe' = probe
            BY <1>5, <2>2 DEF GetReadiness, Depth
        <3> QED BY <1>1, <1>2, <1>3, <2>1, <3>1 DEF ProbeInv, SettleInv
    <2>3. CASE probe.flight = "none"
        <3>1. probe' = [probe EXCEPT !.gen = "open", !.flight = "command", !.timer = ProbeDeadline]
            BY <1>5, <2>3 DEF GetReadiness, Depth
        <3>2. /\ probe' \in Probes /\ probe'.gen = "open" /\ probe'.flight = "command"
              /\ probe'.close = probe.close
            BY <1>1, <3>1, Timers DEF Probes
        <3> QED BY <1>1, <1>2, <1>3, <2>1, <3>2 DEF ProbeInv, SettleInv
    <2> QED BY <2>2, <2>3
<1>6. CASE CommandReplies
    <2>1. /\ probe' = [probe EXCEPT !.flight = "none", !.timer = Off]
          /\ probe.flight = "command" /\ probe.gen = "open" /\ request' = QueueAnswered
        BY <1>6 DEF CommandReplies
    <2>2. /\ probe' \in Probes /\ probe'.gen = "open" /\ probe'.flight = "none"
          /\ probe'.close = probe.close
        BY <1>1, <2>1, Timers DEF Probes
    <2> QED BY <1>1, <1>2, <1>3, <1>4, <2>1, <2>2 DEF ProbeInv, SettleInv
<1>7. CASE CommandFails
    <2>1. /\ probe' = [Disposing(probe) EXCEPT !.flight = "dispose"]
          /\ probe.flight = "command" /\ request' = request
        BY <1>7 DEF CommandFails
    <2>2. /\ Disposing(probe) \in Probes /\ Disposing(probe).gen = "closing"
          /\ Disposing(probe).timer = ProbeDeadline /\ Disposing(probe).close = probe.close
        BY <1>1, Timers DEF Disposing, Probes
    <2>3. /\ probe' \in Probes /\ probe'.gen = "closing" /\ probe'.flight = "dispose"
          /\ probe'.timer = ProbeDeadline /\ probe'.close = probe.close
        BY <2>1, <2>2 DEF Probes
    <2> QED BY <1>1, <1>2, <1>3, <2>1, <2>3, Timers DEF ProbeInv, SettleInv
<1>8. ASSUME NEW settled \in BOOLEAN, DisposeEnds(settled) PROVE ApiInv'
    <2>1. /\ probe' = [probe EXCEPT !.gen = "none", !.timer = Off, !.flight = "none"]
          /\ probe.gen = "closing" /\ request' \in {QueueAnswered, request}
        BY <1>8 DEF DisposeEnds
    <2>2. /\ probe' \in Probes /\ probe'.gen = "none" /\ probe'.flight = "none"
          /\ probe'.close = probe.close
        BY <1>1, <2>1, Timers DEF Probes
    <2> QED BY <1>1, <1>2, <1>3, <1>4, <2>1, <2>2 DEF ProbeInv, SettleInv
<1>9. CASE ProbeCloseContinues
    <2>1. request' = request /\ probe.close = "flight" /\ probe.flight = "none"
        BY <1>9 DEF ProbeCloseContinues
    <2>2. CASE probe.gen = "none"
        <3>1. /\ probe' \in Probes /\ probe'.gen = "none" /\ probe'.flight = "none"
              /\ probe'.close = "done"
            BY <1>1, <1>9, <2>1, <2>2 DEF ProbeCloseContinues, Probes
        <3> QED BY <1>1, <1>2, <1>3, <2>1, <3>1 DEF ProbeInv, SettleInv
    <2>3. CASE probe.gen # "none"
        <3>1. probe.gen = "cut" /\ probe' = [Disposing(probe) EXCEPT !.close = "dispose"]
            BY <1>1, <1>9, <2>1, <2>3 DEF ProbeCloseContinues, ProbeInv, Probes
        <3>2. /\ Disposing(probe) \in Probes /\ Disposing(probe).gen = "closing"
              /\ Disposing(probe).timer = ProbeDeadline /\ Disposing(probe).flight = "none"
            BY <1>1, <2>1, Timers DEF Disposing, Probes
        <3>3. /\ probe' \in Probes /\ probe'.gen = "closing" /\ probe'.flight = "none"
              /\ probe'.timer = ProbeDeadline /\ probe'.close = "dispose"
            BY <3>1, <3>2 DEF Probes
        <3> QED BY <1>1, <1>2, <1>3, <2>1, <3>1, <3>3, Timers DEF ProbeInv, SettleInv
    <2> QED BY <2>2, <2>3
<1>10. CASE ProbeCloseReturns
    <2>1. /\ request' = request /\ probe.close = "dispose" /\ probe.gen = "none"
          /\ probe' = [probe EXCEPT !.close = "done"]
        BY <1>10 DEF ProbeCloseReturns
    <2>2. /\ probe' \in Probes /\ probe'.gen = "none" /\ probe'.close = "done"
          /\ probe'.flight = probe.flight
        BY <1>1, <2>1 DEF Probes
    <2> QED BY <1>1, <1>2, <1>3, <2>1, <2>2 DEF ProbeInv, SettleInv
<1> QED BY <1>5, <1>6, <1>7, <1>8, <1>9, <1>10

\* Signals, rejections, the watchdog and the exit.
LEMMA ControllerInv ==
    ASSUME ApiInv,
           \/ UnhandledRejection \/ WatchdogFires \/ CloseFails \/ Exit
           \/ \E s \in Signals : Signal(s)
    PROVE  ApiInv'
<1>1. /\ proc \in Procs /\ request \in Requests /\ busy \in BOOLEAN
      /\ probe \in Probes /\ infra \in Infras /\ closed \subseteq Clients \cup {"pg"}
      /\ BudgetInv /\ ProbeInv /\ SettleInv /\ DrainInv /\ EndInv
    BY Types DEF ApiInv
<1>2. UNCHANGED <<request, busy, probe, closed>> /\ proc.exit = "running"
    BY DEF UnhandledRejection, WatchdogFires, CloseFails, Exit, Signal, Shutdown, Running
<1>3. ASSUME NEW e \in {"0", "1", "signal"}, proc' = [proc EXCEPT !.exit = e], infra' = infra,
             e = "0" => infra.step = "end" /\ proc.code = 0
      PROVE  ApiInv'
    <2>1. /\ proc' \in Procs /\ proc'.app = proc.app /\ proc'.code = proc.code
          /\ proc'.watchdog = proc.watchdog /\ proc'.exit = e
        BY <1>1, <1>3 DEF Procs
    <2>2. TypeOK'
        BY <1>1, <1>2, <1>3, <2>1, Types DEF TypeOK, Procs, Requests, Probes, Infras
    <2> QED BY <1>1, <1>2, <1>3, <2>1, <2>2
        DEF ApiInv, BudgetInv, ProbeInv, SettleInv, DrainInv, EndInv, LetGo, ShuttingDown
<1>4. ASSUME NEW code \in 0..1, NEW handlers \in SUBSET Signals, Shutdown(code, handlers)
      PROVE  ApiInv'
    <2>1. PICK k, w : /\ k = ExitCode(code) /\ w = Armed
                      /\ proc' = [proc EXCEPT !.code = k, !.watchdog = w, !.handlers = handlers]
        BY <1>4 DEF Shutdown
    <2>2. /\ k \in 0..1 /\ (k = 0 => proc.code = 0) /\ w \in 0..Off /\ w # Off
          /\ ShuttingDown => w = proc.watchdog
        BY <1>1, <2>1, Timers DEF ExitCode, Armed, ShuttingDown, Procs
    <2>3. /\ proc' \in Procs /\ proc'.code = k /\ proc'.watchdog = w /\ proc'.app = proc.app
          /\ proc'.exit = proc.exit
        BY <1>1, <2>1, <2>2 DEF Procs
    <2>4. CASE ShuttingDown
        <3>1. infra' = infra
            BY <1>4, <2>4 DEF Shutdown
        <3>2. TypeOK'
            BY <1>1, <1>2, <2>3, <3>1, Types DEF TypeOK, Procs, Requests, Probes, Infras
        <3> QED BY <1>1, <1>2, <2>2, <2>3, <2>4, <3>1, <3>2
            DEF ApiInv, BudgetInv, ProbeInv, SettleInv, DrainInv, EndInv, LetGo, ShuttingDown
    <2>5. CASE ~ShuttingDown
        <3>1. infra.step = "idle"
            BY <1>1, <2>5 DEF DrainInv
        <3>2. PICK t \in {"end", "drain"} : /\ infra' = [infra EXCEPT !.step = t]
                                            /\ t = "end" <=> proc.app = "none"
            BY <1>4, <2>5 DEF Shutdown
        <3>3. /\ infra' \in Infras /\ infra'.step = t /\ infra'.left = infra.left
              /\ infra'.spent = infra.spent
            BY <1>1, <3>2 DEF Infras
        <3>4. TypeOK'
            BY <1>1, <1>2, <2>3, <3>3, Types DEF TypeOK, Procs, Requests, Probes, Infras
        <3>5. BudgetInv' /\ ProbeInv' /\ SettleInv' /\ EndInv'
            BY <1>1, <1>2, <2>3, <3>1, <3>2, <3>3 DEF BudgetInv, ProbeInv, SettleInv, EndInv
        <3>6. DrainInv'
            BY <1>1, <2>2, <2>3, <3>2, <3>3 DEF DrainInv, ShuttingDown, Procs
        <3> QED BY <3>4, <3>5, <3>6 DEF ApiInv
    <2> QED BY <2>4, <2>5
<1>5. CASE UnhandledRejection
    <2>1. proc.handlers \in SUBSET Signals
        BY <1>1 DEF Procs
    <2> QED BY <1>4, <1>5, <2>1 DEF UnhandledRejection
<1>6. ASSUME NEW s \in Signals, Signal(s) PROVE ApiInv'
    <2>1. proc.handlers \ {s} \in SUBSET Signals
        BY <1>1 DEF Procs
    <2> QED BY <1>3, <1>4, <1>6, <2>1 DEF Signal
<1>7. CASE WatchdogFires
    BY <1>3, <1>7 DEF WatchdogFires
<1>8. CASE Exit
    BY <1>3, <1>8 DEF Exit
<1>9. CASE CloseFails
    <2>1. /\ proc' = [proc EXCEPT !.code = 1] /\ infra' = [infra EXCEPT !.step = "end"]
          /\ infra.step = "drain"
        BY <1>9 DEF CloseFails
    <2>2. /\ proc' \in Procs /\ proc'.code = 1 /\ proc'.watchdog = proc.watchdog
          /\ proc'.app = proc.app /\ proc'.exit = proc.exit
        BY <1>1, <2>1 DEF Procs
    <2>3. /\ infra' \in Infras /\ infra'.step = "end" /\ infra'.left = infra.left
          /\ infra'.spent = infra.spent
        BY <1>1, <2>1 DEF Infras
    <2>4. TypeOK'
        BY <1>1, <1>2, <2>2, <2>3, Types DEF TypeOK, Procs, Requests, Probes, Infras
    <2> QED BY <1>1, <1>2, <2>1, <2>2, <2>3, <2>4
        DEF ApiInv, BudgetInv, ProbeInv, SettleInv, DrainInv, EndInv, LetGo, ShuttingDown
<1> QED BY <1>5, <1>6, <1>7, <1>8, <1>9

\* The steps of shutdownSequence, each of which begins the attempt after it.
LEMMA SequenceInv ==
    ASSUME ApiInv,
           \/ Drained \/ ProbeAttempted \/ RedisDone
           \/ \E settled \in BOOLEAN : ProducerAttempted(settled) \/ PgAttempted(settled)
           \/ \E c \in Clients, settled \in BOOLEAN : RedisAttempted(c, settled)
    PROVE  ApiInv'
<1>1. /\ proc \in Procs /\ request \in Requests /\ busy \in BOOLEAN
      /\ probe \in Probes /\ infra \in Infras /\ closed \subseteq Clients \cup {"pg"}
      /\ BudgetInv /\ ProbeInv /\ SettleInv /\ DrainInv /\ EndInv
    BY Types DEF ApiInv
<1>2. UNCHANGED <<proc, request, busy>> /\ proc.exit = "running"
    BY DEF Drained, ProbeAttempted, RedisDone, ProducerAttempted, PgAttempted, RedisAttempted,
           Running
<1>3. /\ ResourceBudget \in Nat /\ infra.left \in Nat /\ infra.spent \in Nat
      /\ infra.step \in {"idle", "drain", "producer", "probe", "redis", "pg", "end"}
    BY <1>1, Timers DEF Infras
<1>4. CASE Drained
    <2>1. /\ infra' = [infra EXCEPT !.step = "producer", !.left = ResourceBudget]
          /\ infra.step = "drain" /\ request = NoRequest /\ ~busy /\ UNCHANGED <<probe, closed>>
        BY <1>4 DEF Drained
    <2>2. /\ infra' \in Infras /\ infra'.step = "producer" /\ infra'.left = ResourceBudget
          /\ infra'.spent = infra.spent
        BY <1>1, <2>1, Timers DEF Infras
    <2>3. TypeOK'
        BY <1>1, <1>2, <2>1, <2>2, Types DEF TypeOK, Procs, Requests, Probes, Infras
    <2>4. BudgetInv' /\ ProbeInv' /\ SettleInv' /\ DrainInv' /\ EndInv'
        BY <1>1, <1>2, <1>3, <2>1, <2>2
        DEF BudgetInv, ProbeInv, SettleInv, DrainInv, EndInv, ShuttingDown
    <2> QED BY <2>3, <2>4 DEF ApiInv
<1>5. ASSUME NEW settled \in BOOLEAN, ProducerAttempted(settled) PROVE ApiInv'
    <2>1. /\ infra' = [infra EXCEPT !.step = "probe", !.left = ResourceBudget]
          /\ infra.step = "producer" /\ probe' = ProbeClose /\ closed' = closed
        BY <1>5 DEF ProducerAttempted
    <2>2. /\ infra' \in Infras /\ infra'.step = "probe" /\ infra'.left = ResourceBudget
          /\ infra'.spent = infra.spent
        BY <1>1, <2>1, Timers DEF Infras
    <2>3. PICK g : /\ g = IF probe.gen = "open" THEN "cut" ELSE probe.gen
                   /\ probe' = [probe EXCEPT !.close = "flight", !.gen = g]
        BY <2>1 DEF ProbeClose
    <2>4. /\ probe' \in Probes /\ probe'.close = "flight" /\ probe'.gen = g
          /\ probe'.flight = probe.flight /\ probe'.timer = probe.timer
        BY <1>1, <2>3 DEF Probes
    <2>5. TypeOK'
        BY <1>1, <1>2, <2>1, <2>2, <2>4, Types DEF TypeOK, Procs, Requests, Probes, Infras
    <2>6. BudgetInv' /\ DrainInv' /\ EndInv'
        BY <1>1, <1>2, <1>3, <2>1, <2>2 DEF BudgetInv, DrainInv, EndInv, ShuttingDown
    <2>7. ProbeInv'
        BY <1>1, <2>1, <2>2, <2>3, <2>4 DEF ProbeInv, Probes
    <2>8. SettleInv'
        <3>1. probe.gen = "closing" => probe.timer < ResourceBudget
            BY <1>1, Timers DEF ProbeInv, Probes
        <3> QED BY <2>2, <2>3, <2>4, <3>1, Timers DEF SettleInv
    <2> QED BY <2>5, <2>6, <2>7, <2>8 DEF ApiInv
<1>6. CASE ProbeAttempted
    <2>1. /\ infra' = [infra EXCEPT !.step = "redis", !.left = ResourceBudget]
          /\ infra.step = "probe" /\ UNCHANGED <<probe, closed>> /\ probe.close = "done"
        BY <1>1, <1>3, <1>6 DEF ProbeAttempted, SettleInv
    <2>2. /\ infra' \in Infras /\ infra'.step = "redis" /\ infra'.left = ResourceBudget
          /\ infra'.spent = infra.spent
        BY <1>1, <2>1, Timers DEF Infras
    <2>3. TypeOK'
        BY <1>1, <1>2, <2>1, <2>2, Types DEF TypeOK, Procs, Requests, Probes, Infras
    <2>4. BudgetInv' /\ ProbeInv' /\ SettleInv' /\ DrainInv' /\ EndInv'
        BY <1>1, <1>2, <1>3, <2>1, <2>2
        DEF BudgetInv, ProbeInv, SettleInv, DrainInv, EndInv, ShuttingDown
    <2> QED BY <2>3, <2>4 DEF ApiInv
<1>7. ASSUME NEW c \in Clients, NEW settled \in BOOLEAN, RedisAttempted(c, settled)
      PROVE  ApiInv'
    <2>1. /\ infra' = [infra EXCEPT !.left = infra.left] /\ infra.step = "redis"
          /\ closed' = closed \cup {c} /\ probe' = probe
        BY <1>7 DEF RedisAttempted, RedisLeft
    <2>2. /\ infra' \in Infras /\ infra'.step = "redis" /\ infra'.left = infra.left
          /\ infra'.spent = infra.spent
        BY <1>1, <2>1 DEF Infras
    <2>3. TypeOK'
        BY <1>1, <1>2, <2>1, <2>2, Types DEF TypeOK, Procs, Requests, Probes, Infras
    <2>4. BudgetInv' /\ ProbeInv' /\ SettleInv' /\ DrainInv' /\ EndInv'
        BY <1>1, <1>2, <2>1, <2>2
        DEF BudgetInv, ProbeInv, SettleInv, DrainInv, EndInv, ShuttingDown
    <2> QED BY <2>3, <2>4 DEF ApiInv
<1>8. CASE RedisDone
    <2>1. UNCHANGED <<probe, closed>> /\ infra.step = "redis" /\ Clients \subseteq closed
        BY <1>8 DEF RedisDone
    <2>2. PICK t \in {"end", "pg"}, n \in 0..Off : infra' = [infra EXCEPT !.step = t, !.left = n]
        <3>1. CASE "pg" \in closed
            BY <1>8, <3>1, Timers DEF RedisDone
        <3>2. CASE "pg" \notin closed
            <4>1. (IF infra.spent < ProcessBudget THEN ProcessBudget - infra.spent ELSE 0) \in 0..Off
                BY <1>3, BudgetAssumption DEF Off
            <4> QED BY <1>8, <3>2, <4>1 DEF RedisDone
        <3> QED BY <3>1, <3>2
    <2>3. infra' \in Infras /\ infra'.step = t /\ infra'.spent = infra.spent
        BY <1>1, <2>2 DEF Infras
    <2>4. TypeOK'
        BY <1>1, <1>2, <2>1, <2>3, Types DEF TypeOK, Procs, Requests, Probes, Infras
    <2>5. BudgetInv' /\ ProbeInv' /\ SettleInv' /\ DrainInv' /\ EndInv'
        BY <1>1, <1>2, <2>1, <2>3
        DEF BudgetInv, ProbeInv, SettleInv, DrainInv, EndInv, LetGo, ShuttingDown
    <2> QED BY <2>4, <2>5 DEF ApiInv
<1>9. ASSUME NEW settled \in BOOLEAN, PgAttempted(settled) PROVE ApiInv'
    <2>1. /\ infra' = [infra EXCEPT !.step = "end", !.left = Off] /\ infra.step = "pg"
          /\ closed \subseteq closed' /\ closed' \subseteq Clients \cup {"pg"} /\ probe' = probe
        BY <1>1, <1>9 DEF PgAttempted
    <2>2. infra' \in Infras /\ infra'.step = "end" /\ infra'.spent = infra.spent
        BY <1>1, <2>1, Timers DEF Infras
    <2>3. TypeOK'
        BY <1>1, <1>2, <2>1, <2>2, Types DEF TypeOK, Procs, Requests, Probes, Infras
    <2>4. BudgetInv' /\ ProbeInv' /\ SettleInv' /\ DrainInv' /\ EndInv'
        BY <1>1, <1>2, <2>1, <2>2
        DEF BudgetInv, ProbeInv, SettleInv, DrainInv, EndInv, LetGo, ShuttingDown
    <2> QED BY <2>3, <2>4 DEF ApiInv
<1> QED BY <1>4, <1>5, <1>6, <1>7, <1>8, <1>9

\* A tick in the observer's attempt is one of its disposal too: before the
\* disposal and after it a continuation is ready, and time stands still.
LEMMA TickInv ==
    ASSUME ApiInv, Tick
    PROVE  ApiInv'
<1>1. /\ proc \in Procs /\ request \in Requests /\ busy \in BOOLEAN
      /\ probe \in Probes /\ infra \in Infras /\ closed \subseteq Clients \cup {"pg"}
      /\ BudgetInv /\ ProbeInv /\ SettleInv /\ DrainInv /\ EndInv
    BY Types DEF ApiInv
<1>2. /\ UNCHANGED <<busy, closed>> /\ proc.exit = "running"
      /\ proc.watchdog > 0 /\ request.left > 0 /\ probe.timer > 0 /\ infra.left > 0
      /\ ~ProbeReady /\ ~InfraReady
    BY DEF Tick, Running
<1>3. PICK w, q, t, n :
         /\ w = Earlier(proc.watchdog) /\ q = Earlier(request.left)
         /\ t = Earlier(probe.timer) /\ n = Earlier(infra.left)
    OBVIOUS
<1>4. /\ w \in 0..Off /\ q \in 0..Off /\ t \in 0..Off /\ n \in 0..Off
      /\ w = Off <=> proc.watchdog = Off
      /\ q = Off <=> request.left = Off
    BY <1>1, <1>2, <1>3, EarlierTimer DEF Procs, Requests, Probes, Infras
<1>5. /\ proc' \in Procs /\ proc'.app = proc.app /\ proc'.exit = proc.exit
      /\ proc'.code = proc.code /\ proc'.watchdog = w
    <2>1. proc' = [proc EXCEPT !.watchdog = w]
        BY <1>3 DEF Tick
    <2> QED BY <1>1, <1>4, <2>1 DEF Procs
<1>6. request' \in Requests /\ (request = NoRequest => request' = NoRequest)
    <2>1. request' = [request EXCEPT !.left = q]
        BY <1>3 DEF Tick
    <2>2. /\ request' \in Requests /\ request'.left = q /\ request'.pending = request.pending
          /\ request'.healthy = request.healthy
        BY <1>1, <1>4, <2>1 DEF Requests
    <2> QED BY <1>4, <2>2, NoRequestFields DEF NoRequest
<1>7. /\ probe' \in Probes /\ probe'.gen = probe.gen /\ probe'.flight = probe.flight
      /\ probe'.close = probe.close /\ probe'.timer = t
    <2>1. probe' = [probe EXCEPT !.timer = t]
        BY <1>3 DEF Tick
    <2> QED BY <1>1, <1>4, <2>1 DEF Probes
<1>8. PICK s : /\ s = IF SequenceRuns THEN infra.spent + 1 ELSE infra.spent
               /\ infra' = [infra EXCEPT !.left = n, !.spent = s]
    BY <1>3 DEF Tick
<1>9. /\ infra.left \in Nat /\ infra.spent \in Nat /\ ResourceBudget \in Nat
      /\ SequenceRuns => /\ infra.left # Off /\ n = infra.left - 1 /\ s = infra.spent + 1
                         /\ infra.spent + infra.left <= 3 * ResourceBudget
      /\ ~SequenceRuns => s = infra.spent
    <2>1. infra.left \in 0..Off /\ infra.spent \in Nat /\ infra.left \in Nat
        BY <1>1, Timers DEF Infras
    <2>2. SequenceRuns => infra.spent + infra.left <= 3 * ResourceBudget
        BY <1>1, <2>1, BudgetAssumption DEF SequenceRuns, BudgetInv
    <2>3. SequenceRuns => infra.left # Off
        BY <2>1, <2>2, BudgetAssumption DEF Off
    <2>4. SequenceRuns => n = infra.left - 1
        BY <1>2, <1>3, <2>1, <2>3, EarlierTimer
    <2> QED BY <1>8, <2>1, <2>2, <2>3, <2>4, Timers
<1>10. s \in 0..3 * ResourceBudget
    BY <1>1, <1>2, <1>8, <1>9 DEF Infras
<1>11. infra' \in Infras /\ infra'.step = infra.step /\ infra'.left = n /\ infra'.spent = s
    BY <1>1, <1>4, <1>8, <1>10 DEF Infras
<1>12. TypeOK'
    BY <1>1, <1>2, <1>5, <1>6, <1>7, <1>11, Types DEF TypeOK, Procs, Requests, Probes, Infras
<1>13. BudgetInv'
    BY <1>1, <1>9, <1>11 DEF BudgetInv, SequenceRuns
<1>14. probe.gen = "closing" => t = probe.timer - 1 /\ t <= ProbeDeadline
    BY <1>1, <1>2, <1>3, Timers, BudgetAssumption, EarlierTimer DEF ProbeInv, Probes, Off
<1>15. ProbeInv'
    BY <1>1, <1>7, <1>11, <1>14 DEF ProbeInv
<1>16. SettleInv'
    <2>1. CASE infra.step = "probe"
        <3>1. probe.close # "done" /\ probe.gen = "closing"
            BY <1>1, <1>2, <2>1 DEF InfraReady, ProbeReady, ProbeInv, Probes
        <3>2. /\ probe.timer < infra.left /\ probe.timer \in Nat /\ infra.left \in Nat
              /\ t = probe.timer - 1 /\ n = infra.left - 1 /\ probe.timer > 0
            BY <1>1, <1>2, <1>9, <1>14, <2>1, <3>1, Timers DEF SettleInv, SequenceRuns, Probes
        <3> QED BY <1>7, <1>11, <2>1, <3>1, <3>2 DEF SettleInv
    <2>2. CASE infra.step # "probe"
        BY <1>1, <1>7, <1>11, <2>2 DEF SettleInv
    <2> QED BY <2>1, <2>2
<1>17. DrainInv' /\ EndInv'
    BY <1>1, <1>2, <1>4, <1>5, <1>6, <1>7, <1>11 DEF DrainInv, EndInv, LetGo, ShuttingDown
<1> QED BY <1>12, <1>13, <1>15, <1>16, <1>17 DEF ApiInv

\* The invariant is inductive.
LEMMA ApiInvariance ==
    FairSpec => []ApiInv
<1>1. ASSUME ApiInv, [Next]_vars PROVE ApiInv'
    <2>1. CASE UNCHANGED vars
        BY <1>1, <2>1 DEF vars, ApiInv, TypeOK, BudgetInv, ProbeInv, SettleInv, DrainInv, EndInv,
                          LetGo, ShuttingDown
    <2>2. CASE Internal
        BY <1>1, <2>2, ServingInv, ObserverInv, ControllerInv, SequenceInv, TickInv DEF Internal
    <2>3. CASE External
        BY <1>1, <2>3, ServingInv, ObserverInv, ControllerInv, SequenceInv DEF External
    <2> QED BY <1>1, <2>1, <2>2, <2>3 DEF Next
<1>2. ApiInv /\ [Next]_vars => ApiInv'
    BY <1>1
<1>3. Init /\ [][Next]_vars => []ApiInv
    BY <1>2, InitApiInv, PTL
<1> QED BY <1>3, PTL DEF FairSpec

-----------------------------------------------------------------------------
(* Theorems *)

\* The types, and with them that at most three resource budgets are spent when
\* the pool's turn comes, whatever hangs.
THEOREM ApiTypes ==
    FairSpec => []TypeOK
<1>1. ApiInv => TypeOK
    BY DEF ApiInv
<1> QED BY <1>1, ApiInvariance, PTL

\* QueueDepthProbe.close() always settles inside the budget of its attempt.
THEOREM ObserverClosesInTime ==
    FairSpec => []ProbeCloseFits
<1>1. ApiInv => ProbeCloseFits
    BY DEF ApiInv, SettleInv, ProbeInv, ProbeCloseFits
<1> QED BY <1>1, ApiInvariance, PTL

\* A process that exits 0 has let go of everything it owned.
THEOREM ExitsAreClean ==
    FairSpec => []CleanExit
<1>1. ApiInv => CleanExit
    BY DEF ApiInv, EndInv, LetGo, ProbeInv, CleanExit
<1> QED BY <1>1, ApiInvariance, PTL

\* However long the producer, the observer and the Redis clients take, pool.end()
\* begins with what the process budget leaves beyond three resource budgets.
THEOREM PoolGetsItsBudget ==
    FairSpec => [][infra.step # "pg" /\ infra'.step = "pg" =>
                      infra'.left >= ProcessBudget - 3 * ResourceBudget]_vars
<1> DEFINE P == infra.step # "pg" /\ infra'.step = "pg" =>
                   infra'.left >= ProcessBudget - 3 * ResourceBudget
<1>1. ASSUME ApiInv, [Next]_vars PROVE [P]_vars
    <2> SUFFICES ASSUME Next, infra.step # "pg", infra'.step = "pg"
                 PROVE  infra'.left >= ProcessBudget - 3 * ResourceBudget
        BY <1>1
    <2>1. infra \in Infras
        BY <1>1, Types DEF ApiInv
    <2>2. ASSUME ~RedisDone PROVE FALSE
        <3>1. \/ infra' = infra \/ infra'.step = infra.step
              \/ infra'.step \in {"end", "drain", "producer", "probe", "redis"}
            BY <2>1, <2>2
            DEF Next, Internal, External, Tick, ReadinessReply, DisposeEnds, ProbeCloseContinues,
                ProbeCloseReturns, WatchdogFires, Exit, Drained, ProducerAttempted,
                ProbeAttempted, PgAttempted, RedisAttempted, CommandFails, CloseFails, Bootstrap,
                OtherRequest, ClientHangsUp, CommandReplies, UnhandledRejection, Shutdown,
                GetReadiness, CheckAnswers, ClientLost, Signal, Infras
        <3> QED BY <3>1
    <2>3. infra.spent < ProcessBudget /\ infra.spent <= 3 * ResourceBudget /\ infra.spent \in Nat
        BY <2>1, BudgetAssumption DEF Infras
    <2>4. infra' = [infra EXCEPT !.step = "pg", !.left = ProcessBudget - infra.spent]
        <3>1. "pg" \notin closed
            BY <2>1, <2>2 DEF RedisDone, Infras
        <3> QED BY <2>2, <2>3, <3>1 DEF RedisDone
    <2>5. infra'.left = ProcessBudget - infra.spent
        BY <2>1, <2>4 DEF Infras
    <2> QED BY <2>3, <2>5, BudgetAssumption
<1>2. ApiInv /\ [Next]_vars => [P]_vars
    BY <1>1
<1>3. Init /\ [][Next]_vars /\ []ApiInv => [][P]_vars
    BY <1>2, PTL
<1> QED BY <1>3, ApiInvariance, PTL DEF FairSpec
=============================================================================
