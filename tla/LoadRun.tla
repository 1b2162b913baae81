------------------------------ MODULE LoadRun ------------------------------
(***************************************************************************)
(* The stress runner (scripts/stress.mjs): one run of a profile's          *)
(* scenarios, its child registry, the samplers beside the workload, the    *)
(* audit child (LoadAudit), the signals that interrupt it, and the cleanup *)
(* that removes what it started.                                           *)
(*                                                                         *)
(* A scenario is a sequence of steps, most of which await one child.  The  *)
(* children of one step that run together are one here.                    *)
(***************************************************************************)
EXTENDS LoadAudit

CONSTANT Scenarios   \* the selected definitions: the first is the warmup of a
                     \* full run, or the one scenario of a smoke run

ASSUME ScenariosAssumption == Scenarios \in Nat \ {0}

VARIABLES
    run,         \* main(): its step, the scenario, what failed, what is done
    child,       \* per role: "none", or the state of its registered child
    registry,    \* mode, and the active termination's targets and escalation
    sampler,     \* startSamplers: its interval, the tick in flight, its code,
                 \* whether it failed, and whether its drain is going on
    interrupted, \* signals so far, counted up to two
    expected     \* the confirmed purchases in the k6 summary

vars == <<auditVars, run, child, registry, sampler, interrupted, expected>>

Roles == {"control", "workload", "sampler", "audit", "observability", "cleanup"}
NonCleanup == Roles \ {"cleanup"}

\* The steps of main() and runScenario that await a child, and its role.
Awaited ==
    [datastore |-> "control", recreate |-> "control", render |-> "control",
     probe |-> "control", before |-> "observability", workload |-> "workload",
     audit |-> "audit", after |-> "observability", ps |-> "observability",
     inspect |-> "observability", logs |-> "observability", cleanup |-> "cleanup"]

Steps == DOMAIN Awaited \cup {"enter", "ready", "stopping", "drain", "evidence", "summary",
                              "verdict", "write", "ended", "crashed"}
Over == {"ended", "crashed"}

\* Steps whose command() has a timeoutMs; the sampler's has one, too.
Timed == {"probe", "before", "after", "ps", "inspect", "logs", "cleanup"}

SamplersOff == [on |-> FALSE, tick |-> "none", code |-> "null", failed |-> FALSE,
                drain |-> FALSE]

TypeOK ==
    /\ AuditTypeOK
    /\ run \in [step : Steps, scenario : 1..Scenarios, failures : BOOLEAN, green : BOOLEAN,
                failed : BOOLEAN, passed : 0..Scenarios, written : BOOLEAN,
                cleanup : {"no", "ok", "bad"}, harmed : BOOLEAN]
    /\ child \in [Roles -> {"none", "running", "termed", "late", "killed"}]
    /\ registry \in [mode : {"open", "draining", "terminal"}, active : BOOLEAN,
                     targets : SUBSET NonCleanup, forced : BOOLEAN]
    /\ sampler \in [on : BOOLEAN, tick : {"none", "http", "stats", "failing"},
                    code : {"null", "0", "1"}, failed : BOOLEAN, drain : BOOLEAN]
    /\ interrupted \in 0..2
    /\ expected \in 0..Cardinality(Users)

Init ==
    /\ AuditInit
    /\ run = [step |-> "datastore", scenario |-> 1, failures |-> FALSE, green |-> TRUE,
              failed |-> FALSE, passed |-> 0, written |-> FALSE, cleanup |-> "no",
              harmed |-> FALSE]
    /\ child = [r \in Roles |-> "none"]
    /\ registry = [mode |-> "open", active |-> FALSE, targets |-> {}, forced |-> FALSE]
    /\ sampler = SamplersOff
    /\ interrupted = 0
    /\ expected = 0

Alive(r) == child[r] # "none"

-----------------------------------------------------------------------------
(* createChildRegistry *)

\* Mutant: the registry accepts a spawn while it drains.
AcceptsWhileDraining == interrupted = 0

\* command() and claimSpawn: nothing but the cleanup is spawned after an
\* interruption or while a termination drains the registry.
Accepts == interrupted = 0 /\ registry.mode = "open"

\* The children a termination is responsible for.
Targets == {r \in NonCleanup : Alive(r)}

Signalled(rs, from, to) ==
    [r \in Roles |-> IF r \in rs /\ child[r] \in from THEN to ELSE child[r]]

\* terminateNonCleanup: joins the active termination (killing its survivors at
\* once without a force delay), or starts one.  terminal is for good.
Terminate(terminal, forceNow) ==
    LET mode == IF terminal \/ registry.mode = "terminal" THEN "terminal" ELSE "draining"
        joined == IF terminal THEN "terminal" ELSE registry.mode
    IN  IF registry.active
        THEN /\ registry' = [registry EXCEPT !.mode = joined, !.forced = @ \/ forceNow]
             /\ child' = IF forceNow
                         THEN Signalled(registry.targets, {"running", "termed", "late"}, "killed")
                         ELSE child
             /\ UNCHANGED run
        ELSE /\ registry' = [mode |-> mode, active |-> TRUE, targets |-> Targets, forced |-> FALSE]
             /\ child' = Signalled(Targets, {"running"}, "termed")
             /\ run' = [run EXCEPT !.harmed = @ \/ Targets \cap {"workload", "audit"} # {}]

\* Mutant: survivors of SIGTERM are not killed.
ForceNothing ==
    /\ registry.active /\ ~registry.forced
    /\ registry' = [registry EXCEPT !.forced = TRUE]
    /\ UNCHANGED <<auditVars, run, child, sampler, interrupted, expected>>

\* The force delay is over: what survives gets SIGKILL.
KillSurvivors ==
    /\ registry.active /\ ~registry.forced
    /\ registry' = [registry EXCEPT !.forced = TRUE]
    /\ child' = Signalled(registry.targets, {"running", "termed", "late"}, "killed")
    /\ UNCHANGED <<auditVars, run, sampler, interrupted, expected>>

\* All targets have settled.
TerminationEnds ==
    /\ registry.active
    /\ \A r \in registry.targets : ~Alive(r)
    /\ registry' = [mode |-> IF registry.mode = "terminal" THEN "terminal" ELSE "open",
                    active |-> FALSE, targets |-> {}, forced |-> FALSE]
    /\ sampler' = [sampler EXCEPT !.drain = FALSE]
    /\ UNCHANGED <<auditVars, run, child, interrupted, expected>>

\* SIGINT or SIGTERM to the runner: the first interrupts, the next one kills.
Signal ==
    /\ run.step \notin Over
    /\ interrupted' = IF interrupted < 2 THEN interrupted + 1 ELSE 2
    /\ Terminate(TRUE, interrupted > 0)
    /\ UNCHANGED <<auditVars, sampler, expected>>

-----------------------------------------------------------------------------
(* command(): a child's timeout *)

CanTimeOut(r) ==
    r = "sampler" \/ (run.step \in Timed /\ Awaited[run.step] = r)

TimesOut(r) ==
    /\ child[r] = "running" /\ CanTimeOut(r)
    /\ child' = [child EXCEPT ![r] = "late"]
    /\ UNCHANGED <<auditVars, run, registry, sampler, interrupted, expected>>

LateKilled(r) ==
    /\ child[r] = "late"
    /\ child' = [child EXCEPT ![r] = "killed"]
    /\ UNCHANGED <<auditVars, run, registry, sampler, interrupted, expected>>

\* How a child may end: one that was killed or timed out has failed, one that
\* got SIGTERM may still exit 0, the audit ends as its process does.
CanClose(r, ok) ==
    /\ Alive(r)
    /\ ok => child[r] \in {"running", "termed"}
    /\ r = "audit" => (ok => audit.pc = "exit0") /\ (child[r] = "running" => ~AuditRuns)

-----------------------------------------------------------------------------
(* runScenario and main *)

\* A scenario ends.  A failed warmup ends the run.
EndScenario(r, ok) ==
    LET last == r.scenario = Scenarios \/ (~ok /\ r.scenario = 1)
    IN  [r EXCEPT !.failed = @ \/ ~ok, !.passed = IF ok THEN @ + 1 ELSE @,
                  !.failures = FALSE, !.green = TRUE,
                  !.step = IF last THEN "write" ELSE "enter",
                  !.scenario = IF last THEN @ ELSE @ + 1]

\* A step whose failure is noted, and the scenario goes on.
Noted(r, ok, next) ==
    [r EXCEPT !.step = next, !.failures = @ \/ ~ok, !.green = @ /\ ok]

\* A step whose failure ends the scenario.
Required(ok, next) ==
    IF ok THEN [run EXCEPT !.step = next] ELSE EndScenario(run, FALSE)

\* runPermissionProbe: the k6 container creates and removes a file as this user.
Probed(ok) == Required(ok, "before")

\* capture: the before image is required, the after image is noted.
Captured(ok) ==
    IF run.step = "before" THEN Required(ok, "workload") ELSE Noted(run, ok, "ps")

\* docker inspect, skipped without containers, and validateContainerInspection.
Listed(ok) == Noted(run, ok, IF ok THEN "inspect" ELSE "logs")
Inspected(ok) == Noted(run, ok, "logs")

\* The logs of api and worker: a spawn that fails is a failed log, too.
Logged(ok) == Noted(run, ok, "verdict")

\* The finally block of main(): the outcome of the cleanup is recorded.
CleanedUp(how) == [run EXCEPT !.step = "ended", !.cleanup = how]

\* The step's child was refused, could not be spawned, or has ended.
Continue(how) ==
    LET s == run.step
        ok == how = "ok"
    IN  run' =
        CASE s = "datastore" -> IF ok THEN [run EXCEPT !.step = "enter"]
                                ELSE [run EXCEPT !.failed = TRUE, !.step = "cleanup"]
          [] s = "recreate" -> Required(ok, "ready")
          [] s = "render" -> Required(ok, "probe")
          [] s = "probe" -> Probed(ok)
          [] s \in {"before", "after"} -> Captured(ok)
          [] s = "workload" -> Noted(run, ok, "stopping")
          [] s \in {"audit", "ps", "inspect"} /\ how = "refused" -> EndScenario(run, FALSE)
          [] s = "audit" /\ how # "refused" -> Noted(run, ok, "after")
          [] s = "ps" /\ how # "refused" -> Listed(ok)
          [] s = "inspect" /\ how # "refused" -> Inspected(ok)
          [] s = "logs" -> Logged(ok)
          [] s = "cleanup" -> CleanedUp(how)

AtChild == run.step \in DOMAIN Awaited /\ ~Alive(Awaited[run.step])

\* The workload's promise has no handler while runtime.json is written: a
\* refused or failed spawn is an unhandled rejection and ends the process.
Crash ==
    /\ run' = [run EXCEPT !.step = "crashed"]
    /\ UNCHANGED <<child, registry, sampler>>

\* The workload is started before its samplers.
Spawn ==
    /\ AtChild
    /\ run.step = "cleanup" \/ Accepts
    /\ child' = [child EXCEPT ![Awaited[run.step]] = "running"]
    /\ sampler' = IF run.step = "workload" THEN [SamplersOff EXCEPT !.on = TRUE] ELSE sampler
    /\ IF run.step = "audit"
       THEN \E jobs \in [Users -> {"waiting", "lost"}] : AuditStarts(jobs)
       ELSE UNCHANGED auditVars
    /\ UNCHANGED <<run, registry, interrupted, expected>>

\* The registry refuses the child, or the system cannot start it.
SpawnFails ==
    /\ AtChild
    /\ \/ run.step = "workload" /\ Crash
       \/ /\ run.step \notin {"workload", "cleanup"}
          /\ Continue("refused")
          /\ UNCHANGED <<child, registry, sampler>>
    /\ UNCHANGED <<auditVars, interrupted, expected>>

\* The child the step awaits has ended.  Nobody looks at the system any more
\* once its audit has.
Closes(ok) ==
    /\ run.step \in DOMAIN Awaited
    /\ CanClose(Awaited[run.step], ok)
    /\ child' = [child EXCEPT ![Awaited[run.step]] = "none"]
    /\ Continue(IF ok THEN "ok" ELSE "bad")
    /\ IF run.step = "audit"
       THEN audit' = [AuditOff EXCEPT !.seen = audit.seen] /\ sys' = SysQuiet /\ expected' = 0
       ELSE UNCHANGED <<audit, sys, expected>>
    /\ UNCHANGED <<file, registry, sampler, interrupted>>

\* A scenario begins, unless interrupted or the implementation has changed.
Enter(ok) ==
    /\ run.step = "enter"
    /\ run' = IF ok /\ interrupted = 0 THEN [run EXCEPT !.step = "recreate"]
              ELSE EndScenario(run, FALSE)
    /\ sampler' = SamplersOff
    /\ file' = [state |-> "none", pass |-> FALSE]
    /\ expected' = 0
    /\ UNCHANGED <<sys, audit, child, registry, interrupted>>

\* waitJson for the worker, the API and the sale, and alignWindowEdgeLaunch:
\* each has a deadline and is aborted by an interruption.
Ready(ok) ==
    /\ run.step = "ready"
    /\ ok => interrupted = 0
    /\ run' = IF ok THEN [run EXCEPT !.step = "render"] ELSE EndScenario(run, FALSE)
    /\ UNCHANGED <<auditVars, child, registry, sampler, interrupted, expected>>

\* Mutant: stopSamplers does not wait for the tick in flight.
StopNow == TRUE

\* stopSamplers waits for the tick in flight.
Stopped == sampler.tick = "none"

StopSamplers ==
    /\ run.step = "stopping" /\ sampler.on
    /\ sampler' = [sampler EXCEPT !.on = FALSE]
    /\ UNCHANGED <<auditVars, run, child, registry, interrupted, expected>>

\* Mutant: the last tick decides.
LastTickFailed == sampler.code = "1"

\* samplerFailure: some tick has failed.
SamplerFailure == sampler.failed

\* The statuses of workload and sampler are written.
SamplersStopped ==
    /\ run.step = "stopping" /\ ~sampler.on /\ Stopped
    /\ run' = [run EXCEPT !.step = "drain",
                          !.green = @ /\ ~SamplerFailure /\ sampler.code = "0"]
    /\ UNCHANGED <<auditVars, child, registry, sampler, interrupted, expected>>

\* The termination a failed sampler started or joined has ended.
Drained == ~sampler.drain

AwaitDrain ==
    /\ run.step = "drain" /\ Drained
    /\ run' = [run EXCEPT !.step = "evidence", !.failures = @ \/ SamplerFailure]
    /\ UNCHANGED <<auditVars, child, registry, sampler, interrupted, expected>>

\* validateSamplerEvidence: there must be samples at all.
Evidence(ok) ==
    /\ run.step = "evidence"
    /\ ok => sampler.code # "null"
    /\ run' = Noted(run, ok, "summary")
    /\ UNCHANGED <<auditVars, child, registry, sampler, interrupted, expected>>

\* The k6 summary and its confirmed count; without a count there is no audit.  A
\* summary of another scenario is a failure, and its count is audited.
Summary(ok, counted, confirmed) ==
    /\ run.step = "summary"
    /\ ok => counted
    /\ run' = Noted(run, ok, IF counted THEN "audit" ELSE "after")
    /\ expected' = IF counted THEN confirmed ELSE expected
    /\ UNCHANGED <<auditVars, child, registry, sampler, interrupted>>

Readable == file.state \in {"linked", "proven"}

\* Saturation warnings are failures; without failures the scenario passes if
\* audit.json can be read and every recorded status is 0.
Verdict(warnings) ==
    /\ run.step = "verdict"
    /\ run' = EndScenario(run, ~run.failures /\ ~warnings /\ Readable /\ run.green)
    /\ UNCHANGED <<auditVars, child, registry, sampler, interrupted, expected>>

\* Results are written after a run without failures, and before the cleanup; a
\* full run with other than three repetitions writes none.
Write(wanted, ok) ==
    /\ run.step = "write"
    /\ LET writes == wanted /\ ~run.failed IN
       run' = [run EXCEPT !.step = "cleanup", !.written = writes /\ ok,
                          !.failed = @ \/ (writes /\ ~ok)]
    /\ UNCHANGED <<auditVars, child, registry, sampler, interrupted, expected>>

-----------------------------------------------------------------------------
(* startSamplers *)

Tick ==
    /\ run.step \notin Over
    /\ sampler.on /\ sampler.tick = "none"
    /\ sampler' = [sampler EXCEPT !.tick = "http"]
    /\ UNCHANGED <<auditVars, run, child, registry, interrupted, expected>>

\* The first failure of a tick terminates the workload.
TickFails ==
    /\ sampler' = [sampler EXCEPT !.tick = "none", !.code = "1", !.failed = TRUE,
                                  !.drain = @ \/ ~sampler.failed]
    /\ IF sampler.failed THEN UNCHANGED <<run, child, registry>> ELSE Terminate(FALSE, FALSE)

\* The three probes are done (failed ones are rows, too): docker stats runs.
\* A stopped sampler's probes are aborted, and the tick returns.
ProbesDone ==
    /\ sampler.tick = "http"
    /\ \/ /\ ~sampler.on
          /\ sampler' = [sampler EXCEPT !.tick = "none"]
          /\ UNCHANGED <<run, child, registry>>
       \/ /\ sampler.on /\ Accepts
          /\ sampler' = [sampler EXCEPT !.tick = "stats"]
          /\ child' = [child EXCEPT !["sampler"] = "running"]
          /\ UNCHANGED <<run, registry>>
       \/ sampler.on /\ ~Accepts /\ TickFails
    /\ UNCHANGED <<auditVars, interrupted, expected>>

StatsClose ==
    /\ sampler.tick = "stats" /\ CanClose("sampler", TRUE)
    /\ child' = [child EXCEPT !["sampler"] = "none"]
    /\ sampler' = [sampler EXCEPT !.tick = "none", !.code = "0"]
    /\ UNCHANGED <<auditVars, run, registry, interrupted, expected>>

\* docker stats failed: its child is gone from the registry when the drain
\* starts.
StatsFail ==
    /\ sampler.tick = "stats" /\ CanClose("sampler", FALSE)
    /\ child' = [child EXCEPT !["sampler"] = "none"]
    /\ sampler' = [sampler EXCEPT !.tick = "failing"]
    /\ UNCHANGED <<auditVars, run, registry, interrupted, expected>>

StatsFailed ==
    /\ sampler.tick = "failing"
    /\ TickFails
    /\ UNCHANGED <<auditVars, interrupted, expected>>

-----------------------------------------------------------------------------

\* The audit child's own steps.
AuditSteps ==
    /\ child["audit"] \in {"running", "termed"}
    /\ AuditNext(expected)
    /\ UNCHANGED <<run, child, registry, sampler, interrupted, expected>>

\* What main() does by itself once its await is over.
MainSteps ==
    \/ Spawn \/ SpawnFails \/ StopSamplers \/ SamplersStopped \/ AwaitDrain
    \/ \E ok \in BOOLEAN : Enter(ok) \/ Ready(ok) \/ Evidence(ok) \/ Verdict(ok)
    \/ \E wanted, ok \in BOOLEAN : Write(wanted, ok)
    \/ \E ok, counted \in BOOLEAN, n \in {Cardinality(Users), 0} : Summary(ok, counted, n)

\* The samplers' probes have their own timeout.
TickSteps == ProbesDone \/ StatsFailed

\* The timers of terminations and commands, and the end of what is killed.
TimerSteps == \E r \in Roles : TimesOut(r) \/ LateKilled(r)
Reaped ==
    \/ run.step \in DOMAIN Awaited /\ child[Awaited[run.step]] = "killed" /\ Closes(FALSE)
    \/ child["sampler"] = "killed" /\ StatsFail

Next ==
    \/ MainSteps \/ TickSteps \/ TimerSteps \/ KillSurvivors \/ TerminationEnds
    \/ Signal \/ Tick \/ StatsClose \/ StatsFail \/ AuditSteps
    \/ \E ok \in BOOLEAN : Closes(ok)

\* The event loop, the timers and the kernel are fair.  Children need not end
\* unless they are killed, and nobody need interrupt the run.
FairSpec ==
    /\ Init /\ [][Next]_vars
    /\ WF_vars(MainSteps) /\ WF_vars(TickSteps) /\ WF_vars(TimerSteps)
    /\ WF_vars(KillSurvivors) /\ WF_vars(TerminationEnds) /\ WF_vars(Reaped)

-----------------------------------------------------------------------------

\* A termination knows every child it has to end: none is spawned behind its
\* back, by the run or by a sampler's tick, and the cleanup is never among
\* them.  An interruption closes the registry for good.
TerminationExact ==
    /\ registry.mode # "open" => Targets \subseteq registry.targets
    /\ child["cleanup"] # "termed"
    /\ interrupted > 0 => registry.mode = "terminal"

\* Nothing of a scenario's load is left when it is audited, when the next one
\* begins or when the containers are removed: no workload, no tick of its
\* samplers, and no drain that would refuse the next child.
QuietAfterLoad ==
    run.step \notin {"workload", "stopping", "drain"} \cup Over =>
        /\ ~Alive("workload") /\ ~Alive("sampler")
        /\ ~sampler.on /\ sampler.tick = "none"
        /\ registry.mode # "draining"

\* Results are only written when every scenario passed with a proven, passing
\* audit report and no workload or audit of the run was ever signalled by the
\* runner, although a child that gets SIGTERM may still exit 0.
ResultsTrusted ==
    run.written => /\ run.passed = Scenarios /\ ~run.harmed
                   /\ file.state = "proven" /\ file.pass

\* audit.json only ever shows a state the system was really in at one instant,
\* although a snapshot is collected in seven reads while the worker goes on.
ReportSeen == Readable => audit.seen

\* The next child the run starts is its workload.
AboutToLoad ==
    \/ run.step = "before" /\ Alive(Awaited["before"])
    \/ run.step = "workload" /\ ~Alive(Awaited["workload"])

\* An interrupted run ends, whatever its children do about SIGTERM, and it ends by
\* way of its cleanup child (stress.spec.ts: an "interruption allows exactly one
\* bounded validated cleanup") unless the signal met the start of a workload, whose
\* refusal nobody handles.
InterruptEnds ==
    /\ interrupted > 0 ~> run.step \in Over
    /\ interrupted > 0 /\ run.step # "crashed" /\ ~AboutToLoad ~> run.step = "ended"
=============================================================================
