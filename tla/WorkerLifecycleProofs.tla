------------------------ MODULE WorkerLifecycleProofs ------------------------
(***************************************************************************)
(* The boot and the readiness of overlapping workers, for every number of  *)
(* worker processes, crashes and restarts.                                 *)
(*                                                                         *)
(* BootDiffIsQuiet is about two workers; what keeps them apart is the      *)
(* session lock, which a boot holds from its pause to its unlock and       *)
(* a pass or sweep while it runs (LockInv), and the pause that only the    *)
(* holder of the lock ends (PauseInv).  ReadyMeansServing is about one     *)
(* worker: Consistent relates its flags, its chain and its consumer at     *)
(* every stage, so that no late write can leave it ready and not serving.  *)
(***************************************************************************)
EXTENDS WorkerLifecycle, SequenceTheorems, TLAPS

Works == {"pass", "sweep"}
Chains == {<<>>, <<"pass">>, <<"sweep">>, <<"pass", "sweep">>, <<"sweep", "pass">>}

WorkerStates ==
    [boot : Stages, consumer : {"none", "prepared", "running", "terminated", "closed"},
     closing : BOOLEAN, subscribed : BOOLEAN, fatal : BOOLEAN, timers : BOOLEAN,
     degraded : BOOLEAN, bootstrapReconciled : BOOLEAN, consumerReady : BOOLEAN,
     healthy : BOOLEAN, confirmed : BOOLEAN, chain : Chains, busy : BOOLEAN,
     coalesced : BOOLEAN, wasHealthy : BOOLEAN, structural : BOOLEAN]

\* Stages in which startLifecycle holds the session lock.  (Its cleanup does too,
\* unless it follows a failed unlock.)
Holding == {"pause", "prepare", "drain", "diff", "start", "unlock"} \cup Transition

\* The stages that have the continuous lifecycle installed.
Installed == {"resume", "verify", "publish", "unlock", "running"}

\* One process: maintenance is scheduled and runs only once it is installed; a
\* worker that is neither stopped nor struck by a termination is subscribed to
\* terminations, and from the start of its consumer on it serves; and readiness
\* is only published at the end of the boot.
Consistent(s) ==
    /\ s \in WorkerStates
    /\ s.busy => s.chain # <<>> /\ s.boot \in {"running", "cleanup", "cleanupClose", "dead"}
    /\ s.chain # <<>> => s.boot \in Installed \cup {"cleanup", "cleanupClose", "dead"}
    /\ s.timers => s.boot \in Installed
    /\ ~s.closing /\ s.boot \in {"start", "install"} \cup Installed => s.subscribed
    /\ ~s.closing /\ ~s.fatal /\ s.boot \in {"install"} \cup Installed => s.consumer = "running"
    /\ ~s.closing /\ ~s.fatal /\ s.boot \in Installed => s.timers
    /\ s.consumerReady => s.boot \in {"unlock", "running"} /\ ~s.closing /\ ~s.fatal

ProcessInv == worker \in [Workers -> WorkerStates] /\ \A w \in Workers : Consistent(worker[w])

SharedInv ==
    /\ paused \in BOOLEAN
    /\ active \in [Workers -> {"no", "mine", "orphan"}]
    /\ lock \in Workers \cup {NoWorker}
    /\ restarts \in 0..MaxRestarts

\* A boot past its first stage, and running maintenance, hold the lock.
LockInv == \A w \in Workers : worker[w].boot \in Holding \/ worker[w].busy => lock = w

\* The queue stays paused from the pause of a boot to its resume.
PausedStages == {"prepare", "drain", "diff", "start", "install", "resume"}
PauseInv == \A w \in Workers : worker[w].boot \in PausedStages => paused

\* Nothing is active while a boot compares.
DiffInv == \A w, v \in Workers : worker[w].boot = "diff" => active[v] = "no"

WorkerInv == ProcessInv /\ SharedInv /\ LockInv /\ PauseInv /\ DiffInv

-----------------------------------------------------------------------------
(* Lemmas *)

\* Appending to a sequence of one.
LEMMA AppendToOne ==
    ASSUME NEW S, NEW x \in S, NEW y \in S
    PROVE  Append(<<x>>, y) = <<x, y>>
<1>1. /\ <<x>> \in Seq(S) /\ Len(<<x>>) = 1 /\ <<x>>[1] = x
      /\ <<x, y>> \in Seq(S) /\ Len(<<x, y>>) = 2 /\ <<x, y>>[1] = x /\ <<x, y>>[2] = y
    OBVIOUS
<1>2. PICK c, d : c = <<x>> /\ d = <<x, y>>
    OBVIOUS
<1>3. /\ Append(c, y) \in Seq(S) /\ Len(Append(c, y)) = 2
      /\ Append(c, y)[1] = x /\ Append(c, y)[2] = y
    BY <1>1, <1>2, AppendProperties
<1>4. d \in Seq(S) /\ Len(d) = 2 /\ d[1] = x /\ d[2] = y
    BY <1>1, <1>2
<1>5. \A i \in 1..Len(d) : Append(c, y)[i] = d[i]
    BY <1>3, <1>4
<1>6. Append(c, y) = d
    BY <1>3, <1>4, <1>5, SeqEqual
<1> QED BY <1>2, <1>6

\* The maintenance chain holds each kind of work at most once.
LEMMA ChainTypes ==
    ASSUME NEW c \in Chains
    PROVE  /\ c \in Seq(Works) /\ Len(c) <= 2 /\ IsInjective(c)
           /\ ~Contains(c, "pass") => Append(c, "pass") \in Chains
           /\ ~Contains(c, "sweep") => Append(c, "sweep") \in Chains
           /\ c # <<>> => /\ Tail(c) \in Chains /\ Head(c) \in Works
                          /\ ~Contains(Tail(c), Head(c))
           /\ \A x \in Works : Append(c, x) # <<>>
<1>1. CASE c = <<>>
    BY <1>1 DEF Chains, Contains, IsInjective, Works
<1>2. CASE c = <<"pass">>
    <2>1. /\ Append(c, "sweep") = <<"pass", "sweep">> /\ Tail(c) = <<>> /\ Head(c) = "pass"
          /\ Len(c) = 1 /\ c \in Seq(Works) /\ c[1] = "pass"
        <3>1. "pass" \in Works /\ "sweep" \in Works
            BY DEF Works
        <3>2. Append(<<"pass">>, "sweep") = <<"pass", "sweep">>
            BY <3>1, AppendToOne
        <3> QED BY <1>2, <3>2 DEF Works
    <2>2. IsInjective(c) /\ Contains(c, "pass") /\ ~Contains(Tail(c), Head(c))
        BY <1>2, <2>1 DEF IsInjective, Contains
    <2>3. \A x \in Works : Append(c, x) # <<>>
        BY <2>1
    <2> QED BY <2>1, <2>2, <2>3 DEF Chains, Works
<1>3. CASE c = <<"sweep">>
    <2>1. /\ Append(c, "pass") = <<"sweep", "pass">> /\ Tail(c) = <<>> /\ Head(c) = "sweep"
          /\ Len(c) = 1 /\ c \in Seq(Works) /\ c[1] = "sweep"
        <3>1. "pass" \in Works /\ "sweep" \in Works
            BY DEF Works
        <3>2. Append(<<"sweep">>, "pass") = <<"sweep", "pass">>
            BY <3>1, AppendToOne
        <3> QED BY <1>3, <3>2 DEF Works
    <2>2. IsInjective(c) /\ Contains(c, "sweep") /\ ~Contains(Tail(c), Head(c))
        BY <1>3, <2>1 DEF IsInjective, Contains
    <2>3. \A x \in Works : Append(c, x) # <<>>
        BY <2>1
    <2> QED BY <2>1, <2>2, <2>3 DEF Chains, Works
<1>4. CASE c = <<"pass", "sweep">>
    BY <1>4 DEF Chains, Contains, IsInjective, Works
<1>5. CASE c = <<"sweep", "pass">>
    BY <1>5 DEF Chains, Contains, IsInjective, Works
<1> QED BY <1>1, <1>2, <1>3, <1>4, <1>5 DEF Chains

\* A process that has just started, and one that is gone.
LEMMA FreshState ==
    /\ Consistent(Fresh) /\ Fresh.boot = "lock" /\ ~Fresh.busy
    /\ Consistent([Fresh EXCEPT !.boot = "down"])
    /\ [Fresh EXCEPT !.boot = "down"].boot = "down" /\ ~[Fresh EXCEPT !.boot = "down"].busy
<1>1. Fresh \in WorkerStates
    BY DEF Fresh, WorkerStates, Chains, Stages
<1>2. /\ Fresh.boot = "lock" /\ ~Fresh.busy /\ Fresh.chain = <<>> /\ ~Fresh.timers
      /\ ~Fresh.consumerReady /\ ~Fresh.closing
    BY DEF Fresh
<1>3. /\ [Fresh EXCEPT !.boot = "down"] \in WorkerStates
      /\ [Fresh EXCEPT !.boot = "down"].boot = "down"
      /\ ~[Fresh EXCEPT !.boot = "down"].busy
      /\ [Fresh EXCEPT !.boot = "down"].chain = <<>>
      /\ ~[Fresh EXCEPT !.boot = "down"].timers
      /\ ~[Fresh EXCEPT !.boot = "down"].consumerReady
    BY <1>1, <1>2 DEF WorkerStates, Stages
<1> QED BY <1>1, <1>2, <1>3 DEF Consistent, Installed

\* Two states that differ in their health only.
SameButHealth(t, s) ==
    /\ t.boot = s.boot /\ t.consumer = s.consumer /\ t.closing = s.closing
    /\ t.subscribed = s.subscribed /\ t.fatal = s.fatal /\ t.timers = s.timers
    /\ t.consumerReady = s.consumerReady /\ t.chain = s.chain /\ t.busy = s.busy
    /\ t.coalesced = s.coalesced

\* What fail() and the results of passes and sweeps leave alone.
LEMMA HealthStates ==
    ASSUME NEW s \in WorkerStates
    PROVE  /\ Failed(s) \in WorkerStates /\ SameButHealth(Failed(s), s)
           /\ \A bad \in BOOLEAN :
                 /\ PassResult(s, bad) \in WorkerStates /\ SameButHealth(PassResult(s, bad), s)
                 /\ SweepResult(s, bad) \in WorkerStates /\ SameButHealth(SweepResult(s, bad), s)
<1>1. Failed(s) \in WorkerStates /\ SameButHealth(Failed(s), s)
    BY DEF Failed, WorkerStates, SameButHealth
<1>2. ASSUME NEW bad \in BOOLEAN
      PROVE  PassResult(s, bad) \in WorkerStates /\ SameButHealth(PassResult(s, bad), s)
    <2>1. PICK h \in BOOLEAN, c \in BOOLEAN, x \in BOOLEAN :
             PassResult(s, bad) = [s EXCEPT !.healthy = h, !.confirmed = c, !.structural = x]
        <3>1. /\ (~bad) \in BOOLEAN /\ (s.confirmed /\ bad /\ ~s.wasHealthy) \in BOOLEAN
              /\ (s.structural /\ bad) \in BOOLEAN
            BY DEF WorkerStates
        <3> QED BY <3>1 DEF PassResult
    <2> QED BY <2>1 DEF WorkerStates, SameButHealth
<1>3. ASSUME NEW bad \in BOOLEAN
      PROVE  SweepResult(s, bad) \in WorkerStates /\ SameButHealth(SweepResult(s, bad), s)
    BY <1>1 DEF SweepResult, SameButHealth
<1> QED BY <1>1, <1>2, <1>3

\* A state that differs from a consistent one in its health is consistent.
LEMMA HealthConsistent ==
    ASSUME NEW s, Consistent(s), NEW t \in WorkerStates, SameButHealth(t, s)
    PROVE  Consistent(t)
BY DEF Consistent, SameButHealth

\* Scheduling a pass that is not in the chain.
LEMMA PassScheduledState ==
    ASSUME NEW s, Consistent(s), ~Contains(s.chain, "pass"),
           s.boot \in Installed \cup {"cleanup", "cleanupClose", "dead"}
    PROVE  /\ Consistent(PassScheduled(s))
           /\ PassScheduled(s).boot = s.boot /\ PassScheduled(s).busy = s.busy
<1>1. s \in WorkerStates /\ s.chain \in Chains
    BY DEF Consistent, WorkerStates
<1>2. PICK t : t = [s EXCEPT !.wasHealthy = s.healthy]
    OBVIOUS
<1>3. t \in WorkerStates /\ SameButHealth(t, s)
    BY <1>1, <1>2 DEF WorkerStates, SameButHealth
<1>4. Consistent(t)
    BY <1>3, HealthConsistent
<1>5. PICK c : c = Append(s.chain, "pass")
    OBVIOUS
<1>6. c \in Chains /\ c # <<>>
    BY <1>1, <1>5, ChainTypes DEF Works
<1>7. PassScheduled(s) = [t EXCEPT !.chain = c]
    BY <1>2, <1>3, <1>5 DEF PassScheduled, Scheduled, SameButHealth
<1>8. PICK r : r = [t EXCEPT !.chain = c]
    OBVIOUS
<1>9. Consistent(r) /\ r.boot = s.boot /\ r.busy = s.busy
    BY <1>3, <1>4, <1>6, <1>8 DEF Consistent, WorkerStates, SameButHealth
<1> QED BY <1>7, <1>8, <1>9

\* When work settles, the chain moves on; a coalesced pass takes its place at
\* the end, where there is none.
LEMMA SettledState ==
    ASSUME NEW s, Consistent(s), s.chain # <<>>
    PROVE  Consistent(Settled(s)) /\ Settled(s).boot = s.boot /\ ~Settled(s).busy
<1>1. s \in WorkerStates /\ s.chain \in Chains
    BY DEF Consistent, WorkerStates
<1>2. Tail(s.chain) \in Chains /\ ~Contains(Tail(s.chain), Head(s.chain))
    BY <1>1, ChainTypes
<1>3. PICK x, p : /\ x = [s EXCEPT !.chain = Tail(@), !.busy = FALSE]
                  /\ p = IF Head(s.chain) = "pass" THEN [x EXCEPT !.wasHealthy = FALSE] ELSE x
    OBVIOUS
<1>4. /\ Consistent(p) /\ p.boot = s.boot /\ ~p.busy /\ p.chain = Tail(s.chain)
    <2>1. /\ Consistent(x) /\ x.boot = s.boot /\ ~x.busy /\ x.chain = Tail(s.chain)
        BY <1>1, <1>2, <1>3 DEF Consistent, WorkerStates
    <2>2. p \in WorkerStates /\ SameButHealth(p, x)
        <3>1. x \in WorkerStates
            BY <2>1 DEF Consistent
        <3>2. CASE Head(s.chain) = "pass"
            <4>1. p = [x EXCEPT !.wasHealthy = FALSE]
                BY <1>3, <3>2
            <4> QED BY <3>1, <4>1 DEF WorkerStates, SameButHealth
        <3>3. CASE Head(s.chain) # "pass"
            <4>1. p = x
                BY <1>3, <3>3
            <4> QED BY <3>1, <4>1 DEF SameButHealth
        <3> QED BY <3>2, <3>3
    <2> QED BY <2>1, <2>2, HealthConsistent DEF SameButHealth
<1>5. PICK q : q = [p EXCEPT !.coalesced = FALSE]
    OBVIOUS
<1>6. /\ Consistent(q) /\ q.boot = s.boot /\ ~q.busy /\ q.chain = Tail(s.chain)
    BY <1>4, <1>5 DEF Consistent, WorkerStates
<1>7. s.boot \in Installed \cup {"cleanup", "cleanupClose", "dead"}
    BY DEF Consistent
<1>8. CASE Head(s.chain) = "pass" /\ s.coalesced /\ ~s.closing
    <2>1. Settled(s) = PassScheduled(q)
        BY <1>3, <1>5, <1>8 DEF Settled
    <2> QED BY <1>2, <1>6, <1>7, <1>8, <2>1, PassScheduledState
<1>9. CASE ~(Head(s.chain) = "pass" /\ s.coalesced /\ ~s.closing)
    <2>1. Settled(s) = p
        BY <1>3, <1>9 DEF Settled
    <2> QED BY <1>4, <2>1
<1> QED BY <1>8, <1>9

\* A step of one process, and what it has to respect of the others: it takes the
\* lock only when it is free and gives back only its own, and ends a pause only
\* while it holds the lock.
LEMMA StepInv ==
    ASSUME WorkerInv, NEW w \in Workers, NEW s, Consistent(s),
           worker' = [worker EXCEPT ![w] = s], SharedInv',
           s.boot \in Holding \/ s.busy => lock' = w,
           lock' = lock \/ lock \in {w, NoWorker},
           s.boot \in PausedStages => paused',
           paused' \/ ~paused \/ lock = w,
           s.boot = "diff" => \A v \in Workers : active'[v] = "no",
           \A v \in Workers : active'[v] # "no" => active[v] # "no" \/ ~paused
    PROVE  WorkerInv'
<1>1. worker \in [Workers -> WorkerStates] /\ s \in WorkerStates
    BY DEF WorkerInv, ProcessInv, Consistent
<1>2. worker'[w] = s /\ \A v \in Workers : v # w => worker'[v] = worker[v]
    BY <1>1
<1>3. ProcessInv'
    BY <1>1, <1>2 DEF WorkerInv, ProcessInv, Consistent
<1>4. LockInv'
    BY <1>2, WorkersAssumption DEF WorkerInv, LockInv
<1>5. PausedStages \subseteq Holding
    BY DEF PausedStages, Holding, Transition
<1>6. PauseInv'
    BY <1>2, <1>5 DEF WorkerInv, PauseInv, LockInv
<1>7. DiffInv'
    BY <1>2 DEF WorkerInv, DiffInv, PauseInv, PausedStages
<1> QED BY <1>3, <1>4, <1>6, <1>7 DEF WorkerInv

-----------------------------------------------------------------------------
(* The invariant, action by action *)

\* Nothing has happened yet.
LEMMA InitWorkerInv ==
    Init => WorkerInv
<1> SUFFICES ASSUME Init PROVE WorkerInv
    OBVIOUS
<1>1. ProcessInv
    BY FreshState DEF Init, ProcessInv, Consistent
<1>2. SharedInv
    <2>1. restarts \in 0..MaxRestarts
        BY RestartsAssumption DEF Init
    <2> QED BY <2>1 DEF Init, SharedInv
<1>3. \A w \in Workers : worker[w].boot = "lock" /\ ~worker[w].busy
    BY FreshState DEF Init
<1> QED BY <1>1, <1>2, <1>3
    DEF WorkerInv, LockInv, PauseInv, DiffInv, Holding, Transition, PausedStages

\* The boot, stage by stage.  It takes the free lock, keeps it until readiness is
\* published, and resumes the queue as its holder.
LEMMA BootingInv ==
    ASSUME WorkerInv, NEW w \in Workers,
           \/ AcquireLock(w) \/ BootPause(w) \/ BootPrepare(w) \/ BootDrained(w) \/ BootDiff(w)
           \/ ConsumerStart(w) \/ InstallContinuousLifecycle(w) \/ Resume(w) \/ Verify(w)
           \/ Publish(w) \/ Unlock(w)
    PROVE  WorkerInv'
<1> DEFINE old == worker[w]
<1>1. Consistent(old) /\ old \in WorkerStates
    BY DEF WorkerInv, ProcessInv, Consistent
<1>2. SharedInv /\ LockInv /\ PauseInv /\ DiffInv
    BY DEF WorkerInv
<1>3. old.boot \in Holding => lock = w
    BY <1>2 DEF LockInv
<1> USE DEF Become, Boot, Holding, Transition, PausedStages, Installed
<1>4. CASE AcquireLock(w)
    <2>1. PICK s : s = [old EXCEPT !.boot = "pause"] /\ worker' = [worker EXCEPT ![w] = s]
        BY <1>4 DEF AcquireLock
    <2>2. Consistent(s) /\ s.boot = "pause" /\ s.busy = old.busy
        BY <1>1, <1>4, <2>1 DEF AcquireLock, Consistent, WorkerStates, Stages
    <2>3. lock = NoWorker /\ lock' = w /\ UNCHANGED <<paused, active, restarts>>
        BY <1>4 DEF AcquireLock
    <2> QED BY <1>2, <2>1, <2>2, <2>3, StepInv DEF SharedInv
<1>5. CASE BootPause(w)
    <2>1. PICK s : s = [old EXCEPT !.boot = "prepare"] /\ worker' = [worker EXCEPT ![w] = s]
        BY <1>5 DEF BootPause
    <2>2. Consistent(s) /\ s.boot = "prepare" /\ s.busy = old.busy
        BY <1>1, <1>5, <2>1 DEF BootPause, Consistent, WorkerStates, Stages
    <2>3. lock = w /\ paused' = TRUE /\ UNCHANGED <<lock, active, restarts>>
        BY <1>3, <1>5 DEF BootPause
    <2> QED BY <1>2, <2>1, <2>2, <2>3, StepInv DEF SharedInv
<1>6. CASE BootPrepare(w)
    <2>1. PICK c : c = IF old.consumer = "none" THEN "prepared" ELSE old.consumer
        OBVIOUS
    <2>2. PICK s : /\ s = [old EXCEPT !.boot = "drain", !.consumer = c]
                   /\ worker' = [worker EXCEPT ![w] = s]
        BY <1>6, <2>1 DEF BootPrepare
    <2>3. Consistent(s) /\ s.boot = "drain" /\ s.busy = old.busy
        BY <1>1, <1>6, <2>1, <2>2 DEF BootPrepare, Consistent, WorkerStates, Stages
    <2>4. lock = w /\ paused /\ UNCHANGED <<paused, lock, active, restarts>>
        BY <1>2, <1>3, <1>6 DEF BootPrepare, PauseInv
    <2> QED BY <1>2, <2>2, <2>3, <2>4, StepInv DEF SharedInv
<1>7. CASE BootDrained(w)
    <2>1. PICK s : s = [old EXCEPT !.boot = "diff"] /\ worker' = [worker EXCEPT ![w] = s]
        BY <1>7 DEF BootDrained
    <2>2. Consistent(s) /\ s.boot = "diff" /\ s.busy = old.busy
        BY <1>1, <1>7, <2>1 DEF BootDrained, Consistent, WorkerStates, Stages
    <2>3. /\ lock = w /\ paused /\ UNCHANGED <<paused, lock, active, restarts>>
          /\ \A v \in Workers : active[v] = "no"
        BY <1>2, <1>3, <1>7 DEF BootDrained, PauseInv
    <2> QED BY <1>2, <2>1, <2>2, <2>3, StepInv DEF SharedInv
<1>8. CASE BootDiff(w)
    <2>1. PICK d \in BOOLEAN :
             worker' = [worker EXCEPT ![w] =
                 [old EXCEPT !.boot = "start", !.degraded = d, !.bootstrapReconciled = FALSE,
                             !.consumerReady = FALSE, !.healthy = FALSE, !.subscribed = TRUE]]
        BY <1>8 DEF BootDiff
    <2>2. PICK s : /\ s = [old EXCEPT !.boot = "start", !.degraded = d,
                               !.bootstrapReconciled = FALSE, !.consumerReady = FALSE,
                               !.healthy = FALSE, !.subscribed = TRUE]
                   /\ worker' = [worker EXCEPT ![w] = s]
        BY <2>1
    <2>3. Consistent(s) /\ s.boot = "start" /\ s.busy = old.busy
        <3>1. s \in WorkerStates
            <4>1. PICK x : x = [old EXCEPT !.boot = "start", !.degraded = d,
                                           !.bootstrapReconciled = FALSE]
                OBVIOUS
            <4>2. x \in WorkerStates
                BY <1>1, <4>1 DEF WorkerStates, Stages
            <4>3. s = [x EXCEPT !.consumerReady = FALSE, !.healthy = FALSE, !.subscribed = TRUE]
                BY <2>2, <4>1
            <4> HIDE <4>1
            <4> QED BY <4>2, <4>3 DEF WorkerStates
        <3>2. /\ s.boot = "start" /\ s.busy = old.busy /\ s.chain = old.chain
              /\ s.timers = old.timers /\ s.subscribed /\ ~s.consumerReady
            BY <1>1, <2>2 DEF WorkerStates
        <3>3. old.boot = "diff"
            BY <1>8 DEF BootDiff
        <3> QED BY <1>1, <3>1, <3>2, <3>3 DEF Consistent, Installed
    <2>4. lock = w /\ paused /\ UNCHANGED <<paused, lock, active, restarts>>
        BY <1>2, <1>3, <1>8 DEF BootDiff, PauseInv
    <2> QED BY <1>2, <2>2, <2>3, <2>4, StepInv DEF SharedInv
<1>9. CASE ConsumerStart(w)
    <2>1. PICK s : /\ s = [old EXCEPT !.boot = "install", !.consumer = "running"]
                   /\ worker' = [worker EXCEPT ![w] = s]
        BY <1>9 DEF ConsumerStart
    <2>2. Consistent(s) /\ s.boot = "install" /\ s.busy = old.busy
        BY <1>1, <1>9, <2>1 DEF ConsumerStart, Consistent, WorkerStates, Stages
    <2>3. lock = w /\ paused /\ UNCHANGED <<paused, lock, active, restarts>>
        BY <1>2, <1>3, <1>9 DEF ConsumerStart, PauseInv
    <2> QED BY <1>2, <2>1, <2>2, <2>3, StepInv DEF SharedInv
<1>10. CASE InstallContinuousLifecycle(w)
    <2>1. PICK s : /\ s = [old EXCEPT !.boot = "resume", !.timers = TRUE]
                   /\ worker' = [worker EXCEPT ![w] = s]
        BY <1>10 DEF InstallContinuousLifecycle
    <2>2. Consistent(s) /\ s.boot = "resume" /\ s.busy = old.busy
        BY <1>1, <1>10, <2>1
        DEF InstallContinuousLifecycle, Interrupted, Consistent, WorkerStates, Stages
    <2>3. lock = w /\ paused /\ UNCHANGED <<paused, lock, active, restarts>>
        BY <1>2, <1>3, <1>10 DEF InstallContinuousLifecycle, PauseInv
    <2> QED BY <1>2, <2>1, <2>2, <2>3, StepInv DEF SharedInv
<1>11. CASE Resume(w)
    <2>1. PICK s : s = [old EXCEPT !.boot = "verify"] /\ worker' = [worker EXCEPT ![w] = s]
        BY <1>11 DEF Resume
    <2>2. Consistent(s) /\ s.boot = "verify" /\ s.busy = old.busy
        BY <1>1, <1>11, <2>1 DEF Resume, Consistent, WorkerStates, Stages
    <2>3. lock = w /\ paused' = FALSE /\ UNCHANGED <<lock, active, restarts>>
        BY <1>3, <1>11 DEF Resume
    <2> QED BY <1>2, <2>1, <2>2, <2>3, StepInv DEF SharedInv
<1>12. CASE Verify(w)
    <2>1. PICK s : s = [old EXCEPT !.boot = "publish"] /\ worker' = [worker EXCEPT ![w] = s]
        BY <1>12 DEF Verify
    <2>2. Consistent(s) /\ s.boot = "publish" /\ s.busy = old.busy
        BY <1>1, <1>12, <2>1 DEF Verify, Consistent, WorkerStates, Stages
    <2>3. lock = w /\ UNCHANGED <<paused, lock, active, restarts>>
        BY <1>3, <1>12 DEF Verify
    <2> QED BY <1>2, <2>1, <2>2, <2>3, StepInv DEF SharedInv
<1>13. CASE Publish(w)
    <2>1. PICK h : h = ~old.degraded
        OBVIOUS
    <2>2. PICK s : s = Published(old) /\ worker' = [worker EXCEPT ![w] = s]
        BY <1>13 DEF Publish
    <2>3. s = [old EXCEPT !.boot = "unlock", !.bootstrapReconciled = TRUE,
                          !.consumerReady = TRUE, !.healthy = h, !.confirmed = old.degraded,
                          !.structural = old.degraded, !.degraded = FALSE]
        BY <2>1, <2>2 DEF Published
    <2>4. Consistent(s) /\ s.boot = "unlock" /\ s.busy = old.busy
        <3>1. old.boot = "publish" /\ ~old.closing /\ ~old.fatal
            BY <1>13 DEF Publish, Interrupted
        <3>2. s \in WorkerStates
            <4>1. PICK x : x = [old EXCEPT !.boot = "unlock", !.bootstrapReconciled = TRUE,
                                           !.consumerReady = TRUE]
                OBVIOUS
            <4>2. x \in WorkerStates
                BY <1>1, <4>1 DEF WorkerStates, Stages
            <4>3. s = [x EXCEPT !.healthy = h, !.confirmed = old.degraded,
                                !.structural = old.degraded, !.degraded = FALSE]
                BY <2>3, <4>1
            <4>4. h \in BOOLEAN /\ old.degraded \in BOOLEAN
                BY <1>1, <2>1 DEF WorkerStates
            <4> HIDE <4>1
            <4> QED BY <4>2, <4>3, <4>4 DEF WorkerStates
        <3>3. /\ s.boot = "unlock" /\ s.busy = old.busy /\ s.chain = old.chain
              /\ s.timers = old.timers /\ s.closing = old.closing
              /\ s.subscribed = old.subscribed /\ s.consumer = old.consumer
              /\ s.fatal = old.fatal
            BY <1>1, <2>3 DEF WorkerStates
        <3> QED BY <1>1, <3>1, <3>2, <3>3 DEF Consistent, Installed
    <2>5. ~s.busy
        BY <1>1, <1>13, <2>4 DEF Publish, Consistent
    <2>6. lock = w /\ UNCHANGED <<paused, active, lock, restarts>>
        BY <1>3, <1>13 DEF Publish
    <2> QED BY <1>2, <2>2, <2>4, <2>5, <2>6, StepInv DEF SharedInv
<1>14. CASE Unlock(w)
    <2>1. PICK s : s = [old EXCEPT !.boot = "running"] /\ worker' = [worker EXCEPT ![w] = s]
        BY <1>14 DEF Unlock
    <2>2. Consistent(s) /\ s.boot = "running" /\ ~s.busy
        BY <1>1, <1>14, <2>1 DEF Unlock, Consistent, WorkerStates, Stages
    <2>3. lock = w /\ lock' = NoWorker /\ UNCHANGED <<paused, active, restarts>>
        BY <1>3, <1>14 DEF Unlock, Release
    <2> QED BY <1>2, <2>1, <2>2, <2>3, StepInv DEF SharedInv
<1> QED BY <1>4, <1>5, <1>6, <1>7, <1>8, <1>9, <1>10, <1>11, <1>12, <1>13, <1>14

\* The boot gives up, at once or through cleanupHalfTransition.
LEMMA BootEndsInv ==
    ASSUME WorkerInv, NEW w \in Workers,
           \/ BootFail(w) \/ BootAbort(w) \/ TransitionFails(w) \/ UnlockFails(w)
           \/ CleanupPause(w) \/ CleanupClose(w)
    PROVE  WorkerInv'
<1> DEFINE old == worker[w]
<1>1. Consistent(old) /\ old \in WorkerStates
    BY DEF WorkerInv, ProcessInv, Consistent
<1>2. SharedInv /\ LockInv /\ PauseInv /\ DiffInv
    BY DEF WorkerInv
<1>3. old.boot \in Holding => lock = w
    BY <1>2 DEF LockInv
<1>4. PICK f : f = Failed(old)
    OBVIOUS
<1>5. f \in WorkerStates /\ SameButHealth(f, old) /\ Consistent(f)
    BY <1>1, <1>4, HealthStates, HealthConsistent
<1> USE DEF Become, Boot, Holding, Transition, PausedStages, Installed
<1>6. CASE BootFail(w)
    <2>1. PICK s : s = [f EXCEPT !.boot = "lock"] /\ worker' = [worker EXCEPT ![w] = s]
        BY <1>4, <1>6 DEF BootFail
    <2>2. Consistent(s) /\ s.boot = "lock" /\ ~s.busy
        BY <1>5, <1>6, <2>1 DEF BootFail, Consistent, WorkerStates, Stages, SameButHealth
    <2>3. lock = w /\ lock' = NoWorker /\ UNCHANGED <<paused, active, restarts>>
        BY <1>3, <1>6 DEF BootFail, Release
    <2> QED BY <1>2, <2>1, <2>2, <2>3, StepInv DEF SharedInv
<1>7. CASE BootAbort(w)
    <2>1. PICK s : /\ s = [old EXCEPT !.boot = "aborted", !.subscribed = FALSE]
                   /\ worker' = [worker EXCEPT ![w] = s]
        BY <1>7 DEF BootAbort
    <2>2. Consistent(s) /\ s.boot = "aborted" /\ ~s.busy
        BY <1>1, <1>7, <2>1 DEF BootAbort, BeforeProcessing, Consistent, WorkerStates, Stages
    <2>3. /\ lock' = lock \/ (lock = w /\ lock' = NoWorker)
          /\ UNCHANGED <<paused, active, restarts>>
        BY <1>7 DEF BootAbort, Release
    <2> QED BY <1>2, <2>1, <2>2, <2>3, StepInv DEF SharedInv
<1>8. CASE TransitionFails(w)
    <2>1. PICK t : t = [f EXCEPT !.bootstrapReconciled = FALSE, !.consumerReady = FALSE,
                                 !.timers = FALSE, !.subscribed = FALSE]
        OBVIOUS
    <2>2. /\ t \in WorkerStates /\ t.boot = old.boot /\ t.busy = old.busy /\ ~t.timers
          /\ ~t.consumerReady /\ t.chain = old.chain
        BY <1>5, <2>1 DEF WorkerStates, SameButHealth
    <2>3. PICK s : s = [t EXCEPT !.boot = "cleanup"] /\ worker' = [worker EXCEPT ![w] = s]
        BY <1>4, <1>8, <2>1 DEF TransitionFails, TornDown
    <2>4. Consistent(s) /\ s.boot = "cleanup" /\ s.busy = old.busy
        BY <1>1, <1>8, <2>2, <2>3 DEF TransitionFails, Consistent, WorkerStates, Stages
    <2>5. lock = w /\ UNCHANGED <<paused, active, lock, restarts>>
        BY <1>3, <1>8 DEF TransitionFails
    <2> QED BY <1>2, <2>3, <2>4, <2>5, StepInv DEF SharedInv
<1>9. CASE CleanupPause(w)
    <2>1. PICK s : s = [old EXCEPT !.boot = "cleanupClose"] /\ worker' = [worker EXCEPT ![w] = s]
        BY <1>9 DEF CleanupPause
    <2>2. Consistent(s) /\ s.boot = "cleanupClose" /\ s.busy = old.busy
        BY <1>1, <1>9, <2>1 DEF CleanupPause, Consistent, WorkerStates, Stages
    <2>3. /\ old.busy => lock = w
          /\ UNCHANGED <<active, lock, restarts>>
        BY <1>2, <1>9 DEF CleanupPause, LockInv
    <2>4. paused' \in BOOLEAN /\ (paused' \/ ~paused)
        <3>1. paused' = TRUE \/ paused' = paused
            BY <1>9 DEF CleanupPause
        <3> QED BY <1>2, <3>1 DEF SharedInv
    <2>5. SharedInv'
        BY <1>2, <2>3, <2>4 DEF SharedInv
    <2>6. s.boot \notin Holding /\ s.boot \notin PausedStages /\ s.boot # "diff"
        BY <2>2
    <2> QED BY <2>1, <2>2, <2>3, <2>4, <2>5, <2>6, StepInv
<1>10. CASE CleanupClose(w)
    <2>1. PICK s : /\ s = [old EXCEPT !.boot = "dead", !.consumer = "closed"]
                   /\ worker' = [worker EXCEPT ![w] = s]
        BY <1>10 DEF CleanupClose
    <2>2. Consistent(s) /\ s.boot = "dead" /\ s.busy = old.busy
        BY <1>1, <1>10, <2>1 DEF CleanupClose, Consistent, WorkerStates, Stages
    <2>3. /\ old.busy => lock = w /\ lock' = lock
          /\ lock' = lock \/ (lock = w /\ lock' = NoWorker)
          /\ UNCHANGED <<paused, active, restarts>>
        BY <1>2, <1>10 DEF CleanupClose, Release, LockInv
    <2> QED BY <1>2, <2>1, <2>2, <2>3, StepInv DEF SharedInv
<1>11. CASE UnlockFails(w)
    <2>1. PICK t : t = [f EXCEPT !.bootstrapReconciled = FALSE, !.consumerReady = FALSE,
                                 !.timers = FALSE, !.subscribed = FALSE]
        OBVIOUS
    <2>2. /\ t \in WorkerStates /\ t.boot = old.boot /\ t.busy = old.busy /\ ~t.timers
          /\ ~t.consumerReady /\ t.chain = old.chain
        BY <1>5, <2>1 DEF WorkerStates, SameButHealth
    <2>3. PICK s : s = [t EXCEPT !.boot = "cleanup"] /\ worker' = [worker EXCEPT ![w] = s]
        BY <1>4, <1>11, <2>1 DEF UnlockFails, TornDown
    <2>4. Consistent(s) /\ s.boot = "cleanup" /\ ~s.busy
        BY <1>1, <1>11, <2>2, <2>3 DEF UnlockFails, Consistent, WorkerStates, Stages
    <2>5. lock = w /\ lock' = NoWorker /\ UNCHANGED <<paused, active, restarts>>
        BY <1>3, <1>11 DEF UnlockFails, Release
    <2> QED BY <1>2, <2>3, <2>4, <2>5, StepInv DEF SharedInv
<1> QED BY <1>6, <1>7, <1>8, <1>9, <1>10, <1>11

\* Jobs start only while the queue is not paused; a consumer that ends takes the
\* readiness of its worker with it.
LEMMA ConsumingInv ==
    ASSUME WorkerInv, NEW w \in Workers, Consuming(w)
    PROVE  WorkerInv'
<1> DEFINE old == worker[w]
<1>1. Consistent(old) /\ old \in WorkerStates /\ worker \in [Workers -> WorkerStates]
    BY DEF WorkerInv, ProcessInv, Consistent
<1>2. SharedInv /\ LockInv /\ PauseInv /\ DiffInv
    BY DEF WorkerInv
<1>3. old.boot \in Holding \/ old.busy => lock = w
    BY <1>2 DEF LockInv
<1>4. CASE TakeJob(w) \/ FinishJob(w) \/ RecoverOrphan(w)
    <2>1. worker' = [worker EXCEPT ![w] = old] /\ UNCHANGED <<paused, lock, restarts>>
        BY <1>1, <1>4 DEF TakeJob, FinishJob, RecoverOrphan
    <2>2. /\ active' \in [Workers -> {"no", "mine", "orphan"}]
          /\ \A v \in Workers : active'[v] # "no" => active[v] # "no" \/ ~paused
        BY <1>2, <1>4 DEF TakeJob, FinishJob, RecoverOrphan, SharedInv
    <2>3. old.boot \in PausedStages => paused
        BY <1>2 DEF PauseInv
    <2>4. old.boot = "diff" => \A v \in Workers : active'[v] = "no"
        BY <1>2, <2>2, <2>3 DEF DiffInv, PausedStages
    <2> QED BY <1>1, <1>2, <1>3, <2>1, <2>2, <2>3, <2>4, StepInv DEF SharedInv
<1>5. CASE ConsumerTerminates(w)
    <2>1. PICK e : e = [old EXCEPT !.consumer = "terminated"]
        OBVIOUS
    <2>2. /\ e \in WorkerStates /\ e.boot = old.boot /\ e.busy = old.busy /\ e.chain = old.chain
          /\ e.closing = old.closing /\ e.subscribed = old.subscribed /\ e.fatal = old.fatal
          /\ e.timers = old.timers /\ e.consumerReady = old.consumerReady
        BY <1>1, <2>1 DEF WorkerStates
    <2>3. PICK s : /\ worker' = [worker EXCEPT ![w] = s]
                   /\ s = IF old.subscribed
                          THEN [Failed(e) EXCEPT !.consumerReady = FALSE, !.timers = FALSE,
                                                 !.fatal = TRUE]
                          ELSE e
        BY <1>5, <2>1 DEF ConsumerTerminates, Become
    <2>4. Consistent(s) /\ s.boot = old.boot /\ s.busy = old.busy
        <3>1. CASE old.subscribed
            <4>1. PICK f : f = Failed(e)
                OBVIOUS
            <4>2. f \in WorkerStates /\ SameButHealth(f, e)
                BY <2>2, <4>1, HealthStates
            <4>3. s = [f EXCEPT !.consumerReady = FALSE, !.timers = FALSE, !.fatal = TRUE]
                BY <2>3, <3>1, <4>1
            <4>4. /\ s \in WorkerStates /\ s.boot = old.boot /\ s.busy = old.busy
                  /\ s.chain = old.chain /\ s.closing = old.closing /\ s.subscribed
                  /\ s.fatal /\ ~s.timers /\ ~s.consumerReady
                <5>1. /\ s \in WorkerStates /\ s.fatal /\ ~s.timers /\ ~s.consumerReady
                      /\ s.boot = f.boot /\ s.busy = f.busy /\ s.chain = f.chain
                      /\ s.closing = f.closing /\ s.subscribed = f.subscribed
                    BY <4>2, <4>3 DEF WorkerStates
                <5> QED BY <2>2, <3>1, <4>2, <5>1 DEF SameButHealth
            <4> QED BY <1>1, <4>4 DEF Consistent
        <3>2. CASE ~old.subscribed
            <4>1. s = e /\ old.consumer = "running" /\ ~old.closing
                BY <1>5, <2>3, <3>2 DEF ConsumerTerminates
            <4> QED BY <1>1, <2>2, <3>2, <4>1 DEF Consistent, Installed
        <3> QED BY <3>1, <3>2
    <2>5. UNCHANGED <<paused, active, lock, restarts>>
        BY <1>5 DEF ConsumerTerminates
    <2> QED BY <1>2, <1>3, <2>3, <2>4, <2>5, StepInv DEF SharedInv, PauseInv, DiffInv
<1> QED BY <1>4, <1>5 DEF Consuming

\* Maintenance is scheduled once per kind, and runs under the lock, which is free
\* when it starts and given back when it ends.
LEMMA MaintainingInv ==
    ASSUME WorkerInv, NEW w \in Workers, Maintaining(w)
    PROVE  WorkerInv'
<1> DEFINE old == worker[w]
<1>1. Consistent(old) /\ old \in WorkerStates /\ old.chain \in Chains
    BY DEF WorkerInv, ProcessInv, Consistent, WorkerStates
<1>2. SharedInv /\ LockInv /\ PauseInv /\ DiffInv
    BY DEF WorkerInv
<1>3. old.boot \in Holding \/ old.busy => lock = w
    BY <1>2 DEF LockInv
<1>4. ASSUME NEW s, Consistent(s), s.boot = old.boot, s.busy = old.busy,
             worker' = [worker EXCEPT ![w] = s], UNCHANGED <<paused, active, lock, restarts>>
      PROVE  WorkerInv'
    BY <1>2, <1>3, <1>4, StepInv DEF SharedInv, PauseInv, DiffInv
<1>5. CASE TriggerPass(w)
    <2>1. /\ old.timers /\ UNCHANGED <<paused, active, lock, restarts>>
          /\ worker' = [worker EXCEPT ![w] = IF Contains(old.chain, "pass")
                                             THEN [old EXCEPT !.coalesced = TRUE]
                                             ELSE PassScheduled(old)]
        BY <1>5 DEF TriggerPass, Become
    <2>2. CASE Contains(old.chain, "pass")
        <3>1. PICK s : s = [old EXCEPT !.coalesced = TRUE] /\ worker' = [worker EXCEPT ![w] = s]
            BY <2>1, <2>2
        <3>2. Consistent(s) /\ s.boot = old.boot /\ s.busy = old.busy
            BY <1>1, <3>1 DEF Consistent, WorkerStates
        <3> QED BY <1>4, <2>1, <3>1, <3>2
    <2>3. CASE ~Contains(old.chain, "pass")
        <3>1. worker' = [worker EXCEPT ![w] = PassScheduled(old)]
            BY <2>1, <2>3
        <3>2. old.boot \in Installed
            BY <1>1, <2>1 DEF Consistent
        <3> QED BY <1>1, <1>4, <2>1, <2>3, <3>1, <3>2, PassScheduledState
    <2> QED BY <2>2, <2>3
<1>6. CASE TriggerDlqSweep(w)
    <2>1. /\ old.timers /\ ~Contains(old.chain, "sweep")
          /\ UNCHANGED <<paused, active, lock, restarts>>
          /\ worker' = [worker EXCEPT ![w] = [old EXCEPT !.chain = Append(@, "sweep")]]
        BY <1>6 DEF TriggerDlqSweep, Become, Scheduled
    <2>2. PICK c : c = Append(old.chain, "sweep")
        OBVIOUS
    <2>3. c \in Chains /\ c # <<>>
        BY <1>1, <2>1, <2>2, ChainTypes DEF Works
    <2>4. PICK s : s = [old EXCEPT !.chain = c] /\ worker' = [worker EXCEPT ![w] = s]
        BY <2>1, <2>2
    <2>5. Consistent(s) /\ s.boot = old.boot /\ s.busy = old.busy
        BY <1>1, <2>1, <2>3, <2>4 DEF Consistent, WorkerStates, Installed
    <2> QED BY <1>4, <2>1, <2>4, <2>5
<1>7. CASE StartWork(w)
    <2>1. /\ old.chain # <<>> /\ lock = NoWorker /\ lock' = w
          /\ UNCHANGED <<paused, active, restarts>>
        BY <1>7 DEF StartWork
    <2>2. PICK s : s = [old EXCEPT !.busy = TRUE] /\ worker' = [worker EXCEPT ![w] = s]
        BY <1>7 DEF StartWork, Become
    <2>3. old.boot \notin Holding /\ old.boot \in {"running", "cleanup", "cleanupClose", "dead"}
        BY <1>1, <1>3, <2>1, WorkersAssumption DEF Consistent, Installed, Holding, Transition
    <2>4. Consistent(s) /\ s.boot = old.boot
        BY <1>1, <2>1, <2>2, <2>3 DEF Consistent, WorkerStates
    <2> QED BY <1>2, <2>1, <2>2, <2>3, <2>4, StepInv DEF SharedInv, PausedStages
<1>8. ASSUME NEW x \in WorkerStates, SameButHealth(x, old), old.chain # <<>>,
             worker' = [worker EXCEPT ![w] = Settled(x)],
             old.busy => Release(w), ~old.busy => lock' = lock,
             UNCHANGED <<paused, active, restarts>>
      PROVE  WorkerInv'
    <2>1. Consistent(x) /\ x.chain # <<>> /\ x.boot = old.boot
        BY <1>1, <1>8, HealthConsistent DEF SameButHealth
    <2>2. PICK s : s = Settled(x)
        OBVIOUS
    <2>3. Consistent(s) /\ s.boot = old.boot /\ ~s.busy
        BY <2>1, <2>2, SettledState
    <2>4. old.busy => old.boot \notin Holding
        BY <1>1 DEF Consistent, Holding, Transition
    <2>5. lock' = lock \/ (old.busy /\ lock = w /\ lock' = NoWorker)
        BY <1>8 DEF Release
    <2> QED BY <1>2, <1>3, <1>8, <2>2, <2>3, <2>4, <2>5, StepInv
        DEF SharedInv, PauseInv, DiffInv
<1>9. CASE WorkEnds(w)
    <2>1. PICK bad \in BOOLEAN :
             worker' = [worker EXCEPT ![w] = Settled(IF Head(old.chain) = "pass"
                                                     THEN PassResult(old, bad)
                                                     ELSE SweepResult(old, bad))]
        BY <1>9 DEF WorkEnds, Become
    <2>2. PICK x : x = IF Head(old.chain) = "pass" THEN PassResult(old, bad)
                                                   ELSE SweepResult(old, bad)
        OBVIOUS
    <2>3. x \in WorkerStates /\ SameButHealth(x, old) /\ worker' = [worker EXCEPT ![w] = Settled(x)]
        BY <1>1, <2>1, <2>2, HealthStates
    <2>4. old.busy /\ old.chain # <<>> /\ Release(w) /\ UNCHANGED <<paused, active, restarts>>
        BY <1>1, <1>9 DEF WorkEnds, Consistent
    <2> QED BY <1>8, <2>3, <2>4
<1>10. CASE WorkFails(w)
    <2>1. Failed(old) \in WorkerStates /\ SameButHealth(Failed(old), old)
        BY <1>1, HealthStates
    <2> QED BY <1>8, <1>10, <2>1 DEF WorkFails, Become
<1> QED BY <1>5, <1>6, <1>7, <1>9, <1>10 DEF Maintaining

\* stop(), the end of a process, and its successor.
LEMMA ProcessEndsInv ==
    ASSUME WorkerInv, NEW w \in Workers, Stop(w) \/ Stopped(w) \/ Crash(w) \/ Restart(w)
    PROVE  WorkerInv'
<1> DEFINE old == worker[w]
<1>1. Consistent(old) /\ old \in WorkerStates
    BY DEF WorkerInv, ProcessInv, Consistent
<1>2. SharedInv /\ LockInv /\ PauseInv /\ DiffInv
    BY DEF WorkerInv
<1>3. old.boot \in Holding \/ old.busy => lock = w
    BY <1>2 DEF LockInv
<1>4. CASE Stop(w)
    <2>1. PICK f : f = Failed(old)
        OBVIOUS
    <2>2. f \in WorkerStates /\ SameButHealth(f, old)
        BY <1>1, <2>1, HealthStates
    <2>3. PICK t : t = [f EXCEPT !.bootstrapReconciled = FALSE, !.consumerReady = FALSE,
                                 !.timers = FALSE, !.subscribed = FALSE]
        OBVIOUS
    <2>4. /\ t \in WorkerStates /\ t.boot = old.boot /\ t.busy = old.busy /\ ~t.timers
          /\ ~t.consumerReady /\ t.chain = old.chain
        BY <2>2, <2>3 DEF WorkerStates, SameButHealth
    <2>5. PICK s : s = [t EXCEPT !.closing = TRUE] /\ worker' = [worker EXCEPT ![w] = s]
        BY <1>4, <2>1, <2>3 DEF Stop, TornDown, Become
    <2>6. Consistent(s) /\ s.boot = old.boot /\ s.busy = old.busy
        BY <1>1, <2>4, <2>5 DEF Consistent, WorkerStates
    <2>7. UNCHANGED <<paused, active, lock, restarts>>
        BY <1>4 DEF Stop
    <2> QED BY <1>2, <1>3, <2>5, <2>6, <2>7, StepInv DEF SharedInv, PauseInv, DiffInv
<1>5. PICK d : d = [Fresh EXCEPT !.boot = "down"]
    OBVIOUS
<1>6. Consistent(d) /\ d.boot = "down" /\ ~d.busy
    BY <1>5, FreshState
<1> USE DEF Become, Holding, Transition, PausedStages
<1>7. CASE Stopped(w)
    BY <1>2, <1>5, <1>6, <1>7, StepInv DEF Stopped, SharedInv
<1>8. CASE Crash(w)
    <2>1. /\ active' \in [Workers -> {"no", "mine", "orphan"}]
          /\ \A v \in Workers : active'[v] # "no" => active[v] # "no"
        BY <1>2, <1>8 DEF Crash, SharedInv
    <2>2. /\ worker' = [worker EXCEPT ![w] = d] /\ UNCHANGED <<paused, restarts>>
          /\ lock' = lock \/ (lock = w /\ lock' = NoWorker)
        BY <1>5, <1>8 DEF Crash, Release
    <2> QED BY <1>2, <1>6, <2>1, <2>2, StepInv DEF SharedInv
<1>9. CASE Restart(w)
    <2>1. worker' = [worker EXCEPT ![w] = Fresh] /\ UNCHANGED <<paused, active, lock>>
        BY <1>9 DEF Restart
    <2>2. restarts' \in 0..MaxRestarts
        BY <1>2, <1>9, RestartsAssumption DEF Restart, SharedInv
    <2> QED BY <1>2, <2>1, <2>2, FreshState, StepInv DEF SharedInv
<1> QED BY <1>4, <1>7, <1>8, <1>9

\* The invariant is inductive.
LEMMA WorkerInvariance ==
    Spec => []WorkerInv
<1>1. ASSUME WorkerInv, [Next]_vars PROVE WorkerInv'
    <2>1. CASE UNCHANGED vars
        BY <1>1, <2>1
        DEF vars, WorkerInv, ProcessInv, SharedInv, LockInv, PauseInv, DiffInv
    <2>2. CASE Next
        BY <1>1, <2>2, BootingInv, BootEndsInv, ConsumingInv, MaintainingInv, ProcessEndsInv
        DEF Next, Booting
    <2> QED BY <1>1, <2>1, <2>2
<1>2. WorkerInv /\ [Next]_vars => WorkerInv'
    BY <1>1
<1> QED BY <1>2, InitWorkerInv, PTL DEF Spec

-----------------------------------------------------------------------------
(* Theorems *)

\* The types, and with them that triggers which arrive faster than passes end do
\* not make the maintenance chain grow: triggerPass and triggerDlqSweep coalesce.
THEOREM WorkerTypes ==
    Spec => []TypeOK
<1>1. WorkerInv => TypeOK
    <2> SUFFICES ASSUME WorkerInv PROVE TypeOK
        OBVIOUS
    <2>1. \A w \in Workers : worker[w].boot \in Stages /\ worker[w].chain \in Chains
        BY DEF WorkerInv, ProcessInv, WorkerStates
    <2> QED BY <2>1, ChainTypes DEF WorkerInv, SharedInv, TypeOK
<1> QED BY <1>1, WorkerInvariance, PTL

\* Between the drain and the end of the diff of a boot no worker processes a job
\* and no pass or sweep runs, however many workers overlap.
THEOREM BootDiffsAreQuiet ==
    Spec => []BootDiffIsQuiet
<1>1. WorkerInv => BootDiffIsQuiet
    <2> SUFFICES ASSUME WorkerInv, NEW w \in Workers, NEW v \in Workers, worker[w].boot = "diff"
                 PROVE  active[v] = "no" /\ ~worker[v].busy
        BY DEF BootDiffIsQuiet
    <2>1. active[v] = "no"
        BY DEF WorkerInv, DiffInv
    <2>2. lock = w
        BY DEF WorkerInv, LockInv, Holding
    <2>3. worker[v].busy => v = w /\ worker[v].boot # "diff"
        BY <2>2 DEF WorkerInv, LockInv, ProcessInv, Consistent
    <2> QED BY <2>1, <2>3
<1> QED BY <1>1, WorkerInvariance, PTL

\* A worker that may report ready has a running consumer and its timers.
THEOREM ReadyWorkersServe ==
    Spec => []ReadyMeansServing
<1>1. WorkerInv => ReadyMeansServing
    BY DEF WorkerInv, ProcessInv, Consistent, Installed, ReadyMeansServing, MayReportReady
<1> QED BY <1>1, WorkerInvariance, PTL

\* One boot at a time: two workers are never both between the pause of the queue
\* and the unlock that follows the publication of readiness, nor does one boot
\* while another one's pass or sweep runs.
THEOREM BootsExcludeEachOther ==
    Spec => [](\A w, v \in Workers :
                  worker[w].boot \in Holding /\ (worker[v].boot \in Holding \/ worker[v].busy)
                      => w = v)
<1>1. WorkerInv => \A w, v \in Workers :
                      worker[w].boot \in Holding
                        /\ (worker[v].boot \in Holding \/ worker[v].busy)
                        => w = v
    BY DEF WorkerInv, LockInv
<1> QED BY <1>1, WorkerInvariance, PTL
=============================================================================
