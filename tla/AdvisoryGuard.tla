--------------------------- MODULE AdvisoryGuard ---------------------------
(***************************************************************************)
(* The fast-path window guard of the purchase API.  RedisAnchoredClock     *)
(* estimates the offset between Date.now() and Redis TIME from status      *)
(* calls (the sample with the lowest round trip of the last few), the same *)
(* replies fill SaleSnapshotCache, and evaluateFastPathGuard refuses       *)
(* purchases that are surely outside the window without asking Redis.      *)
(*                                                                         *)
(* time is Redis TIME; the local clock is ahead of it by shift.            *)
(***************************************************************************)
EXTENDS Integers, Sequences

CONSTANTS
    StartsAt, EndsAt,
    GuardSkew,       \* CLOCK_GUARD_SKEW_MS
    MaxStaleness,    \* CLOCK_MAX_STALENESS_MS
    SampleWindow,    \* RTT_SAMPLE_WINDOW
    Ahead,           \* how far the local clock is ahead of Redis TIME at first
    Flights,         \* status calls that may be under way together
    MaxTime,         \* bound: last instant
    MaxRtt,          \* bound: duration of a status call (commandTimeout)
    MaxSteps,        \* bound: adjustments of the local clock
    StepSize         \* by how much an adjustment sets the local clock forward

ASSUME WindowAssumption == StartsAt \in Int /\ EndsAt \in Int /\ StartsAt < EndsAt
ASSUME GuardAssumption ==
    /\ GuardSkew \in Nat /\ MaxStaleness \in Nat
    /\ SampleWindow \in Nat \ {0} /\ Ahead \in Int
ASSUME GuardBounds ==
    MaxTime \in Nat /\ MaxRtt \in Nat /\ MaxSteps \in Nat /\ StepSize \in Int

VARIABLES
    time,
    shift,
    seeded,          \* the sale has been seeded
    phase,           \* boot (onModuleInit), serving, stopped
    flight,          \* attemptSync calls under way
    samples,         \* this.samples, oldest first
    best,            \* this.best
    synced,          \* lastSyncAtMs is not null
    lastSyncAt,      \* lastSyncAtMs, also receivedAtMs of the snapshot cache
    snapshot,        \* the cached snapshot: none, unseeded, seeded
    steps,           \* adjustments so far
    trusted          \* observer: how many of the latest samples were taken whole
                     \* since the last adjustment

vars == <<time, shift, seeded, phase, flight, samples, best, synced, lastSyncAt,
          snapshot, steps, trusted>>
clockVars == <<samples, best, synced, lastSyncAt, snapshot, trusted>>

NoFlight == [under |-> FALSE, t0 |-> 0, age |-> 0, served |-> FALSE, stamp |-> 0,
             seeded |-> FALSE, whole |-> FALSE]

FlightStates == [under : BOOLEAN, t0 : Int, age : 0..MaxRtt, served : BOOLEAN,
                 stamp : 0..MaxTime, seeded : BOOLEAN, whole : BOOLEAN]

\* offsetMs() and rttMs() before the first sync.
NoSample == [offset |-> 0, rtt |-> 0]

Samples == [offset : Int, rtt : Int]

TypeOK ==
    /\ time \in 0..MaxTime
    /\ shift \in Int
    /\ seeded \in BOOLEAN
    /\ phase \in {"boot", "serving", "stopped"}
    /\ flight \in [Flights -> FlightStates]
    /\ samples \in Seq(Samples)
    /\ Len(samples) <= SampleWindow
    /\ best \in Samples
    /\ synced \in BOOLEAN
    /\ lastSyncAt \in Int
    /\ snapshot \in {"none", "unseeded", "seeded"}
    /\ steps \in 0..MaxSteps
    /\ trusted \in 0..SampleWindow

Init ==
    /\ time = 0
    /\ shift = Ahead
    /\ seeded \in BOOLEAN
    /\ phase = "boot"
    /\ flight = [f \in Flights |-> NoFlight]
    /\ samples = <<>>
    /\ best = NoSample
    /\ synced = FALSE
    /\ lastSyncAt = 0
    /\ snapshot = "none"
    /\ steps = 0
    /\ trusted = 0

\* Date.now()
LocalNow == time + shift

-----------------------------------------------------------------------------
(* RedisAnchoredClock *)

\* At boot attempts follow one another; the interval timer does not wait for an
\* earlier attempt.
SyncBegins(f) ==
    /\ ~flight[f].under
    /\ phase = "serving" \/ (phase = "boot" /\ \A g \in Flights : ~flight[g].under)
    /\ flight' = [flight EXCEPT ![f] =
                     [under |-> TRUE, t0 |-> LocalNow, age |-> 0, served |-> FALSE,
                      stamp |-> 0, seeded |-> FALSE, whole |-> TRUE]]
    /\ UNCHANGED <<time, shift, seeded, phase, clockVars, steps>>

\* status.lua runs.
StatusScript(f) ==
    /\ flight[f].under /\ ~flight[f].served
    /\ flight' = [flight EXCEPT ![f].served = TRUE, ![f].stamp = time, ![f].seeded = seeded]
    /\ UNCHANGED <<time, shift, seeded, phase, clockVars, steps>>

\* Math.round(serverTimeMs - (t0 + rtt / 2)), which rounds halves up.
CristianOffset(stamp, t0, rtt) == (2 * (stamp - t0) - rtt + 1) \div 2

\* push, and shift when there are more than RTT_SAMPLE_WINDOW.
Kept(sample) ==
    IF Len(samples) >= SampleWindow THEN Append(Tail(samples), sample)
    ELSE Append(samples, sample)

\* The first of the samples with the lowest round trip.
IsLowest(s, i) ==
    /\ \A j \in 1..Len(s) : s[i].rtt <= s[j].rtt
    /\ \A j \in 1..Len(s) : j < i => s[j].rtt # s[i].rtt

SyncEnds(f) ==
    /\ flight[f].served
    /\ LET rtt == LocalNow - flight[f].t0
           kept == Kept([offset |-> CristianOffset(flight[f].stamp, flight[f].t0, rtt),
                         rtt |-> rtt])
       IN  /\ samples' = kept
           /\ \E i \in 1..Len(kept) : IsLowest(kept, i) /\ best' = kept[i]
    /\ synced' = TRUE
    /\ lastSyncAt' = LocalNow
    /\ snapshot' = IF flight[f].seeded THEN "seeded" ELSE "unseeded"
    /\ phase' = IF phase = "boot" THEN "serving" ELSE phase
    /\ trusted' = IF ~flight[f].whole THEN 0
                  ELSE IF trusted < SampleWindow THEN trusted + 1 ELSE trusted
    /\ flight' = [flight EXCEPT ![f] = NoFlight]
    /\ UNCHANGED <<time, shift, seeded, steps>>

SyncFails(f) ==
    /\ flight[f].under
    /\ flight' = [flight EXCEPT ![f] = NoFlight]
    /\ UNCHANGED <<time, shift, seeded, phase, clockVars, steps>>

\* INITIAL_SYNC_BUDGET_MS is used up: the process starts without an offset.
BootWithoutSync ==
    /\ phase = "boot"
    /\ \A f \in Flights : ~flight[f].under
    /\ phase' = "serving"
    /\ UNCHANGED <<time, shift, seeded, flight, clockVars, steps>>

\* onApplicationShutdown stops the timer; calls under way still end.
Stop ==
    /\ phase = "serving"
    /\ phase' = "stopped"
    /\ UNCHANGED <<time, shift, seeded, flight, clockVars, steps>>

-----------------------------------------------------------------------------
(* The world *)

Seed ==
    /\ ~seeded
    /\ seeded' = TRUE
    /\ UNCHANGED <<time, shift, phase, flight, clockVars, steps>>

Tick ==
    /\ time < MaxTime
    /\ \A f \in Flights : flight[f].under => flight[f].age < MaxRtt
    /\ time' = time + 1
    /\ flight' = [f \in Flights |-> IF flight[f].under
                                    THEN [flight[f] EXCEPT !.age = @ + 1] ELSE flight[f]]
    /\ UNCHANGED <<shift, seeded, phase, clockVars, steps>>

\* The local clock is set (NTP, a resumed machine): Date.now() is not monotonic.
ClockStep ==
    /\ steps < MaxSteps
    /\ steps' = steps + 1
    /\ shift' = shift + StepSize
    /\ trusted' = 0
    /\ flight' = [f \in Flights |-> [flight[f] EXCEPT !.whole = FALSE]]
    /\ UNCHANGED <<time, seeded, phase, samples, best, synced, lastSyncAt, snapshot>>

Next ==
    \/ \E f \in Flights : SyncBegins(f) \/ StatusScript(f) \/ SyncEnds(f) \/ SyncFails(f)
    \/ BootWithoutSync \/ Stop
    \/ Seed \/ Tick \/ ClockStep

Spec == Init /\ [][Next]_vars

-----------------------------------------------------------------------------
(* evaluateFastPathGuard *)

NowMs == LocalNow + best.offset

\* isFresh(), and the age of the cache entry, which has the same time stamp.
IsFresh == synced /\ LocalNow - lastSyncAt <= MaxStaleness

\* Mutant: the margin does not grow with the round trip.
FixedSkew == GuardSkew

Skew == IF 4 * best.rtt > GuardSkew THEN 4 * best.rtt ELSE GuardSkew

GuardEnabled == IsFresh /\ snapshot = "seeded"

GuardSaysNotStarted == GuardEnabled /\ NowMs < StartsAt - Skew
GuardSaysEnded == GuardEnabled /\ NowMs >= EndsAt + Skew

-----------------------------------------------------------------------------
(* Properties *)

RefusalsRight ==
    /\ GuardSaysNotStarted => time < StartsAt
    /\ GuardSaysEnded => time >= EndsAt

\* PurchaseService calls a false refusal "structurally impossible": the guard
\* never turns away a purchase that purchase.lua would judge inside the window.
\* Cristian's error, the rounding, overlapping syncs and the choice of an old
\* sample all stay within the margin.  An adjustment of the local clock spoils
\* this until every sample kept was taken with the clock as it is now: isFresh
\* dates the last sync, not the sample in use.
NoFalseRefusal == trusted = Len(samples) => RefusalsRight
=============================================================================
