------------------------ MODULE AdvisoryGuardProofs ------------------------
(***************************************************************************)
(* The fast-path guard never refuses a purchase inside the window, for     *)
(* every offset of the local clock, every round trip, every number of      *)
(* overlapping syncs and every configuration, as long as the samples kept  *)
(* were taken since the local clock was last set.                          *)
(*                                                                         *)
(* The inductive invariant bounds the error of each of the trusted samples *)
(* at the end of the sequence: the best one may be any of them.            *)
(***************************************************************************)
EXTENDS AdvisoryGuard, TLAPS

\* Cristian's bound, with the rounding: the error is at most half the round trip.
SampleAccurate(x) ==
    /\ x.rtt >= 0
    /\ -(x.rtt) <= 2 * (x.offset + shift)
    /\ 2 * (x.offset + shift) <= x.rtt + 1

SamplesAccurate ==
    /\ trusted <= Len(samples)
    /\ synced => Len(samples) > 0
    /\ \A i \in 1..Len(samples) : Len(samples) - i < trusted => SampleAccurate(samples[i])
    /\ synced /\ trusted = Len(samples) => SampleAccurate(best)

\* The reply of a call that no adjustment has cut was stamped between the call
\* and now.
FlightsOrdered ==
    \A f \in Flights :
        flight[f].whole =>
            /\ flight[f].t0 <= time + shift
            /\ flight[f].served => /\ flight[f].t0 <= flight[f].stamp + shift
                                   /\ flight[f].stamp <= time

IInv == TypeOK /\ FlightsOrdered /\ SamplesAccurate

USE WindowAssumption, GuardAssumption, GuardBounds
USE DEF WindowAssumption, GuardAssumption, GuardBounds

\* The offset of a sample whose stamp lies between send and receipt.
LEMMA OffsetAccurate ==
    ASSUME NEW stamp \in Int, NEW t0 \in Int, NEW t1 \in Int,
           shift \in Int, t0 <= stamp + shift, stamp + shift <= t1
    PROVE  /\ CristianOffset(stamp, t0, t1 - t0) \in Int
           /\ SampleAccurate([offset |-> CristianOffset(stamp, t0, t1 - t0),
                              rtt |-> t1 - t0])
<1> DEFINE x == 2 * (stamp - t0) - (t1 - t0) + 1
           q == x \div 2
<1>1. x \in Int
  OBVIOUS
<1>2. q \in Int /\ 2 * q <= x /\ x <= 2 * q + 1
  BY <1>1
<1>3. CristianOffset(stamp, t0, t1 - t0) = q
  BY DEF CristianOffset
<1> HIDE DEF q
<1>4. -(t1 - t0) <= 2 * (q + shift) /\ 2 * (q + shift) <= (t1 - t0) + 1 /\ t1 - t0 >= 0
  BY <1>2
<1> QED
  BY <1>2, <1>3, <1>4 DEF SampleAccurate

\* A sync keeps the new sample last, and before it samples kept before, each of
\* them one further from the end.
LEMMA KeptIsOldOrNew ==
    ASSUME samples \in Seq(Samples), NEW x \in Samples, Len(samples) <= SampleWindow
    PROVE  /\ Kept(x) \in Seq(Samples)
           /\ Len(Kept(x)) \in 1..SampleWindow
           /\ Len(Kept(x)) = IF Len(samples) < SampleWindow THEN Len(samples) + 1
                             ELSE Len(samples)
           /\ Kept(x)[Len(Kept(x))] = x
           /\ \A i \in 1..Len(Kept(x)) - 1 : \E j \in 1..Len(samples) :
                 /\ Kept(x)[i] = samples[j]
                 /\ Len(Kept(x)) - i = Len(samples) - j + 1
<1>1. CASE Len(samples) >= SampleWindow
  <2>1. samples # <<>> /\ Len(samples) \in Nat \ {0}
    BY <1>1
  <2>2. /\ Tail(samples) \in Seq(Samples)
        /\ Len(Tail(samples)) = Len(samples) - 1
        /\ \A i \in 1..Len(samples) - 1 : Tail(samples)[i] = samples[i + 1]
    BY <2>1
  <2>3. Kept(x) = Append(Tail(samples), x)
    BY <1>1 DEF Kept
  <2>4. /\ Kept(x) \in Seq(Samples)
        /\ Len(Kept(x)) = Len(samples)
        /\ Kept(x)[Len(samples)] = x
        /\ \A i \in 1..Len(samples) - 1 : Kept(x)[i] = samples[i + 1]
    BY <2>1, <2>2, <2>3
  <2>5. ASSUME NEW i \in 1..Len(Kept(x)) - 1
        PROVE  \E j \in 1..Len(samples) : /\ Kept(x)[i] = samples[j]
                                          /\ Len(Kept(x)) - i = Len(samples) - j + 1
    <3>1. /\ i + 1 \in 1..Len(samples)
          /\ Len(Kept(x)) - i = Len(samples) - (i + 1) + 1
          /\ Kept(x)[i] = samples[i + 1]
      BY <2>1, <2>4
    <3> QED
      BY <3>1
  <2> QED
    BY <1>1, <2>1, <2>4, <2>5
<1>2. CASE ~(Len(samples) >= SampleWindow)
  <2>1. Kept(x) = Append(samples, x)
    BY <1>2 DEF Kept
  <2>2. /\ Len(samples) \in Nat
        /\ Kept(x) \in Seq(Samples)
        /\ Len(Kept(x)) = Len(samples) + 1
        /\ Kept(x)[Len(samples) + 1] = x
        /\ \A i \in 1..Len(samples) : Kept(x)[i] = samples[i]
    BY <2>1
  <2>3. ASSUME NEW i \in 1..Len(Kept(x)) - 1
        PROVE  \E j \in 1..Len(samples) : /\ Kept(x)[i] = samples[j]
                                          /\ Len(Kept(x)) - i = Len(samples) - j + 1
    <3>1. /\ i \in 1..Len(samples)
          /\ Len(Kept(x)) - i = Len(samples) - i + 1
          /\ Kept(x)[i] = samples[i]
      BY <2>2
    <3> QED
      BY <3>1
  <2> QED
    BY <1>2, <2>2, <2>3
<1> QED
  BY <1>1, <1>2

\* A flight that is not under way has the type of a flight.
LEMMA NoFlightTyped == NoFlight \in FlightStates
BY DEF NoFlight, FlightStates

\* Before the first sync nothing is kept and nothing is under way.
LEMMA InitIInv == Init => IInv
<1> SUFFICES ASSUME Init
             PROVE  IInv
  OBVIOUS
<1>1. TypeOK
  <2>2. flight \in [Flights -> FlightStates]
    BY NoFlightTyped DEF Init
  <2>3. samples \in Seq(Samples) /\ Len(samples) <= SampleWindow
    BY DEF Init
  <2>4. best \in Samples
    BY DEF Init, NoSample, Samples
  <2>5. /\ time \in 0..MaxTime /\ shift \in Int /\ lastSyncAt \in Int /\ steps \in 0..MaxSteps
        /\ trusted \in 0..SampleWindow
    BY DEF Init
  <2>6. /\ seeded \in BOOLEAN /\ synced \in BOOLEAN
        /\ phase \in {"boot", "serving", "stopped"}
        /\ snapshot \in {"none", "unseeded", "seeded"}
    BY DEF Init
  <2> QED
    BY <2>2, <2>3, <2>4, <2>5, <2>6 DEF TypeOK
<1>2. FlightsOrdered /\ SamplesAccurate
  BY DEF Init, FlightsOrdered, SamplesAccurate, NoFlight
<1> QED
  BY <1>1, <1>2 DEF IInv

\* The flight of a sync that ends makes room for the next one.
LEMMA SyncEndsFlights ==
    ASSUME IInv, NEW f \in Flights, SyncEnds(f)
    PROVE  flight' \in [Flights -> FlightStates] /\ FlightsOrdered'
<1>1. flight' \in [Flights -> FlightStates]
  BY NoFlightTyped DEF IInv, SyncEnds, TypeOK
<1>2. FlightsOrdered'
  BY DEF IInv, SyncEnds, FlightsOrdered, NoFlight, TypeOK
<1> QED
  BY <1>1, <1>2

\* A sync that ends adds a sample; if the local clock was not set meanwhile the
\* sample is accurate, and if all samples kept are, the best one is.
LEMMA SyncEndsIInv ==
    ASSUME IInv, NEW f \in Flights, SyncEnds(f)
    PROVE  IInv'
<1> DEFINE rtt == LocalNow - flight[f].t0
           x == [offset |-> CristianOffset(flight[f].stamp, flight[f].t0, rtt), rtt |-> rtt]
           K == Kept(x)
<1> USE DEF IInv
<1>1. /\ flight[f].t0 \in Int /\ flight[f].stamp \in Int /\ time \in Int /\ shift \in Int
      /\ LocalNow = time + shift /\ LocalNow \in Int /\ rtt \in Int
      /\ trusted \in 0..SampleWindow /\ flight[f].whole \in BOOLEAN /\ flight[f].served
  BY DEF SyncEnds, TypeOK, FlightStates, LocalNow
<1>2. x \in Samples
  <2>1. \A q \in Int : q \div 2 \in Int
    OBVIOUS
  <2>2. 2 * (flight[f].stamp - flight[f].t0) - rtt + 1 \in Int
    BY <1>1
  <2> QED
    BY <1>1, <2>1, <2>2 DEF Samples, CristianOffset
<1>3. ASSUME flight[f].whole
      PROVE  SampleAccurate(x)
  <2>1. /\ flight[f].t0 <= flight[f].stamp + shift
        /\ flight[f].stamp + shift <= LocalNow
    BY <1>1, <1>3 DEF FlightsOrdered
  <2> QED
    BY <1>1, <2>1, OffsetAccurate
<1>4. /\ samples' = K
      /\ \E i \in 1..Len(K) : best' = K[i]
      /\ UNCHANGED <<time, shift, seeded, steps>>
      /\ trusted' = IF ~flight[f].whole THEN 0
                    ELSE IF trusted < SampleWindow THEN trusted + 1 ELSE trusted
  BY DEF SyncEnds
<1> HIDE DEF x, rtt
<1>5. /\ K \in Seq(Samples)
      /\ Len(K) \in 1..SampleWindow
      /\ Len(samples) \in Nat /\ Len(samples) <= SampleWindow
      /\ Len(K) = IF Len(samples) < SampleWindow THEN Len(samples) + 1 ELSE Len(samples)
      /\ K[Len(K)] = x
      /\ \A i \in 1..Len(K) - 1 : \E j \in 1..Len(samples) :
            K[i] = samples[j] /\ Len(K) - i = Len(samples) - j + 1
  <2>1. samples \in Seq(Samples) /\ Len(samples) <= SampleWindow
    BY DEF TypeOK
  <2>2. Len(samples) \in Nat
    BY <2>1
  <2> QED
    BY <1>2, <2>1, <2>2, KeptIsOldOrNew
<1> HIDE DEF K
<1>6. trusted <= Len(samples)
  BY DEF SamplesAccurate
<1>7. trusted' \in 0..SampleWindow /\ trusted' <= Len(K)
  <2>1. CASE flight[f].whole
    BY <1>1, <1>4, <1>5, <1>6, <2>1
  <2>2. CASE ~flight[f].whole
    BY <1>4, <1>5, <2>2
  <2> QED
    BY <2>1, <2>2
<1>8. ASSUME NEW i \in 1..Len(K), Len(K) - i < trusted'
      PROVE  SampleAccurate(K[i])
  <2>1. flight[f].whole /\ trusted' <= trusted + 1
    BY <1>1, <1>4, <1>5, <1>8
  <2>2. CASE i = Len(K)
    BY <1>3, <1>5, <2>1, <2>2
  <2>3. CASE i # Len(K)
    <3>1. i \in 1..Len(K) - 1
      BY <1>5, <2>3
    <3>2. PICK j \in 1..Len(samples) : K[i] = samples[j] /\ Len(K) - i = Len(samples) - j + 1
      BY <1>5, <3>1
    <3>3. Len(samples) - j < trusted
      BY <1>1, <1>5, <1>7, <1>8, <2>1, <3>2
    <3> QED
      BY <3>2, <3>3 DEF SamplesAccurate
  <2> QED
    BY <2>2, <2>3
<1>9. ASSUME trusted' = Len(K)
      PROVE  SampleAccurate(best')
  <2>1. PICK i \in 1..Len(K) : best' = K[i]
    BY <1>4
  <2>2. Len(K) - i < trusted'
    BY <1>5, <1>9
  <2> QED
    BY <1>8, <2>1, <2>2
<1>10. SamplesAccurate'
  BY <1>4, <1>5, <1>7, <1>8, <1>9 DEF SamplesAccurate, SampleAccurate
<1>11. TypeOK'
  <2>1. flight' \in [Flights -> FlightStates]
    BY SyncEndsFlights
  <2>2. samples' \in Seq(Samples) /\ Len(samples') <= SampleWindow /\ best' \in Samples
    BY <1>4, <1>5
  <2>3. lastSyncAt' \in Int /\ synced' \in BOOLEAN /\ snapshot' \in {"none", "unseeded", "seeded"}
    BY <1>1 DEF SyncEnds
  <2>4. phase' \in {"boot", "serving", "stopped"}
    BY DEF SyncEnds, TypeOK
  <2> QED
    BY <1>4, <1>7, <2>1, <2>2, <2>3, <2>4 DEF TypeOK
<1> QED
  BY <1>10, <1>11, SyncEndsFlights

\* A step that leaves the clock's own state and the local clock alone leaves the
\* samples accurate.
LEMMA SamplesKept ==
    ASSUME SamplesAccurate, UNCHANGED <<shift, clockVars>>
    PROVE  SamplesAccurate'
BY DEF SamplesAccurate, SampleAccurate, clockVars

\* An adjustment of the local clock withdraws the trust in every sample and in
\* every call under way.
LEMMA ClockStepIInv ==
    ASSUME IInv, ClockStep
    PROVE  IInv'
<1> USE DEF IInv
<1>1. ASSUME NEW f \in Flights
      PROVE  flight'[f] \in FlightStates /\ ~flight'[f].whole
  <2>1. flight[f] \in FlightStates
    BY DEF TypeOK
  <2>2. flight'[f] = [flight[f] EXCEPT !.whole = FALSE]
    BY DEF ClockStep
  <2> QED
    BY <2>1, <2>2 DEF FlightStates
<1>2. flight' \in [Flights -> FlightStates]
  BY <1>1 DEF ClockStep
<1>3. shift' \in Int /\ steps' \in 0..MaxSteps /\ trusted' = 0 /\ trusted' \in 0..SampleWindow
  <2>1. steps < MaxSteps /\ steps' = steps + 1 /\ shift' = shift + StepSize /\ trusted' = 0
    BY DEF ClockStep
  <2>2. steps \in 0..MaxSteps /\ shift \in Int
    BY DEF TypeOK
  <2> QED
    BY <2>1, <2>2
<1>4. UNCHANGED <<time, seeded, phase, samples, best, synced, lastSyncAt, snapshot>>
  BY DEF ClockStep
<1>5. TypeOK'
  BY <1>2, <1>3, <1>4 DEF TypeOK
<1>6. FlightsOrdered'
  BY <1>1 DEF FlightsOrdered
<1>7. SamplesAccurate'
  <2>1. Len(samples) \in Nat
    BY DEF TypeOK
  <2> QED
    BY <1>3, <1>4, <2>1 DEF SamplesAccurate
<1> QED
  BY <1>5, <1>6, <1>7

\* Time moves on: a stamp that lies in the past stays there.
LEMMA TickIInv ==
    ASSUME IInv, Tick
    PROVE  IInv'
<1> USE DEF IInv
<1>1. ASSUME NEW f \in Flights
      PROVE  /\ flight'[f] \in FlightStates
             /\ flight'[f].whole = flight[f].whole /\ flight'[f].served = flight[f].served
             /\ flight'[f].t0 = flight[f].t0 /\ flight'[f].stamp = flight[f].stamp
  <2>1. CASE flight[f].under
    <3>3. flight[f] \in FlightStates /\ flight[f].age < MaxRtt
      BY <2>1 DEF Tick, TypeOK
    <3>1. flight[f] \in FlightStates /\ flight[f].age + 1 \in 0..MaxRtt
      BY <3>3 DEF FlightStates
    <3>2. flight'[f] = [flight[f] EXCEPT !.age = flight[f].age + 1]
      BY <2>1 DEF Tick
    <3> QED
      BY <3>1, <3>2 DEF FlightStates
  <2>2. CASE ~flight[f].under
    BY <2>2 DEF Tick, TypeOK, FlightStates
  <2> QED
    BY <2>1, <2>2
<1>2. flight' \in [Flights -> FlightStates]
  BY <1>1 DEF Tick
<1>3. time' = time + 1 /\ time' \in 0..MaxTime /\ time \in Int /\ shift \in Int /\ shift' = shift
  <2>1. time < MaxTime /\ time' = time + 1 /\ shift' = shift
    BY DEF Tick
  <2>2. time \in 0..MaxTime /\ shift \in Int
    BY DEF TypeOK
  <2> QED
    BY <2>1, <2>2, GuardBounds
<1>4. TypeOK'
  BY <1>2, <1>3 DEF Tick, TypeOK, clockVars
<1>5. FlightsOrdered'
  <2> SUFFICES ASSUME NEW f \in Flights, flight'[f].whole
               PROVE  /\ flight'[f].t0 <= time' + shift'
                      /\ flight'[f].served => /\ flight'[f].t0 <= flight'[f].stamp + shift'
                                              /\ flight'[f].stamp <= time'
    BY DEF FlightsOrdered
  <2>1. flight[f].t0 \in Int /\ flight[f].stamp \in Int
    BY DEF TypeOK, FlightStates
  <2>2. /\ flight[f].t0 <= time + shift
        /\ flight[f].served => /\ flight[f].t0 <= flight[f].stamp + shift
                               /\ flight[f].stamp <= time
    BY <1>1 DEF FlightsOrdered
  <2> QED
    BY <1>1, <1>3, <2>1, <2>2
<1>6. SamplesAccurate'
  BY SamplesKept DEF Tick
<1> QED
  BY <1>4, <1>5, <1>6

\* Every step keeps the bound on the trusted samples.
LEMMA NextIInv ==
    ASSUME IInv, [Next]_vars
    PROVE  IInv'
<1> USE DEF IInv
<1>1. ASSUME NEW f \in Flights, SyncBegins(f)
      PROVE  IInv'
  <2> DEFINE new == [under |-> TRUE, t0 |-> LocalNow, age |-> 0, served |-> FALSE,
                     stamp |-> 0, seeded |-> FALSE, whole |-> TRUE]
  <2>1. LocalNow = time + shift /\ time + shift \in Int
    BY DEF LocalNow, TypeOK
  <2>2. /\ new \in FlightStates /\ ~new.served
        /\ new.t0 = time + shift
    BY <2>1 DEF FlightStates
  <2>3. /\ flight' = [flight EXCEPT ![f] = new]
        /\ UNCHANGED <<time, shift, seeded, phase, clockVars, steps>>
    BY <1>1 DEF SyncBegins
  <2> HIDE DEF new
  <2>4. TypeOK'
    BY <2>2, <2>3 DEF TypeOK, clockVars
  <2>5. FlightsOrdered'
    BY <2>1, <2>2, <2>3 DEF TypeOK, FlightsOrdered
  <2>6. SamplesAccurate'
    BY <2>3, SamplesKept
  <2> QED
    BY <2>4, <2>5, <2>6
<1>2. ASSUME NEW f \in Flights, StatusScript(f)
      PROVE  IInv'
  <2> DEFINE new == [flight[f] EXCEPT !.served = TRUE, !.stamp = time, !.seeded = seeded]
  <2>1. /\ new \in FlightStates
        /\ new.whole => new.t0 <= time + shift
        /\ new.stamp = time
    BY <1>2 DEF StatusScript, FlightStates, TypeOK, FlightsOrdered
  <2>2. /\ flight' = [flight EXCEPT ![f] = new]
        /\ UNCHANGED <<time, shift, seeded, phase, clockVars, steps>>
    BY <1>2 DEF StatusScript, TypeOK
  <2>7. time \in Int
    BY DEF TypeOK
  <2> HIDE DEF new
  <2>4. TypeOK'
    BY <2>1, <2>2 DEF TypeOK, clockVars
  <2>5. FlightsOrdered'
    BY <2>1, <2>2, <2>7 DEF TypeOK, FlightsOrdered
  <2>6. SamplesAccurate'
    BY <2>2, SamplesKept
  <2> QED
    BY <2>4, <2>5, <2>6
<1>3. ASSUME NEW f \in Flights, SyncEnds(f)
      PROVE  IInv'
  BY <1>3, SyncEndsIInv
<1>4. ASSUME NEW f \in Flights, SyncFails(f)
      PROVE  IInv'
  <2>1. TypeOK'
    BY <1>4, NoFlightTyped DEF SyncFails, TypeOK, clockVars
  <2>2. FlightsOrdered'
    BY <1>4 DEF SyncFails, TypeOK, FlightsOrdered, NoFlight
  <2>3. SamplesAccurate'
    BY <1>4, SamplesKept DEF SyncFails
  <2> QED
    BY <2>1, <2>2, <2>3
<1>5. ASSUME BootWithoutSync \/ Stop \/ Seed
      PROVE  IInv'
  <2>1. TypeOK'
    BY <1>5 DEF BootWithoutSync, Stop, Seed, TypeOK, clockVars
  <2>2. FlightsOrdered'
    BY <1>5 DEF BootWithoutSync, Stop, Seed, FlightsOrdered
  <2>3. SamplesAccurate'
    BY <1>5, SamplesKept DEF BootWithoutSync, Stop, Seed
  <2> QED
    BY <2>1, <2>2, <2>3
<1>6. CASE Tick
  BY <1>6, TickIInv
<1>7. CASE ClockStep
  BY <1>7, ClockStepIInv
<1>8. CASE UNCHANGED vars
  <2>1. TypeOK'
    BY <1>8 DEF vars, TypeOK
  <2>2. FlightsOrdered'
    BY <1>8 DEF vars, FlightsOrdered
  <2>3. SamplesAccurate'
    BY <1>8, SamplesKept DEF vars, clockVars
  <2> QED
    BY <2>1, <2>2, <2>3
<1> QED
  BY <1>1, <1>2, <1>3, <1>4, <1>5, <1>6, <1>7, <1>8 DEF Next

\* An accurate offset keeps the guard's refusals outside the window.
LEMMA AccurateRefusals == IInv => NoFalseRefusal
<1> SUFFICES ASSUME IInv, GuardEnabled, trusted = Len(samples)
             PROVE  /\ NowMs < StartsAt - Skew => time < StartsAt
                    /\ NowMs >= EndsAt + Skew => time >= EndsAt
  BY DEF NoFalseRefusal, RefusalsRight, GuardSaysNotStarted, GuardSaysEnded
<1>1. /\ best.offset \in Int /\ best.rtt \in Int /\ time \in Int /\ shift \in Int
      /\ SampleAccurate(best)
      /\ NowMs = time + shift + best.offset
  BY DEF IInv, TypeOK, Samples, SamplesAccurate, GuardEnabled, IsFresh, NowMs, LocalNow
<1>2. Skew \in Int /\ Skew >= 4 * best.rtt
  BY <1>1 DEF Skew
<1> DEFINE error == best.offset + shift
<1>3. error \in Int /\ NowMs = time + error
  BY <1>1
<1>4. -(best.rtt) <= 2 * error /\ 2 * error <= best.rtt + 1 /\ best.rtt >= 0
  BY <1>1 DEF SampleAccurate
<1> HIDE DEF error
<1>5. -Skew <= error /\ error <= Skew
  BY <1>1, <1>2, <1>3, <1>4
<1> QED
  BY <1>1, <1>2, <1>3, <1>5

\* evaluateFastPathGuard never refuses a purchase that purchase.lua would find
\* inside the window, once every sample kept was taken since the local clock was
\* last set; always, if it never is.
THEOREM GuardNeverWrong == Spec => []NoFalseRefusal
<1>1. IInv /\ [Next]_vars => IInv'
  BY NextIInv
<1> QED
  BY InitIInv, <1>1, AccurateRefusals, PTL DEF Spec

\* The clock, its window of samples and the calls under way keep their types:
\* never more than RTT_SAMPLE_WINDOW samples are kept.
THEOREM GuardTypeCorrect == Spec => []TypeOK
<1>1. IInv /\ [Next]_vars => IInv'
  BY NextIInv
<1>2. IInv => TypeOK
  BY DEF IInv
<1> QED
  BY InitIInv, <1>1, <1>2, PTL DEF Spec
=============================================================================
