--------------------------- MODULE OrdersProducer ---------------------------
(***************************************************************************)
(* OrdersQueueService, the API's producer of order jobs, as it is used by  *)
(* PurchaseService.enqueueConfirmedOrder.  Purchases share one producer    *)
(* generation (a Redis connection and a BullMQ queue).  A failed or late   *)
(* add retires the generation, which opens a circuit until the retirement  *)
(* and a backoff are over.                                                 *)
(*                                                                         *)
(* Code between two awaits is one step.  Time is discrete: a timer is the  *)
(* number of ticks it has left, and no tick passes while a timer is due or *)
(* a continuation is ready to run.                                         *)
(***************************************************************************)
EXTENDS Integers, FiniteSets

CONSTANTS
    Calls,         \* concurrent purchases
    MaxInFlight,   \* MAX_PRODUCER_IN_FLIGHT
    Timeout,       \* ENQUEUE_TIMEOUT_MS, in ticks
    Backoff        \* PRODUCER_REOPEN_BACKOFF_MS, in ticks

ASSUME LimitAssumption == IsFiniteSet(Calls) /\ MaxInFlight \in Nat \ {0}
ASSUME TimerAssumption == Timeout \in Nat \ {0} /\ Backoff \in Nat /\ Timeout < Backoff

VARIABLES
    call,          \* each purchase: where it is, its attempt, its deadline and
                   \* whether its generation is still the current one
    add,           \* its queue.add: state, commandTimeout, whether a live
                   \* connection took it and whether the retirement awaits it
    gen,           \* this.generation
    reopenIn,      \* ticks until reopenAtMs
    closing

vars == <<call, add, gen, reopenIn, closing>>

Idle == [pc |-> "idle", attempt |-> 1, left |-> 0, current |-> FALSE]
NoAdd == [state |-> "none", left |-> 0, sent |-> FALSE, awaited |-> FALSE]
NoGen == [readiness |-> "none", readyLeft |-> 0, inFlight |-> 0,
          retiring |-> "no", closeLeft |-> 0, age |-> 0]

\* createGeneration
Created == [NoGen EXCEPT !.readiness = "pending", !.readyLeft = Timeout]

\* Observer: ticks since retireGeneration, counted up to one past the bound.
RetireBound == 2 * Timeout

TypeOK ==
    /\ call \in [Calls -> [pc : {"idle", "ready", "adding", "retry", "ok", "gaveUp", "refused"},
                           attempt : 1..2, left : 0..Timeout, current : BOOLEAN]]
    /\ add \in [Calls -> [state : {"none", "pending", "ok", "failed"},
                          left : 0..Timeout, sent : BOOLEAN, awaited : BOOLEAN]]
    /\ gen \in [readiness : {"none", "pending", "ok", "failed"}, readyLeft : 0..Timeout,
                inFlight : 0..MaxInFlight,
                retiring : {"no", "readiness", "settlements", "close"},
                closeLeft : 0..Timeout, age : 0..(RetireBound + 1)]
    /\ reopenIn \in 0..Backoff
    /\ closing \in BOOLEAN

Init ==
    /\ call = [c \in Calls |-> Idle]
    /\ add = [c \in Calls |-> NoAdd]
    /\ gen = NoGen
    /\ reopenIn = 0
    /\ closing = FALSE

-----------------------------------------------------------------------------
(* enqueue, up to its first await *)

\* Mutant: a closing producer still accepts.
RefusedUnlessClosing == reopenIn > 0 \/ gen.retiring # "no" \/ gen.inFlight >= MaxInFlight

\* closing, in backoff, circuit open, or at the in-flight limit.
Refused ==
    closing \/ reopenIn > 0 \/ gen.retiring # "no" \/ gen.inFlight >= MaxInFlight

\* Mutant: the retry is retried as well.
RetriesForever(n, how) == [Idle EXCEPT !.pc = "retry"]

\* enqueueConfirmedOrder: a rejected first attempt is retried immediately, a
\* rejected second one is logged.
Rejected(n, how) ==
    IF n = 1 THEN [Idle EXCEPT !.pc = "retry"]
    ELSE [Idle EXCEPT !.pc = how, !.attempt = n]

Attempting(c) == call[c].pc \in {"idle", "retry"}

\* The attempt that starts now.
Attempt(c) == IF call[c].pc = "idle" THEN 1 ELSE 2

Admit(c) ==
    /\ Attempting(c)
    /\ ~Refused
    /\ gen' = LET g == IF gen = NoGen THEN Created ELSE gen
              IN  [g EXCEPT !.inFlight = @ + 1]
    /\ call' = [call EXCEPT ![c] = [pc |-> "ready", attempt |-> Attempt(c),
                                    left |-> Timeout, current |-> TRUE]]
    /\ UNCHANGED <<add, reopenIn, closing>>

\* Refused, or createQueue threw.
Refuse(c) ==
    /\ Attempting(c)
    /\ Refused \/ gen = NoGen
    /\ call' = [call EXCEPT ![c] = Rejected(Attempt(c), "refused")]
    /\ UNCHANGED <<add, gen, reopenIn, closing>>

-----------------------------------------------------------------------------
(* enqueue, after its awaits *)

\* retireGeneration: the disconnect makes a pending readiness settle at once.
Retire(g) ==
    IF g.retiring # "no" THEN g
    ELSE [g EXCEPT !.retiring = "readiness", !.readyLeft = 0, !.age = 0]

\* Mutant: the slot of a rejected call is not given back.
SlotKept(n) == n

\* finally: generation.inFlight = Math.max(0, generation.inFlight - 1)
SlotReleased(n) == IF n = 0 THEN 0 ELSE n - 1

\* The call leaves its generation.  One that has been replaced or dropped is no
\* longer this.generation, and nothing else looks at it.
LeaveGeneration(c, g) ==
    gen' = IF call[c].current THEN [g EXCEPT !.inFlight = SlotReleased(@)] ELSE gen

\* The readiness promise, or the deadline, settles the first race.  How the
\* promise of a generation that is already dropped had settled is not recorded.
NotReady(c) ==
    /\ call[c].pc = "ready"
    /\ (call[c].current => gen.readiness = "failed") \/ call[c].left = 0
    /\ LeaveGeneration(c, Retire(gen))
    /\ call' = [call EXCEPT ![c] = Rejected(call[c].attempt, "gaveUp")]
    /\ UNCHANGED <<add, reopenIn, closing>>

\* A readiness that settled just before or after the retirement still lets its
\* waiters through: their add goes to a connection that is gone.
QueueAdd(c) ==
    /\ call[c].pc = "ready"
    /\ call[c].current => gen.readiness = "ok"
    /\ call' = [call EXCEPT ![c].pc = "adding"]
    /\ add' = [add EXCEPT ![c] = [state |-> "pending", left |-> Timeout, awaited |-> FALSE,
                                  sent |-> call[c].current /\ gen.retiring = "no"]]
    /\ UNCHANGED <<gen, reopenIn, closing>>

\* The settlement, or the deadline, settles the second race.
AddDone(c) ==
    /\ call[c].pc = "adding"
    /\ add[c].state = "ok"
    /\ LeaveGeneration(c, gen)
    /\ call' = [call EXCEPT ![c] = [Idle EXCEPT !.pc = "ok", !.attempt = call[c].attempt]]
    /\ add' = [add EXCEPT ![c] = NoAdd]
    /\ UNCHANGED <<reopenIn, closing>>

AddRejected(c) ==
    /\ call[c].pc = "adding"
    /\ add[c].state = "failed" \/ call[c].left = 0
    /\ LeaveGeneration(c, Retire(gen))
    /\ call' = [call EXCEPT ![c] = Rejected(call[c].attempt, "gaveUp")]
    /\ add' = IF add[c].state = "pending" THEN add ELSE [add EXCEPT ![c] = NoAdd]
    /\ UNCHANGED <<reopenIn, closing>>

-----------------------------------------------------------------------------
(* Redis and the connection *)

Pending(c) == add[c].state = "pending"

ReadinessSettles ==
    /\ gen.readiness = "pending"
    /\ gen' \in {[gen EXCEPT !.readiness = r, !.readyLeft = 0] : r \in {"ok", "failed"}}
    /\ UNCHANGED <<call, add, reopenIn, closing>>

\* A reply, an error, the disconnect or commandTimeout settles the promise.
AddSettles(c) ==
    /\ Pending(c)
    /\ \E r \in {"ok", "failed"} :
          /\ r = "ok" => add[c].sent
          /\ add' = [add EXCEPT ![c] = IF call[c].pc = "adding"
                                       THEN [NoAdd EXCEPT !.state = r] ELSE NoAdd]
    /\ UNCHANGED <<call, gen, reopenIn, closing>>

\* A continuation of this process is ready to run.
Busy ==
    \/ gen.retiring = "readiness" /\ gen.readiness # "pending"
    \/ gen.retiring = "settlements" /\ \A c \in Calls : ~(Pending(c) /\ add[c].awaited)
    \/ \E c \in Calls :
          \/ call[c].pc = "retry"
          \/ call[c].pc = "ready" /\ (call[c].current => gen.readiness # "pending")
          \/ call[c].pc = "adding" /\ ~Pending(c)

\* The purchase has answered; a later request takes its place, in an event of
\* its own, that is after the continuations that are ready.
Answered(c) ==
    /\ ~Busy
    /\ call[c].pc \in {"ok", "gaveUp", "refused"}
    /\ add[c] = NoAdd
    /\ call' = [call EXCEPT ![c] = Idle]
    /\ UNCHANGED <<add, gen, reopenIn, closing>>

-----------------------------------------------------------------------------
(* finishRetirement and close *)

\* The settlements awaited are those registered at this moment.
RetireReadiness ==
    /\ gen.retiring = "readiness"
    /\ gen.readiness # "pending"
    /\ gen' = [gen EXCEPT !.retiring = "settlements"]
    /\ add' = [c \in Calls |-> [add[c] EXCEPT !.awaited = Pending(c)]]
    /\ UNCHANGED <<call, reopenIn, closing>>

RetireSettled ==
    /\ gen.retiring = "settlements"
    /\ \A c \in Calls : ~(Pending(c) /\ add[c].awaited)
    /\ gen' = [gen EXCEPT !.retiring = "close", !.closeLeft = Timeout]
    /\ UNCHANGED <<call, add, reopenIn, closing>>

\* Mutant: the producer reopens without a backoff.
DisposeWithoutBackoff ==
    /\ gen.retiring = "close"
    /\ gen' = NoGen
    /\ call' = [c \in Calls |-> [call[c] EXCEPT !.current = FALSE]]
    /\ UNCHANGED <<add, reopenIn, closing>>

\* Mutant: the retired generation stays this.generation.
DisposeKeepsGeneration ==
    /\ gen.retiring = "close"
    /\ gen' = [gen EXCEPT !.inFlight = 0]
    /\ reopenIn' = Backoff
    /\ UNCHANGED <<call, add, closing>>

\* queue.close() returned, failed, or ran into its deadline.
Dispose ==
    /\ gen.retiring = "close"
    /\ gen' = NoGen
    /\ reopenIn' = Backoff
    /\ call' = [c \in Calls |-> [call[c] EXCEPT !.current = FALSE]]
    /\ UNCHANGED <<add, closing>>

Close ==
    /\ ~closing
    /\ closing' = TRUE
    /\ gen' = IF gen = NoGen THEN gen ELSE Retire(gen)
    /\ UNCHANGED <<call, add, reopenIn>>

-----------------------------------------------------------------------------
(* Time *)

\* Mutant: queue.close() is awaited without a deadline.
DueWithoutClose ==
    \/ gen.readiness = "pending" /\ gen.readyLeft = 0
    \/ \E c \in Calls :
          \/ call[c].pc \in {"ready", "adding"} /\ call[c].left = 0
          \/ Pending(c) /\ add[c].left = 0

\* A timer of this process is due.
Due ==
    \/ gen.readiness = "pending" /\ gen.readyLeft = 0
    \/ gen.retiring = "close" /\ gen.closeLeft = 0
    \/ \E c \in Calls :
          \/ call[c].pc \in {"ready", "adding"} /\ call[c].left = 0
          \/ Pending(c) /\ add[c].left = 0

Elapsed(n) == IF n = 0 THEN 0 ELSE n - 1

Tick ==
    /\ ~Busy /\ ~Due
    /\ call' = [c \in Calls |-> [call[c] EXCEPT !.left = Elapsed(@)]]
    /\ add' = [c \in Calls |-> [add[c] EXCEPT !.left = Elapsed(@)]]
    /\ gen' = [gen EXCEPT !.readyLeft = Elapsed(@), !.closeLeft = Elapsed(@),
                          !.age = IF gen.retiring = "no" \/ @ > RetireBound THEN @ ELSE @ + 1]
    /\ reopenIn' = Elapsed(reopenIn)
    /\ UNCHANGED <<closing>>

-----------------------------------------------------------------------------

Continue(c) == NotReady(c) \/ QueueAdd(c) \/ AddDone(c) \/ AddRejected(c)

Next ==
    \/ \E c \in Calls :
          \/ Admit(c) \/ Refuse(c) \/ Continue(c) \/ Answered(c)
          \/ AddSettles(c)
    \/ ReadinessSettles \/ RetireReadiness \/ RetireSettled \/ Dispose
    \/ Close
    \/ Tick

Spec == Init /\ [][Next]_vars

\* The event loop runs ready continuations and due timers, and time passes, also
\* while refused purchases keep arriving (hence strong fairness of Tick).
Fairness ==
    /\ SF_vars(Tick)
    /\ WF_vars(RetireReadiness) /\ WF_vars(RetireSettled)
    /\ WF_vars(gen.closeLeft = 0 /\ Dispose)
    /\ WF_vars(gen.readyLeft = 0 /\ ReadinessSettles)
    /\ \A c \in Calls :
          /\ WF_vars(Continue(c))
          /\ WF_vars(call[c].pc = "retry" /\ (Admit(c) \/ Refuse(c)))
          /\ WF_vars(add[c].left = 0 /\ AddSettles(c))

FairSpec == Spec /\ Fairness

-----------------------------------------------------------------------------
(* Properties *)

Waiting(c) == call[c].pc \in {"ready", "adding"}

\* The in-flight count of the generation is the number of calls that hold a slot
\* of it, at most MAX_PRODUCER_IN_FLIGHT: no path through rejection, deadline,
\* retirement and late finally blocks leaks a slot or gives one back twice.
SlotsExact ==
    gen # NoGen =>
        /\ gen.inFlight = Cardinality({c \in Calls : Waiting(c) /\ call[c].current})
        /\ gen.inFlight <= MaxInFlight

\* One producer generation at a time: when a new connection is opened, no call
\* and no awaited add of an older one is left, even one that slipped in after
\* the retirement had listed the settlements it waits for.
OneGenerationInUse ==
    gen # NoGen => \A c \in Calls : Waiting(c) => call[c].current

\* A retirement, with all that it waits for, ends within twice the deadline
\* (PRODUCER_RETIRE_BOUND_MS).
RetirementBounded == gen.retiring # "no" => gen.age <= RetireBound

\* Every purchase gets its answer: no enqueue waits for ever, whatever Redis
\* does not answer.
EnqueueSettles ==
    \A c \in Calls : call[c].pc \in {"ready", "adding", "retry"} ~>
                        call[c].pc \in {"ok", "gaveUp", "refused"}

\* An opened circuit closes again: the producer of a live API is not lost for
\* good after an outage of Redis.
CircuitRecloses == gen.retiring # "no" ~> ~Refused \/ closing

\* close() ends with no generation, and none is opened after it.
CloseIsFinal == closing ~> [](gen = NoGen)
=============================================================================
