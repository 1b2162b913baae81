------------------------ MODULE OrdersProducerProofs ------------------------
(***************************************************************************)
(* The producer's slots, generations and retirement, for every number of   *)
(* concurrent purchases, every in-flight limit, every deadline and every   *)
(* backoff longer than the deadline.                                       *)
(*                                                                         *)
(* That one generation is in use at a time rests on time alone: nothing in *)
(* the code waits for a call that reached its add after the retirement had *)
(* listed the settlements it awaits.  StaleInv says why none is left when  *)
(* the circuit closes: its deadline ends before the backoff does.  The     *)
(* bound on a retirement adds up what is left of the awaited adds and of   *)
(* queue.close() (RetireInv).                                              *)
(***************************************************************************)
EXTENDS OrdersProducer, FiniteSetTheorems, TLAPS

CallStates == [pc : {"idle", "ready", "adding", "retry", "ok", "gaveUp", "refused"},
               attempt : 1..2, left : 0..Timeout, current : BOOLEAN]
AddStates == [state : {"none", "pending", "ok", "failed"},
              left : 0..Timeout, sent : BOOLEAN, awaited : BOOLEAN]
Gens == [readiness : {"none", "pending", "ok", "failed"}, readyLeft : 0..Timeout,
         inFlight : 0..MaxInFlight,
         retiring : {"no", "readiness", "settlements", "close"},
         closeLeft : 0..Timeout, age : 0..(RetireBound + 1)]

\* A generation there is has a readiness, and a closing producer retires it.
GenInv ==
    /\ gen.readiness = "none" => gen = NoGen
    /\ closing /\ gen # NoGen => gen.retiring # "no"

\* The calls that hold a slot of the current generation.
Holders == {c \in Calls : Waiting(c) /\ call[c].current}

SlotInv ==
    /\ gen.inFlight = Cardinality(Holders)
    /\ \A c \in Calls : call[c].current => Waiting(c) /\ gen # NoGen

\* A call that outlives its generation gives up before the backoff is over.
StaleInv ==
    \A c \in Calls : Waiting(c) /\ ~call[c].current =>
        gen = NoGen /\ call[c].left < reopenIn

\* Time passes in a retirement only while it awaits adds, one deadline at most,
\* and then queue.close(), another one at most.
RetireInv ==
    /\ gen.retiring = "readiness" => gen.age = 0 /\ gen.readyLeft = 0
    /\ gen.retiring = "settlements" =>
          /\ gen.age <= Timeout
          /\ \A c \in Calls : Pending(c) /\ add[c].awaited => gen.age + add[c].left <= Timeout
    /\ gen.retiring = "close" => gen.age + gen.closeLeft <= RetireBound

ProducerInv == TypeOK /\ GenInv /\ SlotInv /\ StaleInv /\ RetireInv

-----------------------------------------------------------------------------
(* Lemmas *)

\* TypeOK, by the sets above.
LEMMA Types ==
    TypeOK <=> /\ call \in [Calls -> CallStates] /\ add \in [Calls -> AddStates]
               /\ gen \in Gens /\ reopenIn \in 0..Backoff /\ closing \in BOOLEAN
BY DEF TypeOK, CallStates, AddStates, Gens

\* The values the records start from.
LEMMA Constants ==
    /\ Idle \in CallStates /\ NoAdd \in AddStates /\ NoGen \in Gens
    /\ Idle.pc = "idle" /\ Idle.current = FALSE /\ NoAdd.awaited = FALSE
    /\ NoGen.readiness = "none" /\ NoGen.inFlight = 0 /\ NoGen.retiring = "no"
    /\ 0 \in 0..Timeout /\ Timeout \in 0..Timeout
BY LimitAssumption, TimerAssumption DEF Idle, NoAdd, NoGen, CallStates, AddStates, Gens, RetireBound

\* A generation without readiness, slots, retirement and timers is none.
LEMMA NoGenFields ==
    ASSUME NEW g \in Gens, g.readiness = "none", g.readyLeft = 0, g.inFlight = 0,
           g.retiring = "no", g.closeLeft = 0, g.age = 0
    PROVE  g = NoGen
BY DEF Gens, NoGen

\* retireGeneration keeps the slots, and starts afresh only once.
LEMMA RetireGen ==
    ASSUME NEW g \in Gens
    PROVE  /\ Retire(g) \in Gens
           /\ Retire(g).readiness = g.readiness /\ Retire(g).inFlight = g.inFlight
           /\ Retire(g).retiring # "no"
           /\ g.retiring # "no" => Retire(g) = g
           /\ g.retiring = "no" => /\ Retire(g).retiring = "readiness"
                                   /\ Retire(g).age = 0 /\ Retire(g).readyLeft = 0
<1>1. CASE g.retiring # "no"
    BY <1>1 DEF Retire
<1>2. CASE g.retiring = "no"
    <2>1. Retire(g) = [g EXCEPT !.retiring = "readiness", !.readyLeft = 0, !.age = 0]
        BY <1>2 DEF Retire
    <2>2. 0 \in 0..Timeout /\ 0 \in 0..(RetireBound + 1)
        BY TimerAssumption DEF RetireBound
    <2> QED BY <1>2, <2>1, <2>2 DEF Gens
<1> QED BY <1>1, <1>2

\* A new value of a generation's slots leaves its other fields alone.
LEMMA SlotField ==
    ASSUME NEW g \in Gens, NEW n \in 0..MaxInFlight
    PROVE  /\ [g EXCEPT !.inFlight = n] \in Gens
           /\ [g EXCEPT !.inFlight = n].inFlight = n
           /\ [g EXCEPT !.inFlight = n].readiness = g.readiness
           /\ [g EXCEPT !.inFlight = n].readyLeft = g.readyLeft
           /\ [g EXCEPT !.inFlight = n].retiring = g.retiring
           /\ [g EXCEPT !.inFlight = n].closeLeft = g.closeLeft
           /\ [g EXCEPT !.inFlight = n].age = g.age
BY DEF Gens

\* A rejected attempt holds nothing.
LEMMA RejectedCall ==
    ASSUME NEW n \in 1..2, NEW how \in {"gaveUp", "refused"}
    PROVE  /\ Rejected(n, how) \in CallStates
           /\ Rejected(n, how).pc \notin {"ready", "adding"}
           /\ Rejected(n, how).current = FALSE
<1>1. Idle \in CallStates /\ Idle.current = FALSE
    BY Constants
<1>2. CASE n = 1
    <2>1. Rejected(n, how) = [Idle EXCEPT !.pc = "retry"]
        BY <1>2 DEF Rejected
    <2> QED BY <1>1, <2>1 DEF CallStates
<1>3. CASE n # 1
    <2>1. Rejected(n, how) = [Idle EXCEPT !.pc = how, !.attempt = n]
        BY <1>3 DEF Rejected
    <2> QED BY <1>1, <2>1 DEF CallStates
<1> QED BY <1>2, <1>3

\* Slots are counted by a finite set.
LEMMA HoldersFinite ==
    IsFiniteSet(Holders) /\ Cardinality(Holders) \in Nat
BY LimitAssumption, FS_Subset, FS_CardinalityType DEF Holders

\* The slot of a call that leaves its generation is the one it held.
LEMMA SlotLeft ==
    ASSUME NEW c \in Calls, Waiting(c), call[c].current, ~Waiting(c)',
           \A d \in Calls : d # c => call'[d] = call[d]
    PROVE  Cardinality(Holders') = Cardinality(Holders) - 1 /\ Cardinality(Holders) > 0
<1>1. c \in Holders /\ Holders' = Holders \ {c}
    BY DEF Holders, Waiting
<1> QED BY <1>1, HoldersFinite, FS_RemoveElement, FS_EmptySet

-----------------------------------------------------------------------------
(* The invariant, action by action *)

\* The invariant at the start: no generation, no call.
LEMMA InitProducerInv ==
    Init => ProducerInv
<1> SUFFICES ASSUME Init PROVE ProducerInv
    OBVIOUS
<1>1. TypeOK
    <2>1. reopenIn \in 0..Backoff
        BY TimerAssumption DEF Init
    <2>2. /\ call \in [Calls -> CallStates] /\ add \in [Calls -> AddStates]
          /\ gen \in Gens /\ closing \in BOOLEAN
        BY Constants DEF Init
    <2> QED BY <2>1, <2>2, Types
<1>2. Holders = {}
    BY DEF Init, Idle, Holders, Waiting
<1>3. Cardinality(Holders) = 0
    BY <1>2, FS_EmptySet
<1> QED BY <1>1, <1>3
    DEF Init, ProducerInv, GenInv, SlotInv, StaleInv, RetireInv, Idle, NoGen, Waiting

\* An admitted call takes a slot of the generation there is, or of a new one.
\* There is no call of an older one, because the backoff is over.
LEMMA AdmitInv ==
    ASSUME ProducerInv, NEW c \in Calls, Admit(c)
    PROVE  ProducerInv'
<1> DEFINE g == IF gen = NoGen THEN Created ELSE gen
           x == [pc |-> "ready", attempt |-> Attempt(c), left |-> Timeout, current |-> TRUE]
<1>1. /\ call \in [Calls -> CallStates] /\ add \in [Calls -> AddStates] /\ gen \in Gens
      /\ reopenIn = 0 /\ ~closing /\ gen.retiring = "no" /\ gen.inFlight < MaxInFlight
    BY Types, LimitAssumption, TimerAssumption DEF ProducerInv, Admit, Refused, Gens
<1>2. g \in Gens /\ g.retiring = "no" /\ g.inFlight = gen.inFlight /\ g.readiness # "none"
    <2>1. CASE gen = NoGen
        <3>1. Created \in Gens /\ Created.retiring = "no" /\ Created.inFlight = 0
              /\ Created.readiness = "pending"
            <4>1. NoGen \in Gens /\ NoGen.retiring = "no" /\ NoGen.inFlight = 0
                BY Constants
            <4>2. Timeout \in 0..Timeout
                BY TimerAssumption
            <4> QED BY <4>1, <4>2 DEF Created, Gens
        <3> QED BY <2>1, <3>1 DEF NoGen
    <2>2. CASE gen # NoGen
        BY <1>1, <2>2 DEF ProducerInv, GenInv
    <2> QED BY <2>1, <2>2
<1>3. gen' = [g EXCEPT !.inFlight = @ + 1]
    BY DEF Admit
<1>4. PICK n : n = g.inFlight + 1
    OBVIOUS
<1>5. n \in 0..MaxInFlight /\ gen' = [g EXCEPT !.inFlight = n]
    <2>1. n \in 0..MaxInFlight
        BY <1>1, <1>2, <1>4, LimitAssumption DEF Gens
    <2> QED BY <1>3, <1>4, <2>1
<1> HIDE DEF g
<1>6. /\ gen' \in Gens /\ gen'.inFlight = n /\ gen'.retiring = "no" /\ gen'.readiness # "none"
    BY <1>2, <1>5, SlotField
<1>7. gen' # NoGen
    BY <1>6, Constants
<1>8. x \in CallStates
    BY TimerAssumption DEF CallStates, Attempt
<1>9. /\ call' = [call EXCEPT ![c] = x] /\ call'[c] = x
      /\ \A d \in Calls : d # c => call'[d] = call[d]
    BY <1>1 DEF Admit
<1>10. x.pc = "ready" /\ x.current = TRUE
    OBVIOUS
<1> HIDE DEF x
<1>11. TypeOK'
    BY <1>1, <1>6, <1>8, <1>9, Types DEF ProducerInv, TypeOK, Admit, CallStates, AddStates, Gens
<1>12. SlotInv'
    <2>1. Holders' = Holders \cup {c} /\ c \notin Holders
        BY <1>9, <1>10 DEF Holders, Waiting, Admit, Attempting
    <2>2. Cardinality(Holders') = Cardinality(Holders) + 1
        BY <2>1, HoldersFinite, FS_AddElement
    <2> QED BY <1>2, <1>4, <1>6, <1>7, <1>9, <1>10, <2>2 DEF ProducerInv, SlotInv, Waiting
<1>13. StaleInv'
    <2>1. \A d \in Calls : Waiting(d) => call[d].current
        BY <1>1, TimerAssumption DEF ProducerInv, StaleInv, CallStates
    <2> QED BY <1>9, <1>10, <2>1 DEF StaleInv, Waiting
<1>14. GenInv' /\ RetireInv'
    BY <1>1, <1>6, <1>7 DEF GenInv, RetireInv, Admit
<1> QED BY <1>11, <1>12, <1>13, <1>14 DEF ProducerInv

\* A step of the calls and adds that touches no generation and no slot.
LEMMA QuietInv ==
    ASSUME ProducerInv, UNCHANGED <<gen, reopenIn, closing>>,
           call' \in [Calls -> CallStates], add' \in [Calls -> AddStates],
           \A c \in Calls : /\ Waiting(c)' <=> Waiting(c)
                            /\ call'[c].current = call[c].current
                            /\ Waiting(c) => call'[c].left = call[c].left
                            /\ Pending(c)' /\ add'[c].awaited => add'[c] = add[c]
    PROVE  ProducerInv'
<1>1. TypeOK'
    BY Types DEF ProducerInv, TypeOK, CallStates, AddStates, Gens
<1>2. Holders' = Holders
    BY DEF Holders, Waiting
<1>3. SlotInv' /\ StaleInv' /\ GenInv'
    BY <1>2 DEF ProducerInv, SlotInv, StaleInv, GenInv
<1>4. RetireInv'
    BY DEF ProducerInv, RetireInv, Pending
<1> QED BY <1>1, <1>3, <1>4 DEF ProducerInv

\* A call that settles leaves its generation, which may begin to retire.
LEMMA LeaveInv ==
    ASSUME ProducerInv, NEW c \in Calls, Waiting(c),
           NEW g, g = gen \/ g = Retire(gen), LeaveGeneration(c, g),
           NEW x \in CallStates, x.pc \notin {"ready", "adding"}, x.current = FALSE,
           call' = [call EXCEPT ![c] = x],
           add' \in [Calls -> AddStates],
           \A d \in Calls : Pending(d)' /\ add'[d].awaited => add'[d] = add[d],
           UNCHANGED <<reopenIn, closing>>
    PROVE  ProducerInv'
<1>1. /\ call \in [Calls -> CallStates] /\ add \in [Calls -> AddStates] /\ gen \in Gens
      /\ call' \in [Calls -> CallStates]
    BY Types DEF ProducerInv
<1>2. /\ ~Waiting(c)' /\ call'[c].current = FALSE
      /\ \A d \in Calls : d # c => call'[d] = call[d] /\ (Waiting(d)' <=> Waiting(d))
    BY <1>1 DEF Waiting
<1>3. CASE ~call[c].current
    <2>1. gen' = gen
        BY <1>3 DEF LeaveGeneration
    <2>2. Holders' = Holders
        BY <1>2, <1>3 DEF Holders
    <2>3. TypeOK'
        BY <1>1, <2>1, Types DEF ProducerInv, TypeOK, CallStates, AddStates, Gens
    <2>4. SlotInv' /\ StaleInv' /\ GenInv'
        BY <1>2, <2>1, <2>2 DEF ProducerInv, SlotInv, StaleInv, GenInv
    <2>5. RetireInv'
        BY <2>1 DEF ProducerInv, RetireInv, Pending
    <2> QED BY <2>3, <2>4, <2>5 DEF ProducerInv
<1>4. CASE call[c].current
    <2>1. /\ g \in Gens /\ g.readiness = gen.readiness /\ g.inFlight = gen.inFlight
          /\ g.retiring = "no" => gen.retiring = "no"
          /\ closing => gen.retiring # "no" /\ g = gen
          /\ gen # NoGen /\ gen.readiness # "none"
          /\ \/ g = gen
             \/ g.retiring = "readiness" /\ g.age = 0 /\ g.readyLeft = 0
        BY <1>1, <1>4, RetireGen DEF ProducerInv, GenInv, SlotInv
    <2>2. /\ Cardinality(Holders') = Cardinality(Holders) - 1 /\ Cardinality(Holders) > 0
          /\ gen.inFlight = Cardinality(Holders) /\ gen.inFlight \in 0..MaxInFlight
        BY <1>1, <1>2, <1>4, SlotLeft DEF ProducerInv, SlotInv, Gens
    <2>3. PICK n : n = gen.inFlight - 1
        OBVIOUS
    <2>4. n \in 0..MaxInFlight /\ n = Cardinality(Holders') /\ gen' = [g EXCEPT !.inFlight = n]
        <3>1. n \in 0..MaxInFlight /\ n = Cardinality(Holders') /\ SlotReleased(g.inFlight) = n
            BY <2>1, <2>2, <2>3, HoldersFinite, LimitAssumption DEF SlotReleased
        <3>2. gen' = [g EXCEPT !.inFlight = SlotReleased(@)]
            BY <1>4 DEF LeaveGeneration
        <3> QED BY <3>1, <3>2
    <2>5. /\ gen' \in Gens /\ gen'.inFlight = n /\ gen'.readiness = g.readiness
          /\ gen'.retiring = g.retiring /\ gen'.readyLeft = g.readyLeft
          /\ gen'.closeLeft = g.closeLeft /\ gen'.age = g.age
        BY <2>1, <2>4, SlotField
    <2>6. gen' # NoGen
        BY <2>1, <2>5, Constants
    <2>7. TypeOK'
        BY <1>1, <2>5, Types DEF ProducerInv, TypeOK, CallStates, AddStates, Gens
    <2>8. GenInv' /\ SlotInv'
        BY <1>2, <2>1, <2>4, <2>5, <2>6 DEF ProducerInv, GenInv, SlotInv
    <2>9. StaleInv'
        BY <1>2, <2>1 DEF ProducerInv, StaleInv
    <2>10. RetireInv'
        <3>1. CASE g = gen
            BY <2>5, <3>1 DEF ProducerInv, RetireInv, Pending
        <3>2. CASE g # gen
            BY <2>1, <2>5, <3>2 DEF RetireInv
        <3> QED BY <3>1, <3>2
    <2> QED BY <2>7, <2>8, <2>9, <2>10 DEF ProducerInv
<1> QED BY <1>3, <1>4

\* What the steps of one call do: it is refused, settles, reaches its add, or
\* its place is taken by a later request.
LEMMA CallInv ==
    ASSUME ProducerInv, NEW c \in Calls,
           Refuse(c) \/ Continue(c) \/ Answered(c) \/ AddSettles(c)
    PROVE  ProducerInv'
<1>1. call \in [Calls -> CallStates] /\ add \in [Calls -> AddStates]
    BY Types DEF ProducerInv
<1>2. CASE Refuse(c)
    <2> DEFINE x == Rejected(Attempt(c), "refused")
    <2>1. x \in CallStates /\ x.pc \notin {"ready", "adding"} /\ x.current = FALSE
        <3>1. Attempt(c) \in 1..2
            BY DEF Attempt
        <3> QED BY <3>1, RejectedCall
    <2>2. call' = [call EXCEPT ![c] = x] /\ UNCHANGED <<add, gen, reopenIn, closing>>
        BY <1>2 DEF Refuse
    <2> HIDE DEF x
    <2>3. ~Waiting(c) /\ call[c].current = FALSE
        BY <1>1, <1>2 DEF Refuse, Attempting, Waiting, ProducerInv, SlotInv, CallStates
    <2>4. \A d \in Calls : d # c => call'[d] = call[d]
        BY <1>1, <2>2
    <2>5. ~Waiting(c)' /\ call'[c].current = FALSE
        BY <1>1, <2>1, <2>2 DEF Waiting
    <2> QED BY <1>1, <2>1, <2>2, <2>3, <2>4, <2>5, QuietInv DEF Waiting
<1>3. CASE NotReady(c)
    <2> DEFINE x == Rejected(call[c].attempt, "gaveUp")
    <2>1. x \in CallStates /\ x.pc \notin {"ready", "adding"} /\ x.current = FALSE
        BY <1>1, RejectedCall DEF CallStates
    <2>2. /\ call' = [call EXCEPT ![c] = x] /\ UNCHANGED <<add, reopenIn, closing>>
          /\ Waiting(c) /\ LeaveGeneration(c, Retire(gen))
        BY <1>3 DEF NotReady, Waiting
    <2> HIDE DEF x
    <2> QED BY <1>1, <2>1, <2>2, LeaveInv
<1>4. CASE QueueAdd(c)
    <2> DEFINE a == [state |-> "pending", left |-> Timeout, awaited |-> FALSE,
                     sent |-> call[c].current /\ gen.retiring = "no"]
    <2>1. a \in AddStates /\ a.awaited = FALSE
        <3>1. (call[c].current /\ gen.retiring = "no") \in BOOLEAN
            BY <1>1 DEF CallStates
        <3> QED BY <3>1, TimerAssumption DEF AddStates
    <2>2. /\ call' = [call EXCEPT ![c].pc = "adding"] /\ add' = [add EXCEPT ![c] = a]
          /\ call[c].pc = "ready" /\ UNCHANGED <<gen, reopenIn, closing>>
        BY <1>4 DEF QueueAdd
    <2> HIDE DEF a
    <2>3. call' \in [Calls -> CallStates] /\ add' \in [Calls -> AddStates]
        BY <1>1, <2>1, <2>2 DEF CallStates
    <2>4. /\ call'[c].pc = "adding" /\ call'[c].left = call[c].left
          /\ call'[c].current = call[c].current /\ add'[c].awaited = FALSE
          /\ \A d \in Calls : d # c => call'[d] = call[d] /\ add'[d] = add[d]
        BY <1>1, <2>1, <2>2 DEF CallStates
    <2> QED BY <2>2, <2>3, <2>4, QuietInv DEF Waiting
<1>5. CASE AddDone(c)
    <2> DEFINE x == [Idle EXCEPT !.pc = "ok", !.attempt = call[c].attempt]
    <2>1. x \in CallStates /\ x.pc \notin {"ready", "adding"} /\ x.current = FALSE
        <3>1. Idle \in CallStates /\ Idle.current = FALSE /\ call[c].attempt \in 1..2
            BY <1>1, Constants DEF Idle, CallStates
        <3> QED BY <3>1 DEF CallStates
    <2>2. /\ call' = [call EXCEPT ![c] = x] /\ add' = [add EXCEPT ![c] = NoAdd]
          /\ Waiting(c) /\ LeaveGeneration(c, gen) /\ UNCHANGED <<reopenIn, closing>>
        BY <1>5 DEF AddDone, Waiting
    <2> HIDE DEF x
    <2>3. /\ add' \in [Calls -> AddStates]
          /\ \A d \in Calls : Pending(d)' /\ add'[d].awaited => add'[d] = add[d]
        BY <1>1, <2>2, Constants
    <2> QED BY <2>1, <2>2, <2>3, LeaveInv
<1>6. CASE AddRejected(c)
    <2> DEFINE x == Rejected(call[c].attempt, "gaveUp")
    <2>1. x \in CallStates /\ x.pc \notin {"ready", "adding"} /\ x.current = FALSE
        BY <1>1, RejectedCall DEF CallStates
    <2>2. /\ call' = [call EXCEPT ![c] = x] /\ UNCHANGED <<reopenIn, closing>>
          /\ Waiting(c) /\ LeaveGeneration(c, Retire(gen))
          /\ add' = add \/ add' = [add EXCEPT ![c] = NoAdd]
        BY <1>6 DEF AddRejected, Waiting
    <2> HIDE DEF x
    <2>3. /\ add' \in [Calls -> AddStates]
          /\ \A d \in Calls : Pending(d)' /\ add'[d].awaited => add'[d] = add[d]
        BY <1>1, <2>2, Constants
    <2> QED BY <2>1, <2>2, <2>3, LeaveInv
<1>7. CASE Answered(c)
    <2>1. /\ call' = [call EXCEPT ![c] = Idle] /\ UNCHANGED <<add, gen, reopenIn, closing>>
          /\ ~Waiting(c)
        BY <1>7 DEF Answered, Waiting
    <2>2. Idle \in CallStates /\ Idle.pc = "idle" /\ Idle.current = FALSE
        BY Constants
    <2>3. call[c].current = FALSE
        BY <1>1, <2>1 DEF ProducerInv, SlotInv, CallStates
    <2>4. /\ call' \in [Calls -> CallStates] /\ call'[c] = Idle
          /\ \A d \in Calls : d # c => call'[d] = call[d]
        BY <1>1, <2>1, <2>2
    <2> QED BY <1>1, <2>1, <2>2, <2>3, <2>4, QuietInv DEF Waiting
<1>8. CASE AddSettles(c)
    <2>1. PICK a : /\ a = NoAdd \/ \E r \in {"ok", "failed"} : a = [NoAdd EXCEPT !.state = r]
                   /\ add' = [add EXCEPT ![c] = a]
                   /\ UNCHANGED <<call, gen, reopenIn, closing>>
        BY <1>8 DEF AddSettles
    <2>2. a \in AddStates /\ a.awaited = FALSE
        <3>1. NoAdd \in AddStates /\ NoAdd.awaited = FALSE
            BY Constants
        <3> QED BY <2>1, <3>1 DEF AddStates
    <2>3. /\ add' \in [Calls -> AddStates] /\ add'[c].awaited = FALSE
          /\ \A d \in Calls : d # c => add'[d] = add[d]
        BY <1>1, <2>1, <2>2
    <2> QED BY <1>1, <2>1, <2>3, QuietInv DEF Waiting
<1> QED BY <1>2, <1>3, <1>4, <1>5, <1>6, <1>7, <1>8 DEF Continue

\* Readiness, retirement and close, which leave the calls where they are until
\* the generation is disposed.
LEMMA RetirementInv ==
    ASSUME ProducerInv,
           ReadinessSettles \/ RetireReadiness \/ RetireSettled \/ Dispose \/ Close
    PROVE  ProducerInv'
<1>1. /\ call \in [Calls -> CallStates] /\ add \in [Calls -> AddStates] /\ gen \in Gens
      /\ reopenIn \in 0..Backoff /\ closing \in BOOLEAN
    BY Types DEF ProducerInv
<1>2. CASE ReadinessSettles
    <2>1. PICK r \in {"ok", "failed"} : gen' = [gen EXCEPT !.readiness = r, !.readyLeft = 0]
        BY <1>2 DEF ReadinessSettles
    <2>2. /\ gen' \in Gens /\ gen'.readiness = r /\ gen'.readyLeft = 0
          /\ gen'.inFlight = gen.inFlight /\ gen'.retiring = gen.retiring
          /\ gen'.closeLeft = gen.closeLeft /\ gen'.age = gen.age
        BY <1>1, <2>1, Constants DEF Gens
    <2>3. UNCHANGED <<call, add, reopenIn, closing>> /\ gen # NoGen /\ gen' # NoGen
        BY <1>2, <2>2, Constants DEF ReadinessSettles
    <2>4. TypeOK'
        BY <1>1, <2>2, <2>3, Types DEF TypeOK, CallStates, AddStates, Gens
    <2>5. Holders' = Holders
        BY <2>3 DEF Holders, Waiting
    <2>6. GenInv' /\ SlotInv' /\ StaleInv'
        BY <2>2, <2>3, <2>5 DEF ProducerInv, GenInv, SlotInv, StaleInv, Waiting
    <2>7. RetireInv'
        BY <2>2, <2>3 DEF ProducerInv, RetireInv, Pending
    <2> QED BY <2>4, <2>6, <2>7 DEF ProducerInv
<1>3. CASE RetireReadiness
    <2>1. /\ gen' = [gen EXCEPT !.retiring = "settlements"]
          /\ add' = [c \in Calls |-> [add[c] EXCEPT !.awaited = Pending(c)]]
          /\ gen.retiring = "readiness" /\ UNCHANGED <<call, reopenIn, closing>>
        BY <1>3 DEF RetireReadiness
    <2>2. /\ gen' \in Gens /\ gen'.readiness = gen.readiness /\ gen'.inFlight = gen.inFlight
          /\ gen'.retiring = "settlements" /\ gen'.age = gen.age
        BY <1>1, <2>1 DEF Gens
    <2>3. /\ add' \in [Calls -> AddStates]
          /\ \A c \in Calls : add'[c].left \in 0..Timeout
        BY <1>1, <2>1 DEF AddStates, Pending
    <2>4. gen # NoGen /\ gen' # NoGen
        BY <2>1, <2>2, Constants
    <2>5. TypeOK'
        BY <1>1, <2>1, <2>2, <2>3, Types DEF TypeOK, CallStates, AddStates, Gens
    <2>6. Holders' = Holders
        BY <2>1 DEF Holders, Waiting
    <2>7. GenInv' /\ SlotInv' /\ StaleInv'
        BY <2>1, <2>2, <2>4, <2>6 DEF ProducerInv, GenInv, SlotInv, StaleInv, Waiting
    <2>8. RetireInv'
        BY <2>1, <2>2, <2>3, TimerAssumption DEF ProducerInv, RetireInv, Pending
    <2> QED BY <2>5, <2>7, <2>8 DEF ProducerInv
<1>4. CASE RetireSettled
    <2>1. /\ gen' = [gen EXCEPT !.retiring = "close", !.closeLeft = Timeout]
          /\ gen.retiring = "settlements" /\ UNCHANGED <<call, add, reopenIn, closing>>
        BY <1>4 DEF RetireSettled
    <2>2. /\ gen' \in Gens /\ gen'.readiness = gen.readiness /\ gen'.inFlight = gen.inFlight
          /\ gen'.retiring = "close" /\ gen'.closeLeft = Timeout /\ gen'.age = gen.age
        BY <1>1, <2>1, Constants DEF Gens
    <2>3. gen # NoGen /\ gen' # NoGen
        BY <2>1, <2>2, Constants
    <2>4. TypeOK'
        BY <1>1, <2>1, <2>2, Types DEF TypeOK, CallStates, AddStates, Gens
    <2>5. Holders' = Holders
        BY <2>1 DEF Holders, Waiting
    <2>6. GenInv' /\ SlotInv' /\ StaleInv'
        BY <2>1, <2>2, <2>3, <2>5 DEF ProducerInv, GenInv, SlotInv, StaleInv, Waiting
    <2>7. RetireInv'
        BY <1>1, <2>1, <2>2, TimerAssumption DEF ProducerInv, RetireInv, RetireBound, Gens
    <2> QED BY <2>4, <2>6, <2>7 DEF ProducerInv
<1>5. CASE Dispose
    <2>1. /\ gen' = NoGen /\ reopenIn' = Backoff /\ UNCHANGED <<add, closing>>
          /\ call' = [c \in Calls |-> [call[c] EXCEPT !.current = FALSE]]
        BY <1>5 DEF Dispose
    <2>2. /\ call' \in [Calls -> CallStates]
          /\ \A c \in Calls : /\ call'[c].current = FALSE /\ call'[c].left = call[c].left
                              /\ call'[c].left \in 0..Timeout
        BY <1>1, <2>1 DEF CallStates
    <2>3. NoGen \in Gens /\ NoGen.inFlight = 0 /\ NoGen.retiring = "no"
        BY Constants
    <2>4. TypeOK'
        BY <1>1, <2>1, <2>2, <2>3, TimerAssumption, Types DEF TypeOK, CallStates, AddStates, Gens
    <2>5. Holders' = {} /\ Cardinality(Holders') = 0
        <3>1. Holders' = {}
            BY <2>2 DEF Holders
        <3> QED BY <3>1, FS_EmptySet
    <2>6. GenInv' /\ SlotInv' /\ RetireInv'
        BY <2>1, <2>2, <2>3, <2>5 DEF GenInv, SlotInv, RetireInv
    <2>7. StaleInv'
        BY <2>1, <2>2, TimerAssumption DEF StaleInv
    <2> QED BY <2>4, <2>6, <2>7 DEF ProducerInv
<1>6. CASE Close
    <2>1. /\ gen' = IF gen = NoGen THEN gen ELSE Retire(gen)
          /\ closing' = TRUE /\ UNCHANGED <<call, add, reopenIn>>
        BY <1>6 DEF Close
    <2>2. Holders' = Holders
        BY <2>1 DEF Holders, Waiting
    <2>3. CASE gen = NoGen
        <3>1. gen' = gen
            BY <2>1, <2>3
        <3>2. TypeOK'
            BY <1>1, <2>1, <3>1, Types DEF TypeOK, CallStates, AddStates, Gens
        <3> QED BY <2>1, <2>2, <2>3, <3>1, <3>2
            DEF ProducerInv, GenInv, SlotInv, StaleInv, RetireInv, Waiting, Pending
    <2>4. CASE gen # NoGen
        <3>1. /\ gen' \in Gens /\ gen'.readiness = gen.readiness /\ gen'.inFlight = gen.inFlight
              /\ gen'.retiring # "no"
              /\ \/ gen' = gen
                 \/ gen'.retiring = "readiness" /\ gen'.age = 0 /\ gen'.readyLeft = 0
            BY <1>1, <2>1, <2>4, RetireGen
        <3>2. gen' # NoGen
            BY <3>1, Constants
        <3>3. TypeOK'
            BY <1>1, <2>1, <3>1, Types DEF TypeOK, CallStates, AddStates, Gens
        <3>4. GenInv' /\ SlotInv' /\ StaleInv'
            BY <2>1, <2>2, <2>4, <3>1, <3>2 DEF ProducerInv, GenInv, SlotInv, StaleInv, Waiting
        <3>5. RetireInv'
            BY <2>1, <3>1 DEF ProducerInv, RetireInv, Pending
        <3> QED BY <3>3, <3>4, <3>5 DEF ProducerInv
    <2> QED BY <2>3, <2>4
<1> QED BY <1>2, <1>3, <1>4, <1>5, <1>6

\* A tick shortens every timer by one, except those at zero.
LEMMA ElapsedTimer ==
    ASSUME NEW n \in Nat
    PROVE  /\ Elapsed(n) \in Nat /\ Elapsed(n) <= n
           /\ n > 0 => Elapsed(n) = n - 1
BY DEF Elapsed

\* Time does not pass while a deadline is due, so a late call and the backoff
\* shorten together, and what a retirement waits for shortens as its age grows.
LEMMA TickInv ==
    ASSUME ProducerInv, Tick
    PROVE  ProducerInv'
<1>1. /\ call \in [Calls -> CallStates] /\ add \in [Calls -> AddStates] /\ gen \in Gens
      /\ reopenIn \in 0..Backoff /\ closing \in BOOLEAN
    BY Types DEF ProducerInv
<1>2. /\ call' \in [Calls -> CallStates]
      /\ \A c \in Calls : /\ call'[c].pc = call[c].pc /\ call'[c].current = call[c].current
                          /\ call'[c].left = Elapsed(call[c].left)
    <2>1. call' = [c \in Calls |-> [call[c] EXCEPT !.left = Elapsed(@)]]
        BY DEF Tick
    <2>2. \A c \in Calls : Elapsed(call[c].left) \in 0..Timeout
        BY <1>1, TimerAssumption DEF Elapsed, CallStates
    <2> QED BY <1>1, <2>1, <2>2 DEF CallStates
<1>3. /\ add' \in [Calls -> AddStates]
      /\ \A c \in Calls : /\ add'[c].state = add[c].state /\ add'[c].awaited = add[c].awaited
                          /\ add'[c].left = Elapsed(add[c].left)
    <2>1. add' = [c \in Calls |-> [add[c] EXCEPT !.left = Elapsed(@)]]
        BY DEF Tick
    <2>2. \A c \in Calls : Elapsed(add[c].left) \in 0..Timeout
        BY <1>1, TimerAssumption DEF Elapsed, AddStates
    <2> QED BY <1>1, <2>1, <2>2 DEF AddStates
<1>4. PICK r, k, a :
         /\ r = Elapsed(gen.readyLeft) /\ k = Elapsed(gen.closeLeft)
         /\ a = IF gen.retiring = "no" \/ gen.age > RetireBound THEN gen.age ELSE gen.age + 1
         /\ gen' = [gen EXCEPT !.readyLeft = r, !.closeLeft = k, !.age = a]
    BY DEF Tick
<1>5. r \in 0..Timeout /\ k \in 0..Timeout /\ a \in 0..(RetireBound + 1)
    BY <1>1, <1>4, TimerAssumption DEF Elapsed, Gens, RetireBound
<1>6. /\ gen' \in Gens /\ gen'.readiness = gen.readiness /\ gen'.inFlight = gen.inFlight
      /\ gen'.retiring = gen.retiring /\ gen'.readyLeft = r /\ gen'.closeLeft = k
      /\ gen'.age = a
    BY <1>1, <1>4, <1>5 DEF Gens
<1>7. closing' = closing /\ reopenIn' = Elapsed(reopenIn) /\ ~Busy /\ ~Due
    BY DEF Tick
<1>8. gen = NoGen <=> gen' = NoGen
    <2>1. ASSUME gen = NoGen PROVE gen' = NoGen
        <3>1. gen.readyLeft = 0 /\ gen.closeLeft = 0 /\ gen.age = 0
            BY <2>1 DEF NoGen
        <3>2. r = 0 /\ k = 0 /\ a = 0
            BY <1>4, <2>1, <3>1, Constants DEF Elapsed
        <3> QED BY <1>6, <2>1, <3>2, Constants, NoGenFields
    <2> QED BY <1>6, <2>1, Constants DEF ProducerInv, GenInv
<1>9. TypeOK'
    <2>1. reopenIn' \in 0..Backoff
        BY <1>1, <1>7, TimerAssumption DEF Elapsed
    <2> QED BY <1>1, <1>2, <1>3, <1>6, <1>7, <2>1, Types DEF TypeOK, CallStates, AddStates, Gens
<1>10. GenInv' /\ SlotInv'
    <2>1. Holders' = Holders
        BY <1>2 DEF Holders, Waiting
    <2> QED BY <1>2, <1>6, <1>7, <1>8, <2>1 DEF ProducerInv, GenInv, SlotInv, Waiting
<1>11. StaleInv'
    <2> SUFFICES ASSUME NEW c \in Calls, Waiting(c)', ~call'[c].current
                 PROVE  gen' = NoGen /\ call'[c].left < reopenIn'
        BY DEF StaleInv
    <2>1. Waiting(c) /\ ~call[c].current
        BY <1>2 DEF Waiting
    <2>2. gen = NoGen /\ call[c].left < reopenIn
        BY <2>1 DEF ProducerInv, StaleInv
    <2>3. call[c].left > 0 /\ call[c].left \in Nat /\ reopenIn \in Nat
        BY <1>1, <1>7, <2>1, TimerAssumption DEF Due, Waiting, CallStates
    <2> QED BY <1>2, <1>7, <1>8, <2>2, <2>3, ElapsedTimer
<1>12. RetireInv'
    <2>1. gen.retiring # "readiness"
        BY <1>1, <1>7 DEF ProducerInv, RetireInv, Busy, Due
    <2>2. CASE gen.retiring = "settlements"
        <3>1. gen.age <= Timeout /\ a = gen.age + 1
            BY <1>1, <1>4, <2>2, TimerAssumption DEF ProducerInv, RetireInv, RetireBound, Gens
        <3>2. PICK d \in Calls : Pending(d) /\ add[d].awaited
            BY <1>7, <2>2 DEF Busy
        <3>3. \A c \in Calls : Pending(c) /\ add[c].awaited =>
                 /\ add[c].left > 0 /\ add[c].left \in Nat
                 /\ gen.age + add[c].left <= Timeout
            BY <1>1, <1>7, <2>2, TimerAssumption DEF ProducerInv, RetireInv, Due, AddStates
        <3>4. gen.age \in Nat
            BY <1>1 DEF Gens
        <3>5. a <= Timeout
            BY <3>1, <3>2, <3>3, <3>4, TimerAssumption
        <3>6. ASSUME NEW c \in Calls, Pending(c)', add'[c].awaited
              PROVE  a + add'[c].left <= Timeout
            <4>1. Pending(c) /\ add[c].awaited
                BY <1>3, <3>6 DEF Pending
            <4>2. add'[c].left = add[c].left - 1
                BY <1>3, <3>3, <4>1, ElapsedTimer
            <4> QED BY <3>1, <3>3, <3>4, <4>1, <4>2, TimerAssumption
        <3> QED BY <1>6, <2>2, <3>5, <3>6 DEF RetireInv
    <2>3. CASE gen.retiring = "close"
        <3>1. gen.closeLeft > 0 /\ gen.closeLeft \in Nat /\ gen.age \in Nat
            BY <1>1, <1>7, <2>3, TimerAssumption DEF Due, Gens
        <3>2. k = gen.closeLeft - 1 /\ a <= gen.age + 1 /\ a \in Int
            BY <1>4, <1>5, <3>1, ElapsedTimer
        <3>3. gen.age + gen.closeLeft <= RetireBound
            BY <2>3 DEF ProducerInv, RetireInv
        <3>4. a + k <= RetireBound
            BY <3>1, <3>2, <3>3, TimerAssumption DEF RetireBound
        <3> QED BY <1>6, <2>3, <3>4 DEF RetireInv
    <2>4. CASE gen.retiring = "no"
        BY <1>6, <2>4 DEF RetireInv
    <2> QED BY <1>1, <2>1, <2>2, <2>3, <2>4 DEF Gens
<1> QED BY <1>9, <1>10, <1>11, <1>12 DEF ProducerInv

\* The invariant is inductive.
LEMMA ProducerInvariance ==
    Spec => []ProducerInv
<1>1. ASSUME ProducerInv, [Next]_vars PROVE ProducerInv'
    <2>1. CASE UNCHANGED vars
        <3>1. Holders' = Holders
            BY <2>1 DEF vars, Holders, Waiting
        <3>2. TypeOK'
            BY <1>1, <2>1 DEF vars, ProducerInv, TypeOK
        <3> QED BY <1>1, <2>1, <3>1, <3>2
            DEF vars, ProducerInv, GenInv, SlotInv, StaleInv, RetireInv, Waiting, Pending
    <2> QED BY <1>1, <2>1, AdmitInv, CallInv, RetirementInv, TickInv DEF Next
<1>2. ProducerInv /\ [Next]_vars => ProducerInv'
    BY <1>1
<1> QED BY <1>2, InitProducerInv, PTL DEF Spec

-----------------------------------------------------------------------------
(* Theorems *)

\* The types of the producer's state, and with them that inFlight never leaves
\* 0..MAX_PRODUCER_IN_FLIGHT.
THEOREM ProducerTypes ==
    Spec => []TypeOK
<1>1. ProducerInv => TypeOK
    BY DEF ProducerInv
<1> QED BY <1>1, ProducerInvariance, PTL

\* No path through rejection, deadline, retirement and late finally blocks leaks
\* a slot of the generation or gives one back twice.
THEOREM SlotsAreExact ==
    Spec => []SlotsExact
<1>1. ProducerInv => SlotsExact
    <2> SUFFICES ASSUME ProducerInv PROVE SlotsExact
        OBVIOUS
    <2>1. gen.inFlight \in 0..MaxInFlight
        BY Types DEF ProducerInv, Gens
    <2> QED BY <2>1, LimitAssumption DEF ProducerInv, SlotInv, SlotsExact, Holders
<1> QED BY <1>1, ProducerInvariance, PTL

\* No call of an older generation is left when a new connection is opened,
\* provided only that the backoff is longer than the deadline.
THEOREM GenerationsDoNotOverlap ==
    Spec => []OneGenerationInUse
<1>1. ProducerInv => OneGenerationInUse
    BY DEF ProducerInv, StaleInv, OneGenerationInUse
<1> QED BY <1>1, ProducerInvariance, PTL

\* A retirement takes at most twice the deadline.
THEOREM RetirementIsBounded ==
    Spec => []RetirementBounded
<1>1. ProducerInv => RetirementBounded
    <2> SUFFICES ASSUME ProducerInv, gen.retiring # "no" PROVE gen.age <= RetireBound
        BY DEF RetirementBounded
    <2>1. gen \in Gens
        BY Types DEF ProducerInv
    <2>2. CASE gen.retiring = "close"
        BY <2>1, <2>2, TimerAssumption DEF ProducerInv, RetireInv, Gens, RetireBound
    <2>3. CASE gen.retiring # "close"
        BY <2>1, <2>3, TimerAssumption DEF ProducerInv, RetireInv, Gens, RetireBound
    <2> QED BY <2>2, <2>3
<1> QED BY <1>1, ProducerInvariance, PTL

\* The safety half of CloseIsFinal: once close() was called, the only way on
\* for a generation is its retirement, and none is opened when it is gone.
THEOREM NoGenerationAfterClose ==
    Spec => [][closing => /\ closing'
                          /\ gen = NoGen => gen' = NoGen
                          /\ gen' # NoGen => gen'.retiring # "no"]_vars
<1> DEFINE P == closing => /\ closing'
                           /\ gen = NoGen => gen' = NoGen
                           /\ gen' # NoGen => gen'.retiring # "no"
<1>1. ASSUME ProducerInv, ProducerInv', [Next]_vars PROVE [P]_vars
    <2> SUFFICES ASSUME Next, closing PROVE P
        BY <1>1
    <2>1. closing'
        BY DEF Next, Admit, Refused, Refuse, Continue, NotReady, QueueAdd, AddDone, AddRejected,
               Answered, AddSettles, ReadinessSettles, RetireReadiness, RetireSettled, Dispose,
               Close, Tick
    <2>2. gen' # NoGen => gen'.retiring # "no"
        BY <1>1, <2>1 DEF ProducerInv, GenInv
    <2>3. ASSUME gen = NoGen PROVE gen' = NoGen
        <3>1. gen.retiring = "no" /\ gen.readiness = "none"
            BY <2>3, Constants
        <3>2. \A c \in Calls : ~call[c].current
            BY <1>1, <2>3 DEF ProducerInv, SlotInv
        <3>3. CASE Tick
            BY <1>1, <2>2, <3>1, <3>3, Types DEF ProducerInv, Tick, GenInv, Gens
        <3>4. CASE ~Tick
            BY <2>3, <3>1, <3>2, <3>4
            DEF Next, Admit, Refused, Refuse, Continue, NotReady, QueueAdd, AddDone, AddRejected,
                LeaveGeneration, Answered, AddSettles, ReadinessSettles, RetireReadiness,
                RetireSettled, Dispose, Close
        <3> QED BY <3>3, <3>4
    <2> QED BY <2>1, <2>2, <2>3
<1>2. ProducerInv /\ ProducerInv' /\ [Next]_vars => [P]_vars
    BY <1>1
<1> QED BY <1>2, ProducerInvariance, PTL DEF Spec
=============================================================================
