---------------------------- MODULE FailoverProofs ----------------------------
(* Machine-checked proofs about Failover, for every number of providers and   *)
(* concurrent lookups, every threshold and every set of healthy providers.    *)
EXTENDS Failover, FiniteSetTheorems, TLAPS

\* The flights that may still record a failure of p.
Aloft(p) == {f \in Flights : InFlight(f, p)}

LEMMA AloftFacts ==
  ASSUME NEW p
  PROVE  /\ IsFiniteSet(Aloft(p))
         /\ Cardinality(Aloft(p)) \in Nat
         /\ Cardinality(Flights) \in Nat
         /\ Cardinality(Aloft(p)) <= Cardinality(Flights)
<1>1. Aloft(p) \in SUBSET Flights
  BY DEF Aloft
<1>2. QED
  BY <1>1, FlightsAssumption, FS_Subset, FS_CardinalityType

\* The same after a step.
LEMMA AloftFactsNext ==
  ASSUME NEW p
  PROVE  /\ IsFiniteSet(Aloft(p)')
         /\ Cardinality(Aloft(p)') \in Nat
         /\ Cardinality(Flights) \in Nat
         /\ Cardinality(Aloft(p)') <= Cardinality(Flights)
<1>1. Aloft(p)' \in SUBSET Flights
  BY DEF Aloft
<1>2. QED
  BY <1>1, FlightsAssumption, FS_Subset, FS_CardinalityType

\* ----------------------------------------------------------- initial states --

LEMMA InitIndInv == Init => IndInv
<1> SUFFICES ASSUME Init PROVE IndInv
  OBVIOUS
<1>1. TypeOK
  BY LimitsAssumption, ProvidersAssumption DEF Init, TypeOK, Steps, None, Outcomes, Providers
<1>2. BreakerCountsFailures
  BY LimitsAssumption DEF Init, BreakerCountsFailures
<1>3. LateFailuresBounded
  <2> SUFFICES ASSUME NEW p \in Providers
               PROVE  failures[p] + Cardinality(Aloft(p)) <= TripAt - 1 + Cardinality(Flights)
    BY DEF LateFailuresBounded, Aloft
  <2>1. failures[p] = 0
    BY DEF Init
  <2>2. QED
    BY <2>1, AloftFacts, LimitsAssumption
<1>4. PatientStaysLive /\ HealthyUnharmed
  BY ProvidersAssumption DEF Init, PatientStaysLive, HealthyUnharmed, Providers
<1>5. HealthyInReach /\ FailoverSaves
  BY DEF Init, HealthyInReach, FailoverSaves, None
<1>6. QED
  BY <1>1, <1>2, <1>3, <1>4, <1>5 DEF IndInv

\* -------------------------------------------------------- type correctness --

\* What the parts of a lookup's step write is typed.
LEMMA StepsTyped ==
  ASSUME TypeOK, NEW f \in Flights
  PROVE  /\ \A step \in Steps : [pc EXCEPT ![f] = step] \in [Flights -> Steps]
         /\ at[f] <= N => /\ at[f] \in Providers
                         /\ [at EXCEPT ![f] = @ + 1] \in [Flights -> 1 .. N + 1]
         /\ [at EXCEPT ![f] = 1] \in [Flights -> 1 .. N + 1]
         /\ \A o \in Outcomes : [outcome EXCEPT ![f] = o] \in [Flights -> Outcomes \cup {None}]
         /\ Turn(f) \in Providers
<1>1. N \in Nat \ {0} /\ at \in [Flights -> 1 .. N + 1]
  BY ProvidersAssumption DEF TypeOK
<1>2. at[f] \in 1 .. N + 1
  BY <1>1
<1>3. at[f] <= N => /\ at[f] \in Providers
                   /\ [at EXCEPT ![f] = @ + 1] \in [Flights -> 1 .. N + 1]
  BY <1>1, <1>2 DEF Providers
<1>4. [at EXCEPT ![f] = 1] \in [Flights -> 1 .. N + 1]
  BY <1>1
<1>5. \A step \in Steps : [pc EXCEPT ![f] = step] \in [Flights -> Steps]
  BY DEF TypeOK
<1>6. \A o \in Outcomes : [outcome EXCEPT ![f] = o] \in [Flights -> Outcomes \cup {None}]
  BY DEF TypeOK
<1>7. Turn(f) \in Providers
  BY <1>1, <1>2 DEF Turn, Providers
<1>8. QED
  BY <1>3, <1>4, <1>5, <1>6, <1>7

\* The operations on a breaker keep its types.
BreakerTypes ==
  /\ failures \in [Providers -> Nat]
  /\ tripped \in [Providers -> BOOLEAN]
  /\ left \in [Providers -> 0 .. Cooldown]

LEMMA BreakerTyped ==
  ASSUME TypeOK, NEW p \in Providers,
         CloseIfExpired(p) \/ RecordFailure(p) \/ RecordSuccess(p)
  PROVE  BreakerTypes'
<1>1. BreakerTypes /\ Cooldown \in Nat \ {0}
  BY LimitsAssumption DEF TypeOK, BreakerTypes
<1>2. CASE CloseIfExpired(p)
  BY <1>1, <1>2 DEF CloseIfExpired, BreakerTypes
<1>3. CASE RecordSuccess(p)
  BY <1>1, <1>3 DEF RecordSuccess, BreakerTypes
<1>4. CASE RecordFailure(p)
  <2>1. failures' \in [Providers -> Nat]
    BY <1>1, <1>4 DEF RecordFailure, BreakerTypes
  <2>2. CASE failures[p] + 1 >= TripAt
    <3>1. tripped' = [tripped EXCEPT ![p] = TRUE] /\ left' = [left EXCEPT ![p] = Cooldown]
      BY <1>4, <2>2 DEF RecordFailure
    <3>2. tripped' \in [Providers -> BOOLEAN]
      BY <1>1, <3>1 DEF BreakerTypes
    <3>3. left' \in [Providers -> 0 .. Cooldown]
      BY <1>1, <3>1 DEF BreakerTypes
    <3>4. QED
      BY <2>1, <3>2, <3>3 DEF BreakerTypes
  <2>3. CASE ~(failures[p] + 1 >= TripAt)
    BY <1>1, <1>4, <2>1, <2>3 DEF RecordFailure, BreakerTypes
  <2>4. QED
    BY <2>2, <2>3
<1>5. QED
  BY <1>2, <1>3, <1>4

\* A failed call ends the lookup or goes on to the next provider.
LEMMA GiveUpTypeOK ==
  ASSUME TypeOK, NEW f \in Flights, NEW err \in Outcomes, GiveUp(f, err),
         UNCHANGED <<tokens, patient, begun, ctx, asked, quoted>>,
         attempt' \in [Flights -> 1 .. Attempts]
  PROVE  TypeOK'
<1>1. "pick" \in Steps /\ "idle" \in Steps
  BY DEF Steps
<1>2. CASE at[f] <= N
  <2>1. RecordFailure(at[f]) /\ at' = [at EXCEPT ![f] = @ + 1] /\ Goto(f, "pick") /\ UNCHANGED outcome
    BY <1>2, ProvidersAssumption DEF GiveUp, TypeOK
  <2>2. BreakerTypes'
    BY <1>2, <2>1, StepsTyped, BreakerTyped
  <2>3. at' \in [Flights -> 1 .. N + 1] /\ pc' \in [Flights -> Steps]
    BY <1>1, <1>2, <2>1, StepsTyped DEF Goto
  <2>4. QED
    BY <2>1, <2>2, <2>3 DEF TypeOK, BreakerTypes
<1>3. CASE at[f] > N
  <2>1. outcome' = [outcome EXCEPT ![f] = err] /\ Goto(f, "idle") /\ UNCHANGED <<breaker, at>>
    BY <1>3, ProvidersAssumption DEF GiveUp, TypeOK
  <2>2. outcome' \in [Flights -> Outcomes \cup {None}] /\ pc' \in [Flights -> Steps]
    BY <1>1, <2>1, StepsTyped DEF Goto
  <2>3. QED
    BY <2>1, <2>2 DEF TypeOK, breaker
<1>4. QED
  BY <1>2, <1>3 DEF GiveUp

\* One step of a lookup keeps the types.
LEMMA FlightStepTypeOK ==
  ASSUME TypeOK, NEW f \in Flights, FlightStep(f)
  PROVE  TypeOK'
<1>0. /\ \A step \in {"idle", "attempt", "throttle", "call", "backoff", "scan", "pricing"} : step \in Steps
      /\ {"taken", "quoted", "standard", "providerError", "contextError", "panic"} = Outcomes
      /\ 1 \in Providers
      /\ Attempts \in Nat \ {0} /\ Capacity \in Nat \ {0}
  BY LimitsAssumption, ProvidersAssumption DEF Steps, Outcomes, Providers
<1>1. CASE Skip(f)
  <2>1. at' \in [Flights -> 1 .. N + 1]
    BY <1>1, StepsTyped DEF Skip
  <2>2. QED
    BY <1>1, <2>1 DEF Skip, TypeOK, breaker
<1>2. CASE Choose(f)
  <2>1. BreakerTypes'
    BY <1>2, StepsTyped, BreakerTyped DEF Choose
  <2>2. pc' \in [Flights -> Steps]
    BY <1>0, <1>2, StepsTyped DEF Choose, Goto
  <2>3. attempt' \in [Flights -> 1 .. Attempts]
    BY <1>0, <1>2 DEF Choose, TypeOK
  <2>4. QED
    BY <1>2, <2>1, <2>2, <2>3 DEF Choose, TypeOK, BreakerTypes
<1>3. CASE BestEffort(f)
  <2>1. BreakerTypes'
    BY <1>0, <1>3, BreakerTyped DEF BestEffort
  <2>2. pc' \in [Flights -> Steps]
    BY <1>0, <1>3, StepsTyped DEF BestEffort, Goto
  <2>3. attempt' \in [Flights -> 1 .. Attempts]
    BY <1>0, <1>3 DEF BestEffort, TypeOK
  <2>4. QED
    BY <1>3, <2>1, <2>2, <2>3 DEF BestEffort, TypeOK, BreakerTypes
<1>4. CASE CtxStops(f)
  BY <1>0, <1>4, GiveUpTypeOK DEF CtxStops, TypeOK
<1>5. CASE CtxPasses(f)
  <2>1. pc' \in [Flights -> Steps]
    BY <1>0, <1>5, StepsTyped DEF CtxPasses, Goto
  <2>2. QED
    BY <1>5, <2>1 DEF CtxPasses, TypeOK, breaker
<1>6. CASE TakeToken(f)
  <2>1. pc' \in [Flights -> Steps]
    BY <1>0, <1>6, StepsTyped DEF TakeToken, Goto
  <2>2. tokens' \in [Providers -> 0 .. Capacity]
    BY <1>0, <1>6, StepsTyped DEF TakeToken, TypeOK
  <2>3. QED
    BY <1>6, <2>1, <2>2 DEF TakeToken, TypeOK, breaker
<1>7. CASE CallFails(f)
  <2>1. pc' \in [Flights -> Steps]
    BY <1>0, <1>7, StepsTyped DEF CallFails, Goto
  <2>2. QED
    BY <1>7, <2>1 DEF CallFails, TypeOK, breaker
<1>8. CASE CallSucceeds(f)
  <2>1. BreakerTypes'
    BY <1>8, StepsTyped, BreakerTyped DEF CallSucceeds
  <2>2. /\ pc' \in [Flights -> Steps]
        /\ at' \in [Flights -> 1 .. N + 1]
        /\ outcome' \in [Flights -> Outcomes \cup {None}]
    <3>1. CASE outcome' = [outcome EXCEPT ![f] = "taken"] /\ Goto(f, "idle") /\ UNCHANGED at
      BY <1>0, <3>1, StepsTyped DEF Goto, TypeOK
    <3>2. CASE at' = [at EXCEPT ![f] = 1] /\ Goto(f, "scan") /\ UNCHANGED outcome
      BY <1>0, <3>2, StepsTyped DEF Goto, TypeOK
    <3>3. QED
      BY <1>8, <3>1, <3>2 DEF CallSucceeds
  <2>3. QED
    BY <1>8, <2>1, <2>2 DEF CallSucceeds, TypeOK, BreakerTypes
<1>9. CASE BackedOff(f)
  <2>1. CASE attempt[f] < Attempts /\ attempt' = [attempt EXCEPT ![f] = @ + 1]
             /\ Goto(f, "attempt") /\ UNCHANGED <<breaker, at, outcome>>
    <3>1. attempt' \in [Flights -> 1 .. Attempts]
      BY <1>0, <2>1 DEF TypeOK
    <3>2. pc' \in [Flights -> Steps]
      BY <1>0, <2>1, StepsTyped DEF Goto
    <3>3. QED
      BY <1>9, <2>1, <3>1, <3>2 DEF BackedOff, TypeOK, breaker
  <2>2. CASE GiveUp(f, "providerError") /\ UNCHANGED attempt
    BY <1>0, <1>9, <2>2, GiveUpTypeOK DEF BackedOff, TypeOK
  <2>3. QED
    BY <1>9, <2>1, <2>2 DEF BackedOff
<1>10. CASE ScanSkip(f)
  <2>1. at' \in [Flights -> 1 .. N + 1]
    BY <1>10, StepsTyped DEF ScanSkip
  <2>2. QED
    BY <1>10, <2>1 DEF ScanSkip, TypeOK, breaker
<1>11. CASE ScanAsk(f)
  <2>1. BreakerTypes'
    BY <1>11, StepsTyped, BreakerTyped DEF ScanAsk
  <2>2. at' \in [Flights -> 1 .. N + 1]
    BY <1>11, StepsTyped DEF ScanAsk
  <2>3. asked' \in [Flights -> SUBSET Providers]
    BY <1>11, StepsTyped DEF ScanAsk, TypeOK
  <2>4. QED
    BY <1>11, <2>1, <2>2, <2>3 DEF ScanAsk, TypeOK, BreakerTypes
<1>12. CASE ScanDone(f)
  <2>1. pc' \in [Flights -> Steps]
    BY <1>0, <1>12, StepsTyped DEF ScanDone, Goto
  <2>2. QED
    BY <1>12, <2>1 DEF ScanDone, TypeOK, breaker
<1>13. CASE Price(f)
  <2>1. pc' \in [Flights -> Steps]
    BY <1>0, <1>13, StepsTyped DEF Price, Goto
  <2>2. outcome' \in [Flights -> Outcomes \cup {None}]
    BY <1>0, <1>13, StepsTyped DEF Price
  <2>3. quoted' \in [Flights -> BOOLEAN]
    BY <1>13 DEF Price, TypeOK
  <2>4. QED
    BY <1>13, <2>1, <2>2, <2>3 DEF Price, TypeOK, breaker
<1>14. CASE CallPanics(f)
  <2>1. pc' \in [Flights -> Steps]
    BY <1>0, <1>14, StepsTyped DEF CallPanics, Goto
  <2>2. outcome' \in [Flights -> Outcomes \cup {None}]
    BY <1>0, <1>14, StepsTyped DEF CallPanics
  <2>3. QED
    BY <1>14, <2>1, <2>2 DEF CallPanics, TypeOK, breaker
<1>15. QED
  BY <1>1, <1>2, <1>3, <1>4, <1>5, <1>6, <1>7, <1>8, <1>9, <1>10, <1>11, <1>12, <1>13, <1>14
     DEF FlightStep

\* Every step keeps the types.
LEMMA NextTypeOK == TypeOK /\ [Next]_vars => TypeOK'
<1> SUFFICES ASSUME TypeOK, [Next]_vars PROVE TypeOK'
  OBVIOUS
<1>1. CASE UNCHANGED vars
  BY <1>1 DEF TypeOK, vars
<1>2. ASSUME NEW f \in Flights, Begin(f)
      PROVE  TypeOK'
  <2>1. pc' \in [Flights -> Steps]
    BY <1>2, StepsTyped DEF Begin, Goto, Steps
  <2>2. at' \in [Flights -> 1 .. N + 1]
    BY <1>2, StepsTyped DEF Begin
  <2>3. outcome' \in [Flights -> Outcomes \cup {None}] /\ ctx' \in [Flights -> {"live", "done"}]
    BY <1>2 DEF Begin, TypeOK
  <2>4. QED
    BY <1>2, <2>1, <2>2, <2>3 DEF Begin, TypeOK, breaker
<1>3. ASSUME NEW f \in Flights, ExpireCtx(f)
      PROVE  TypeOK'
  BY <1>3 DEF TypeOK, ExpireCtx, breaker
<1>4. ASSUME NEW f \in Flights, PriceStep(f)
      PROVE  TypeOK'
  <2>1. PICK p \in Providers : PriceQuoted(f, p) \/ PriceFails(f, p)
    BY <1>4 DEF PriceStep
  <2>2. asked' \in [Flights -> SUBSET Providers] /\ quoted' \in [Flights -> BOOLEAN]
    BY <2>1 DEF PriceQuoted, PriceFails, TypeOK
  <2>3. QED
    BY <2>1, <2>2 DEF PriceQuoted, PriceFails, TypeOK, breaker
<1>5. ASSUME NEW p \in Providers, CoolDown(p)
      PROVE  TypeOK'
  <2>1. left' \in [Providers -> 0 .. Cooldown]
    BY <1>5, LimitsAssumption DEF CoolDown, TypeOK
  <2>2. QED
    BY <1>5, <2>1 DEF TypeOK, CoolDown
<1>6. ASSUME NEW p \in Providers, Refill(p)
      PROVE  TypeOK'
  <2>1. tokens' \in [Providers -> 0 .. Capacity]
    BY <1>6, LimitsAssumption DEF Refill, TypeOK
  <2>2. QED
    BY <1>6, <2>1 DEF TypeOK, Refill, breaker
<1>7. QED
  BY <1>1, <1>2, <1>3, <1>4, <1>5, <1>6, FlightStepTypeOK DEF Next, Quiescent

\* -------------------------------------------------------- the two halves agree --

LEMMA BreakerAgrees ==
  ASSUME TypeOK, BreakerCountsFailures, NEW p \in Providers,
         CloseIfExpired(p) \/ RecordFailure(p) \/ RecordSuccess(p)
  PROVE  BreakerCountsFailures'
<1>1. /\ failures \in [Providers -> Nat]
      /\ tripped \in [Providers -> BOOLEAN]
      /\ TripAt \in Nat \ {0}
  BY LimitsAssumption DEF TypeOK
<1> SUFFICES ASSUME NEW q \in Providers
             PROVE  tripped'[q] <=> failures'[q] >= TripAt
  BY DEF BreakerCountsFailures
<1>2. tripped[q] <=> failures[q] >= TripAt
  BY DEF BreakerCountsFailures
<1>3. CASE CloseIfExpired(p)
  BY <1>1, <1>2, <1>3 DEF CloseIfExpired
<1>4. CASE RecordSuccess(p)
  BY <1>1, <1>2, <1>4 DEF RecordSuccess
<1>5. CASE RecordFailure(p)
  <2>1. failures' = [failures EXCEPT ![p] = @ + 1]
    BY <1>5 DEF RecordFailure
  <2>2. CASE failures[p] + 1 >= TripAt
    <3>1. tripped' = [tripped EXCEPT ![p] = TRUE]
      BY <1>5, <2>2 DEF RecordFailure
    <3>2. QED
      BY <1>1, <1>2, <2>1, <2>2, <3>1
  <2>3. CASE ~(failures[p] + 1 >= TripAt)
    <3>1. tripped' = tripped
      BY <1>5, <2>3 DEF RecordFailure
    <3>2. QED
      BY <1>1, <1>2, <2>1, <2>3, <3>1
  <2>4. QED
    BY <2>2, <2>3
<1>6. QED
  BY <1>3, <1>4, <1>5

\* What a lookup's step does to the breakers: nothing, a reset of one of them,
\* or a failure of the provider in turn.
Resets(p) == (~IsCircuitBroken(p) /\ CloseIfExpired(p)) \/ RecordSuccess(p)

FailureRecorded(f) ==
  /\ at[f] <= N
  /\ pc[f] \in {"attempt", "backoff"}
  /\ RecordFailure(at[f])
  /\ at' = [at EXCEPT ![f] = @ + 1]
  /\ Goto(f, "pick")

LEMMA FlightStepBreaker ==
  ASSUME TypeOK, NEW f \in Flights, FlightStep(f)
  PROVE  \/ UNCHANGED breaker
         \/ \E p \in Providers : Resets(p)
         \/ FailureRecorded(f)
<1>1. 1 \in Providers
  BY ProvidersAssumption DEF Providers
<1>2. CASE \/ Skip(f) \/ CtxPasses(f) \/ TakeToken(f) \/ CallFails(f) \/ CallPanics(f)
           \/ ScanSkip(f) \/ ScanDone(f) \/ Price(f)
  BY <1>2 DEF Skip, CtxPasses, TakeToken, CallFails, CallPanics, ScanSkip, ScanDone, Price
<1>3. CASE Choose(f) \/ ScanAsk(f)
  BY <1>3, StepsTyped DEF Choose, ScanAsk, Resets
<1>4. CASE BestEffort(f)
  BY <1>1, <1>4 DEF BestEffort, Resets
<1>5. CASE CallSucceeds(f)
  BY <1>5, StepsTyped DEF CallSucceeds, Resets
<1>6. CASE CtxStops(f)
  BY <1>6 DEF CtxStops, GiveUp, FailureRecorded
<1>7. CASE BackedOff(f)
  BY <1>7 DEF BackedOff, GiveUp, FailureRecorded
<1>8. QED
  BY <1>2, <1>3, <1>4, <1>5, <1>6, <1>7 DEF FlightStep

\* The other steps leave the failures and the switches alone.
LEMMA OtherStepsBreaker ==
  ASSUME NEW f, NEW p, Begin(f) \/ ExpireCtx(f) \/ PriceStep(f) \/ CoolDown(p) \/ Refill(p)
  PROVE  UNCHANGED <<failures, tripped>>
BY DEF Begin, ExpireCtx, PriceStep, PriceQuoted, PriceFails, CoolDown, Refill, breaker

LEMMA NextBreakerAgrees ==
  TypeOK /\ BreakerCountsFailures /\ [Next]_vars => BreakerCountsFailures'
<1> SUFFICES ASSUME TypeOK, BreakerCountsFailures, [Next]_vars PROVE BreakerCountsFailures'
  OBVIOUS
<1>1. CASE UNCHANGED <<failures, tripped>>
  BY <1>1 DEF BreakerCountsFailures
<1>2. ASSUME NEW f \in Flights, FlightStep(f)
      PROVE  BreakerCountsFailures'
  <2>1. CASE FailureRecorded(f)
    BY <2>1, StepsTyped, BreakerAgrees DEF FailureRecorded
  <2>2. CASE \E p \in Providers : Resets(p)
    BY <2>2, BreakerAgrees DEF Resets
  <2>3. QED
    BY <1>1, <1>2, <2>1, <2>2, FlightStepBreaker DEF breaker
<1>3. QED
  BY <1>1, <1>2, OtherStepsBreaker DEF Next, Quiescent, vars

\* ------------------------------------------------- who starts talking to whom --

\* A lookup is let through to a provider by Choose alone.
LEMMA NewInFlight ==
  ASSUME TypeOK, NEW f \in Flights, FlightStep(f),
         NEW g \in Flights, NEW p \in Providers, InFlight(g, p)', ~InFlight(g, p)
  PROVE  Choose(f) /\ g = f /\ p = at[f]
<1>1. /\ at \in [Flights -> 1 .. N + 1]
      /\ pc \in [Flights -> Steps]
      /\ p \in 1 .. N
      /\ N \in Nat \ {0}
  BY ProvidersAssumption DEF TypeOK, Providers
<1>2. /\ at'[g] = p /\ pc'[g] \in {"attempt", "throttle", "call", "backoff"}
      /\ ~(at[g] = p /\ pc[g] \in {"attempt", "throttle", "call", "backoff"})
  BY DEF InFlight
<1>3. CASE Skip(f) \/ ScanSkip(f) \/ ScanAsk(f)
  BY <1>1, <1>2, <1>3 DEF Skip, ScanSkip, ScanAsk
<1>4. CASE Choose(f)
  BY <1>1, <1>2, <1>4 DEF Choose, Goto
<1>5. CASE BestEffort(f)
  BY <1>1, <1>2, <1>5 DEF BestEffort, Goto
<1>6. CASE CtxStops(f)
  BY <1>1, <1>2, <1>6 DEF CtxStops, GiveUp, Goto, breaker
<1>7. CASE CtxPasses(f) \/ TakeToken(f) \/ CallFails(f)
  BY <1>1, <1>2, <1>7 DEF CtxPasses, TakeToken, CallFails, Goto
<1>8. CASE CallSucceeds(f)
  BY <1>1, <1>2, <1>8 DEF CallSucceeds, Goto
<1>9. CASE BackedOff(f)
  BY <1>1, <1>2, <1>9 DEF BackedOff, GiveUp, Goto, breaker
<1>10. CASE CallPanics(f) \/ ScanDone(f) \/ Price(f)
  BY <1>1, <1>2, <1>10 DEF CallPanics, ScanDone, Price, Goto
<1>11. QED
  BY <1>3, <1>4, <1>5, <1>6, <1>7, <1>8, <1>9, <1>10 DEF FlightStep

\* No other step lets a lookup through.
LEMMA OtherStepsInFlight ==
  ASSUME TypeOK, NEW f \in Flights, NEW q \in Providers,
         Begin(f) \/ ExpireCtx(f) \/ PriceStep(f) \/ CoolDown(q) \/ Refill(q),
         NEW g \in Flights, NEW p \in Providers, InFlight(g, p)'
  PROVE  InFlight(g, p)
<1>1. pc \in [Flights -> Steps] /\ at \in [Flights -> 1 .. N + 1]
  BY DEF TypeOK
<1>2. CASE Begin(f)
  BY <1>1, <1>2 DEF Begin, InFlight, Goto
<1>3. CASE ~Begin(f)
  <2>1. UNCHANGED <<at, pc>>
    BY <1>3 DEF ExpireCtx, PriceStep, PriceQuoted, PriceFails, CoolDown, Refill
  <2>2. QED
    BY <2>1 DEF InFlight
<1>4. QED
  BY <1>2, <1>3

\* --------------------------------------------------------------- late failures --

\* The bound of LateFailuresBounded, for one provider.
Bounded(p) == failures[p] + Cardinality(Aloft(p)) <= TripAt - 1 + Cardinality(Flights)

\* It survives a step after which fewer lookups, if any, can still fail.
LEMMA BoundedKept ==
  ASSUME TypeOK, TypeOK', NEW p \in Providers, Bounded(p),
         Aloft(p)' \subseteq Aloft(p), failures'[p] <= failures[p]
  PROVE  Bounded(p)'
<1>1. failures[p] \in Nat /\ failures'[p] \in Nat /\ TripAt \in Nat
  BY LimitsAssumption DEF TypeOK
<1>2. Cardinality(Aloft(p)') <= Cardinality(Aloft(p))
  BY AloftFacts, FS_Subset
<1>3. failures[p] + Cardinality(Aloft(p)) <= TripAt - 1 + Cardinality(Flights)
  BY DEF Bounded
<1>4. failures'[p] + Cardinality(Aloft(p)') <= TripAt - 1 + Cardinality(Flights)
  BY <1>1, <1>2, <1>3, AloftFacts, AloftFactsNext
<1>5. QED
  BY <1>4 DEF Bounded

\* It holds of a provider whose breaker has not tripped.
LEMMA BoundedFresh ==
  ASSUME TypeOK', NEW p \in Providers, failures'[p] <= TripAt - 1
  PROVE  Bounded(p)'
<1>1. failures'[p] \in Nat /\ TripAt \in Nat
  BY LimitsAssumption DEF TypeOK
<1>2. failures'[p] + Cardinality(Aloft(p)') <= TripAt - 1 + Cardinality(Flights)
  BY <1>1, AloftFactsNext
<1>3. QED
  BY <1>2 DEF Bounded

\* A recorded failure is paid for by the lookup that has failed.
LEMMA BoundedFailure ==
  ASSUME TypeOK, TypeOK', NEW f \in Flights, FailureRecorded(f), NEW p \in Providers, Bounded(p)
  PROVE  Bounded(p)'
<1>1. /\ failures \in [Providers -> Nat] /\ TripAt \in Nat
      /\ at \in [Flights -> 1 .. N + 1] /\ pc \in [Flights -> Steps]
      /\ N \in Nat
  BY LimitsAssumption, ProvidersAssumption DEF TypeOK
<1>2. at[f] \in Providers /\ at[f] <= N
  BY StepsTyped DEF FailureRecorded
<1>3. failures' = [failures EXCEPT ![at[f]] = @ + 1]
  BY DEF FailureRecorded, RecordFailure
<1>4. Aloft(p)' \subseteq Aloft(p) \ {f}
  BY <1>1 DEF Aloft, InFlight, FailureRecorded, Goto
<1>5. CASE p = at[f]
  <2>1. f \in Aloft(p)
    BY <1>5 DEF Aloft, InFlight, FailureRecorded
  <2>2. IsFiniteSet(Aloft(p) \ {f}) /\ Cardinality(Aloft(p) \ {f}) = Cardinality(Aloft(p)) - 1
    BY <2>1, AloftFacts, FS_RemoveElement
  <2>3. Cardinality(Aloft(p)') <= Cardinality(Aloft(p)) - 1
    BY <1>4, <2>2, FS_Subset
  <2>4. failures'[p] = failures[p] + 1 /\ failures[p] \in Nat
    BY <1>1, <1>3, <1>5
  <2>5. failures[p] + Cardinality(Aloft(p)) <= TripAt - 1 + Cardinality(Flights)
    BY DEF Bounded
  <2>6. failures'[p] + Cardinality(Aloft(p)') <= TripAt - 1 + Cardinality(Flights)
    BY <1>1, <2>3, <2>4, <2>5, AloftFacts, AloftFactsNext
  <2>7. QED
    BY <2>6 DEF Bounded
<1>6. CASE p # at[f]
  <2>1. failures'[p] <= failures[p]
    BY <1>1, <1>2, <1>3, <1>6
  <2>2. QED
    BY <1>4, <2>1, BoundedKept
<1>7. QED
  BY <1>5, <1>6

LEMMA FlightStepBounded ==
  ASSUME TypeOK, TypeOK', BreakerCountsFailures', NEW f \in Flights, FlightStep(f),
         NEW p \in Providers, Bounded(p)
  PROVE  Bounded(p)'
<1>1. failures \in [Providers -> Nat] /\ failures' \in [Providers -> Nat] /\ TripAt \in Nat \ {0}
  BY LimitsAssumption DEF TypeOK
<1>2. CASE FailureRecorded(f)
  BY <1>2, BoundedFailure
<1>3. CASE Choose(f) /\ p = at[f]
  <2>1. tripped'[p] = FALSE
    BY <1>3 DEF Choose, CloseIfExpired, TypeOK
  <2>2. failures'[p] <= TripAt - 1
    BY <1>1, <2>1 DEF BreakerCountsFailures
  <2>3. QED
    BY <2>2, BoundedFresh
<1>4. CASE ~FailureRecorded(f) /\ ~(Choose(f) /\ p = at[f])
  <2>1. Aloft(p)' \subseteq Aloft(p)
    BY <1>4, NewInFlight DEF Aloft
  <2>2. failures'[p] <= failures[p]
    <3>1. CASE UNCHANGED breaker
      BY <1>1, <3>1 DEF breaker
    <3>2. CASE \E q \in Providers : Resets(q)
      BY <1>1, <3>2 DEF Resets, CloseIfExpired, RecordSuccess
    <3>3. QED
      BY <1>4, <3>1, <3>2, FlightStepBreaker
  <2>3. QED
    BY <2>1, <2>2, BoundedKept
<1>5. QED
  BY <1>2, <1>3, <1>4

LEMMA NextLateFailures ==
  ASSUME TypeOK, TypeOK', BreakerCountsFailures', LateFailuresBounded, [Next]_vars
  PROVE  LateFailuresBounded'
<1> SUFFICES ASSUME NEW p \in Providers PROVE Bounded(p)'
  BY DEF LateFailuresBounded, Bounded, Aloft
<1>1. Bounded(p)
  BY DEF LateFailuresBounded, Bounded, Aloft
<1>2. failures[p] \in Nat
  BY DEF TypeOK
<1>3. ASSUME NEW f \in Flights, FlightStep(f)
      PROVE  Bounded(p)'
  BY <1>1, <1>3, FlightStepBounded
<1>4. ASSUME NEW f \in Flights, NEW q \in Providers,
             Begin(f) \/ ExpireCtx(f) \/ PriceStep(f) \/ CoolDown(q) \/ Refill(q)
      PROVE  Bounded(p)'
  <2>1. Aloft(p)' \subseteq Aloft(p)
    BY <1>4, OtherStepsInFlight DEF Aloft
  <2>2. failures'[p] <= failures[p]
    BY <1>2, <1>4, OtherStepsBreaker
  <2>3. QED
    BY <1>1, <2>1, <2>2, BoundedKept
<1>5. CASE UNCHANGED vars
  BY <1>1, <1>5 DEF vars, Bounded, Aloft, InFlight
<1>6. ASSUME NEW q \in Providers, CoolDown(q) \/ Refill(q)
      PROVE  Bounded(p)'
  <2>1. Aloft(p)' \subseteq Aloft(p) /\ failures' = failures
    BY <1>6 DEF CoolDown, Refill, breaker, Aloft, InFlight
  <2>2. QED
    BY <1>1, <1>2, <2>1, BoundedKept
<1>7. QED
  BY <1>3, <1>4, <1>5, <1>6 DEF Next, Quiescent

\* ------------------------------------------------------------- healthy providers --

\* In a patient behaviour a failure is never a healthy provider's, and the
\* best-effort call is never reached if there is one.
LEMMA FailuresAreOthers ==
  ASSUME TypeOK, PatientStaysLive, HealthyInReach, patient, NEW f \in Flights,
         pc[f] \in {"attempt", "backoff"}, pc[f] = "attempt" => ctx[f] = "done"
  PROVE  \A p \in Healthy : at[f] < p
<1> SUFFICES ASSUME NEW p \in Healthy PROVE at[f] < p
  OBVIOUS
<1>1. pc[f] = "backoff"
  BY DEF PatientStaysLive
<1>2. at[f] <= p /\ at[f] # p
  BY <1>1 DEF HealthyInReach
<1>3. at[f] \in 1 .. N + 1 /\ p \in 1 .. N /\ N \in Nat
  BY ProvidersAssumption DEF TypeOK
<1>4. QED
  BY <1>2, <1>3

\* What a step of a lookup that gives up on a provider does.
LEMMA GiveUpCases ==
  ASSUME TypeOK, NEW f \in Flights, CtxStops(f) \/ BackedOff(f)
  PROVE  \/ FailureRecorded(f) /\ UNCHANGED outcome
         \/ /\ pc[f] = "backoff" /\ Goto(f, "attempt")
            /\ UNCHANGED <<breaker, at, outcome>>
         \/ at[f] > N /\ Goto(f, "idle") /\ UNCHANGED <<breaker, at>>
BY DEF CtxStops, BackedOff, GiveUp, FailureRecorded

LEMMA GivesUpAt ==
  ASSUME NEW f \in Flights, CtxStops(f) \/ BackedOff(f)
  PROVE  /\ pc[f] \in {"attempt", "backoff"}
         /\ pc[f] = "attempt" => ctx[f] = "done"
         /\ UNCHANGED <<patient, ctx>>
BY DEF CtxStops, BackedOff

\* Nothing expires in a patient behaviour.
LEMMA NextPatientStaysLive ==
  TypeOK /\ PatientStaysLive /\ [Next]_vars => PatientStaysLive' /\ patient' = patient
<1> SUFFICES ASSUME TypeOK, PatientStaysLive, [Next]_vars
             PROVE  PatientStaysLive' /\ patient' = patient
  OBVIOUS
<1>1. CASE UNCHANGED <<patient, ctx>>
  BY <1>1 DEF PatientStaysLive
<1>2. ASSUME NEW f \in Flights, Begin(f)
      PROVE  PatientStaysLive' /\ patient' = patient
  BY <1>2 DEF Begin, PatientStaysLive, TypeOK
<1>3. ASSUME NEW f \in Flights, ExpireCtx(f)
      PROVE  PatientStaysLive' /\ patient' = patient
  BY <1>3 DEF ExpireCtx, PatientStaysLive
<1>4. ASSUME NEW f \in Flights, FlightStep(f)
      PROVE  UNCHANGED <<patient, ctx>>
  BY <1>4 DEF FlightStep, Skip, Choose, BestEffort, CtxStops, CtxPasses, TakeToken, CallFails,
              CallPanics, CallSucceeds, BackedOff, ScanSkip, ScanAsk, ScanDone, Price
<1>5. ASSUME NEW f \in Flights, PriceStep(f)
      PROVE  UNCHANGED <<patient, ctx>>
  BY <1>5 DEF PriceStep, PriceQuoted, PriceFails
<1>6. ASSUME NEW q \in Providers, CoolDown(q) \/ Refill(q)
      PROVE  UNCHANGED <<patient, ctx>>
  BY <1>6 DEF CoolDown, Refill
<1>7. QED
  BY <1>1, <1>2, <1>3, <1>4, <1>5, <1>6 DEF Next, Quiescent, vars

\* A healthy provider keeps a clean record.
LEMMA NextHealthyUnharmed ==
  ASSUME TypeOK, PatientStaysLive, HealthyInReach, HealthyUnharmed, [Next]_vars
  PROVE  HealthyUnharmed'
<1> SUFFICES ASSUME patient, NEW h \in Healthy PROVE failures'[h] = 0
  BY NextPatientStaysLive DEF HealthyUnharmed
<1>1. /\ failures[h] = 0 /\ h \in Providers
      /\ failures \in [Providers -> Nat]
  BY ProvidersAssumption DEF HealthyUnharmed, TypeOK, Providers
<1>2. CASE UNCHANGED <<failures, tripped>>
  BY <1>1, <1>2
<1>3. ASSUME NEW f \in Flights, FlightStep(f)
      PROVE  failures'[h] = 0
  <2>1. CASE FailureRecorded(f)
    <3>1. CtxStops(f) \/ BackedOff(f)
      <4>1. failures'[at[f]] # failures[at[f]] /\ failures'[at[f]] # 0
        BY <1>1, <2>1, StepsTyped DEF FailureRecorded, RecordFailure
      <4>2. \/ Skip(f) \/ CtxPasses(f) \/ TakeToken(f) \/ CallFails(f) \/ CallPanics(f)
            \/ ScanSkip(f) \/ ScanDone(f) \/ Price(f)
            => failures' = failures
        BY DEF Skip, CtxPasses, TakeToken, CallFails, CallPanics, ScanSkip, ScanDone, Price, breaker
      <4>3. pc[f] \in {"attempt", "backoff"}
        BY <2>1 DEF FailureRecorded
      <4>4. ~Choose(f) /\ ~BestEffort(f) /\ ~CallSucceeds(f) /\ ~ScanAsk(f)
        BY <4>3 DEF Choose, BestEffort, CallSucceeds, ScanAsk
      <4>5. QED
        BY <1>3, <4>1, <4>2, <4>4 DEF FlightStep
    <3>2. at[f] < h
      BY <3>1, GivesUpAt, FailuresAreOthers
    <3>3. at[f] # h
      BY <3>2, ProvidersAssumption DEF TypeOK
    <3>4. QED
      BY <1>1, <2>1, <3>3 DEF FailureRecorded, RecordFailure
  <2>2. CASE \E p \in Providers : Resets(p)
    BY <1>1, <2>2 DEF Resets, CloseIfExpired, RecordSuccess
  <2>3. QED
    BY <1>2, <1>3, <2>1, <2>2, FlightStepBreaker DEF breaker
<1>4. QED
  BY <1>2, <1>3, OtherStepsBreaker DEF Next, Quiescent, vars

\* No lookup gets past a healthy provider.
Reach(f, p) ==
  /\ pc[f] \in {"pick", "attempt", "throttle", "call", "backoff"} => at[f] <= p
  /\ pc[f] = "backoff" => at[f] # p

LEMMA FlightStepReach ==
  ASSUME TypeOK, BreakerCountsFailures, PatientStaysLive, HealthyUnharmed, HealthyInReach, patient,
         NEW f \in Flights, FlightStep(f), NEW h \in Healthy
  PROVE  Reach(f, h)'
<1>1. /\ pc \in [Flights -> Steps] /\ at \in [Flights -> 1 .. N + 1]
      /\ h \in 1 .. N /\ N \in Nat \ {0}
      /\ Reach(f, h) /\ ctx[f] = "live"
  BY ProvidersAssumption DEF TypeOK, HealthyInReach, Reach, PatientStaysLive
<1>2. CASE Skip(f)
  <2>1. ~tripped[h]
    BY <1>1, LimitsAssumption DEF BreakerCountsFailures, HealthyUnharmed, Providers
  <2>2. at[f] # h
    BY <1>2, <2>1 DEF Skip, IsCircuitBroken
  <2>3. QED
    BY <1>1, <1>2, <2>2 DEF Skip, Reach
<1>3. CASE Choose(f) \/ CtxPasses(f) \/ TakeToken(f)
  BY <1>1, <1>3 DEF Choose, CtxPasses, TakeToken, Goto, Reach
<1>4. CASE BestEffort(f)
  BY <1>1, <1>4 DEF BestEffort, Reach
<1>5. CASE CallFails(f)
  BY <1>1, <1>5 DEF CallFails, Turn, Goto, Reach
<1>6. CASE CallPanics(f) \/ CallSucceeds(f) \/ ScanDone(f) \/ Price(f)
  BY <1>1, <1>6 DEF CallPanics, CallSucceeds, ScanDone, Price, Goto, Reach
<1>7. CASE ScanSkip(f) \/ ScanAsk(f)
  BY <1>1, <1>7 DEF ScanSkip, ScanAsk, Reach
<1>8. CASE CtxStops(f) \/ BackedOff(f)
  <2>1. at[f] < h
    BY <1>8, GivesUpAt, FailuresAreOthers
  <2>2. CASE FailureRecorded(f)
    BY <1>1, <2>1, <2>2 DEF FailureRecorded, Goto, Reach
  <2>3. CASE pc[f] = "backoff" /\ Goto(f, "attempt") /\ UNCHANGED <<breaker, at, outcome>>
    BY <1>1, <2>1, <2>3 DEF Goto, Reach
  <2>4. CASE at[f] > N
    BY <1>1, <2>1, <2>4
  <2>5. QED
    BY <1>8, <2>2, <2>3, <2>4, GiveUpCases
<1>9. QED
  BY <1>2, <1>3, <1>4, <1>5, <1>6, <1>7, <1>8 DEF FlightStep

\* A step of one lookup leaves the place of the others alone.
LEMMA FlightStepsApart ==
  ASSUME TypeOK, NEW f \in Flights, FlightStep(f) \/ Begin(f), NEW g \in Flights, g # f
  PROVE  pc'[g] = pc[g] /\ at'[g] = at[g] /\ outcome'[g] = outcome[g]
<1>1. /\ pc \in [Flights -> Steps] /\ at \in [Flights -> 1 .. N + 1]
      /\ outcome \in [Flights -> Outcomes \cup {None}]
  BY DEF TypeOK
<1>2. CASE Begin(f) \/ Skip(f) \/ Choose(f) \/ BestEffort(f) \/ CtxPasses(f) \/ TakeToken(f) \/ CallFails(f)
  BY <1>1, <1>2 DEF Begin, Skip, Choose, BestEffort, CtxPasses, TakeToken, CallFails, Goto
<1>3. CASE CtxStops(f) \/ BackedOff(f)
  BY <1>1, <1>3 DEF CtxStops, BackedOff, GiveUp, Goto, breaker
<1>4. CASE CallPanics(f) \/ CallSucceeds(f) \/ ScanSkip(f) \/ ScanAsk(f) \/ ScanDone(f) \/ Price(f)
  BY <1>1, <1>4 DEF CallPanics, CallSucceeds, ScanSkip, ScanAsk, ScanDone, Price, Goto
<1>5. QED
  BY <1>2, <1>3, <1>4 DEF FlightStep

\* The steps that are not a lookup's own leave its place and outcome alone.
LEMMA QuietSteps ==
  ASSUME NEW f, NEW p, ExpireCtx(f) \/ PriceStep(f) \/ CoolDown(p) \/ Refill(p)
  PROVE  UNCHANGED <<pc, at, outcome>>
BY DEF ExpireCtx, PriceStep, PriceQuoted, PriceFails, CoolDown, Refill

LEMMA NextHealthyInReach ==
  ASSUME TypeOK, BreakerCountsFailures, PatientStaysLive, HealthyUnharmed, HealthyInReach, [Next]_vars
  PROVE  HealthyInReach'
<1> SUFFICES ASSUME patient, NEW g \in Flights, NEW h \in Healthy PROVE Reach(g, h)'
  BY NextPatientStaysLive DEF HealthyInReach, Reach
<1>1. Reach(g, h)
  BY DEF HealthyInReach, Reach
<1>2. CASE UNCHANGED <<pc, at, outcome>>
  BY <1>1, <1>2 DEF Reach
<1>3. ASSUME NEW f \in Flights, FlightStep(f)
      PROVE  Reach(g, h)'
  BY <1>1, <1>3, FlightStepReach, FlightStepsApart DEF Reach
<1>4. ASSUME NEW f \in Flights, Begin(f)
      PROVE  Reach(g, h)'
  <2>1. CASE g = f
    <3>1. at'[f] = 1 /\ pc'[f] = "pick"
      BY <1>4 DEF Begin, Goto, TypeOK
    <3>2. 1 <= h
      BY ProvidersAssumption
    <3>3. QED
      BY <2>1, <3>1, <3>2 DEF Reach
  <2>2. QED
    BY <1>1, <1>4, <2>1, FlightStepsApart DEF Reach
<1>5. QED
  BY <1>2, <1>3, <1>4, QuietSteps DEF Next, Quiescent, vars

\* No lookup of a patient behaviour ends in an error.
LEMMA FlightStepSaves ==
  ASSUME TypeOK, PatientStaysLive, HealthyInReach, patient, Healthy # {},
         NEW f \in Flights, FlightStep(f),
         outcome[f] \notin {"providerError", "contextError"}
  PROVE  outcome'[f] \notin {"providerError", "contextError"}
<1>1. /\ outcome \in [Flights -> Outcomes \cup {None}] /\ N \in Nat
      /\ at[f] \in 1 .. N + 1
  BY ProvidersAssumption DEF TypeOK
<1>2. CASE CtxStops(f) \/ BackedOff(f)
  <2>1. PICK h \in Healthy : TRUE
    OBVIOUS
  <2>2. at[f] < h /\ h \in 1 .. N
    BY <1>2, GivesUpAt, FailuresAreOthers, ProvidersAssumption
  <2>3. ~(at[f] > N)
    BY <1>1, <2>2
  <2>4. outcome' = outcome
    BY <1>2, <2>3, GiveUpCases
  <2>5. QED
    BY <2>4
<1>3. CASE Skip(f) \/ Choose(f) \/ BestEffort(f) \/ CtxPasses(f) \/ TakeToken(f) \/ CallFails(f)
           \/ ScanSkip(f) \/ ScanAsk(f) \/ ScanDone(f)
  <2>1. outcome' = outcome
    BY <1>3 DEF Skip, Choose, BestEffort, CtxPasses, TakeToken, CallFails, ScanSkip, ScanAsk, ScanDone
  <2>2. QED
    BY <2>1
<1>4. CASE CallSucceeds(f) \/ CallPanics(f)
  BY <1>1, <1>4 DEF CallSucceeds, CallPanics
<1>5. CASE Price(f)
  BY <1>1, <1>5 DEF Price
<1>6. QED
  BY <1>2, <1>3, <1>4, <1>5 DEF FlightStep

LEMMA NextFailoverSaves ==
  ASSUME TypeOK, PatientStaysLive, HealthyInReach, FailoverSaves, [Next]_vars
  PROVE  FailoverSaves'
<1> SUFFICES ASSUME patient, Healthy # {}, NEW g \in Flights
             PROVE  outcome'[g] \notin {"providerError", "contextError"}
  BY NextPatientStaysLive DEF FailoverSaves
<1>1. outcome[g] \notin {"providerError", "contextError"}
  BY DEF FailoverSaves
<1>2. CASE UNCHANGED <<pc, at, outcome>>
  BY <1>1, <1>2
<1>3. ASSUME NEW f \in Flights, FlightStep(f)
      PROVE  outcome'[g] \notin {"providerError", "contextError"}
  BY <1>1, <1>3, FlightStepSaves, FlightStepsApart
<1>4. ASSUME NEW f \in Flights, Begin(f)
      PROVE  outcome'[g] \notin {"providerError", "contextError"}
  BY <1>1, <1>4 DEF Begin, TypeOK, None
<1>5. QED
  BY <1>2, <1>3, <1>4, QuietSteps DEF Next, Quiescent, vars

\* --------------------------------------------------------------------- theorems --

LEMMA NextIndInv == IndInv /\ [Next]_vars => IndInv'
<1> SUFFICES ASSUME IndInv, [Next]_vars PROVE IndInv'
  OBVIOUS
<1>1. /\ TypeOK /\ BreakerCountsFailures /\ LateFailuresBounded /\ PatientStaysLive
      /\ HealthyUnharmed /\ HealthyInReach /\ FailoverSaves
  BY DEF IndInv
<1>2. TypeOK' /\ BreakerCountsFailures'
  BY <1>1, NextTypeOK, NextBreakerAgrees
<1>3. LateFailuresBounded'
  BY <1>1, <1>2, NextLateFailures
<1>4. PatientStaysLive' /\ HealthyUnharmed' /\ HealthyInReach' /\ FailoverSaves'
  BY <1>1, NextPatientStaysLive, NextHealthyUnharmed, NextHealthyInReach, NextFailoverSaves
<1>5. QED
  BY <1>2, <1>3, <1>4 DEF IndInv

\* The inductive invariant holds of every reachable state.
THEOREM Invariance == Spec => []IndInv
BY InitIndInv, NextIndInv, PTL DEF Spec

\* The variables of the failover loop keep their types.
THEOREM TypeCorrect == Spec => []TypeOK
<1>1. IndInv => TypeOK
  BY DEF IndInv
<1>2. QED
  BY <1>1, Invariance, PTL

\* isCircuitBroken, recordFailure and recordSuccess keep the two halves of
\* providerHealth in step (pool.go:522-573), however many lookups share it.
THEOREM BreakersAgree == Spec => []BreakerCountsFailures
<1>1. IndInv => BreakerCountsFailures
  BY DEF IndInv
<1>2. QED
  BY <1>1, Invariance, PTL

\* The overshoot of an open breaker is bounded by the number of lookups.
THEOREM LateFailures == Spec => []LateFailuresBounded
<1>1. IndInv => LateFailuresBounded
  BY DEF IndInv
<1>2. QED
  BY <1>1, Invariance, PTL

\* One healthy provider saves every lookup of a patient behaviour.
THEOREM OneHealthySaves == Spec => []FailoverSaves
<1>1. IndInv => FailoverSaves
  BY DEF IndInv
<1>2. QED
  BY <1>1, Invariance, PTL

\* A price goroutine is started by ScanAsk alone, for a closed breaker.
LEMMA NewAsked ==
  ASSUME TypeOK, [Next]_vars, NEW p \in Providers, NEW g \in Flights,
         p \in asked'[g], IsCircuitBroken(p)
  PROVE  p \in asked[g]
<1>1. asked \in [Flights -> SUBSET Providers]
  BY DEF TypeOK
<1>2. CASE UNCHANGED asked
  BY <1>2
<1>3. ASSUME NEW f \in Flights, FlightStep(f)
      PROVE  p \in asked[g]
  <2>1. CASE ScanAsk(f)
    BY <1>1, <2>1 DEF ScanAsk
  <2>2. CASE ~ScanAsk(f)
    <3>1. UNCHANGED asked
      BY <1>3, <2>2 DEF FlightStep, Skip, Choose, BestEffort, CtxStops, CtxPasses, TakeToken, CallFails,
                        CallPanics, CallSucceeds, BackedOff, ScanSkip, ScanDone, Price
    <3>2. QED
      BY <1>2, <3>1
  <2>3. QED
    BY <2>1, <2>2
<1>4. ASSUME NEW f \in Flights, PriceStep(f)
      PROVE  p \in asked[g]
  BY <1>1, <1>4 DEF PriceStep, PriceQuoted, PriceFails
<1>5. ASSUME NEW f \in Flights, Begin(f) \/ ExpireCtx(f)
      PROVE  p \in asked[g]
  BY <1>5 DEF Begin, ExpireCtx
<1>6. ASSUME NEW q \in Providers, CoolDown(q) \/ Refill(q)
      PROVE  p \in asked[g]
  BY <1>6 DEF CoolDown, Refill
<1>7. QED
  BY <1>2, <1>3, <1>4, <1>5, <1>6 DEF Next, Quiescent, vars

\* No step sends a new lookup to a provider other than the primary while its
\* breaker is open, in the loop (pool.go:257-260) or in the price scan.
THEOREM OpenBreakersShield == Spec => OpenBreakerShields
<1> DEFINE Shielded ==
      \A p \in Providers \ {1} : IsCircuitBroken(p) =>
        \A f \in Flights :
          /\ InFlight(f, p)' => InFlight(f, p)
          /\ p \in asked'[f] => p \in asked[f]
<1>1. IndInv /\ [Next]_vars => [Shielded]_vars
  <2> SUFFICES ASSUME IndInv, [Next]_vars, NEW p \in Providers, IsCircuitBroken(p), NEW g \in Flights
               PROVE  (InFlight(g, p)' => InFlight(g, p)) /\ (p \in asked'[g] => p \in asked[g])
    OBVIOUS
  <2>1. TypeOK
    BY DEF IndInv
  <2>2. ASSUME InFlight(g, p)', ~InFlight(g, p) PROVE FALSE
    <3>1. ASSUME NEW f \in Flights, FlightStep(f) PROVE FALSE
      <4>1. Choose(f) /\ p = at[f]
        BY <2>1, <2>2, <3>1, NewInFlight
      <4>2. QED
        BY <4>1 DEF Choose
    <3>2. CASE UNCHANGED vars
      BY <2>2, <3>2 DEF vars, InFlight
    <3>3. ASSUME NEW f \in Flights, Begin(f) \/ ExpireCtx(f) \/ PriceStep(f) PROVE FALSE
      BY <2>1, <2>2, <3>3, OtherStepsInFlight
    <3>4. ASSUME NEW q \in Providers, CoolDown(q) \/ Refill(q) PROVE FALSE
      BY <2>1, <2>2, <3>4, OtherStepsInFlight
    <3>5. QED
      BY <3>1, <3>2, <3>3, <3>4 DEF Next, Quiescent
  <2>3. QED
    BY <2>1, <2>2, NewAsked
<1>2. QED
  BY <1>1, Invariance, PTL DEF Spec, OpenBreakerShields

\* ------------------------------------------------ each breaker is a Breaker --

\* A lookup that is past its breaker check and has not recorded how the call went.
InCall(f) == pc[f] \in {"attempt", "throttle", "call", "backoff"}

\* What a step of a lookup does to the calls of q.
LEMMA CallingMoves ==
  ASSUME TypeOK, NEW f \in Flights, FlightStep(f) \/ Begin(f), NEW q \in Providers
  PROVE  /\ f \in Calling(q) <=> InCall(f) /\ Turn(f) = q
         /\ InCall(f)' /\ Turn(f)' = q => Calling(q)' = Calling(q) \cup {f}
         /\ ~(InCall(f)' /\ Turn(f)' = q) => Calling(q)' = Calling(q) \ {f}
<1>1. \A g \in Flights \ {f} : pc'[g] = pc[g] /\ at'[g] = at[g]
  BY FlightStepsApart
<1>2. \A g \in Flights \ {f} : g \in Calling(q)' <=> g \in Calling(q)
  BY <1>1 DEF Calling, Turn
<1>3. f \in Calling(q) <=> InCall(f) /\ Turn(f) = q
  BY DEF Calling, InCall
<1>4. f \in Calling(q)' <=> InCall(f)' /\ Turn(f)' = q
  BY DEF Calling, InCall
<1>5. Calling(q) \subseteq Flights /\ Calling(q)' \subseteq Flights
  BY DEF Calling
<1>6. QED
  BY <1>2, <1>3, <1>4, <1>5

\* What the operations on the health record of p are to the breaker of p, and of
\* another provider.
LEMMA OperationsMap ==
  ASSUME TypeOK, NEW p \in Providers
  PROVE  /\ ~IsCircuitBroken(p) /\ CloseIfExpired(p)
              => BreakerOf(p)!Expire \/ UNCHANGED BreakerOf(p)!record
         /\ RecordSuccess(p) => BreakerOf(p)!Close
         /\ RecordFailure(p) => BreakerOf(p)!Fail
<1>1. /\ failures \in [Providers -> Nat]
      /\ tripped \in [Providers -> BOOLEAN]
      /\ left \in [Providers -> 0 .. Cooldown]
      /\ Cooldown \in Nat \ {0}
  BY LimitsAssumption DEF TypeOK
<1>2. ASSUME ~IsCircuitBroken(p), CloseIfExpired(p)
      PROVE  BreakerOf(p)!Expire \/ UNCHANGED BreakerOf(p)!record
  <2>1. left[p] \in Nat
    BY <1>1
  <2>2. CASE tripped[p]
    <3>1. left[p] = 0
      BY <1>2, <2>1, <2>2 DEF IsCircuitBroken
    <3>2. failures'[p] = 0 /\ tripped'[p] = FALSE /\ left'[p] = left[p]
      BY <1>1, <1>2, <2>2 DEF CloseIfExpired
    <3>3. QED
      BY <2>2, <3>1, <3>2 DEF BreakerOf!Expire, BreakerOf!Close
  <2>3. CASE ~tripped[p]
    <3>1. failures'[p] = failures[p] /\ tripped'[p] = tripped[p] /\ left'[p] = left[p]
      BY <1>1, <1>2, <2>3 DEF CloseIfExpired
    <3>2. QED
      BY <3>1 DEF BreakerOf!record
  <2>4. QED
    BY <2>2, <2>3
<1>3. ASSUME RecordSuccess(p) PROVE BreakerOf(p)!Close
  <2>1. failures'[p] = 0 /\ tripped'[p] = FALSE /\ left'[p] = left[p]
    BY <1>1, <1>3 DEF RecordSuccess
  <2>2. QED
    BY <2>1 DEF BreakerOf!Close
<1>4. ASSUME RecordFailure(p) PROVE BreakerOf(p)!Fail
  <2>1. failures'[p] = failures[p] + 1
    BY <1>1, <1>4 DEF RecordFailure
  <2>2. IF failures[p] + 1 >= TripAt
        THEN tripped'[p] = TRUE /\ left'[p] = Cooldown
        ELSE tripped'[p] = tripped[p] /\ left'[p] = left[p]
    BY <1>1, <1>4 DEF RecordFailure
  <2>3. QED
    BY <2>1, <2>2 DEF BreakerOf!Fail
<1>5. QED
  BY <1>2, <1>3, <1>4

LEMMA OperationsApart ==
  ASSUME TypeOK, NEW p \in Providers, NEW q \in Providers, p # q,
         CloseIfExpired(p) \/ RecordSuccess(p) \/ RecordFailure(p)
  PROVE  UNCHANGED BreakerOf(q)!record
<1>1. /\ failures \in [Providers -> Nat]
      /\ tripped \in [Providers -> BOOLEAN]
      /\ left \in [Providers -> 0 .. Cooldown]
  BY DEF TypeOK
<1>2. failures'[q] = failures[q] /\ tripped'[q] = tripped[q] /\ left'[q] = left[q]
  <2>1. CASE CloseIfExpired(p)
    BY <1>1, <2>1 DEF CloseIfExpired
  <2>2. CASE RecordSuccess(p)
    BY <1>1, <2>2 DEF RecordSuccess
  <2>3. CASE RecordFailure(p)
    BY <1>1, <2>3 DEF RecordFailure
  <2>4. QED
    BY <2>1, <2>2, <2>3
<1>3. QED
  BY <1>2 DEF BreakerOf!record

\* What a step of a lookup is to the breaker of q.
LEMMA FlightStepMap ==
  ASSUME TypeOK, NEW f \in Flights, FlightStep(f), NEW q \in Providers
  PROVE  \/ UNCHANGED <<BreakerOf(q)!record, Calling(q)>>
         \/ BreakerOf(q)!Call(f)
         \/ BreakerOf(q)!Report(f)
         \/ BreakerOf(q)!Lose(f)
         \/ BreakerOf(q)!Expire /\ UNCHANGED Calling(q)
<1>1. /\ at \in [Flights -> 1 .. N + 1] /\ pc \in [Flights -> Steps]
      /\ N \in Nat \ {0}
      /\ at[f] \in 1 .. N + 1 /\ 1 \in Providers
  BY ProvidersAssumption DEF TypeOK, Providers
<1>2. UNCHANGED breaker => UNCHANGED BreakerOf(q)!record
  BY DEF breaker, BreakerOf!record
<1>3. CASE Skip(f) \/ ScanSkip(f) \/ ScanDone(f) \/ Price(f)
  <2>1. ~InCall(f) /\ ~InCall(f)' /\ UNCHANGED breaker
    BY <1>1, <1>3 DEF Skip, ScanSkip, ScanDone, Price, InCall, Goto
  <2>2. UNCHANGED Calling(q)
    BY <2>1, CallingMoves
  <2>3. QED
    BY <1>2, <2>1, <2>2
<1>4. CASE \/ CtxPasses(f) \/ TakeToken(f) \/ CallFails(f)
           \/ pc[f] = "backoff" /\ Goto(f, "attempt") /\ UNCHANGED <<breaker, at>>
  <2>1. InCall(f) /\ InCall(f)' /\ UNCHANGED breaker /\ at' = at
    BY <1>1, <1>4 DEF CtxPasses, TakeToken, CallFails, InCall, Goto
  <2>2. Turn(f)' = Turn(f)
    BY <2>1 DEF Turn
  <2>3. UNCHANGED Calling(q)
    BY <2>1, <2>2, CallingMoves
  <2>4. QED
    BY <1>2, <2>1, <2>3
<1>5. CASE Choose(f)
  <2>1. at[f] \in Providers /\ ~IsCircuitBroken(at[f]) /\ CloseIfExpired(at[f])
    BY <1>5, StepsTyped DEF Choose
  <2>2. ~InCall(f) /\ InCall(f)' /\ Turn(f)' = at[f]
    BY <1>1, <1>5 DEF Choose, InCall, Goto, Turn
  <2>3. CASE q = at[f]
    <3>1. f \notin Calling(q) /\ Calling(q)' = Calling(q) \cup {f}
      BY <2>2, <2>3, CallingMoves
    <3>2. BreakerOf(q)!Expire \/ UNCHANGED BreakerOf(q)!record
      BY <2>1, <2>3, OperationsMap
    <3>3. QED
      BY <3>1, <3>2 DEF BreakerOf!Call
  <2>4. CASE q # at[f]
    <3>1. UNCHANGED BreakerOf(q)!record
      BY <2>1, <2>4, OperationsApart
    <3>2. UNCHANGED Calling(q)
      BY <2>2, <2>4, CallingMoves
    <3>3. QED
      BY <3>1, <3>2
  <2>5. QED
    BY <2>3, <2>4
<1>6. CASE BestEffort(f)
  <2>1. RecordSuccess(1)
    BY <1>6 DEF BestEffort
  <2>2. ~InCall(f) /\ InCall(f)' /\ Turn(f)' = 1
    BY <1>1, <1>6 DEF BestEffort, InCall, Goto, Turn
  <2>3. CASE q = 1
    <3>1. f \notin Calling(q) /\ Calling(q)' = Calling(q) \cup {f}
      BY <2>2, <2>3, CallingMoves
    <3>2. BreakerOf(q)!Close
      BY <1>1, <2>1, <2>3, OperationsMap
    <3>3. QED
      BY <2>3, <3>1, <3>2 DEF BreakerOf!Call
  <2>4. CASE q # 1
    <3>1. UNCHANGED BreakerOf(q)!record
      BY <1>1, <2>1, <2>4, OperationsApart
    <3>2. UNCHANGED Calling(q)
      BY <2>2, <2>4, CallingMoves
    <3>3. QED
      BY <3>1, <3>2
  <2>5. QED
    BY <2>3, <2>4
<1>7. CASE CallSucceeds(f)
  <2>1. Turn(f) \in Providers /\ RecordSuccess(Turn(f))
    BY <1>7, StepsTyped DEF CallSucceeds
  <2>2. InCall(f) /\ ~InCall(f)'
    BY <1>1, <1>7 DEF CallSucceeds, InCall, Goto
  <2>3. CASE q = Turn(f)
    <3>1. f \in Calling(q) /\ Calling(q)' = Calling(q) \ {f}
      BY <2>2, <2>3, CallingMoves
    <3>2. BreakerOf(q)!Close
      BY <2>1, <2>3, OperationsMap
    <3>3. QED
      BY <3>1, <3>2 DEF BreakerOf!Report
  <2>4. CASE q # Turn(f)
    <3>1. UNCHANGED BreakerOf(q)!record
      BY <2>1, <2>4, OperationsApart
    <3>2. UNCHANGED Calling(q)
      BY <2>2, <2>4, CallingMoves
    <3>3. QED
      BY <3>1, <3>2
  <2>5. QED
    BY <2>3, <2>4
<1>8. CASE FailureRecorded(f)
  <2>1. at[f] \in Providers /\ RecordFailure(at[f])
    BY <1>8, StepsTyped DEF FailureRecorded
  <2>2. InCall(f) /\ ~InCall(f)' /\ Turn(f) = at[f]
    BY <1>1, <1>8 DEF FailureRecorded, InCall, Goto, Turn
  <2>3. CASE q = at[f]
    <3>1. f \in Calling(q) /\ Calling(q)' = Calling(q) \ {f}
      BY <2>2, <2>3, CallingMoves
    <3>2. BreakerOf(q)!Fail
      BY <2>1, <2>3, OperationsMap
    <3>3. QED
      BY <3>1, <3>2 DEF BreakerOf!Report
  <2>4. CASE q # at[f]
    <3>1. UNCHANGED BreakerOf(q)!record
      BY <2>1, <2>4, OperationsApart
    <3>2. UNCHANGED Calling(q)
      BY <2>2, <2>4, CallingMoves
    <3>3. QED
      BY <3>1, <3>2
  <2>5. QED
    BY <2>3, <2>4
<1>9. CASE InCall(f) /\ at[f] > N /\ Goto(f, "idle") /\ UNCHANGED <<breaker, at>>
  <2>1. InCall(f) /\ ~InCall(f)' /\ Turn(f) = 1 /\ UNCHANGED breaker
    BY <1>1, <1>9 DEF InCall, Goto, Turn
  <2>2. CASE q = 1
    <3>1. f \in Calling(q) /\ Calling(q)' = Calling(q) \ {f}
      BY <2>1, <2>2, CallingMoves
    <3>2. QED
      BY <1>2, <2>1, <2>2, <3>1 DEF BreakerOf!Report
  <2>3. CASE q # 1
    <3>1. UNCHANGED Calling(q)
      BY <2>1, <2>3, CallingMoves
    <3>2. QED
      BY <1>2, <2>1, <3>1
  <2>4. QED
    BY <2>2, <2>3
<1>10. CASE ScanAsk(f)
  <2>1. at[f] \in Providers /\ ~IsCircuitBroken(at[f]) /\ CloseIfExpired(at[f])
    BY <1>10, StepsTyped DEF ScanAsk
  <2>2. ~InCall(f) /\ ~InCall(f)'
    BY <1>1, <1>10 DEF ScanAsk, InCall
  <2>3. UNCHANGED Calling(q)
    BY <2>2, CallingMoves
  <2>4. CASE q = at[f]
    BY <2>1, <2>3, <2>4, OperationsMap
  <2>5. CASE q # at[f]
    BY <2>1, <2>3, <2>5, OperationsApart
  <2>6. QED
    BY <2>4, <2>5
<1>11. CASE CtxStops(f) \/ BackedOff(f)
  <2>1. InCall(f)
    BY <1>11, GivesUpAt DEF InCall
  <2>2. QED
    BY <1>4, <1>8, <1>9, <1>11, <2>1, GiveUpCases
<1>12. CASE CallPanics(f)
  <2>1. InCall(f) /\ ~InCall(f)' /\ UNCHANGED breaker /\ Turn(f) \notin Healthy
    BY <1>1, <1>12 DEF CallPanics, InCall, Goto
  <2>2. CASE q = Turn(f)
    <3>1. f \in Calling(q) /\ Calling(q)' = Calling(q) \ {f}
      BY <2>1, <2>2, CallingMoves
    <3>2. QED
      BY <1>2, <2>1, <2>2, <3>1 DEF BreakerOf!Lose
  <2>3. CASE q # Turn(f)
    <3>1. UNCHANGED Calling(q)
      BY <2>1, <2>3, CallingMoves
    <3>2. QED
      BY <1>2, <2>1, <3>1
  <2>4. QED
    BY <2>2, <2>3
<1>13. QED
  BY <1>3, <1>4, <1>5, <1>6, <1>7, <1>10, <1>11, <1>12 DEF FlightStep

LEMMA StepsMap ==
  ASSUME TypeOK, [Next]_vars, NEW q \in Providers
  PROVE  [BreakerOf(q)!Next]_(BreakerOf(q)!vars)
<1>1. CASE UNCHANGED <<BreakerOf(q)!record, Calling(q)>>
  BY <1>1 DEF BreakerOf!vars
<1>2. ASSUME UNCHANGED <<breaker, pc, at>>
      PROVE  UNCHANGED <<BreakerOf(q)!record, Calling(q)>>
  BY <1>2 DEF breaker, BreakerOf!record, Calling, Turn
<1>3. ASSUME NEW f \in Flights, FlightStep(f)
      PROVE  [BreakerOf(q)!Next]_(BreakerOf(q)!vars)
  BY <1>1, <1>3, FlightStepMap DEF BreakerOf!Next
<1>4. ASSUME NEW f \in Flights, Begin(f)
      PROVE  UNCHANGED <<BreakerOf(q)!record, Calling(q)>>
  <2>1. UNCHANGED breaker /\ ~InCall(f) /\ ~InCall(f)'
    BY <1>4 DEF Begin, InCall, Goto, TypeOK
  <2>2. QED
    BY <1>4, <2>1, CallingMoves DEF breaker, BreakerOf!record
<1>5. ASSUME NEW f \in Flights, ExpireCtx(f) \/ PriceStep(f)
      PROVE  UNCHANGED <<breaker, pc, at>>
  BY <1>5 DEF ExpireCtx, PriceStep, PriceQuoted, PriceFails, breaker
<1>6. ASSUME NEW p \in Providers, Refill(p)
      PROVE  UNCHANGED <<breaker, pc, at>>
  BY <1>6 DEF Refill
<1>7. ASSUME NEW p \in Providers, CoolDown(p)
      PROVE  [BreakerOf(q)!Next]_(BreakerOf(q)!vars)
  <2>1. left \in [Providers -> 0 .. Cooldown]
    BY DEF TypeOK
  <2>2. UNCHANGED <<failures[q], tripped[q], Calling(q)>>
    BY <1>7 DEF CoolDown, Calling, Turn
  <2>3. CASE p = q
    <3>1. left[q] > 0 /\ left'[q] = left[q] - 1
      BY <1>7, <2>1, <2>3 DEF CoolDown
    <3>2. QED
      BY <2>2, <3>1 DEF BreakerOf!Next, BreakerOf!CoolDown
  <2>4. CASE p # q
    <3>1. left'[q] = left[q]
      BY <1>7, <2>1, <2>4 DEF CoolDown
    <3>2. QED
      BY <1>1, <2>2, <3>1 DEF BreakerOf!record
  <2>5. QED
    BY <2>3, <2>4
<1>8. QED
  BY <1>1, <1>2, <1>3, <1>4, <1>5, <1>6, <1>7 DEF Next, Quiescent, vars, breaker

\* Whatever concurrent lookups record on it (pool.go:522-573), the breaker of
\* each provider behaves like a Breaker.
THEOREM BreakersImplement == Spec => BreakersAreBreakers
<1>1. Init => \A p \in Providers : BreakerOf(p)!Init
  BY DEF Init, BreakerOf!Init, Calling
<1>2. IndInv /\ [Next]_vars
        => [\A p \in Providers : [BreakerOf(p)!Next]_(BreakerOf(p)!vars)]_vars
  BY StepsMap DEF IndInv
<1>3. QED
  BY <1>1, <1>2, Invariance, PTL DEF Spec, BreakersAreBreakers

\* ---------------------------------------------------------------- progress --

\* After a failed lookup, or call, the next provider is in turn.
LEMMA GiveUpMovesOn ==
  ASSUME TypeOK, NEW f \in Flights, NEW err, GiveUp(f, err),
         pc[f] \in {"attempt", "backoff"}
  PROVE  MovesOn(f)
<1>1. at[f] \in Int /\ at \in [Flights -> 1 .. N + 1] /\ pc \in [Flights -> Steps]
  BY ProvidersAssumption DEF TypeOK
<1>2. Section(f) = 3
  BY DEF Section
<1>3. CASE at[f] <= N
  <2>1. at'[f] = at[f] + 1 /\ pc'[f] = "pick"
    BY <1>1, <1>3, ProvidersAssumption DEF GiveUp, Goto
  <2>2. Section(f)' = 3
    BY <2>1 DEF Section
  <2>3. QED
    BY <1>1, <1>2, <2>1, <2>2 DEF MovesOn
<1>4. CASE at[f] > N
  <2>1. pc'[f] = "idle"
    BY <1>1, <1>4, ProvidersAssumption DEF GiveUp, Goto
  <2>2. Section(f)' = 0
    BY <2>1 DEF Section
  <2>3. QED
    BY <1>2, <2>2 DEF MovesOn
<1>5. QED
  BY <1>1, <1>3, <1>4, ProvidersAssumption

\* Every step of a lookup leaves less ahead of it.
LEMMA FlightStepMovesOn ==
  ASSUME TypeOK, NEW f \in Flights, FlightStep(f)
  PROVE  MovesOn(f) /\ (pc[f] # "scan" => asked'[f] = asked[f])
<1>1. /\ at[f] \in Int /\ attempt[f] \in 1 .. Attempts /\ Attempts \in Nat \ {0}
      /\ at \in [Flights -> 1 .. N + 1] /\ attempt \in [Flights -> 1 .. Attempts]
      /\ pc \in [Flights -> Steps]
  BY ProvidersAssumption, LimitsAssumption DEF TypeOK
<1>2. CASE Skip(f)
  <2>1. pc[f] = "pick" /\ pc'[f] = "pick" /\ at'[f] = at[f] + 1 /\ asked' = asked
    BY <1>1, <1>2 DEF Skip
  <2>2. QED
    BY <1>1, <2>1 DEF MovesOn, Section
<1>3. CASE Choose(f) \/ BestEffort(f)
  <2>1. /\ pc[f] = "pick" /\ pc'[f] = "attempt" /\ at' = at
        /\ attempt'[f] = 1 /\ asked' = asked
    BY <1>1, <1>3 DEF Choose, BestEffort, Goto
  <2>2. Section(f) = 3 /\ Section(f)' = 3
    BY <2>1 DEF Section
  <2>3. CallsAhead(f) = Attempts /\ CallsAhead(f)' = Attempts - 1
    BY <2>1 DEF CallsAhead
  <2>4. QED
    BY <1>1, <2>1, <2>2, <2>3 DEF MovesOn
<1>4. CASE CtxStops(f)
  BY <1>4, GiveUpMovesOn DEF CtxStops
<1>5. CASE CtxPasses(f) \/ TakeToken(f) \/ CallFails(f)
  <2>1. UNCHANGED <<at, attempt, asked>>
    BY <1>5 DEF CtxPasses, TakeToken, CallFails
  <2>2. \/ pc[f] = "attempt" /\ pc'[f] = "throttle"
        \/ pc[f] = "throttle" /\ pc'[f] = "call"
        \/ pc[f] = "call" /\ pc'[f] = "backoff"
    BY <1>1, <1>5 DEF CtxPasses, TakeToken, CallFails, Goto
  <2>3. Section(f) = 3 /\ Section(f)' = 3
    BY <2>2 DEF Section
  <2>4. CallsAhead(f)' = CallsAhead(f)
    BY <2>1, <2>2 DEF CallsAhead
  <2>5. StagesAhead(f)' < StagesAhead(f)
    BY <2>2 DEF StagesAhead
  <2>6. QED
    BY <2>1, <2>3, <2>4, <2>5 DEF MovesOn
<1>6. CASE CallSucceeds(f)
  <2>1. pc[f] = "call" /\ pc'[f] \in {"idle", "scan"} /\ asked' = asked
    BY <1>1, <1>6 DEF CallSucceeds, Goto
  <2>2. QED
    BY <2>1 DEF MovesOn, Section
<1>7. CASE BackedOff(f)
  <2>1. pc[f] = "backoff" /\ asked' = asked
    BY <1>7 DEF BackedOff
  <2>2. CASE GiveUp(f, "providerError")
    BY <2>1, <2>2, GiveUpMovesOn
  <2>3. CASE /\ attempt' = [attempt EXCEPT ![f] = @ + 1]
             /\ Goto(f, "attempt")
             /\ UNCHANGED at
    <3>1. attempt'[f] = attempt[f] + 1 /\ pc'[f] = "attempt" /\ at' = at
      BY <1>1, <2>3 DEF Goto
    <3>2. Section(f) = 3 /\ Section(f)' = 3
      BY <2>1, <3>1 DEF Section
    <3>3. CallsAhead(f) = Attempts - attempt[f] /\ CallsAhead(f)' = Attempts - (attempt[f] + 1)
      BY <2>1, <3>1 DEF CallsAhead
    <3>4. QED
      BY <1>1, <2>1, <3>1, <3>2, <3>3 DEF MovesOn
  <2>4. QED
    BY <1>7, <2>1, <2>2, <2>3 DEF BackedOff
<1>8. CASE ScanSkip(f) \/ ScanAsk(f)
  <2>1. pc[f] = "scan" /\ pc'[f] = "scan" /\ at'[f] = at[f] + 1
    BY <1>1, <1>8 DEF ScanSkip, ScanAsk
  <2>2. QED
    BY <1>1, <2>1 DEF MovesOn, Section
<1>9. CASE ScanDone(f)
  <2>1. pc[f] = "scan" /\ pc'[f] = "pricing"
    BY <1>1, <1>9 DEF ScanDone, Goto
  <2>2. QED
    BY <2>1 DEF MovesOn, Section
<1>10. CASE Price(f)
  <2>1. pc[f] = "pricing" /\ pc'[f] = "idle" /\ asked' = asked
    BY <1>1, <1>10 DEF Price, Goto
  <2>2. QED
    BY <2>1 DEF MovesOn, Section
<1>11. CASE CallPanics(f)
  <2>1. pc[f] = "call" /\ pc'[f] = "idle" /\ asked' = asked
    BY <1>1, <1>11 DEF CallPanics, Goto
  <2>2. QED
    BY <2>1 DEF MovesOn, Section
<1>12. QED
  BY <1>2, <1>3, <1>4, <1>5, <1>6, <1>7, <1>8, <1>9, <1>10, <1>11 DEF FlightStep

\* A price goroutine that ends leaves fewer to wait for, and nothing else.
LEMMA PriceStepEndsOne ==
  ASSUME TypeOK, NEW f \in Flights, PriceStep(f)
  PROVE  /\ UNCHANGED <<pc, at, attempt>>
         /\ asked'[f] \subseteq asked[f] /\ asked'[f] # asked[f]
         /\ \A g \in Flights \ {f} : asked'[g] = asked[g]
<1>1. PICK p \in Providers : PriceQuoted(f, p) \/ PriceFails(f, p)
  BY DEF PriceStep
<1>2. p \in asked[f] /\ asked' = [asked EXCEPT ![f] = @ \ {p}] /\ UNCHANGED <<pc, at, attempt>>
  BY <1>1 DEF PriceQuoted, PriceFails
<1>3. asked \in [Flights -> SUBSET Providers]
  BY DEF TypeOK
<1>4. asked'[f] = asked[f] \ {p}
  BY <1>2, <1>3
<1>5. \A g \in Flights \ {f} : asked'[g] = asked[g]
  BY <1>2, <1>3
<1>6. QED
  BY <1>2, <1>4, <1>5

\* A step of one lookup does not touch another.
LEMMA FlightStepLeaves ==
  ASSUME TypeOK, NEW g \in Flights, FlightStep(g) \/ Begin(g), NEW f \in Flights, f # g
  PROVE  UNCHANGED <<pc[f], at[f], attempt[f], asked[f]>>
<1>1. /\ pc \in [Flights -> Steps] /\ at \in [Flights -> 1 .. N + 1]
      /\ attempt \in [Flights -> 1 .. Attempts] /\ asked \in [Flights -> SUBSET Providers]
  BY DEF TypeOK
<1>2. pc' = pc \/ \E step \in Steps : pc' = [pc EXCEPT ![g] = step]
  BY DEF FlightStep, Begin, Skip, Choose, BestEffort, CtxStops, CtxPasses, TakeToken, CallFails,
         CallPanics, CallSucceeds, BackedOff, ScanSkip, ScanAsk, ScanDone, Price, GiveUp, Goto, Steps
<1>3. at' = at \/ at' = [at EXCEPT ![g] = 1] \/ at' = [at EXCEPT ![g] = @ + 1]
  BY DEF FlightStep, Begin, Skip, Choose, BestEffort, CtxStops, CtxPasses, TakeToken, CallFails,
         CallPanics, CallSucceeds, BackedOff, ScanSkip, ScanAsk, ScanDone, Price, GiveUp
<1>4. attempt' = attempt \/ attempt' = [attempt EXCEPT ![g] = 1]
      \/ attempt' = [attempt EXCEPT ![g] = @ + 1]
  BY DEF FlightStep, Begin, Skip, Choose, BestEffort, CtxStops, CtxPasses, TakeToken, CallFails,
         CallPanics, CallSucceeds, BackedOff, ScanSkip, ScanAsk, ScanDone, Price
<1>5. asked' = asked \/ asked' = [asked EXCEPT ![g] = @ \cup {at[g]}]
  BY DEF FlightStep, Begin, Skip, Choose, BestEffort, CtxStops, CtxPasses, TakeToken, CallFails,
         CallPanics, CallSucceeds, BackedOff, ScanSkip, ScanAsk, ScanDone, Price
<1>6. pc'[f] = pc[f]
  BY <1>1, <1>2
<1>7. at'[f] = at[f]
  BY <1>1, <1>3
<1>8. attempt'[f] = attempt[f]
  BY <1>1, <1>4
<1>9. asked'[f] = asked[f]
  BY <1>1, <1>5
<1>10. QED
  BY <1>6, <1>7, <1>8, <1>9

\* The remaining steps touch no lookup, but for its context.
LEMMA WorldLeaves ==
  ASSUME \/ \E f \in Flights : ExpireCtx(f)
         \/ \E p \in Providers : CoolDown(p) \/ Refill(p)
         \/ Quiescent \/ UNCHANGED vars
  PROVE  UNCHANGED <<pc, at, attempt, asked>>
BY DEF ExpireCtx, CoolDown, Refill, Quiescent, vars

\* Every lookup goes through at most N providers, Attempts calls to each, one
\* best effort and one scan for prices: no step of it, nor of anyone else, ever
\* puts it back (pool.go 218-502). With it LookupsEnd is a
\* matter of fairness alone.
THEOREM LookupsAdvance == Spec => LookupsMoveOn
<1>1. ASSUME TypeOK, [Next]_vars, NEW f \in Flights
      PROVE  KeepsAdvancing(f)
  <2>1. FlightStep(f) => MovesOn(f) /\ (pc[f] # "scan" => asked'[f] = asked[f])
    BY <1>1, FlightStepMovesOn
  <2>2. PriceStep(f) => asked'[f] \subseteq asked[f] /\ asked'[f] # asked[f]
    BY <1>1, PriceStepEndsOne
  <2>3. SUFFICES ASSUME pc[f] # "idle", ~FlightStep(f)
                 PROVE  UNCHANGED <<pc[f], at[f], attempt[f]>> /\ asked'[f] \subseteq asked[f]
    BY <2>1, <2>2 DEF KeepsAdvancing
  <2>4. CASE \E g \in Flights : FlightStep(g) \/ Begin(g)
    <3>1. PICK g \in Flights : FlightStep(g) \/ Begin(g)
      BY <2>4
    <3>2. f # g
      BY <2>3, <3>1 DEF Begin
    <3>3. QED
      BY <1>1, <3>1, <3>2, FlightStepLeaves
  <2>5. CASE \E g \in Flights : PriceStep(g)
    <3>1. PICK g \in Flights : PriceStep(g)
      BY <2>5
    <3>2. UNCHANGED <<pc, at, attempt>> /\ asked'[f] \subseteq asked[f]
      BY <1>1, <3>1, PriceStepEndsOne
    <3>3. QED
      BY <3>2
  <2>6. CASE \/ \E g \in Flights : ExpireCtx(g)
             \/ \E p \in Providers : CoolDown(p) \/ Refill(p)
             \/ Quiescent \/ UNCHANGED vars
    <3>1. UNCHANGED <<pc, at, attempt, asked>>
      BY <2>6, WorldLeaves
    <3>2. QED
      BY <3>1
  <2>7. QED
    BY <1>1, <2>4, <2>5, <2>6 DEF Next
<1>2. TypeOK /\ [Next]_vars => [\A f \in Flights : KeepsAdvancing(f)]_vars
  BY <1>1
<1>3. QED
  BY <1>2, TypeCorrect, PTL DEF Spec, LookupsMoveOn
===============================================================================
