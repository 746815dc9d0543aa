------------------------------- MODULE Failover -------------------------------
(***************************************************************************)
(* internal/workers/pool.go: executeCheckWithRetry with credentials, and   *)
(* the state its concurrent executions share: the circuit breaker and the  *)
(* token bucket of every provider.                                         *)
(*                                                                         *)
(* A flight is the execution of one lookup by the leader of a singleflight *)
(* call; concurrent flights are about different domains, so priceSfGrp,    *)
(* keyed by provider and domain, never joins two of them and is left out.  *)
(* Module WorkerPool shows flights from the outside.                       *)
(***************************************************************************)
EXTENDS Integers, FiniteSets

CONSTANTS
  Flights,     \* slots in which lookups run, one after the other
  N,           \* number of providers, tried in the order 1 .. N; 1 is primary
  Healthy,     \* the providers that answer every call made under a live context
  TripAt,      \* failures that trip a breaker: 5
  Cooldown,    \* time a breaker stays tripped: 30 s, in units of CoolDown
  Attempts,    \* calls per provider in one lookup: 3
  Capacity,    \* tokens of a full bucket: 100
  MaxLookups   \* bound: lookups begun in one behaviour

ASSUME FlightsAssumption == IsFiniteSet(Flights)
ASSUME ProvidersAssumption == N \in Nat \ {0} /\ Healthy \subseteq 1 .. N
ASSUME LimitsAssumption ==
  /\ TripAt \in Nat \ {0}
  /\ Cooldown \in Nat \ {0}
  /\ Attempts \in Nat \ {0}
  /\ Capacity \in Nat \ {0}
  /\ MaxLookups \in Nat

Providers == 1 .. N
None == "none"
Outcomes == {"taken", "quoted", "standard", "providerError", "contextError", "panic"}
Steps == {"idle", "pick", "attempt", "throttle", "call", "backoff", "scan", "pricing"}

VARIABLES
  patient,   \* no context expires while a lookup runs: fixed at the start
  failures,  \* failures[p]: failures recorded since the last success or reset
  tripped,   \* tripped[p]: the breaker of p is open
  left,      \* left[p]: time until trippedUntil; 0 once it has passed
  tokens,    \* tokens[p]: whole tokens in the bucket of p
  begun,     \* lookups begun so far
  ctx,       \* ctx[f]: the context of the lookup in f, "live" or "done"
  pc,        \* pc[f]: where the lookup in f stands
  at,        \* at[f]: the provider in turn; N + 1 for the best-effort call
  attempt,   \* attempt[f]: which call to that provider this is
  asked,     \* asked[f]: providers whose price is awaited
  quoted,    \* quoted[f]: some provider has quoted a price
  outcome    \* outcome[f]: what the last lookup in f returned

breaker == <<failures, tripped, left>>
vars == <<patient, failures, tripped, left, tokens, begun, ctx, pc, at, attempt, asked, quoted, outcome>>

TypeOK ==
  /\ patient \in BOOLEAN
  /\ failures \in [Providers -> Nat]
  /\ tripped \in [Providers -> BOOLEAN]
  /\ left \in [Providers -> 0 .. Cooldown]
  /\ tokens \in [Providers -> 0 .. Capacity]
  /\ begun \in Nat
  /\ ctx \in [Flights -> {"live", "done"}]
  /\ pc \in [Flights -> Steps]
  /\ at \in [Flights -> 1 .. N + 1]
  /\ attempt \in [Flights -> 1 .. Attempts]
  /\ asked \in [Flights -> SUBSET Providers]
  /\ quoted \in [Flights -> BOOLEAN]
  /\ outcome \in [Flights -> Outcomes \cup {None}]

Init ==
  /\ patient \in BOOLEAN
  /\ failures = [p \in Providers |-> 0]
  /\ tripped = [p \in Providers |-> FALSE]
  /\ left = [p \in Providers |-> 0]
  /\ tokens = [p \in Providers |-> Capacity]
  /\ begun = 0
  /\ ctx = [f \in Flights |-> "live"]
  /\ pc = [f \in Flights |-> "idle"]
  /\ at = [f \in Flights |-> 1]
  /\ attempt = [f \in Flights |-> 1]
  /\ asked = [f \in Flights |-> {}]
  /\ quoted = [f \in Flights |-> FALSE]
  /\ outcome = [f \in Flights |-> None]

\* The provider a flight is dealing with: past the last one, the primary.
Turn(f) == IF at[f] > N THEN 1 ELSE at[f]

Goto(f, step) == pc' = [pc EXCEPT ![f] = step]

\* ------------------------------------------------------- circuit breaker --

\* isCircuitBroken: tripped, and not now.After(trippedUntil).
IsCircuitBroken(p) == tripped[p] /\ left[p] > 0

\* The side effect of isCircuitBroken when it answers no: an expired breaker
\* is closed and forgets its failures.
CloseIfExpired(p) ==
  /\ failures' = [failures EXCEPT ![p] = IF tripped[p] THEN 0 ELSE @]
  /\ tripped' = [tripped EXCEPT ![p] = FALSE]
  /\ UNCHANGED left

RecordFailure(p) ==
  /\ failures' = [failures EXCEPT ![p] = @ + 1]
  /\ IF failures[p] + 1 >= TripAt
     THEN /\ tripped' = [tripped EXCEPT ![p] = TRUE]
          /\ left' = [left EXCEPT ![p] = Cooldown]
     ELSE UNCHANGED <<tripped, left>>

\* Mutated: a success clears the count and leaves the breaker open.
RecordSuccess_KeepTripped(p) ==
  /\ failures' = [failures EXCEPT ![p] = 0]
  /\ UNCHANGED <<tripped, left>>

RecordSuccess(p) ==
  /\ failures' = [failures EXCEPT ![p] = 0]
  /\ tripped' = [tripped EXCEPT ![p] = FALSE]
  /\ UNCHANGED left

\* Time passes for a tripped breaker, and for a bucket.
CoolDown(p) ==
  /\ left[p] > 0
  /\ left' = [left EXCEPT ![p] = @ - 1]
  /\ UNCHANGED <<failures, tripped, tokens, patient, begun, ctx, pc, at, attempt, asked, quoted, outcome>>

Refill(p) ==
  /\ tokens[p] < Capacity
  /\ tokens' = [tokens EXCEPT ![p] = @ + 1]
  /\ UNCHANGED <<breaker, patient, begun, ctx, pc, at, attempt, asked, quoted, outcome>>

\* ---------------------------------------------------------- the failover loop --

Begin(f) ==
  /\ pc[f] = "idle"
  /\ begun < MaxLookups
  /\ begun' = begun + 1
  /\ ctx' = [ctx EXCEPT ![f] = "live"]
  /\ at' = [at EXCEPT ![f] = 1]
  /\ outcome' = [outcome EXCEPT ![f] = None]
  /\ Goto(f, "pick")
  /\ UNCHANGED <<patient, breaker, tokens, attempt, asked, quoted>>

\* The request's deadline of 25 s passes. (Nothing else ends its context.)
ExpireCtx(f) ==
  /\ ~patient
  /\ pc[f] # "idle"
  /\ ctx[f] = "live"
  /\ ctx' = [ctx EXCEPT ![f] = "done"]
  /\ UNCHANGED <<breaker, tokens, patient, begun, pc, at, attempt, asked, quoted, outcome>>

\* if wp.isCircuitBroken(prov) { continue }
Skip(f) ==
  /\ pc[f] = "pick"
  /\ at[f] <= N
  /\ IsCircuitBroken(at[f])
  /\ at' = [at EXCEPT ![f] = @ + 1]
  /\ UNCHANGED <<breaker, tokens, patient, begun, ctx, pc, attempt, asked, quoted, outcome>>

\* Mutated: the breaker is not consulted.
Choose_Always(f) ==
  /\ pc[f] = "pick"
  /\ at[f] <= N
  /\ attempt' = [attempt EXCEPT ![f] = 1]
  /\ Goto(f, "attempt")
  /\ UNCHANGED <<breaker, tokens, patient, begun, ctx, at, asked, quoted, outcome>>

Choose(f) ==
  /\ pc[f] = "pick"
  /\ at[f] <= N
  /\ ~IsCircuitBroken(at[f])
  /\ CloseIfExpired(at[f])
  /\ attempt' = [attempt EXCEPT ![f] = 1]
  /\ Goto(f, "attempt")
  /\ UNCHANGED <<tokens, patient, begun, ctx, at, asked, quoted, outcome>>

\* Every provider has failed or was skipped: the health of the primary is
\* reset and it is called once more.
BestEffort(f) ==
  /\ pc[f] = "pick"
  /\ at[f] > N
  /\ RecordSuccess(1)
  /\ attempt' = [attempt EXCEPT ![f] = 1]
  /\ Goto(f, "attempt")
  /\ UNCHANGED <<tokens, patient, begun, ctx, at, asked, quoted, outcome>>

\* Mutated: the first failure ends the loop.
GiveUp_FirstFailure(f, err) ==
  \/ /\ at[f] <= N
     /\ RecordFailure(at[f])
     /\ at' = [at EXCEPT ![f] = N + 1]
     /\ Goto(f, "pick")
     /\ UNCHANGED outcome
  \/ /\ at[f] > N
     /\ outcome' = [outcome EXCEPT ![f] = err]
     /\ Goto(f, "idle")
     /\ UNCHANGED <<breaker, at>>

\* Mutated: the provider is moved on before its failure is recorded.
GiveUp_BlameNext(f, err) ==
  \/ /\ at[f] <= N
     /\ RecordFailure(IF at[f] < N THEN at[f] + 1 ELSE N)
     /\ at' = [at EXCEPT ![f] = @ + 1]
     /\ Goto(f, "pick")
     /\ UNCHANGED outcome
  \/ /\ at[f] > N
     /\ outcome' = [outcome EXCEPT ![f] = err]
     /\ Goto(f, "idle")
     /\ UNCHANGED <<breaker, at>>

\* checkAvailabilityWithProvider returns err: the loop records a failure of
\* the provider, whatever err is; the best-effort call ends the lookup.
GiveUp(f, err) ==
  \/ /\ at[f] <= N
     /\ RecordFailure(at[f])
     /\ at' = [at EXCEPT ![f] = @ + 1]
     /\ Goto(f, "pick")
     /\ UNCHANGED outcome
  \/ /\ at[f] > N
     /\ outcome' = [outcome EXCEPT ![f] = err]
     /\ Goto(f, "idle")
     /\ UNCHANGED <<breaker, at>>

\* ------------------------------------------ checkAvailabilityWithProvider --

\* The context is looked at before every call and while backing off.
CtxStops(f) ==
  /\ pc[f] \in {"attempt", "backoff"}
  /\ ctx[f] = "done"
  /\ GiveUp(f, "contextError")
  /\ UNCHANGED <<tokens, patient, begun, ctx, attempt, asked, quoted>>

CtxPasses(f) ==
  /\ pc[f] = "attempt"
  /\ ctx[f] = "live"
  /\ Goto(f, "throttle")
  /\ UNCHANGED <<breaker, tokens, patient, begun, ctx, at, attempt, asked, quoted, outcome>>

\* throttle sleeps and polls until the bucket has a token; it does not look
\* at the context.
TakeToken(f) ==
  /\ pc[f] = "throttle"
  /\ tokens[Turn(f)] > 0
  /\ tokens' = [tokens EXCEPT ![Turn(f)] = @ - 1]
  /\ Goto(f, "call")
  /\ UNCHANGED <<breaker, patient, begun, ctx, at, attempt, asked, quoted, outcome>>

\* Mutated: each failed attempt is recorded, as well as the lookup's.
CallFails_Recorded(f) ==
  /\ pc[f] = "call"
  /\ Turn(f) \notin Healthy \/ ctx[f] = "done"
  /\ RecordFailure(Turn(f))
  /\ Goto(f, "backoff")
  /\ UNCHANGED <<tokens, patient, begun, ctx, at, attempt, asked, quoted, outcome>>

CallFails(f) ==
  /\ pc[f] = "call"
  /\ Turn(f) \notin Healthy \/ ctx[f] = "done"
  /\ Goto(f, "backoff")
  /\ UNCHANGED <<breaker, tokens, patient, begun, ctx, at, attempt, asked, quoted, outcome>>

\* The provider's code panics. Nothing on the way recovers but the worker, which
\* ends: the lookup is over, no other provider is tried, and the breaker is not
\* told. (WorkerPool's LookupPanic is what becomes of those who wait for it.)
CallPanics(f) ==
  /\ pc[f] = "call"
  /\ Turn(f) \notin Healthy
  /\ outcome' = [outcome EXCEPT ![f] = "panic"]
  /\ Goto(f, "idle")
  /\ UNCHANGED <<breaker, tokens, patient, begun, ctx, at, attempt, asked, quoted>>

\* The provider says that the domain is taken, or available: then its price
\* is looked for, starting from the first provider.
CallSucceeds(f) ==
  /\ pc[f] = "call"
  /\ RecordSuccess(Turn(f))
  /\ \/ /\ outcome' = [outcome EXCEPT ![f] = "taken"]
        /\ Goto(f, "idle")
        /\ UNCHANGED at
     \/ /\ at' = [at EXCEPT ![f] = 1]
        /\ Goto(f, "scan")
        /\ UNCHANGED outcome
  /\ UNCHANGED <<tokens, patient, begun, ctx, attempt, asked, quoted>>

\* Mutated: attempts are not counted.
BackedOff_Forever(f) ==
  /\ pc[f] = "backoff"
  /\ Goto(f, "attempt")
  /\ UNCHANGED <<breaker, tokens, patient, begun, ctx, at, attempt, asked, quoted, outcome>>

\* The timer of the backoff fires (also when the context is done as well).
BackedOff(f) ==
  /\ pc[f] = "backoff"
  /\ \/ /\ attempt[f] < Attempts
        /\ attempt' = [attempt EXCEPT ![f] = @ + 1]
        /\ Goto(f, "attempt")
        /\ UNCHANGED <<breaker, at, outcome>>
     \/ /\ attempt[f] = Attempts
        /\ GiveUp(f, "providerError")
        /\ UNCHANGED attempt
  /\ UNCHANGED <<tokens, patient, begun, ctx, asked, quoted>>

\* ------------------------------------------------------------ pricing scan --

\* One price goroutine is started for each provider whose breaker is closed.
ScanSkip(f) ==
  /\ pc[f] = "scan"
  /\ at[f] <= N
  /\ IsCircuitBroken(at[f])
  /\ at' = [at EXCEPT ![f] = @ + 1]
  /\ UNCHANGED <<breaker, tokens, patient, begun, ctx, pc, attempt, asked, quoted, outcome>>

ScanAsk(f) ==
  /\ pc[f] = "scan"
  /\ at[f] <= N
  /\ ~IsCircuitBroken(at[f])
  /\ CloseIfExpired(at[f])
  /\ asked' = [asked EXCEPT ![f] = @ \cup {at[f]}]
  /\ at' = [at EXCEPT ![f] = @ + 1]
  /\ UNCHANGED <<tokens, patient, begun, ctx, pc, attempt, quoted, outcome>>

ScanDone(f) ==
  /\ pc[f] = "scan"
  /\ at[f] > N
  /\ Goto(f, "pricing")
  /\ UNCHANGED <<breaker, tokens, patient, begun, ctx, at, attempt, asked, quoted, outcome>>

\* A price goroutine ends with a quote; it calls under a live context only.
PriceQuoted(f, p) ==
  /\ p \in asked[f]
  /\ ctx[f] = "live"
  /\ asked' = [asked EXCEPT ![f] = @ \ {p}]
  /\ quoted' = [quoted EXCEPT ![f] = TRUE]
  /\ UNCHANGED <<breaker, tokens, patient, begun, ctx, pc, at, attempt, outcome>>

\* It ends without one: two failed calls, the context done, or a panic that
\* is recovered. The health of the provider is not touched.
PriceFails(f, p) ==
  /\ p \in asked[f]
  /\ asked' = [asked EXCEPT ![f] = @ \ {p}]
  /\ UNCHANGED <<breaker, tokens, patient, begun, ctx, pc, at, attempt, quoted, outcome>>

\* All price goroutines are done: the lookup returns its best offer, or the
\* "Standard" one.
Price(f) ==
  /\ pc[f] = "pricing"
  /\ asked[f] = {}
  /\ outcome' = [outcome EXCEPT ![f] = IF quoted[f] THEN "quoted" ELSE "standard"]
  /\ quoted' = [quoted EXCEPT ![f] = FALSE]
  /\ Goto(f, "idle")
  /\ UNCHANGED <<breaker, tokens, patient, begun, ctx, at, attempt, asked>>

\* ---------------------------------------------------------- specification --

FlightStep(f) ==
  \/ Skip(f) \/ Choose(f) \/ BestEffort(f)
  \/ CtxStops(f) \/ CtxPasses(f) \/ TakeToken(f)
  \/ CallFails(f) \/ CallPanics(f) \/ CallSucceeds(f) \/ BackedOff(f)
  \/ ScanSkip(f) \/ ScanAsk(f) \/ ScanDone(f) \/ Price(f)

PriceStep(f) == \E p \in Providers : PriceQuoted(f, p) \/ PriceFails(f, p)

Quiescent ==
  /\ begun = MaxLookups
  /\ \A f \in Flights : pc[f] = "idle"
  /\ UNCHANGED vars

Next ==
  \/ \E f \in Flights : Begin(f) \/ ExpireCtx(f) \/ FlightStep(f) \/ PriceStep(f)
  \/ \E p \in Providers : CoolDown(p) \/ Refill(p)
  \/ Quiescent

Spec == Init /\ [][Next]_vars

\* Goroutines that can run do run, provider calls end (each HTTP client has a
\* timeout), and buckets refill with time.
Fairness ==
  /\ \A f \in Flights : WF_vars(FlightStep(f)) /\ WF_vars(PriceStep(f))
  /\ \A p \in Providers : WF_vars(Refill(p))

FairSpec == Spec /\ Fairness

\* -------------------------------------------------------------- properties --

\* Past its breaker check and before it has recorded how the call went.
InFlight(f, p) ==
  at[f] = p /\ pc[f] \in {"attempt", "throttle", "call", "backoff"}

\* The two halves of providerHealth agree at every moment, however failures,
\* successes, expiries and best-effort resets of concurrent lookups fall: a
\* breaker is open exactly when it has counted TripAt failures.
BreakerCountsFailures ==
  \A p \in Providers : tripped[p] <=> failures[p] >= TripAt

\* Each provider's breaker is a Breaker, whichever lookups record on it: nothing
\* but its time, or a success reported by a lookup that calls it, closes it; each
\* call is reported at most once (pool.go:268, 273), and not at all only if it
\* panicked; it forgets its count when it closes. Only the primary also has calls,
\* the best efforts, that clear its record and may fail for free.
Calling(p) == {f \in Flights : Turn(f) = p /\ pc[f] \in {"attempt", "throttle", "call", "backoff"}}
BreakerOf(p) == INSTANCE Breaker WITH
  failures <- failures[p], tripped <- tripped[p], left <- left[p],
  calls <- Calling(p), Callers <- Flights, Forgiving <- p = 1,
  Fragile <- p \notin Healthy
BreakersAreBreakers ==
  /\ \A p \in Providers : BreakerOf(p)!Init
  /\ [][\A p \in Providers : [BreakerOf(p)!Next]_(BreakerOf(p)!vars)]_vars

\* An open breaker goes on counting the failures of the lookups that were let
\* through before it tripped (each of which renews its 30 s), but only of
\* those: the overshoot is at most one failure per flight slot.
LateFailuresBounded ==
  \A p \in Providers :
    failures[p] + Cardinality({f \in Flights : InFlight(f, p)})
      <= TripAt - 1 + Cardinality(Flights)

\* While the breaker of a fallback provider is open, no lookup starts talking
\* to it. (The primary is different: the best-effort call goes through.)
OpenBreakerShields ==
  [][\A p \in Providers \ {1} : IsCircuitBroken(p) =>
       \A f \in Flights :
         /\ InFlight(f, p)' => InFlight(f, p)
         /\ p \in asked'[f] => p \in asked[f]]_vars

\* As long as no context expires, one healthy provider is enough: whatever the
\* others do to their breakers, and however lookups interleave, no lookup
\* ends in an error (pool_hardened_test.go:105 for one sequential lookup). A panic
\* is no error: failover does not save the lookup that meets one (CallPanics).
FailoverSaves ==
  patient /\ Healthy # {} =>
    \A f \in Flights : outcome[f] \notin {"providerError", "contextError"}

\* Every lookup ends, with breakers tripping, buckets empty and contexts
\* expiring on the way: each slot is free again and again.
LookupsEnd == \A f \in Flights : []<>(pc[f] = "idle")

\* -------------------------------------------------------------- progress --

\* What a lookup still has ahead of it, most significant first: the section it
\* is in, the providers it has not come to, the calls to the one in turn, and
\* the stages of such a call.
Section(f) ==
  IF pc[f] = "idle" THEN 0
  ELSE IF pc[f] = "pricing" THEN 1
  ELSE IF pc[f] = "scan" THEN 2 ELSE 3
CallsAhead(f) == IF pc[f] = "pick" THEN Attempts ELSE Attempts - attempt[f]
StagesAhead(f) ==
  IF pc[f] = "attempt" THEN 3
  ELSE IF pc[f] = "throttle" THEN 2
  ELSE IF pc[f] = "call" THEN 1 ELSE 0

\* A step leaves less ahead of the lookup in f, in the lexicographic order.
MovesOn(f) ==
  \/ Section(f)' < Section(f)
  \/ /\ Section(f)' = Section(f)
     /\ \/ at'[f] > at[f]
        \/ /\ at'[f] = at[f]
           /\ \/ CallsAhead(f)' < CallsAhead(f)
              \/ /\ CallsAhead(f)' = CallsAhead(f)
                 /\ StagesAhead(f)' < StagesAhead(f)

\* While a lookup runs, a step is its own and leaves less ahead of it, or ends
\* one of its price goroutines, or does not touch it; goroutines start in the
\* scan only.
KeepsAdvancing(f) ==
  /\ FlightStep(f) => MovesOn(f)
  /\ PriceStep(f) => asked'[f] \subseteq asked[f] /\ asked'[f] # asked[f]
  /\ pc[f] # "idle" =>
       \/ MovesOn(f) /\ (pc[f] # "scan" => asked'[f] = asked[f])
       \/ UNCHANGED <<pc[f], at[f], attempt[f]>> /\ asked'[f] \subseteq asked[f]

\* LookupsEnd without its fairness: nothing ever puts a lookup back, with an
\* attempt too many, a provider twice or a second scan (pool.go 218-502).
LookupsMoveOn == [][\A f \in Flights : KeepsAdvancing(f)]_vars

\* -------------------------------------------- the inductive invariant, by parts --

\* Nothing expires in a patient behaviour.
PatientStaysLive == patient => \A f \in Flights : ctx[f] = "live"

\* Without expiries a healthy provider has no failure to its name.
HealthyUnharmed == patient => \A p \in Healthy : failures[p] = 0

\* Without expiries no lookup gets past a healthy provider, nor fails there.
HealthyInReach ==
  patient => \A f \in Flights : \A p \in Healthy :
    /\ pc[f] \in {"pick", "attempt", "throttle", "call", "backoff"} => at[f] <= p
    /\ pc[f] = "backoff" => at[f] # p

\* The inductive strengthening of the safety properties above.
IndInv ==
  /\ TypeOK
  /\ BreakerCountsFailures
  /\ LateFailuresBounded
  /\ PatientStaysLive
  /\ HealthyUnharmed
  /\ HealthyInReach
  /\ FailoverSaves
===============================================================================
