------------------------------ MODULE WorkerPool ------------------------------
(***************************************************************************)
(* internal/workers/pool.go: WorkerPool.RunChecks.                         *)
(*                                                                         *)
(* One WorkerPool serves every HTTP request of the process.  A request     *)
(* calls RunChecks with a batch of jobs; RunChecks starts its own worker   *)
(* goroutines, which share with the workers of the other requests the      *)
(* Redis cache and one singleflight group.  The module models the          *)
(* interleaving of the workers of several requests: job channel, context   *)
(* checks, cache, singleflight, panics, result channel, return.            *)
(*                                                                         *)
(* executeCheckWithRetry appears here by the outcomes it can have          *)
(* (LookupTaken, LookupAvailable, Quote, LookupError, LookupPanic); module *)
(* Failover looks inside it.                                               *)
(***************************************************************************)
EXTENDS Integers, Sequences

CONSTANTS
  Requests,     \* the concurrent callers of RunChecks
  Domains,      \* the domain names looked up: singleflight and cache keys
  Batch,        \* Batch[r]: the sequence of domains of r's jobs
  WorkerCount,  \* WORKER_COUNT as main.go passes it down: nothing checks it
  Keyless,      \* TRUE iff no provider has credentials
  Caching,      \* TRUE iff main.go has connected to Redis
  MaxPanics     \* bound: lookups that panic in one behaviour

ASSUME BatchAssumption == Batch \in [Requests -> Seq(Domains)]
ASSUME WorkerCountAssumption == WorkerCount \in Int
ASSUME ModesAssumption == Keyless \in BOOLEAN /\ Caching \in BOOLEAN
ASSUME MaxPanicsAssumption == MaxPanics \in Nat

NoWorker == <<"no worker", 0>>
ASSUME NoWorkerAssumption == "no worker" \notin Requests

None == "none"

\* What a lookup can tell: the domain is taken, it is available at a price a
\* provider quoted, or it is available at the "Standard" price of the code.
Good == {"taken", "quoted", "standard"}
Errors == {"providerError", "contextError"}
Answers == Good \cup Errors

Jobs(r) == 1 .. Len(Batch[r])

\* The number of goroutines RunChecks starts: min(concurrency, len(jobs)),
\* and none at all when the configured count is not positive.
PoolSize(r) == IF WorkerCount > Len(Batch[r]) THEN Len(Batch[r]) ELSE WorkerCount

WorkersOf(r) == {r} \X (1 .. PoolSize(r))
Workers == UNION {WorkersOf(r) : r \in Requests}
Req(w) == w[1]

VARIABLES
  phase,       \* phase[r]: where the call of RunChecks of r stands
  ctx,         \* ctx[r]: the context r passed, "live" or "done"
  next,        \* next[r]: index of the next job in r's pre-loaded job channel
  pc,          \* pc[w]: where worker w stands
  job,         \* job[w]: index of the job w holds, 0 between two jobs
  ret,         \* ret[w]: the answer w is about to hand on, if any
  resultChan,  \* resultChan[r]: the results sent and not yet drained
  flight,      \* flight[d]: the worker leading the singleflight of d
  cache,       \* cache[d]: the answer Redis holds for d
  writes,      \* cache writes spawned and not yet done
  panics       \* lookups that have panicked so far

vars == <<phase, ctx, next, pc, job, ret, resultChan, flight, cache, writes, panics>>

Steps == {"idle", "check", "get", "do", "waiting", "avail", "price", "landing",
          "deliver", "crashed", "exited"}
Results(r) == [job : Jobs(r), answer : Answers]
Writes == [by : Requests \X Nat, domain : Domains, answer : Good]

TypeOK ==
  /\ phase \in [Requests -> {"new", "running", "returned"}]
  /\ ctx \in [Requests -> {"live", "done"}]
  /\ next \in [Requests -> Nat \ {0}]
  /\ pc \in [Workers -> Steps]
  /\ job \in [Workers -> Nat]
  /\ ret \in [Workers -> Answers \cup {None}]
  /\ resultChan \in [Requests -> Seq([job : Nat, answer : Answers])]
  /\ flight \in [Domains -> Workers \cup {NoWorker}]
  /\ cache \in [Domains -> Good \cup {None}]
  /\ writes \subseteq Writes
  /\ panics \in Nat

Init ==
  /\ phase = [r \in Requests |-> "new"]
  /\ ctx = [r \in Requests |-> "live"]
  /\ next = [r \in Requests |-> 1]
  /\ pc = [w \in Workers |-> "idle"]
  /\ job = [w \in Workers |-> 0]
  /\ ret = [w \in Workers |-> None]
  /\ resultChan = [r \in Requests |-> << >>]
  /\ flight = [d \in Domains |-> NoWorker]
  /\ cache = [d \in Domains |-> None]
  /\ writes = {}
  /\ panics = 0

DomainOf(w) == Batch[Req(w)][job[w]]
Stopped(w) == pc[w] \in {"exited", "crashed"}

\* A worker inside sfGroup.Do as the caller that runs the function.
Leading(w) == pc[w] \in {"avail", "price", "landing"}

Goto(w, step) == pc' = [pc EXCEPT ![w] = step]

\* ------------------------------------------------------------- RunChecks --

\* The call begins; a batch without jobs returns nil at once.
Start(r) ==
  /\ phase[r] = "new"
  /\ phase' = [phase EXCEPT ![r] = IF Batch[r] = << >> THEN "returned" ELSE "running"]
  /\ UNCHANGED <<ctx, next, pc, job, ret, resultChan, flight, cache, writes, panics>>

\* Mutated: wg.Add(1) inside the goroutine, so that Wait may see no worker.
Return_NoWait(r) ==
  /\ phase[r] = "running"
  /\ phase' = [phase EXCEPT ![r] = "returned"]
  /\ UNCHANGED <<ctx, next, pc, job, ret, resultChan, flight, cache, writes, panics>>

\* wg.Wait() is over once every goroutine has run its deferred wg.Done();
\* the result channel is closed and drained.
Return(r) ==
  /\ phase[r] = "running"
  /\ \A w \in WorkersOf(r) : Stopped(w)
  /\ phase' = [phase EXCEPT ![r] = "returned"]
  /\ UNCHANGED <<ctx, next, pc, job, ret, resultChan, flight, cache, writes, panics>>

\* The request's deadline of 25 s passes.
ExpireCtx(r) ==
  /\ phase[r] # "returned"
  /\ ctx[r] = "live"
  /\ ctx' = [ctx EXCEPT ![r] = "done"]
  /\ UNCHANGED <<phase, next, pc, job, ret, resultChan, flight, cache, writes, panics>>

\* ----------------------------------------------------------- worker loop --

\* for job := range jobChan
Receive(w) ==
  /\ phase[Req(w)] = "running"
  /\ pc[w] = "idle"
  /\ next[Req(w)] <= Len(Batch[Req(w)])
  /\ job' = [job EXCEPT ![w] = next[Req(w)]]
  /\ next' = [next EXCEPT ![Req(w)] = @ + 1]
  /\ Goto(w, "check")
  /\ UNCHANGED <<phase, ctx, ret, resultChan, flight, cache, writes, panics>>

\* The job channel is closed and empty.
Exit(w) ==
  /\ phase[Req(w)] = "running"
  /\ pc[w] = "idle"
  /\ next[Req(w)] > Len(Batch[Req(w)])
  /\ Goto(w, "exited")
  /\ UNCHANGED <<phase, ctx, next, job, ret, resultChan, flight, cache, writes, panics>>

\* Mutated: the "continue" after the early result is missing.
Abort_NoContinue(w) ==
  /\ pc[w] = "check"
  /\ ctx[Req(w)] = "done"
  /\ Len(resultChan[Req(w)]) < Len(Batch[Req(w)])
  /\ resultChan' = [resultChan EXCEPT ![Req(w)] =
                      Append(@, [job |-> job[w], answer |-> "contextError"])]
  /\ Goto(w, "get")
  /\ UNCHANGED <<phase, ctx, next, job, ret, flight, cache, writes, panics>>

\* Mutated: "return" on a done context, without a result.
Abort_Silent(w) ==
  /\ pc[w] = "check"
  /\ ctx[Req(w)] = "done"
  /\ Goto(w, "exited")
  /\ UNCHANGED <<phase, ctx, next, job, ret, resultChan, flight, cache, writes, panics>>

\* The context is done when the job is picked up: no lookup.
Abort(w) ==
  /\ pc[w] = "check"
  /\ ctx[Req(w)] = "done"
  /\ ret' = [ret EXCEPT ![w] = "contextError"]
  /\ Goto(w, "deliver")
  /\ UNCHANGED <<phase, ctx, next, job, resultChan, flight, cache, writes, panics>>

PassCtx(w) ==
  /\ pc[w] = "check"
  /\ ctx[Req(w)] = "live"
  /\ Goto(w, "get")
  /\ UNCHANGED <<phase, ctx, next, job, ret, resultChan, flight, cache, writes, panics>>

Hit(w) ==
  /\ pc[w] = "get"
  /\ cache[DomainOf(w)] # None
  /\ ret' = [ret EXCEPT ![w] = cache[DomainOf(w)]]
  /\ Goto(w, "deliver")
  /\ UNCHANGED <<phase, ctx, next, job, resultChan, flight, cache, writes, panics>>

\* Not found, or Redis failed, or there is no Redis: GetDomainCheck reports
\* all of them as a miss, so a miss is possible whatever the cache holds.
Miss(w) ==
  /\ pc[w] = "get"
  /\ Goto(w, "do")
  /\ UNCHANGED <<phase, ctx, next, job, ret, resultChan, flight, cache, writes, panics>>

\* sfGroup.Do finds a call of the same domain in progress and waits for it,
\* whichever request it belongs to.
Join(w) ==
  /\ pc[w] = "do"
  /\ flight[DomainOf(w)] # NoWorker
  /\ Goto(w, "waiting")
  /\ UNCHANGED <<phase, ctx, next, job, ret, resultChan, flight, cache, writes, panics>>

\* sfGroup.Do registers a new call; w runs it under its own context.
Lead(w) ==
  /\ pc[w] = "do"
  /\ flight[DomainOf(w)] = NoWorker
  /\ flight' = [flight EXCEPT ![DomainOf(w)] = w]
  /\ Goto(w, "avail")
  /\ UNCHANGED <<phase, ctx, next, job, ret, resultChan, cache, writes, panics>>

\* resultChan <- res
Deliver(w) ==
  /\ pc[w] = "deliver"
  /\ Len(resultChan[Req(w)]) < Len(Batch[Req(w)])
  /\ resultChan' = [resultChan EXCEPT ![Req(w)] =
                      Append(@, [job |-> job[w], answer |-> ret[w]])]
  /\ job' = [job EXCEPT ![w] = 0]
  /\ ret' = [ret EXCEPT ![w] = None]
  /\ Goto(w, "idle")
  /\ UNCHANGED <<phase, ctx, next, flight, cache, writes, panics>>

\* ------------------------------------- the lookup, run by a flight's leader --

\* A lookup that ends with an answer hands a copy to a goroutine that writes
\* it to Redis under a context of its own.
Answered(w, a) ==
  /\ ret' = [ret EXCEPT ![w] = a]
  /\ Goto(w, "landing")
  /\ writes' = IF Caching
       THEN writes \cup {[by |-> <<Req(w), job[w]>>, domain |-> DomainOf(w), answer |-> a]}
       ELSE writes

\* Mutated: the cache is written before the error is looked at.
Failed_Cached(w, e) ==
  /\ ret' = [ret EXCEPT ![w] = e]
  /\ Goto(w, "landing")
  /\ writes' = writes \cup {[by |-> <<Req(w), job[w]>>, domain |-> DomainOf(w), answer |-> e]}

Failed(w, e) ==
  /\ ret' = [ret EXCEPT ![w] = e]
  /\ Goto(w, "landing")
  /\ UNCHANGED writes

\* KeylessCheckAvailability always has an answer; the provider loop consults
\* the leader's context before every call.
MayAnswer(w) == Keyless \/ ctx[Req(w)] = "live"

LookupTaken(w) ==
  /\ pc[w] = "avail"
  /\ MayAnswer(w)
  /\ Answered(w, "taken")
  /\ UNCHANGED <<phase, ctx, next, job, resultChan, flight, cache, panics>>

LookupAvailable(w) ==
  /\ pc[w] = "avail"
  /\ MayAnswer(w)
  /\ Goto(w, "price")
  /\ UNCHANGED <<phase, ctx, next, job, ret, resultChan, flight, cache, writes, panics>>

\* Mutated: a provider's own timeout is passed on as the context's error.
LookupError_AnyTimeout(w) ==
  /\ pc[w] = "avail"
  /\ ~Keyless
  /\ Failed(w, "contextError")
  /\ UNCHANGED <<phase, ctx, next, job, resultChan, flight, cache, panics>>

\* The best-effort call on the primary provider failed too.
LookupError(w) ==
  /\ pc[w] = "avail"
  /\ ~Keyless
  /\ Failed(w, IF ctx[Req(w)] = "live" THEN "providerError" ELSE "contextError")
  /\ UNCHANGED <<phase, ctx, next, job, resultChan, flight, cache, panics>>

\* The pricing scan: every price call consults the leader's context first,
\* and "Standard" stands in when no provider answers.
Quote(w) ==
  /\ pc[w] = "price"
  /\ \/ ctx[Req(w)] = "live" /\ Answered(w, "quoted")
     \/ Answered(w, "standard")
  /\ UNCHANGED <<phase, ctx, next, job, resultChan, flight, cache, panics>>

\* Every caller waiting in sfGroup.Do for the flight of w.
Followers(w) == {v \in Workers : pc[v] = "waiting" /\ DomainOf(v) = DomainOf(w)}

\* The flight ends: the key is forgotten and every waiter gets the leader's
\* value and error, in one critical section of the singleflight group.
Land(w) ==
  /\ pc[w] = "landing"
  /\ LET Party == Followers(w) \cup {w} IN
       /\ ret' = [v \in Workers |-> IF v \in Party THEN ret[w] ELSE ret[v]]
       /\ pc' = [v \in Workers |-> IF v \in Party THEN "deliver" ELSE pc[v]]
  /\ flight' = [flight EXCEPT ![DomainOf(w)] = NoWorker]
  /\ UNCHANGED <<phase, ctx, next, job, resultChan, cache, writes, panics>>

\* Mutated: the panic takes the leader only and the waiters are not woken.
LookupPanic_LeaderOnly(w) ==
  /\ panics < MaxPanics
  /\ pc[w] = "avail"
  /\ Goto(w, "crashed")
  /\ flight' = [flight EXCEPT ![DomainOf(w)] = NoWorker]
  /\ panics' = panics + 1
  /\ UNCHANGED <<phase, ctx, next, job, ret, resultChan, cache, writes>>

\* A panic of the lookup is raised again in the leader and in every waiter,
\* of whichever request.  The recover of each worker is outside its loop:
\* the worker is gone, with its job.
LookupPanic(w) ==
  /\ panics < MaxPanics
  /\ pc[w] = "avail"
  /\ LET Party == Followers(w) \cup {w} IN
       pc' = [v \in Workers |-> IF v \in Party THEN "crashed" ELSE pc[v]]
  /\ flight' = [flight EXCEPT ![DomainOf(w)] = NoWorker]
  /\ panics' = panics + 1
  /\ UNCHANGED <<phase, ctx, next, job, ret, resultChan, cache, writes>>

\* -------------------------------------------------------- cache goroutines --

\* SetDomainCheck: the writes of successive flights reach Redis in any order.
CacheSet(x) ==
  /\ cache' = [cache EXCEPT ![x.domain] = x.answer]
  /\ writes' = writes \ {x}
  /\ UNCHANGED <<phase, ctx, next, pc, job, ret, resultChan, flight, panics>>

\* The write times out or fails: its error is dropped.
CacheSetFails(x) ==
  /\ writes' = writes \ {x}
  /\ UNCHANGED <<phase, ctx, next, pc, job, ret, resultChan, flight, cache, panics>>

\* cacheTTL has passed.
CacheExpire(d) ==
  /\ cache[d] # None
  /\ cache' = [cache EXCEPT ![d] = None]
  /\ UNCHANGED <<phase, ctx, next, pc, job, ret, resultChan, flight, writes, panics>>

\* ---------------------------------------------------------- specification --

WorkerStep(w) ==
  \/ Receive(w) \/ Exit(w) \/ Abort(w) \/ PassCtx(w) \/ Hit(w) \/ Miss(w)
  \/ Join(w) \/ Lead(w) \/ Deliver(w)
  \/ LookupTaken(w) \/ LookupAvailable(w) \/ LookupError(w) \/ Quote(w) \/ Land(w)

\* Every batch has returned and no cache write is outstanding.
Quiescent ==
  /\ \A r \in Requests : phase[r] = "returned"
  /\ writes = {}
  /\ UNCHANGED vars

Next ==
  \/ \E r \in Requests : Start(r) \/ Return(r) \/ ExpireCtx(r)
  \/ \E w \in Workers : WorkerStep(w) \/ LookupPanic(w)
  \/ \E x \in writes : CacheSet(x) \/ CacheSetFails(x)
  \/ \E d \in Domains : CacheExpire(d)
  \/ Quiescent

Spec == Init /\ [][Next]_vars

\* The Go scheduler runs every goroutine that can run; a caller calls.  The
\* deadline, a panic and Redis are left to themselves.
Fairness ==
  /\ \A r \in Requests : WF_vars(Start(r)) /\ WF_vars(Return(r))
  /\ \A w \in Workers : WF_vars(WorkerStep(w))

FairSpec == Spec /\ Fairness

\* -------------------------------------------------------------- properties --

Answering(r) == {resultChan[r][i].job : i \in DOMAIN resultChan[r]}

\* Worker w holds a job it has received and not answered; a worker that a
\* panic has ended holds its last one for ever.
Holding(w) == pc[w] \notin {"idle", "exited"}

\* Job j of r is lost with the workers that could have answered it.
LostJob(r, j) ==
  \/ \E w \in WorkersOf(r) : pc[w] = "crashed" /\ job[w] = j
  \/ \A w \in WorkersOf(r) : pc[w] = "crashed"

\* A result is never sent twice for one job, and a job that some worker still
\* holds has no result yet: however the workers of a batch interleave, and
\* whichever flights they share, the caller can pair results with jobs
\* (handler.go builds one domain list per name from them), and a send finds room
\* in the channel, which has as many places as there are jobs.
AnsweredOnce ==
  \A r \in Requests :
    /\ \A i, k \in DOMAIN resultChan[r] :
         resultChan[r][i].job = resultChan[r][k].job => i = k
    /\ \A w \in WorkersOf(r) : Holding(w) => job[w] \notin Answering(r)

\* RunChecks returns without a result for a job only because a panic took the
\* worker that held it, or every worker of the batch before one could pick it
\* up.  This is the promise of pool_test.go:27 (one result per job) as far as
\* the code keeps it when at least one worker is started.
OnlyCrashesLoseJobs ==
  \A r \in Requests :
    phase[r] = "returned" => \A j \in Jobs(r) \ Answering(r) : LostJob(r, j)

\* A worker that waits in sfGroup.Do waits for a flight of its domain that a
\* worker of a running request is flying, and no two flights of one domain
\* are in the air at once (pool_hardened_test.go: one call for concurrent
\* requests).  No order of joins, panics and returns strands a waiter.
FlightsHaveLeaders ==
  /\ \A w \in Workers : pc[w] = "waiting" =>
       /\ flight[DomainOf(w)] \in Workers
       /\ phase[Req(flight[DomainOf(w)])] = "running"
       /\ Leading(flight[DomainOf(w)])
  /\ \A w \in Workers : Leading(w) => flight[DomainOf(w)] = w

\* A job answered with a context error belongs to a request whose own context
\* is done, or it shared its domain with a request whose context is done:
\* a flight hands its leader's cancellation to every follower.
ContextErrorHasCause ==
  \A r \in Requests : \A i \in DOMAIN resultChan[r] :
    resultChan[r][i].answer = "contextError" =>
      \E q \in Requests :
        /\ ctx[q] = "done"
        /\ \/ q = r
           \/ \E k \in Jobs(q) : Batch[q][k] = Batch[r][resultChan[r][i].job]

\* After RunChecks has returned nothing is sent on its closed result channel
\* (a send on a closed channel would panic).
NoLateResult ==
  [][\A r \in Requests : phase[r] = "returned" => resultChan'[r] = resultChan[r]]_vars

\* Every call of RunChecks returns, whatever panics, expires or fails in Redis.
EveryBatchReturns == \A r \in Requests : <>(phase[r] = "returned")

\* pool_test.go:27: one result for every job of the batch.
EveryJobAnswered ==
  \A r \in Requests : phase[r] = "returned" => Answering(r) = Jobs(r)
\* -------------------------------------------- the inductive invariant, by parts --

\* A request that has not called RunChecks has touched nothing.
NewUntouched ==
  \A r \in Requests : phase[r] = "new" =>
    /\ next[r] = 1
    /\ resultChan[r] = << >>
    /\ \A w \in WorkersOf(r) : pc[w] = "idle"

\* Only received jobs are held or answered.
OnlyReceived ==
  \A r \in Requests :
    /\ next[r] <= Len(Batch[r]) + 1
    /\ \A w \in WorkersOf(r) : Holding(w) => job[w] \in 1 .. next[r] - 1
    /\ Answering(r) \subseteq 1 .. next[r] - 1

\* No job is held by two workers.
HeldOnce ==
  \A r \in Requests : \A v, w \in WorkersOf(r) :
    Holding(v) /\ Holding(w) /\ job[v] = job[w] => v = w

\* A received job is answered unless a worker holds it.
NothingDropped ==
  \A r \in Requests : \A j \in 1 .. next[r] - 1 :
    j \in Answering(r) \/ \E w \in WorkersOf(r) : Holding(w) /\ job[w] = j

\* A worker leaves its loop when no job is left to receive.
ExitedLate ==
  \A r \in Requests : \A w \in WorkersOf(r) :
    pc[w] = "exited" => next[r] = Len(Batch[r]) + 1

\* RunChecks has returned only if every worker of the call has stopped.
ReturnedStopped ==
  \A r \in Requests : phase[r] = "returned" => \A w \in WorkersOf(r) : Stopped(w)

\* A registered flight is flown by its leader, over its domain.
FlightsFlown ==
  \A d \in Domains : flight[d] # NoWorker =>
    Leading(flight[d]) /\ DomainOf(flight[d]) = d

\* A worker that is about to hand on an answer has one.
AnswerAtHand ==
  \A w \in Workers : pc[w] \in {"landing", "deliver"} => ret[w] \in Answers

\* The inductive strengthening of the safety properties above.
IndInv ==
  /\ TypeOK
  /\ NewUntouched
  /\ OnlyReceived
  /\ HeldOnce
  /\ AnsweredOnce
  /\ NothingDropped
  /\ ExitedLate
  /\ ReturnedStopped
  /\ FlightsHaveLeaders
  /\ FlightsFlown
  /\ AnswerAtHand

\* ------------------------------------------------------------------ progress --

\* The guards of WorkerStep: everybody who is not waiting for a flight can go on,
\* with a result only if the channel has room for it.
CanStep(w) ==
  /\ phase[Req(w)] = "running"
  /\ pc[w] \notin {"waiting", "exited", "crashed"}
  /\ pc[w] = "deliver" => Len(resultChan[Req(w)]) < Len(Batch[Req(w)])

\* No call is stuck: its workers have all stopped, so that it can return, or one of
\* them, or the worker of another call whose flight one of them waits for, can step.
NeverStuck ==
  \A r \in Requests : phase[r] = "running" =>
    \/ \A w \in WorkersOf(r) : Stopped(w)
    \/ \E w \in WorkersOf(r) :
         \/ CanStep(w)
         \/ pc[w] = "waiting" /\ CanStep(flight[DomainOf(w)])

\* The steps that a worker may still make with the job it holds, if any.
StepsLeft(step) ==
  CASE step = "check" -> 8 [] step = "get" -> 7 [] step = "do" -> 6
    [] step = "avail" -> 5 [] step = "price" -> 4 [] step \in {"landing", "waiting"} -> 3
    [] step = "deliver" -> 2 [] step = "idle" -> 1 [] OTHER -> 0

\* The steps that w may still make: those, and eight for each job not yet received.
WorkLeft(w) == 8 * (Len(Batch[Req(w)]) + 1 - next[Req(w)]) + StepsLeft(pc[w])

\* Each step of a worker takes from what it has left to do, and nothing that anybody
\* does adds to it: no cycle of joins, retries or cache misses keeps a worker busy.
WorkGoesDown ==
  [][\A w \in Workers :
       /\ WorkLeft(w)' <= WorkLeft(w)
       /\ WorkerStep(w) \/ LookupPanic(w) => WorkLeft(w)' < WorkLeft(w)]_vars

\* ---------------------------------------------------------------- refinement --

\* The outcome a job of r has come to, as its caller will see it.
Outcome(r, j) ==
  LET Sent == {i \in DOMAIN resultChan[r] : resultChan[r][i].job = j} IN
  IF Sent # {} THEN resultChan[r][CHOOSE i \in Sent : TRUE].answer
  ELSE IF LostJob(r, j) THEN "lost" ELSE "open"

Abstract == INSTANCE BatchCheck WITH
  outcome <- [x \in UNION {{r} \X Jobs(r) : r \in Requests} |-> Outcome(x[1], x[2])],
  returned <- {r \in Requests : phase[r] = "returned"}

\* Seen from its callers, RunChecks does what BatchCheck promises: each job
\* comes to one lasting outcome, only a panic loses jobs, and a call returns
\* exactly when its jobs are settled (at least one worker being configured).
ImplementsBatchCheck == Abstract!Spec
===============================================================================
