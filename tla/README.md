# NameForge: verification

NameForge is a Go service that invents brand names and tells which of their
domains can be registered, and for how much. This directory holds TLA+ models
of the parts of it in which goroutines, timeouts and partial failures meet,
configurations that check them with TLC, and proofs that TLAPS checks.

    tlc -config MCWorkerPool.cfg MCWorkerPool     (any configuration, with its MC module)
    tlapm WorkerPoolProofs.tla                    (and the other *Proofs.tla)

Line numbers are those of the commit the models were written from. `PROJECT.json`
maps each definition to the lines it stands for.

## 1. The system

One process (`cmd/api/main.go`) serves HTTP with Fiber. A `POST /api/generate`
passes the rate limiter, generates names, saves them in Postgres, and hands up
to 25 names x TLDs to the worker pool, which consults Redis, the registrars and
public registries. The answers are ranked and returned; what is to be logged
goes to a queue that background workers write to Postgres. On SIGTERM the
process drains its requests, closes the queue and waits for the workers. It boots
without Postgres or Redis if it has to, and a kill has it booted again.

| Component | State it keeps | Operations | Talks to |
|---|---|---|---|
| Worker pool (`workers/pool.go` RunChecks) | per call: job channel, result channel, WaitGroup; shared by all calls: the singleflight group | RunChecks and its worker loop | Redis cache, lookups |
| Lookup (`pool.go` executeCheckWithRetry) | shared: per provider a breaker (failures, tripped, trippedUntil) and a token bucket | failover loop, retries with backoff, best-effort call, price goroutines | providers, keyless check |
| Redis cache (`cache/redis.go`) | domain -> answer, 24 h | GetDomainCheck, SetDomainCheck | Redis |
| Log queue (`db/postgres.go`) | bounded channel of closures, three workers | Start, Enqueue, Stop | handlers, main, Postgres |
| Rate limiter (`api/middleware.go`) | Redis: sorted set per key; process: map of timestamps under a mutex | authentication, checkRedisRateLimit, LocalLimiter.Allow | Redis |
| Boot (`cmd/api/main.go`, InitDB, migrateSchema, InitRedis) | connection pool or none, cache client or none; Postgres: schema, seeded key | Start to Listen, once per life of a process | Postgres, Redis |
| Generate handler (`api/handler.go`) | per request: names, jobs, a 25 s context | one long function | all of the above |
| Health, readiness, analytics | none | one function each | Postgres, Redis |
| Keyless check (`providers/keyless.go`, head of `hostinger.go`) | process-wide: a map of WHOIS servers, the breaker of the price scraper | KeylessCheckAvailability, GetPrice | DNS, RDAP, WHOIS, a web page |
| Other providers (`providers/*.go`) | none | CheckAvailability, GetPrice | the network |
| Generators, orchestrator (`generator/*.go`) | none (word lists) | two goroutines and a merge | Gemini |
| Filter, ranking (`filters`, `ranking`) | none | pure functions | |
| Configuration (`config/config.go`) | none | Load, Validate | environment |

### What is hard here

* **One request's fate in another's hands.** The singleflight group is shared by
  all requests. A worker that joins a flight gets the result of a lookup run
  under a *different* request's context, without watching its own; if the lookup
  panics, singleflight raises the panic again in every waiter.
* **Recover outside the loop.** The workers of a batch and those of the log queue
  recover outside their loops: a panic ends the worker, not just the job.
* **Breakers read, released, and used much later.** A provider is called long
  after its breaker was looked at; failures of such calls count on an open breaker.
* **Two limiters.** A late Redis reply has a request counted twice, and Redis may run
  a script long after its caller has given up; clocks are read before the script runs;
  expiry is in whole seconds; the member of the sorted set is a millisecond.
* **Shutdown with two timeouts.** Each wait may be cut short, and what it waited
  for goes on running.
* **Silence taken for an answer.** The keyless check takes failed DNS lookups for
  "no record", and a WHOIS text for "registered" unless it finds a phrase in it, which
  may be as short as "available" and stand in the terms of use of a registered domain.
* **A lock given up between a look and an act.** IsScraperTripped changes its read
  lock for a write lock; the WHOIS map is read, left, and written later.
* **A boot that gives up.** A migration is no transaction, may be killed half way or
  race with that of another process, and a process that could not finish it serves
  on without a database until it is restarted.
* **One key, several limits.** Tokens of one subject share a window and bring limits
  of their own.
* **Arithmetic that decides the order.** Penalties, boosts, clamps and three
  conversions of prices (to compare, to score, to show) decide what stands first in
  the response and for how much.

The complete list, each hazard with its line and its properties, is under
`hazards` in `PROJECT.json`.

### What makes each component correct

* Worker pool: a batch returns, with one result per job; results are lost only to
  panics; nobody waits for a flight that nobody flies; no send on a closed or a
  full channel.
* Lookup: it ends; one healthy provider is enough; a breaker is open exactly when
  it counted enough failures, and keeps new calls away while it is.
* Log queue: a request never waits for the database; nothing accepted is lost or
  written twice, panics aside; a clean shutdown is one.
* Rate limiter: per window no more than the limit a request brings, nobody under it
  refused.
* Boot: it ends, whether or not Postgres and Redis are there and their URLs are right;
  nothing uses half a schema; a database or a cache is missing only for a reason; /readyz
  tells; a revoked key stays revoked; a summary's counts are of the time of its request.
* Keyless check: never wrong on the word of DNS or of a registry; the scraper breaker
  is closed early by nothing but a success.
* Generate handler with generators, filter and ranking: an available domain stands
  no lower than a taken one of the same name; no comparable offer is shown cheaper than the
  price; a domain check is logged under the name that asked for it; no domain twice, no
  avoided word in a name.

## 2. The modules

| Module | Models | Checked by | Proved in |
|---|---|---|---|
| `WorkerPool` | RunChecks, its workers, cache, singleflight | `MCWorkerPool` + 3 cfgs | `WorkerPoolProofs`, `PoolPromiseProofs` |
| `BatchCheck` | what RunChecks promises (abstract) | `MCWorkerPoolRefine.cfg` | `PoolPromiseProofs` |
| `Failover` | executeCheckWithRetry, breakers, buckets, price scan | `MCFailover` | `FailoverProofs` |
| `Breaker` | what a circuit breaker promises (abstract) | `MCFailover`, `MCKeylessProvider` | `FailoverProofs`, `KeylessProofs` |
| `LogQueue` | queue, logger workers, enqueuing handlers, shutdown | `MCLogQueue` + 2 cfgs | `LogQueueProofs` |
| `RateLimiter` | limits of credentials, Redis script, fallback, LocalLimiter | `MCRateLimiter` + 2 cfgs | `RateLimiterProofs` |
| `KeylessProvider` | DNS, RDAP, WHOIS phases; WHOIS map; scraper breaker | `MCKeylessProvider` + 2 cfgs | `KeylessProofs` |
| `GenerateRequest` | one request: validation to response | `MCGenerateRequest` | `GenerateProofs` |
| `NameFilter`, `Ranking`, `Providers` | the pure functions it uses | through `GenerateRequest` | `GenerateProofs` |
| `ServerLife` | configuration, boot, migration, restarts, /readyz, /api/analytics | `MCServerLife` | `ServerProofs` |

`X_Variant` operators in a module, commented "Mutated", are plausible bugs of the
operator `X` that follows. They are used to see that each property can fail and
are not part of any specification.

### WorkerPool

A request `r` is one call of `RunChecks` with the batch `Batch[r]`. A worker is a
pair `<<r, i>>`; `PoolSize` is the code's `min(concurrency, len(jobs))`. The job
channel is filled and closed before the workers start, so it is an index `next`.
`pc` follows the loop body: `idle` (receive), `check` (ctx.Err), `get` (cache),
`do` (singleflight), then `waiting` for the caller that joins, or `avail`,
`price`, `landing` for the one that leads; `deliver` is the send. `Land` and
`LookupPanic` move leader and waiters together, as the library does (it wakes
them, then each runs on; nothing they read changes in between). A cache write is
a member of `writes` until it happens or fails.
`executeCheckWithRetry` appears by its outcomes only; `Failover` looks inside.

`BatchCheck` has neither workers nor channels: a job is open, answered or lost,
for good; one panic may lose several; a call returns when none of its jobs is
open. The refinement mapping computes a job's outcome from the result channel and
from the crashed workers. It is checked with keyed providers, whose lookups may also
end in errors.

### Failover

`Flights` are slots in which lookups (of different domains) run one after the
other; what they share are `failures`, `tripped`, `left` (time to trippedUntil)
and `tokens`. `pick` is the head of the provider loop with its breaker check,
`attempt`/`throttle`/`call`/`backoff` are checkAvailabilityWithProvider, `at = N+1`
is the best-effort call, `scan` and `pricing` are the price goroutines. Healthy
providers answer every call made under a live context. Others may panic in a call
(`CallPanics`): nothing recovers before the worker, so that the lookup is over without
failover and the breaker hears nothing of it. `patient`, chosen
at the start, says that no context expires in this behaviour. Time is only what it does:
`CoolDown` and `Refill`. The two breakers in the code share no line, only
their shape; `Breaker` is that shape (callers begin calls and report each of them at most
once; a reported failure counts, from the threshold on it opens for the cooldown; a reported
success closes; nothing else closes early), and each provider's record here, and the
scraper's in `KeylessProvider`, implements it. The record of the primary is a
`Forgiving` one: a best-effort call clears it when it begins, and its failure does not count.
The record of a provider that may panic is a `Fragile` one: a call may be lost (`Lose`).

### LogQueue

`fate` follows each task. Main walks `serving, draining, stopping, flushing,
closing, exited`; both waits may time out at any moment. A send on the closed
queue panics in the handler and its recover answers 500. The three kinds of
shutdown (clean, forced past the handlers, forced past the logger) come from
which wait was cut short.

### RateLimiter

One key. `LimitOf` is what the authentication grants for a token of that key; the
request carries the limit through the script and the fallback. `zset` is a set of times because the script uses the timestamp as score
*and* member. `expiry` is EXPIRE's absolute time, rounded as the code does.

A request sends its script up to `Attempts` times, as go-redis retries, and falls back when
the client gives up, after `Patience` at the latest. `Patience` stands for the client's own
timeouts: the 250 ms of the context bound how long it waits for a connection, not how long it
reads from one (`ContextTimeoutEnabled` is not set, `redis.go:26`). A script that was given up
(`Abandon`) may be lost, or is `late`: Redis runs it (`EvalLate`) at any later time, with its
old clock, whatever has become of its caller; one that did run may have its reply lost, and be
sent, and run, again.

Three variables are history, forgotten once no property looks back that far. `passed` are the
requests let through on the word of Redis, with the clock they sent and the time they were let
through; `byRedis` and `byLocal` say how many scripts of a limit have admitted, and how many
requests the local limiter has let through, at a time. What a window holds is the number of
their `Entries`, a cardinality. `RedisWindow` counts what was let through, `NoLockout` what the
scripts, the late ones included, have admitted.

### KeylessProvider

A caller `c` runs one call after another: `dns`, `rdap`, `server`, `iana`, `whois` for
an availability, `check`, `reset`, `scrape` for a price. A DNS record and the answer of
a registry over RDAP are true of the domain (`taken`), if they come. RDAP answers 404
as well for a TLD of which it knows no registry (those not `Served`). A WHOIS text is not
assumed to be anything: the code looks for phrases in it, as far as it was read
(`keyless.go:232-262`), and a phrase may be in a text or not whether the domain is registered
or not. `word` is what an answer rests on
and `failed` whether a DNS lookup failed; the code keeps neither, the properties
need them. `IsScraperTripped` and `ResetScraper` are the two lock regions of one
function, so other callers come in between. An expired context shows as failures of
the sources that are left.

### GenerateRequest, NameFilter, Ranking

`pc` is the section of GenerateHandler the request is in; each section of straight-line
code is an action, each round of the loop that saves names another. The context may
expire before any of them up to the checks, by its 25 s only: it is made from
`c.UserContext()`, which a client that leaves does not end. The engines, RunChecks and the database
appear by what they may return: any list of drafts, a result (perhaps of a lookup led
by another request's job), an error or nothing per job, an id or none. Names are
tuples of letters, so that the filter's rules and the avoided words are the code's.
`Providers` has the plans that GetPrice makes of a page, an answer or a mock's variation;
`wiring` is the choice of main.go between mocks, keyless and keyed providers. Offers are
in hundredths of their currency and amounts in half paise, where the code's floats are
whole numbers. The code converts three times, and not in the same way: the pool compares
offers in rupees and takes for rupees what is not in dollars (`InRupees`, `pool.go:399-402`);
the handler scores in dollars and takes for dollars what is not in rupees (`ScoredAt`,
`handler.go:259-263`); it shows dollars in rupees and everything else as it is (`Shown`).
`Sortings` leaves the order of equal scores open, as `sort.Slice` does.

Three things the model shows that no property is about: a quote in a third currency, as GoDaddy's
API may give one, reaches the response in that currency, though `docs/PROJECT_CONTEXT.md:100`
has "All prices displayed in INR" (on the instance of `generate_request` such an item is shown);
GoDaddy's plan with e-mail counts
as an offer for the domain (only names with "free with hosting" or "hosting bundle" are
set aside, `pool.go:395`), and is the cheapest for `.com`; and a page that asks for 0,
which getLivePrice does not refuse, may leave a domain without any offer that has a price, so that
the first offer, of 0, is the best one.

### ServerLife

A process `s` is `down`, `pinging`, `migrating`, `caching` or `serving`. `schema` is the set of
migration statements that have taken effect; `step` is the one a process is at; a statement
fails without Postgres, without the tables it refers to, or against a concurrent migration.
`pool`, `logger` and `cache` are what the process came up with and keeps for its life.
`Crash` takes what is in memory, the writes queued and the requests being answered included.
`disturbed` is a history variable: an outage, or another process migrating, met this life
of the process; `Start` begins it anew. One request to
/readyz or /api/analytics is followed at a time, its queries one by one. Each ping of /readyz
takes a connection of the process's own pool, and fails too if requests have kept them all for
its two seconds (`crowded`). `from` is what the rows were when a summary was begun.

An environment is what `Validate` looks at, and two URLs. One that `Validate` refuses
never leaves `down`, though `restart: always` tries for ever. A URL is `right`, `wrong` (it leads
elsewhere, as the default for an unset one may: all pings fail) or `refused`
by `sql.Open` or `redis.ParseURL` (`OpenFails`; `InitRedis` without a client): the causes that
`docs/PROJECT_CONTEXT.md:253` and `:271` give for "unconfigured".

The model shows, and no doc denies, that a process offline at boot stays so until it is
restarted (/readyz says 503 from then on); that the rate of a summary is 0 when its query fails and
may exceed 100 % by rows that come in between two queries; and that the seeded key, which the comment
at `postgres.go:162` wants "if table is empty", comes back at the next boot if its row was deleted.

## 3. The runs

| Run | Question |
|---|---|
| `pool_batches` | Do two overlapping batches with Redis and a panic keep their jobs, waiters and channels in order? |
| `pool_promise` | Does RunChecks implement `BatchCheck`, and does every call return? |
| `failover` | Are the shared breakers breakers, does one healthy provider suffice, and does each lookup end, however throttled and cut short? |
| `queue_shutdown` | Is every write accounted for, and does everything end, whatever hangs or panics? |
| `limiter_windows` | Do both limiters keep their windows for tokens of different limits, with replies lost, and scripts out of order, repeated or run when nobody waits for them any more? |
| `keyless_calls` | Are answers never wrong on the word of DNS or a registry, and is the scraper's breaker a breaker? |
| `generate_request` | Are ranking, price, log rows, duplicates and avoided words as they should be, whichever providers are wired? |
| `server_life` | Does every boot end well or for a reason, after kills, outages and races, and do /readyz and the analytics say so? |

Four more runs find a violation; each is a statement of a doc, comment or test that
the code does not keep:

| Run | The code | The statement |
|---|---|---|
| `pool_no_workers` | WORKER_COUNT=0 starts no worker, results come back empty | one result per job (`pool_test.go:27`) |
| `queue_clean_not_flushed` | all workers dead of panics: "shut down cleanly", writes still queued | "flushes the queue" (`postgres.go:50`) |
| `limiter_same_millisecond` | one member per millisecond | "Max client requests in window" (README) |
| `keyless_fallback` | DNS lookups that failed count as "no record" | "DNS pre-check already confirmed no A/NS/MX records exist" (`keyless.go:267`) |

Bounds, and why they are enough:

* *WorkerPool*: two requests that share a domain, two workers each, one panic. Two
  requests are what sharing a flight takes; more jobs than workers make a worker come
  back for more; one panic can end workers of both requests at once. The refinement
  is checked with providers and without Redis: Redis adds answers that need no
  flight, and changes nothing of what `BatchCheck` speaks of.
* *Failover*: two concurrent lookups and one more after them, breakers that trip at
  2 (code: 5), two attempts (3), buckets of one token (100); one of two providers fails,
  or panics, at will. The code's numbers
  only lengthen the way to the same situations: a breaker one failure from
  tripping with two lookups in flight, an empty bucket with two takers. The theorems
  hold for all of them.
* *LogQueue*: two requests with two writes each for a queue of two: full, empty,
  closed; two workers, two panics, so that all workers may be dead.
* *RateLimiter*: two requests at a time, tokens with a limit of 2 and of 1, a window of
  3 ticks, which are a second, a clock of 4: a request of the first window is forgotten and
  the next window fills. The fallback is taken after one tick, after two sends at most, and
  one script at a time may be left for Redis to run late. The theorems hold for any numbers.
* *KeylessProvider*: two callers, five calls, a breaker that trips at 2 (code: 3): one
  caller waits for the write lock while the other closes the breaker and trips it
  again. Three TLDs: scrapable, in the map but without RDAP, and only known to IANA.
* *GenerateRequest*: two TLDs at most, two names kept of lists that hold more, a name
  twice in different case, unfit and avoided names, penalised and boosted TLDs, offers
  in rupees, dollars and a third currency beside rupees, bundled, premium, "Standard" or of
  a page that asks for 0.
* *ServerLife*: two processes, one outage, one kill, two pings (code: 5), two rows, one queued
  write per process, and four deployments: nothing set (DATABASE_URL leads nowhere), production,
  production without ALLOWED_ORIGINS, and production with URLs that cannot be read. A kill in the
  middle of a migration, two migrations at once and an outage in any boot or request all occur. The
  theorems hold for any numbers and any deployments.

Symmetry is used for slots, clients and callers in safety runs, never in liveness runs.

## 4. Fairness

* WorkerPool: weak fairness of each worker's steps, of the call and of the return:
  the Go scheduler runs what can run, and a lookup ends (HTTP clients have
  timeouts). Not assumed: deadlines, panics, Redis.
* Failover: weak fairness per lookup and of its price goroutines, and buckets that
  refill with time. The two lookups that compete for a token need no strong
  fairness since each takes boundedly many.
* LogQueue: handlers and main are scheduled. Of the database nothing is assumed;
  `QueueMoves` has its assumption, that writes return (each has a context with a
  timeout), inside the property (`WorkingDB`).
* ServerLife: weak fairness of each process's boot (pings, statements and the ping of Redis
  return, with an answer or an error). Nothing of Postgres, Redis or the kills.
* RateLimiter, KeylessProvider, GenerateRequest: safety only.

## 5. What is proved

For *all* values of the constants, from the named ASSUMEs of the modules and nothing
else. None of the properties is inductive alone; each module has an invariant
`IndInv`, a conjunction of named parts, that is also an invariant of a run (that of
`RateLimiter` holds on `MCRateLimiter.cfg` too, but evaluating it at each state takes longer than
the rest of the run, so that the run leaves it to the proof).
The proofs show `Init => IndInv` and that each action keeps each part; the properties follow
from `IndInv`, or, for action properties, from `IndInv` and one step.

**`WorkerPoolProofs`**: any requests, batches, domains, worker counts (some integer), modes,
numbers of panics. `Invariance`, `TypeCorrectness` (`TypeOK`), `AnswersAreUnique`
(`AnsweredOnce`), `NoStrandedWaiter` (`FlightsHaveLeaders`), `LossNeedsPanic`
(`OnlyCrashesLoseJobs`), `ChannelClosedForGood` (`NoLateResult`). `AnsweredOnce` needs that
only received jobs are held or answered (`OnlyReceived`) and that no job is held twice
(`HeldOnce`); `OnlyCrashesLoseJobs` needs that a received job is answered unless held
(`NothingDropped`), that workers leave only when nothing is left to receive
(`ExitedLate`) and that a return finds them stopped (`ReturnedStopped`);
`FlightsHaveLeaders` needs that the registered leader flies that very domain
(`FlightsFlown`) and that nobody leads after its call has returned.

**`PoolPromiseProofs`**, on the same invariant. `ErrorsHaveCause` (`ContextErrorHasCause`) adds
`ErrorAtHandExplained`: an error that a worker is about to hand on is explained by a context
that is done, and stays so, since contexts never come back to life; a landing passes it to
workers of the same domain only. `PoolKeepsPromise` (`ImplementsBatchCheck`), for every positive
worker count, maps each step: a delivery is `Answer` of a job that was open until then (by
`AnsweredOnce` and `HeldOnce`), a panic is `Panic` over the open jobs it loses, a return is
`Return` because stopped workers leave no job open (`NothingDropped`, `ExitedLate`), and every
other step is a stutter. The assumption is needed: without workers the jobs are lost from the start
(run `pool_no_workers`). `NobodyStuck` (`NeverStuck`) says that a call whose workers have not all
stopped has one that can step, or waits for a leader in another call that can: a leader never waits
(`FlightsHaveLeaders`), and there is always room for a result in the channel, which holds distinct
jobs of the batch only. `PoolMakesProgress` (`WorkGoesDown`) bounds the steps that a worker has
left: eight for each job not received, and those of the one it holds.

**`FailoverProofs`**: any number of providers and lookups, any threshold, cooldown,
attempts and bucket, any set of healthy providers. `Invariance`, `TypeCorrect`,
`BreakersAgree` (`BreakerCountsFailures`), `LateFailures` (`LateFailuresBounded`),
`OneHealthySaves` (`FailoverSaves`), `OpenBreakersShield` (`OpenBreakerShields`),
`BreakersImplement` (`BreakersAreBreakers`: the initial state and every step of a lookup
maps to one of `Breaker` or to a stutter; the lookups that are past their check of the breaker
and have not recorded how their call went are its `calls`, so that each call is reported at most
once, by the lookup that made it, and never if it panicked, and a step leaves the other providers'
records alone). `LateFailuresBounded` is
inductive as a sum: the failures counted and the lookups still in flight towards a
provider together stay below the threshold plus the number of lookups, so that a
failure recorded takes from the one what it adds to the other. `FailoverSaves` needs
that nothing expires in a patient behaviour (`PatientStaysLive`), that a healthy
provider is then never blamed (`HealthyUnharmed`) and that no lookup has gone past
one (`HealthyInReach`). `LookupsAdvance` (`LookupsMoveOn`) orders what a lookup has ahead of it, section
before provider before call before stage; its own steps descend, and those of other lookups, of
breakers, buckets and contexts leave it where it is.

**`LogQueueProofs`**: any number of requests, writes, workers and panics, any capacity.
`Invariance`, `TypeCorrect`, `EveryTaskAccounted` (`TasksAccounted`), `CleanShutdownIsIdle`
(`CleanMeansIdle`), `DrainedAreAnswered` (`FailedOnlyIfForced`). `TasksAccounted` needs
that a worker holds a task exactly while it runs it (`BusyHolds`); the other two need
the order of the shutdown: the queue is closed only after the drain (`ClosedLate`), no
handler is started after it (`DrainedLate`), workers end only at a closed and empty
queue (`EndedLate`). `WritesAdvance` (`TasksMoveOn`) follows each write through its fates, and each place in
the queue: from `FatesTold`, what is offered is new, what is taken was waiting first in line, what ends was held.

**`RateLimiterProofs`**: any requests, tokens of one credential, limits, window, patience and second.
`Invariance`, `LocalExact` (`LocalWindow`), `RedisExact` (`RedisWindow`), `NobodyLockedOut` (`NoLockout`). The
mutex makes the fallback simple: it has an entry for each request it has let through in the window and no other
(`LocalRecorded`), so what it counts before it admits is what the property counts. Redis' set holds clocks that
were read before the script ran, perhaps in another order and long before, under a key that expires. What is needed is
`PassedInSet`: every request let through on the word of Redis in the last window, less `Patience`, is in the set, by a clock at
most `Patience` older, under a key that outlives it where the window is whole seconds. It is kept because no script, however
late, prunes a clock that a script of the present would keep (`LateOnes`: none comes from the future), and because each request
has a clock of its own (`StampsApart`, unless two read the same millisecond: run `limiter_same_millisecond`), so that as many
members are counted as requests were let through; the members that late and repeated scripts add only make it refuse earlier.
`NobodyLockedOut` needs the converse, `SetAdmitted`: the set counts nothing that no script has admitted. Sums over windows are cardinalities
of sets of entries, so that the lemmas on one more admission (`CountOneMore`, `AdmittedOneMore`) follow from
the library's facts on finite sets and need no induction.

**`KeylessProofs`**: any callers, TLDs, threshold, cooldown and number of calls. `Invariance`,
`MistakesExplained` (`WrongAnswersExplained`), `RecordsSettle` (`RecordsBelieved`), `ScraperImplements`
(`ScraperIsBreaker`). The first two need `PhasesInOrder`: what a caller knows in each phase.
`WrongAnswersExplained` excludes no text of WHOIS: a phrase found in it, or not, may be the reason of a wrong answer
either way; what is proved is that there is no other, apart from a TLD without a registry in RDAP and the
final fallback. In the refinement the callers that scrape are the `calls`; the reset under the second lock, which looks again
and goes on to scrape, begins one, and is an expiry or leaves the record as it is.

**`ServerProofs`**: any number of processes, environments, pings, outages, kills, rows and queued
writes. `Invariance`, `OfflineExplained` (`OfflineHasCause`), `PoolMeansWhole` (`ServesWhole`),
`SummariesHonest` (`SummaryWithin`), `RevokedForGood` (`KeyStaysRevoked`). `OfflineHasCause` says what
may leave a process without its database: a URL that is not right, or else an outage or another migration in this
life of the process; and what may have /readyz say 503: one of these, for either of the two, or a crowded pool of connections
(`LacksSeen`, `ProbeHonest`, `ReportHonest`). It needs that the statements before the one a process is at have taken effect (`Migrated`) and that each
refers to earlier ones only (`NeedsEarlier`): then, with the right URL, a statement fails only if Postgres is away
(`OutagesSeen`) or another process migrates (`OverlapsSeen`). `SummaryWithin` needs
`CountsHonest`: since a summary was begun, the available rows have grown by no more than all rows.
`BootsAdvance` (`PingsBounded` and `BootsMoveOn`): a boot steps forward in its phase, its pings or its statements;
only its own kill takes it back.

**`GenerateProofs`**: any TLDs and how they are cleaned, any avoided words, lists of names and scans
of prices, any limits. `Invariance`, `LoggedRight` (`LoggedUnderOwnName`), `NoDomainTwice`
(`OneItemPerDomain`), `AvoidedHidden` (`AvoidedNeverShown`), `FreeFirst` (`TakenNeverOutranks`),
`LowestPrice` (`PriceIsLowest`). The first four need `JobsOfNames` (a job is for a name that has had its turn,
under the row of that name, and for a domain there is one), which needs that no two names kept are spelled
alike (`NamesFit`), and `ResultsOfJobs` (a result has its job's name, and is the only one of that job).
`FreeFirst` rests on `ScoreFacts`: the least bonus of a free domain outweighs the boost of any TLD, and the clamp
keeps the order. `LowestPrice` has the pool's choice and what the handler shows side by side: `AvailableOffered`
(whatever the sources of a price have said, there are offers), `CheapestFacts` (the pool's choice exists and is minimal
among the standalone offers, as `InRupees` has it), and `ShownFacts`: what the handler shows is, in whatever currency, the
amount by which the pool has compared. The assumptions on the data are those of the
environment: avoided words are not empty; prices, on pages and in answers, are not negative, but may be 0; a hash takes at most 40 or
50 rupees off a price.

Checked by TLC only: liveness (`EveryBatchReturns`, `LookupsEnd`, `HandlersNeverWait`,
`ShutdownEnds`, `QueueMoves`, `BootsEnd`), which is beyond TLAPS: it takes fairness, and so `ENABLED`.
What of it is safety is proved: the work ahead of a worker, a lookup, a queued write and a boot only ever
gets less (`PoolMakesProgress`, `LookupsAdvance`, `WritesAdvance`, `BootsAdvance`), and a batch is never
stuck (`NobodyStuck`; `CanStep`, which it speaks of, is the guard of `WorkerStep`: TLC finds it equal to
`ENABLED WorkerStep` on the instance of `pool_batches`). The steps from there to an end are those that fairness
takes. The definitions these theorems state (`NeverStuck`, `WorkGoesDown`, `LookupsMoveOn`, `TasksMoveOn`,
`BootsMoveOn`) hold on the runs' instances as well; no run lists them, since the theorems say more.

## 6. What the models leave out, and why

* The columns of the tables, HTTP and HTML parsing, logging, metrics, CORS, the browser
  page: I/O and wording.
* The providers Porkbun, Namecheap and BigRock, which `main.go` never wires; GoDaddy's
  mockCheck and mockPrice, which nobody calls. (Hostinger's mockCheck, its answer with a key,
  is an outcome of `Failover`.)
* HealthCheckHandler: it keeps no state, answers 200 whatever it finds and has "connected" for
  Redis without asking.
* The verification of credentials (one choice, `Arrive`): a refused request has a 401 and
  reaches no limiter.
* The random choices of the generators, the text checks on a request's body (one
  action, `Refuse`), the detection that selects the keyless mode.
* Redis and Postgres themselves, beyond what their callers can see.
* The memory the local limiter's map takes.
* Sources that lie: a DNS record and an answer of a registry over RDAP are taken to be true of the
  domain, so no resolver that answers for every name is modelled. Of WHOIS nothing is assumed.
* Waits within a deadline of their own, which `ServerLife` does not time: "Postgres answers" means
  within its caller's timeout, and a slow one is an outage.
* SaveSearch and SaveGeneratedName wait for the database in the request itself (`handler.go:186-226`):
  `HandlersNeverWait` is about the queue, EnqueueDBTask, only.
* Where an avoided word may stand: `AvoidedNeverShown` looks at names. The TLDs are the client's own choice, and
  nothing in the code compares them (an avoided "ai" may be followed by `.ai`).
* Panics in the scraper or in a source of the keyless check. (A lookup that panics is in `WorkerPool` and `Failover`.)
* In `RedisWindow`, windows that EXPIRE truncates to less than they are: the code
  forgets them early, as the hazard at `middleware.go:340` says.
* In `OneItemPerDomain`, requests that name a TLD twice: the code cleans the TLDs after it has
  counted them and never compares them, and then checks and shows each domain twice
  (`handler.go:122`).
* The order in which cached answers of one domain land (`pool.go:452`) and the failures that
  unsupported TLDs count on the scraper (`hostinger.go:100`): the models have them, and no doc
  says what should hold.
* `FailoverSaves` speaks of behaviours in which no context expires and of lookups that do not
  panic in a provider that is not healthy. Expired contexts count as failures of the provider that was being
  asked, so impatient requests can open the breaker of a healthy one (hazard at `pool.go:268`). No doc says that
  they must not, so that no property forbids it.
* Two more hazards have no property: a "Standard" price is made up, and cached, when no provider has
  quoted one (`pool.go:375`), which no doc speaks of; and throttle waits for a token
  without looking at its context (`pool.go:514`): `LookupsEnd` says that this wait ends, not that it ends in time.

`components` in `PROJECT.json` says part by part what is modelled.

## 7. Plan

1. Proofs: an abstract log (a task is open, written or gone) that `LogQueue` implements, mapped
   step by step as the pool is to `BatchCheck`.
2. Models: the age of cached answers (fallback
   prices and cut-short WHOIS texts are kept for 24 h).
3. Composition: `GenerateRequest` over `BatchCheck` instead of what RunChecks may return.
