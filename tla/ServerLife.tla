------------------------------ MODULE ServerLife ------------------------------
(***************************************************************************)
(* The life of a NameForge process: cmd/api/main.go from its configuration *)
(* to its listening server, with InitDB and its migrations                 *)
(* (internal/db/postgres.go), InitRedis (internal/cache/redis.go) and the  *)
(* two requests that tell an operator how it is: /readyz and               *)
(* /api/analytics (internal/api/handler.go). Postgres and Redis come and   *)
(* go, processes are killed at any moment and started again, and two of    *)
(* them may boot at once, as when one replaces another. The orderly        *)
(* shutdown is in LogQueue.                                                *)
(***************************************************************************)
EXTENDS Integers, Sequences, FiniteSets

CONSTANTS
  Servers,     \* processes that share the database
  Envs,        \* environments they may be deployed with
  PingLimit,   \* attempts to reach Postgres: 5
  MaxOutages,  \* bound: times Postgres or Redis goes away
  MaxCrashes,  \* bound: processes killed
  MaxRows,     \* bound: rows of domain_checks
  MaxBacklog   \* bound: writes queued in a process

ASSUME PingAssumption == PingLimit \in Nat \ {0}

VARIABLES
  env,         \* the environment of this deployment
  postgres,    \* whether Postgres answers within its callers' timeouts
  redis,       \* whether Redis does
  schema,      \* migration statements that have taken effect
  devKey,      \* the seeded row of api_keys: "none", "active" or "inactive"
  rows,        \* domain_checks: how many in all, how many available
  life,        \* life[s]: where main is
  pings,       \* pings[s]: failed pings of this boot
  step,        \* step[s]: the migration statement s is at
  pool,        \* pool[s]: dbConn is not nil
  logger,      \* logger[s]: the background logger runs
  cache,       \* cache[s]: the cache has a client
  backlog,     \* backlog[s]: writes in logQueue
  disturbed,   \* disturbed[s]: an outage, or another migration, met this life of s
  probe,       \* the /readyz request that is looked at
  report,      \* the /api/analytics request that is looked at
  outages,
  crashes

process == <<life, pings, step, pool, logger, cache, backlog>>
database == <<schema, devKey, rows>>
requests == <<probe, report>>
world == <<postgres, redis, outages, crashes>>
vars == <<env, process, database, requests, world, disturbed>>

\* --------------------------------------------------------- configuration --

\* What LoadConfig makes of an environment, as far as Validate looks at it.
LoadConfig(e) ==
  [e EXCEPT
     !.secret = IF @ = "unset" THEN "default" ELSE @,
     !.admin = IF @ = "unset" THEN "default" ELSE @,
     !.origins = IF @ # "unset" THEN @ ELSE IF e.prod THEN "none" ELSE "*",
     !.mock = @ # "false"]

Validate(c) ==
  c.prod => /\ c.secret # "default"
            /\ c.admin # "default"
            /\ c.origins \notin {"none", "*"}
            /\ c.mock \/ c.gemini

\* A URL is "right", "wrong" (it leads elsewhere: so does the default that
\* stands in for an unset one) or "refused" by sql.Open or redis.ParseURL.
ReachesPostgres == postgres /\ env.postgresURL = "right"
ReachesRedis == redis /\ env.redisURL = "right"

\* ------------------------------------------------------------- migration --

Statements == <<"searches", "generated_names", "domain_checks", "platform",
                "offers", "analytics_events", "api_keys", "seed">>
Last == Len(Statements)

\* What the statement refers to: a foreign key, or the table it alters.
Needs(n) ==
  CASE Statements[n] = "generated_names" -> {1}
    [] Statements[n] = "domain_checks" -> {2}
    [] Statements[n] \in {"platform", "offers"} -> {3}
    [] Statements[n] = "seed" -> {7}
    [] OTHER -> {}

\* Mutated: the last table is created without IF NOT EXISTS.
Runs_OnlyOnce(n) == postgres /\ Needs(n) \subseteq schema /\ ~(n = 7 /\ n \in schema)

\* Every statement can be run again: IF NOT EXISTS, ON CONFLICT DO NOTHING.
Runs(n) == postgres /\ Needs(n) \subseteq schema

\* Mutated: ON CONFLICT DO UPDATE SET is_active = true.
Seeded_Overwrites(n) == IF n = Last THEN "active" ELSE devKey

Seeded(n) == IF n = Last /\ devKey = "none" THEN "active" ELSE devKey

\* ------------------------------------------------------------------ types --

NoProbe == [server |-> "nobody", at |-> "idle", ready |-> FALSE, crowded |-> FALSE]
NoRows == [total |-> 0, free |-> 0]
Blank(s, phase) == [server |-> s, at |-> phase, total |-> 0, free |-> 0, from |-> NoRows]
NoReport == Blank("nobody", "idle")
Phases == {"down", "pinging", "migrating", "caching", "serving"}
Counts == [total : Nat, free : Nat]

TypeOK ==
  /\ postgres \in BOOLEAN /\ redis \in BOOLEAN
  /\ schema \subseteq 1 .. Last
  /\ devKey \in {"none", "active", "inactive"}
  /\ rows \in Counts
  /\ life \in [Servers -> Phases]
  /\ pings \in [Servers -> Nat]
  /\ step \in [Servers -> 1 .. Last]
  /\ pool \in [Servers -> BOOLEAN]
  /\ logger \in [Servers -> BOOLEAN]
  /\ cache \in [Servers -> BOOLEAN]
  /\ backlog \in [Servers -> Nat]
  /\ disturbed \in [Servers -> BOOLEAN]
  /\ probe \in [server : Servers \cup {"nobody"}, at : {"idle", "redis", "answered"},
                ready : BOOLEAN, crowded : BOOLEAN]
  /\ report \in [server : Servers \cup {"nobody"},
                 at : {"idle", "checks", "free", "answered", "failed", "constant"},
                 total : Nat, free : Int, from : Counts]

Init ==
  /\ env \in Envs
  /\ postgres \in BOOLEAN /\ redis \in BOOLEAN
  /\ schema = {} /\ devKey = "none" /\ rows = NoRows
  /\ life = [s \in Servers |-> "down"]
  /\ pings = [s \in Servers |-> 0]
  /\ step = [s \in Servers |-> 1]
  /\ pool = [s \in Servers |-> FALSE]
  /\ logger = [s \in Servers |-> FALSE]
  /\ cache = [s \in Servers |-> FALSE]
  /\ backlog = [s \in Servers |-> 0]
  /\ disturbed = [s \in Servers |-> FALSE]
  /\ probe = NoProbe /\ report = NoReport
  /\ outages = 0 /\ crashes = 0

\* ------------------------------------------------------------------- boot --

\* main gets past its configuration. One that Validate refuses ends the
\* process, which "restart: always" starts again, with the same result.
Start(s) ==
  /\ life[s] = "down"
  /\ Validate(LoadConfig(env))
  /\ life' = [life EXCEPT ![s] = "pinging"]
  /\ disturbed' = [disturbed EXCEPT ![s] = ~(postgres /\ redis)]
  /\ UNCHANGED <<env, pings, step, pool, logger, cache, backlog, database, requests, world>>

\* Without a usable URL main goes on without a database, at once.
OpenFails(s) ==
  /\ life[s] = "pinging"
  /\ env.postgresURL = "refused"
  /\ life' = [life EXCEPT ![s] = "caching"]
  /\ UNCHANGED <<env, pings, step, pool, logger, cache, backlog, database, requests, world,
                 disturbed>>

PingSucceeds(s) ==
  /\ life[s] = "pinging"
  /\ ReachesPostgres
  /\ life' = [life EXCEPT ![s] = "migrating"]
  /\ pings' = [pings EXCEPT ![s] = 0]
  /\ disturbed' = [t \in Servers |->
                     \/ disturbed[t]
                     \/ t = s /\ \E u \in Servers \ {s} : life[u] = "migrating"
                     \/ t # s /\ life[t] = "migrating"]
  /\ UNCHANGED <<env, step, pool, logger, cache, backlog, database, requests, world>>

\* Mutated: Postgres is waited for, however long it takes.
PingFails_Waits(s) ==
  /\ life[s] = "pinging"
  /\ env.postgresURL # "refused" /\ ~ReachesPostgres
  /\ UNCHANGED vars

\* After the last attempt main goes on without a database, for good.
PingFails(s) ==
  /\ life[s] = "pinging"
  /\ env.postgresURL # "refused" /\ ~ReachesPostgres
  /\ IF pings[s] + 1 < PingLimit
     THEN pings' = [pings EXCEPT ![s] = @ + 1] /\ UNCHANGED life
     ELSE /\ pings' = [pings EXCEPT ![s] = 0]
          /\ life' = [life EXCEPT ![s] = "caching"]
  /\ UNCHANGED <<env, step, pool, logger, cache, backlog, database, requests, world, disturbed>>

\* One statement of migrateSchema; after the last one InitDB starts the
\* logger and main has its connection pool.
Migrate(s) ==
  /\ life[s] = "migrating"
  /\ Runs(step[s])
  /\ schema' = schema \cup {step[s]}
  /\ devKey' = Seeded(step[s])
  /\ IF step[s] < Last
     THEN /\ step' = [step EXCEPT ![s] = @ + 1]
          /\ UNCHANGED <<life, pool, logger>>
     ELSE /\ life' = [life EXCEPT ![s] = "caching"]
          /\ pool' = [pool EXCEPT ![s] = TRUE]
          /\ logger' = [logger EXCEPT ![s] = TRUE]
          /\ step' = [step EXCEPT ![s] = 1]
  /\ UNCHANGED <<env, pings, cache, backlog, rows, requests, world, disturbed>>

\* A statement cannot run, or loses to the same statement of another process
\* (CREATE TABLE IF NOT EXISTS is no protection against a concurrent one).
StatementFails(s) ==
  \/ ~Runs(step[s])
  \/ \E t \in Servers \ {s} : life[t] = "migrating"

\* Mutated: the error is logged and the next statement is run.
MigrateFails_GoesOn(s) ==
  /\ life[s] = "migrating"
  /\ StatementFails(s)
  /\ IF step[s] < Last
     THEN /\ step' = [step EXCEPT ![s] = @ + 1]
          /\ UNCHANGED <<life, pool, logger>>
     ELSE /\ life' = [life EXCEPT ![s] = "caching"]
          /\ pool' = [pool EXCEPT ![s] = TRUE]
          /\ logger' = [logger EXCEPT ![s] = TRUE]
          /\ step' = [step EXCEPT ![s] = 1]
  /\ UNCHANGED <<env, pings, cache, backlog, database, requests, world, disturbed>>

\* The first error ends the migration; what ran before it stays, and main
\* goes on without a database.
MigrateFails(s) ==
  /\ life[s] = "migrating"
  /\ StatementFails(s)
  /\ life' = [life EXCEPT ![s] = "caching"]
  /\ step' = [step EXCEPT ![s] = 1]
  /\ UNCHANGED <<env, pings, pool, logger, cache, backlog, database, requests, world,
                 disturbed>>

\* InitRedis pings once; without an answer, or a URL to ask, the process runs
\* without a cache. Then the server listens.
InitRedis(s) ==
  /\ life[s] = "caching"
  /\ cache' = [cache EXCEPT ![s] = ReachesRedis]
  /\ life' = [life EXCEPT ![s] = "serving"]
  /\ UNCHANGED <<env, pings, step, pool, logger, backlog, database, requests, world, disturbed>>

Boot(s) ==
  \/ Start(s) \/ OpenFails(s) \/ PingSucceeds(s) \/ PingFails(s)
  \/ Migrate(s) \/ MigrateFails(s) \/ InitRedis(s)

\* ------------------------------------------------------------------ world --

Alive(s) == life[s] # "down"

\* The process is killed: what it keeps in memory is gone, and so are the
\* requests it was answering. It is started again.
Crash(s) ==
  /\ Alive(s)
  /\ crashes < MaxCrashes
  /\ crashes' = crashes + 1
  /\ life' = [life EXCEPT ![s] = "down"]
  /\ pings' = [pings EXCEPT ![s] = 0]
  /\ step' = [step EXCEPT ![s] = 1]
  /\ pool' = [pool EXCEPT ![s] = FALSE]
  /\ logger' = [logger EXCEPT ![s] = FALSE]
  /\ cache' = [cache EXCEPT ![s] = FALSE]
  /\ backlog' = [backlog EXCEPT ![s] = 0]
  /\ probe' = IF probe.server = s THEN NoProbe ELSE probe
  /\ report' = IF report.server = s THEN NoReport ELSE report
  /\ UNCHANGED <<env, database, postgres, redis, outages, disturbed>>

Outage ==
  /\ outages < MaxOutages
  /\ outages' = outages + 1
  /\ \/ postgres /\ postgres' = FALSE /\ UNCHANGED redis
     \/ redis /\ redis' = FALSE /\ UNCHANGED postgres
  /\ disturbed' = [s \in Servers |-> disturbed[s] \/ Alive(s)]
  /\ UNCHANGED <<env, process, database, requests, crashes>>

Recovery ==
  /\ \/ ~postgres /\ postgres' = TRUE /\ UNCHANGED redis
     \/ ~redis /\ redis' = TRUE /\ UNCHANGED postgres
  /\ UNCHANGED <<env, process, database, requests, outages, crashes, disturbed>>

\* An operator revokes the seeded key.
Deactivate ==
  /\ postgres
  /\ devKey = "active"
  /\ devKey' = "inactive"
  /\ UNCHANGED <<env, process, schema, rows, requests, world, disturbed>>

\* ------------------------------------------------------- the log's writes --

\* A request ends with its domain checks on the queue.
LogCheck(s) ==
  /\ life[s] = "serving"
  /\ pool[s]
  /\ backlog[s] < MaxBacklog
  /\ backlog' = [backlog EXCEPT ![s] = @ + 1]
  /\ UNCHANGED <<env, life, pings, step, pool, logger, cache, database, requests, world,
                 disturbed>>

\* The logger inserts a row, or fails to (it has three seconds).
SaveDomainCheck(s) ==
  /\ logger[s]
  /\ backlog[s] > 0
  /\ backlog' = [backlog EXCEPT ![s] = @ - 1]
  /\ \/ UNCHANGED rows
     \/ /\ postgres /\ 3 \in schema
        /\ rows.total < MaxRows
        /\ \E available \in BOOLEAN :
             rows' = [total |-> rows.total + 1,
                      free |-> rows.free + (IF available THEN 1 ELSE 0)]
  /\ UNCHANGED <<env, life, pings, step, pool, logger, cache, schema, devKey, requests, world,
                 disturbed>>

\* ---------------------------------------------------------------- /readyz --

\* One request is looked at at a time; its answer is kept until the next.
NothingAsked == probe.at # "redis" /\ report.at \notin {"checks", "free"}

\* Mutated: a missing pool is reported, but does not count.
PingsPostgres_Unconfigured(s) == pool[s] => postgres

PingsPostgres(s) == pool[s] /\ postgres
PingsRedis(s) == cache[s] /\ redis

\* ReadinessCheckHandler asks Postgres first and Redis, up to two seconds
\* later, second. Either ping waits for a connection of the process's own: it
\* fails as well if requests hold them all for those two seconds.
ReadinessCheck(s) ==
  /\ life[s] = "serving"
  /\ NothingAsked
  /\ \E crowded \in {FALSE, PingsPostgres(s)} :
       probe' = [server |-> s, at |-> "redis", ready |-> PingsPostgres(s) /\ ~crowded,
                 crowded |-> crowded]
  /\ report' = NoReport
  /\ UNCHANGED <<env, process, database, world, disturbed>>

ReadinessAnswer ==
  /\ probe.at = "redis"
  /\ \E crowded \in {FALSE, PingsRedis(probe.server)} :
       probe' = [probe EXCEPT !.at = "answered",
                              !.ready = @ /\ PingsRedis(probe.server) /\ ~crowded,
                              !.crowded = @ \/ crowded]
  /\ UNCHANGED <<env, process, database, report, world, disturbed>>

\* --------------------------------------------------------- /api/analytics --

\* AnalyticsHandler has constants for a process without a database. With one,
\* GetAnalytics counts searches and names first; an error is a 500.
AskAnalytics(s) ==
  /\ life[s] = "serving"
  /\ NothingAsked
  /\ \/ ~pool[s] /\ report' = Blank(s, "constant")
     \/ pool[s] /\ report' = Blank(s, "failed")
     \/ pool[s] /\ postgres /\ report' = [Blank(s, "checks") EXCEPT !.from = rows]
  /\ probe' = NoProbe
  /\ UNCHANGED <<env, process, database, world, disturbed>>

\* Mutated: the error is ignored, as those of the later queries are.
CountFails_Ignored == [report EXCEPT !.at = "answered"]

CountFails == [report EXCEPT !.at = "failed"]

\* Then the checks; there is no rate if there is nothing to divide by.
CountChecks ==
  /\ report.at = "checks"
  /\ \/ report' = CountFails
     \/ /\ postgres
        /\ report' = [report EXCEPT !.at = IF rows.total > 0 THEN "free" ELSE "answered",
                                    !.total = rows.total]
  /\ UNCHANGED <<env, process, database, probe, world, disturbed>>

\* And then the available ones. The error of this query is ignored: the rate
\* stays 0 in a summary that says 200.
RateFailed == -1

CountFree ==
  /\ report.at = "free"
  /\ \/ report' = [report EXCEPT !.at = "answered", !.free = RateFailed]
     \/ postgres /\ report' = [report EXCEPT !.at = "answered", !.free = rows.free]
  /\ UNCHANGED <<env, process, database, probe, world, disturbed>>

Next ==
  \/ \E s \in Servers :
       \/ Boot(s) \/ Crash(s)
       \/ LogCheck(s) \/ SaveDomainCheck(s)
       \/ ReadinessCheck(s) \/ AskAnalytics(s)
  \/ ReadinessAnswer \/ CountChecks \/ CountFree
  \/ Outage \/ Recovery \/ Deactivate

Spec == Init /\ [][Next]_vars

\* A process that is started goes through its boot: pings, statements and
\* the ping of Redis all return.
FairSpec == Spec /\ \A s \in Servers : WF_vars(Boot(s))

\* ------------------------------------------------------------- properties --

\* What may leave a process without its database, and without its cache.
OffDatabase(s) == disturbed[s] \/ env.postgresURL # "right"
OffCache(s) == disturbed[s] \/ env.redisURL # "right"

\* Whatever has been killed and restarted in the middle of a migration, a
\* process that is deployed with the right DATABASE_URL serves without a
\* database only if an outage or the migration of another process met it; and
\* /readyz says 503 only for that, for a wrong DATABASE_URL or REDIS_URL, or
\* because it waited in vain for a connection (main.go 38-53, postgres.go
\* 80-178, redis.go 20-39, handler.go 374-415).
OfflineHasCause ==
  /\ \A s \in Servers : life[s] = "serving" /\ ~pool[s] => OffDatabase(s)
  /\ probe.at = "answered" /\ ~probe.ready =>
       OffDatabase(probe.server) \/ OffCache(probe.server) \/ probe.crowded
  /\ report.at = "constant" => OffDatabase(report.server)

\* A process that uses the database found the whole schema and has started a
\* logger for what it queues; one without it queues nothing; and /readyz says
\* 200 of a process with both pool and cache only (main.go 38-53, postgres.go
\* 80-178, handler.go 330-339 and 374-415). What panics and a slow database do
\* to the logger's workers is in LogQueue.
ServesWhole ==
  /\ \A s \in Servers :
       IF pool[s]
       THEN schema = 1 .. Last /\ devKey # "none" /\ logger[s]
       ELSE ~logger[s] /\ backlog[s] = 0
  /\ probe.at = "answered" /\ probe.ready => pool[probe.server] /\ cache[probe.server]

\* A summary that /api/analytics answers with is of no other time than the
\* request's: its count lies between the rows at the start and those now, and
\* so do the available ones unless the rate's query failed. Its rate exceeds
\* 100 % only by rows that came in between the queries (postgres.go 288-326).
SummaryWithin ==
  report.at = "answered" =>
    /\ report.from.total <= report.total /\ report.total <= rows.total
    /\ \/ report.free = RateFailed
       \/ report.from.free <= report.free /\ report.free <= rows.free
    /\ report.free - report.total <= rows.total - report.from.total

\* No boot gives back a key that was revoked (postgres.go 162-166).
KeyStaysRevoked == [][devKey = "inactive" => devKey' = "inactive"]_vars

\* A process that has started serves in the end, whether or not Postgres and
\* Redis ever come up and its URLs are right, unless it is killed (main.go 38-101).
BootsEnd == \A s \in Servers : Alive(s) ~> life[s] \in {"serving", "down"}

\* --------------------------------------------------------------- progress --

\* The pings of a boot are bounded: the last one that may fail ends the wait.
PingsBounded == \A s \in Servers : pings[s] < PingLimit

\* A boot is nearer to its end: in its phase, its pings or its statements.
PhasesAhead(s) ==
  CASE life[s] = "down" -> 4
    [] life[s] = "pinging" -> 3
    [] life[s] = "migrating" -> 2
    [] life[s] = "caching" -> 1
    [] life[s] = "serving" -> 0
BootMovesOn(s) ==
  \/ PhasesAhead(s)' < PhasesAhead(s)
  \/ PhasesAhead(s)' = PhasesAhead(s) /\ (pings'[s] > pings[s] \/ step'[s] > step[s])

\* BootsEnd without its fairness: a boot gets nearer to its end with each of
\* its steps, and nothing but a crash, no outage and no other process's boot,
\* sets it back (main.go 38-101, postgres.go 80-178).
BootsMoveOn ==
  [][\A s \in Servers :
       /\ Boot(s) => BootMovesOn(s)
       /\ ~Boot(s) /\ ~Crash(s) => UNCHANGED <<life[s], pings[s], step[s]>>]_vars

\* ----------------------------------------------------- inductive invariant --

\* The statements before the one a process is at have taken effect, and the
\* last one leaves its row.
Migrated ==
  /\ \A s \in Servers :
       IF life[s] = "migrating" THEN 1 .. (step[s] - 1) \subseteq schema ELSE step[s] = 1
  /\ Last \in schema => devKey # "none"

\* Only a boot that ran to its end gives a pool, to a whole schema.
PoolsWhole ==
  \A s \in Servers :
    /\ pool[s] => /\ life[s] \in {"caching", "serving"}
                  /\ schema = 1 .. Last
                  /\ logger[s]
    /\ ~pool[s] => ~logger[s] /\ backlog[s] = 0

\* Processes that an outage or each other's migration meets are marked.
OutagesSeen == \A s \in Servers : Alive(s) /\ ~(postgres /\ redis) => disturbed[s]
OverlapsSeen ==
  \A s, t \in Servers :
    s # t /\ life[s] = "migrating" /\ life[t] = "migrating" => disturbed[s]

\* Without cause no process goes without pool or cache.
LacksSeen ==
  \A s \in Servers :
    /\ life[s] \in {"caching", "serving"} /\ ~pool[s] => OffDatabase(s)
    /\ life[s] = "serving" /\ ~cache[s] => OffCache(s)

\* What the requests have found so far.
ProbeHonest ==
  probe.at # "idle" =>
    /\ probe.server \in Servers
    /\ life[probe.server] = "serving"
    /\ probe.ready => pool[probe.server]
    /\ probe.at = "answered" /\ probe.ready => cache[probe.server]
    /\ ~probe.ready =>
         OffDatabase(probe.server) \/ OffCache(probe.server) \/ probe.crowded
ReportHonest ==
  report.at # "idle" =>
    /\ report.server \in Servers
    /\ life[report.server] = "serving"
    /\ report.at = "constant" => OffDatabase(report.server)
CountsHonest ==
  /\ rows.free <= rows.total
  /\ report.at = "checks" => report.free = 0
  /\ report.at \in {"free", "answered"} =>
       report.from.total <= report.total /\ report.total <= rows.total
  /\ report.at \in {"checks", "free", "answered"} =>
       /\ report.from.total <= rows.total
       /\ report.from.free <= report.from.total
       /\ report.from.free <= rows.free
       /\ rows.free - report.from.free <= rows.total - report.from.total

IndInv ==
  /\ TypeOK
  /\ Migrated
  /\ PoolsWhole
  /\ OutagesSeen
  /\ OverlapsSeen
  /\ LacksSeen
  /\ ProbeHonest
  /\ ReportHonest
  /\ CountsHonest
  /\ SummaryWithin

===============================================================================
