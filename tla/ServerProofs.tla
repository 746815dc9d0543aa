----------------------------- MODULE ServerProofs -----------------------------
(* Machine-checked proofs about ServerLife, for any number of processes,      *)
(* environments, pings, outages, crashes, rows and queued writes.             *)
EXTENDS ServerLife, TLAPS

\* ----------------------------------------------------------- the statements --

\* There are eight statements, and each refers to earlier ones only.
LEMMA EightStatements == Last = 8
BY DEF Last, Statements

LEMMA NeedsEarlier ==
  ASSUME NEW n \in 1 .. Last
  PROVE  Needs(n) \subseteq 1 .. (n - 1)
<1>1. n \in 1 .. 8
  BY EightStatements
<1>2. CASE n = 1
  BY <1>2 DEF Needs, Statements
<1>3. CASE n = 2
  BY <1>3 DEF Needs, Statements
<1>4. CASE n = 3
  BY <1>4 DEF Needs, Statements
<1>5. CASE n = 4
  BY <1>5 DEF Needs, Statements
<1>6. CASE n = 5
  BY <1>6 DEF Needs, Statements
<1>7. CASE n = 6
  BY <1>7 DEF Needs, Statements
<1>8. CASE n = 7
  BY <1>8 DEF Needs, Statements
<1>9. CASE n = 8
  BY <1>9 DEF Needs, Statements
<1>10. QED
  BY <1>1, <1>2, <1>3, <1>4, <1>5, <1>6, <1>7, <1>8, <1>9

\* ----------------------------------------------------------- initial states --

LEMMA InitIndInv == Init => IndInv
<1> SUFFICES ASSUME Init PROVE IndInv
  OBVIOUS
<1>1. TypeOK
  <2>1. 1 \in 1 .. Last
    BY EightStatements
  <2>2. postgres \in BOOLEAN
    BY DEF Init
  <2>3. redis \in BOOLEAN
    BY DEF Init
  <2>4. schema \subseteq 1 .. Last /\ devKey \in {"none", "active", "inactive"} /\ rows \in Counts
    BY DEF Init, NoRows, Counts
  <2>5. /\ life \in [Servers -> Phases]
        /\ pings \in [Servers -> Nat] /\ step \in [Servers -> 1 .. Last]
        /\ backlog \in [Servers -> Nat]
    BY <2>1 DEF Init, Phases
  <2>6. /\ pool \in [Servers -> BOOLEAN] /\ logger \in [Servers -> BOOLEAN]
        /\ cache \in [Servers -> BOOLEAN] /\ disturbed \in [Servers -> BOOLEAN]
    BY DEF Init
  <2>7. probe \in [server : Servers \cup {"nobody"}, at : {"idle", "redis", "answered"},
                   ready : BOOLEAN, crowded : BOOLEAN]
    BY DEF Init, NoProbe
  <2>8. report \in [server : Servers \cup {"nobody"},
                    at : {"idle", "checks", "free", "answered", "failed", "constant"},
                    total : Nat, free : Int, from : Counts]
    BY DEF Init, NoReport, Blank, NoRows, Counts
  <2>9. QED
    BY <2>2, <2>3, <2>4, <2>5, <2>6, <2>7, <2>8 DEF TypeOK
<1>2. Migrated /\ PoolsWhole /\ OutagesSeen /\ OverlapsSeen /\ LacksSeen
  BY EightStatements DEF Init, Migrated, PoolsWhole, OutagesSeen, OverlapsSeen, LacksSeen, Alive
<1>3. ProbeHonest /\ ReportHonest
  BY DEF Init, NoProbe, NoReport, Blank, ProbeHonest, ReportHonest
<1>4. CountsHonest /\ SummaryWithin
  BY DEF Init, NoReport, Blank, NoRows, CountsHonest, SummaryWithin
<1>5. QED
  BY <1>1, <1>2, <1>3, <1>4 DEF IndInv

\* --------------------------------------------------------------- framework --

\* What a step that moves s alone leaves of the other processes.
OthersKept(s) ==
  \A t \in Servers \ {s} :
    /\ life'[t] = life[t] /\ pool'[t] = pool[t] /\ cache'[t] = cache[t]
    /\ disturbed[t] => disturbed'[t]

LEMMA BootKeepsOthers ==
  ASSUME TypeOK, NEW s \in Servers, Boot(s)
  PROVE  /\ OthersKept(s)
         /\ life[s] # "serving"
         /\ UNCHANGED <<env, rows, probe, report>>
<1>1. CASE Start(s)
  BY <1>1 DEF Start, OthersKept, TypeOK, database, requests
<1>2. CASE PingSucceeds(s)
  BY <1>2 DEF PingSucceeds, OthersKept, TypeOK, database, requests
<1>3. CASE PingFails(s)
  BY <1>3 DEF PingFails, OthersKept, TypeOK, database, requests
<1>4. CASE Migrate(s)
  BY <1>4 DEF Migrate, OthersKept, TypeOK, requests
<1>5. CASE MigrateFails(s)
  BY <1>5 DEF MigrateFails, OthersKept, TypeOK, database, requests
<1>6. CASE InitRedis(s)
  BY <1>6 DEF InitRedis, OthersKept, TypeOK, database, requests
<1>7. CASE OpenFails(s)
  BY <1>7 DEF OpenFails, OthersKept, TypeOK, database, requests
<1>8. QED
  BY <1>1, <1>2, <1>3, <1>4, <1>5, <1>6, <1>7 DEF Boot

\* A request that is looked at is served by a process that has booted.
LEMMA RequestsKept ==
  ASSUME ProbeHonest, ReportHonest, NEW s \in Servers, OthersKept(s), life[s] # "serving",
         UNCHANGED <<env, probe, report>>
  PROVE  ProbeHonest' /\ ReportHonest'
<1>1. ProbeHonest'
  BY DEF ProbeHonest, OthersKept, OffDatabase, OffCache
<1>2. ReportHonest'
  BY DEF ReportHonest, OthersKept, OffDatabase
<1>3. QED
  BY <1>1, <1>2

\* Requests keep what they found while their process does.
LEMMA RequestsKeptWith ==
  ASSUME ProbeHonest, ReportHonest, UNCHANGED <<env, life, pool, cache, probe, report>>,
         \A t \in Servers : disturbed[t] => disturbed'[t]
  PROVE  ProbeHonest' /\ ReportHonest'
<1>1. ProbeHonest'
  BY DEF ProbeHonest, OffDatabase, OffCache
<1>2. ReportHonest'
  BY DEF ReportHonest, OffDatabase
<1>3. QED
  BY <1>1, <1>2

LEMMA CountsKept ==
  ASSUME CountsHonest, SummaryWithin, UNCHANGED <<rows, report>>
  PROVE  CountsHonest' /\ SummaryWithin'
BY DEF CountsHonest, SummaryWithin

\* The parts about processes and the database, for steps of requests.
LEMMA ProcessKept ==
  ASSUME Migrated, PoolsWhole, OutagesSeen, OverlapsSeen, LacksSeen,
         UNCHANGED <<env, schema, devKey, life, step, pool, logger, cache, backlog, disturbed,
                     postgres, redis>>
  PROVE  Migrated' /\ PoolsWhole' /\ OutagesSeen' /\ OverlapsSeen' /\ LacksSeen'
<1>1. Migrated'
  BY DEF Migrated, Statements, Last
<1>2. PoolsWhole'
  BY DEF PoolsWhole, Statements, Last
<1>3. OutagesSeen'
  BY DEF OutagesSeen, Alive
<1>4. OverlapsSeen' /\ LacksSeen'
  BY DEF OverlapsSeen, LacksSeen, OffDatabase, OffCache
<1>5. QED
  BY <1>1, <1>2, <1>3, <1>4

\* --------------------------------------------------------- type correctness --

LEMMA BootTyped ==
  ASSUME TypeOK, NEW s \in Servers, Boot(s)
  PROVE  TypeOK'
<1> USE EightStatements
<1>1. life' \in [Servers -> Phases] /\ disturbed' \in [Servers -> BOOLEAN]
  <2>1. CASE Start(s)
    BY <2>1 DEF Start, TypeOK, Phases
  <2>2. CASE PingSucceeds(s)
    BY <2>2 DEF PingSucceeds, TypeOK, Phases
  <2>3. CASE PingFails(s)
    BY <2>3 DEF PingFails, TypeOK, Phases
  <2>4. CASE Migrate(s)
    BY <2>4 DEF Migrate, TypeOK, Phases
  <2>5. CASE MigrateFails(s)
    BY <2>5 DEF MigrateFails, TypeOK, Phases
  <2>6. CASE InitRedis(s)
    BY <2>6 DEF InitRedis, TypeOK, Phases
  <2>7. CASE OpenFails(s)
    BY <2>7 DEF OpenFails, TypeOK, Phases
  <2>8. QED
    BY <2>1, <2>2, <2>3, <2>4, <2>5, <2>6, <2>7 DEF Boot
<1>2. pings' \in [Servers -> Nat] /\ step' \in [Servers -> 1 .. Last]
  <2>1. CASE Start(s)
    BY <2>1 DEF Start, TypeOK
  <2>2. CASE PingSucceeds(s)
    BY <2>2 DEF PingSucceeds, TypeOK
  <2>3. CASE PingFails(s)
    BY <2>3 DEF PingFails, TypeOK
  <2>4. CASE Migrate(s)
    BY <2>4 DEF Migrate, TypeOK
  <2>5. CASE MigrateFails(s)
    BY <2>5 DEF MigrateFails, TypeOK
  <2>6. CASE InitRedis(s)
    BY <2>6 DEF InitRedis, TypeOK
  <2>7. CASE OpenFails(s)
    BY <2>7 DEF OpenFails, TypeOK
  <2>8. QED
    BY <2>1, <2>2, <2>3, <2>4, <2>5, <2>6, <2>7 DEF Boot
<1>3. /\ pool' \in [Servers -> BOOLEAN] /\ logger' \in [Servers -> BOOLEAN]
      /\ cache' \in [Servers -> BOOLEAN] /\ backlog' \in [Servers -> Nat]
  BY DEF Boot, Start, OpenFails, PingSucceeds, PingFails, Migrate, MigrateFails, InitRedis,
         ReachesRedis, TypeOK
<1>4. schema' \subseteq 1 .. Last /\ devKey' \in {"none", "active", "inactive"}
  <2>1. CASE Migrate(s)
    <3>1. step[s] \in 1 .. Last
      BY DEF TypeOK
    <3>2. schema' \subseteq 1 .. Last
      BY <2>1, <3>1 DEF Migrate, TypeOK
    <3>3. devKey' \in {"none", "active", "inactive"}
      BY <2>1 DEF Migrate, Seeded, TypeOK
    <3>4. QED
      BY <3>2, <3>3
  <2>2. CASE ~Migrate(s)
    BY <2>2 DEF Boot, Start, OpenFails, PingSucceeds, PingFails, MigrateFails, InitRedis, TypeOK,
                database
  <2>3. QED
    BY <2>1, <2>2
<1>5. UNCHANGED <<postgres, redis>>
  BY DEF Boot, Start, OpenFails, PingSucceeds, PingFails, Migrate, MigrateFails, InitRedis, world
<1>6. UNCHANGED <<rows, probe, report>>
  BY BootKeepsOthers
<1>7. QED
  BY <1>1, <1>2, <1>3, <1>4, <1>5, <1>6 DEF TypeOK

LEMMA CrashTyped ==
  ASSUME TypeOK, NEW s \in Servers, Crash(s)
  PROVE  TypeOK'
<1>1. /\ life' \in [Servers -> Phases] /\ pings' \in [Servers -> Nat]
      /\ step' \in [Servers -> 1 .. Last] /\ backlog' \in [Servers -> Nat]
  BY EightStatements DEF Crash, TypeOK, Phases
<1>2. /\ pool' \in [Servers -> BOOLEAN] /\ logger' \in [Servers -> BOOLEAN]
      /\ cache' \in [Servers -> BOOLEAN]
  BY DEF Crash, TypeOK
<1>3. UNCHANGED <<schema, devKey, rows, postgres, redis, disturbed>>
  BY DEF Crash, database
<1>4. probe' = NoProbe \/ probe' = probe
  BY DEF Crash
<1>5. report' = NoReport \/ report' = report
  BY DEF Crash
<1>6. probe' \in [server : Servers \cup {"nobody"}, at : {"idle", "redis", "answered"},
                  ready : BOOLEAN, crowded : BOOLEAN]
  <2>1. CASE probe' = NoProbe
    BY <2>1 DEF NoProbe
  <2>2. CASE probe' = probe
    BY <2>2 DEF TypeOK
  <2>3. QED
    BY <1>4, <2>1, <2>2
<1>7. report' \in [server : Servers \cup {"nobody"},
                   at : {"idle", "checks", "free", "answered", "failed", "constant"},
                   total : Nat, free : Int, from : Counts]
  BY <1>5 DEF TypeOK, NoReport, Blank, NoRows, Counts
<1>8. QED
  BY <1>1, <1>2, <1>3, <1>6, <1>7 DEF TypeOK

\* Steps of the world and of the logger.
LEMMA WorldTyped ==
  ASSUME TypeOK, Outage \/ Recovery \/ Deactivate
  PROVE  TypeOK'
<1>1. UNCHANGED <<life, pings, step, pool, logger, cache, backlog>>
  BY DEF Outage, Recovery, Deactivate, process
<1>2. UNCHANGED <<schema, rows, probe, report>>
  BY DEF Outage, Recovery, Deactivate, database, requests
<1>3. postgres' \in BOOLEAN
  BY DEF Outage, Recovery, Deactivate, world, TypeOK
<1>4. redis' \in BOOLEAN
  BY DEF Outage, Recovery, Deactivate, world, TypeOK
<1>5. disturbed' \in [Servers -> BOOLEAN]
  BY DEF Outage, Recovery, Deactivate, TypeOK
<1>6. devKey' \in {"none", "active", "inactive"}
  BY DEF Outage, Recovery, Deactivate, database, TypeOK
<1>7. QED
  BY <1>1, <1>2, <1>3, <1>4, <1>5, <1>6 DEF TypeOK

LEMMA LogTyped ==
  ASSUME TypeOK, NEW s \in Servers, LogCheck(s) \/ SaveDomainCheck(s)
  PROVE  TypeOK'
<1>1. UNCHANGED <<life, pings, step, pool, logger, cache, schema, devKey, disturbed>>
  BY DEF LogCheck, SaveDomainCheck, database
<1>2. UNCHANGED <<postgres, redis, probe, report>>
  BY DEF LogCheck, SaveDomainCheck, world, requests
<1>3. backlog' \in [Servers -> Nat]
  BY DEF LogCheck, SaveDomainCheck, TypeOK
<1>4. rows' \in Counts
  BY DEF LogCheck, SaveDomainCheck, database, TypeOK, Counts
<1>5. QED
  BY <1>1, <1>2, <1>3, <1>4 DEF TypeOK

LEMMA RequestTyped ==
  ASSUME TypeOK, NEW s \in Servers,
         ReadinessCheck(s) \/ ReadinessAnswer \/ AskAnalytics(s) \/ CountChecks \/ CountFree
  PROVE  /\ TypeOK'
         /\ UNCHANGED <<env, schema, devKey, rows, life, step, pool, logger, cache, backlog,
                        disturbed, postgres, redis>>
<1>1. UNCHANGED <<life, pings, step, pool, logger, cache, backlog, disturbed>>
  BY DEF ReadinessCheck, ReadinessAnswer, AskAnalytics, CountChecks, CountFree, process
<1>2. UNCHANGED <<env, schema, devKey, rows, postgres, redis>>
  BY DEF ReadinessCheck, ReadinessAnswer, AskAnalytics, CountChecks, CountFree, database, world
<1>3. probe' \in [server : Servers \cup {"nobody"}, at : {"idle", "redis", "answered"},
                  ready : BOOLEAN, crowded : BOOLEAN]
  <2>1. PingsPostgres(s) \in BOOLEAN
    BY DEF PingsPostgres
  <2>2. PingsRedis(probe.server) \in BOOLEAN
    BY DEF PingsRedis
  <2>3. CASE ReadinessCheck(s)
    <3>1. PICK crowded \in BOOLEAN :
            probe' = [server |-> s, at |-> "redis", ready |-> PingsPostgres(s) /\ ~crowded,
                      crowded |-> crowded]
      BY <2>1, <2>3 DEF ReadinessCheck
    <3>2. (PingsPostgres(s) /\ ~crowded) \in BOOLEAN
      OBVIOUS
    <3>3. QED
      BY <3>1, <3>2
  <2>4. CASE ReadinessAnswer
    <3>1. PICK crowded \in BOOLEAN :
            probe' = [probe EXCEPT !.at = "answered",
                                   !.ready = @ /\ PingsRedis(probe.server) /\ ~crowded,
                                   !.crowded = @ \/ crowded]
      BY <2>2, <2>4 DEF ReadinessAnswer
    <3>2. /\ (probe.ready /\ PingsRedis(probe.server) /\ ~crowded) \in BOOLEAN
          /\ (probe.crowded \/ crowded) \in BOOLEAN
      OBVIOUS
    <3>3. QED
      BY <3>1, <3>2 DEF TypeOK
  <2>5. CASE AskAnalytics(s)
    BY <2>5 DEF AskAnalytics, NoProbe
  <2>6. CASE CountChecks \/ CountFree
    BY <2>6 DEF CountChecks, CountFree, TypeOK
  <2>7. QED
    BY <2>3, <2>4, <2>5, <2>6
<1>4. report' \in [server : Servers \cup {"nobody"},
                   at : {"idle", "checks", "free", "answered", "failed", "constant"},
                   total : Nat, free : Int, from : Counts]
  <2>1. rows.total \in Nat /\ rows.free \in Nat /\ rows \in Counts
    BY DEF TypeOK, Counts
  <2>2. CASE ReadinessCheck(s) \/ ReadinessAnswer
    BY <2>2 DEF ReadinessCheck, ReadinessAnswer, NoReport, Blank, NoRows, Counts, TypeOK
  <2>3. report \in [server : Servers \cup {"nobody"},
                    at : {"idle", "checks", "free", "answered", "failed", "constant"},
                    total : Nat, free : Int, from : Counts]
    BY DEF TypeOK
  <2>4. CASE AskAnalytics(s)
    <3>1. \/ report' = Blank(s, "constant") \/ report' = Blank(s, "failed")
          \/ report' = [Blank(s, "checks") EXCEPT !.from = rows]
      BY <2>4 DEF AskAnalytics
    <3>2. QED
      BY <2>1, <3>1 DEF Blank, NoRows, Counts
  <2>5. CASE CountChecks
    BY <2>1, <2>3, <2>5 DEF CountChecks, CountFails
  <2>6. CASE CountFree
    <3>1. \/ report' = [report EXCEPT !.at = "answered", !.free = RateFailed]
          \/ report' = [report EXCEPT !.at = "answered", !.free = rows.free]
      BY <2>6 DEF CountFree
    <3>2. RateFailed \in Int /\ rows.free \in Int
      BY <2>1 DEF RateFailed
    <3>3. QED
      BY <2>3, <3>1, <3>2
  <2>7. QED
    BY <2>2, <2>4, <2>5, <2>6
<1>5. QED
  BY <1>1, <1>2, <1>3, <1>4 DEF TypeOK

\* --------------------------------------------------------------------- boot --

LEMMA StartKeeps ==
  ASSUME IndInv, NEW s \in Servers, Start(s)
  PROVE  Migrated' /\ PoolsWhole' /\ OutagesSeen' /\ OverlapsSeen' /\ LacksSeen'
<1> USE DEF IndInv, TypeOK
<1>1. UNCHANGED <<env, schema, devKey, step, pool, logger, cache, backlog, postgres, redis>>
  BY DEF Start, database, world
<1>2. life' = [life EXCEPT ![s] = "pinging"] /\ life[s] = "down"
  BY DEF Start
<1>3. disturbed' = [disturbed EXCEPT ![s] = ~(postgres /\ redis)]
  BY DEF Start
<1>4. Migrated'
  BY <1>1, <1>2 DEF Migrated, Statements, Last
<1>5. PoolsWhole'
  BY <1>1, <1>2 DEF PoolsWhole, Statements, Last
<1>6. OutagesSeen'
  BY <1>1, <1>2, <1>3 DEF OutagesSeen, Alive
<1>7. OverlapsSeen'
  BY <1>2, <1>3 DEF OverlapsSeen
<1>8. LacksSeen'
  BY <1>1, <1>2, <1>3 DEF LacksSeen, OffDatabase, OffCache
<1>9. QED
  BY <1>4, <1>5, <1>6, <1>7, <1>8

LEMMA PingSucceedsKeeps ==
  ASSUME IndInv, NEW s \in Servers, PingSucceeds(s)
  PROVE  Migrated' /\ PoolsWhole' /\ OutagesSeen' /\ OverlapsSeen' /\ LacksSeen'
<1> USE DEF IndInv, TypeOK
<1>1. UNCHANGED <<env, schema, devKey, step, pool, logger, cache, backlog, postgres, redis>>
  BY DEF PingSucceeds, database, world
<1>2. life' = [life EXCEPT ![s] = "migrating"] /\ life[s] = "pinging"
  BY DEF PingSucceeds
<1>3. \A t \in Servers : disturbed[t] => disturbed'[t]
  BY DEF PingSucceeds
<1>4. Migrated'
  BY <1>1, <1>2 DEF Migrated, Statements, Last
<1>5. PoolsWhole'
  BY <1>1, <1>2 DEF PoolsWhole, Statements, Last
<1>6. OutagesSeen'
  BY <1>1, <1>2, <1>3 DEF OutagesSeen, Alive
<1>7. OverlapsSeen'
  BY <1>2 DEF OverlapsSeen, PingSucceeds
<1>8. LacksSeen'
  BY <1>1, <1>2, <1>3 DEF LacksSeen, OffDatabase, OffCache
<1>9. QED
  BY <1>4, <1>5, <1>6, <1>7, <1>8

LEMMA PingFailsKeeps ==
  ASSUME IndInv, NEW s \in Servers, PingFails(s)
  PROVE  Migrated' /\ PoolsWhole' /\ OutagesSeen' /\ OverlapsSeen' /\ LacksSeen'
<1> USE DEF IndInv, TypeOK
<1>1. UNCHANGED <<env, schema, devKey, step, pool, logger, cache, backlog, postgres, redis,
                  disturbed>>
  BY DEF PingFails, database, world
<1>2. /\ life[s] = "pinging"
      /\ life' = life \/ life' = [life EXCEPT ![s] = "caching"]
  BY DEF PingFails
<1>3. OffDatabase(s)
  BY <1>2 DEF PingFails, ReachesPostgres, OutagesSeen, Alive, OffDatabase
<1>4. Migrated'
  BY <1>1, <1>2 DEF Migrated, Statements, Last
<1>5. PoolsWhole'
  BY <1>1, <1>2 DEF PoolsWhole, Statements, Last
<1>6. OutagesSeen'
  BY <1>1, <1>2 DEF OutagesSeen, Alive
<1>7. OverlapsSeen'
  BY <1>1, <1>2 DEF OverlapsSeen
<1>8. LacksSeen'
  BY <1>1, <1>2, <1>3 DEF LacksSeen, OffDatabase, OffCache
<1>9. QED
  BY <1>4, <1>5, <1>6, <1>7, <1>8

LEMMA OpenFailsKeeps ==
  ASSUME IndInv, NEW s \in Servers, OpenFails(s)
  PROVE  Migrated' /\ PoolsWhole' /\ OutagesSeen' /\ OverlapsSeen' /\ LacksSeen'
<1> USE DEF IndInv, TypeOK
<1>1. UNCHANGED <<env, schema, devKey, step, pool, logger, cache, backlog, postgres, redis,
                  disturbed>>
  BY DEF OpenFails, database, world
<1>2. life' = [life EXCEPT ![s] = "caching"] /\ life[s] = "pinging"
  BY DEF OpenFails
<1>3. env.postgresURL # "right"
  BY DEF OpenFails
<1>4. Migrated'
  BY <1>1, <1>2 DEF Migrated, Statements, Last
<1>5. PoolsWhole'
  BY <1>1, <1>2 DEF PoolsWhole, Statements, Last
<1>6. OutagesSeen'
  BY <1>1, <1>2 DEF OutagesSeen, Alive
<1>7. OverlapsSeen'
  BY <1>1, <1>2 DEF OverlapsSeen
<1>8. LacksSeen'
  BY <1>1, <1>2, <1>3 DEF LacksSeen, OffDatabase, OffCache
<1>9. QED
  BY <1>4, <1>5, <1>6, <1>7, <1>8

LEMMA MigrateFailsKeeps ==
  ASSUME IndInv, NEW s \in Servers, MigrateFails(s)
  PROVE  Migrated' /\ PoolsWhole' /\ OutagesSeen' /\ OverlapsSeen' /\ LacksSeen'
<1> USE DEF IndInv, TypeOK
<1>1. UNCHANGED <<env, schema, devKey, pool, logger, cache, backlog, postgres, redis, disturbed>>
  BY DEF MigrateFails, database, world
<1>2. /\ life[s] = "migrating"
      /\ life' = [life EXCEPT ![s] = "caching"]
      /\ step' = [step EXCEPT ![s] = 1]
  BY DEF MigrateFails
<1>3. disturbed[s]
  <2>1. Needs(step[s]) \subseteq schema
    <3>1. Needs(step[s]) \subseteq 1 .. (step[s] - 1)
      BY NeedsEarlier
    <3>2. 1 .. (step[s] - 1) \subseteq schema
      BY <1>2 DEF Migrated
    <3>3. QED
      BY <3>1, <3>2
  <2>2. CASE ~postgres
    BY <1>2, <2>2 DEF OutagesSeen, Alive
  <2>3. CASE \E t \in Servers \ {s} : life[t] = "migrating"
    BY <1>2, <2>3 DEF OverlapsSeen
  <2>4. QED
    BY <2>1, <2>2, <2>3 DEF MigrateFails, StatementFails, Runs
<1>4. Migrated'
  BY <1>1, <1>2 DEF Migrated, Statements, Last
<1>5. PoolsWhole'
  BY <1>1, <1>2 DEF PoolsWhole, Statements, Last
<1>6. OutagesSeen'
  BY <1>1, <1>2 DEF OutagesSeen, Alive
<1>7. OverlapsSeen'
  BY <1>1, <1>2 DEF OverlapsSeen
<1>8. LacksSeen'
  BY <1>1, <1>2, <1>3 DEF LacksSeen, OffDatabase, OffCache
<1>9. QED
  BY <1>4, <1>5, <1>6, <1>7, <1>8

LEMMA InitRedisKeeps ==
  ASSUME IndInv, NEW s \in Servers, InitRedis(s)
  PROVE  Migrated' /\ PoolsWhole' /\ OutagesSeen' /\ OverlapsSeen' /\ LacksSeen'
<1> USE DEF IndInv, TypeOK
<1>1. UNCHANGED <<env, schema, devKey, step, pool, logger, backlog, postgres, redis, disturbed>>
  BY DEF InitRedis, database, world
<1>2. /\ life[s] = "caching"
      /\ life' = [life EXCEPT ![s] = "serving"]
      /\ cache' = [cache EXCEPT ![s] = ReachesRedis]
  BY DEF InitRedis
<1>3. ~ReachesRedis => OffCache(s)
  BY <1>2 DEF OutagesSeen, Alive, ReachesRedis, OffCache
<1>4. Migrated'
  BY <1>1, <1>2 DEF Migrated, Statements, Last
<1>5. PoolsWhole'
  BY <1>1, <1>2 DEF PoolsWhole, Statements, Last
<1>6. OutagesSeen'
  BY <1>1, <1>2 DEF OutagesSeen, Alive
<1>7. OverlapsSeen'
  BY <1>1, <1>2 DEF OverlapsSeen
<1>8. LacksSeen'
  BY <1>1, <1>2, <1>3 DEF LacksSeen, OffDatabase, OffCache
<1>9. QED
  BY <1>4, <1>5, <1>6, <1>7, <1>8

LEMMA MigrateKeeps ==
  ASSUME IndInv, NEW s \in Servers, Migrate(s)
  PROVE  Migrated' /\ PoolsWhole' /\ OutagesSeen' /\ OverlapsSeen' /\ LacksSeen'
<1> USE DEF IndInv, TypeOK
<1>1. UNCHANGED <<env, cache, backlog, postgres, redis, disturbed>>
  BY DEF Migrate, world
<1>2. life[s] = "migrating" /\ schema' = schema \cup {step[s]} /\ devKey' = Seeded(step[s])
  BY DEF Migrate
<1>3. step[s] \in 1 .. 8 /\ 1 .. (step[s] - 1) \subseteq schema /\ schema \subseteq 1 .. 8
  BY <1>2, EightStatements DEF Migrated
<1>4. Last' = Last /\ Last = 8
  BY EightStatements DEF Last, Statements
<1>5. Last \in schema' => devKey' # "none"
  BY <1>2, <1>4 DEF Migrated, Seeded
<1>6. CASE step[s] < Last
  <2>1. UNCHANGED <<life, pool, logger>> /\ step' = [step EXCEPT ![s] = @ + 1]
    BY <1>6 DEF Migrate
  <2>2. 1 .. (step'[s] - 1) \subseteq schema'
    BY <1>2, <1>3, <2>1
  <2>3. Migrated'
    BY <1>2, <1>4, <1>5, <2>1, <2>2 DEF Migrated
  <2>4. PoolsWhole'
    BY <1>1, <1>2, <1>3, <1>4, <2>1 DEF PoolsWhole
  <2>5. OutagesSeen' /\ OverlapsSeen' /\ LacksSeen'
    BY <1>1, <2>1 DEF OutagesSeen, OverlapsSeen, LacksSeen, Alive, OffDatabase,
           OffCache
  <2>6. QED
    BY <2>3, <2>4, <2>5
<1>7. CASE ~(step[s] < Last)
  <2>1. /\ life' = [life EXCEPT ![s] = "caching"] /\ pool' = [pool EXCEPT ![s] = TRUE]
        /\ logger' = [logger EXCEPT ![s] = TRUE] /\ step' = [step EXCEPT ![s] = 1]
    BY <1>7 DEF Migrate
  <2>2. schema' = 1 .. Last
    <3>1. step[s] = 8
      BY <1>3, <1>4, <1>7
    <3>2. schema' = schema \cup {8} /\ 1 .. (8 - 1) \subseteq schema /\ schema \subseteq 1 .. 8
      BY <1>2, <1>3, <3>1
    <3>3. \A n \in 1 .. 8 : n \in 1 .. (8 - 1) \/ n = 8
      OBVIOUS
    <3>4. schema' = 1 .. 8
      <4>1. ASSUME NEW n \in schema' PROVE n \in 1 .. 8
        BY <3>2
      <4>2. ASSUME NEW n \in 1 .. 8 PROVE n \in schema'
        BY <3>2, <3>3
      <4>3. QED
        BY <4>1, <4>2
    <3>5. QED
      BY <1>4, <3>4
  <2>3. Migrated'
    BY <1>2, <1>4, <1>5, <2>1 DEF Migrated
  <2>4. PoolsWhole'
    BY <1>1, <1>4, <2>1, <2>2 DEF PoolsWhole
  <2>5. OutagesSeen'
    BY <1>1, <1>2, <2>1 DEF OutagesSeen, Alive
  <2>6. OverlapsSeen' /\ LacksSeen'
    BY <1>1, <2>1 DEF OverlapsSeen, LacksSeen, OffDatabase, OffCache
  <2>7. QED
    BY <2>3, <2>4, <2>5, <2>6
<1>8. QED
  BY <1>6, <1>7

LEMMA BootKeeps ==
  ASSUME IndInv, NEW s \in Servers, Boot(s)
  PROVE  IndInv'
<1>1. TypeOK'
  BY BootTyped DEF IndInv
<1>2. Migrated' /\ PoolsWhole' /\ OutagesSeen' /\ OverlapsSeen' /\ LacksSeen'
  BY StartKeeps, OpenFailsKeeps, PingSucceedsKeeps, PingFailsKeeps, MigrateKeeps,
     MigrateFailsKeeps, InitRedisKeeps DEF Boot
<1>3. OthersKept(s) /\ life[s] # "serving" /\ UNCHANGED <<env, rows, probe, report>>
  BY BootKeepsOthers DEF IndInv
<1>4. ProbeHonest' /\ ReportHonest'
  BY <1>3, RequestsKept DEF IndInv
<1>5. CountsHonest' /\ SummaryWithin'
  BY <1>3, CountsKept DEF IndInv
<1>6. QED
  BY <1>1, <1>2, <1>4, <1>5 DEF IndInv

\* -------------------------------------------------------------------- world --

LEMMA CrashKeeps ==
  ASSUME IndInv, NEW s \in Servers, Crash(s)
  PROVE  IndInv'
<1> USE DEF IndInv
<1>1. TypeOK'
  BY CrashTyped
<1>2. UNCHANGED <<env, schema, devKey, rows, postgres, redis, disturbed>>
  BY DEF Crash, database
<1>3. /\ life' = [life EXCEPT ![s] = "down"] /\ step' = [step EXCEPT ![s] = 1]
      /\ pool' = [pool EXCEPT ![s] = FALSE] /\ logger' = [logger EXCEPT ![s] = FALSE]
      /\ cache' = [cache EXCEPT ![s] = FALSE] /\ backlog' = [backlog EXCEPT ![s] = 0]
  BY DEF Crash
<1>4. Migrated'
  BY <1>2, <1>3 DEF Migrated, TypeOK, Last, Statements
<1>5. PoolsWhole'
  BY <1>2, <1>3 DEF PoolsWhole, TypeOK, Last, Statements
<1>6. OutagesSeen'
  BY <1>2, <1>3 DEF OutagesSeen, TypeOK, Alive
<1>7. OverlapsSeen' /\ LacksSeen'
  BY <1>2, <1>3 DEF OverlapsSeen, LacksSeen, OffDatabase, OffCache, TypeOK
<1>8. ProbeHonest'
  BY <1>2, <1>3 DEF Crash, ProbeHonest, NoProbe, OffDatabase, OffCache, TypeOK
<1>9. ReportHonest'
  BY <1>2, <1>3 DEF Crash, ReportHonest, NoReport, Blank, OffDatabase, TypeOK
<1>10. CountsHonest' /\ SummaryWithin'
  <2>1. CASE report' = report
    BY <1>2, <2>1, CountsKept
  <2>2. CASE report' = NoReport
    BY <1>2, <2>2 DEF CountsHonest, SummaryWithin, NoReport, Blank
  <2>3. QED
    BY <2>1, <2>2 DEF Crash
<1>11. QED
  BY <1>1, <1>4, <1>5, <1>6, <1>7, <1>8, <1>9, <1>10

LEMMA WorldKeeps ==
  ASSUME IndInv, Outage \/ Recovery \/ Deactivate
  PROVE  IndInv'
<1> USE DEF IndInv
<1>1. TypeOK'
  BY WorldTyped
<1>2. UNCHANGED <<env, life, step, pool, logger, cache, backlog>>
  BY DEF Outage, Recovery, Deactivate, process
<1>3. UNCHANGED <<schema, rows, probe, report>>
  BY DEF Outage, Recovery, Deactivate, database, requests
<1>4. \A t \in Servers : disturbed[t] => disturbed'[t]
  BY DEF Outage, Recovery, Deactivate
<1>5. devKey # "none" => devKey' # "none"
  BY DEF Outage, Recovery, Deactivate, database
<1>6. Migrated'
  BY <1>2, <1>3, <1>5 DEF Migrated, Last, Statements
<1>7. PoolsWhole'
  BY <1>2, <1>3 DEF PoolsWhole, Last, Statements
<1>8. OutagesSeen'
  <2>1. CASE Outage
    BY <1>2, <2>1 DEF Outage, OutagesSeen, Alive
  <2>2. CASE Recovery
    BY <1>2, <2>2 DEF Recovery, OutagesSeen, Alive
  <2>3. CASE Deactivate
    BY <1>2, <2>3 DEF Deactivate, OutagesSeen, Alive, world
  <2>4. QED
    BY <2>1, <2>2, <2>3
<1>9. OverlapsSeen' /\ LacksSeen'
  BY <1>2, <1>4 DEF OverlapsSeen, LacksSeen, OffDatabase, OffCache
<1>10. ProbeHonest' /\ ReportHonest'
  BY <1>2, <1>3, <1>4, RequestsKeptWith
<1>11. CountsHonest' /\ SummaryWithin'
  BY <1>3, CountsKept
<1>12. QED
  BY <1>1, <1>6, <1>7, <1>8, <1>9, <1>10, <1>11

LEMMA LogKeeps ==
  ASSUME IndInv, NEW s \in Servers, LogCheck(s) \/ SaveDomainCheck(s)
  PROVE  IndInv'
<1> USE DEF IndInv
<1>1. TypeOK'
  BY LogTyped
<1>2. UNCHANGED <<env, life, step, pool, logger, cache, schema, devKey, disturbed>>
  BY DEF LogCheck, SaveDomainCheck, database
<1>3. UNCHANGED <<postgres, redis, probe, report>>
  BY DEF LogCheck, SaveDomainCheck, world, requests
<1>4. Migrated'
  BY <1>2 DEF Migrated, Last, Statements
<1>5. PoolsWhole'
  <2>1. pool[s]
    BY DEF LogCheck, SaveDomainCheck, PoolsWhole
  <2>2. \A t \in Servers : t # s => backlog'[t] = backlog[t]
    BY DEF LogCheck, SaveDomainCheck, TypeOK
  <2>3. QED
    BY <1>2, <2>1, <2>2 DEF PoolsWhole, Last, Statements
<1>6. OutagesSeen'
  BY <1>2, <1>3 DEF OutagesSeen, Alive
<1>7. OverlapsSeen' /\ LacksSeen'
  BY <1>2 DEF OverlapsSeen, LacksSeen, OffDatabase, OffCache
<1>8. ProbeHonest' /\ ReportHonest'
  BY <1>2, <1>3, RequestsKeptWith
<1>9. CountsHonest' /\ SummaryWithin'
  <2>1. \/ UNCHANGED rows
        \/ /\ rows'.total = rows.total + 1
           /\ rows'.free = rows.free \/ rows'.free = rows.free + 1
    BY DEF LogCheck, SaveDomainCheck, database, TypeOK, Counts
  <2>2. /\ rows.total \in Nat /\ rows.free \in Nat
        /\ report.total \in Nat /\ report.free \in Int
        /\ report.from.total \in Nat /\ report.from.free \in Nat
    BY DEF TypeOK, Counts
  <2>3. CASE UNCHANGED rows
    BY <1>3, <2>3, CountsKept
  <2>4. CASE /\ rows'.total = rows.total + 1
             /\ rows'.free = rows.free \/ rows'.free = rows.free + 1
    <3>1. CountsHonest'
      BY <1>3, <2>2, <2>4 DEF CountsHonest
    <3>2. SummaryWithin'
      BY <1>3, <2>2, <2>4 DEF SummaryWithin, RateFailed
    <3>3. QED
      BY <3>1, <3>2
  <2>5. QED
    BY <2>1, <2>3, <2>4
<1>10. QED
  BY <1>1, <1>4, <1>5, <1>6, <1>7, <1>8, <1>9

\* ----------------------------------------------------------------- requests --

LEMMA ProbeKeeps ==
  ASSUME IndInv, NEW s \in Servers, ReadinessCheck(s) \/ ReadinessAnswer
  PROVE  ProbeHonest' /\ ReportHonest' /\ CountsHonest' /\ SummaryWithin'
<1> USE DEF IndInv
<1>1. UNCHANGED <<env, life, pool, cache, disturbed, rows, postgres, redis>>
  BY DEF ReadinessCheck, ReadinessAnswer, process, database, world
<1>2. report' = report \/ report' = NoReport
  BY DEF ReadinessCheck, ReadinessAnswer
<1>3. ReportHonest'
  BY <1>1, <1>2 DEF ReportHonest, NoReport, Blank, OffDatabase
<1>4. CountsHonest' /\ SummaryWithin'
  <2>1. CASE report' = report
    BY <1>1, <2>1, CountsKept
  <2>2. CASE report' = NoReport
    BY <1>1, <2>2 DEF CountsHonest, SummaryWithin, NoReport, Blank
  <2>3. QED
    BY <1>2, <2>1, <2>2
<1>5. ProbeHonest'
  <2>1. CASE ReadinessCheck(s)
    <3>1. PICK crowded \in {FALSE, PingsPostgres(s)} :
            probe' = [server |-> s, at |-> "redis", ready |-> PingsPostgres(s) /\ ~crowded,
                      crowded |-> crowded]
      BY <2>1 DEF ReadinessCheck
    <3>2. life[s] = "serving"
      BY <2>1 DEF ReadinessCheck
    <3>3. ~PingsPostgres(s) => OffDatabase(s)
      BY <3>2 DEF PingsPostgres, OutagesSeen, LacksSeen, Alive, OffDatabase
    <3>4. PingsPostgres(s) => pool[s]
      BY DEF PingsPostgres
    <3>5. OffDatabase(s)' = OffDatabase(s)
      BY <1>1 DEF OffDatabase
    <3>6. QED
      BY <1>1, <3>1, <3>2, <3>3, <3>4, <3>5 DEF ProbeHonest
  <2>2. CASE ReadinessAnswer
    <3> DEFINE p == probe.server
    <3>1. PICK crowded \in {FALSE, PingsRedis(p)} :
            /\ probe'.server = p /\ probe'.at = "answered"
            /\ probe'.ready = (probe.ready /\ PingsRedis(p) /\ ~crowded)
            /\ probe'.crowded = (probe.crowded \/ crowded)
      BY <2>2 DEF ReadinessAnswer, TypeOK
    <3>2. probe.at = "redis" /\ p \in Servers /\ life[p] = "serving"
      BY <2>2 DEF ReadinessAnswer, ProbeHonest
    <3>3. ~PingsRedis(p) => OffCache(p)
      BY <3>2 DEF PingsRedis, OutagesSeen, LacksSeen, Alive, OffCache
    <3>4. /\ probe.ready => pool[p]
          /\ ~probe.ready => OffDatabase(p) \/ OffCache(p) \/ probe.crowded
      BY <3>2 DEF ProbeHonest
    <3>5. PingsRedis(p) => cache[p]
      BY DEF PingsRedis
    <3>6. OffDatabase(p)' = OffDatabase(p) /\ OffCache(p)' = OffCache(p)
      BY <1>1, <3>1 DEF OffDatabase, OffCache
    <3>7. QED
      BY <1>1, <3>1, <3>2, <3>3, <3>4, <3>5, <3>6 DEF ProbeHonest
  <2>3. QED
    BY <2>1, <2>2
<1>6. QED
  BY <1>3, <1>4, <1>5

LEMMA ReportKeeps ==
  ASSUME IndInv, NEW s \in Servers, AskAnalytics(s) \/ CountChecks \/ CountFree
  PROVE  ProbeHonest' /\ ReportHonest' /\ CountsHonest' /\ SummaryWithin'
<1> USE DEF IndInv
<1>1. UNCHANGED <<env, life, pool, cache, disturbed, rows>>
  BY DEF AskAnalytics, CountChecks, CountFree, process, database
<1>2. probe' = probe \/ probe' = NoProbe
  BY DEF AskAnalytics, CountChecks, CountFree
<1>3. ProbeHonest'
  BY <1>1, <1>2 DEF ProbeHonest, NoProbe, OffDatabase, OffCache
<1>4. /\ rows.total \in Nat /\ rows.free \in Nat
      /\ report.total \in Nat /\ report.free \in Int
      /\ report.from.total \in Nat /\ report.from.free \in Nat
  BY DEF TypeOK, Counts
<1>5. CASE AskAnalytics(s)
  <2>1. life[s] = "serving"
    BY <1>5 DEF AskAnalytics
  <2>2. \/ ~pool[s] /\ report' = Blank(s, "constant")
        \/ report' = Blank(s, "failed")
        \/ report' = [Blank(s, "checks") EXCEPT !.from = rows]
    BY <1>5 DEF AskAnalytics
  <2>3. ~pool[s] => OffDatabase(s)
    BY <2>1 DEF LacksSeen
  <2>4. ReportHonest'
    BY <1>1, <2>1, <2>2, <2>3 DEF ReportHonest, Blank, OffDatabase
  <2>5. CountsHonest' /\ SummaryWithin'
    BY <1>1, <1>4, <2>2 DEF CountsHonest, SummaryWithin, Blank
  <2>6. QED
    BY <1>3, <2>4, <2>5
<1>6. CASE CountChecks
  <2>1. /\ report.at = "checks" /\ report'.server = report.server
        /\ report'.from = report.from /\ report'.free = report.free
        /\ \/ report'.at = "failed"
           \/ /\ report'.at = IF rows.total > 0 THEN "free" ELSE "answered"
              /\ report'.total = rows.total
    BY <1>6 DEF CountChecks, CountFails, TypeOK
  <2>2. ReportHonest'
    BY <1>1, <2>1 DEF ReportHonest, OffDatabase
  <2>3. CountsHonest'
    BY <1>1, <1>4, <2>1 DEF CountsHonest
  <2>4. SummaryWithin'
    BY <1>1, <1>4, <2>1 DEF CountsHonest, SummaryWithin, RateFailed
  <2>5. QED
    BY <1>3, <2>2, <2>3, <2>4
<1>7. CASE CountFree
  <2>1. /\ report.at = "free" /\ report'.at = "answered" /\ report'.server = report.server
        /\ report'.total = report.total /\ report'.from = report.from
        /\ report'.free = RateFailed \/ report'.free = rows.free
    BY <1>7 DEF CountFree, TypeOK
  <2>2. ReportHonest'
    BY <1>1, <2>1 DEF ReportHonest, OffDatabase
  <2>3. CountsHonest'
    BY <1>1, <2>1 DEF CountsHonest
  <2>4. SummaryWithin'
    BY <1>1, <1>4, <2>1 DEF CountsHonest, SummaryWithin, RateFailed
  <2>5. QED
    BY <1>3, <2>2, <2>3, <2>4
<1>8. QED
  BY <1>5, <1>6, <1>7

LEMMA RequestKeeps ==
  ASSUME IndInv, NEW s \in Servers,
         ReadinessCheck(s) \/ ReadinessAnswer \/ AskAnalytics(s) \/ CountChecks \/ CountFree
  PROVE  IndInv'
<1>1. /\ TypeOK'
      /\ UNCHANGED <<env, schema, devKey, rows, life, step, pool, logger, cache, backlog,
                     disturbed, postgres, redis>>
  BY RequestTyped DEF IndInv
<1>2. Migrated' /\ PoolsWhole' /\ OutagesSeen' /\ OverlapsSeen' /\ LacksSeen'
  BY <1>1, ProcessKept DEF IndInv
<1>3. ProbeHonest' /\ ReportHonest' /\ CountsHonest' /\ SummaryWithin'
  BY ProbeKeeps, ReportKeeps
<1>4. QED
  BY <1>1, <1>2, <1>3 DEF IndInv

\* ----------------------------------------------------------------- theorems --

LEMMA NextKeepsIndInv == IndInv /\ [Next]_vars => IndInv'
<1> SUFFICES ASSUME IndInv, [Next]_vars PROVE IndInv'
  OBVIOUS
<1>1. ASSUME NEW s \in Servers, Boot(s) PROVE IndInv'
  BY <1>1, BootKeeps
<1>2. ASSUME NEW s \in Servers, Crash(s) PROVE IndInv'
  BY <1>2, CrashKeeps
<1>3. ASSUME NEW s \in Servers, LogCheck(s) \/ SaveDomainCheck(s) PROVE IndInv'
  BY <1>3, LogKeeps
<1>4. ASSUME NEW s \in Servers, ReadinessCheck(s) \/ AskAnalytics(s) PROVE IndInv'
  BY <1>4, RequestKeeps
<1>5. CASE ReadinessAnswer
  <2>1. probe.server \in Servers
    BY <1>5 DEF ReadinessAnswer, IndInv, ProbeHonest
  <2>2. QED
    BY <1>5, <2>1, RequestKeeps
<1>6. CASE CountChecks \/ CountFree
  <2>1. report.server \in Servers
    BY <1>6 DEF CountChecks, CountFree, IndInv, ReportHonest
  <2>2. QED
    BY <1>6, <2>1, RequestKeeps
<1>7. CASE Outage \/ Recovery \/ Deactivate
  BY <1>7, WorldKeeps
<1>8. CASE UNCHANGED vars
  <2>1. UNCHANGED <<env, process, database, requests, world, disturbed>>
    BY <1>8 DEF vars
  <2>2. UNCHANGED <<env, schema, devKey, rows, life, pings, step, pool, logger, cache, backlog>>
    BY <2>1 DEF process, database
  <2>3. UNCHANGED <<probe, report, postgres, redis, disturbed>>
    BY <2>1 DEF requests, world
  <2>4. TypeOK'
    BY <2>2, <2>3 DEF IndInv, TypeOK
  <2>5. Migrated' /\ PoolsWhole' /\ OutagesSeen' /\ OverlapsSeen' /\ LacksSeen'
    BY <2>2, <2>3, ProcessKept DEF IndInv
  <2>6. ProbeHonest' /\ ReportHonest'
    BY <2>2, <2>3, RequestsKeptWith DEF IndInv
  <2>7. CountsHonest' /\ SummaryWithin'
    BY <2>2, <2>3, CountsKept DEF IndInv
  <2>8. QED
    BY <2>4, <2>5, <2>6, <2>7 DEF IndInv
<1>9. QED
  BY <1>1, <1>2, <1>3, <1>4, <1>5, <1>6, <1>7, <1>8 DEF Next

\* The inductive invariant holds throughout (main.go 38-101, postgres.go
\* 80-171 and 288-326, handler.go 374-445).
THEOREM Invariance == Spec => []IndInv
<1>1. Init => IndInv
  BY InitIndInv
<1>2. IndInv /\ [Next]_vars => IndInv'
  BY NextKeepsIndInv
<1>3. QED
  BY <1>1, <1>2, PTL DEF Spec

\* A process that is deployed with the right URLs lacks its database, and
\* /readyz says 503 of it, only after an outage or another process's migration,
\* or, for /readyz, when its connections were taken (main.go 38-53, postgres.go
\* 80-178, redis.go 20-39, handler.go 374-415).
THEOREM OfflineExplained == Spec => []OfflineHasCause
<1>1. IndInv => OfflineHasCause
  <2> SUFFICES ASSUME IndInv PROVE OfflineHasCause
    OBVIOUS
  <2>1. \A s \in Servers : life[s] = "serving" /\ ~pool[s] => OffDatabase(s)
    BY DEF IndInv, LacksSeen
  <2>2. probe.at = "answered" /\ ~probe.ready =>
          OffDatabase(probe.server) \/ OffCache(probe.server) \/ probe.crowded
    BY DEF IndInv, ProbeHonest
  <2>3. report.at = "constant" => OffDatabase(report.server)
    BY DEF IndInv, ReportHonest
  <2>4. QED
    BY <2>1, <2>2, <2>3 DEF OfflineHasCause
<1>2. QED
  BY <1>1, Invariance, PTL

\* A pool means the whole schema and a running logger, and /readyz says 200 of
\* nothing less (postgres.go 80-178, handler.go 330-339 and 373-418).
THEOREM PoolMeansWhole == Spec => []ServesWhole
<1>1. IndInv => ServesWhole
  <2> SUFFICES ASSUME IndInv PROVE ServesWhole
    OBVIOUS
  <2>1. ASSUME NEW s \in Servers, pool[s]
        PROVE  schema = 1 .. Last /\ devKey # "none" /\ logger[s]
    <3>1. schema = 1 .. Last /\ logger[s]
      BY <2>1 DEF IndInv, PoolsWhole
    <3>2. devKey # "none"
      BY <3>1, EightStatements DEF IndInv, Migrated
    <3>3. QED
      BY <3>1, <3>2
  <2>2. ASSUME NEW s \in Servers, ~pool[s] PROVE ~logger[s] /\ backlog[s] = 0
    BY <2>2 DEF IndInv, PoolsWhole
  <2>3. probe.at = "answered" /\ probe.ready => pool[probe.server] /\ cache[probe.server]
    BY DEF IndInv, ProbeHonest
  <2>4. QED
    BY <2>1, <2>2, <2>3 DEF ServesWhole
<1>2. QED
  BY <1>1, Invariance, PTL

\* A summary is of the time of its request (postgres.go 288-326).
THEOREM SummariesHonest == Spec => []SummaryWithin
<1>1. IndInv => SummaryWithin
  BY DEF IndInv
<1>2. QED
  BY <1>1, Invariance, PTL

\* No boot, and nothing else, gives back a revoked key (postgres.go 162-166).
THEOREM RevokedForGood == Spec => KeyStaysRevoked
<1>1. [Next]_vars => [devKey = "inactive" => devKey' = "inactive"]_vars
  <2> SUFFICES ASSUME Next, devKey = "inactive" PROVE devKey' = "inactive"
    OBVIOUS
  <2>1. ASSUME NEW s \in Servers, Boot(s) PROVE devKey' = "inactive"
    BY <2>1 DEF Boot, Start, OpenFails, PingSucceeds, PingFails, Migrate, MigrateFails, InitRedis,
                database, Seeded
  <2>2. ASSUME NEW s \in Servers,
               \/ Crash(s) \/ LogCheck(s) \/ SaveDomainCheck(s)
               \/ ReadinessCheck(s) \/ AskAnalytics(s)
        PROVE  devKey' = "inactive"
    BY <2>2 DEF Crash, LogCheck, SaveDomainCheck, ReadinessCheck, AskAnalytics, database
  <2>3. CASE ReadinessAnswer \/ CountChecks \/ CountFree \/ Outage \/ Recovery \/ Deactivate
    BY <2>3 DEF ReadinessAnswer, CountChecks, CountFree, Outage, Recovery, Deactivate, database
  <2>4. QED
    BY <2>1, <2>2, <2>3 DEF Next
<1>2. QED
  BY <1>1, PTL DEF Spec, KeyStaysRevoked

\* ---------------------------------------------------------------- progress --

\* Each step of a boot is towards its end.
LEMMA BootStepMovesOn ==
  ASSUME TypeOK, PingsBounded, NEW s \in Servers, Boot(s)
  PROVE  BootMovesOn(s) /\ pings'[s] < PingLimit
<1>1. /\ life \in [Servers -> Phases] /\ pings \in [Servers -> Nat]
      /\ step \in [Servers -> 1 .. 8] /\ pings[s] < PingLimit /\ PingLimit \in Nat \ {0}
  BY EightStatements, PingAssumption DEF TypeOK, PingsBounded
<1>2. CASE Start(s)
  <2>1. life[s] = "down" /\ life'[s] = "pinging" /\ pings' = pings
    BY <1>1, <1>2 DEF Start
  <2>2. QED
    BY <1>1, <2>1 DEF BootMovesOn, PhasesAhead
<1>3. CASE PingSucceeds(s)
  <2>1. life[s] = "pinging" /\ life'[s] = "migrating" /\ pings'[s] = 0
    BY <1>1, <1>3 DEF PingSucceeds
  <2>2. QED
    BY <1>1, <2>1 DEF BootMovesOn, PhasesAhead
<1>4. CASE PingFails(s)
  <2>1. CASE pings[s] + 1 < PingLimit
    <3>1. life[s] = "pinging" /\ life' = life /\ pings'[s] = pings[s] + 1
      BY <1>1, <1>4, <2>1 DEF PingFails
    <3>2. PhasesAhead(s)' = PhasesAhead(s)
      BY <3>1 DEF PhasesAhead
    <3>3. QED
      BY <1>1, <2>1, <3>1, <3>2 DEF BootMovesOn
  <2>2. CASE ~(pings[s] + 1 < PingLimit)
    <3>1. life[s] = "pinging" /\ life'[s] = "caching" /\ pings'[s] = 0
      BY <1>1, <1>4, <2>2 DEF PingFails
    <3>2. QED
      BY <1>1, <3>1 DEF BootMovesOn, PhasesAhead
  <2>3. QED
    BY <2>1, <2>2
<1>5. CASE Migrate(s)
  <2>1. pings' = pings /\ life[s] = "migrating"
    BY <1>5 DEF Migrate
  <2>2. CASE step[s] < Last
    <3>1. life' = life /\ step'[s] = step[s] + 1
      BY <1>1, <1>5, <2>2 DEF Migrate
    <3>2. PhasesAhead(s)' = PhasesAhead(s)
      BY <3>1 DEF PhasesAhead
    <3>3. QED
      BY <1>1, <2>1, <3>1, <3>2 DEF BootMovesOn
  <2>3. CASE ~(step[s] < Last)
    <3>1. life'[s] = "caching"
      BY <1>1, <1>5, <2>3 DEF Migrate
    <3>2. QED
      BY <1>1, <2>1, <3>1 DEF BootMovesOn, PhasesAhead
  <2>4. QED
    BY <2>2, <2>3
<1>6. CASE MigrateFails(s)
  <2>1. life[s] = "migrating" /\ life'[s] = "caching" /\ pings' = pings
    BY <1>1, <1>6 DEF MigrateFails
  <2>2. QED
    BY <1>1, <2>1 DEF BootMovesOn, PhasesAhead
<1>7. CASE InitRedis(s)
  <2>1. life[s] = "caching" /\ life'[s] = "serving" /\ pings' = pings
    BY <1>1, <1>7 DEF InitRedis
  <2>2. QED
    BY <1>1, <2>1 DEF BootMovesOn, PhasesAhead
<1>8. CASE OpenFails(s)
  <2>1. life[s] = "pinging" /\ life'[s] = "caching" /\ pings' = pings
    BY <1>1, <1>8 DEF OpenFails
  <2>2. QED
    BY <1>1, <2>1 DEF BootMovesOn, PhasesAhead
<1>9. QED
  BY <1>2, <1>3, <1>4, <1>5, <1>6, <1>7, <1>8 DEF Boot

\* The boot, or the crash, of one process is none of another's.
LEMMA BootsApart ==
  ASSUME TypeOK, NEW t \in Servers, Boot(t) \/ Crash(t), NEW s \in Servers \ {t}
  PROVE  UNCHANGED <<life[s], pings[s], step[s]>>
<1>1. /\ life \in [Servers -> Phases] /\ pings \in [Servers -> Nat]
      /\ step \in [Servers -> 1 .. Last]
  BY DEF TypeOK
<1>2. life' = life \/ \E x : life' = [life EXCEPT ![t] = x]
  BY DEF Boot, Start, OpenFails, PingSucceeds, PingFails, Migrate, MigrateFails, InitRedis, Crash
<1>3. \/ pings' = pings \/ pings' = [pings EXCEPT ![t] = 0]
      \/ pings' = [pings EXCEPT ![t] = @ + 1]
  BY DEF Boot, Start, OpenFails, PingSucceeds, PingFails, Migrate, MigrateFails, InitRedis, Crash
<1>4. \/ step' = step \/ step' = [step EXCEPT ![t] = 1]
      \/ step' = [step EXCEPT ![t] = @ + 1]
  BY DEF Boot, Start, OpenFails, PingSucceeds, PingFails, Migrate, MigrateFails, InitRedis, Crash
<1>5. life'[s] = life[s]
  BY <1>1, <1>2
<1>6. pings'[s] = pings[s]
  BY <1>1, <1>3
<1>7. step'[s] = step[s]
  BY <1>1, <1>4
<1>8. QED
  BY <1>5, <1>6, <1>7

\* Neither is what happens around the processes.
LEMMA BootsUndisturbed ==
  ASSUME \/ \E t \in Servers :
              LogCheck(t) \/ SaveDomainCheck(t) \/ ReadinessCheck(t) \/ AskAnalytics(t)
         \/ ReadinessAnswer \/ CountChecks \/ CountFree
         \/ Outage \/ Recovery \/ Deactivate
         \/ UNCHANGED vars
  PROVE  UNCHANGED <<life, pings, step>>
BY DEF LogCheck, SaveDomainCheck, ReadinessCheck, AskAnalytics, ReadinessAnswer, CountChecks,
       CountFree, Outage, Recovery, Deactivate, vars, process

\* Each boot is a bounded walk: PingLimit pings at most, each statement once,
\* one ping of Redis; only a kill sends it back (main.go 38-101, postgres.go
\* 80-178). With it BootsEnd is a matter of fairness alone.
THEOREM BootsAdvance == Spec => []PingsBounded /\ BootsMoveOn
<1>1. Init => PingsBounded
  BY PingAssumption DEF Init, PingsBounded
<1>2. ASSUME TypeOK, PingsBounded, [Next]_vars, NEW s \in Servers
      PROVE  /\ Boot(s) => BootMovesOn(s)
             /\ ~Boot(s) /\ ~Crash(s) => UNCHANGED <<life[s], pings[s], step[s]>>
             /\ pings'[s] < PingLimit
  <2>1. Boot(s) => BootMovesOn(s) /\ pings'[s] < PingLimit
    BY <1>2, BootStepMovesOn
  <2>2. Crash(s) => pings'[s] < PingLimit
    BY <1>2, PingAssumption DEF Crash, TypeOK
  <2>3. ASSUME ~Boot(s), ~Crash(s) PROVE UNCHANGED <<life[s], pings[s], step[s]>>
    <3>1. CASE \E t \in Servers : Boot(t) \/ Crash(t)
      <4>1. PICK t \in Servers : Boot(t) \/ Crash(t)
        BY <3>1
      <4>2. s \in Servers \ {t}
        BY <2>3, <4>1
      <4>3. QED
        BY <1>2, <4>1, <4>2, BootsApart
    <3>2. CASE ~\E t \in Servers : Boot(t) \/ Crash(t)
      <4>1. UNCHANGED <<life, pings, step>>
        BY <1>2, <3>2, BootsUndisturbed DEF Next
      <4>2. QED
        BY <4>1
    <3>3. QED
      BY <3>1, <3>2
  <2>4. ASSUME ~Boot(s), ~Crash(s) PROVE pings'[s] < PingLimit
    BY <1>2, <2>3, <2>4 DEF PingsBounded
  <2>5. QED
    BY <2>1, <2>2, <2>3, <2>4
<1>3. TypeOK /\ PingsBounded /\ [Next]_vars => PingsBounded'
  BY <1>2 DEF PingsBounded
<1>4. TypeOK /\ PingsBounded /\ [Next]_vars =>
        [\A s \in Servers :
           /\ Boot(s) => BootMovesOn(s)
           /\ ~Boot(s) /\ ~Crash(s) => UNCHANGED <<life[s], pings[s], step[s]>>]_vars
  BY <1>2
<1>5. IndInv => TypeOK
  BY DEF IndInv
<1>6. QED
  BY <1>1, <1>3, <1>4, <1>5, Invariance, PTL DEF Spec, BootsMoveOn
===============================================================================
