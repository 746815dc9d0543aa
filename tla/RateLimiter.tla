------------------------------ MODULE RateLimiter ------------------------------
(***************************************************************************)
(* internal/api/middleware.go: authentication and the sliding window rate  *)
(* limiter, for one rate limit key.                                        *)
(*                                                                         *)
(* The credentials of a request decide its key and its limit, so requests  *)
(* of one key may bring different limits. (A request whose credentials are *)
(* refused gets a 401 before it comes here; a path that is not limited     *)
(* never does.) A request reads the clock and has a Lua script evaluated   *)
(* by Redis, atomically; when the client gives up, the request falls back  *)
(* to the LocalLimiter of its process.  (A process without Redis is one    *)
(* whose evaluations all fail.)  Nothing takes a script back: Redis may    *)
(* run it long after its caller has gone on.  Time is counted in ticks of  *)
(* a millisecond.                                                          *)
(***************************************************************************)
EXTENDS Integers, FiniteSets

CONSTANTS
  Clients,     \* requests in progress at the same time
  Tokens,      \* credentials whose requests have this key: [kind, limit]
  RateLimitMax,\* RATE_LIMIT_MAX
  Window,      \* RATE_LIMIT_WINDOW_MS
  Second,      \* ticks of a second, the unit of Redis' EXPIRE
  Patience,    \* how long a request may wait for a reply: the client's timeouts (the
               \* 250 ms of the context bound its getting a connection, not its reading)
  Attempts,    \* how often the client sends a script before it gives up
  RedisFails,  \* TRUE iff scripts and replies may be late or lost
  SameTick,    \* TRUE iff two requests may read the same millisecond
  MaxTime,     \* bound: the clock stops here
  MaxLate      \* bound: scripts that nobody waits for any more

\* A JWT without a rate_limit claim. (A claim or a row below 1 lets nobody
\* through: 0 stands for all of them.)
NoClaim == -1

\* Keys of the form ratelimit:ip:, of the administrator, of a subject, and of
\* the owner of API keys are never the same.
ASSUME TokensAssumption ==
  /\ IsFiniteSet(Tokens)
  /\ \A s, t \in Tokens : s.kind = t.kind
  /\ \A t \in Tokens : t.kind \in {"none", "admin", "jwt", "apikey"}
  /\ \A t \in Tokens : t.limit \in Nat \/ (t.limit = NoClaim /\ t.kind # "apikey")
ASSUME LimitAssumption == RateLimitMax \in Nat /\ Window \in Nat \ {0} /\ Second \in Nat \ {0}
ASSUME TimesAssumption == Patience \in Nat /\ MaxTime \in Nat
ASSUME AttemptsAssumption == Attempts \in Nat \ {0} /\ MaxLate \in Nat
ASSUME ModesAssumption == RedisFails \in BOOLEAN /\ SameTick \in BOOLEAN
ASSUME ClientsAssumption == IsFiniteSet(Clients)

Times == 0 .. MaxTime

VARIABLES
  now,       \* the clock
  pc,        \* pc[c]: "idle", "redis" (script sent) or "local" (falling back)
  limit,     \* limit[c]: rate_limit_max of the request of c; 0 when there is none
  stamp,     \* stamp[c]: the time the request of c sent to Redis
  sent,      \* sent[c]: how often its script has been sent, while it waits
  late,      \* scripts on their way that nobody waits for any more
  zset,      \* the sorted set of the key: a set, since the member is the score
  expiry,    \* when Redis forgets the key
  tracks,    \* tracks[t]: entries of the local limiter made at time t
  passed,    \* the requests let through on the word of Redis, when and with what limit,
  byRedis,   \* byRedis[<<t, n>>]: scripts of limit n that admitted at time t, and
  byLocal    \* byLocal[<<t, n>>]: requests the local limiter let through, all three
             \* as far back as anyone asks

vars == <<now, pc, limit, stamp, sent, late, zset, expiry, tracks, passed, byRedis, byLocal>>

\* What the authentication grants: the standard limit, ten times as much for
\* the administrator, the claim of a JWT if it has one, the API key's row.
LimitOf(token) ==
  CASE token.kind = "none" -> RateLimitMax
    [] token.kind = "admin" -> RateLimitMax * 10
    [] token.kind = "jwt" /\ token.limit = NoClaim -> RateLimitMax
    [] OTHER -> token.limit

Limits == {LimitOf(token) : token \in Tokens}
Nobody == [x \in Times \X Limits |-> 0]

\* A script, by its arguments; a request that Redis let through.
Scripts == [stamp : Times, limit : Limits]
Passes == [stamp : Times, at : Times, limit : Limits]

TypeOK ==
  /\ now \in Times
  /\ pc \in [Clients -> {"idle", "redis", "local"}]
  /\ limit \in [Clients -> Limits \cup {0}]
  /\ stamp \in [Clients -> Times]
  /\ sent \in [Clients -> 0 .. Attempts]
  /\ late \subseteq Scripts
  /\ zset \subseteq Times
  /\ expiry \in Nat
  /\ tracks \in [Times -> Nat]
  /\ passed \subseteq Passes
  /\ byRedis \in [Times \X Limits -> Nat]
  /\ byLocal \in [Times \X Limits -> Nat]

Init ==
  /\ now = 0
  /\ pc = [c \in Clients |-> "idle"]
  /\ limit = [c \in Clients |-> 0]
  /\ stamp = [c \in Clients |-> 0]
  /\ sent = [c \in Clients |-> 0]
  /\ late = {}
  /\ zset = {}
  /\ expiry = 0
  /\ tracks = [t \in Times |-> 0]
  /\ passed = {}
  /\ byRedis = Nobody
  /\ byLocal = Nobody

\* What f counts at the places S: the first, second, ... of each place.
Entries(f, S) == UNION {{x} \X (1 .. f[x]) : x \in S}
CountIn(f, S) == Cardinality(Entries(f, S))

\* The ticks after "from" and up to "to".
Between(from, to) == {t \in Times : from < t /\ t <= to}

\* The properties look back a window and the time a request may be on its way.
Recent(f) ==
  [x \in Times \X Limits |-> IF x[1] > now - Window - Patience THEN f[x] ELSE 0]

\* How many requests f counts in the times T, and how many of limits up to n.
Admitted(f, T) == CountIn(f, T \X Limits)
UpTo(n, f, T) == CountIn(f, T \X {m \in Limits : m <= n})

\* Requests of a limit up to n that Redis let through, in the window shorter by
\* Patience that ends at t.
PassedUpTo(n, t) ==
  {p \in passed : p.at \in Between(t - (Window - Patience), t) /\ p.limit <= n}

\* The clock moves; a request does not wait for a reply past its patience.
Tick ==
  /\ now < MaxTime
  /\ \A c \in Clients : pc[c] = "redis" => now < stamp[c] + Patience
  /\ now' = now + 1
  /\ passed' = {p \in passed : p.at > now' - (Window - Patience)}
  /\ byRedis' = Recent(byRedis)
  /\ byLocal' = Recent(byLocal)
  /\ UNCHANGED <<pc, limit, stamp, sent, late, zset, expiry, tracks>>

\* A request is authenticated, reads the clock and sends its script.
Arrive(c) ==
  /\ pc[c] = "idle"
  /\ SameTick \/ \A d \in Clients : stamp[d] < now
  /\ \E token \in Tokens : limit' = [limit EXCEPT ![c] = LimitOf(token)]
  /\ stamp' = [stamp EXCEPT ![c] = now]
  /\ sent' = [sent EXCEPT ![c] = 1]
  /\ pc' = [pc EXCEPT ![c] = "redis"]
  /\ UNCHANGED <<now, late, zset, expiry, tracks, passed, byRedis, byLocal>>

\* The request is answered or passed on.
Leave(c) ==
  /\ pc' = [pc EXCEPT ![c] = "idle"]
  /\ limit' = [limit EXCEPT ![c] = 0]
  /\ sent' = [sent EXCEPT ![c] = 0]

\* ---------------------------------------------------------- the Lua script --

\* Mutated: without ZREMRANGEBYSCORE, leaving it to EXPIRE.
Seen_NoPrune(s) == IF expiry <= now THEN {} ELSE zset

\* What the script of a request of time s sees: nothing if the key has expired,
\* else the entries that its own clearBefore spares.
Seen(s) == IF expiry <= now THEN {} ELSE {t \in zset : t > s - Window}

Admits(s, n) == Cardinality(Seen(s)) < n

\* Mutated: PEXPIRE with a number of seconds.
ExpireTicks_Pexpire == Window \div Second

\* int(window.Seconds()): whole seconds only. EXPIRE 0 deletes the key.
ExpireTicks == (Window \div Second) * Second

\* Redis runs a script: ZREMRANGEBYSCORE, ZCARD and, if admitted, ZADD and EXPIRE.
Script(s, n) ==
  IF Admits(s, n)
  THEN /\ expiry' = now + ExpireTicks
       /\ zset' = IF ExpireTicks = 0 THEN {} ELSE Seen(s) \cup {s}
       /\ byRedis' = [byRedis EXCEPT ![<<now, n>>] = @ + 1]
  ELSE /\ zset' = Seen(s)
       /\ UNCHANGED <<expiry, byRedis>>

\* The client hears nothing, or an error: it sends the script again, while it has
\* attempts left, or the request falls back.
GivesUp(c) ==
  \/ /\ sent[c] < Attempts
     /\ sent' = [sent EXCEPT ![c] = @ + 1]
     /\ UNCHANGED pc
  \/ /\ pc' = [pc EXCEPT ![c] = "local"]
     /\ sent' = [sent EXCEPT ![c] = 0]

\* The script runs while the request waits. The reply decides, or is lost: the
\* request has been counted all the same.
Eval(c) ==
  /\ pc[c] = "redis"
  /\ Script(stamp[c], limit[c])
  /\ \/ /\ Leave(c)
        /\ passed' = IF Admits(stamp[c], limit[c])
                     THEN passed \cup {[stamp |-> stamp[c], at |-> now, limit |-> limit[c]]}
                     ELSE passed
     \/ /\ RedisFails
        /\ GivesUp(c)
        /\ UNCHANGED <<limit, passed>>
  /\ UNCHANGED <<now, stamp, late, tracks, byLocal>>

\* The client gives up before Redis has run the script. It never arrived, or is
\* still to be run.
Abandon(c) ==
  /\ pc[c] = "redis"
  /\ RedisFails
  /\ GivesUp(c)
  /\ \/ UNCHANGED late
     \/ /\ Cardinality(late) < MaxLate
        /\ late' = late \cup {[stamp |-> stamp[c], limit |-> limit[c]]}
  /\ UNCHANGED <<now, limit, stamp, zset, expiry, tracks, passed, byRedis, byLocal>>

\* Redis runs a script nobody waits for, at any time after, or never will.
EvalLate(m) ==
  /\ \/ Script(m.stamp, m.limit)
     \/ UNCHANGED <<zset, expiry, byRedis>>
  /\ late' = late \ {m}
  /\ UNCHANGED <<now, pc, limit, stamp, sent, tracks, passed, byLocal>>

\* -------------------------------------------------------- LocalLimiter.Allow --

\* Under the mutex, with a clock read under it: drop what has left the
\* window, then admit and record, or refuse.
Active == [t \in Times |-> IF t > now - Window THEN tracks[t] ELSE 0]

\* Mutated: "len(active) > limit".
LocalAdmits_OneMore(c) == CountIn(Active, Times) <= limit[c]

LocalAdmits(c) == CountIn(Active, Times) < limit[c]

Allow(c) ==
  /\ pc[c] = "local"
  /\ tracks' = IF LocalAdmits(c) THEN [Active EXCEPT ![now] = @ + 1] ELSE Active
  /\ byLocal' = [byLocal EXCEPT ![<<now, limit[c]>>] = IF LocalAdmits(c) THEN @ + 1 ELSE @]
  /\ Leave(c)
  /\ UNCHANGED <<now, stamp, late, zset, expiry, passed, byRedis>>

\* ----------------------------------------------------------- specification --

\* The bounded clock has stopped and nobody is waiting.
Stopped ==
  /\ now = MaxTime
  /\ \A c \in Clients : pc[c] = "idle"
  /\ UNCHANGED vars

Next ==
  \/ Tick
  \/ \E c \in Clients : Arrive(c) \/ Eval(c) \/ Abandon(c) \/ Allow(c)
  \/ \E m \in late : EvalLate(m)
  \/ Stopped

Spec == Init /\ [][Next]_vars

\* -------------------------------------------------------------- properties --

\* The in-memory fallback is exact: whatever requests race for its mutex, and
\* even within one millisecond, no window of the configured length holds more
\* than n requests it has let through on the strength of a limit up to n.
LocalWindow ==
  \A n \in Limits : \A t \in Times : UpTo(n, byLocal, Between(t - Window, t)) <= n

\* Redis is exact up to the time a request may wait for its reply. Requests carry
\* the clock they read before, scripts run in any order, some of them twice, and
\* some so late that their callers are long gone: these are never let through, and
\* prune no more than the others. So no window shorter by Patience holds more
\* than n requests let through on the word of Redis with a limit up to n. It takes
\* distinct milliseconds and a window of whole seconds. With LocalWindow: failures
\* of Redis cost at most a second budget.
RedisWindow ==
  ~SameTick /\ Window % Second = 0 =>
    \A n \in Limits : \A t \in Times : Cardinality(PassedUpTo(n, t)) <= n

\* Nobody under the limit is turned away: while either limiter has admitted
\* fewer times than the limit of a request since the start of its window, it
\* admits that one, whatever limits the others had and however late they were.
NoLockout ==
  \A c \in Clients :
    /\ pc[c] = "redis" /\ Admitted(byRedis, Between(stamp[c] - Window, now)) < limit[c] => Admits(stamp[c], limit[c])
    /\ pc[c] = "local" /\ Admitted(byLocal, Between(now - Window, now)) < limit[c] => LocalAdmits(c)

\* README.md:165: RATE_LIMIT_MAX is the "Max client requests in window". (Every
\* request a script admits is let through when no reply is lost.)
MaxRequestsInWindow ==
  ~RedisFails => \A t \in Times :
    Admitted(byRedis, Between(t - Window, t)) + Admitted(byLocal, Between(t - Window, t)) <= RateLimitMax

\* -------------------------------------------- the inductive invariant, by parts --

\* Where a window that anyone looks at may start.
Starts == (0 - Window - Patience) .. MaxTime

\* A request on its way has a limit, has read the clock in the past, and is not
\* kept waiting.
OnTheWay ==
  \A c \in Clients :
    /\ pc[c] # "idle" => limit[c] \in Limits
    /\ stamp[c] <= now
    /\ pc[c] = "redis" => now <= stamp[c] + Patience

\* Nothing is recorded for times to come.
NothingAhead ==
  \A t \in Times : t > now =>
    /\ tracks[t] = 0
    /\ \A n \in Limits : byRedis[<<t, n>>] = 0 /\ byLocal[<<t, n>>] = 0

\* The local limiter has an entry for every request it has let through, and no other.
LocalRecorded ==
  \A x \in Starts : x >= now - Window =>
    Admitted(byLocal, Between(x, now)) = CountIn(tracks, Between(x, now))

\* A script that nobody waits for read the clock in the past.
LateOnes == \A m \in late : m.stamp <= now

\* Requests are told apart by their clock, unless they may read the same one.
StampsApart ==
  ~SameTick =>
    /\ \A c, d \in Clients : pc[c] = "redis" /\ stamp[c] = stamp[d] => c = d
    /\ \A p, q \in passed : p.stamp = q.stamp => p = q
    /\ \A p \in passed : \A c \in Clients : pc[c] = "redis" => p.stamp # stamp[c]
    /\ \A p \in passed : \E c \in Clients : p.stamp <= stamp[c]

\* A request was let through at most Patience after it read the clock. While the
\* shorter window reaches it Redis has its entry, in a key it keeps for a window
\* after it was let through.
PassedInSet ==
  /\ IsFiniteSet(passed)
  /\ \A p \in passed : p.stamp <= p.at /\ p.at <= p.stamp + Patience /\ p.at <= now
  /\ Window % Second = 0 =>
       \A p \in passed : p.at > now - (Window - Patience) =>
         p.stamp \in zset /\ p.at + Window <= expiry

\* Every member of the set is the clock of a script that has admitted since.
SetAdmitted ==
  \A x \in Starts : x >= now - Window - Patience =>
    Cardinality({z \in zset : z > x}) <= Admitted(byRedis, Between(x, now))

\* The inductive strengthening of the safety properties above.
IndInv ==
  /\ TypeOK
  /\ OnTheWay
  /\ LateOnes
  /\ NothingAhead
  /\ LocalRecorded
  /\ LocalWindow
  /\ StampsApart
  /\ PassedInSet
  /\ RedisWindow
  /\ SetAdmitted
===============================================================================
