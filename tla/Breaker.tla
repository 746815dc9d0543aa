------------------------------- MODULE Breaker -------------------------------
(***************************************************************************)
(* What a circuit breaker promises. NameForge has two kinds, both shared   *)
(* by goroutines that look at them, let go of the lock and act later: one  *)
(* per provider (workers/pool.go) and one for the price scraper            *)
(* (providers/hostinger.go). Modules Failover and KeylessProvider          *)
(* implement this one.                                                     *)
(***************************************************************************)
EXTENDS Integers

CONSTANTS
  Callers,    \* those who call what it protects
  TripAt,     \* failures that open it
  Cooldown,   \* time it stays open
  Forgiving,  \* whether calls may be made that are not held against it
  Fragile     \* whether a caller may be lost in the middle of a call

VARIABLES
  failures,  \* failures since the last success or expiry
  tripped,   \* whether it is open
  left,      \* time until it expires
  calls      \* callers who have asked it and have not reported yet

record == <<failures, tripped, left>>
vars == <<record, calls>>

Init == failures = 0 /\ tripped = FALSE /\ left = 0 /\ calls = {}

\* A failure counts, also on an open breaker; from TripAt on it (re)opens it.
Fail ==
  /\ failures' = failures + 1
  /\ IF failures + 1 >= TripAt
     THEN tripped' = TRUE /\ left' = Cooldown
     ELSE UNCHANGED <<tripped, left>>

\* Whatever closes it has it forget its failures.
Close ==
  /\ failures' = 0
  /\ tripped' = FALSE
  /\ UNCHANGED left

\* Whoever finds that its time has passed closes it.
Expire == tripped /\ left = 0 /\ Close

\* A call is begun; one that is not held against it clears the record first.
Call(c) ==
  /\ c \notin calls
  /\ calls' = calls \cup {c}
  /\ Expire \/ (Forgiving /\ Close) \/ UNCHANGED record

\* A call that was begun is reported at most once, at any time: a success closes it.
Report(c) ==
  /\ c \in calls
  /\ calls' = calls \ {c}
  /\ Fail \/ Close \/ (Forgiving /\ UNCHANGED record)

\* The caller has panicked: the call is over, and the breaker hears nothing of it.
Lose(c) ==
  /\ Fragile
  /\ c \in calls
  /\ calls' = calls \ {c}
  /\ UNCHANGED record

CoolDown ==
  /\ left > 0
  /\ left' = left - 1
  /\ UNCHANGED <<failures, tripped>>

Next ==
  \/ \E c \in Callers : Call(c) \/ Report(c) \/ Lose(c)
  \/ (Expire \/ CoolDown) /\ UNCHANGED calls

Spec == Init /\ [][Next]_vars

\* A breaker is open exactly when it has counted enough failures.
Consistent == tripped <=> failures >= TripAt
===============================================================================
