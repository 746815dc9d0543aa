------------------------------ MODULE BatchCheck ------------------------------
(***************************************************************************)
(* What WorkerPool.RunChecks (internal/workers/pool.go) promises its       *)
(* callers, with no worker, channel, cache or singleflight in sight: every *)
(* job of a batch comes to one outcome that never changes, an outcome is   *)
(* an answer or "lost", jobs are lost by panics only, and a call returns   *)
(* once all its jobs have come to an outcome, never before.                *)
(***************************************************************************)
EXTENDS Integers, Sequences

CONSTANTS Requests, Domains, Batch, MaxPanics

Answers == {"taken", "quoted", "standard", "providerError", "contextError"}
Open == "open"
Lost == "lost"
Jobs(r) == 1 .. Len(Batch[r])
AllJobs == UNION {{r} \X Jobs(r) : r \in Requests}

VARIABLES
  outcome,   \* outcome[<<r, j>>]: Open, Lost or the answer of job j of r
  returned,  \* the requests whose call has returned
  panics     \* panics so far

vars == <<outcome, returned, panics>>

Init ==
  /\ outcome = [x \in AllJobs |-> Open]
  /\ returned = {}
  /\ panics = 0

\* One job is answered; its call has not returned.
Answer(x) ==
  /\ outcome[x] = Open
  /\ x[1] \notin returned
  /\ outcome' \in {[outcome EXCEPT ![x] = a] : a \in Answers}
  /\ UNCHANGED <<returned, panics>>

\* One panic; it may lose open jobs of several calls.
Panic ==
  /\ panics < MaxPanics
  /\ panics' = panics + 1
  /\ \E S \in SUBSET {x \in AllJobs : outcome[x] = Open} :
       outcome' = [x \in AllJobs |-> IF x \in S THEN Lost ELSE outcome[x]]
  /\ UNCHANGED returned

Return(r) ==
  /\ r \notin returned
  /\ \A j \in Jobs(r) : outcome[<<r, j>>] # Open
  /\ returned' = returned \cup {r}
  /\ UNCHANGED <<outcome, panics>>

Next ==
  \/ \E x \in AllJobs : Answer(x)
  \/ Panic
  \/ \E r \in Requests : Return(r)

Spec == Init /\ [][Next]_vars
===============================================================================
