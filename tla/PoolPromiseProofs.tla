--------------------------- MODULE PoolPromiseProofs ---------------------------
(* What the inductive invariant of WorkerPoolProofs gives the callers of      *)
(* RunChecks: no context error without a cause, and, when at least one worker *)
(* is configured, the promise of BatchCheck.                                  *)
EXTENDS WorkerPoolProofs, FiniteSetTheorems

\* ------------------------------------------------- the cause of context errors --

\* A context that explains a context error for domain d in a batch of r.
Explained(r, d) ==
  \E q \in Requests : /\ ctx[q] = "done"
                      /\ q = r \/ \E k \in Jobs(q) : Batch[q][k] = d

\* The same, after a step.
ExplainedNext(r, d) ==
  \E q \in Requests : /\ ctx'[q] = "done"
                      /\ q = r \/ \E k \in Jobs(q) : Batch[q][k] = d

\* ContextErrorHasCause, for the errors that workers are about to hand on.
ErrorAtHandExplained ==
  \A w \in Workers :
    pc[w] \in {"landing", "deliver"} /\ ret[w] = "contextError" =>
      Explained(Req(w), DomainOf(w))

\* Contexts stay done.
LEMMA ExplainedStays ==
  ASSUME IndInv, [Next]_vars, NEW r \in Requests, NEW d, Explained(r, d)
  PROVE  ExplainedNext(r, d)
<1>1. \A q \in Requests : ctx[q] = "done" => ctx'[q] = "done"
  BY DEF IndInv, TypeOK, Next, WorkerStep, Quiescent, vars, Start, Return, ExpireCtx, Receive,
     Exit, Abort, PassCtx, Hit, Miss, Join, Lead, Deliver, LookupTaken, LookupAvailable,
     LookupError, Quote, Land, LookupPanic, CacheSet, CacheSetFails, CacheExpire
<1>2. QED
  BY <1>1 DEF Explained, ExplainedNext

\* A worker that has the same answer at hand before and after a step.
LEMMA ErrorsKept ==
  ASSUME IndInv, [Next]_vars, ErrorAtHandExplained,
         NEW w \in Workers, pc'[w] \in {"landing", "deliver"}, ret'[w] = "contextError",
         pc'[w] = pc[w], ret'[w] = ret[w], job'[w] = job[w]
  PROVE  ExplainedNext(Req(w), DomainOf(w)')
<1>1. Req(w) \in Requests /\ DomainOf(w)' = DomainOf(w)
  BY WorkerFacts DEF DomainOf
<1>2. Explained(Req(w), DomainOf(w))
  BY DEF ErrorAtHandExplained
<1>3. ExplainedNext(Req(w), DomainOf(w))
  BY <1>1, <1>2, ExplainedStays
<1>4. QED
  BY <1>1, <1>3

\* The errors at hand stay explained: a worker's own context, or the context
\* under which the leader of its flight runs, is done when they arise.
LEMMA ErrorAtHandStep ==
  ASSUME IndInv, [Next]_vars, ErrorAtHandExplained
  PROVE  ErrorAtHandExplained'
<1> SUFFICES ASSUME NEW v \in Workers, pc'[v] \in {"landing", "deliver"},
                    ret'[v] = "contextError"
             PROVE  ExplainedNext(Req(v), DomainOf(v)')
  BY DEF ErrorAtHandExplained, Explained, ExplainedNext
<1>0. /\ Req(v) \in Requests
      /\ pc \in [Workers -> Steps] /\ job \in [Workers -> Nat]
      /\ ret \in [Workers -> Answers \cup {None}]
      /\ ctx \in [Requests -> {"live", "done"}]
  BY WorkerFacts DEF IndInv, TypeOK
<1>1. CASE UNCHANGED <<pc, ret, job>>
  BY <1>1, ErrorsKept
<1>2. ASSUME NEW w \in Workers, WorkerStep(w) \/ LookupPanic(w)
      PROVE  ExplainedNext(Req(v), DomainOf(v)')
  <2>1. CASE Receive(w) \/ Exit(w) \/ PassCtx(w) \/ Miss(w) \/ Join(w) \/ Lead(w) \/ LookupAvailable(w)
    <3>1. pc'[w] \notin {"landing", "deliver"} /\ UNCHANGED ret
      BY <2>1, <1>0 DEF Receive, Exit, PassCtx, Miss, Join, Lead, LookupAvailable, Goto
    <3>2. v # w
      BY <3>1
    <3>3. pc'[v] = pc[v] /\ job'[v] = job[v]
      BY <2>1, <3>2, <1>0 DEF Receive, Exit, PassCtx, Miss, Join, Lead, LookupAvailable, Goto
    <3>4. QED
      BY <3>1, <3>3, ErrorsKept
  <2>2. CASE Hit(w) \/ Deliver(w) \/ LookupTaken(w) \/ Quote(w)
    <3>1. v # w
      <4>1. CASE Hit(w)
        <5>1. Holding(w)
          BY <4>1 DEF Hit, Holding
        <5>2. cache[DomainOf(w)] \in Good
          BY <4>1, <5>1, HoldingFacts DEF Hit, IndInv, TypeOK
        <5>3. QED
          BY <4>1, <5>2, <1>0 DEF Hit, Good
      <4>2. CASE Deliver(w)
        BY <4>2, <1>0 DEF Deliver, Goto
      <4>3. CASE LookupTaken(w) \/ Quote(w)
        BY <4>3, <1>0 DEF LookupTaken, Quote, Answered
      <4>4. QED
        BY <2>2, <4>1, <4>2, <4>3
    <3>2. pc'[v] = pc[v] /\ ret'[v] = ret[v] /\ job'[v] = job[v]
      BY <2>2, <3>1, <1>0 DEF Hit, Deliver, LookupTaken, Quote, Answered, Goto
    <3>3. QED
      BY <3>2, ErrorsKept
  <2>3. CASE Abort(w) \/ LookupError(w)
    <3>1. CASE v = w
      <4>1. ctx[Req(v)] = "done" /\ UNCHANGED ctx
        BY <2>3, <3>1, <1>0 DEF Abort, LookupError, Failed
      <4>2. QED
        BY <4>1, <1>0 DEF ExplainedNext
    <3>2. CASE v # w
      <4>1. pc'[v] = pc[v] /\ ret'[v] = ret[v] /\ job'[v] = job[v]
        BY <2>3, <3>2, <1>0 DEF Abort, LookupError, Failed, Goto
      <4>2. QED
        BY <4>1, ErrorsKept
    <3>3. QED
      BY <3>1, <3>2
  <2>4. CASE Land(w)
    <3>1. CASE v \in Followers(w) \cup {w}
      <4>1. /\ DomainOf(v) = DomainOf(w) /\ DomainOf(v)' = DomainOf(v)
            /\ ret[w] = "contextError" /\ pc[w] = "landing" /\ UNCHANGED ctx
        BY <2>4, <3>1 DEF Land, Followers, DomainOf
      <4>2. Explained(Req(w), DomainOf(w))
        BY <4>1 DEF ErrorAtHandExplained
      <4>3. Holding(w)
        BY <4>1 DEF Holding
      <4>4. job[w] \in Jobs(Req(w)) /\ Batch[Req(w)][job[w]] = DomainOf(v)
        BY <4>1, <4>3, HoldingFacts DEF DomainOf, Jobs
      <4>5. \E q \in Requests : ctx[q] = "done" /\ \E k \in Jobs(q) : Batch[q][k] = DomainOf(v)
        BY <4>1, <4>2, <4>4 DEF Explained
      <4>6. QED
        BY <4>1, <4>5 DEF ExplainedNext
    <3>2. CASE v \notin Followers(w) \cup {w}
      <4>1. pc'[v] = pc[v] /\ ret'[v] = ret[v] /\ job'[v] = job[v]
        BY <2>4, <3>2 DEF Land
      <4>2. QED
        BY <4>1, ErrorsKept
    <3>3. QED
      BY <3>1, <3>2
  <2>5. CASE LookupPanic(w)
    <3>1. pc'[v] = pc[v] /\ ret'[v] = ret[v] /\ job'[v] = job[v]
      BY <2>5, <1>0 DEF LookupPanic
    <3>2. QED
      BY <3>1, ErrorsKept
  <2>6. QED
    BY <1>2, <2>1, <2>2, <2>3, <2>4, <2>5 DEF WorkerStep
<1>3. QED
  BY <1>1, <1>2 DEF Next, Quiescent, vars, Start, Return, ExpireCtx, CacheSet, CacheSetFails,
     CacheExpire

\* The errors sent stay explained.
LEMMA SentErrorStep ==
  ASSUME IndInv, [Next]_vars, ErrorAtHandExplained, ContextErrorHasCause
  PROVE  ContextErrorHasCause'
<1> SUFFICES ASSUME NEW r \in Requests, NEW i \in DOMAIN resultChan'[r],
                    resultChan'[r][i].answer = "contextError"
             PROVE  ExplainedNext(r, Batch[r][resultChan'[r][i].job])
  BY DEF ContextErrorHasCause, ExplainedNext
<1>1. CASE i \in DOMAIN resultChan[r] /\ resultChan'[r][i] = resultChan[r][i]
  <2>1. Explained(r, Batch[r][resultChan[r][i].job])
    BY <1>1 DEF ContextErrorHasCause, Explained
  <2>2. ExplainedNext(r, Batch[r][resultChan[r][i].job])
    BY <2>1, ExplainedStays
  <2>3. QED
    BY <1>1, <2>2
<1>2. CASE UNCHANGED resultChan
  BY <1>1, <1>2
<1>3. ASSUME NEW w \in Workers, Deliver(w)
      PROVE  ExplainedNext(r, Batch[r][resultChan'[r][i].job])
  <2> DEFINE m == [job |-> job[w], answer |-> ret[w]]
  <2>1. resultChan \in [Requests -> Seq([job : Nat, answer : Answers])]
    BY DEF IndInv, TypeOK
  <2>2. /\ job[w] \in Nat /\ ret[w] \in Answers /\ pc[w] = "deliver"
        /\ Req(w) \in Requests /\ UNCHANGED ctx
    BY <1>3, WorkerFacts DEF Deliver, IndInv, TypeOK, AnswerAtHand
  <2>3. m \in [job : Nat, answer : Answers]
    BY <2>2
  <2>4. resultChan' = [resultChan EXCEPT ![Req(w)] = Append(resultChan[Req(w)], m)]
    BY <1>3 DEF Deliver
  <2>5. m.job = job[w] /\ m.answer = ret[w]
    OBVIOUS
  <2> HIDE DEF m
  <2>6. CASE r # Req(w)
    BY <1>1, <2>1, <2>4, <2>6
  <2>7. CASE r = Req(w)
    <3>1. resultChan'[r] = Append(resultChan[r], m) /\ resultChan[r] \in Seq([job : Nat, answer : Answers])
      BY <2>1, <2>4, <2>7
    <3>2. \/ i \in DOMAIN resultChan[r] /\ resultChan'[r][i] = resultChan[r][i]
          \/ resultChan'[r][i] = m
      BY <3>1, <2>3
    <3>3. CASE resultChan'[r][i] = m
      <4>1. Explained(r, DomainOf(w))
        BY <2>2, <2>5, <2>7, <3>3 DEF ErrorAtHandExplained
      <4>2. Batch[r][resultChan'[r][i].job] = DomainOf(w)
        BY <2>5, <2>7, <3>3 DEF DomainOf
      <4>3. QED
        BY <2>2, <4>1, <4>2 DEF Explained, ExplainedNext
    <3>4. QED
      BY <1>1, <3>2, <3>3
  <2>8. QED
    BY <2>6, <2>7
<1>4. QED
  BY <1>2, <1>3 DEF Next, WorkerStep, Quiescent, vars, Start, Return, ExpireCtx, Receive,
     Exit, Abort, PassCtx, Hit, Miss, Join, Lead, LookupTaken, LookupAvailable,
     LookupError, Quote, Land, LookupPanic, CacheSet, CacheSetFails, CacheExpire

\* No job is answered with a context error unless its own request's context, or
\* that of a request which looks up the same domain, is done (pool.go:141-146,
\* 208-216, 324-337): however the flights are shared, joined and led.
THEOREM ErrorsHaveCause == Spec => []ContextErrorHasCause
<1> DEFINE Inv == IndInv /\ ErrorAtHandExplained /\ ContextErrorHasCause
<1>1. Init => ErrorAtHandExplained /\ ContextErrorHasCause
  BY DEF Init, ErrorAtHandExplained, ContextErrorHasCause
<1>2. Inv /\ [Next]_vars => Inv'
  BY NextIndInv, ErrorAtHandStep, SentErrorStep
<1>3. QED
  BY InitIndInv, <1>1, <1>2, PTL DEF Spec

\* ------------------------------------------------------ the promise of BatchCheck --

\* The outcomes and the returned calls that BatchCheck sees.
Seen == [x \in UNION {{r} \X Jobs(r) : r \in Requests} |-> Outcome(x[1], x[2])]
Gone == {r \in Requests : phase[r] = "returned"}

\* The abstract jobs are the jobs of the batches.
LEMMA JobPairs ==
  /\ Abstract!AllJobs = UNION {{r} \X Jobs(r) : r \in Requests}
  /\ \A x \in Abstract!AllJobs : x[1] \in Requests /\ x[2] \in Jobs(x[1]) /\ x = <<x[1], x[2]>>
  /\ \A r \in Requests : \A j \in Jobs(r) : <<r, j>> \in Abstract!AllJobs
<1>1. Abstract!AllJobs = UNION {{r} \X Jobs(r) : r \in Requests}
  BY DEF Abstract!AllJobs, Abstract!Jobs, Jobs
<1>2. \A x \in Abstract!AllJobs : x[1] \in Requests /\ x[2] \in Jobs(x[1]) /\ x = <<x[1], x[2]>>
  BY <1>1
<1>3. \A r \in Requests : \A j \in Jobs(r) : <<r, j>> \in Abstract!AllJobs
  BY <1>1
<1>4. QED
  BY <1>1, <1>2, <1>3

\* An answered job has its answer for outcome, any other is lost or open.
OutcomesRead ==
  \A r \in Requests : \A j \in Jobs(r) :
    /\ \A i \in DOMAIN resultChan[r] :
         resultChan[r][i].job = j => Outcome(r, j) = resultChan[r][i].answer
    /\ j \notin Answering(r) /\ LostJob(r, j) => Outcome(r, j) = "lost"
    /\ j \notin Answering(r) /\ ~LostJob(r, j) => Outcome(r, j) = "open"

LEMMA OutcomesAreRead == IndInv => OutcomesRead
<1> SUFFICES ASSUME IndInv, NEW r \in Requests, NEW j \in Jobs(r)
             PROVE  /\ \A i \in DOMAIN resultChan[r] :
                         resultChan[r][i].job = j => Outcome(r, j) = resultChan[r][i].answer
                    /\ j \notin Answering(r) /\ LostJob(r, j) => Outcome(r, j) = "lost"
                    /\ j \notin Answering(r) /\ ~LostJob(r, j) => Outcome(r, j) = "open"
  BY DEF OutcomesRead
<1> DEFINE Sent == {i \in DOMAIN resultChan[r] : resultChan[r][i].job = j}
<1>1. Outcome(r, j) = IF Sent # {} THEN resultChan[r][CHOOSE i \in Sent : TRUE].answer
                      ELSE IF LostJob(r, j) THEN "lost" ELSE "open"
  BY DEF Outcome
<1>2. ASSUME NEW i \in Sent PROVE (CHOOSE k \in Sent : TRUE) = i
  <2>1. \A k \in Sent : k = i
    BY <1>2 DEF IndInv, AnsweredOnce
  <2>2. (CHOOSE k \in Sent : TRUE) \in Sent
    BY <1>2
  <2>3. QED
    BY <2>1, <2>2
<1>3. j \notin Answering(r) <=> Sent = {}
  BY DEF Answering
<1>4. ASSUME NEW i \in DOMAIN resultChan[r], resultChan[r][i].job = j
      PROVE  Outcome(r, j) = resultChan[r][i].answer
  <2>1. i \in Sent
    BY <1>4
  <2> HIDE DEF Sent
  <2>2. QED
    BY <1>1, <1>2, <2>1
<1> HIDE DEF Sent
<1>5. QED
  BY <1>1, <1>3, <1>4

\* The invariant, and how it reads outcomes, before and after a step.
Reads == IndInv /\ OutcomesRead

\* Once every worker of a batch has stopped, each job is answered or lost.
LEMMA StoppedSettles ==
  ASSUME Reads, NEW r \in Requests, NEW j \in Jobs(r), \A w \in WorkersOf(r) : Stopped(w)
  PROVE  Outcome(r, j) # "open"
<1>1. CASE j \in Answering(r)
  <2>1. PICK i \in DOMAIN resultChan[r] : resultChan[r][i].job = j
    BY <1>1 DEF Answering
  <2>2. resultChan[r][i].answer \in Answers
    <3>1. resultChan[r] \in Seq([job : Nat, answer : Answers])
      BY DEF Reads, IndInv, TypeOK
    <3>2. \A X : \A s \in Seq(X) : \A k \in DOMAIN s : s[k] \in X
      OBVIOUS
    <3> DEFINE Message == [job : Nat, answer : Answers]
    <3>3. resultChan[r][i] \in Message
      <4>1. resultChan[r] \in Seq(Message)
        BY <3>1
      <4> HIDE DEF Message
      <4>2. QED
        BY <2>1, <3>2, <4>1
    <3>4. QED
      BY <3>3
  <2>3. Outcome(r, j) \in Answers
    BY <2>1, <2>2 DEF Reads, OutcomesRead
  <2>4. QED
    BY <2>3 DEF Answers, Good, Errors
<1>2. CASE j \notin Answering(r)
  <2>1. LostJob(r, j)
    <3> SUFFICES ASSUME NEW u \in WorkersOf(r), pc[u] # "crashed" PROVE LostJob(r, j)
      BY DEF LostJob
    <3>1. next[r] = Len(Batch[r]) + 1
      BY DEF Reads, IndInv, ExitedLate, Stopped
    <3>2. j \in 1 .. next[r] - 1
      BY <3>1, BatchFacts DEF Jobs
    <3>3. PICK w \in WorkersOf(r) : Holding(w) /\ job[w] = j
      BY <1>2, <3>2 DEF Reads, IndInv, NothingDropped
    <3>4. QED
      BY <3>3 DEF Holding, Stopped, LostJob
  <2>2. QED
    BY <1>2, <2>1 DEF Reads, OutcomesRead
<1>3. QED
  BY <1>1, <1>2

\* A step that sends no result and ends no worker by a panic changes no outcome.
LEMMA OutcomesKept ==
  ASSUME Reads, Reads', UNCHANGED resultChan,
         \A v \in Workers : /\ pc'[v] = "crashed" <=> pc[v] = "crashed"
                            /\ pc[v] = "crashed" => job'[v] = job[v]
  PROVE  Seen' = Seen
<1> SUFFICES ASSUME NEW r \in Requests, NEW j \in Jobs(r)
             PROVE  Outcome(r, j)' = Outcome(r, j)
  BY JobPairs DEF Seen
<1>1. LostJob(r, j)' <=> LostJob(r, j)
  BY WorkerFacts DEF LostJob
<1>2. Answering(r)' = Answering(r)
  BY DEF Answering
<1>3. CASE j \in Answering(r)
  <2>1. PICK i \in DOMAIN resultChan[r] : resultChan[r][i].job = j
    BY <1>3 DEF Answering
  <2>2. Outcome(r, j) = resultChan[r][i].answer
    BY <2>1 DEF Reads, OutcomesRead
  <2>3. Outcome(r, j)' = resultChan'[r][i].answer
    BY <2>1 DEF Reads, OutcomesRead
  <2>4. QED
    BY <2>2, <2>3
<1>4. CASE j \notin Answering(r)
  BY <1>1, <1>2, <1>4 DEF Reads, OutcomesRead
<1>5. QED
  BY <1>3, <1>4
\* Start or Return of a call is a stutter or the Return of BatchCheck.
LEMMA CallMaps ==
  ASSUME WorkerCount > 0, Reads, Reads', NEW r \in Requests, Start(r) \/ Return(r)
  PROVE  [Abstract!Next]_(Abstract!vars)
<1>1. Seen' = Seen /\ UNCHANGED panics
  <2>1. UNCHANGED <<pc, job, resultChan, panics>>
    BY DEF Start, Return
  <2>2. QED
    BY <2>1, OutcomesKept
<1>2. phase \in [Requests -> {"new", "running", "returned"}]
  BY DEF Reads, IndInv, TypeOK
<1>3. CASE Start(r) /\ Batch[r] # << >>
  <2>1. Gone' = Gone
    BY <1>2, <1>3 DEF Start, Gone
  <2>2. QED
    BY <1>1, <2>1 DEF Abstract!vars, Seen, Gone
<1>4. CASE Return(r) \/ Batch[r] = << >>
  <2>1. r \notin Gone /\ Gone' = Gone \cup {r}
    BY <1>2, <1>4 DEF Start, Return, Gone
  <2>2. \A j \in Jobs(r) : Seen[<<r, j>>] # "open"
    <3>1. CASE Batch[r] = << >>
      BY <3>1 DEF Jobs
    <3>2. CASE Return(r)
      <4>1. \A j \in Jobs(r) : Outcome(r, j) # "open"
        BY <3>2, StoppedSettles DEF Return
      <4>2. QED
        BY <4>1, JobPairs DEF Seen
    <3>3. QED
      BY <1>4, <3>1, <3>2
  <2>3. Abstract!Return(r)
    BY <1>1, <2>1, <2>2 DEF Abstract!Return, Abstract!Jobs, Jobs, Abstract!Open, Seen, Gone
  <2>4. QED
    BY <2>3 DEF Abstract!Next
<1>5. QED
  BY <1>3, <1>4

\* A delivery settles the open job of its worker.
LEMMA DeliverMaps ==
  ASSUME Reads, Reads', NEW w \in Workers, Deliver(w)
  PROVE  [Abstract!Next]_(Abstract!vars)
<1> DEFINE r == Req(w)
<1>j. PICK n \in Jobs(r) : n = job[w]
  <2>1. Holding(w)
    BY DEF Deliver, Holding
  <2>2. QED
    BY <2>1, HoldingFacts DEF Jobs, Reads
<1> DEFINE m == [job |-> n, answer |-> ret[w]]
<1>0. /\ r \in Requests /\ w \in WorkersOf(r) /\ n \in Jobs(r)
      /\ pc[w] = "deliver" /\ pc'[w] = "idle" /\ Holding(w)
      /\ \A v \in Workers : v # w => pc'[v] = pc[v] /\ job'[v] = job[v]
      /\ UNCHANGED <<phase, panics>>
  BY <1>j, WorkerFacts DEF Reads, IndInv, TypeOK, Deliver, Goto, Holding
<1>1. /\ ret[w] \in Answers /\ m \in [job : Nat, answer : Answers]
      /\ resultChan \in [Requests -> Seq([job : Nat, answer : Answers])]
      /\ resultChan' = [resultChan EXCEPT ![r] = Append(resultChan[r], m)]
      /\ m.job = n /\ m.answer = ret[w]
  BY <1>0, <1>j DEF Reads, IndInv, TypeOK, AnswerAtHand, Deliver
<1>2. n \notin Answering(r) /\ ~LostJob(r, n)
  <2>1. n \notin Answering(r)
    BY <1>0, <1>j DEF Reads, IndInv, AnsweredOnce
  <2>2. ASSUME NEW v \in WorkersOf(r), pc[v] = "crashed" PROVE job[v] # n
    BY <1>0, <1>j, <2>2 DEF Reads, IndInv, HeldOnce, Holding
  <2>3. QED
    BY <1>0, <2>1, <2>2 DEF LostJob
<1> HIDE DEF m
<1>3. /\ DOMAIN resultChan'[r] = DOMAIN resultChan[r] \cup {Len(resultChan[r]) + 1}
      /\ \A i \in DOMAIN resultChan[r] : resultChan'[r][i] = resultChan[r][i]
      /\ resultChan'[r][Len(resultChan[r]) + 1] = m
      /\ \A q \in Requests : q # r => resultChan'[q] = resultChan[q]
  <2>1. resultChan'[r] = Append(resultChan[r], m) /\ resultChan[r] \in Seq([job : Nat, answer : Answers])
    BY <1>0, <1>1
  <2>2. \A q \in Requests : q # r => resultChan'[q] = resultChan[q]
    BY <1>0, <1>1
  <2> HIDE DEF r
  <2>3. QED
    BY <1>1, <2>1, <2>2
<1> HIDE DEF r
<1>4. Outcome(r, n) = "open"
  BY <1>0, <1>2 DEF Reads, OutcomesRead
<1>5. Outcome(r, n)' = ret[w]
  <2>1. \A i \in DOMAIN resultChan'[r] :
          resultChan'[r][i].job = n => Outcome(r, n)' = resultChan'[r][i].answer
    BY <1>0 DEF Reads, OutcomesRead
  <2>2. QED
    BY <1>1, <1>3, <2>1
<1>6. ASSUME NEW q \in Requests, NEW j \in Jobs(q), q # r \/ j # n
      PROVE  Outcome(q, j)' = Outcome(q, j)
  <2>1. CASE j \in Answering(q)
    <3>1. PICK i \in DOMAIN resultChan[q] : resultChan[q][i].job = j
      BY <2>1 DEF Answering
    <3>2. i \in DOMAIN resultChan'[q] /\ resultChan'[q][i] = resultChan[q][i]
      BY <1>3, <3>1
    <3>3. Outcome(q, j) = resultChan[q][i].answer
      BY <3>1 DEF Reads, OutcomesRead
    <3>4. Outcome(q, j)' = resultChan'[q][i].answer
      BY <3>1, <3>2 DEF Reads, OutcomesRead
    <3>5. QED
      BY <3>2, <3>3, <3>4
  <2>2. CASE j \notin Answering(q)
    <3>1. j \notin Answering(q)'
      BY <1>1, <1>3, <1>6, <2>2 DEF Answering
    <3>2. LostJob(q, j)' <=> LostJob(q, j)
      <4>1. \A v \in WorkersOf(q) :
              /\ pc'[v] = "crashed" <=> pc[v] = "crashed"
              /\ pc[v] = "crashed" => job'[v] = job[v]
        BY <1>0, WorkerFacts
      <4>2. QED
        BY <4>1 DEF LostJob
    <3>3. QED
      BY <2>2, <3>1, <3>2 DEF Reads, OutcomesRead
  <2>3. QED
    BY <2>1, <2>2
<1>7. Seen' = [Seen EXCEPT ![<<r, n>>] = ret[w]]
  <2>1. /\ <<r, n>> \in Abstract!AllJobs
        /\ Seen = [x \in Abstract!AllJobs |-> Outcome(x[1], x[2])]
        /\ Seen' = [x \in Abstract!AllJobs |-> Outcome(x[1], x[2])']
    BY <1>0, JobPairs DEF Seen
  <2>2. \A x \in Abstract!AllJobs : x # <<r, n>> => Outcome(x[1], x[2])' = Outcome(x[1], x[2])
    BY <1>6, JobPairs
  <2>3. \A x \in Abstract!AllJobs :
          Outcome(x[1], x[2])' = IF x = <<r, n>> THEN ret[w] ELSE Outcome(x[1], x[2])
    BY <1>5, <2>2
  <2>4. QED
    BY <2>1, <2>3
<1>8. Gone' = Gone /\ r \notin Gone
  BY <1>0 DEF Gone, Reads, IndInv, ReturnedStopped, Stopped
<1>9. Abstract!Answer(<<r, n>>)
  <2>1. <<r, n>> \in Abstract!AllJobs /\ Seen[<<r, n>>] = "open"
    BY <1>0, <1>4, JobPairs DEF Seen
  <2>2. ret[w] \in Abstract!Answers
    BY <1>1 DEF Abstract!Answers, Answers, Good, Errors
  <2>3. Seen' \in {[Seen EXCEPT ![<<r, n>>] = a] : a \in Abstract!Answers}
    BY <1>7, <2>2
  <2>4. <<r, n>>[1] \notin Gone
    BY <1>8
  <2>5. QED
    BY <1>0, <1>8, <2>1, <2>3, <2>4 DEF Abstract!Answer, Abstract!Open, Seen, Gone
<1>10. QED
  BY <1>0, <1>9, JobPairs DEF Abstract!Next

\* A panic loses open jobs, and touches no other outcome.
LEMMA PanicMaps ==
  ASSUME Reads, Reads', NEW w \in Workers, LookupPanic(w)
  PROVE  [Abstract!Next]_(Abstract!vars)
<1>1. /\ UNCHANGED <<phase, job, resultChan>> /\ panics < MaxPanics /\ panics' = panics + 1
      /\ \A v \in Workers : pc[v] = "crashed" => pc'[v] = "crashed"
  BY DEF LookupPanic, Reads, IndInv, TypeOK
<1>2. ASSUME NEW r \in Requests, NEW j \in Jobs(r)
      PROVE  Outcome(r, j)' = Outcome(r, j) \/ (Outcome(r, j) = "open" /\ Outcome(r, j)' = "lost")
  <2>1. Answering(r)' = Answering(r)
    BY <1>1 DEF Answering
  <2>2. CASE j \in Answering(r)
    <3>1. PICK i \in DOMAIN resultChan[r] : resultChan[r][i].job = j
      BY <2>2 DEF Answering
    <3>2. Outcome(r, j) = resultChan[r][i].answer
      BY <3>1 DEF Reads, OutcomesRead
    <3>3. Outcome(r, j)' = resultChan'[r][i].answer
      BY <1>1, <3>1 DEF Reads, OutcomesRead
    <3>4. QED
      BY <1>1, <3>2, <3>3
  <2>3. CASE j \notin Answering(r)
    <3>1. LostJob(r, j) => LostJob(r, j)'
      BY <1>1, WorkerFacts DEF LostJob
    <3>2. QED
      BY <2>1, <2>3, <3>1 DEF Reads, OutcomesRead
  <2>4. QED
    BY <2>2, <2>3
<1> DEFINE S == {x \in Abstract!AllJobs : Seen[x] = "open" /\ Seen'[x] = "lost"}
<1>3. Seen' = [x \in Abstract!AllJobs |-> IF x \in S THEN "lost" ELSE Seen[x]]
  BY <1>2, JobPairs DEF Seen
<1>4. S \in SUBSET {x \in Abstract!AllJobs : Seen[x] = "open"}
  OBVIOUS
<1> HIDE DEF S
<1>5. Gone' = Gone
  BY <1>1 DEF Gone
<1>6. Abstract!Panic
  BY <1>1, <1>3, <1>4, <1>5 DEF Abstract!Panic, Abstract!Open, Abstract!Lost, Seen, Gone
<1>7. QED
  BY <1>6 DEF Abstract!Next

\* Every other step is a stutter.
LEMMA OthersStutter ==
  ASSUME Reads, Reads', UNCHANGED <<phase, resultChan, panics>>,
         \A v \in Workers : /\ pc'[v] = "crashed" <=> pc[v] = "crashed"
                            /\ pc[v] = "crashed" => job'[v] = job[v]
  PROVE  [Abstract!Next]_(Abstract!vars)
<1>1. Seen' = Seen
  BY OutcomesKept
<1>2. Gone' = Gone
  BY DEF Gone
<1>3. QED
  BY <1>1, <1>2 DEF Abstract!vars, Seen, Gone

\* At first every job is open, at least one worker being configured.
LEMMA InitMaps ==
  ASSUME WorkerCount > 0, Init, Reads
  PROVE  Abstract!Init
<1>1. ASSUME NEW r \in Requests, NEW j \in Jobs(r) PROVE Outcome(r, j) = "open"
  <2>1. <<r, 1>> \in WorkersOf(r)
    BY BatchFacts, WorkerCountAssumption DEF WorkersOf, PoolSize, Jobs
  <2>2. ~LostJob(r, j)
    BY <2>1, WorkerFacts DEF LostJob, Init
  <2>3. j \notin Answering(r)
    BY DEF Answering, Init
  <2>4. QED
    BY <2>2, <2>3 DEF Reads, OutcomesRead
<1>2. Seen = [x \in Abstract!AllJobs |-> "open"]
  BY <1>1, JobPairs DEF Seen
<1>3. Gone = {} /\ panics = 0
  BY DEF Gone, Init
<1>4. QED
  BY <1>2, <1>3 DEF Abstract!Init, Abstract!Open, Seen, Gone

\* Every step of the pool is a step that BatchCheck allows.
LEMMA StepMaps ==
  ASSUME WorkerCount > 0, Reads, Reads', [Next]_vars
  PROVE  [Abstract!Next]_(Abstract!vars)
<1>0. pc \in [Workers -> Steps] /\ job \in [Workers -> Nat]
  BY DEF Reads, IndInv, TypeOK
<1>1. ASSUME NEW w \in Workers, WorkerStep(w) \/ LookupPanic(w)
      PROVE  [Abstract!Next]_(Abstract!vars)
  <2>1. CASE Deliver(w)
    BY <2>1, DeliverMaps
  <2>2. CASE LookupPanic(w)
    BY <2>2, PanicMaps
  <2>3. CASE Land(w)
    <3>1. UNCHANGED <<phase, resultChan, panics, job>>
      BY <2>3 DEF Land
    <3>2. \A v \in Workers : pc'[v] = "crashed" <=> pc[v] = "crashed"
      BY <1>0, <2>3 DEF Land, Followers
    <3>3. QED
      BY <3>1, <3>2, OthersStutter
  <2>4. CASE Receive(w) \/ Exit(w) \/ Abort(w) \/ PassCtx(w) \/ Hit(w) \/ Miss(w) \/ Join(w) \/ Lead(w)
             \/ LookupTaken(w) \/ LookupAvailable(w) \/ LookupError(w) \/ Quote(w)
    <3>1. /\ UNCHANGED <<phase, resultChan, panics>>
          /\ \A v \in Workers : v # w => pc'[v] = pc[v] /\ job'[v] = job[v]
          /\ pc[w] # "crashed" /\ pc'[w] # "crashed"
      BY <1>0, <2>4 DEF Receive, Exit, Abort, PassCtx, Hit, Miss, Join, Lead, LookupTaken,
         LookupAvailable, LookupError, Quote, Answered, Failed, Goto
    <3>2. QED
      BY <3>1, OthersStutter
  <2>5. QED
    BY <1>1, <2>1, <2>2, <2>3, <2>4 DEF WorkerStep
<1>2. CASE UNCHANGED <<phase, pc, job, resultChan, panics>>
  BY <1>2, OthersStutter
<1>3. QED
  BY <1>1, <1>2, CallMaps DEF Next, Quiescent, vars, ExpireCtx, CacheSet, CacheSetFails, CacheExpire

\* With at least one worker configured, RunChecks keeps the promise of
\* BatchCheck whatever the workers, flights, panics and cancellations do: a job
\* comes to one lasting outcome, only a panic loses jobs, and a call returns
\* exactly when its jobs are settled (pool.go:103-190).
THEOREM PoolKeepsPromise ==
  ASSUME WorkerCount > 0
  PROVE  Spec => ImplementsBatchCheck
<1>1. IndInv => Reads
  BY OutcomesAreRead DEF Reads
<1>2. Init /\ Reads => Abstract!Init
  BY InitMaps
<1>3. Reads /\ Reads' /\ [Next]_vars => [Abstract!Next]_(Abstract!vars)
  BY StepMaps
<1>4. QED
  BY <1>1, <1>2, <1>3, Invariance, PTL DEF Spec, ImplementsBatchCheck, Abstract!Spec

\* ------------------------------------------------------------------ progress --

\* The result channel has a place for each job: a worker that is about to send finds
\* room, because the results sent are of different jobs and none of the one it holds.
LEMMA RoomToSend ==
  ASSUME IndInv, NEW w \in Workers, pc[w] = "deliver"
  PROVE  Len(resultChan[Req(w)]) < Len(Batch[Req(w)])
<1> DEFINE r == Req(w)
           n == Len(Batch[r])
           sent == resultChan[r]
           Sent == 1 .. Len(sent)
           Others == (1 .. n) \ {job[w]}
           jobOf == [i \in Sent |-> sent[i].job]
<1>1. r \in Requests /\ w \in WorkersOf(r) /\ Holding(w) /\ n \in Nat
  BY WorkerFacts, BatchFacts DEF Holding
<1>2. sent \in Seq([job : Nat, answer : Answers]) /\ Len(sent) \in Nat /\ DOMAIN sent = Sent
  <2>1. sent \in Seq([job : Nat, answer : Answers])
    BY <1>1 DEF IndInv, TypeOK
  <2>2. QED
    BY <2>1
<1>3. job[w] \in 1 .. n
  BY <1>1, HoldingFacts
<1>4. ASSUME NEW i \in Sent PROVE sent[i].job \in Others
  <2>1. sent[i].job \in Answering(r)
    BY <1>2 DEF Answering
  <2>2. Answering(r) \subseteq 1 .. next[r] - 1 /\ next[r] <= n + 1 /\ next[r] \in Nat
    BY <1>1 DEF IndInv, OnlyReceived, TypeOK
  <2>3. job[w] \notin Answering(r)
    BY <1>1 DEF IndInv, AnsweredOnce
  <2> HIDE DEF n, sent, r
  <2>4. QED
    BY <1>1, <2>1, <2>2, <2>3
<1>5. \A i, k \in Sent : sent[i].job = sent[k].job => i = k
  BY <1>1, <1>2 DEF IndInv, AnsweredOnce
<1> HIDE DEF r, n, sent
<1>6. jobOf \in Injection(Sent, Others)
  BY <1>4, <1>5 DEF Injection, IsInjective
<1>7. IsFiniteSet(1 .. n) /\ Cardinality(1 .. n) = n
  BY <1>1, FS_Interval
<1>8. IsFiniteSet(Others) /\ Cardinality(Others) = n - 1
  BY <1>3, <1>7, FS_RemoveElement
<1>9. Cardinality(Sent) = Len(sent)
  BY <1>2, FS_Interval
<1> HIDE DEF jobOf, Others, Sent
<1>10. Cardinality(Sent) <= Cardinality(Others)
  BY <1>6, <1>8, FS_Injection
<1>11. QED
  BY <1>1, <1>2, <1>8, <1>9, <1>10 DEF r, n, sent

\* A worker of a running call that has not stopped and does not wait can step.
LEMMA CanGoOn ==
  ASSUME IndInv, NEW w \in Workers, phase[Req(w)] = "running",
         ~Stopped(w), pc[w] # "waiting"
  PROVE  CanStep(w)
BY RoomToSend DEF CanStep, Stopped

\* No call of RunChecks is ever stuck, whatever flights its workers share with those
\* of other calls: nobody waits for room in a channel, and whoever waits for a flight
\* waits for a worker that can step (pool.go:103-190).
THEOREM NobodyStuck == Spec => []NeverStuck
<1>1. IndInv => NeverStuck
  <2> SUFFICES ASSUME IndInv, NEW r \in Requests, phase[r] = "running",
                      NEW w \in WorkersOf(r), ~Stopped(w)
               PROVE  CanStep(w) \/ (pc[w] = "waiting" /\ CanStep(flight[DomainOf(w)]))
    BY DEF NeverStuck
  <2>1. w \in Workers /\ Req(w) = r
    BY WorkerFacts
  <2>2. CASE pc[w] = "waiting"
    <3> DEFINE v == flight[DomainOf(w)]
    <3>1. v \in Workers /\ phase[Req(v)] = "running" /\ Leading(v)
      BY <2>1, <2>2 DEF IndInv, FlightsHaveLeaders
    <3>2. ~Stopped(v) /\ pc[v] # "waiting"
      BY <3>1 DEF Leading, Stopped
    <3>3. CanStep(v)
      BY <3>1, <3>2, CanGoOn
    <3>4. QED
      BY <2>2, <3>3
  <2>3. CASE pc[w] # "waiting"
    BY <2>1, <2>3, CanGoOn
  <2>4. QED
    BY <2>2, <2>3
<1>2. QED
  BY <1>1, Invariance, PTL

\* What a worker has left to do is a natural number.
LEMMA WorkLeftNat ==
  ASSUME IndInv, NEW w \in Workers
  PROVE  /\ next[Req(w)] \in Nat /\ Len(Batch[Req(w)]) \in Nat
         /\ next[Req(w)] <= Len(Batch[Req(w)]) + 1
         /\ StepsLeft(pc[w]) \in Nat /\ WorkLeft(w) \in Nat
<1>1. Req(w) \in Requests
  BY WorkerFacts
<1>2. /\ next[Req(w)] \in Nat /\ Len(Batch[Req(w)]) \in Nat
      /\ next[Req(w)] <= Len(Batch[Req(w)]) + 1
  BY <1>1, BatchFacts DEF IndInv, TypeOK, OnlyReceived
<1>3. StepsLeft(pc[w]) \in Nat
  BY DEF StepsLeft
<1>4. QED
  BY <1>2, <1>3 DEF WorkLeft

\* A step that receives nothing, in which nobody's stage goes back.
LEMMA StageGoesOn ==
  ASSUME IndInv, next' = next, NEW w \in Workers,
         StepsLeft(pc'[w]) <= StepsLeft(pc[w])
  PROVE  /\ WorkLeft(w)' <= WorkLeft(w)
         /\ StepsLeft(pc'[w]) < StepsLeft(pc[w]) => WorkLeft(w)' < WorkLeft(w)
<1>1. StepsLeft(pc'[w]) \in Nat
  BY DEF StepsLeft
<1>2. WorkLeft(w)' = 8 * (Len(Batch[Req(w)]) + 1 - next[Req(w)]) + StepsLeft(pc'[w])
  BY DEF WorkLeft
<1>3. QED
  BY <1>1, <1>2, WorkLeftNat DEF WorkLeft

\* A step of worker u that moves u alone.
LEMMA OwnStageGoesOn ==
  ASSUME IndInv, next' = next, NEW u \in Workers, NEW to, pc' = [pc EXCEPT ![u] = to],
         StepsLeft(to) < StepsLeft(pc[u]), NEW w \in Workers
  PROVE  WorkLeft(w)' <= WorkLeft(w) /\ (w = u => WorkLeft(w)' < WorkLeft(w))
<1>1. pc \in [Workers -> Steps]
  BY DEF IndInv, TypeOK
<1>2. CASE w = u
  <2>1. pc'[w] = to
    BY <1>1, <1>2
  <2>2. StepsLeft(pc'[w]) <= StepsLeft(pc[w]) /\ StepsLeft(pc'[w]) < StepsLeft(pc[w])
    <3>1. StepsLeft(to) \in Nat /\ StepsLeft(pc[w]) \in Nat
      BY DEF StepsLeft
    <3>2. QED
      BY <1>2, <2>1, <3>1
  <2>3. QED
    BY <2>2, StageGoesOn
<1>3. CASE w # u
  <2>1. pc'[w] = pc[w]
    BY <1>1, <1>3
  <2>2. StepsLeft(pc'[w]) <= StepsLeft(pc[w])
    BY <2>1, WorkLeftNat
  <2>3. QED
    BY <1>3, <2>2, StageGoesOn
<1>4. QED
  BY <1>2, <1>3

\* The end of a flight moves its whole party on.
LEMMA PartyGoesOn ==
  ASSUME IndInv, next' = next, NEW u \in Workers, pc[u] \in {"avail", "landing"},
         NEW to \in {"deliver", "crashed"},
         pc' = [v \in Workers |-> IF v \in Followers(u) \cup {u} THEN to ELSE pc[v]],
         NEW w \in Workers
  PROVE  WorkLeft(w)' <= WorkLeft(w) /\ (w = u => WorkLeft(w)' < WorkLeft(w))
<1>1. CASE w \in Followers(u) \cup {u}
  <2>1. pc'[w] = to /\ pc[w] \in {"waiting", "avail", "landing"}
    BY <1>1 DEF Followers
  <2>2. StepsLeft(pc'[w]) <= StepsLeft(pc[w]) /\ StepsLeft(pc'[w]) < StepsLeft(pc[w])
    BY <2>1 DEF StepsLeft
  <2>3. QED
    BY <2>2, StageGoesOn
<1>2. CASE w \notin Followers(u) \cup {u}
  <2>1. pc'[w] = pc[w] /\ w # u
    BY <1>2
  <2>2. StepsLeft(pc'[w]) <= StepsLeft(pc[w])
    BY <2>1, WorkLeftNat
  <2>3. QED
    BY <2>1, <2>2, StageGoesOn
<1>3. QED
  BY <1>1, <1>2

\* To receive a job is to have one less to receive: that outweighs its eight steps.
LEMMA ReceiveGoesOn ==
  ASSUME IndInv, NEW u \in Workers, Receive(u), NEW w \in Workers
  PROVE  WorkLeft(w)' <= WorkLeft(w) /\ (w = u => WorkLeft(w)' < WorkLeft(w))
<1>1. /\ next' = [next EXCEPT ![Req(u)] = @ + 1] /\ pc[u] = "idle"
      /\ pc' = [pc EXCEPT ![u] = "check"]
      /\ pc \in [Workers -> Steps] /\ next \in [Requests -> Nat \ {0}]
  BY DEF Receive, Goto, IndInv, TypeOK
<1>2. WorkLeft(w)' = 8 * (Len(Batch[Req(w)]) + 1 - next'[Req(w)]) + StepsLeft(pc'[w])
  BY DEF WorkLeft
<1>3. WorkLeft(w) = 8 * (Len(Batch[Req(w)]) + 1 - next[Req(w)]) + StepsLeft(pc[w])
  BY DEF WorkLeft
<1>4. next[Req(w)] \in Nat /\ Len(Batch[Req(w)]) \in Nat /\ StepsLeft(pc[w]) \in Nat
  BY WorkLeftNat
<1>5. Req(w) \in Requests /\ Req(u) \in Requests
  BY WorkerFacts
<1>6. CASE w = u
  <2>1. next'[Req(w)] = next[Req(w)] + 1 /\ pc'[w] = "check"
    BY <1>1, <1>5, <1>6
  <2>2. StepsLeft(pc'[w]) = 8 /\ StepsLeft(pc[w]) = 1
    BY <1>1, <1>6, <2>1 DEF StepsLeft
  <2>3. QED
    BY <1>2, <1>3, <1>4, <2>1, <2>2
<1>7. CASE w # u
  <2>1. pc'[w] = pc[w]
    BY <1>1, <1>7
  <2>2. next'[Req(w)] = next[Req(w)] \/ next'[Req(w)] = next[Req(w)] + 1
    BY <1>1, <1>5
  <2>3. QED
    BY <1>2, <1>3, <1>4, <1>7, <2>1, <2>2
<1>8. QED
  BY <1>6, <1>7

\* Every step of a worker moves it on.
LEMMA WorkerGoesOn ==
  ASSUME IndInv, NEW u \in Workers, WorkerStep(u) \/ LookupPanic(u), NEW w \in Workers
  PROVE  WorkLeft(w)' <= WorkLeft(w) /\ (w = u => WorkLeft(w)' < WorkLeft(w))
<1>1. CASE Receive(u)
  BY <1>1, ReceiveGoesOn
<1>2. CASE Land(u) \/ LookupPanic(u)
  <2>1. next' = next /\ pc[u] \in {"avail", "landing"}
    BY <1>2 DEF Land, LookupPanic
  <2>2. PICK to \in {"deliver", "crashed"} :
          pc' = [v \in Workers |-> IF v \in Followers(u) \cup {u} THEN to ELSE pc[v]]
    BY <1>2 DEF Land, LookupPanic
  <2>3. QED
    BY <2>1, <2>2, PartyGoesOn
<1>3. CASE Exit(u) \/ Abort(u) \/ PassCtx(u) \/ Hit(u) \/ Miss(u) \/ Join(u) \/ Lead(u)
           \/ Deliver(u) \/ LookupTaken(u) \/ LookupAvailable(u) \/ LookupError(u) \/ Quote(u)
  <2>1. next' = next
    BY <1>3 DEF Exit, Abort, PassCtx, Hit, Miss, Join, Lead, Deliver,
       LookupTaken, LookupAvailable, LookupError, Quote
  <2>2. PICK to \in Steps : Goto(u, to) /\ StepsLeft(to) < StepsLeft(pc[u])
    <3>1. CASE Exit(u) \/ Abort(u) \/ PassCtx(u) \/ Hit(u) \/ Miss(u)
      BY <3>1 DEF Exit, Abort, PassCtx, Hit, Miss, Steps, StepsLeft
    <3>2. CASE Join(u) \/ Lead(u) \/ Deliver(u) \/ LookupAvailable(u)
      BY <3>2 DEF Join, Lead, Deliver, LookupAvailable, Steps, StepsLeft
    <3>3. CASE LookupTaken(u) \/ LookupError(u) \/ Quote(u)
      BY <3>3 DEF LookupTaken, LookupError, Quote, Answered, Failed, Steps, StepsLeft
    <3>4. QED
      BY <1>3, <3>1, <3>2, <3>3
  <2>3. QED
    BY <2>1, <2>2, OwnStageGoesOn DEF Goto
<1>4. QED
  BY <1>1, <1>2, <1>3 DEF WorkerStep

\* Each step of a worker takes from what it has left to do, a natural number, and no
\* step of anybody adds to it. With NobodyStuck and a fair scheduler every call of
\* RunChecks returns.
THEOREM PoolMakesProgress == Spec => WorkGoesDown /\ [](\A w \in Workers : WorkLeft(w) \in Nat)
<1>1. IndInv /\ [Next]_vars =>
        [\A w \in Workers :
           /\ WorkLeft(w)' <= WorkLeft(w)
           /\ WorkerStep(w) \/ LookupPanic(w) => WorkLeft(w)' < WorkLeft(w)]_vars
  <2> SUFFICES ASSUME IndInv, Next, NEW w \in Workers
               PROVE  /\ WorkLeft(w)' <= WorkLeft(w)
                      /\ WorkerStep(w) \/ LookupPanic(w) => WorkLeft(w)' < WorkLeft(w)
    OBVIOUS
  <2>1. WorkerStep(w) \/ LookupPanic(w) => WorkLeft(w)' < WorkLeft(w)
    BY WorkerGoesOn
  <2>2. WorkLeft(w)' <= WorkLeft(w)
    <3>1. ASSUME NEW u \in Workers, WorkerStep(u) \/ LookupPanic(u)
          PROVE  WorkLeft(w)' <= WorkLeft(w)
      BY <3>1, WorkerGoesOn
    <3>2. CASE UNCHANGED <<next, pc>>
      BY <3>2, WorkLeftNat, StageGoesOn
    <3>3. QED
      BY <3>1, <3>2 DEF Next, Quiescent, vars, Start, Return, ExpireCtx, CacheSet, CacheSetFails, CacheExpire
  <2>3. QED
    BY <2>1, <2>2
<1>2. IndInv => \A w \in Workers : WorkLeft(w) \in Nat
  BY WorkLeftNat
<1>3. QED
  BY <1>1, <1>2, Invariance, PTL DEF Spec, WorkGoesDown
================================================================================
