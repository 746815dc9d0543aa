--------------------------- MODULE WorkerPoolProofs ---------------------------
(* Machine-checked proofs about WorkerPool, for every set of requests and     *)
(* domains, every batch, every configured worker count.                       *)
EXTENDS WorkerPool, TLAPS

\* A worker belongs to exactly one request, and NoWorker is none of them.
LEMMA WorkerFacts ==
  /\ \A w \in Workers : Req(w) \in Requests /\ w \in WorkersOf(Req(w))
  /\ \A r \in Requests : \A w \in WorkersOf(r) : w \in Workers /\ Req(w) = r
  /\ NoWorker \notin Workers
<1>1. \A r \in Requests : \A w \in WorkersOf(r) : w \in Workers /\ Req(w) = r
  BY DEF Workers, WorkersOf, Req
<1>2. \A w \in Workers : Req(w) \in Requests /\ w \in WorkersOf(Req(w))
  BY DEF Workers, WorkersOf, Req
<1>3. NoWorker \notin Workers
  <2>1. Req(NoWorker) = "no worker"
    BY DEF NoWorker, Req
  <2>2. QED
    BY <1>2, <2>1, NoWorkerAssumption
<1>4. QED
  BY <1>1, <1>2, <1>3

\* The domains of a batch are domains.
LEMMA BatchFacts ==
  \A r \in Requests :
    /\ Len(Batch[r]) \in Nat
    /\ \A j \in 1 .. Len(Batch[r]) : Batch[r][j] \in Domains
<1>1. TAKE r \in Requests
<1>2. Batch[r] \in Seq(Domains)
  BY BatchAssumption
<1>3. QED
  BY <1>2

\* A worker that holds a job is inside a running call, at a job of its batch.
LEMMA HoldingFacts ==
  ASSUME IndInv, NEW w \in Workers, Holding(w)
  PROVE  /\ job[w] \in 1 .. Len(Batch[Req(w)])
         /\ DomainOf(w) \in Domains
         /\ job[w] < next[Req(w)]
<1>1. Req(w) \in Requests /\ w \in WorkersOf(Req(w))
  BY WorkerFacts
<1>2. next[Req(w)] \in Nat
  BY <1>1 DEF IndInv, TypeOK
<1>3. job[w] \in 1 .. next[Req(w)] - 1 /\ next[Req(w)] <= Len(Batch[Req(w)]) + 1
  BY <1>1 DEF IndInv, OnlyReceived
<1>4. QED
  BY <1>1, <1>2, <1>3, BatchFacts DEF DomainOf

\* Only a running call has workers that lead a flight.
LEMMA LeadingRuns ==
  ASSUME IndInv, NEW w \in Workers, Leading(w)
  PROVE  phase[Req(w)] = "running"
<1>1. pc[w] \in {"avail", "price", "landing"}
  BY DEF Leading
<1>2. phase[Req(w)] # "new" /\ phase[Req(w)] # "returned"
  BY <1>1, WorkerFacts DEF IndInv, NewUntouched, ReturnedStopped, Stopped
<1>3. phase[Req(w)] \in {"new", "running", "returned"}
  BY WorkerFacts DEF IndInv, TypeOK
<1>4. QED
  BY <1>2, <1>3

\* The invariant holds initially.
LEMMA InitIndInv == Init => IndInv
<1> SUFFICES ASSUME Init PROVE IndInv
  OBVIOUS
<1> USE DEF Init
<1>1. TypeOK
  BY WorkerFacts DEF TypeOK, Steps, Writes, Answers, Good, Errors
<1>2. NewUntouched /\ OnlyReceived /\ HeldOnce /\ AnsweredOnce /\ NothingDropped
  BY WorkerFacts, BatchFacts
  DEF NewUntouched, OnlyReceived, HeldOnce, AnsweredOnce, NothingDropped, Holding, Answering
<1>3. ExitedLate /\ ReturnedStopped /\ FlightsHaveLeaders /\ FlightsFlown /\ AnswerAtHand
  BY WorkerFacts
  DEF ExitedLate, ReturnedStopped, FlightsHaveLeaders, FlightsFlown, AnswerAtHand,
      Leading, Stopped
<1>4. QED
  BY <1>1, <1>2, <1>3 DEF IndInv

\* The parts of the invariant that account for jobs.
JobParts ==
  /\ NewUntouched
  /\ OnlyReceived
  /\ HeldOnce
  /\ AnsweredOnce
  /\ NothingDropped
  /\ ExitedLate
  /\ ReturnedStopped

\* The parts that account for singleflight.
FlightParts == FlightsHaveLeaders /\ FlightsFlown

\* The accounting of jobs survives a step that neither receives nor delivers
\* and in which no worker starts or stops holding its job.
LEMMA JobsKept ==
  ASSUME IndInv,
         UNCHANGED <<phase, next, job, resultChan>>,
         \A w \in Workers :
           /\ Holding(w)' <=> Holding(w)
           /\ pc'[w] = "idle" <=> pc[w] = "idle"
           /\ pc'[w] = "exited" <=> pc[w] = "exited"
           /\ Stopped(w) => Stopped(w)'
  PROVE  JobParts'
<1>1. \A r \in Requests : Answering(r)' = Answering(r)
  BY DEF Answering
<1>2. NewUntouched'
  BY WorkerFacts DEF IndInv, NewUntouched
<1>3. OnlyReceived'
  BY <1>1, WorkerFacts DEF IndInv, OnlyReceived
<1>4. HeldOnce'
  BY WorkerFacts DEF IndInv, HeldOnce
<1>5. AnsweredOnce'
  BY <1>1, WorkerFacts DEF IndInv, AnsweredOnce
<1>6. NothingDropped'
  BY <1>1, WorkerFacts DEF IndInv, NothingDropped
<1>7. ExitedLate' /\ ReturnedStopped'
  BY WorkerFacts DEF IndInv, ExitedLate, ReturnedStopped
<1>8. QED
  BY <1>2, <1>3, <1>4, <1>5, <1>6, <1>7 DEF JobParts

\* The accounting of flights survives a step of a worker that is neither in
\* nor waiting for a flight, and does not become so.
LEMMA FlightsKept ==
  ASSUME IndInv, NEW u \in Workers,
         UNCHANGED <<phase, flight>>,
         \A w \in Workers : w # u => pc'[w] = pc[w] /\ job'[w] = job[w],
         pc[u] \in {"idle", "check", "get", "deliver"},
         pc'[u] \in {"idle", "check", "get", "do", "deliver", "exited"}
  PROVE  FlightParts'
<1>1. \A w \in Workers : w # u => DomainOf(w)' = DomainOf(w)
  BY DEF DomainOf
<1>2. ~Leading(u) /\ ~Leading(u)' /\ pc[u] # "waiting" /\ pc'[u] # "waiting"
  BY DEF Leading
<1>3. \A w \in Workers : w # u => (Leading(w)' <=> Leading(w))
  BY DEF Leading
<1>4. FlightsHaveLeaders'
  BY <1>1, <1>2, <1>3 DEF IndInv, FlightsHaveLeaders
<1>5. FlightsFlown'
  <2>1. \A d \in Domains : flight[d] # NoWorker => flight[d] \in Workers
    BY DEF IndInv, TypeOK
  <2>2. QED
    BY <1>1, <1>2, <1>3, <2>1 DEF IndInv, FlightsFlown
<1>6. QED
  BY <1>4, <1>5 DEF FlightParts

\* The invariant is made of its three parts.
LEMMA PartsIndInv ==
  ASSUME TypeOK', JobParts', FlightParts', AnswerAtHand'
  PROVE  IndInv'
BY DEF JobParts, FlightParts, IndInv

\* Steps of a worker outside any flight that keep its job.
LEMMA OwnStepIndInv ==
  ASSUME IndInv, NEW w \in Workers, Abort(w) \/ PassCtx(w) \/ Hit(w) \/ Miss(w)
  PROVE  IndInv'
<1> USE DEF Abort, PassCtx, Hit, Miss, Goto
<1>0. /\ UNCHANGED <<phase, next, job, resultChan, flight>>
      /\ pc[w] \in {"check", "get"}
      /\ \E step \in {"get", "do", "deliver"} : pc' = [pc EXCEPT ![w] = step]
  OBVIOUS
<1>1. TypeOK'
  <2>1. Holding(w)
    BY <1>0 DEF Holding
  <2>2. DomainOf(w) \in Domains
    BY <2>1, HoldingFacts
  <2>3. QED
    BY <2>2 DEF IndInv, TypeOK, Steps, Answers, Errors
<1>2. JobParts'
  <2>1. \A v \in Workers :
          /\ Holding(v)' <=> Holding(v)
          /\ pc'[v] = "idle" <=> pc[v] = "idle"
          /\ pc'[v] = "exited" <=> pc[v] = "exited"
          /\ Stopped(v) => Stopped(v)'
    BY <1>0 DEF IndInv, TypeOK, Holding, Stopped
  <2>2. QED
    BY <1>0, <2>1, JobsKept
<1>3. FlightParts'
  <2>1. /\ \A v \in Workers : v # w => pc'[v] = pc[v] /\ job'[v] = job[v]
        /\ pc'[w] \in {"get", "do", "deliver"}
    BY <1>0 DEF IndInv, TypeOK
  <2>2. QED
    BY <1>0, <2>1, FlightsKept
<1>4. AnswerAtHand'
  <2>1. Holding(w)
    BY <1>0 DEF Holding
  <2>2. DomainOf(w) \in Domains
    BY <2>1, HoldingFacts
  <2>3. QED
    BY <2>2 DEF IndInv, TypeOK, AnswerAtHand, Answers, Errors
<1>5. QED
  BY <1>1, <1>2, <1>3, <1>4, PartsIndInv

\* A worker receives the next job.
LEMMA ReceiveIndInv ==
  ASSUME IndInv, NEW w \in Workers, Receive(w)
  PROVE  IndInv'
<1> DEFINE r == Req(w)
<1> USE DEF Receive, Goto
<1>0. /\ r \in Requests /\ w \in WorkersOf(r)
      /\ next[r] \in Nat \ {0} /\ Len(Batch[r]) \in Nat
      /\ job' = [job EXCEPT ![w] = next[r]]
      /\ next' = [next EXCEPT ![r] = @ + 1]
      /\ pc' = [pc EXCEPT ![w] = "check"]
      /\ UNCHANGED <<phase, flight, resultChan>>
  BY WorkerFacts, BatchFacts DEF IndInv, TypeOK
<1>1. TypeOK'
  <2>1. next[r] + 1 \in Nat \ {0} /\ next[r] \in Nat
    BY <1>0
  <2>2. next' \in [Requests -> Nat \ {0}] /\ job' \in [Workers -> Nat]
    BY <1>0, <2>1 DEF IndInv, TypeOK
  <2>3. QED
    BY <2>2 DEF IndInv, TypeOK, Steps
<1>2. JobParts'
  <2>1. \A q \in Requests : Answering(q)' = Answering(q)
    BY DEF Answering
  <2>2. \A v \in Workers : v # w =>
          job'[v] = job[v] /\ pc'[v] = pc[v] /\ (Holding(v)' <=> Holding(v))
    BY <1>0 DEF IndInv, TypeOK, Holding
  <2>3. job'[w] = next[r] /\ pc'[w] = "check" /\ Holding(w)' /\ ~Holding(w)
    BY <1>0 DEF IndInv, TypeOK, Holding
  <2>4. \A q \in Requests : next'[q] = IF q = r THEN next[r] + 1 ELSE next[q]
    BY <1>0 DEF IndInv, TypeOK
  <2>5. \A q \in Requests : next[q] \in Nat
    BY DEF IndInv, TypeOK
  <2>6. NewUntouched'
    BY <1>0, <2>2, <2>4, WorkerFacts DEF IndInv, NewUntouched
  <2>7. OnlyReceived'
    BY <1>0, <2>1, <2>2, <2>3, <2>4, <2>5, WorkerFacts DEF IndInv, OnlyReceived
  <2>8. HeldOnce'
    BY <1>0, <2>2, <2>3, <2>5, WorkerFacts DEF IndInv, HeldOnce, OnlyReceived
  <2>9. AnsweredOnce'
    BY <1>0, <2>1, <2>2, <2>3, <2>5, WorkerFacts DEF IndInv, AnsweredOnce, OnlyReceived
  <2>10. NothingDropped'
    BY <1>0, <2>1, <2>2, <2>3, <2>4, <2>5, WorkerFacts DEF IndInv, NothingDropped
  <2>11. ExitedLate'
    BY <1>0, <2>2, <2>3, <2>4, WorkerFacts DEF IndInv, ExitedLate
  <2>12. ReturnedStopped'
    BY <1>0, <2>2, WorkerFacts DEF IndInv, ReturnedStopped, Stopped
  <2>13. QED
    BY <2>6, <2>7, <2>8, <2>9, <2>10, <2>11, <2>12 DEF JobParts
<1>3. FlightParts'
  <2>1. /\ \A v \in Workers : v # w => pc'[v] = pc[v] /\ job'[v] = job[v]
        /\ pc'[w] = "check"
    BY <1>0 DEF IndInv, TypeOK
  <2>2. QED
    BY <1>0, <2>1, FlightsKept
<1>4. AnswerAtHand'
  BY <1>0 DEF IndInv, TypeOK, AnswerAtHand
<1>5. QED
  BY <1>1, <1>2, <1>3, <1>4, PartsIndInv

\* A worker finds the job channel empty and ends.
LEMMA ExitIndInv ==
  ASSUME IndInv, NEW w \in Workers, Exit(w)
  PROVE  IndInv'
<1> USE DEF Exit, Goto
<1>0. /\ Req(w) \in Requests /\ w \in WorkersOf(Req(w))
      /\ UNCHANGED <<phase, next, job, resultChan, flight>>
      /\ \A v \in Workers : v # w => pc'[v] = pc[v]
      /\ pc[w] = "idle" /\ pc'[w] = "exited"
  BY WorkerFacts DEF IndInv, TypeOK
<1>1. TypeOK'
  BY DEF IndInv, TypeOK, Steps
<1>2. JobParts'
  <2>1. \A q \in Requests : Answering(q)' = Answering(q)
    BY DEF Answering
  <2>2. \A v \in Workers : Holding(v)' <=> Holding(v)
    BY <1>0 DEF Holding
  <2>3. next[Req(w)] = Len(Batch[Req(w)]) + 1
    <3>1. next[Req(w)] \in Nat /\ Len(Batch[Req(w)]) \in Nat
      BY <1>0, BatchFacts DEF IndInv, TypeOK
    <3>2. QED
      BY <1>0, <3>1 DEF IndInv, OnlyReceived
  <2>4. NewUntouched'
    BY <1>0, WorkerFacts DEF IndInv, NewUntouched
  <2>5. OnlyReceived' /\ NothingDropped'
    BY <1>0, <2>1, <2>2, WorkerFacts DEF IndInv, OnlyReceived, NothingDropped
  <2>6. HeldOnce' /\ AnsweredOnce'
    BY <1>0, <2>1, <2>2, WorkerFacts DEF IndInv, HeldOnce, AnsweredOnce
  <2>7. ExitedLate' /\ ReturnedStopped'
    BY <1>0, <2>3, WorkerFacts DEF IndInv, ExitedLate, ReturnedStopped, Stopped
  <2>8. QED
    BY <2>4, <2>5, <2>6, <2>7 DEF JobParts
<1>3. FlightParts'
  BY <1>0, FlightsKept
<1>4. AnswerAtHand'
  BY <1>0 DEF IndInv, AnswerAtHand
<1>5. QED
  BY <1>1, <1>2, <1>3, <1>4, PartsIndInv

\* A worker sends the answer of its job and lets the job go.
LEMMA DeliverIndInv ==
  ASSUME IndInv, NEW w \in Workers, Deliver(w)
  PROVE  IndInv'
<1> DEFINE r == Req(w)
           m == [job |-> job[w], answer |-> ret[w]]
<1>0. /\ r \in Requests /\ w \in WorkersOf(r)
      /\ UNCHANGED <<phase, next, flight>>
      /\ \A v \in Workers : v # w => pc'[v] = pc[v] /\ job'[v] = job[v] /\ ret'[v] = ret[v]
      /\ pc[w] = "deliver" /\ pc'[w] = "idle"
      /\ Holding(w) /\ ~Holding(w)'
  BY WorkerFacts DEF IndInv, TypeOK, Deliver, Goto, Holding
<1>a. job[w] \in Nat /\ ret[w] \in Answers /\ m \in [job : Nat, answer : Answers]
  BY <1>0 DEF IndInv, TypeOK, AnswerAtHand
<1>b. resultChan[r] \in Seq([job : Nat, answer : Answers])
  BY <1>0 DEF IndInv, TypeOK
<1>c. /\ resultChan'[r] = Append(resultChan[r], m)
      /\ \A q \in Requests : q # r => resultChan'[q] = resultChan[q]
      /\ resultChan' \in [Requests -> Seq([job : Nat, answer : Answers])]
  <2>1. Append(resultChan[r], m) \in Seq([job : Nat, answer : Answers])
    BY <1>a, <1>b
  <2>2. resultChan' = [resultChan EXCEPT ![r] = Append(resultChan[r], m)]
    BY DEF Deliver
  <2>3. resultChan \in [Requests -> Seq([job : Nat, answer : Answers])]
    BY DEF IndInv, TypeOK
  <2> HIDE DEF m, r
  <2>4. QED
    BY <1>0, <2>1, <2>2, <2>3
<1>d. /\ DOMAIN resultChan'[r] = DOMAIN resultChan[r] \cup {Len(resultChan[r]) + 1}
      /\ \A i \in DOMAIN resultChan[r] :
           resultChan'[r][i] = resultChan[r][i] /\ i \in Int /\ i <= Len(resultChan[r])
      /\ resultChan'[r][Len(resultChan[r]) + 1] = m
      /\ Len(resultChan[r]) \in Nat
  BY <1>a, <1>b, <1>c
<1>e. Answering(r)' = Answering(r) \cup {job[w]}
  BY <1>d DEF Answering
<1>f. \A q \in Requests : q # r => Answering(q)' = Answering(q)
  BY <1>c DEF Answering
<1>g. \A v \in Workers : v # w => (Holding(v)' <=> Holding(v))
  BY <1>0 DEF Holding
<1>1. TypeOK'
  BY <1>c DEF IndInv, TypeOK, Deliver, Goto, Steps
<1>2. JobParts'
  <2>1. job[w] \in 1 .. next[r] - 1 /\ job[w] \notin Answering(r)
    BY <1>0 DEF IndInv, OnlyReceived, AnsweredOnce
  <2>2. NewUntouched'
    BY <1>0, <1>c, WorkerFacts DEF IndInv, NewUntouched
  <2>3. OnlyReceived'
    BY <1>0, <1>e, <1>f, <1>g, <2>1, WorkerFacts DEF IndInv, OnlyReceived
  <2>4. HeldOnce'
    BY <1>0, <1>g, WorkerFacts DEF IndInv, HeldOnce
  <2>5. AnsweredOnce'
    <3> SUFFICES ASSUME NEW q \in Requests
                 PROVE /\ \A i, k \in DOMAIN resultChan'[q] :
                            resultChan'[q][i].job = resultChan'[q][k].job => i = k
                       /\ \A v \in WorkersOf(q) :
                            Holding(v)' => job'[v] \notin Answering(q)'
      BY DEF AnsweredOnce
    <3>1. CASE q # r
      BY <3>1, <1>0, <1>c, <1>f, <1>g, WorkerFacts DEF IndInv, AnsweredOnce
    <3>2. CASE q = r
      <4>1. \A i \in DOMAIN resultChan[r] : resultChan[r][i].job # job[w]
        BY <2>1 DEF Answering
      <4>2. \A i, k \in DOMAIN resultChan[r] :
              resultChan[r][i].job = resultChan[r][k].job => i = k
        BY <1>0 DEF IndInv, AnsweredOnce
      <4>3. \A i, k \in DOMAIN resultChan'[r] :
              resultChan'[r][i].job = resultChan'[r][k].job => i = k
        BY <4>1, <4>2, <1>d
      <4>4. \A v \in WorkersOf(r) : Holding(v)' => job'[v] \notin Answering(r)'
        BY <1>0, <1>e, <1>g, WorkerFacts DEF IndInv, AnsweredOnce, HeldOnce
      <4>5. QED
        BY <3>2, <4>3, <4>4
    <3>3. QED
      BY <3>1, <3>2
  <2>6. NothingDropped'
    BY <1>0, <1>e, <1>f, <1>g, WorkerFacts DEF IndInv, NothingDropped
  <2>7. ExitedLate' /\ ReturnedStopped'
    BY <1>0, WorkerFacts DEF IndInv, ExitedLate, ReturnedStopped, Stopped
  <2>8. QED
    BY <2>2, <2>3, <2>4, <2>5, <2>6, <2>7 DEF JobParts
<1>3. FlightParts'
  BY <1>0, FlightsKept
<1>4. AnswerAtHand'
  BY <1>0 DEF IndInv, AnswerAtHand
<1>5. QED
  BY <1>1, <1>2, <1>3, <1>4, PartsIndInv

\* The call starts, returns, or its context ends.
LEMMA CallIndInv ==
  ASSUME IndInv, NEW r \in Requests, Start(r) \/ Return(r) \/ ExpireCtx(r)
  PROVE  IndInv'
<1> USE DEF Start, Return, ExpireCtx
<1>0. UNCHANGED <<next, pc, job, ret, resultChan, flight, cache, writes, panics>>
  OBVIOUS
<1>1. TypeOK'
  BY DEF IndInv, TypeOK
<1>2. /\ \A q \in Requests : phase'[q] = "new" => phase[q] = "new"
      /\ \A q \in Requests : phase[q] = "running" /\ phase'[q] # "running" =>
           \A w \in WorkersOf(q) : Stopped(w)
      /\ \A q \in Requests : phase'[q] = "returned" =>
           \A w \in WorkersOf(q) : Stopped(w)
  <2>1. CASE Start(r)
    <3>1. Batch[r] = << >> => WorkersOf(r) = {}
      BY WorkerCountAssumption DEF WorkersOf, PoolSize
    <3>2. QED
      BY <2>1, <3>1 DEF IndInv, TypeOK, ReturnedStopped
  <2>2. CASE Return(r)
    BY <2>2 DEF IndInv, TypeOK, ReturnedStopped
  <2>3. CASE ExpireCtx(r)
    BY <2>3 DEF IndInv, TypeOK, ReturnedStopped
  <2>4. QED
    BY <2>1, <2>2, <2>3
<1>3. JobParts'
  <2>1. NewUntouched' /\ ReturnedStopped'
    BY <1>0, <1>2 DEF IndInv, NewUntouched, ReturnedStopped, Stopped
  <2>2. QED
    BY <1>0, <2>1 DEF IndInv, JobParts, OnlyReceived, HeldOnce, AnsweredOnce,
       NothingDropped, ExitedLate, Answering, Holding
<1>4. FlightParts'
  <2>1. \A w \in Workers : Leading(w) /\ phase[Req(w)] = "running" =>
          phase'[Req(w)] = "running"
    BY <1>2, WorkerFacts DEF Leading, Stopped
  <2>2. FlightsHaveLeaders'
    BY <1>0, <2>1 DEF IndInv, FlightsHaveLeaders, Leading, DomainOf
  <2>3. FlightsFlown'
    BY <1>0 DEF IndInv, FlightsFlown, Leading, DomainOf
  <2>4. QED
    BY <2>2, <2>3 DEF FlightParts
<1>5. AnswerAtHand'
  BY <1>0 DEF IndInv, AnswerAtHand
<1>6. QED
  BY <1>1, <1>3, <1>4, <1>5, PartsIndInv

\* The cache goroutines and the expiry of cache entries.
LEMMA CacheIndInv ==
  ASSUME IndInv,
         \/ \E x \in writes : CacheSet(x) \/ CacheSetFails(x)
         \/ \E d \in Domains : CacheExpire(d)
  PROVE  IndInv'
<1> USE DEF CacheSet, CacheSetFails, CacheExpire
<1>0. UNCHANGED <<phase, ctx, next, pc, job, ret, resultChan, flight, panics>>
  OBVIOUS
<1>1. TypeOK'
  <2>1. \A x \in writes : x.domain \in Domains /\ x.answer \in Good
    BY DEF IndInv, TypeOK, Writes
  <2>2. cache' \in [Domains -> Good \cup {None}]
    BY <2>1 DEF IndInv, TypeOK
  <2>3. writes' \subseteq Writes
    BY DEF IndInv, TypeOK
  <2>4. QED
    BY <1>0, <2>2, <2>3 DEF IndInv, TypeOK
<1>2. JobParts'
  BY <1>0, JobsKept DEF Holding, Stopped
<1>3. FlightParts'
  BY <1>0 DEF IndInv, FlightParts, FlightsHaveLeaders, FlightsFlown, Leading, DomainOf
<1>4. AnswerAtHand'
  BY <1>0 DEF IndInv, AnswerAtHand
<1>5. QED
  BY <1>1, <1>2, <1>3, <1>4, PartsIndInv

\* A worker joins a flight or starts one.
LEMMA DoIndInv ==
  ASSUME IndInv, NEW w \in Workers, Join(w) \/ Lead(w)
  PROVE  IndInv'
<1> USE DEF Join, Lead, Goto
<1>0. /\ UNCHANGED <<phase, ctx, next, job, ret, resultChan, cache, writes, panics>>
      /\ pc[w] = "do" /\ pc'[w] \in {"waiting", "avail"}
      /\ \A v \in Workers : v # w => pc'[v] = pc[v]
      /\ pc' \in [Workers -> Steps]
  BY DEF IndInv, TypeOK, Steps
<1>h. Holding(w) /\ DomainOf(w) \in Domains
  <2>1. Holding(w)
    BY <1>0 DEF Holding
  <2>2. QED
    BY <2>1, HoldingFacts
<1>1. TypeOK'
  BY <1>0, <1>h DEF IndInv, TypeOK
<1>2. JobParts'
  BY <1>0, JobsKept DEF Holding, Stopped
<1>d. \A v \in Workers : DomainOf(v)' = DomainOf(v)
  BY <1>0 DEF DomainOf
<1>r. phase[Req(w)] = "running"
  BY <1>0, WorkerFacts DEF IndInv, TypeOK, NewUntouched, ReturnedStopped, Stopped
<1>l. ~Leading(w) /\ \A v \in Workers : v # w => (Leading(v)' <=> Leading(v))
  BY <1>0 DEF Leading
<1>3. FlightParts'
  <2>1. CASE Join(w)
    <3>1. flight' = flight /\ pc'[w] = "waiting" /\ ~Leading(w)'
      BY <2>1 DEF IndInv, TypeOK, Leading
    <3>2. flight[DomainOf(w)] \in Workers
      BY <2>1, <1>h DEF IndInv, TypeOK
    <3>3. Leading(flight[DomainOf(w)])
      BY <2>1, <1>h DEF IndInv, FlightsFlown
    <3>4. phase[Req(flight[DomainOf(w)])] = "running"
      BY <3>2, <3>3, LeadingRuns
    <3>5. FlightsHaveLeaders'
      BY <1>0, <1>d, <1>l, <3>1, <3>2, <3>3, <3>4 DEF IndInv, FlightsHaveLeaders
    <3>6. FlightsFlown'
      <4>1. \A d \in Domains : flight[d] # NoWorker => flight[d] \in Workers
        BY DEF IndInv, TypeOK
      <4>2. QED
        BY <1>d, <1>l, <3>1, <4>1 DEF IndInv, FlightsFlown
    <3>7. QED
      BY <3>5, <3>6 DEF FlightParts
  <2>2. CASE Lead(w)
    <3>1. /\ flight[DomainOf(w)] = NoWorker
          /\ flight'[DomainOf(w)] = w
          /\ \A d \in Domains : d # DomainOf(w) => flight'[d] = flight[d]
          /\ pc'[w] = "avail" /\ Leading(w)'
      BY <2>2, <1>h DEF IndInv, TypeOK, Leading
    <3>2. \A v \in Workers : v # w /\ (pc[v] = "waiting" \/ Leading(v)) =>
            DomainOf(v) \in Domains /\ DomainOf(v) # DomainOf(w)
      <4>1. \A v \in Workers : pc[v] = "waiting" \/ Leading(v) => Holding(v)
        BY DEF Leading, Holding
      <4>2. \A v \in Workers : pc[v] = "waiting" \/ Leading(v) => DomainOf(v) \in Domains
        BY <4>1, HoldingFacts
      <4>3. QED
        BY <3>1, <4>2, WorkerFacts DEF IndInv, FlightsHaveLeaders
    <3>3. FlightsHaveLeaders'
      <4>1. \A v \in Workers : pc[v] = "waiting" =>
              v # w /\ flight[DomainOf(v)] # w /\ flight'[DomainOf(v)] = flight[DomainOf(v)]
        BY <1>0, <1>l, <3>1, <3>2 DEF IndInv, FlightsHaveLeaders
      <4>2. QED
        BY <1>0, <1>d, <1>l, <3>1, <3>2, <4>1 DEF IndInv, FlightsHaveLeaders
    <3>4. FlightsFlown'
      <4>1. \A d \in Domains : flight[d] # NoWorker => flight[d] \in Workers
        BY DEF IndInv, TypeOK
      <4>2. QED
        BY <1>d, <1>l, <3>1, <4>1 DEF IndInv, FlightsFlown
    <3>5. QED
      BY <3>3, <3>4 DEF FlightParts
  <2>3. QED
    BY <2>1, <2>2
<1>4. AnswerAtHand'
  BY <1>0 DEF IndInv, AnswerAtHand
<1>5. QED
  BY <1>1, <1>2, <1>3, <1>4, PartsIndInv

\* A lookup moves on, inside its flight.
LEMMA LookupIndInv ==
  ASSUME IndInv, NEW w \in Workers,
         LookupTaken(w) \/ LookupAvailable(w) \/ LookupError(w) \/ Quote(w)
  PROVE  IndInv'
<1>0. /\ UNCHANGED <<phase, ctx, next, job, resultChan, flight, cache, panics>>
      /\ pc[w] \in {"avail", "price"}
      /\ \E step \in {"price", "landing"} : pc' = [pc EXCEPT ![w] = step]
      /\ \/ pc' = [pc EXCEPT ![w] = "price"] /\ UNCHANGED <<ret, writes>>
         \/ \E e \in Errors : ret' = [ret EXCEPT ![w] = e] /\ UNCHANGED writes
         \/ \E a \in Good : /\ ret' = [ret EXCEPT ![w] = a]
                            /\ \/ UNCHANGED writes
                               \/ writes' = writes \cup
                                    {[by |-> <<Req(w), job[w]>>, domain |-> DomainOf(w),
                                      answer |-> a]}
  BY DEF Errors, Good, LookupTaken, LookupAvailable, LookupError, Quote, Answered, Failed, Goto
<1>h. /\ Req(w) \in Requests /\ DomainOf(w) \in Domains /\ job[w] \in Nat
  <2>1. Holding(w)
    BY <1>0 DEF Holding
  <2>2. QED
    BY <2>1, HoldingFacts, WorkerFacts DEF IndInv, TypeOK
<1>p. /\ \A v \in Workers : v # w => pc'[v] = pc[v] /\ ret'[v] = ret[v]
      /\ pc'[w] \in {"price", "landing"}
      /\ pc' \in [Workers -> Steps]
      /\ ret' \in [Workers -> Answers \cup {None}]
      /\ pc'[w] = "landing" => ret'[w] \in Answers
  BY <1>0 DEF IndInv, TypeOK, Steps, Answers
<1>1. TypeOK'
  <2>1. \A a \in Good : [by |-> <<Req(w), job[w]>>, domain |-> DomainOf(w), answer |-> a]
                         \in Writes
    BY <1>h DEF Writes
  <2>2. writes' \subseteq Writes
    BY <1>0, <2>1 DEF IndInv, TypeOK
  <2>3. QED
    BY <1>0, <1>p, <2>2 DEF IndInv, TypeOK
<1>2. JobParts'
  BY <1>0, <1>p, JobsKept DEF Holding, Stopped
<1>3. FlightParts'
  <2>1. \A v \in Workers :
          /\ DomainOf(v)' = DomainOf(v)
          /\ Leading(v)' <=> Leading(v)
          /\ pc'[v] = "waiting" <=> pc[v] = "waiting"
    BY <1>0, <1>p DEF DomainOf, Leading
  <2>2. \A d \in Domains : flight[d] # NoWorker => flight[d] \in Workers
    BY DEF IndInv, TypeOK
  <2>3. QED
    BY <1>0, <2>1, <2>2 DEF IndInv, FlightParts, FlightsHaveLeaders, FlightsFlown
<1>4. AnswerAtHand'
  BY <1>p DEF IndInv, AnswerAtHand
<1>5. QED
  BY <1>1, <1>2, <1>3, <1>4, PartsIndInv

\* A flight ends, with an answer or with a panic, for its whole party.
LEMMA FlightEndIndInv ==
  ASSUME IndInv, NEW w \in Workers, Land(w) \/ LookupPanic(w)
  PROVE  IndInv'
<1> DEFINE Party == Followers(w) \cup {w}
<1> USE DEF Land, LookupPanic
<1>0. /\ UNCHANGED <<phase, ctx, next, job, resultChan, cache, writes>>
      /\ pc[w] \in {"avail", "landing"}
      /\ flight' = [flight EXCEPT ![DomainOf(w)] = NoWorker]
      /\ \E step \in {"deliver", "crashed"} :
           pc' = [v \in Workers |-> IF v \in Party THEN step ELSE pc[v]]
      /\ panics' \in Nat
  BY DEF IndInv, TypeOK
<1>h. Leading(w) /\ DomainOf(w) \in Domains
  <2>1. Holding(w)
    BY <1>0 DEF Holding
  <2>2. QED
    BY <1>0, <2>1, HoldingFacts DEF Leading
<1>p. /\ \A v \in Party : v \in Workers /\ pc[v] \in {"waiting", "avail", "landing"}
                          /\ DomainOf(v) = DomainOf(w) /\ pc'[v] \in {"deliver", "crashed"}
      /\ \A v \in Workers : v \notin Party => pc'[v] = pc[v]
      /\ pc' \in [Workers -> Steps]
      /\ \A v \in Workers : pc[v] = "waiting" /\ DomainOf(v) = DomainOf(w) => v \in Party
  BY <1>0 DEF Followers, IndInv, TypeOK, Steps
<1>r. /\ ret' \in [Workers -> Answers \cup {None}]
      /\ \A v \in Workers : v \notin Party => ret'[v] = ret[v]
      /\ \A v \in Party : pc'[v] = "deliver" => ret'[v] \in Answers
  <2>1. CASE Land(w)
    BY <2>1 DEF IndInv, TypeOK, AnswerAtHand, Followers
  <2>2. CASE LookupPanic(w)
    BY <2>2, <1>p DEF IndInv, TypeOK, Followers
  <2>3. QED
    BY <2>1, <2>2
<1>1. TypeOK'
  BY <1>0, <1>p, <1>r DEF IndInv, TypeOK
<1>2. JobParts'
  <2>1. \A v \in Workers :
          /\ Holding(v)' <=> Holding(v)
          /\ pc'[v] = "idle" <=> pc[v] = "idle"
          /\ pc'[v] = "exited" <=> pc[v] = "exited"
          /\ Stopped(v) => Stopped(v)'
    BY <1>p DEF Holding, Stopped
  <2>2. QED
    BY <1>0, <2>1, JobsKept
<1>3. FlightParts'
  <2>1. \A v \in Workers : DomainOf(v)' = DomainOf(v)
    BY <1>0 DEF DomainOf
  <2>2. /\ \A v \in Party : ~Leading(v)' /\ pc'[v] # "waiting"
        /\ \A v \in Workers : v \notin Party => (Leading(v)' <=> Leading(v))
    BY <1>p DEF Leading
  <2>3. /\ flight[DomainOf(w)] = w
        /\ flight'[DomainOf(w)] = NoWorker
        /\ \A d \in Domains : d # DomainOf(w) => flight'[d] = flight[d]
    BY <1>0, <1>h DEF IndInv, TypeOK, FlightsHaveLeaders
  <2>4. \A v \in Workers : v \notin Party /\ (pc[v] = "waiting" \/ Leading(v)) =>
          DomainOf(v) \in Domains /\ DomainOf(v) # DomainOf(w)
    <3>1. \A v \in Workers : pc[v] = "waiting" \/ Leading(v) => DomainOf(v) \in Domains
      BY HoldingFacts DEF Leading, Holding
    <3>2. \A v \in Workers : v \notin Party /\ Leading(v) => DomainOf(v) # DomainOf(w)
      BY <2>3 DEF IndInv, FlightsHaveLeaders
    <3>3. QED
      BY <3>1, <3>2, <1>p
  <2>5. \A d \in Domains : d # DomainOf(w) /\ flight[d] # NoWorker =>
          flight[d] \in Workers /\ flight[d] \notin Party
    BY <1>p DEF IndInv, TypeOK, FlightsFlown
  <2>6. FlightsHaveLeaders'
    <3>1. ASSUME NEW v \in Workers, pc'[v] = "waiting"
          PROVE  /\ flight'[DomainOf(v)'] \in Workers
                 /\ phase'[Req(flight'[DomainOf(v)'])] = "running"
                 /\ pc'[flight'[DomainOf(v)']] \in {"avail", "price", "landing"}
      <4> DEFINE d == DomainOf(v)
                 l == flight[d]
      <4>1. v \notin Party /\ pc[v] = "waiting" /\ d \in Domains /\ d # DomainOf(w)
        BY <3>1, <1>p, <2>2, <2>4
      <4>2. l \in Workers /\ phase[Req(l)] = "running" /\ Leading(l)
        BY <4>1 DEF IndInv, FlightsHaveLeaders
      <4>3. l \notin Party /\ flight'[d] = l /\ DomainOf(v)' = d
        BY <4>1, <4>2, <2>1, <2>3, <2>5, WorkerFacts
      <4>4. pc'[l] \in {"avail", "price", "landing"}
        BY <4>2, <4>3, <2>2 DEF Leading
      <4> HIDE DEF l, d
      <4>5. QED
        BY <4>2, <4>3, <4>4, <1>0
    <3>2. ASSUME NEW v \in Workers, Leading(v)'
          PROVE  flight'[DomainOf(v)'] = v
      <4>1. v \notin Party /\ Leading(v)
        BY <3>2, <2>2
      <4>2. flight[DomainOf(v)] = v
        BY <4>1 DEF IndInv, FlightsHaveLeaders
      <4>3. QED
        BY <4>1, <4>2, <2>1, <2>3, <2>4
    <3>3. QED
      BY <3>1, <3>2 DEF FlightsHaveLeaders, Leading
  <2>7. FlightsFlown'
    BY <2>1, <2>2, <2>3, <2>5 DEF IndInv, FlightsFlown
  <2>8. QED
    BY <2>6, <2>7 DEF FlightParts
<1>4. AnswerAtHand'
  BY <1>p, <1>r DEF IndInv, AnswerAtHand
<1>5. QED
  BY <1>1, <1>2, <1>3, <1>4, PartsIndInv

\* The invariant is inductive.
LEMMA NextIndInv == IndInv /\ [Next]_vars => IndInv'
<1> SUFFICES ASSUME IndInv, [Next]_vars PROVE IndInv'
  OBVIOUS
<1>1. CASE UNCHANGED vars
  <2>1. UNCHANGED <<phase, ctx, next, pc, job, ret, resultChan, flight, cache, writes, panics>>
    BY <1>1 DEF vars
  <2>2. TypeOK' /\ AnswerAtHand'
    BY <2>1 DEF IndInv, TypeOK, AnswerAtHand
  <2>3. JobParts'
    BY <2>1, JobsKept DEF Holding, Stopped
  <2>4. FlightParts'
    BY <2>1 DEF IndInv, FlightParts, FlightsHaveLeaders, FlightsFlown, Leading, DomainOf
  <2>5. QED
    BY <2>2, <2>3, <2>4, PartsIndInv
<1>2. ASSUME NEW r \in Requests, Start(r) \/ Return(r) \/ ExpireCtx(r)
      PROVE  IndInv'
  BY <1>2, CallIndInv
<1>3. ASSUME NEW w \in Workers, WorkerStep(w) \/ LookupPanic(w)
      PROVE  IndInv'
  <2>1. CASE Receive(w)
    BY <2>1, ReceiveIndInv
  <2>2. CASE Exit(w)
    BY <2>2, ExitIndInv
  <2>3. CASE Abort(w) \/ PassCtx(w) \/ Hit(w) \/ Miss(w)
    BY <2>3, OwnStepIndInv
  <2>4. CASE Join(w) \/ Lead(w)
    BY <2>4, DoIndInv
  <2>5. CASE Deliver(w)
    BY <2>5, DeliverIndInv
  <2>6. CASE LookupTaken(w) \/ LookupAvailable(w) \/ LookupError(w) \/ Quote(w)
    BY <2>6, LookupIndInv
  <2>7. CASE Land(w) \/ LookupPanic(w)
    BY <2>7, FlightEndIndInv
  <2>8. QED
    BY <1>3, <2>1, <2>2, <2>3, <2>4, <2>5, <2>6, <2>7 DEF WorkerStep
<1>4. CASE \/ \E x \in writes : CacheSet(x) \/ CacheSetFails(x)
           \/ \E d \in Domains : CacheExpire(d)
  BY <1>4, CacheIndInv
<1>5. QED
  BY <1>1, <1>2, <1>3, <1>4 DEF Next, Quiescent

\* Every reachable state satisfies the inductive invariant: in particular the
\* state of the pool is well typed, a job is answered at most once, and every
\* waiter of a flight has a running leader.
THEOREM Invariance == Spec => []IndInv
<1>1. QED
  BY InitIndInv, NextIndInv, PTL DEF Spec

\* The variables of the pool keep their types.
THEOREM TypeCorrectness == Spec => []TypeOK
<1>1. IndInv => TypeOK
  BY DEF IndInv
<1>2. QED
  BY <1>1, Invariance, PTL

\* No job is ever answered twice, nor answered while a worker still holds it.
THEOREM AnswersAreUnique == Spec => []AnsweredOnce
<1>1. IndInv => AnsweredOnce
  BY DEF IndInv
<1>2. QED
  BY <1>1, Invariance, PTL

\* Whatever the order of joins, landings, panics and returns, a worker that
\* waits for a flight waits for one that a running call flies, and a domain
\* has one flight at a time.
THEOREM NoStrandedWaiter == Spec => []FlightsHaveLeaders
<1>1. IndInv => FlightsHaveLeaders
  BY DEF IndInv
<1>2. QED
  BY <1>1, Invariance, PTL

\* A job that RunChecks returns without was held by a worker that a panic
\* ended, or every worker of the call ended so.
THEOREM LossNeedsPanic == Spec => []OnlyCrashesLoseJobs
<1>1. IndInv => OnlyCrashesLoseJobs
  <2> SUFFICES ASSUME IndInv, NEW r \in Requests, phase[r] = "returned",
                      NEW j \in Jobs(r), j \notin Answering(r),
                      NEW u \in WorkersOf(r), pc[u] # "crashed"
               PROVE  \E w \in WorkersOf(r) : pc[w] = "crashed" /\ job[w] = j
    BY DEF OnlyCrashesLoseJobs, LostJob
  <2>1. \A w \in WorkersOf(r) : Stopped(w)
    BY DEF IndInv, ReturnedStopped
  <2>2. next[r] = Len(Batch[r]) + 1
    BY <2>1 DEF IndInv, ExitedLate, Stopped
  <2>3. j \in 1 .. next[r] - 1
    BY <2>2, BatchFacts DEF Jobs
  <2>4. PICK w \in WorkersOf(r) : Holding(w) /\ job[w] = j
    BY <2>3 DEF IndInv, NothingDropped
  <2>5. QED
    BY <2>1, <2>4 DEF Holding, Stopped
<1>2. QED
  BY <1>1, Invariance, PTL

\* Nothing is sent on the result channel of a call that has returned.
THEOREM ChannelClosedForGood == Spec => NoLateResult
<1>1. IndInv /\ [Next]_vars =>
        [\A r \in Requests : phase[r] = "returned" => resultChan'[r] = resultChan[r]]_vars
  <2> SUFFICES ASSUME IndInv, Next, NEW r \in Requests, phase[r] = "returned"
               PROVE  resultChan'[r] = resultChan[r]
    OBVIOUS
  <2>1. ASSUME NEW w \in Workers, Deliver(w)
        PROVE  resultChan'[r] = resultChan[r]
    <3>1. Req(w) # r
      BY <2>1, WorkerFacts DEF IndInv, ReturnedStopped, Stopped, Deliver
    <3>2. QED
      BY <2>1, <3>1, WorkerFacts DEF IndInv, TypeOK, Deliver
  <2>2. CASE UNCHANGED resultChan
    BY <2>2
  <2>3. QED
    BY <2>1, <2>2 DEF Next, WorkerStep, Quiescent, vars, Start, Return, ExpireCtx, Receive,
       Exit, Abort, PassCtx, Hit, Miss, Join, Lead, LookupTaken, LookupAvailable,
       LookupError, Quote, Land, LookupPanic, CacheSet, CacheSetFails, CacheExpire
<1>2. QED
  BY <1>1, Invariance, PTL DEF Spec, NoLateResult

===============================================================================
