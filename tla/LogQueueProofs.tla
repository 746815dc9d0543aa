---------------------------- MODULE LogQueueProofs ----------------------------
(* Machine-checked proofs about LogQueue, for every number of requests, of    *)
(* writes, of logger workers and of panics, and every capacity of the queue.  *)
EXTENDS LogQueue, TLAPS

\* ------------------------------------------------------------------- tasks --

LEMMA TaskParts ==
  ASSUME NEW t \in Tasks
  PROVE  /\ t[1] \in Handlers
         /\ t[2] \in 1 .. Batch[t[1]]
         /\ t = <<t[1], t[2]>>
         /\ t # NoTask
<1>1. PICK h \in Handlers : t \in {h} \X (1 .. Batch[h])
  BY DEF Tasks
<1>2. t[1] = h /\ t[2] \in 1 .. Batch[h] /\ t = <<t[1], t[2]>>
  BY <1>1
<1>3. NoTask[1] = "no task"
  BY DEF NoTask
<1>4. QED
  BY <1>2, <1>3, NoTaskAssumption

\* The task a handler offers is one of its own.
LEMMA OfferedTask ==
  ASSUME TypeOK, NEW h \in Handlers, Offering(h)
  PROVE  /\ NextTask(h) \in Tasks
         /\ NextTask(h)[1] = h
         /\ NextTask(h)[2] = sent[h] + 1
<1>1. sent[h] \in Nat /\ Batch[h] \in Nat /\ sent[h] < Batch[h]
  BY BatchAssumption DEF TypeOK, Offering
<1>2. sent[h] + 1 \in 1 .. Batch[h]
  BY <1>1
<1>3. NextTask(h) \in {h} \X (1 .. Batch[h])
  BY <1>2 DEF NextTask
<1>4. QED
  BY <1>3 DEF Tasks, NextTask

\* ----------------------------------------------------------- initial states --

LEMMA InitIndInv == Init => IndInv
<1> SUFFICES ASSUME Init PROVE IndInv
  OBVIOUS
<1>1. TypeOK
  <2>1. queue \in Seq(Tasks) /\ panics \in Nat /\ sent \in [Handlers -> Nat]
    BY DEF Init
  <2>2. task \in [Workers -> Tasks \cup {NoTask}]
    BY DEF Init
  <2>3. QED
    BY <2>1, <2>2 DEF Init, TypeOK
<1>2. QueuedOnce /\ HeldOnce /\ BusyHolds
  BY DEF Init, QueuedOnce, HeldOnce, BusyHolds
<1>3. FatesTold
  <2> SUFFICES ASSUME NEW t \in Tasks
               PROVE  fate[t] = "none" /\ t[2] > sent[t[1]]
                      /\ (\A i \in DOMAIN queue : FALSE) /\ \A w \in Workers : worker[w] # "busy"
    BY DEF FatesTold
  <2>1. t[1] \in Handlers /\ t[2] \in 1 .. Batch[t[1]] /\ Batch[t[1]] \in Nat
    BY TaskParts, BatchAssumption
  <2>2. QED
    BY <2>1 DEF Init
<1>4. SentFromBatch
  BY BatchAssumption DEF Init, SentFromBatch
<1>5. EndedLate /\ CleanLate /\ DrainedLate /\ ClosedLate /\ FailedLate
  BY DEF Init, EndedLate, CleanLate, DrainedLate, ClosedLate, FailedLate
<1>6. QED
  BY <1>1, <1>2, <1>3, <1>4, <1>5 DEF IndInv, TasksAccounted

\* -------------------------------------------------------- type correctness --

LEMMA HandlerTyped ==
  ASSUME TypeOK, NEW h \in Handlers, Arrive(h) \/ HandlerStep(h)
  PROVE  TypeOK'
<1>1. CASE Arrive(h)
  BY <1>1 DEF Arrive, TypeOK
<1>2. CASE Enqueue(h)
  <2>1. NextTask(h) \in Tasks
    BY <1>2, OfferedTask DEF Enqueue
  <2>2. queue' \in Seq(Tasks)
    BY <1>2, <2>1 DEF Enqueue, TypeOK
  <2>3. sent' \in [Handlers -> Nat]
    BY <1>2 DEF Enqueue, TypeOK
  <2>4. QED
    BY <1>2, <2>2, <2>3 DEF Enqueue, TypeOK
<1>3. CASE Drop(h)
  <2>1. sent' \in [Handlers -> Nat]
    BY <1>3 DEF Drop, TypeOK
  <2>2. QED
    BY <1>3, <2>1 DEF Drop, TypeOK
<1>4. CASE SendOnClosed(h)
  BY <1>4 DEF SendOnClosed, TypeOK
<1>5. CASE Respond(h)
  BY <1>5 DEF Respond, TypeOK
<1>6. QED
  BY <1>1, <1>2, <1>3, <1>4, <1>5 DEF HandlerStep

\* What a worker takes is a task.
LEMMA TakenTask ==
  ASSUME TypeOK, NEW w \in Workers, Take(w)
  PROVE  /\ Head(queue) \in Tasks
         /\ Head(queue) = queue[1]
         /\ 1 \in DOMAIN queue
         /\ Tail(queue) \in Seq(Tasks)
  BY DEF TypeOK, Take

LEMMA WorkerTyped ==
  ASSUME TypeOK, NEW w \in Workers, WorkerStep(w)
  PROVE  TypeOK'
<1>1. CASE Take(w)
  BY <1>1, TakenTask DEF Take, TypeOK
<1>2. CASE End(w)
  BY <1>2 DEF End, TypeOK
<1>3. CASE \E o \in {"written", "error"} : Done(w, o)
  BY <1>3 DEF Done, TypeOK
<1>4. CASE Panic(w)
  <2>1. panics' \in Nat
    BY <1>4 DEF Panic, TypeOK
  <2>2. task' \in [Workers -> Tasks \cup {NoTask}]
    BY <1>4 DEF Panic, TypeOK
  <2>3. fate' \in [Tasks -> {"none", "queued", "held", "dropped", "written", "error", "lost"}]
    BY <1>4 DEF Panic, TypeOK
  <2>4. worker' \in [Workers -> {"ready", "busy", "ended", "dead"}]
    BY <1>4 DEF Panic, TypeOK
  <2>5. QED
    BY <1>4, <2>1, <2>2, <2>3, <2>4 DEF Panic, TypeOK
<1>5. QED
  BY <1>1, <1>2, <1>3, <1>4 DEF WorkerStep

LEMMA MainTyped ==
  ASSUME TypeOK, Signal \/ MainStep
  PROVE  TypeOK'
  BY DEF Signal, MainStep, Drained, DrainTimeout, CloseQueue, Flushed, FlushTimeout, ExitMain, TypeOK

\* --------------------------------------------------------- accounts of tasks --

\* What the accounts are made of.
accounts == <<queue, task, fate, sent, worker>>
Accounts == TasksAccounted /\ BusyHolds /\ SentFromBatch

\* The steps of handlers and main that leave the tasks alone.
LEMMA NoTaskMoved ==
  ASSUME Accounts, UNCHANGED accounts
  PROVE  Accounts'
<1>1. QueuedOnce' /\ HeldOnce' /\ BusyHolds' /\ SentFromBatch'
  BY DEF Accounts, accounts, TasksAccounted, QueuedOnce, HeldOnce, BusyHolds, SentFromBatch
<1>2. FatesTold'
  BY DEF Accounts, accounts, TasksAccounted, FatesTold
<1>3. QED
  BY <1>1, <1>2 DEF Accounts, TasksAccounted

\* A task offered is one that nothing has become of, and the count of its
\* handler moves past it and past no other.
LEMMA OfferCounted ==
  ASSUME TypeOK, Accounts, NEW h \in Handlers, Offering(h),
         sent' = [sent EXCEPT ![h] = @ + 1]
  PROVE  /\ SentFromBatch'
         /\ fate[NextTask(h)] = "none"
         /\ \A t \in Tasks :
              t[2] > sent'[t[1]] <=> t # NextTask(h) /\ t[2] > sent[t[1]]
<1>1. NextTask(h) \in Tasks /\ NextTask(h)[1] = h /\ NextTask(h)[2] = sent[h] + 1
  BY OfferedTask
<1>2. sent[h] \in Nat /\ Batch[h] \in Nat /\ sent[h] < Batch[h]
  BY BatchAssumption DEF Offering, TypeOK
<1>3. sent'[h] = sent[h] + 1 /\ \A k \in Handlers : k # h => sent'[k] = sent[k]
  BY DEF TypeOK
<1>4. SentFromBatch'
  BY <1>2, <1>3 DEF Accounts, SentFromBatch
<1>5. fate[NextTask(h)] = "none"
  <2>1. NextTask(h)[2] > sent[NextTask(h)[1]]
    BY <1>1, <1>2
  <2>2. QED
    BY <1>1, <2>1 DEF Accounts, TasksAccounted, FatesTold
<1>6. ASSUME NEW t \in Tasks
      PROVE  t[2] > sent'[t[1]] <=> t # NextTask(h) /\ t[2] > sent[t[1]]
  <2>1. t[1] \in Handlers /\ t[2] \in Nat /\ t = <<t[1], t[2]>>
    BY TaskParts, BatchAssumption
  <2>2. CASE t[1] # h
    BY <2>1, <2>2, <1>1, <1>3
  <2>3. CASE t[1] = h
    <3>1. t = NextTask(h) <=> t[2] = sent[h] + 1
      BY <2>1, <2>3, <1>1 DEF NextTask
    <3>2. sent'[t[1]] = sent[h] + 1
      BY <2>3, <1>3
    <3>3. QED
      BY <1>2, <2>1, <2>3, <3>1, <3>2
  <2>4. QED
    BY <2>2, <2>3
<1>7. QED
  BY <1>4, <1>5, <1>6

LEMMA EnqueueAccounts ==
  ASSUME TypeOK, Accounts, NEW h \in Handlers, Enqueue(h)
  PROVE  Accounts'
<1> DEFINE new == NextTask(h)
<1>1. new \in Tasks
  BY OfferedTask DEF Enqueue
<1>2. /\ SentFromBatch'
      /\ fate[new] = "none"
      /\ \A t \in Tasks : t[2] > sent'[t[1]] <=> t # new /\ t[2] > sent[t[1]]
  BY OfferCounted DEF Enqueue
<1>3. \A i \in DOMAIN queue : queue[i] # new
  BY <1>1, <1>2 DEF Accounts, TasksAccounted, FatesTold
<1>4. /\ Len(queue) \in Nat
      /\ DOMAIN queue = 1 .. Len(queue)
      /\ DOMAIN queue' = 1 .. Len(queue) + 1
      /\ \A i \in DOMAIN queue : queue'[i] = queue[i]
      /\ queue'[Len(queue) + 1] = new
  BY <1>1 DEF Enqueue, TypeOK
<1>5. task' = task /\ worker' = worker
  BY DEF Enqueue
<1>6. fate'[new] = "queued" /\ \A t \in Tasks : t # new => fate'[t] = fate[t]
  BY <1>1 DEF Enqueue, TypeOK
<1>7. QueuedOnce'
  BY <1>3, <1>4 DEF Accounts, TasksAccounted, QueuedOnce
<1>8. HeldOnce' /\ BusyHolds'
  BY <1>5 DEF Accounts, TasksAccounted, HeldOnce, BusyHolds
<1>9. FatesTold'
  <2>1. \A t \in Tasks : fate'[t] = "none" <=> t[2] > sent'[t[1]]
    BY <1>2, <1>6 DEF Accounts, TasksAccounted, FatesTold
  <2>2. \A t \in Tasks : fate'[t] = "held" <=> \E w \in Workers : worker'[w] = "busy" /\ task'[w] = t
    BY <1>2, <1>5, <1>6 DEF Accounts, TasksAccounted, FatesTold
  <2>3. ASSUME NEW t \in Tasks
        PROVE  fate'[t] = "queued" <=> \E i \in DOMAIN queue' : queue'[i] = t
    <3>1. CASE t = new
      BY <3>1, <1>4, <1>6
    <3>2. CASE t # new
      BY <3>2, <1>4, <1>6 DEF Accounts, TasksAccounted, FatesTold
    <3>3. QED
      BY <3>1, <3>2
  <2>4. QED
    BY <2>1, <2>2, <2>3 DEF FatesTold
<1>10. QED
  BY <1>2, <1>7, <1>8, <1>9 DEF Accounts, TasksAccounted

LEMMA DropAccounts ==
  ASSUME TypeOK, Accounts, NEW h \in Handlers, Drop(h)
  PROVE  Accounts'
<1> DEFINE new == NextTask(h)
<1>1. new \in Tasks
  BY OfferedTask DEF Drop
<1>2. /\ SentFromBatch'
      /\ fate[new] = "none"
      /\ \A t \in Tasks : t[2] > sent'[t[1]] <=> t # new /\ t[2] > sent[t[1]]
  BY OfferCounted DEF Drop
<1>3. queue' = queue /\ task' = task /\ worker' = worker
  BY DEF Drop
<1>4. fate'[new] = "dropped" /\ \A t \in Tasks : t # new => fate'[t] = fate[t]
  BY <1>1 DEF Drop, TypeOK
<1>5. QueuedOnce' /\ HeldOnce' /\ BusyHolds'
  BY <1>3 DEF Accounts, TasksAccounted, QueuedOnce, HeldOnce, BusyHolds
<1>6. FatesTold'
  <2>1. \A t \in Tasks : fate'[t] = "none" <=> t[2] > sent'[t[1]]
    BY <1>2, <1>4 DEF Accounts, TasksAccounted, FatesTold
  <2>2. \A t \in Tasks : fate'[t] = "held" <=> \E w \in Workers : worker'[w] = "busy" /\ task'[w] = t
    BY <1>2, <1>3, <1>4 DEF Accounts, TasksAccounted, FatesTold
  <2>3. \A t \in Tasks : fate'[t] = "queued" <=> \E i \in DOMAIN queue' : queue'[i] = t
    BY <1>2, <1>3, <1>4 DEF Accounts, TasksAccounted, FatesTold
  <2>4. QED
    BY <2>1, <2>2, <2>3 DEF FatesTold
<1>7. QED
  BY <1>2, <1>5, <1>6 DEF Accounts, TasksAccounted

LEMMA TakeAccounts ==
  ASSUME TypeOK, Accounts, NEW w \in Workers, Take(w)
  PROVE  Accounts'
<1> DEFINE first == Head(queue)
<1>1. first \in Tasks /\ first = queue[1] /\ 1 \in DOMAIN queue /\ first # NoTask
  BY TakenTask, TaskParts
<1>2. fate[first] = "queued"
  BY <1>1 DEF Accounts, TasksAccounted, FatesTold
<1>3. /\ Len(queue) \in Nat \ {0}
      /\ DOMAIN queue = 1 .. Len(queue)
      /\ DOMAIN queue' = 1 .. Len(queue) - 1
      /\ \A i \in DOMAIN queue' : i + 1 \in DOMAIN queue /\ queue'[i] = queue[i + 1]
  BY DEF Take, TypeOK
<1>4. \A i \in DOMAIN queue' : queue'[i] # first
  BY <1>1, <1>3 DEF Accounts, TasksAccounted, QueuedOnce
<1>5. sent' = sent
  BY DEF Take
<1>6. /\ worker[w] = "ready" /\ task[w] = NoTask
      /\ worker'[w] = "busy" /\ task'[w] = first
      /\ \A v \in Workers : v # w => worker'[v] = worker[v] /\ task'[v] = task[v]
  BY DEF Take, TypeOK, Accounts, BusyHolds
<1>7. \A v \in Workers : task[v] # first
  BY <1>1, <1>2 DEF Accounts, TasksAccounted, FatesTold, BusyHolds
<1>8. fate'[first] = "held" /\ \A t \in Tasks : t # first => fate'[t] = fate[t]
  BY <1>1 DEF Take, TypeOK
<1>9. QueuedOnce'
  BY <1>3 DEF Accounts, TasksAccounted, QueuedOnce
<1>10. HeldOnce'
  BY <1>6, <1>7 DEF Accounts, TasksAccounted, HeldOnce
<1>11. BusyHolds' /\ SentFromBatch'
  BY <1>1, <1>5, <1>6 DEF Accounts, BusyHolds, SentFromBatch
<1>12. FatesTold'
  <2>1. \A t \in Tasks : fate'[t] = "none" <=> t[2] > sent'[t[1]]
    BY <1>2, <1>5, <1>8 DEF Accounts, TasksAccounted, FatesTold
  <2>2. ASSUME NEW t \in Tasks
        PROVE  fate'[t] = "held" <=> \E v \in Workers : worker'[v] = "busy" /\ task'[v] = t
    BY <1>6, <1>8 DEF Accounts, TasksAccounted, FatesTold
  <2>3. ASSUME NEW t \in Tasks
        PROVE  fate'[t] = "queued" <=> \E i \in DOMAIN queue' : queue'[i] = t
    <3>1. CASE t = first
      BY <3>1, <1>4, <1>8
    <3>2. CASE t # first
      <4>1. ASSUME NEW i \in DOMAIN queue, queue[i] = t
            PROVE  \E k \in DOMAIN queue' : queue'[k] = t
        <5>1. i - 1 \in DOMAIN queue' /\ queue'[i - 1] = t
          BY <3>2, <4>1, <1>1, <1>3
        <5>2. QED
          BY <5>1
      <4>2. ASSUME NEW k \in DOMAIN queue', queue'[k] = t
            PROVE  \E i \in DOMAIN queue : queue[i] = t
        BY <4>2, <1>3
      <4>3. fate'[t] = fate[t]
        BY <3>2, <1>8
      <4>4. fate[t] = "queued" <=> \E i \in DOMAIN queue : queue[i] = t
        BY DEF Accounts, TasksAccounted, FatesTold
      <4>5. QED
        BY <4>1, <4>2, <4>3, <4>4
    <3>3. QED
      BY <3>1, <3>2
  <2>4. QED
    BY <2>1, <2>2, <2>3 DEF FatesTold
<1>13. QED
  BY <1>9, <1>10, <1>11, <1>12 DEF Accounts, TasksAccounted

\* A write ends, one way or the other: its worker lets go of it.
LEMMA FinishAccounts ==
  ASSUME TypeOK, Accounts, NEW w \in Workers, NEW outcome \in {"written", "error", "lost"},
         NEW next \in {"ready", "dead"},
         worker[w] = "busy",
         worker' = [worker EXCEPT ![w] = next],
         fate' = [fate EXCEPT ![task[w]] = outcome],
         task' = [task EXCEPT ![w] = NoTask],
         queue' = queue, sent' = sent
  PROVE  Accounts'
<1> DEFINE mine == task[w]
<1>1. mine \in Tasks /\ mine # NoTask
  BY DEF TypeOK, Accounts, BusyHolds
<1>2. fate[mine] = "held"
  BY <1>1 DEF Accounts, TasksAccounted, FatesTold
<1>3. /\ worker'[w] # "busy" /\ task'[w] = NoTask
      /\ \A v \in Workers : v # w => worker'[v] = worker[v] /\ task'[v] = task[v]
  BY DEF TypeOK
<1>4. \A v \in Workers : v # w => task[v] # mine
  BY <1>1 DEF Accounts, TasksAccounted, HeldOnce
<1>5. fate'[mine] = outcome /\ \A t \in Tasks : t # mine => fate'[t] = fate[t]
  BY <1>1 DEF TypeOK
<1>6. QueuedOnce' /\ SentFromBatch'
  BY DEF Accounts, TasksAccounted, QueuedOnce, SentFromBatch
<1>7. HeldOnce' /\ BusyHolds'
  BY <1>3 DEF Accounts, TasksAccounted, HeldOnce, BusyHolds
<1>8. FatesTold'
  <2>1. \A t \in Tasks : fate'[t] = "none" <=> t[2] > sent'[t[1]]
    BY <1>2, <1>5 DEF Accounts, TasksAccounted, FatesTold
  <2>2. \A t \in Tasks : fate'[t] = "queued" <=> \E i \in DOMAIN queue' : queue'[i] = t
    BY <1>2, <1>5 DEF Accounts, TasksAccounted, FatesTold
  <2>3. ASSUME NEW t \in Tasks
        PROVE  fate'[t] = "held" <=> \E v \in Workers : worker'[v] = "busy" /\ task'[v] = t
    <3>1. CASE t = mine
      BY <3>1, <1>3, <1>4, <1>5
    <3>2. CASE t # mine
      BY <3>2, <1>3, <1>5 DEF Accounts, TasksAccounted, FatesTold
    <3>3. QED
      BY <3>1, <3>2
  <2>4. QED
    BY <2>1, <2>2, <2>3 DEF FatesTold
<1>9. QED
  BY <1>6, <1>7, <1>8 DEF Accounts, TasksAccounted

LEMMA WorkerAccounts ==
  ASSUME TypeOK, Accounts, NEW w \in Workers, WorkerStep(w)
  PROVE  Accounts'
<1>1. CASE Take(w)
  BY <1>1, TakeAccounts
<1>2. CASE End(w)
  <2>1. /\ worker[w] = "ready" /\ worker'[w] = "ended"
        /\ \A v \in Workers : v # w => worker'[v] = worker[v]
        /\ UNCHANGED <<queue, task, fate, sent>>
    BY <1>2 DEF End, TypeOK
  <2>2. QueuedOnce' /\ HeldOnce' /\ BusyHolds' /\ SentFromBatch'
    BY <2>1 DEF Accounts, TasksAccounted, QueuedOnce, HeldOnce, BusyHolds, SentFromBatch
  <2>3. FatesTold'
    BY <2>1 DEF Accounts, TasksAccounted, FatesTold
  <2>4. QED
    BY <2>2, <2>3 DEF Accounts, TasksAccounted
<1>3. CASE \E o \in {"written", "error"} : Done(w, o)
  BY <1>3, FinishAccounts DEF Done
<1>4. CASE Panic(w)
  BY <1>4, FinishAccounts DEF Panic
<1>5. QED
  BY <1>1, <1>2, <1>3, <1>4 DEF WorkerStep

LEMMA HandlerAccounts ==
  ASSUME TypeOK, Accounts, NEW h \in Handlers, Arrive(h) \/ HandlerStep(h)
  PROVE  Accounts'
<1>1. CASE Enqueue(h)
  BY <1>1, EnqueueAccounts
<1>2. CASE Drop(h)
  BY <1>2, DropAccounts
<1>3. CASE Arrive(h) \/ SendOnClosed(h) \/ Respond(h)
  BY <1>3, NoTaskMoved DEF Arrive, SendOnClosed, Respond, accounts
<1>4. QED
  BY <1>1, <1>2, <1>3 DEF HandlerStep

LEMMA MainAccounts ==
  ASSUME Accounts, Signal \/ MainStep
  PROVE  Accounts'
  BY NoTaskMoved DEF Signal, MainStep, Drained, DrainTimeout, CloseQueue, Flushed,
     FlushTimeout, ExitMain, accounts

\* ---------------------------------------------------- the order of shutdown --

Order == EndedLate /\ CleanLate /\ DrainedLate /\ ClosedLate /\ FailedLate

LEMMA HandlerOrder ==
  ASSUME TypeOK, Order, NEW h \in Handlers, Arrive(h) \/ HandlerStep(h)
  PROVE  Order'
<1>1. UNCHANGED <<closed, worker, main, drained, clean>>
  BY DEF Arrive, HandlerStep, Enqueue, Drop, SendOnClosed, Respond
<1>2. EndedLate'
  <2>1. CASE Enqueue(h)
    BY <2>1 DEF Enqueue, Order, EndedLate
  <2>2. CASE Arrive(h) \/ Drop(h) \/ SendOnClosed(h) \/ Respond(h)
    BY <2>2 DEF Arrive, Drop, SendOnClosed, Respond, Order, EndedLate
  <2>3. QED
    BY <2>1, <2>2 DEF HandlerStep
<1>3. CleanLate' /\ ClosedLate'
  BY <1>1 DEF Order, CleanLate, ClosedLate
<1>4. DrainedLate' /\ FailedLate'
  <2>1. CASE Arrive(h)
    BY <2>1 DEF Arrive, Order, DrainedLate, FailedLate, TypeOK
  <2>2. CASE Enqueue(h) \/ Drop(h)
    BY <2>2 DEF Enqueue, Drop, Order, DrainedLate, FailedLate
  <2>3. CASE SendOnClosed(h)
    BY <2>3 DEF SendOnClosed, Offering, Order, DrainedLate, FailedLate, TypeOK
  <2>4. CASE Respond(h)
    BY <2>4 DEF Respond, Order, DrainedLate, FailedLate, TypeOK
  <2>5. QED
    BY <2>1, <2>2, <2>3, <2>4 DEF HandlerStep
<1>5. QED
  BY <1>2, <1>3, <1>4 DEF Order

LEMMA WorkerOrder ==
  ASSUME TypeOK, Order, NEW w \in Workers, WorkerStep(w)
  PROVE  Order'
<1>1. UNCHANGED <<closed, handler, main, drained, clean>>
  BY DEF WorkerStep, Take, End, Done, Panic
<1>2. DrainedLate' /\ ClosedLate' /\ FailedLate'
  BY <1>1 DEF Order, DrainedLate, ClosedLate, FailedLate
<1>3. EndedLate' /\ CleanLate'
  <2>1. CASE Take(w)
    BY <2>1 DEF Take, Order, EndedLate, CleanLate, TypeOK
  <2>2. CASE End(w)
    BY <2>2 DEF End, Order, EndedLate, CleanLate, TypeOK
  <2>3. CASE \E o \in {"written", "error"} : Done(w, o)
    BY <2>3 DEF Done, Order, EndedLate, CleanLate, TypeOK
  <2>4. CASE Panic(w)
    BY <2>4 DEF Panic, Order, EndedLate, CleanLate, TypeOK
  <2>5. QED
    BY <2>1, <2>2, <2>3, <2>4 DEF WorkerStep
<1>4. QED
  BY <1>2, <1>3 DEF Order

LEMMA MainOrder ==
  ASSUME TypeOK, Order, Signal \/ MainStep
  PROVE  Order'
<1>1. UNCHANGED <<queue, worker, handler>>
  BY DEF Signal, MainStep, Drained, DrainTimeout, CloseQueue, Flushed, FlushTimeout, ExitMain
<1>2. CASE Signal
  BY <1>1, <1>2 DEF Signal, Order, EndedLate, CleanLate, DrainedLate, ClosedLate, FailedLate
<1>3. CASE Drained
  <2>1. ~closed
    BY <1>3 DEF Drained, Order, ClosedLate
  <2>2. QED
    BY <1>1, <1>3, <2>1
    DEF Drained, Order, EndedLate, CleanLate, DrainedLate, ClosedLate, FailedLate
<1>4. CASE DrainTimeout
  BY <1>1, <1>4 DEF DrainTimeout, Order, EndedLate, CleanLate, DrainedLate, ClosedLate, FailedLate
<1>5. CASE CloseQueue
  BY <1>1, <1>5 DEF CloseQueue, Order, EndedLate, CleanLate, DrainedLate, ClosedLate, FailedLate
<1>6. CASE Flushed
  <2>1. CleanLate'
    BY <1>6 DEF Flushed, Order, ClosedLate, CleanLate
  <2>2. QED
    BY <1>1, <1>6, <2>1 DEF Flushed, Order, EndedLate, DrainedLate, ClosedLate, FailedLate
<1>7. CASE FlushTimeout \/ ExitMain
  BY <1>1, <1>7
  DEF FlushTimeout, ExitMain, Order, EndedLate, CleanLate, DrainedLate, ClosedLate, FailedLate
<1>8. QED
  BY <1>2, <1>3, <1>4, <1>5, <1>6, <1>7 DEF MainStep

\* --------------------------------------------------------------- invariance --

LEMMA StepIndInv == IndInv /\ [Next]_vars => IndInv'
<1> SUFFICES ASSUME TypeOK, Accounts, Order, [Next]_vars
             PROVE  TypeOK' /\ Accounts' /\ Order'
  BY DEF IndInv, Accounts, Order
<1>1. CASE \E h \in Handlers : Arrive(h) \/ HandlerStep(h)
  BY <1>1, HandlerTyped, HandlerAccounts, HandlerOrder
<1>2. CASE \E w \in Workers : WorkerStep(w)
  BY <1>2, WorkerTyped, WorkerAccounts, WorkerOrder
<1>3. CASE Signal \/ MainStep
  BY <1>3, MainTyped, MainAccounts, MainOrder
<1>4. CASE UNCHANGED vars
  <2>1. TypeOK'
    BY <1>4 DEF vars, TypeOK
  <2>2. Accounts'
    BY <1>4, NoTaskMoved DEF vars, accounts
  <2>3. Order'
    BY <1>4 DEF vars, Order, EndedLate, CleanLate, DrainedLate, ClosedLate, FailedLate
  <2>4. QED
    BY <2>1, <2>2, <2>3
<1>5. QED
  BY <1>1, <1>2, <1>3, <1>4 DEF Next, Exited

\* The invariant of the queue, its users and its shutdown (postgres.go:27-79,
\* main.go:103-118).
THEOREM Invariance == Spec => []IndInv
  BY InitIndInv, StepIndInv, PTL DEF Spec

\* Every variable keeps its type: no step leaves the states of the code.
THEOREM TypeCorrect == Spec => []TypeOK
<1>1. IndInv => TypeOK
  BY DEF IndInv
<1>2. QED
  BY <1>1, Invariance, PTL

\* Nothing EnqueueDBTask accepts is lost unaccounted for or written twice, for
\* any number of requests, writes, logger workers and panics.
THEOREM EveryTaskAccounted == Spec => []TasksAccounted
<1>1. IndInv => TasksAccounted
  BY DEF IndInv
<1>2. QED
  BY <1>1, Invariance, PTL

\* When StopBackgroundLogger reports a clean shutdown, no write is in progress,
\* and what is still queued is there because every worker has panicked.
THEOREM CleanShutdownIsIdle == Spec => []CleanMeansIdle
<1>1. IndInv => CleanMeansIdle
  BY DEF IndInv, CleanLate, EndedLate, CleanMeansIdle
<1>2. QED
  BY <1>1, Invariance, PTL

\* No request that a drain waited for gets a 500 from the closed queue.
THEOREM DrainedAreAnswered == Spec => []FailedOnlyIfForced
<1>1. IndInv => FailedOnlyIfForced
  BY DEF IndInv, FailedLate, FailedOnlyIfForced
<1>2. QED
  BY <1>1, Invariance, PTL

\* ---------------------------------------------------------------- progress --

MovesOn ==
  /\ \A t \in Tasks : FateMovesOn(t)
  /\ \A i \in DOMAIN queue : KeepsItsPlace(i)

\* Steps that leave the tasks alone.
LEMMA RestMovesNone ==
  ASSUME UNCHANGED <<queue, fate>>
  PROVE  MovesOn
<1>1. \A t \in Tasks : FateMovesOn(t)
  BY DEF FateMovesOn
<1>2. \A i \in DOMAIN queue : KeepsItsPlace(i)
  BY DEF KeepsItsPlace
<1>3. QED
  BY <1>1, <1>2 DEF MovesOn

\* A task is offered once.
LEMMA OfferMovesOn ==
  ASSUME TypeOK, Accounts, NEW h \in Handlers, Enqueue(h) \/ Drop(h)
  PROVE  MovesOn
<1> DEFINE new == NextTask(h)
<1>1. new \in Tasks
  BY OfferedTask DEF Enqueue, Drop
<1>2. fate[new] = "none"
  BY OfferCounted DEF Enqueue, Drop
<1>3. fate'[new] \in {"queued", "dropped"} /\ \A t \in Tasks : t # new => fate'[t] = fate[t]
  BY <1>1 DEF Enqueue, Drop, TypeOK
<1>4. \A i \in DOMAIN queue : i \in DOMAIN queue' /\ queue'[i] = queue[i]
  <2>1. CASE Enqueue(h)
    BY <1>1, <2>1 DEF Enqueue, TypeOK
  <2>2. CASE Drop(h)
    BY <2>2 DEF Drop
  <2>3. QED
    BY <2>1, <2>2
<1>5. \A t \in Tasks : FateMovesOn(t)
  BY <1>2, <1>3 DEF FateMovesOn
<1>6. \A i \in DOMAIN queue : KeepsItsPlace(i)
  BY <1>4 DEF KeepsItsPlace
<1>7. QED
  BY <1>5, <1>6 DEF MovesOn

\* The first task is taken, and the others move up.
LEMMA TakeMovesOn ==
  ASSUME TypeOK, Accounts, NEW w \in Workers, Take(w)
  PROVE  MovesOn
<1> DEFINE first == Head(queue)
<1>1. first \in Tasks /\ first = queue[1] /\ 1 \in DOMAIN queue
  BY TakenTask
<1>2. fate[first] = "queued"
  BY <1>1 DEF Accounts, TasksAccounted, FatesTold
<1>3. fate'[first] = "held" /\ \A t \in Tasks : t # first => fate'[t] = fate[t]
  BY <1>1 DEF Take, TypeOK
<1>4. ASSUME NEW i \in DOMAIN queue, i # 1
      PROVE  i > 1 /\ i - 1 \in DOMAIN queue' /\ queue'[i - 1] = queue[i]
  BY <1>4 DEF Take, TypeOK
<1>5. \A t \in Tasks : FateMovesOn(t)
  BY <1>2, <1>3 DEF FateMovesOn
<1>6. \A i \in DOMAIN queue : KeepsItsPlace(i)
  BY <1>1, <1>3, <1>4 DEF KeepsItsPlace
<1>7. QED
  BY <1>5, <1>6 DEF MovesOn

\* A write ends once.
LEMMA FinishMovesOn ==
  ASSUME TypeOK, Accounts, NEW w \in Workers,
         Panic(w) \/ \E o \in {"written", "error"} : Done(w, o)
  PROVE  MovesOn
<1>1. worker[w] = "busy" /\ queue' = queue
  BY DEF Panic, Done
<1>2. task[w] \in Tasks /\ fate[task[w]] = "held"
  BY <1>1 DEF Accounts, BusyHolds, TypeOK, TasksAccounted, FatesTold
<1>3. /\ fate'[task[w]] \in {"written", "error", "lost"}
      /\ \A t \in Tasks : t # task[w] => fate'[t] = fate[t]
  BY <1>2 DEF Panic, Done, TypeOK
<1>4. \A t \in Tasks : FateMovesOn(t)
  BY <1>2, <1>3 DEF FateMovesOn
<1>5. \A i \in DOMAIN queue : KeepsItsPlace(i)
  BY <1>1 DEF KeepsItsPlace
<1>6. QED
  BY <1>4, <1>5 DEF MovesOn

\* Every write that EnqueueDBTask accepts is run at most once and in its turn,
\* and nothing else ever happens to it, for any number of workers, whatever
\* panics and the shutdown do (postgres.go 28-78). With it QueueMoves is a
\* matter of fairness alone.
THEOREM WritesAdvance == Spec => TasksMoveOn
<1>1. ASSUME TypeOK, Accounts, [Next]_vars
      PROVE  MovesOn
  <2>1. ASSUME NEW h \in Handlers, Enqueue(h) \/ Drop(h) PROVE MovesOn
    BY <1>1, <2>1, OfferMovesOn
  <2>2. ASSUME NEW w \in Workers, WorkerStep(w) PROVE MovesOn
    <3>1. CASE Take(w)
      BY <1>1, <3>1, TakeMovesOn
    <3>2. CASE Panic(w) \/ \E o \in {"written", "error"} : Done(w, o)
      BY <1>1, <3>2, FinishMovesOn
    <3>3. CASE End(w)
      BY <3>3, RestMovesNone DEF End
    <3>4. QED
      BY <2>2, <3>1, <3>2, <3>3 DEF WorkerStep
  <2>3. ASSUME NEW h \in Handlers, Arrive(h) \/ SendOnClosed(h) \/ Respond(h) PROVE MovesOn
    BY <2>3, RestMovesNone DEF Arrive, SendOnClosed, Respond
  <2>4. CASE Signal \/ MainStep
    BY <2>4, RestMovesNone DEF Signal, MainStep, Drained, DrainTimeout, CloseQueue, Flushed,
       FlushTimeout, ExitMain
  <2>5. CASE UNCHANGED vars
    BY <2>5, RestMovesNone DEF vars
  <2>6. QED
    BY <1>1, <2>1, <2>2, <2>3, <2>4, <2>5 DEF Next, HandlerStep, Exited
<1>2. IndInv => TypeOK /\ Accounts
  BY DEF IndInv, Accounts
<1>3. TypeOK /\ Accounts /\ [Next]_vars =>
        [/\ \A t \in Tasks : FateMovesOn(t)
         /\ \A i \in DOMAIN queue : KeepsItsPlace(i)]_vars
  BY <1>1 DEF MovesOn
<1>4. QED
  BY <1>2, <1>3, Invariance, PTL DEF Spec, TasksMoveOn
================================================================================
