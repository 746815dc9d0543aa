------------------------------- MODULE LogQueue -------------------------------
(***************************************************************************)
(* internal/db/postgres.go: the bounded queue of background database       *)
(* writes, together with its two users: the handlers, which put tasks on   *)
(* it at the end of a request, and the shutdown of cmd/api/main.go, which  *)
(* waits for the handlers, closes the queue and waits for the workers,     *)
(* each wait with a timeout.                                               *)
(***************************************************************************)
EXTENDS Integers, Sequences, FiniteSets

CONSTANTS
  Handlers,   \* requests
  Batch,      \* Batch[h]: writes handler h enqueues (domain checks, analytics)
  Workers,    \* background logger goroutines: 3
  Capacity,   \* capacity of logQueue: 10000
  MaxPanics   \* bound: writes that panic in one behaviour

ASSUME BatchAssumption == Batch \in [Handlers -> Nat]
ASSUME FiniteAssumption == IsFiniteSet(Handlers) /\ IsFiniteSet(Workers)
ASSUME CapacityAssumption == Capacity \in Nat /\ MaxPanics \in Nat

Tasks == UNION {{h} \X (1 .. Batch[h]) : h \in Handlers}
NoTask == <<"no task", 0>>
ASSUME NoTaskAssumption == "no task" \notin Handlers

VARIABLES
  queue,    \* logQueue: the tasks waiting
  closed,   \* logQueue has been closed
  worker,   \* worker[w]: "ready", "busy", "ended" (loop over) or "dead" (panic)
  task,     \* task[w]: the task of a busy worker
  fate,     \* fate[t]: what has become of task t
  handler,  \* handler[h]: "new", "running", "answered" (200) or "failed" (500)
  sent,     \* sent[h]: tasks h has offered to the queue
  main,     \* the main goroutine: "serving", "draining", "stopping",
            \* "flushing", "closing" or "exited"
  drained,  \* the HTTP server "shut down cleanly"
  clean,    \* the background logger "shut down cleanly"
  panics    \* writes that have panicked

vars == <<queue, closed, worker, task, fate, handler, sent, main, drained, clean, panics>>

TypeOK ==
  /\ queue \in Seq(Tasks)
  /\ closed \in BOOLEAN
  /\ worker \in [Workers -> {"ready", "busy", "ended", "dead"}]
  /\ task \in [Workers -> Tasks \cup {NoTask}]
  /\ fate \in [Tasks -> {"none", "queued", "held", "dropped", "written", "error", "lost"}]
  /\ handler \in [Handlers -> {"new", "running", "answered", "failed"}]
  /\ sent \in [Handlers -> Nat]
  /\ main \in {"serving", "draining", "stopping", "flushing", "closing", "exited"}
  /\ drained \in BOOLEAN
  /\ clean \in BOOLEAN
  /\ panics \in Nat

Init ==
  /\ queue = << >>
  /\ closed = FALSE
  /\ worker = [w \in Workers |-> "ready"]
  /\ task = [w \in Workers |-> NoTask]
  /\ fate = [t \in Tasks |-> "none"]
  /\ handler = [h \in Handlers |-> "new"]
  /\ sent = [h \in Handlers |-> 0]
  /\ main = "serving"
  /\ drained = FALSE
  /\ clean = FALSE
  /\ panics = 0

\* The process is there until main returns.
Alive == main # "exited"

\* -------------------------------------------------------------- handlers --

\* A request reaches its handler while the server listens.
Arrive(h) ==
  /\ main = "serving"
  /\ handler[h] = "new"
  /\ handler' = [handler EXCEPT ![h] = "running"]
  /\ UNCHANGED <<queue, closed, worker, task, fate, sent, main, drained, clean, panics>>

\* Mutated: the closures share the loop variable ("c := check" is missing).
NextTask_SharedVariable(h) == <<h, Batch[h]>>

\* The next task of h.
NextTask(h) == <<h, sent[h] + 1>>
Offering(h) == Alive /\ handler[h] = "running" /\ sent[h] < Batch[h]

\* EnqueueDBTask finds room.
Enqueue(h) ==
  /\ Offering(h)
  /\ ~closed
  /\ Len(queue) < Capacity
  /\ queue' = Append(queue, NextTask(h))
  /\ fate' = [fate EXCEPT ![NextTask(h)] = "queued"]
  /\ sent' = [sent EXCEPT ![h] = @ + 1]
  /\ UNCHANGED <<closed, worker, task, handler, main, drained, clean, panics>>

\* Mutated: a blocking send, without the default case.
Drop_Blocks(h) == FALSE /\ UNCHANGED vars

\* EnqueueDBTask finds the queue full and drops the task.
Drop(h) ==
  /\ Offering(h)
  /\ ~closed
  /\ Len(queue) >= Capacity
  /\ fate' = [fate EXCEPT ![NextTask(h)] = "dropped"]
  /\ sent' = [sent EXCEPT ![h] = @ + 1]
  /\ UNCHANGED <<queue, closed, worker, task, handler, main, drained, clean, panics>>

\* A send on the closed queue panics, even from a select with a default; the
\* recover of the handler turns the response, already computed, into a 500.
SendOnClosed(h) ==
  /\ Offering(h)
  /\ closed
  /\ handler' = [handler EXCEPT ![h] = "failed"]
  /\ UNCHANGED <<queue, closed, worker, task, fate, sent, main, drained, clean, panics>>

Respond(h) ==
  /\ Alive
  /\ handler[h] = "running"
  /\ sent[h] = Batch[h]
  /\ handler' = [handler EXCEPT ![h] = "answered"]
  /\ UNCHANGED <<queue, closed, worker, task, fate, sent, main, drained, clean, panics>>

\* ---------------------------------------------------------------- workers --

\* for task := range logQueue
Take(w) ==
  /\ Alive
  /\ worker[w] = "ready"
  /\ queue # << >>
  /\ worker' = [worker EXCEPT ![w] = "busy"]
  /\ task' = [task EXCEPT ![w] = Head(queue)]
  /\ fate' = [fate EXCEPT ![Head(queue)] = "held"]
  /\ queue' = Tail(queue)
  /\ UNCHANGED <<closed, handler, sent, main, drained, clean, panics>>

\* Mutated: the loop ends with the channel closed, not closed and empty.
End_Early(w) ==
  /\ Alive
  /\ worker[w] = "ready"
  /\ closed
  /\ worker' = [worker EXCEPT ![w] = "ended"]
  /\ UNCHANGED <<queue, closed, task, fate, handler, sent, main, drained, clean, panics>>

\* The range ends: the channel is closed and empty.
End(w) ==
  /\ Alive
  /\ worker[w] = "ready"
  /\ closed
  /\ queue = << >>
  /\ worker' = [worker EXCEPT ![w] = "ended"]
  /\ UNCHANGED <<queue, closed, task, fate, handler, sent, main, drained, clean, panics>>

\* Mutated: "if task, ok := <-logQueue" for the loop: one task and no more.
Done_OneTask(w, outcome) ==
  /\ Alive
  /\ worker[w] = "busy"
  /\ worker' = [worker EXCEPT ![w] = "ended"]
  /\ fate' = [fate EXCEPT ![task[w]] = outcome]
  /\ task' = [task EXCEPT ![w] = NoTask]
  /\ UNCHANGED <<queue, closed, handler, sent, main, drained, clean, panics>>

\* task(db) returns. Its outcome is only logged.
Done(w, outcome) ==
  /\ Alive
  /\ worker[w] = "busy"
  /\ worker' = [worker EXCEPT ![w] = "ready"]
  /\ fate' = [fate EXCEPT ![task[w]] = outcome]
  /\ task' = [task EXCEPT ![w] = NoTask]
  /\ UNCHANGED <<queue, closed, handler, sent, main, drained, clean, panics>>

\* task(db) panics: the recover is outside the loop, so the worker ends.
Panic(w) ==
  /\ Alive
  /\ worker[w] = "busy"
  /\ panics < MaxPanics
  /\ panics' = panics + 1
  /\ worker' = [worker EXCEPT ![w] = "dead"]
  /\ fate' = [fate EXCEPT ![task[w]] = "lost"]
  /\ task' = [task EXCEPT ![w] = NoTask]
  /\ UNCHANGED <<queue, closed, handler, sent, main, drained, clean>>

\* --------------------------------------------------------- main, shutdown --

\* Mutated: the logger is stopped before the server.
Signal_CloseFirst ==
  /\ main = "serving"
  /\ main' = "draining"
  /\ closed' = TRUE
  /\ UNCHANGED <<queue, worker, task, fate, handler, sent, drained, clean, panics>>

\* SIGTERM or SIGINT: the server stops accepting.
Signal ==
  /\ main = "serving"
  /\ main' = "draining"
  /\ UNCHANGED <<queue, closed, worker, task, fate, handler, sent, drained, clean, panics>>

\* Mutated: Shutdown not waited for.
Drained_NoWait ==
  /\ main = "draining"
  /\ main' = "stopping"
  /\ drained' = TRUE
  /\ UNCHANGED <<queue, closed, worker, task, fate, handler, sent, clean, panics>>

\* ShutdownWithContext returns: no handler is running.
Drained ==
  /\ main = "draining"
  /\ \A h \in Handlers : handler[h] # "running"
  /\ main' = "stopping"
  /\ drained' = TRUE
  /\ UNCHANGED <<queue, closed, worker, task, fate, handler, sent, clean, panics>>

\* Its 10 s are over: main goes on, and so do the handlers.
DrainTimeout ==
  /\ main = "draining"
  /\ main' = "stopping"
  /\ UNCHANGED <<queue, closed, worker, task, fate, handler, sent, drained, clean, panics>>

\* StopBackgroundLogger: close(logQueue), then the wait.
CloseQueue ==
  /\ main = "stopping"
  /\ closed' = TRUE
  /\ main' = "flushing"
  /\ UNCHANGED <<queue, worker, task, fate, handler, sent, drained, clean, panics>>

\* logQueueWg.Wait() returns: every worker is gone, one way or the other.
Flushed ==
  /\ main = "flushing"
  /\ \A w \in Workers : worker[w] \in {"ended", "dead"}
  /\ clean' = TRUE
  /\ main' = "closing"
  /\ UNCHANGED <<queue, closed, worker, task, fate, handler, sent, drained, panics>>

\* Mutated: the wait has no timeout.
FlushTimeout_None == FALSE /\ UNCHANGED vars

\* Its 5 s are over.
FlushTimeout ==
  /\ main = "flushing"
  /\ main' = "closing"
  /\ UNCHANGED <<queue, closed, worker, task, fate, handler, sent, drained, clean, panics>>

\* dbConn.Close() and the end of main.
ExitMain ==
  /\ main = "closing"
  /\ main' = "exited"
  /\ UNCHANGED <<queue, closed, worker, task, fate, handler, sent, drained, clean, panics>>

\* ----------------------------------------------------------- specification --

HandlerStep(h) == Enqueue(h) \/ Drop(h) \/ SendOnClosed(h) \/ Respond(h)
WorkerStep(w) == Take(w) \/ End(w) \/ (\E o \in {"written", "error"} : Done(w, o)) \/ Panic(w)
MainStep == Drained \/ DrainTimeout \/ CloseQueue \/ Flushed \/ FlushTimeout \/ ExitMain

Exited == ~Alive /\ UNCHANGED vars

Next ==
  \/ \E h \in Handlers : Arrive(h) \/ HandlerStep(h)
  \/ \E w \in Workers : WorkerStep(w)
  \/ Signal \/ MainStep
  \/ Exited

Spec == Init /\ [][Next]_vars

\* Handlers and main are scheduled; nothing is assumed of the database, so a
\* write may take for ever (main's timeouts are what ends the waits).
Fairness == /\ \A h \in Handlers : WF_vars(HandlerStep(h))
            /\ WF_vars(MainStep)

FairSpec == Spec /\ Fairness

\* Every write returns: each runs under a context of 3 s.
WorkingDB == \A w \in Workers : WF_vars(WorkerStep(w))

\* -------------------------------------------------------------- properties --

\* No task waits twice, and no two workers hold the same one.
QueuedOnce == \A i, k \in DOMAIN queue : queue[i] = queue[k] => i = k
HeldOnce == \A v, w \in Workers : task[v] = task[w] /\ task[v] # NoTask => v = w

\* Where a task is, its fate says.
FatesTold ==
  \A t \in Tasks :
    /\ fate[t] = "queued" <=> \E i \in DOMAIN queue : queue[i] = t
    /\ fate[t] = "held" <=> \E w \in Workers : worker[w] = "busy" /\ task[w] = t
    /\ fate[t] = "none" <=> t[2] > sent[t[1]]

\* Each task the queue accepted is in one place: waiting once, in the hands of
\* one worker, or finished; nothing accepted disappears unaccounted for and
\* nothing is written twice, whatever panics and shutdown do.
TasksAccounted == QueuedOnce /\ HeldOnce /\ FatesTold

\* What "shut down cleanly" of StopBackgroundLogger does tell: no write is in
\* progress, and the queue is empty unless panics have taken every worker.
CleanMeansIdle ==
  clean => /\ \A w \in Workers : worker[w] # "busy"
           /\ queue = << >> \/ \A w \in Workers : worker[w] = "dead"

\* A request gets a 500 from a closed queue only in a shutdown that stopped
\* waiting for it: after a clean drain nobody is left to send.
FailedOnlyIfForced ==
  \A h \in Handlers : handler[h] = "failed" => ~drained

\* Queueing a write never makes a handler wait: it ends, or the process does, even
\* when the queue is full and every worker hangs in a write or has panicked
\* (EnqueueDBTask, postgres.go 69-77). SaveSearch and SaveGeneratedName, which a
\* handler does wait for, are steps of GenerateRequest.
HandlersNeverWait ==
  \A h \in Handlers : handler[h] = "running" ~> (handler[h] # "running" \/ ~Alive)

\* Once the signal has come the process ends, whatever hangs.
ShutdownEnds == main = "draining" ~> main = "exited"

\* While writes return, a task that was queued leaves the queue for good:
\* written, failed or lost to a panic, unless every worker has panicked or
\* the process ends first.
QueueMoves ==
  WorkingDB => \A t \in Tasks : fate[t] = "queued" ~>
    \/ fate[t] \in {"written", "error", "lost"}
    \/ \A w \in Workers : worker[w] = "dead"
    \/ ~Alive

\* postgres.go:50: StopBackgroundLogger "gracefully shuts down the logger and
\* flushes the queue": when it reports a clean shutdown, nothing is waiting.
CleanMeansFlushed == clean => queue = << >>

\* --------------------------------------------------------------- progress --

\* A task is offered, taken and finished once each, in this order.
FateMovesOn(t) ==
  \/ fate'[t] = fate[t]
  \/ fate[t] = "none" /\ fate'[t] \in {"queued", "dropped"}
  \/ fate[t] = "queued" /\ fate'[t] = "held" /\ t = Head(queue)
  \/ fate[t] = "held" /\ fate'[t] \in {"written", "error", "lost"}

\* A task that waits keeps its place, or moves up, or is first and is taken.
KeepsItsPlace(i) ==
  \/ i \in DOMAIN queue' /\ queue'[i] = queue[i]
  \/ i > 1 /\ i - 1 \in DOMAIN queue' /\ queue'[i - 1] = queue[i]
  \/ i = 1 /\ fate'[queue[1]] = "held"

\* No write is put back, run again or overtaken in the queue, whatever panics,
\* drops and the shutdown do (postgres.go 28-78): QueueMoves without its
\* fairness.
TasksMoveOn ==
  [][/\ \A t \in Tasks : FateMovesOn(t)
     /\ \A i \in DOMAIN queue : KeepsItsPlace(i)]_vars

\* ------------------------------------------------------------ the invariant --

\* A worker holds a task exactly while it runs it.
BusyHolds == \A w \in Workers : task[w] = NoTask <=> worker[w] # "busy"

\* A handler offers no more than it has.
SentFromBatch == \A h \in Handlers : sent[h] <= Batch[h]

\* A worker leaves its loop only when nothing waits and nothing more can come.
EndedLate == \A w \in Workers : worker[w] = "ended" => closed /\ queue = << >>

\* "Shut down cleanly" stays true of the workers.
CleanLate == clean => closed /\ \A w \in Workers : worker[w] \in {"ended", "dead"}

\* After a clean drain no handler runs and none is started.
DrainedLate ==
  drained => main \notin {"serving", "draining"} /\ \A h \in Handlers : handler[h] # "running"

\* The queue is closed after the drain, however that ended, and for good.
ClosedLate == closed <=> main \in {"flushing", "closing", "exited"}

\* A response is lost only to a queue that is closed.
FailedLate == \A h \in Handlers : handler[h] = "failed" => closed /\ ~drained

\* What every step of the queue, its users and its shutdown preserves: the
\* shutdown's order (main closes the queue only after the drain, workers end
\* only after that) is what keeps the accounts of tasks and responses true.
IndInv ==
  /\ TypeOK /\ TasksAccounted /\ BusyHolds /\ SentFromBatch
  /\ EndedLate /\ CleanLate /\ DrainedLate /\ ClosedLate /\ FailedLate
===============================================================================
