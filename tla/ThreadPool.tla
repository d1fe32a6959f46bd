----------------------------- MODULE ThreadPool -----------------------------
(***************************************************************************)
(* The thread pool of fl/common/threadpool/ThreadPool.h.  A worker holds   *)
(* queue_mutex from the evaluation of its predicate to taking a task or    *)
(* blocking, so that is one step.  enqueue and the destructor notify after *)
(* they released the mutex, which is a step of its own: in between any     *)
(* other thread may run.                                                   *)
(***************************************************************************)
EXTENDS Naturals, Sequences, FiniteSets

CONSTANTS Workers,   \* the threads of the pool
          Clients,   \* other threads that call enqueue
          Tasks,     \* every task that may ever be given to enqueue
          NoTask

ASSUME PoolAssumption ==
  /\ NoTask \notin Tasks /\ Clients \cap Workers = {}
  /\ IsFiniteSet(Workers) /\ IsFiniteSet(Clients) /\ Workers # {}

VARIABLES tasks,     \* the queue of tasks
          stop,      \* the flag that the destructor sets
          worker,    \* what each worker is doing
          job,       \* the task each running worker executes
          status,    \* of each task, once it ran the content of its future
          notifying, \* threads between the unlock and the notify of enqueue
          owner      \* progress of the destructor

vars == <<tasks, stop, worker, job, status, notifying, owner>>

\* A packaged_task stores the value or the exception in the future.
Outcomes == {"value", "exception"}

\* The constructor launches the given threads.
ThreadPool(threads) ==
  /\ tasks = <<>> /\ stop = FALSE
  /\ worker = [w \in Workers |-> IF w \in threads THEN "loop" ELSE "exited"]
  /\ job = [w \in Workers |-> NoTask]
  /\ status = [t \in Tasks |-> "new"]
  /\ notifying = {} /\ owner = "alive"

Init == ThreadPool(Workers)

------------------------------------------------------------------------------
(* A worker *)

\* The predicate of condition.wait is false.
Block(w) ==
  /\ worker[w] = "loop" /\ ~stop /\ tasks = <<>>
  /\ worker' = [worker EXCEPT ![w] = "waiting"]
  /\ UNCHANGED <<tasks, stop, job, status, notifying, owner>>

\* The return of the worker.  Mutant: it does not look at the queue.
ExitAtStop(w) ==
  /\ worker[w] = "loop" /\ stop
  /\ worker' = [worker EXCEPT ![w] = "exited"]
  /\ UNCHANGED <<tasks, stop, job, status, notifying, owner>>

Exit(w) ==
  /\ worker[w] = "loop" /\ stop /\ tasks = <<>>
  /\ worker' = [worker EXCEPT ![w] = "exited"]
  /\ UNCHANGED <<tasks, stop, job, status, notifying, owner>>

\* The task at the front of the queue.
Take(w) ==
  /\ worker[w] = "loop" /\ tasks # <<>>
  /\ job' = [job EXCEPT ![w] = Head(tasks)]
  /\ status' = [status EXCEPT ![Head(tasks)] = "running"]
  /\ tasks' = Tail(tasks)
  /\ worker' = [worker EXCEPT ![w] = "running"]
  /\ UNCHANGED <<stop, notifying, owner>>

\* task() returns; its future is ready.
Finish(w, outcome) ==
  /\ worker[w] = "running" /\ w \notin notifying
  /\ status' = [status EXCEPT ![job[w]] = outcome]
  /\ job' = [job EXCEPT ![w] = NoTask]
  /\ worker' = [worker EXCEPT ![w] = "loop"]
  /\ UNCHANGED <<tasks, stop, notifying, owner>>

\* condition_variable::wait may return without a notification.
SpuriousWakeup(w) ==
  /\ worker[w] = "waiting"
  /\ worker' = [worker EXCEPT ![w] = "loop"]
  /\ UNCHANGED <<tasks, stop, job, status, notifying, owner>>

------------------------------------------------------------------------------
(* enqueue, by thread c: push the task and unlock, then notify *)

Waiting == {w \in Workers : worker[w] = "waiting"}

enqueue(c, t) ==
  /\ c \notin notifying /\ status[t] = "new" /\ ~stop
  /\ tasks' = Append(tasks, t)
  /\ status' = [status EXCEPT ![t] = "queued"]
  /\ notifying' = notifying \cup {c}
  /\ UNCHANGED <<stop, worker, job, owner>>

\* enqueue on stopped ThreadPool throws.
enqueueThrows(c, t) ==
  /\ c \notin notifying /\ status[t] = "new" /\ stop
  /\ status' = [status EXCEPT ![t] = "rejected"]
  /\ UNCHANGED <<tasks, stop, worker, job, notifying, owner>>

\* Mutant of NotifyOne: nobody is notified.
NotifyNobody(c) ==
  /\ c \in notifying
  /\ notifying' = notifying \ {c}
  /\ UNCHANGED <<tasks, stop, worker, job, status, owner>>

NotifyOne(c) ==
  /\ c \in notifying
  /\ notifying' = notifying \ {c}
  /\ \/ Waiting = {} /\ UNCHANGED worker
     \/ \E w \in Waiting : worker' = [worker EXCEPT ![w] = "loop"]
  /\ UNCHANGED <<tasks, stop, job, status, owner>>

------------------------------------------------------------------------------
(* The destructor *)

SetStop ==
  /\ owner = "alive" /\ notifying \cap Clients = {}
  /\ stop' = TRUE /\ owner' = "stopped"
  /\ UNCHANGED <<tasks, worker, job, status, notifying>>

\* notify_all.  Mutant: notify_one.
NotifyOneAtStop ==
  /\ owner = "stopped" /\ owner' = "joining"
  /\ \/ Waiting = {} /\ UNCHANGED worker
     \/ \E w \in Waiting : worker' = [worker EXCEPT ![w] = "loop"]
  /\ UNCHANGED <<tasks, stop, job, status, notifying>>

NotifyAll ==
  /\ owner = "stopped" /\ owner' = "joining"
  /\ worker' = [w \in Workers |->
                  IF worker[w] = "waiting" THEN "loop" ELSE worker[w]]
  /\ UNCHANGED <<tasks, stop, job, status, notifying>>

\* Every worker was joined.
Join ==
  /\ owner = "joining" /\ \A w \in Workers : worker[w] = "exited"
  /\ owner' = "gone"
  /\ UNCHANGED <<tasks, stop, worker, job, status, notifying>>

------------------------------------------------------------------------------
\* A task that runs may itself call enqueue, also while the pool is stopped.
Running == {w \in Workers : worker[w] = "running"}

WorkerStep(w) ==
  Block(w) \/ Exit(w) \/ Take(w) \/ \E outcome \in Outcomes : Finish(w, outcome)

Destroy == SetStop \/ NotifyAll \/ Join

Next ==
  \/ \E w \in Workers : WorkerStep(w) \/ SpuriousWakeup(w)
  \/ \E c \in Clients, t \in Tasks : owner = "alive" /\ enqueue(c, t)
  \/ \E w \in Running, t \in Tasks : enqueue(w, t) \/ enqueueThrows(w, t)
  \/ \E c \in Clients \cup Workers : NotifyOne(c)
  \/ Destroy

\* Threads that can run do run, tasks return and the destructor, once entered,
\* goes on.  Calling it, or enqueue, is up to the program.
Fairness ==
  /\ \A w \in Workers : WF_vars(WorkerStep(w))
  /\ \A c \in Clients \cup Workers : WF_vars(NotifyOne(c))
  /\ WF_vars(NotifyAll \/ Join)

Spec == Init /\ [][Next]_vars /\ Fairness

------------------------------------------------------------------------------
(* Properties *)

\* The type invariant; a worker holds a task exactly while it runs one, and only
\* clients and running workers are inside enqueue.
TypeOK ==
  /\ tasks \in Seq(Tasks) /\ stop \in BOOLEAN
  /\ worker \in [Workers -> {"loop", "waiting", "running", "exited"}]
  /\ job \in [Workers -> Tasks \cup {NoTask}]
  /\ \A w \in Workers : job[w] = NoTask <=> worker[w] # "running"
  /\ status \in [Tasks -> {"new", "queued", "running", "rejected"} \cup Outcomes]
  /\ notifying \subseteq Clients \cup Running
  /\ owner \in {"alive", "stopped", "joining", "gone"}

\* A task is in one place: queued once, or run by one worker, or done.  Two
\* workers never execute the same packaged_task, which would throw.
EachTaskOnce ==
  /\ \A i, j \in 1..Len(tasks) : i # j => tasks[i] # tasks[j]
  /\ \A i \in 1..Len(tasks) : status[tasks[i]] = "queued"
  /\ \A t \in Tasks : status[t] = "queued" => \E i \in 1..Len(tasks) : tasks[i] = t
  /\ \A w \in Running : job[w] \in Tasks /\ status[job[w]] = "running"
  /\ \A v, w \in Running : v # w => job[v] # job[w]

\* The destructor drains the queue: when it returns, every task that enqueue
\* accepted has run, also those that tasks gave it just before it was stopped.
DestroyedMeansDrained ==
  owner = "gone" =>
    \A t \in Tasks : status[t] \in {"new", "rejected"} \cup Outcomes

\* No task is left to sleeping workers: while a worker sleeps, every task in the queue
\* has a worker that is about to look at the queue, or a notification that is due.
Looping == {w \in Workers : worker[w] = "loop"}
NoTaskStranded ==
  Waiting # {} => Len(tasks) <= Cardinality(Looping) + Cardinality(notifying)

\* Every accepted task is run, whatever other threads do.
EveryTaskRuns ==
  \A t \in Tasks : status[t] = "queued" ~> status[t] \in Outcomes

==============================================================================
