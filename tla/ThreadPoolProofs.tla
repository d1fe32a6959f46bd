-------------------------- MODULE ThreadPoolProofs --------------------------
(***************************************************************************)
(* For any sets of workers, clients and tasks, the pool runs no task twice *)
(* and its destructor drains the queue.  Neither is inductive alone.  That *)
(* the queue is drained rests on Drained, that a worker only leaves when   *)
(* the pool is stopped and the queue is empty, and on enqueue refusing     *)
(* tasks from then on; that what was drained has also run rests on         *)
(* RunningIsRun, that every task marked as running is some worker's job.   *)
(***************************************************************************)
EXTENDS ThreadPool, FiniteSetTheorems, TLAPS

RunningIsRun ==
  \A t \in Tasks : status[t] = "running" => \E w \in Running : job[w] = t

Drained == \A w \in Workers : worker[w] = "exited" => stop /\ tasks = <<>>

Stopping ==
  /\ stop <=> owner # "alive"
  /\ owner = "gone" => \A w \in Workers : worker[w] = "exited"

\* What holds of the tasks, whichever of the threads the constructor launched.
TaskInv == TypeOK /\ EachTaskOnce /\ RunningIsRun

Inv == TaskInv /\ Drained /\ Stopping

\* The queue without its front.
LEMMA TailOfQueue ==
  ASSUME NEW S, NEW s \in Seq(S), s # <<>>
  PROVE  /\ Head(s) \in S /\ Head(s) = s[1] /\ 1 \in 1..Len(s)
         /\ Tail(s) \in Seq(S) /\ Len(Tail(s)) = Len(s) - 1
         /\ \A i \in 1..Len(Tail(s)) : Tail(s)[i] = s[i + 1] /\ i + 1 \in 1..Len(s)
OBVIOUS

\* The queue with one more task.
LEMMA AppendToQueue ==
  ASSUME NEW S, NEW s \in Seq(S), NEW t \in S
  PROVE  /\ Append(s, t) \in Seq(S) /\ Len(Append(s, t)) = Len(s) + 1
         /\ \A i \in 1..Len(s) : Append(s, t)[i] = s[i] /\ i \in 1..Len(Append(s, t))
         /\ Append(s, t)[Len(s) + 1] = t /\ Len(s) + 1 \in 1..Len(Append(s, t))
         /\ \A i \in 1..Len(Append(s, t)) : i \in 1..Len(s) \/ i = Len(s) + 1
OBVIOUS

\* The constructor establishes the invariant.
LEMMA InitInv == Init => Inv
<1> SUFFICES ASSUME Init PROVE Inv
  BY Zenon
<1> USE PoolAssumption DEF Init, ThreadPool
<1>1. \A w \in Workers : worker[w] = "loop"
  BY Zenon
<1>2. TypeOK
  <2>1. tasks \in Seq(Tasks)
    OBVIOUS
  <2>2. stop \in BOOLEAN
    BY Zenon
  <2>3. /\ worker \in [Workers -> {"loop", "waiting", "running", "exited"}]
        /\ job \in [Workers -> Tasks \cup {NoTask}]
        /\ status \in [Tasks -> {"new", "queued", "running", "rejected"} \cup Outcomes]
    BY Zenon
  <2> QED
    BY <1>1, <2>1, <2>2, <2>3, Zenon DEF TypeOK
<1>3. EachTaskOnce
  BY <1>1 DEF EachTaskOnce, Running
<1>4. RunningIsRun /\ Drained /\ Stopping
  BY <1>1, Zenon DEF RunningIsRun, Drained, Stopping
<1> QED
  BY <1>2, <1>3, <1>4, Zenon DEF Inv, TaskInv

\* A step that only lets workers wait, wake up or leave: the queue, the jobs and the
\* tasks stay as they are, and running workers run on.
LEMMA WorkersMove ==
  ASSUME TaskInv, UNCHANGED <<tasks, stop, job, status, owner>>,
         notifying' \subseteq notifying,
         worker' \in [Workers -> {"loop", "waiting", "running", "exited"}],
         \A w \in Workers : worker[w] = "running" <=> worker'[w] = "running"
  PROVE  TaskInv'
<1>1. Running' = Running
  BY Zenon DEF Running
<1>2. TypeOK'
  BY <1>1, Zenon DEF TaskInv, TypeOK
<1>3. EachTaskOnce'
  BY <1>1 DEF TaskInv, EachTaskOnce
<1>4. RunningIsRun'
  BY <1>1, Zenon DEF TaskInv, RunningIsRun
<1> QED
  BY <1>2, <1>3, <1>4, Zenon DEF TaskInv

\* A worker takes the task at the front.
LEMMA TakeInv ==
  ASSUME TaskInv, NEW w \in Workers, Take(w)
  PROVE  TaskInv'
<1> DEFINE t == Head(tasks)
<1>1. /\ t \in Tasks /\ t = tasks[1] /\ 1 \in 1..Len(tasks)
      /\ Tail(tasks) \in Seq(Tasks) /\ Len(Tail(tasks)) = Len(tasks) - 1
      /\ \A i \in 1..Len(Tail(tasks)) :
           Tail(tasks)[i] = tasks[i + 1] /\ i + 1 \in 1..Len(tasks)
  BY TailOfQueue, Zenon DEF TaskInv, TypeOK, Take
<1>2. status[t] = "queued" /\ \A i \in 1..Len(tasks) : i # 1 => tasks[i] # t
  BY <1>1 DEF TaskInv, EachTaskOnce
<1> HIDE DEF t
<1>3. /\ worker[w] = "loop" /\ tasks' = Tail(tasks)
      /\ worker' = [worker EXCEPT ![w] = "running"]
      /\ job' = [job EXCEPT ![w] = t] /\ status' = [status EXCEPT ![t] = "running"]
      /\ UNCHANGED <<stop, notifying, owner>>
  BY Zenon DEF Take, t
<1>4. w \notin Running /\ Running' = Running \cup {w}
  BY <1>3, Zenon DEF TaskInv, TypeOK, Running
<1>5. job'[w] = t /\ \A v \in Running : v \in Workers /\ job'[v] = job[v]
  BY <1>3, <1>4, Zenon DEF TaskInv, TypeOK, Running
<1>6. status'[t] = "running" /\ \A u \in Tasks : u # t => status'[u] = status[u]
  BY <1>1, <1>3, Zenon DEF TaskInv, TypeOK
<1>7. \A v \in Running : job[v] # t
  BY <1>2, Zenon DEF TaskInv, EachTaskOnce
<1>8. TypeOK'
  BY <1>1, <1>3, <1>4, PoolAssumption, Zenon DEF TaskInv, TypeOK, Outcomes
<1>9. EachTaskOnce'
  <2>1. \A i, j \in 1..Len(tasks') : i # j => tasks'[i] # tasks'[j]
    BY <1>1, <1>3 DEF TaskInv, EachTaskOnce
  <2>2. \A i \in 1..Len(tasks') : status'[tasks'[i]] = "queued"
    <3> SUFFICES ASSUME NEW i \in 1..Len(tasks') PROVE status'[tasks'[i]] = "queued"
      BY Zenon
    <3>1. tasks'[i] = tasks[i + 1] /\ i + 1 \in 1..Len(tasks) /\ i + 1 # 1
      BY <1>1, <1>3
    <3>2. tasks[i + 1] \in Tasks /\ tasks[i + 1] # t /\ status[tasks[i + 1]] = "queued"
      BY <1>2, <3>1 DEF TaskInv, TypeOK, EachTaskOnce
    <3> QED
      BY <1>6, <3>1, <3>2, Zenon
  <2>3. \A u \in Tasks : status'[u] = "queued" => \E i \in 1..Len(tasks') : tasks'[i] = u
    <3> SUFFICES ASSUME NEW u \in Tasks, status'[u] = "queued"
                 PROVE  \E i \in 1..Len(tasks') : tasks'[i] = u
      BY Zenon
    <3>1. u # t /\ status[u] = "queued"
      BY <1>6, Zenon
    <3>2. PICK j \in 1..Len(tasks) : tasks[j] = u
      BY <3>1, Zenon DEF TaskInv, EachTaskOnce
    <3>3. j # 1
      BY <1>1, <3>1, <3>2, Zenon
    <3>4. j - 1 \in 1..Len(tasks') /\ tasks'[j - 1] = u
      BY <1>1, <1>3, <3>2, <3>3 DEF TaskInv, TypeOK
    <3> QED
      BY <3>4, Zenon
  <2>4. \A v \in Running' : job'[v] \in Tasks /\ status'[job'[v]] = "running"
    BY <1>1, <1>4, <1>5, <1>6, <1>7 DEF TaskInv, EachTaskOnce
  <2>5. \A v, x \in Running' : v # x => job'[v] # job'[x]
    BY <1>4, <1>5, <1>7 DEF TaskInv, EachTaskOnce
  <2> QED
    BY <2>1, <2>2, <2>3, <2>4, <2>5, Zenon DEF EachTaskOnce
<1>10. RunningIsRun'
  BY <1>4, <1>5, <1>6, Zenon DEF TaskInv, RunningIsRun
<1> QED
  BY <1>8, <1>9, <1>10, Zenon DEF TaskInv

\* task() of a worker returns.
LEMMA FinishInv ==
  ASSUME TaskInv, NEW w \in Workers, NEW outcome \in Outcomes, Finish(w, outcome)
  PROVE  TaskInv'
<1> DEFINE t == job[w]
<1>1. w \in Running /\ t \in Tasks /\ status[t] = "running"
  BY Zenon DEF TaskInv, TypeOK, EachTaskOnce, Running, Finish
<1> HIDE DEF t
<1>2. /\ worker[w] = "running" /\ w \notin notifying
      /\ worker' = [worker EXCEPT ![w] = "loop"]
      /\ job' = [job EXCEPT ![w] = NoTask] /\ status' = [status EXCEPT ![t] = outcome]
      /\ UNCHANGED <<tasks, stop, notifying, owner>>
  BY Zenon DEF Finish, t
<1>3. Running' = Running \ {w}
  BY <1>2, Zenon DEF TaskInv, TypeOK, Running
<1>4. \A v \in Running' : v \in Workers /\ v \in Running /\ job'[v] = job[v] /\ job[v] # t
  BY <1>1, <1>2, <1>3 DEF TaskInv, TypeOK, EachTaskOnce, Running, t
<1>5. status'[t] = outcome /\ \A u \in Tasks : u # t => status'[u] = status[u]
  BY <1>1, <1>2, Zenon DEF TaskInv, TypeOK
<1>6. TypeOK'
  BY <1>1, <1>2, <1>3, PoolAssumption, Zenon DEF TaskInv, TypeOK, Outcomes
<1>7. EachTaskOnce'
  <2>1. \A i \in 1..Len(tasks) : tasks[i] \in Tasks /\ tasks[i] # t
    BY <1>1 DEF TaskInv, TypeOK, EachTaskOnce
  <2>2. \A i \in 1..Len(tasks') : status'[tasks'[i]] = "queued"
    BY <1>2, <1>5, <2>1 DEF TaskInv, EachTaskOnce
  <2>3. \A u \in Tasks : status'[u] = "queued" => \E i \in 1..Len(tasks') : tasks'[i] = u
    BY <1>2, <1>5 DEF TaskInv, EachTaskOnce, Outcomes
  <2>4. \A v \in Running' : job'[v] \in Tasks /\ status'[job'[v]] = "running"
    BY <1>4, <1>5 DEF TaskInv, EachTaskOnce
  <2>5. \A v, x \in Running' : v # x => job'[v] # job'[x]
    BY <1>4 DEF TaskInv, EachTaskOnce
  <2> QED
    BY <1>2, <2>2, <2>3, <2>4, <2>5 DEF TaskInv, EachTaskOnce
<1>8. RunningIsRun'
  <2> SUFFICES ASSUME NEW u \in Tasks, status'[u] = "running"
               PROVE  \E v \in Running' : job'[v] = u
    BY Zenon DEF RunningIsRun
  <2>1. u # t /\ status[u] = "running"
    BY <1>5, Zenon DEF Outcomes
  <2>2. PICK v \in Running : job[v] = u
    BY <2>1, Zenon DEF TaskInv, RunningIsRun
  <2> QED
    BY <1>3, <1>4, <2>1, <2>2, Zenon DEF t
<1> QED
  BY <1>6, <1>7, <1>8, Zenon DEF TaskInv

\* enqueue accepts a task.
LEMMA EnqueueInv ==
  ASSUME TaskInv, NEW c \in Clients \cup Running, NEW t \in Tasks, enqueue(c, t)
  PROVE  TaskInv'
<1>1. /\ ~stop /\ status[t] = "new" /\ tasks' = Append(tasks, t)
      /\ status' = [status EXCEPT ![t] = "queued"] /\ notifying' = notifying \cup {c}
      /\ UNCHANGED <<stop, worker, job, owner>>
  BY Zenon DEF enqueue
<1>2. /\ tasks' \in Seq(Tasks) /\ Len(tasks') = Len(tasks) + 1
      /\ \A i \in 1..Len(tasks) : tasks'[i] = tasks[i] /\ i \in 1..Len(tasks')
      /\ tasks'[Len(tasks) + 1] = t /\ Len(tasks) + 1 \in 1..Len(tasks')
      /\ \A i \in 1..Len(tasks') : i \in 1..Len(tasks) \/ i = Len(tasks) + 1
  BY <1>1, AppendToQueue DEF TaskInv, TypeOK
<1>3. status'[t] = "queued" /\ \A u \in Tasks : u # t => status'[u] = status[u]
  BY <1>1, Zenon DEF TaskInv, TypeOK
<1>4. \A i \in 1..Len(tasks) : tasks[i] \in Tasks /\ tasks[i] # t
  BY <1>1 DEF TaskInv, TypeOK, EachTaskOnce
<1>5. Running' = Running /\ \A v \in Running : job[v] # t
  BY <1>1, Zenon DEF TaskInv, EachTaskOnce, Running
<1>6. TypeOK'
  BY <1>1, <1>2, <1>5, Zenon DEF TaskInv, TypeOK
<1>7. EachTaskOnce'
  <2>1. \A i, j \in 1..Len(tasks') : i # j => tasks'[i] # tasks'[j]
    BY <1>2, <1>4 DEF TaskInv, EachTaskOnce
  <2>2. \A i \in 1..Len(tasks') : status'[tasks'[i]] = "queued"
    BY <1>2, <1>3, <1>4 DEF TaskInv, EachTaskOnce
  <2>3. \A u \in Tasks : status'[u] = "queued" => \E i \in 1..Len(tasks') : tasks'[i] = u
    BY <1>2, <1>3 DEF TaskInv, EachTaskOnce
  <2>4. \A v \in Running' : job'[v] \in Tasks /\ status'[job'[v]] = "running"
    BY <1>1, <1>3, <1>5 DEF TaskInv, EachTaskOnce
  <2> QED
    BY <1>1, <1>5, <2>1, <2>2, <2>3, <2>4 DEF TaskInv, EachTaskOnce
<1>8. RunningIsRun'
  BY <1>1, <1>3, <1>5, Zenon DEF TaskInv, RunningIsRun
<1> QED
  BY <1>6, <1>7, <1>8, Zenon DEF TaskInv

\* enqueue throws: only the status of the task changes.
LEMMA EnqueueThrowsInv ==
  ASSUME TaskInv, NEW c, NEW t \in Tasks, enqueueThrows(c, t)
  PROVE  TaskInv'
<1>1. /\ status[t] = "new" /\ status' = [status EXCEPT ![t] = "rejected"]
      /\ UNCHANGED <<tasks, stop, worker, job, notifying, owner>>
  BY Zenon DEF enqueueThrows
<1>2. status'[t] = "rejected" /\ \A u \in Tasks : u # t => status'[u] = status[u]
  BY <1>1, Zenon DEF TaskInv, TypeOK
<1>3. Running' = Running /\ \A v \in Running : job[v] # t
  BY <1>1, Zenon DEF TaskInv, EachTaskOnce, Running
<1>4. \A i \in 1..Len(tasks) : tasks[i] \in Tasks /\ tasks[i] # t
  BY <1>1 DEF TaskInv, TypeOK, EachTaskOnce
<1>5. TypeOK'
  BY <1>1, <1>3, Zenon DEF TaskInv, TypeOK
<1>6. EachTaskOnce'
  BY <1>1, <1>2, <1>3, <1>4 DEF TaskInv, EachTaskOnce
<1>7. RunningIsRun'
  BY <1>1, <1>2, <1>3 DEF TaskInv, RunningIsRun
<1> QED
  BY <1>5, <1>6, <1>7, Zenon DEF TaskInv

\* Every step of the workers, of enqueue and of the destructor keeps the invariant
\* of the tasks.
LEMMA NextTaskInv == TaskInv /\ [Next]_vars => TaskInv'
<1> SUFFICES ASSUME TaskInv, [Next]_vars PROVE TaskInv'
  BY Zenon
<1>1. ASSUME NEW w \in Workers, Block(w) \/ SpuriousWakeup(w) \/ Exit(w) PROVE TaskInv'
  BY <1>1, WorkersMove DEF TaskInv, TypeOK, Block, SpuriousWakeup, Exit
<1>2. ASSUME NEW w \in Workers, Take(w) PROVE TaskInv'
  BY <1>2, TakeInv, Zenon
<1>3. ASSUME NEW w \in Workers, NEW outcome \in Outcomes, Finish(w, outcome) PROVE TaskInv'
  BY <1>3, FinishInv
<1>4. ASSUME NEW c \in Clients, NEW t \in Tasks, enqueue(c, t) PROVE TaskInv'
  BY <1>4, EnqueueInv
<1>5. ASSUME NEW w \in Running, NEW t \in Tasks, enqueue(w, t) \/ enqueueThrows(w, t)
      PROVE  TaskInv'
  BY <1>5, EnqueueInv, EnqueueThrowsInv
<1>6. ASSUME NEW c \in Clients \cup Workers, NotifyOne(c) PROVE TaskInv'
  BY <1>6, WorkersMove DEF TaskInv, TypeOK, NotifyOne, Waiting
<1>7. CASE SetStop
  BY <1>7 DEF SetStop, TaskInv, TypeOK, EachTaskOnce, RunningIsRun, Running
<1>8. CASE NotifyAll
  <2>1. Running' = Running
    BY <1>8 DEF NotifyAll, TaskInv, TypeOK, Running
  <2>2. TypeOK'
    BY <1>8, <2>1 DEF NotifyAll, TaskInv, TypeOK
  <2> QED
    BY <1>8, <2>1, <2>2 DEF NotifyAll, TaskInv, EachTaskOnce, RunningIsRun
<1>9. CASE Join
  BY <1>9 DEF Join, TaskInv, TypeOK, EachTaskOnce, RunningIsRun, Running
<1>10. CASE UNCHANGED vars
  BY <1>10 DEF vars, TaskInv, TypeOK, EachTaskOnce, RunningIsRun, Running
<1> QED
  BY <1>1, <1>2, <1>3, <1>4, <1>5, <1>6, <1>7, <1>8, <1>9, <1>10
  DEF Next, WorkerStep, Destroy

\* And the whole invariant: a worker leaves only when the pool is stopped and the queue
\* is empty, and enqueue accepts nothing from then on.
LEMMA NextInv == Inv /\ [Next]_vars => Inv'
<1> SUFFICES ASSUME Inv, [Next]_vars PROVE Drained' /\ Stopping'
  BY NextTaskInv, Zenon DEF Inv
<1> USE DEF Inv, TaskInv
<1>1. ASSUME NEW w \in Workers, Block(w) \/ SpuriousWakeup(w) \/ Exit(w) \/ Take(w)
      PROVE  Drained' /\ Stopping'
  BY <1>1 DEF TypeOK, Drained, Stopping, Block, SpuriousWakeup, Exit, Take
<1>2. ASSUME NEW w \in Workers, NEW outcome \in Outcomes, Finish(w, outcome)
      PROVE  Drained' /\ Stopping'
  BY <1>2, Zenon DEF TypeOK, Drained, Stopping, Finish
<1>3. ASSUME NEW c, NEW t \in Tasks, enqueue(c, t) \/ enqueueThrows(c, t)
      PROVE  Drained' /\ Stopping'
  BY <1>3 DEF Drained, Stopping, enqueue, enqueueThrows
<1>4. ASSUME NEW c \in Clients \cup Workers, NotifyOne(c) PROVE Drained' /\ Stopping'
  BY <1>4, Zenon DEF TypeOK, Drained, Stopping, NotifyOne, Waiting
<1>5. CASE SetStop
  BY <1>5, Zenon DEF SetStop, Drained, Stopping
<1>6. CASE NotifyAll
  BY <1>6, Zenon DEF NotifyAll, Drained, Stopping
<1>7. CASE Join
  BY <1>7, Zenon DEF Join, Drained, Stopping
<1>8. CASE UNCHANGED vars
  BY <1>8, Zenon DEF vars, Drained, Stopping
<1> QED
  BY <1>1, <1>2, <1>3, <1>4, <1>5, <1>6, <1>7, <1>8 DEF Next, WorkerStep, Destroy

\* The invariant holds in every state of every pool: the worker loop, enqueue and
\* the destructor of ThreadPool.h all preserve it.
LEMMA InvHolds == Spec => []Inv
<1> QED
  BY InitInv, NextInv, PTL DEF Spec

\* No two workers execute the same packaged_task, whatever the interleaving of enqueue,
\* the workers and the destructor.
THEOREM TasksRunOnce == Spec => []EachTaskOnce
<1>1. Inv => EachTaskOnce
  BY DEF Inv, TaskInv
<1> QED
  BY <1>1, InvHolds, PTL

\* When the destructor has returned, every task that enqueue accepted has run: all
\* workers have left, so the queue is empty and nobody runs a task.
THEOREM DestructorDrains == Spec => []DestroyedMeansDrained
<1>1. Inv => DestroyedMeansDrained
  <2> SUFFICES ASSUME Inv, owner = "gone", NEW t \in Tasks
               PROVE  status[t] \in {"new", "rejected"} \cup Outcomes
    BY Zenon DEF DestroyedMeansDrained
  <2>1. Running = {} /\ tasks = <<>>
    BY PoolAssumption, Zenon DEF Inv, TaskInv, Stopping, Drained, Running
  <2>2. status[t] # "queued" /\ status[t] # "running"
    BY <2>1 DEF Inv, TaskInv, EachTaskOnce, RunningIsRun
  <2> QED
    BY <2>2, Zenon DEF Inv, TaskInv, TypeOK
<1> QED
  BY <1>1, InvHolds, PTL

------------------------------------------------------------------------------
(* Wake-ups *)

\* The sets that NoTaskStranded counts are finite.
Countable ==
  /\ IsFiniteSet(Looping) /\ Cardinality(Looping) \in Nat
  /\ IsFiniteSet(notifying) /\ Cardinality(notifying) \in Nat /\ Len(tasks) \in Nat

\* Only workers and clients are looping or notifying.
LEMMA Counts == TypeOK => Countable
<1> SUFFICES ASSUME TypeOK PROVE Countable
  OBVIOUS
<1>1. Looping \subseteq Workers /\ notifying \subseteq Clients \cup Workers
  BY Zenon DEF TypeOK, Looping, Running
<1>2. IsFiniteSet(Clients \cup Workers)
  BY PoolAssumption, FS_Union, Zenon
<1>3. IsFiniteSet(Looping) /\ IsFiniteSet(notifying)
  BY <1>1, <1>2, PoolAssumption, FS_Subset
<1> QED
  BY <1>3, FS_CardinalityType DEF TypeOK, Countable

\* A worker that comes back to the loop, or is woken, is one more that looks.
LEMMA MoreLooping ==
  ASSUME TypeOK, NEW w \in Workers, worker[w] # "loop",
         worker' = [worker EXCEPT ![w] = "loop"]
  PROVE  Cardinality(Looping') = Cardinality(Looping) + 1
<1>1. Looping' = Looping \cup {w} /\ w \notin Looping
  BY Zenon DEF TypeOK, Looping
<1> QED
  BY <1>1, Counts, FS_AddElement, Zenon DEF Countable

\* Every step keeps enough threads awake.
LEMMA StrandedStep ==
  ASSUME Inv, NoTaskStranded, [Next]_vars
  PROVE  NoTaskStranded'
<1> USE DEF Inv, TaskInv
<1>0. /\ IsFiniteSet(Looping) /\ Cardinality(Looping) \in Nat
      /\ IsFiniteSet(notifying) /\ Cardinality(notifying) \in Nat /\ Len(tasks) \in Nat
  BY Counts, Zenon DEF Countable
<1>1. Cardinality(Looping') \in Nat /\ Cardinality(notifying') \in Nat
  <2>1. TypeOK'
    BY NextInv, Zenon
  <2>2. Countable'
    BY <2>1, Counts, PTL
  <2> QED
    BY <2>2, Zenon DEF Countable
<1>2. ASSUME tasks' = <<>> PROVE NoTaskStranded'
  <2>1. Len(tasks') = 0
    BY <1>2
  <2> QED
    BY <1>1, <2>1 DEF NoTaskStranded
<1>3. ASSUME NEW w \in Workers, Block(w) \/ Exit(w) PROVE NoTaskStranded'
  BY <1>2, <1>3 DEF Block, Exit
<1>4. ASSUME NEW w \in Workers, Take(w) PROVE NoTaskStranded'
  <2>1. Len(tasks') = Len(tasks) - 1 /\ notifying' = notifying
    BY <1>4, TailOfQueue DEF Take, TypeOK
  <2>2. Looping' = Looping \ {w} /\ w \in Looping /\ Waiting' = Waiting
    BY <1>4 DEF Take, TypeOK, Looping, Waiting
  <2>3. Cardinality(Looping') = Cardinality(Looping) - 1
    BY <1>0, <2>2, FS_RemoveElement, Zenon
  <2> QED
    BY <1>0, <2>1, <2>2, <2>3 DEF NoTaskStranded
<1>5. ASSUME NEW w \in Workers, NEW outcome \in Outcomes, Finish(w, outcome)
      PROVE  NoTaskStranded'
  <2>1. Waiting' = Waiting /\ UNCHANGED <<tasks, notifying>>
    BY <1>5 DEF Finish, TypeOK, Waiting
  <2>2. Cardinality(Looping') = Cardinality(Looping) + 1
    BY <1>5, MoreLooping, Zenon DEF Finish
  <2> QED
    BY <1>0, <2>1, <2>2 DEF NoTaskStranded
<1>6. ASSUME NEW w \in Workers, SpuriousWakeup(w) PROVE NoTaskStranded'
  <2>1. w \in Waiting /\ UNCHANGED <<tasks, notifying>>
    BY <1>6, Zenon DEF SpuriousWakeup, TypeOK, Waiting
  <2>2. Cardinality(Looping') = Cardinality(Looping) + 1
    BY <1>6, MoreLooping, Zenon DEF SpuriousWakeup
  <2> QED
    BY <1>0, <2>1, <2>2 DEF NoTaskStranded
<1>7. ASSUME NEW c, NEW t \in Tasks, enqueue(c, t) PROVE NoTaskStranded'
  <2>1. Len(tasks') = Len(tasks) + 1
    BY <1>7, AppendToQueue DEF enqueue, TypeOK
  <2>2. Cardinality(notifying') = Cardinality(notifying) + 1
    BY <1>0, <1>7, FS_AddElement, Zenon DEF enqueue
  <2>3. Looping' = Looping /\ Waiting' = Waiting
    BY <1>7, Zenon DEF enqueue, Looping, Waiting
  <2> QED
    BY <1>0, <2>1, <2>2, <2>3 DEF NoTaskStranded
<1>8. ASSUME NEW c, NEW t \in Tasks, enqueueThrows(c, t) PROVE NoTaskStranded'
  BY <1>8, Zenon DEF enqueueThrows, NoTaskStranded, Looping, Waiting
<1>9. ASSUME NEW c \in Clients \cup Workers, NotifyOne(c) PROVE NoTaskStranded'
  <2>1. Cardinality(notifying') = Cardinality(notifying) - 1 /\ tasks' = tasks
    BY <1>0, <1>9, FS_RemoveElement, Zenon DEF NotifyOne
  <2>2. CASE Waiting = {} /\ UNCHANGED worker
    BY <2>2 DEF NoTaskStranded, Waiting
  <2>3. ASSUME NEW w \in Waiting, worker' = [worker EXCEPT ![w] = "loop"]
        PROVE  NoTaskStranded'
    <3>1. Cardinality(Looping') = Cardinality(Looping) + 1
      BY <2>3, MoreLooping, Zenon DEF Waiting
    <3> QED
      BY <1>0, <2>1, <2>3, <3>1 DEF NoTaskStranded
  <2> QED
    BY <1>9, <2>2, <2>3, Zenon DEF NotifyOne
<1>10. CASE NotifyAll
  BY <1>10 DEF NotifyAll, NoTaskStranded, Waiting
<1>11. CASE SetStop \/ Join \/ UNCHANGED vars
  BY <1>11, Zenon DEF SetStop, Join, vars, NoTaskStranded, Looping, Waiting
<1> QED
  BY <1>3, <1>4, <1>5, <1>6, <1>7, <1>8, <1>9, <1>10, <1>11
  DEF Next, WorkerStep, Destroy

\* enqueue notifies after it has released the mutex, and a worker that was already awake
\* may take the task first; still no task stays in the queue while only sleeping workers
\* could run it.
THEOREM WakeupsReachTasks == Spec => []NoTaskStranded
<1>1. Init => NoTaskStranded
  BY PoolAssumption, Zenon DEF Init, ThreadPool, NoTaskStranded, Waiting
<1>2. Inv /\ NoTaskStranded /\ [Next]_vars => NoTaskStranded'
  BY StrandedStep, Zenon
<1> QED
  BY <1>1, <1>2, InvHolds, PTL DEF Spec

==============================================================================
