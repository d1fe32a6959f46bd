--------------------------- MODULE PrefetchDataset ---------------------------
(***************************************************************************)
(* fl/dataset/PrefetchDataset.cpp on top of ThreadPool: one thread calls   *)
(* get, which keeps a queue of futures of the samples that come next; the  *)
(* workers of the pool fill them by calling get on the underlying dataset. *)
(* A sample is represented by its index, a future by the task that fills   *)
(* it.                                                                     *)
(***************************************************************************)
EXTENDS Integers, Sequences, FiniteSets

CONSTANTS Workers,
          Reader,         \* the thread that calls get
          Size,           \* size() of the underlying dataset
          PrefetchSizes,  \* values of prefetchSize_ if there are workers
          Failing,        \* indices whose get may throw
          MaxGets         \* bound: calls of get

\* prefetchSize_ is positive exactly if there are workers, see the constructor.
ASSUME PrefetchAssumption ==
  /\ Size \in Nat /\ MaxGets \in Nat
  /\ PrefetchSizes \subseteq Nat \ {0}
  /\ \E n \in PrefetchSizes : \A k \in PrefetchSizes : k <= n
  /\ IsFiniteSet(Workers) /\ Workers # {} /\ Reader \notin Workers

VARIABLES tasks, stop, worker, job, status, notifying, owner, \* the ThreadPool
          prefetchSize,
          prefetchCache,  \* sequence of tasks; Taken when get was called on it
          curIdx,
          fetched,        \* per task, the index its lambda captured
          reader,         \* what the reader is doing
          idx,            \* the argument of the current or the last get
          sample,         \* what the last get returned
          gets,           \* number of calls of get so far
          threw           \* whether some call of get threw

pool == <<tasks, stop, worker, job, status, notifying, owner>>
vars == <<pool, prefetchSize, prefetchCache, curIdx, fetched, reader, idx,
          sample, gets, threw>>

Indices == 0..(Size - 1)

\* Every call of get enqueues at most prefetchSize_ tasks.
MaxPrefetch == CHOOSE n \in PrefetchSizes : \A k \in PrefetchSizes : k <= n
Tasks == 1..(MaxGets * MaxPrefetch)

Taken == 0       \* a future whose get has been called
NoIndex == -1    \* no sample: nothing was returned, or get threw

Pool == INSTANCE ThreadPool WITH Clients <- {Reader}, NoTask <- 0

\* The constructor: no workers and no prefetching, or some of both.
Init ==
  /\ \/ prefetchSize = 0 /\ Pool!ThreadPool({})
     \/ prefetchSize \in PrefetchSizes /\ Pool!ThreadPool(Workers)
  /\ prefetchCache = <<>> /\ curIdx = NoIndex
  /\ fetched = [t \in Tasks |-> NoIndex]
  /\ reader = "idle" /\ idx = NoIndex /\ sample = NoIndex
  /\ gets = 0 /\ threw = FALSE

\* What a call of the underlying dataset's get may come to.
Fetch(i) == {"value"} \cup (IF i \in Failing THEN {"exception"} ELSE {})

Calls(i) ==
  /\ reader = "idle" /\ owner = "alive" /\ gets < MaxGets
  /\ i \in Indices
  /\ idx' = i /\ gets' = gets + 1

\* get without threads.
GetDirectly(i) ==
  /\ Calls(i) /\ prefetchSize = 0
  /\ \E r \in Fetch(i) : /\ sample' = IF r = "value" THEN i ELSE NoIndex
                         /\ threw' = (threw \/ r = "exception")
  /\ UNCHANGED <<pool, prefetchSize, prefetchCache, curIdx, fetched, reader>>

\* The first loop of get: drop futures until the front one is of sample i.  n is
\* the number of futures dropped.  Mutant: it drops none.
EvictNothing(i, n) == n = 0 /\ UNCHANGED <<prefetchCache, curIdx>>

Evict(i, n) ==
  /\ n = IF curIdx <= i /\ i - curIdx < Len(prefetchCache)
         THEN i - curIdx ELSE Len(prefetchCache)
  /\ prefetchCache' = SubSeq(prefetchCache, n + 1, Len(prefetchCache))
  /\ curIdx' = curIdx + n

Get(i) ==
  /\ Calls(i) /\ prefetchSize > 0
  /\ \E n \in 0..Len(prefetchCache) : Evict(i, n)
  /\ reader' = "filling" /\ sample' = NoIndex
  /\ UNCHANGED <<pool, prefetchSize, fetched, threw>>

\* The condition and the break of the second loop.
MustFill ==
  Len(prefetchCache) < prefetchSize /\ idx + Len(prefetchCache) < Size

\* The body of the second loop: enqueue the next sample, then notify.
Fill ==
  /\ reader = "filling" /\ Reader \notin notifying /\ MustFill
  /\ LET t == 1 + Cardinality({u \in Tasks : status[u] # "new"})
     IN  /\ t \in Tasks
         /\ Pool!enqueue(Reader, t)
         /\ prefetchCache' = Append(prefetchCache, t)
         /\ fetched' = [fetched EXCEPT ![t] = idx + Len(prefetchCache)]
  /\ UNCHANGED <<prefetchSize, curIdx, reader, idx, sample, gets, threw>>

Notify ==
  /\ Pool!NotifyOne(Reader)
  /\ UNCHANGED <<prefetchSize, prefetchCache, curIdx, fetched, reader, idx,
                 sample, gets, threw>>

Filled ==
  /\ reader = "filling" /\ Reader \notin notifying /\ ~MustFill
  /\ reader' = "waiting"
  /\ UNCHANGED <<pool, prefetchSize, prefetchCache, curIdx, fetched, idx,
                 sample, gets, threw>>

\* front().get() returns once the task has run; pop it and return the sample.
ReturnSample ==
  /\ reader = "waiting"
  /\ LET t == Head(prefetchCache)
     IN  t # Taken /\ status[t] = "value" /\ sample' = fetched[t]
  /\ prefetchCache' = Tail(prefetchCache)
  /\ curIdx' = idx + 1
  /\ reader' = "idle"
  /\ UNCHANGED <<pool, prefetchSize, fetched, idx, gets, threw>>

\* front().get() throws: what the task threw, or because get was already called
\* on that future.  The future stays in the queue and curIdx_ is not updated.
Throw ==
  /\ reader = "waiting"
  /\ Head(prefetchCache) \in {Taken} \cup {t \in Tasks : status[t] = "exception"}
  /\ prefetchCache' = <<Taken>> \o Tail(prefetchCache)
  /\ reader' = "idle" /\ threw' = TRUE
  /\ UNCHANGED <<pool, prefetchSize, curIdx, fetched, idx, sample, gets>>

\* A step of the pool that is not the reader's.
Work(w) ==
  /\ \/ Pool!Block(w) \/ Pool!Exit(w) \/ Pool!Take(w)
     \/ /\ worker[w] = "running"
        /\ \E r \in Fetch(fetched[job[w]]) : Pool!Finish(w, r)
  /\ UNCHANGED <<prefetchSize, prefetchCache, curIdx, fetched, reader, idx,
                 sample, gets, threw>>

SpuriousWakeup(w) ==
  /\ Pool!SpuriousWakeup(w)
  /\ UNCHANGED <<prefetchSize, prefetchCache, curIdx, fetched, reader, idx,
                 sample, gets, threw>>

\* The destructor: members go in reverse order, so the futures before the pool
\* and the dataset after it.
Destroy ==
  /\ reader = "idle"
  /\ \/ Pool!SetStop /\ prefetchCache' = <<>>
     \/ (Pool!NotifyAll \/ Pool!Join) /\ UNCHANGED prefetchCache
  /\ UNCHANGED <<prefetchSize, curIdx, fetched, reader, idx, sample, gets,
                 threw>>

ReaderStep == Fill \/ Notify \/ Filled \/ ReturnSample \/ Throw

Next ==
  \/ \E i \in Indices : GetDirectly(i) \/ Get(i)
  \/ ReaderStep
  \/ \E w \in Workers : Work(w) \/ SpuriousWakeup(w)
  \/ Destroy

\* Threads that can run do; calls of get of the dataset return.
Fairness == WF_vars(ReaderStep) /\ \A w \in Workers : WF_vars(Work(w))

Spec == Init /\ [][Next]_vars /\ Fairness

------------------------------------------------------------------------------
(* Properties *)

\* The type invariant; the lambdas only ever capture indices within the bounds of
\* the dataset.
TypeOK ==
  /\ Pool!TypeOK
  /\ prefetchSize \in PrefetchSizes \cup {0}
  /\ prefetchCache \in Seq(Tasks \cup {Taken})
  /\ Len(prefetchCache) <= prefetchSize
  /\ curIdx \in Int
  /\ fetched \in [Tasks -> Indices \cup {NoIndex}]
  /\ reader \in {"idle", "filling", "waiting"}
  /\ idx \in Indices \cup {NoIndex} /\ sample \in Indices \cup {NoIndex}
  /\ gets \in 0..MaxGets /\ threw \in BOOLEAN

\* get(idx) returns sample idx of the underlying dataset or throws, in whatever
\* order the indices are asked for and the workers run.
ReturnsRequestedSample ==
  reader = "idle" => sample \in {idx, NoIndex}

\* The same as long as no call of get has thrown.
ReturnsRequestedUntilThrow == ~threw => ReturnsRequestedSample

\* Every call of get comes to an end.
GetReturns == reader = "filling" ~> reader = "idle"
==============================================================================
