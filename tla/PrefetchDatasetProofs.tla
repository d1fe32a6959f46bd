------------------------ MODULE PrefetchDatasetProofs ------------------------
(***************************************************************************)
(* For any size of the dataset, any prefetchSize_ and any number of        *)
(* workers, get returns the sample that was asked for until a call of get  *)
(* throws, and no prefetch outlives the dataset.  The first rests on       *)
(* Ahead, that the futures of the cache are of consecutive samples, which  *)
(* the loops of get keep and an exception breaks; for a task to stay the   *)
(* one its place stands for, no task is enqueued twice.  The second is the *)
(* pool's own invariant: the steps of the dataset are steps of the pool.   *)
(***************************************************************************)
EXTENDS PrefetchDataset, TLAPS

\* prefetchCache_ holds the samples that follow one another from this one on.
Front == IF reader = "idle" THEN curIdx ELSE idx

\* Every future of the cache is of a task that was enqueued, and of the sample
\* that its place in the cache stands for.
Ahead ==
  \A k \in 1..Len(prefetchCache) :
    /\ prefetchCache[k] \in Tasks
    /\ status[prefetchCache[k]] # "new"
    /\ fetched[prefetchCache[k]] = Front + k - 1

\* A call of get that uses the cache; front() is only called on a queue that is
\* not empty.
Serving ==
  /\ reader # "idle" => prefetchSize > 0 /\ idx \in Indices /\ owner = "alive"
  /\ reader = "waiting" => prefetchCache # <<>>

\* What the dataset itself keeps.
CacheInv ==
  TypeOK /\ Serving /\ (~threw => Ahead) /\ ReturnsRequestedUntilThrow

------------------------------------------------------------------------------
(* The cache *)

\* The queue of futures after pop_front, a number of times.
LEMMA Dropped ==
  ASSUME NEW S, NEW s \in Seq(S), NEW n \in 0..Len(s)
  PROVE  /\ SubSeq(s, n + 1, Len(s)) \in Seq(S)
         /\ Len(SubSeq(s, n + 1, Len(s))) = Len(s) - n
         /\ \A k \in 1..(Len(s) - n) :
              SubSeq(s, n + 1, Len(s))[k] = s[k + n] /\ k + n \in 1..Len(s)
OBVIOUS

\* The sizes are natural numbers.
LEMMA Sizes ==
  ASSUME TypeOK
  PROVE  /\ prefetchSize \in Nat /\ Size \in Nat /\ Len(prefetchCache) \in Nat
         /\ gets \in Nat /\ MaxGets \in Nat /\ idx \in Int /\ sample \in Int
BY PrefetchAssumption DEF TypeOK, Indices, NoIndex

\* A call of get that does not use the cache.
LEMMA GetDirectlyStep ==
  ASSUME CacheInv, Pool!TypeOK', NEW i \in Indices, GetDirectly(i)
  PROVE  CacheInv'
<1>1. TypeOK /\ reader = "idle" /\ idx' = i /\ gets' = gets + 1 /\ gets < MaxGets
  BY Zenon DEF CacheInv, GetDirectly, Calls
<1>2. /\ UNCHANGED <<status, owner, prefetchSize, prefetchCache, curIdx, fetched, reader>>
      /\ sample' \in {i, NoIndex} /\ threw' \in BOOLEAN /\ (~threw' => ~threw)
  BY <1>1, Zenon DEF GetDirectly, pool, TypeOK
<1>3. TypeOK'
  BY <1>1, <1>2, Sizes DEF TypeOK
<1>4. Serving'
  BY <1>1, <1>2, Zenon DEF CacheInv, Serving
<1>5. ~threw' => Ahead'
  BY <1>1, <1>2, Zenon DEF CacheInv, Ahead, Front
<1>6. ReturnsRequestedUntilThrow'
  BY <1>1, <1>2, Zenon DEF ReturnsRequestedUntilThrow, ReturnsRequestedSample
<1> QED
  BY <1>3, <1>4, <1>5, <1>6, Zenon DEF CacheInv

\* The first loop of get: the front of what is left is of the sample asked for.
LEMMA GetStep ==
  ASSUME CacheInv, Pool!TypeOK', NEW i \in Indices, Get(i)
  PROVE  CacheInv'
<1>1. /\ TypeOK /\ reader = "idle" /\ owner = "alive" /\ gets < MaxGets
      /\ prefetchSize > 0 /\ idx' = i /\ gets' = gets + 1
      /\ reader' = "filling" /\ sample' = NoIndex
      /\ UNCHANGED <<status, owner, prefetchSize, fetched, threw>>
  BY Zenon DEF CacheInv, Get, Calls, pool
<1>2. PICK n \in 0..Len(prefetchCache) : Evict(i, n)
  BY Zenon DEF Get
<1>3. /\ prefetchCache \in Seq(Tasks \cup {Taken}) /\ curIdx \in Int /\ i \in Int
      /\ Len(prefetchCache) \in Nat
  BY <1>1 DEF TypeOK, Indices
<1>4. /\ prefetchCache' \in Seq(Tasks \cup {Taken})
      /\ Len(prefetchCache') = Len(prefetchCache) - n
      /\ \A k \in 1..Len(prefetchCache') :
           prefetchCache'[k] = prefetchCache[k + n] /\ k + n \in 1..Len(prefetchCache)
      /\ curIdx' = curIdx + n
  <2> DEFINE rest == SubSeq(prefetchCache, n + 1, Len(prefetchCache))
  <2>1. /\ rest \in Seq(Tasks \cup {Taken}) /\ Len(rest) = Len(prefetchCache) - n
        /\ \A k \in 1..(Len(prefetchCache) - n) :
             rest[k] = prefetchCache[k + n] /\ k + n \in 1..Len(prefetchCache)
    BY <1>3, Dropped, Zenon
  <2>2. prefetchCache' = rest /\ curIdx' = curIdx + n
    BY <1>2, Zenon DEF Evict
  <2> HIDE DEF rest
  <2> QED
    BY <2>1, <2>2, Zenon
<1>5. TypeOK'
  BY <1>1, <1>3, <1>4, Sizes DEF TypeOK
<1>6. Serving'
  BY <1>1, Zenon DEF Serving
<1>7. ASSUME ~threw PROVE Ahead'
  <2>1. Ahead /\ Front = curIdx /\ Front' = i
    BY <1>1, <1>7, Zenon DEF CacheInv, Front
  <2>2. CASE n = Len(prefetchCache)
    BY <1>3, <1>4, <2>2 DEF Ahead
  <2>3. CASE n = i - curIdx
    <3>1. \A k \in 1..Len(prefetchCache') : Front + (k + n) - 1 = Front' + k - 1
      BY <1>3, <1>4, <2>1, <2>3
    <3> QED
      BY <1>1, <1>4, <2>1, <3>1, Zenon DEF Ahead
  <2> QED
    BY <1>2, <2>2, <2>3, Zenon DEF Evict
<1>8. ReturnsRequestedUntilThrow'
  BY <1>1, Zenon DEF ReturnsRequestedUntilThrow, ReturnsRequestedSample
<1> QED
  BY <1>1, <1>5, <1>6, <1>7, <1>8, Zenon DEF CacheInv

\* The second loop: what is enqueued is the sample that follows the cached ones, and
\* its task is not one of theirs.
LEMMA FillStep ==
  ASSUME CacheInv, Pool!TypeOK', Fill, \A u \in Tasks : status[u] # "new" => status'[u] # "new"
  PROVE  CacheInv'
<1> DEFINE len == Len(prefetchCache)
<1>1. /\ TypeOK /\ reader = "filling" /\ MustFill /\ owner' = owner
      /\ UNCHANGED <<prefetchSize, curIdx, reader, idx, sample, gets, threw>>
  BY Zenon DEF CacheInv, Fill, Pool!enqueue
<1>2. PICK t \in Tasks :
        /\ Pool!enqueue(Reader, t) /\ prefetchCache' = Append(prefetchCache, t)
        /\ fetched' = [fetched EXCEPT ![t] = idx + len]
  BY Zenon DEF Fill
<1>3. status[t] = "new" /\ status'[t] # "new"
  BY <1>1, <1>2, Zenon DEF Pool!enqueue, TypeOK, Pool!TypeOK
<1>4. /\ prefetchCache \in Seq(Tasks \cup {Taken}) /\ len \in Nat /\ idx \in Nat
      /\ idx + len \in Indices /\ len < prefetchSize /\ prefetchSize \in Nat
  BY <1>1, Sizes DEF TypeOK, CacheInv, Serving, Indices, MustFill
<1>5. /\ prefetchCache' \in Seq(Tasks \cup {Taken}) /\ Len(prefetchCache') = len + 1
      /\ prefetchCache'[len + 1] = t
      /\ \A k \in 1..len : prefetchCache'[k] = prefetchCache[k]
  BY <1>2, <1>4
<1>6. fetched'[t] = idx + len /\ \A u \in Tasks : u # t => fetched'[u] = fetched[u]
  BY <1>1, <1>2, Zenon DEF TypeOK
<1>7. TypeOK'
  <2>1. fetched' \in [Tasks -> Indices \cup {NoIndex}]
    BY <1>1, <1>2, <1>4, Zenon DEF TypeOK
  <2> QED
    BY <1>1, <1>4, <1>5, <2>1 DEF TypeOK
<1>8. Serving'
  BY <1>1, Zenon DEF CacheInv, Serving
<1>9. ASSUME ~threw PROVE Ahead'
  <2>1. Ahead /\ Front = idx /\ Front' = idx
    BY <1>1, <1>9, Zenon DEF CacheInv, Front
  <2>2. ASSUME NEW k \in 1..len
        PROVE  /\ prefetchCache'[k] \in Tasks /\ status'[prefetchCache'[k]] # "new"
               /\ fetched'[prefetchCache'[k]] = Front' + k - 1
    BY <1>3, <1>5, <1>6, <2>1 DEF Ahead
  <2>3. fetched'[prefetchCache'[len + 1]] = Front' + (len + 1) - 1
    BY <1>4, <1>5, <1>6, <2>1
  <2> HIDE DEF len
  <2>4. \A k \in 1..(len + 1) : k \in 1..len \/ k = len + 1
    BY <1>4
  <2> QED
    BY <1>3, <1>5, <2>2, <2>3, <2>4, Zenon DEF Ahead
<1>10. ReturnsRequestedUntilThrow'
  BY <1>1, Zenon DEF ReturnsRequestedUntilThrow, ReturnsRequestedSample
<1> QED
  BY <1>1, <1>7, <1>8, <1>9, <1>10, Zenon DEF CacheInv

\* The loop ends with a future in the queue: its bounds are not empty.
LEMMA FilledStep ==
  ASSUME CacheInv, Pool!TypeOK', Filled
  PROVE  CacheInv'
<1>1. /\ TypeOK /\ reader = "filling" /\ ~MustFill /\ reader' = "waiting"
      /\ UNCHANGED <<status, owner, prefetchSize, prefetchCache, curIdx, fetched, idx,
                     sample, gets, threw>>
  BY Zenon DEF CacheInv, Filled, pool
<1>2. prefetchCache # <<>>
  <2>1. prefetchSize > 0 /\ idx \in Indices /\ prefetchSize \in Nat /\ Size \in Nat
    BY <1>1, Sizes, Zenon DEF CacheInv, Serving
  <2> QED
    BY <1>1, <2>1 DEF MustFill, Indices
<1>3. TypeOK'
  BY <1>1, Zenon DEF TypeOK
<1>4. Serving'
  BY <1>1, <1>2, Zenon DEF CacheInv, Serving
<1>5. ~threw => Ahead'
  BY <1>1, Zenon DEF CacheInv, Ahead, Front
<1>6. ReturnsRequestedUntilThrow'
  BY <1>1, Zenon DEF ReturnsRequestedUntilThrow, ReturnsRequestedSample
<1> QED
  BY <1>1, <1>3, <1>4, <1>5, <1>6, Zenon DEF CacheInv

\* The front of a cache that is not empty, and the rest.
LEMMA FrontAndRest ==
  ASSUME NEW S, NEW s \in Seq(S), s # <<>>
  PROVE  /\ Head(s) = s[1] /\ Head(s) \in S /\ Len(s) \in Nat /\ Len(s) >= 1
         /\ Tail(s) \in Seq(S) /\ Len(Tail(s)) = Len(s) - 1
         /\ \A k \in 1..(Len(s) - 1) : Tail(s)[k] = s[k + 1] /\ k + 1 \in 1..Len(s)
OBVIOUS

\* get returns the sample of the front future, which is the one asked for.
LEMMA ReturnSampleStep ==
  ASSUME CacheInv, Pool!TypeOK', ReturnSample
  PROVE  CacheInv'
<1> DEFINE t == Head(prefetchCache)
<1>1. /\ TypeOK /\ reader = "waiting" /\ t # Taken /\ sample' = fetched[t]
      /\ prefetchCache' = Tail(prefetchCache) /\ curIdx' = idx + 1 /\ reader' = "idle"
      /\ UNCHANGED <<status, owner, prefetchSize, fetched, idx, gets, threw>>
  BY Zenon DEF CacheInv, ReturnSample, pool
<1>2. prefetchCache \in Seq(Tasks \cup {Taken}) /\ prefetchCache # <<>> /\ idx \in Int
  BY <1>1, Sizes, Zenon DEF CacheInv, Serving, TypeOK
<1>3. /\ t = prefetchCache[1] /\ t \in Tasks \cup {Taken}
      /\ Len(prefetchCache) \in Nat /\ Len(prefetchCache) >= 1
      /\ prefetchCache' \in Seq(Tasks \cup {Taken})
      /\ Len(prefetchCache') = Len(prefetchCache) - 1
      /\ \A k \in 1..Len(prefetchCache') :
           prefetchCache'[k] = prefetchCache[k + 1] /\ k + 1 \in 1..Len(prefetchCache)
  BY <1>1, <1>2, FrontAndRest, Zenon
<1> HIDE DEF t
<1>4. TypeOK'
  <2>1. sample' \in Indices \cup {NoIndex}
    BY <1>1, <1>3, Zenon DEF TypeOK
  <2>2. Len(prefetchCache') <= prefetchSize
    BY <1>1, <1>3, Sizes DEF TypeOK
  <2> QED
    BY <1>1, <1>2, <1>3, <2>1, <2>2 DEF TypeOK
<1>5. Serving'
  BY <1>1, Zenon DEF Serving
<1>6. ASSUME ~threw PROVE Ahead' /\ sample' = idx
  <2>1. Ahead /\ Front = idx /\ Front' = idx + 1
    BY <1>1, <1>6, Zenon DEF CacheInv, Front
  <2>2. Ahead'
    <3>1. \A k \in 1..Len(prefetchCache') : Front + (k + 1) - 1 = Front' + k - 1
      BY <1>2, <2>1
    <3> QED
      BY <1>1, <1>3, <2>1, <3>1 DEF Ahead
  <2>3. sample' = idx
    BY <1>1, <1>2, <1>3, <2>1 DEF Ahead
  <2> QED
    BY <2>2, <2>3, Zenon
<1>7. ReturnsRequestedUntilThrow'
  BY <1>1, <1>6, Zenon DEF ReturnsRequestedUntilThrow, ReturnsRequestedSample
<1> QED
  BY <1>1, <1>4, <1>5, <1>6, <1>7, Zenon DEF CacheInv

\* get throws: from then on only the types are known.
LEMMA ThrowStep ==
  ASSUME CacheInv, Pool!TypeOK', Throw
  PROVE  CacheInv'
<1>1. /\ TypeOK /\ reader = "waiting" /\ threw' = TRUE /\ reader' = "idle"
      /\ prefetchCache' = <<Taken>> \o Tail(prefetchCache)
      /\ UNCHANGED <<owner, prefetchSize, curIdx, fetched, idx, sample, gets>>
  BY Zenon DEF CacheInv, Throw, pool
<1>2. prefetchCache \in Seq(Tasks \cup {Taken}) /\ prefetchCache # <<>>
  BY <1>1, Zenon DEF CacheInv, Serving, TypeOK
<1>3. /\ prefetchCache' \in Seq(Tasks \cup {Taken})
      /\ Len(prefetchCache') = Len(prefetchCache)
  BY <1>1, <1>2, FrontAndRest
<1>4. TypeOK'
  BY <1>1, <1>3, Zenon DEF TypeOK
<1> QED
  BY <1>1, <1>4, Zenon DEF CacheInv, Serving, ReturnsRequestedUntilThrow

\* A step of other threads, or of the destructor, which first drops every future.
LEMMA OtherStep ==
  ASSUME CacheInv, Pool!TypeOK', \A u \in Tasks : status[u] # "new" => status'[u] # "new",
         UNCHANGED <<prefetchSize, curIdx, fetched, reader, idx, sample, gets, threw>>,
         \/ UNCHANGED <<owner, prefetchCache>>
         \/ reader = "idle" /\ prefetchCache' \in {<<>>, prefetchCache}
  PROVE  CacheInv'
<1>1. TypeOK /\ prefetchCache' \in {<<>>, prefetchCache}
  BY Zenon DEF CacheInv
<1>2. TypeOK'
  <2>1. prefetchCache' \in Seq(Tasks \cup {Taken}) /\ Len(prefetchCache') <= prefetchSize
    <3>1. /\ prefetchSize \in Nat /\ prefetchCache \in Seq(Tasks \cup {Taken})
          /\ Len(prefetchCache) <= prefetchSize
      BY <1>1, Sizes, Zenon DEF TypeOK
    <3>2. CASE prefetchCache' = prefetchCache
      BY <3>1, <3>2, Zenon
    <3>3. CASE prefetchCache' = <<>>
      BY <3>1, <3>3
    <3> QED
      BY <1>1, <3>2, <3>3, Zenon
  <2> QED
    BY <1>1, <2>1, Zenon DEF TypeOK
<1>3. Serving'
  BY Zenon DEF CacheInv, Serving
<1>4. ~threw => Ahead'
  BY <1>1 DEF CacheInv, Ahead, Front
<1>5. ReturnsRequestedUntilThrow'
  BY Zenon DEF CacheInv, ReturnsRequestedUntilThrow, ReturnsRequestedSample
<1> QED
  BY <1>2, <1>3, <1>4, <1>5, Zenon DEF CacheInv

\* A task that was enqueued stays so.
LEMMA StaysEnqueued ==
  ASSUME CacheInv, Next, NEW t \in Tasks, status[t] # "new"
  PROVE  status'[t] # "new"
<1>1. /\ status \in [Tasks -> {"new", "queued", "running", "rejected"} \cup Pool!Outcomes]
      /\ tasks \in Seq(Tasks)
  BY Zenon DEF CacheInv, TypeOK, Pool!TypeOK
<1>2. CASE UNCHANGED status
  BY <1>2, Zenon
<1>3. CASE Fill
  BY <1>1, <1>3, Zenon DEF Fill, Pool!enqueue
<1>4. ASSUME NEW w \in Workers, Pool!Take(w) PROVE status'[t] # "new"
  BY <1>1, <1>4, Zenon DEF Pool!Take
<1>5. ASSUME NEW w \in Workers, NEW r \in Fetch(fetched[job[w]]), Pool!Finish(w, r)
      PROVE  status'[t] # "new"
  <2>1. r # "new"
    BY Zenon DEF Fetch
  <2> QED
    BY <1>1, <1>5, <2>1, Zenon DEF Pool!Finish
<1>6. ASSUME NEW i \in Indices, GetDirectly(i) \/ Get(i) PROVE UNCHANGED status
  BY <1>6, Zenon DEF GetDirectly, Get, pool
<1>7. CASE Notify \/ Filled \/ ReturnSample \/ Throw \/ Destroy
  BY <1>2, <1>7, Zenon DEF Notify, Filled, ReturnSample, Throw, Destroy, pool, Pool!NotifyOne,
                    Pool!SetStop, Pool!NotifyAll, Pool!Join
<1>8. ASSUME NEW w \in Workers, Work(w) \/ SpuriousWakeup(w) PROVE status'[t] # "new"
  BY <1>2, <1>4, <1>5, <1>8, Zenon DEF Work, SpuriousWakeup, Pool!Block, Pool!Exit, Pool!SpuriousWakeup
<1> QED
  BY <1>2, <1>3, <1>6, <1>7, <1>8, Zenon DEF Next, ReaderStep

\* Every step keeps the invariant of the cache, if the pool keeps its types.
LEMMA CacheStep ==
  ASSUME CacheInv, Pool!TypeOK', Next
  PROVE  CacheInv'
<1>2. \A u \in Tasks : status[u] # "new" => status'[u] # "new"
  BY StaysEnqueued, Zenon
<1>3. ASSUME NEW i \in Indices, GetDirectly(i) \/ Get(i) PROVE CacheInv'
  BY <1>3, GetDirectlyStep, GetStep, Zenon
<1>4. CASE Fill \/ Filled \/ ReturnSample \/ Throw
  BY <1>2, <1>4, FillStep, FilledStep, ReturnSampleStep, ThrowStep, Zenon
<1>5. CASE Notify
  <2>1. /\ UNCHANGED <<prefetchSize, curIdx, fetched, reader, idx, sample, gets, threw>>
        /\ UNCHANGED <<owner, prefetchCache>>
    BY <1>5, Zenon DEF Notify, Pool!NotifyOne
  <2> QED
    BY <1>2, <2>1, OtherStep, Zenon
<1>6. ASSUME NEW w \in Workers, Work(w) \/ SpuriousWakeup(w) PROVE CacheInv'
  <2>1. /\ UNCHANGED <<prefetchSize, curIdx, fetched, reader, idx, sample, gets, threw>>
        /\ UNCHANGED <<owner, prefetchCache>>
    BY <1>6, Zenon DEF Work, SpuriousWakeup, Pool!Block, Pool!Exit, Pool!Take, Pool!Finish,
                Pool!SpuriousWakeup
  <2> QED
    BY <1>2, <2>1, OtherStep, Zenon
<1>7. CASE Destroy
  <2>1. /\ UNCHANGED <<prefetchSize, curIdx, fetched, reader, idx, sample, gets, threw>>
        /\ reader = "idle" /\ prefetchCache' \in {<<>>, prefetchCache}
    BY <1>7, Zenon DEF Destroy
  <2> QED
    BY <1>2, <2>1, OtherStep, Zenon
<1> QED
  BY <1>3, <1>4, <1>5, <1>6, <1>7, Zenon DEF Next, ReaderStep

\* Nothing happens.
LEMMA CacheStutters ==
  ASSUME CacheInv, UNCHANGED vars
  PROVE  CacheInv'
<1>1. UNCHANGED <<pool, prefetchSize, prefetchCache, curIdx, fetched, reader, idx, sample,
                  gets, threw>>
  BY Zenon DEF vars
<1>2. TypeOK'
  BY <1>1 DEF CacheInv, TypeOK, Pool!TypeOK, Pool!Running, pool
<1>3. Serving' /\ (~threw' => Ahead') /\ ReturnsRequestedUntilThrow'
  BY <1>1, Zenon DEF CacheInv, Serving, Ahead, Front, ReturnsRequestedUntilThrow,
              ReturnsRequestedSample, pool
<1> QED
  BY <1>2, <1>3, Zenon DEF CacheInv

\* The constructor.
LEMMA CacheStarts ==
  ASSUME Init, Pool!TypeOK
  PROVE  CacheInv
<1>2. TypeOK
  <2>1. prefetchSize \in PrefetchSizes \cup {0} /\ prefetchSize \in Nat
    <3>1. prefetchSize = 0 \/ prefetchSize \in PrefetchSizes
      BY Zenon DEF Init
    <3>2. \A n \in PrefetchSizes : n \in Nat
      BY PrefetchAssumption, Zenon
    <3>3. prefetchSize \in Nat
      BY <3>1, <3>2
    <3>4. prefetchSize \in PrefetchSizes \cup {0}
      BY <3>1, Zenon
    <3> QED
      BY <3>3, <3>4, Zenon
  <2>2. prefetchCache \in Seq(Tasks \cup {Taken}) /\ Len(prefetchCache) = 0
    BY DEF Init
  <2>3. gets \in 0..MaxGets
    BY PrefetchAssumption DEF Init
  <2>4. /\ curIdx = NoIndex /\ fetched = [t \in Tasks |-> NoIndex] /\ reader = "idle"
        /\ idx = NoIndex /\ sample = NoIndex /\ threw = FALSE /\ NoIndex \in Int
    BY DEF Init, NoIndex
  <2>5. fetched \in [Tasks -> Indices \cup {NoIndex}]
    BY <2>4, Zenon
  <2>6. Len(prefetchCache) <= prefetchSize
    BY <2>1, <2>2
  <2>7. curIdx \in Int
    BY <2>4, Zenon
  <2> QED
    BY <2>1, <2>2, <2>3, <2>4, <2>5, <2>6, <2>7, Zenon DEF TypeOK
<1>3. Serving /\ Ahead /\ ReturnsRequestedUntilThrow
  BY DEF Init, Serving, Ahead, ReturnsRequestedUntilThrow, ReturnsRequestedSample
<1> QED
  BY <1>2, <1>3, Zenon DEF CacheInv

------------------------------------------------------------------------------
(* The pool *)

\* The pool of a dataset without threads is never used.
NoThreads ==
  /\ tasks = <<>> /\ notifying = {} /\ prefetchCache = <<>>
  /\ \A w \in Workers : worker[w] = "exited"
  /\ \A t \in Tasks : status[t] = "new"
  /\ stop <=> owner # "alive"

\* The number of threads is chosen by the constructor.
LEMMA SameSize == ASSUME Next PROVE prefetchSize' = prefetchSize
BY Zenon DEF Next, ReaderStep, GetDirectly, Get, Fill, Notify, Filled, ReturnSample, Throw, Work,
       SpuriousWakeup, Destroy

\* Without threads only direct calls and the destructor are possible.
LEMMA UnusedPool ==
  ASSUME CacheInv, NoThreads, prefetchSize = 0, Next
  PROVE  \/ (\E i \in Indices : GetDirectly(i)) /\ UNCHANGED <<pool, prefetchCache>>
         \/ Destroy
<1>1. NoThreads /\ reader = "idle"
  BY DEF CacheInv, Serving
<1>2. \A i \in Indices : ~Get(i)
  BY DEF Get
<1>3. ~ReaderStep
  BY <1>1, Zenon DEF NoThreads, ReaderStep, Fill, Notify, Filled, ReturnSample, Throw, Pool!NotifyOne
<1>4. \A w \in Workers : ~Work(w) /\ ~SpuriousWakeup(w)
  BY <1>1, Zenon DEF NoThreads, Work, SpuriousWakeup, Pool!Block, Pool!Exit, Pool!Take,
              Pool!SpuriousWakeup
<1>5. \A i \in Indices : GetDirectly(i) => UNCHANGED <<pool, prefetchCache>>
  BY Zenon DEF GetDirectly
<1> QED
  BY <1>2, <1>3, <1>4, <1>5, Zenon DEF Next

\* The pool stays unused.
LEMMA UnusedPoolStep ==
  ASSUME CacheInv, NoThreads, prefetchSize = 0, Next
  PROVE  NoThreads' /\ Pool!TypeOK'
<1>1. NoThreads /\ Pool!TypeOK
  BY Zenon DEF CacheInv, TypeOK
<1>2. CASE UNCHANGED <<pool, prefetchCache>>
  <2>1. NoThreads'
    BY <1>1, <1>2, Zenon DEF NoThreads, pool
  <2>2. Pool!TypeOK'
    BY <1>1, <1>2, Zenon DEF Pool!TypeOK, pool, Pool!Running
  <2> QED
    BY <2>1, <2>2, Zenon
<1>3. CASE Destroy
  <2>1. \A w \in Workers : worker[w] = "exited" /\ worker'[w] = "exited"
    BY <1>1, <1>3, Zenon DEF NoThreads, Destroy, Pool!SetStop, Pool!NotifyAll, Pool!Join
  <2>2. /\ UNCHANGED <<tasks, job, status, notifying>>
        /\ prefetchCache' \in {<<>>, prefetchCache}
        /\ stop' \in BOOLEAN /\ (stop' <=> owner' # "alive")
        /\ owner' \in {"alive", "stopped", "joining", "gone"}
    BY <1>1, <1>3, Zenon DEF NoThreads, Destroy, Pool!SetStop, Pool!NotifyAll, Pool!Join, Pool!TypeOK
  <2>3. NoThreads'
    BY <1>1, <2>1, <2>2, Zenon DEF NoThreads
  <2>4. worker' \in [Workers -> {"loop", "waiting", "running", "exited"}]
    BY <1>1, <1>3 DEF Destroy, Pool!SetStop, Pool!NotifyAll, Pool!Join, Pool!TypeOK
  <2>5. Pool!TypeOK'
    BY <1>1, <2>1, <2>2, <2>4, Zenon DEF Pool!TypeOK, NoThreads
  <2> QED
    BY <2>3, <2>5
<1> QED
  BY <1>2, <1>3, UnusedPool, Zenon

PoolProofs == INSTANCE ThreadPoolProofs WITH Clients <- {Reader}, NoTask <- 0

\* The pool is as its own invariant says, or unused.
Threads == IF prefetchSize = 0 THEN NoThreads ELSE PoolProofs!Inv

IInv == CacheInv /\ Threads

\* The threads and the tasks of the dataset are ones the pool may be used with.
LEMMA PoolAssumptionHolds == PoolProofs!PoolAssumption
<1>1. PoolProofs!IsFiniteSet({Reader})
  <2> SUFFICES \E seq \in Seq({Reader}) :
                 \A s \in {Reader} : \E n \in 1..Len(seq) : seq[n] = s
    BY DEF PoolProofs!IsFiniteSet
  <2> DEFINE one == <<Reader>>
  <2>1. one \in Seq({Reader}) /\ 1 \in 1..Len(one) /\ one[1] = Reader
    OBVIOUS
  <2> HIDE DEF one
  <2>2. \A s \in {Reader} : \E n \in 1..Len(one) : one[n] = s
    BY <2>1
  <2> QED
    BY <2>1, <2>2
<1>2. 0 \notin Tasks
  BY DEF Tasks
<1>3. {Reader} \cap Workers = {}
  BY PrefetchAssumption
<1> QED
  BY <1>1, <1>2, <1>3, PrefetchAssumption, Zenon
  DEF PoolProofs!PoolAssumption, PoolProofs!IsFiniteSet, IsFiniteSet

\* What the pool's own proof says, of the pool of the dataset.
LEMMA PoolStep ==
  ASSUME PoolProofs!Inv, PoolProofs!Next \/ UNCHANGED pool
  PROVE  PoolProofs!Inv'
BY PoolAssumptionHolds, PoolProofs!NextInv DEF pool, PoolProofs!vars

LEMMA PoolTypes ==
  ASSUME PoolProofs!Inv
  PROVE  Pool!TypeOK
BY DEF PoolProofs!Inv, PoolProofs!TaskInv, PoolProofs!TypeOK, Pool!TypeOK,
       PoolProofs!Running, Pool!Running,
       PoolProofs!Outcomes, Pool!Outcomes

\* A fetch stores a value or an exception.
LEMMA FetchOutcomes == ASSUME NEW i PROVE Fetch(i) \subseteq PoolProofs!Outcomes
BY DEF Fetch, PoolProofs!Outcomes

\* The dataset uses its pool as the pool's specification allows: it enqueues only
\* before its destructor runs, and from one thread.
LEMMA UsesPool ==
  ASSUME IInv, Next
  PROVE  PoolProofs!Next \/ UNCHANGED pool
<1>1. ASSUME NEW i \in Indices, GetDirectly(i) \/ Get(i) PROVE UNCHANGED pool
  BY <1>1 DEF GetDirectly, Get
<1>2. CASE Fill
  <2>1. PICK t \in Tasks : Pool!enqueue(Reader, t)
    BY <1>2 DEF Fill
  <2>2. owner = "alive"
    BY <1>2 DEF Fill, IInv, CacheInv, Serving
  <2>3. PoolProofs!enqueue(Reader, t)
    BY <2>1 DEF Pool!enqueue, PoolProofs!enqueue
  <2> QED
    BY <2>2, <2>3 DEF PoolProofs!Next
<1>3. CASE Notify
  <2>1. PoolProofs!NotifyOne(Reader)
    BY <1>3 DEF Notify, Pool!NotifyOne, PoolProofs!NotifyOne, Pool!Waiting, PoolProofs!Waiting
  <2> QED
    BY <2>1 DEF PoolProofs!Next
<1>4. CASE Filled \/ ReturnSample \/ Throw
  BY <1>4 DEF Filled, ReturnSample, Throw
<1>5. ASSUME NEW w \in Workers, Work(w) PROVE PoolProofs!Next
  <2>1. CASE Pool!Block(w)
    BY <2>1, Zenon DEF Pool!Block, PoolProofs!Block, PoolProofs!WorkerStep, PoolProofs!Next
  <2>2. CASE Pool!Exit(w)
    BY <2>2, Zenon DEF Pool!Exit, PoolProofs!Exit, PoolProofs!WorkerStep, PoolProofs!Next
  <2>3. CASE Pool!Take(w)
    BY <2>3, Zenon DEF Pool!Take, PoolProofs!Take, PoolProofs!WorkerStep, PoolProofs!Next
  <2>4. ASSUME NEW r \in Fetch(fetched[job[w]]), Pool!Finish(w, r) PROVE PoolProofs!Next
    <3>1. r \in PoolProofs!Outcomes
      BY FetchOutcomes
    <3>2. PoolProofs!Finish(w, r)
      BY <2>4 DEF Pool!Finish, PoolProofs!Finish
    <3> QED
      BY <3>1, <3>2 DEF PoolProofs!WorkerStep, PoolProofs!Next
  <2> QED
    BY <1>5, <2>1, <2>2, <2>3, <2>4 DEF Work
<1>6. ASSUME NEW w \in Workers, SpuriousWakeup(w) PROVE PoolProofs!Next
  BY <1>6, Zenon DEF SpuriousWakeup, Pool!SpuriousWakeup, PoolProofs!SpuriousWakeup, PoolProofs!Next
<1>7. CASE Destroy
  <2>1. PoolProofs!SetStop \/ PoolProofs!NotifyAll \/ PoolProofs!Join
    BY <1>7 DEF Destroy, Pool!SetStop, PoolProofs!SetStop, Pool!NotifyAll,
                PoolProofs!NotifyAll, Pool!Join, PoolProofs!Join
  <2> QED
    BY <2>1 DEF PoolProofs!Destroy, PoolProofs!Next
<1> QED
  BY <1>1, <1>2, <1>3, <1>4, <1>5, <1>6, <1>7 DEF Next, ReaderStep

\* Every step keeps the invariant of the pool.
LEMMA ThreadsStep ==
  ASSUME IInv, Next
  PROVE  Threads' /\ Pool!TypeOK'
<1>1. prefetchSize' = prefetchSize
  BY SameSize
<1>2. CASE prefetchSize # 0
  <2>1. PoolProofs!Inv'
    BY <1>2, PoolStep, UsesPool DEF IInv, Threads
  <2>2. Pool!TypeOK'
    BY <2>1, PoolTypes, PTL
  <2> QED
    BY <1>1, <1>2, <2>1, <2>2 DEF Threads
<1>3. CASE prefetchSize = 0
  <2>1. NoThreads' /\ Pool!TypeOK'
    BY <1>3, UnusedPoolStep DEF IInv, Threads
  <2> QED
    BY <1>1, <1>3, <2>1 DEF Threads
<1> QED
  BY <1>2, <1>3

------------------------------------------------------------------------------
(* Theorems *)

\* The constructor, with threads or without.
LEMMA InitIInv == Init => IInv
<1> SUFFICES ASSUME Init PROVE IInv
  BY Zenon
<1>1. Threads /\ Pool!TypeOK
  <2>1. CASE prefetchSize \in PrefetchSizes /\ Pool!ThreadPool(Workers)
    <3>1. PoolProofs!Init
      BY <2>1 DEF Pool!ThreadPool, PoolProofs!ThreadPool, PoolProofs!Init
    <3>2. PoolProofs!Inv
      BY <3>1, PoolAssumptionHolds, PoolProofs!InitInv
    <3> QED
      BY <2>1, <3>2, PoolTypes, PrefetchAssumption DEF Threads
  <2>2. CASE prefetchSize = 0 /\ Pool!ThreadPool({})
    <3>1. /\ tasks = <<>> /\ stop = FALSE /\ notifying = {} /\ owner = "alive"
          /\ worker = [w \in Workers |-> "exited"] /\ job = [w \in Workers |-> 0]
          /\ status = [t \in Tasks |-> "new"]
      BY <2>2 DEF Pool!ThreadPool
    <3>2. NoThreads
      BY <3>1 DEF NoThreads, Init
    <3>3. tasks \in Seq(Tasks)
      BY <3>1
    <3>4. Pool!TypeOK
      BY <3>1, <3>3, Zenon DEF Pool!TypeOK
    <3> QED
      BY <2>2, <3>2, <3>4 DEF Threads
  <2> QED
    BY <2>1, <2>2 DEF Init
<1> QED
  BY <1>1, CacheStarts DEF IInv

\* Every step keeps the invariant.
LEMMA NextIInv == IInv /\ [Next]_vars => IInv'
<1> SUFFICES ASSUME IInv, [Next]_vars PROVE IInv'
  OBVIOUS
<1>1. CASE Next
  BY <1>1, ThreadsStep, CacheStep DEF IInv
<1>2. CASE UNCHANGED vars
  <2>1. UNCHANGED <<pool, prefetchSize, prefetchCache>>
    BY <1>2 DEF vars
  <2>2. Threads'
    <3>1. CASE prefetchSize = 0
      BY <2>1, <3>1 DEF IInv, Threads, NoThreads, pool
    <3>2. CASE prefetchSize # 0
      BY <2>1, <3>2, PoolStep DEF IInv, Threads
    <3> QED
      BY <3>1, <3>2
  <2> QED
    BY <1>2, <2>2, CacheStutters DEF IInv
<1> QED
  BY <1>1, <1>2

\* Whatever indices are asked for, whatever prefetchSize_ is and however the workers run,
\* get(idx) returns sample idx until a call of get has thrown; the cache never outgrows
\* prefetchSize_ and no lambda captures an index outside the dataset.
THEOREM PrefetchReturnsRequested == Spec => [](TypeOK /\ ReturnsRequestedUntilThrow)
<1>1. IInv => TypeOK /\ ReturnsRequestedUntilThrow
  BY Zenon DEF IInv, CacheInv
<1> QED
  BY InitIInv, NextIInv, <1>1, PTL DEF Spec

\* When the destructor has joined the pool, no task that get enqueued is left: each has
\* stored its sample or its exception, and none touches the dataset, which is destroyed
\* after the pool.
THEOREM PrefetchedBeforeDestroyed == Spec => []Pool!DestroyedMeansDrained
<1>1. IInv => Pool!DestroyedMeansDrained
  <2> SUFFICES ASSUME IInv, owner = "gone", NEW t \in Tasks
               PROVE  status[t] \in {"new", "rejected"} \cup Pool!Outcomes
    BY Zenon DEF Pool!DestroyedMeansDrained
  <2>1. CASE prefetchSize = 0
    BY <2>1 DEF IInv, Threads, NoThreads
  <2>2. CASE prefetchSize # 0
    <3>1. PoolProofs!Inv
      BY <2>2 DEF IInv, Threads
    <3>2. PoolProofs!Running = {} /\ tasks = <<>>
      BY <3>1, PrefetchAssumption
      DEF PoolProofs!Inv, PoolProofs!Stopping, PoolProofs!Drained, PoolProofs!Running
    <3>3. status[t] # "queued" /\ status[t] # "running"
      BY <3>1, <3>2
      DEF PoolProofs!Inv, PoolProofs!TaskInv, PoolProofs!EachTaskOnce,
          PoolProofs!RunningIsRun
    <3> QED
      BY <3>3 DEF IInv, CacheInv, TypeOK, Pool!TypeOK
  <2> QED
    BY <2>1, <2>2
<1> QED
  BY InitIInv, NextIInv, <1>1, PTL DEF Spec
==============================================================================
