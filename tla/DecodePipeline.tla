--------------------------- MODULE DecodePipeline ---------------------------
(***************************************************************************)
(* The threads of the beam-search decoder app/asr/Decode.cpp: the main     *)
(* thread starts tasks on a ThreadPool, some of which run the acoustic     *)
(* model and add emissions to a ProducerConsumerQueue that the others      *)
(* decode.  With a ConvLM the two kinds run one after the other, each on a *)
(* pool of its own.                                                        *)
(*                                                                         *)
(* A task is its index in the vector of futures: those below nAmThreads    *)
(* run runAmForward, the others runDecoder.                                *)
(***************************************************************************)
EXTENDS Integers, Sequences, FiniteSets

CONSTANTS nAmThreads, nDecoderThreads,
          emission_queue_size,
          Samples,            \* sizes of the dataset, without a ConvLM
          SamplesConvLM,      \* and with one
          MayThrow,           \* tasks in which a forward pass or a decode may
          MayThrowConvLM,     \* throw, without and with a ConvLM
          MaxSamples          \* the largest of the sizes

ASSUME PipelineAssumption ==
  /\ nAmThreads \in Nat \ {0} /\ nDecoderThreads \in Nat \ {0}
  /\ emission_queue_size \in Nat \ {0} /\ MaxSamples \in Nat
  /\ Samples \subseteq 0..MaxSamples /\ SamplesConvLM \subseteq 0..MaxSamples

VARIABLES tasks, stop, worker, job, status, notifying, owner, \* the ThreadPool
          queue, isAddingFinished, producerWait, producerReady, consumerWait,
          consumerReady, sent, received, resets,   \* the queue
          convlm,          \* FLAGS_lmtype == "convlm"
          nSamples,        \* size of the dataset
          sliceNumSamples, \* per decoder, the samples it has counted
          pc               \* position of the main thread, or how it ended

pool == <<tasks, stop, worker, job, status, notifying, owner>>
emissions == <<queue, isAddingFinished, producerWait, producerReady,
               consumerWait, consumerReady, sent, received, resets>>
flags == <<convlm, nSamples>>
vars == <<pool, emissions, flags, sliceNumSamples, pc>>

Main == 0
Workers == 1..(nAmThreads + nDecoderThreads)
AmTasks == 0..(nAmThreads - 1)
DecoderTasks == nAmThreads..(nAmThreads + nDecoderThreads - 1)

Pool == INSTANCE ThreadPool
          WITH Clients <- {Main}, Tasks <- AmTasks \cup DecoderTasks,
               NoTask <- -1

Queue == INSTANCE ProducerConsumerQueue
           WITH Producers <- AmTasks, Consumers <- DecoderTasks,
                maxSize <- emission_queue_size, MaxUnits <- MaxSamples,
                MaxResets <- 0

\* The samples of a task that runs the acoustic model, in its order; the k-th is
\* the unit <<t, k>> of the queue.
selectedIds(t) == {i \in 0..(nSamples - 1) : i % nAmThreads = t}
SampleOf(unit) == unit[1] + (unit[2] - 1) * nAmThreads

------------------------------------------------------------------------------
(* The main thread: startThreadsAndJoin as the list of what it does *)

For(op, first, n) == [i \in 1..n |-> <<op, first + i - 1>>]

AmFor(op) == For(op, 0, nAmThreads)
DecoderFor(op) == For(op, nAmThreads, nDecoderThreads)

\* Wait for the tasks that add, then finishAdding.  Mutants: the other way round,
\* and nobody calls finishAdding.
FinishFirst == <<<<"finishAdding", 0>>>> \o AmFor("get")
NeverFinish == AmFor("get")

AwaitAm == AmFor("get") \o <<<<"finishAdding", 0>>>>

InTwoPhases ==
  <<<<"pool", nAmThreads>>>> \o AmFor("enqueue") \o AwaitAm
  \o <<<<"destroy", 0>>, <<"pool", nDecoderThreads>>>>
  \o DecoderFor("enqueue") \o DecoderFor("get") \o <<<<"destroy", 0>>>>

InParallel ==
  <<<<"pool", nAmThreads + nDecoderThreads>>>>
  \o AmFor("enqueue") \o DecoderFor("enqueue")
  \o AwaitAm \o DecoderFor("get") \o <<<<"destroy", 0>>>>

startThreadsAndJoin == IF convlm THEN InTwoPhases ELSE InParallel

Done == Len(startThreadsAndJoin) + 1
Unwinding == 0   \* an exception is leaving startThreadsAndJoin
Failed == -1

Init ==
  /\ Pool!ThreadPool({}) /\ Queue!Init
  /\ \/ convlm = FALSE /\ nSamples \in Samples
     \/ convlm = TRUE /\ nSamples \in SamplesConvLM
  /\ sliceNumSamples = [t \in DecoderTasks |-> 0]
  /\ pc = 1

\* The main thread is at this operation, with its argument a.
At(op, a) ==
  /\ pc \in 1..Len(startThreadsAndJoin) /\ Main \notin notifying
  /\ startThreadsAndJoin[pc] = <<op, a>>

LaunchPool(n) ==
  /\ At("pool", n) /\ pc' = pc + 1
  /\ tasks' = <<>> /\ stop' = FALSE /\ notifying' = {} /\ owner' = "alive"
  /\ worker' = [w \in Workers |-> IF w <= n THEN "loop" ELSE "exited"]
  /\ job' = [w \in Workers |-> -1]
  /\ status' = [t \in AmTasks \cup DecoderTasks |-> "new"]
  /\ UNCHANGED <<emissions, flags, sliceNumSamples>>

Enqueue(t) ==
  /\ At("enqueue", t) /\ pc' = pc + 1
  /\ Pool!enqueue(Main, t)
  /\ UNCHANGED <<emissions, flags, sliceNumSamples>>

Notify ==
  /\ Pool!NotifyOne(Main)
  /\ UNCHANGED <<emissions, flags, sliceNumSamples, pc>>

\* futs[t].get() blocks until the task has run and rethrows what it threw.
GetFuture(t) ==
  /\ At("get", t)
  /\ \/ status[t] = "value" /\ pc' = pc + 1
     \/ status[t] = "exception" /\ pc' = Unwinding
  /\ UNCHANGED <<pool, emissions, flags, sliceNumSamples>>

FinishAdding ==
  /\ At("finishAdding", 0) /\ pc' = pc + 1
  /\ Queue!finishAdding
  /\ UNCHANGED <<pool, flags, sliceNumSamples>>

\* The destructor of the pool, at the end of its scope or during unwinding.
DestroyPool ==
  /\ At("destroy", 0) \/ pc = Unwinding
  /\ \/ (Pool!SetStop \/ Pool!NotifyAll) /\ UNCHANGED pc
     \/ Pool!Join /\ pc' = IF pc = Unwinding THEN Failed ELSE pc + 1
  /\ UNCHANGED <<emissions, flags, sliceNumSamples>>

MainStep ==
  \/ \E n \in Workers : LaunchPool(n)
  \/ \E t \in AmTasks \cup DecoderTasks : Enqueue(t) \/ GetFuture(t)
  \/ Notify \/ FinishAdding \/ DestroyPool

------------------------------------------------------------------------------
(* The tasks, run by worker w *)

Throwing == IF convlm THEN MayThrowConvLM ELSE MayThrow

\* runAmForward: the forward pass and add, for each selected sample.
AddEmission(w, t) ==
  /\ sent[t] < Cardinality(selectedIds(t))
  /\ Queue!add(t)
  /\ UNCHANGED <<pool, flags, sliceNumSamples, pc>>

AmReturns(w, t) ==
  /\ sent[t] = Cardinality(selectedIds(t))
  /\ Pool!Finish(w, "value")
  /\ UNCHANGED <<emissions, flags, sliceNumSamples, pc>>

\* The forward pass throws, before add is called.
AmThrows(w, t) ==
  /\ t \in Throwing /\ sent[t] < Cardinality(selectedIds(t))
  /\ t \notin producerWait \cup producerReady
  /\ Pool!Finish(w, "exception")
  /\ UNCHANGED <<emissions, flags, sliceNumSamples, pc>>

runAmForward(w, t) == AddEmission(w, t) \/ AmReturns(w, t) \/ AmThrows(w, t)

\* The decoder is between two calls of get, respectively has a sample.
Decoding(t) == Len(received[t]) > sliceNumSamples[t]

GetEmission(w, t) ==
  /\ ~Decoding(t)
  /\ Queue!GetBlocks(t) \/ Queue!GetReturnsUnit(t)
  /\ UNCHANGED <<pool, flags, sliceNumSamples, pc>>

DecoderReturns(w, t) ==
  /\ ~Decoding(t)
  /\ Queue!GetReturnsFalse(t) /\ Pool!Finish(w, "value")
  /\ UNCHANGED <<flags, sliceNumSamples, pc>>

\* decode, and the update of the counters of this thread.
Decode(w, t) ==
  /\ Decoding(t)
  /\ sliceNumSamples' = [sliceNumSamples EXCEPT ![t] = @ + 1]
  /\ UNCHANGED <<pool, emissions, flags, pc>>

DecodeThrows(w, t) ==
  /\ t \in Throwing /\ Decoding(t)
  /\ Pool!Finish(w, "exception")
  /\ UNCHANGED <<emissions, flags, sliceNumSamples, pc>>

runDecoder(w, t) ==
  \/ GetEmission(w, t) \/ DecoderReturns(w, t)
  \/ Decode(w, t) \/ DecodeThrows(w, t)

WorkerStep(w) ==
  \/ /\ Pool!Block(w) \/ Pool!Exit(w) \/ Pool!Take(w)
     /\ UNCHANGED <<emissions, flags, sliceNumSamples, pc>>
  \/ /\ worker[w] = "running" /\ job[w] \in AmTasks
     /\ runAmForward(w, job[w])
  \/ /\ worker[w] = "running" /\ job[w] \in DecoderTasks
     /\ runDecoder(w, job[w])

SpuriousWakeup ==
  \/ /\ \E w \in Workers : Pool!SpuriousWakeup(w)
     /\ UNCHANGED <<emissions, flags, sliceNumSamples, pc>>
  \/ Queue!SpuriousWakeup /\ UNCHANGED <<pool, flags, sliceNumSamples, pc>>

Next == MainStep \/ (\E w \in Workers : WorkerStep(w)) \/ SpuriousWakeup

\* Threads that can run do run; forward passes and decodes return or throw.
Fairness == WF_vars(MainStep) /\ \A w \in Workers : WF_vars(WorkerStep(w))

Spec == Init /\ [][Next]_vars /\ Fairness

------------------------------------------------------------------------------
(* Properties *)

\* The type invariant.
TypeOK ==
  /\ Pool!TypeOK /\ Queue!TypeOK
  /\ sliceNumSamples \in [DecoderTasks -> 0..MaxSamples]
  /\ pc \in -1..Done /\ convlm \in BOOLEAN /\ nSamples \in 0..MaxSamples

\* How many times sample i was handed to a decoder.
Deliveries(i) ==
  Cardinality({g \in DecoderTasks \X (1..MaxSamples) :
                 g[2] <= Len(received[g[1]]) /\ SampleOf(received[g[1]][g[2]]) = i})

\* The sum of sliceNumSamples over the decoders.
totalSamples ==
  Cardinality(UNION {{t} \X (1..sliceNumSamples[t]) : t \in DecoderTasks})

\* When the statistics are computed, every sample was decoded exactly once and is
\* counted in totalSamples, however the samples were spread over the threads.
EverySampleCountedOnce ==
  pc = Done =>
    (\A i \in 0..(nSamples - 1) : Deliveries(i) = 1) /\ totalSamples = nSamples

\* The program ends: startThreadsAndJoin returns, or an exception leaves it.
DecodingEnds == <>(pc \in {Done, Failed})

\* The destructor of the pool, once entered, joins all threads.
PoolIsJoined == owner = "stopped" ~> owner = "gone"
==============================================================================
