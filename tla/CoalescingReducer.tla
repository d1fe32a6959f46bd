------------------------- MODULE CoalescingReducer -------------------------
(***************************************************************************)
(* Summing gradients over processes: CoalescingReducer.cpp and             *)
(* InlineReducer.cpp of fl/distributed/reducers on DistributedApi.cpp and  *)
(* the NCCL backend.  On every rank the host thread only appends           *)
(* operations to three CUDA streams, which run on their own: the one of    *)
(* ArrayFire, one for copies to and from the coalescing buffer and one for *)
(* reductions.  Streams wait for each other only where the host recorded   *)
(* an event, so the order in which memory is read and written is a matter  *)
(* of those events alone.                                                  *)
(*                                                                         *)
(* The content of a gradient is <<"local", i>> once the backward pass of   *)
(* iteration i computed it and <<"sum", i>> once it was summed over all    *)
(* ranks.  The factor scale_ is applied lazily, with the first use.        *)
(***************************************************************************)
EXTENDS Naturals, Sequences, FiniteSets, Functions

CONSTANTS Ranks,
          N,            \* number of parameters; their gradients come in order
          Sizes,        \* possible sizes of a gradient, in bytes
          kCoalesceCacheSize,
          Iterations    \* bound: training iterations

ASSUME ReducerAssumption ==
  /\ IsFiniteSet(Ranks) /\ Cardinality(Ranks) > 1 /\ N \in Nat \ {0}
  /\ Sizes \subseteq Nat \ {0} /\ kCoalesceCacheSize \in Nat \ {0}
  /\ Iterations \in Nat \ {0}

VARIABLES inline,       \* the reducer is an InlineReducer
          async, contiguous,  \* async_, contiguous_
          half,         \* the parameters whose gradients have another type than
                        \* the first
          bytes,        \* per parameter, the size of its gradient
          host,         \* per rank, what the host thread knows
          streams,      \* per rank and stream, the operations not yet executed
          executed,     \* per rank and stream, the number of executed operations
          memory,       \* per rank, the content of the gradients
          buffer,       \* per rank, the bytes of coalesceBuffer_
          badUse        \* some optimizer step read a gradient that is not the sum

config == <<inline, async, contiguous, half, bytes>>
vars == <<config, host, streams, executed, memory, buffer, badUse>>

Params == 1..N
Streams == {"arrayfire", "worker", "reduction"}
Garbage == <<"garbage", 0>>
GarbageByte == <<0, Garbage>>  \* a byte is a parameter and a content

\* cache: cache_, launched: gradients whose kernel is on the ArrayFire stream,
\* next: the next parameter whose gradient comes, threw: the error that ended it.
Init ==
  /\ inline \in BOOLEAN /\ async \in BOOLEAN /\ contiguous \in BOOLEAN
  /\ inline => ~async /\ ~contiguous
  /\ half \in SUBSET (Params \ {1})
  /\ bytes \in [Params -> Sizes]
  /\ host = [r \in Ranks |->
               [cache |-> <<>>, currCacheSize |-> 0, launched |-> {}, next |-> 1,
                iteration |-> 1, threw |-> "no"]]
  /\ streams = [r \in Ranks |-> [s \in Streams |-> <<>>]]
  /\ executed = [r \in Ranks |-> [s \in Streams |-> 0]]
  /\ memory = [r \in Ranks |-> [v \in Params |-> Garbage]]
  /\ buffer = [r \in Ranks |-> [b \in 1..kCoalesceCacheSize |-> GarbageByte]]
  /\ badUse = FALSE

------------------------------------------------------------------------------
(* What the host thread does.  h is a record [host, streams, executed] of one *)
(* rank, which every operator returns updated.                                *)

Launch(h, s, ops) == [h EXCEPT !.streams[s] = @ \o ops]

\* synchronizeStreams: an event is recorded on one stream and another waits for
\* it at once; what counts is the position the event has in the first stream.
synchronizeStreams(h, blockee, blockOn) ==
  LET e == <<blockOn, h.executed[blockOn] + Len(h.streams[blockOn])>>
  IN  Launch(h, blockee, <<[op |-> "wait", event |-> e]>>)

\* Evaluation of gradients: the kernels not yet launched go to the ArrayFire
\* stream.
Eval(h, vs) ==
  LET new == SelectSeq(vs, LAMBDA v : v \notin h.host.launched)
      compute(k) == [op |-> "compute", v |-> new[k], i |-> h.host.iteration]
  IN  [Launch(h, "arrayfire", [k \in DOMAIN new |-> compute(k)])
       EXCEPT !.host.launched = @ \cup Range(new)]

SyncStream == IF async THEN "reduction" ELSE "arrayfire"

\* The synchronization of allreduceCuda, before the reduction.
SyncBeforeReduce(h, inBuffer) ==
  IF inBuffer THEN synchronizeStreams(h, SyncStream, "worker")
  ELSE IF async THEN synchronizeStreams(h, SyncStream, "arrayfire")
  ELSE h

\* allReduce of several gradients in one NCCL group; of one as a special case.
\* The last of the synchronizations in the group stands for all of them.
AllReduceEach(h, vs) ==
  Launch(SyncBeforeReduce(Eval(h, vs), FALSE),
         SyncStream, <<[op |-> "reduce", vs |-> vs]>>)

\* The bytes of the first n gradients of vs.
Total(vs, n) ==
  LET f[k \in 0..n] == IF k = 0 THEN 0 ELSE f[k - 1] + bytes[vs[k]] IN f[n]

Copies(kind, vs) ==
  [k \in DOMAIN vs |-> [op |-> kind, v |-> vs[k], at |-> Total(vs, k - 1)]]

\* allReduceMultiple through the buffer.
AllReduceCoalesced(h, vs) ==
  LET total == Total(vs, Len(vs))
      in == Launch(synchronizeStreams(Eval(h, vs), "worker", "arrayfire"),
                   "worker", Copies("copyIn", vs))
      reduce == Launch(SyncBeforeReduce(in, TRUE), SyncStream,
                       <<[op |-> "reduceBuffer", count |-> total]>>)
  IN  IF \E v \in Range(vs) : (v \in half) # (vs[1] \in half)
      THEN [h EXCEPT !.host.threw = "types"]
      ELSE IF total > kCoalesceCacheSize
      THEN [Eval(h, vs) EXCEPT !.host.threw = "size"]
      ELSE Launch(synchronizeStreams(reduce, "worker", SyncStream),
                  "worker", Copies("copyOut", vs))

allReduceMultiple(h, vs) ==
  IF vs = <<>> THEN h
  ELSE IF contiguous THEN AllReduceCoalesced(h, vs) ELSE AllReduceEach(h, vs)

\* Mutant of flush: the cache is not reset.
FlushKeepsCache(h) ==
  [allReduceMultiple(h, h.host.cache) EXCEPT !.host.currCacheSize = 0]

flush(h) ==
  [allReduceMultiple(h, h.host.cache)
   EXCEPT !.host.cache = <<>>, !.host.currCacheSize = 0]

\* syncDistributed, if called.  Mutant: only in asynchronous mode.
SynchronizeIfAsync(h) ==
  IF async
  THEN synchronizeStreams(synchronizeStreams(h, "arrayfire", "worker"),
                          "arrayfire", "reduction")
  ELSE h

synchronize(h) ==
  IF async \/ contiguous
  THEN synchronizeStreams(synchronizeStreams(h, "arrayfire", "worker"),
                          "arrayfire", "reduction")
  ELSE h

\* The condition under which add flushes.
Oversize(h, v) == h.host.currCacheSize + bytes[v] > kCoalesceCacheSize

addVar(h, v) ==
  LET f == IF Oversize(h, v) THEN flush(h) ELSE h
      g == IF async THEN Eval(f, <<v>>) ELSE f
  IN  IF f.host.threw # "no" THEN f
      ELSE IF bytes[v] > kCoalesceCacheSize THEN AllReduceEach(f, <<v>>)
      ELSE [g EXCEPT !.host.cache = Append(@, v),
                     !.host.currCacheSize = @ + bytes[v]]

addVarInline(h, v) == AllReduceEach(h, <<v>>)

Thread(r) ==
  [host |-> host[r], streams |-> streams[r], executed |-> executed[r]]

Became(r, h) ==
  /\ host' = [host EXCEPT ![r] = h.host]
  /\ streams' = [streams EXCEPT ![r] = h.streams]
  /\ UNCHANGED <<config, executed, memory, buffer, badUse>>

\* The hook of the next parameter: its gradient is available.
add(r) ==
  /\ host[r].threw = "no" /\ host[r].next <= N
  /\ host[r].iteration <= Iterations
  /\ LET v == host[r].next
         h == IF inline THEN addVarInline(Thread(r), v) ELSE addVar(Thread(r), v)
     IN  Became(r, [h EXCEPT !.host.next = @ + 1])

\* The end of an iteration: finalize, then the optimizer reads all gradients.
finalize(r) ==
  /\ host[r].threw = "no" /\ host[r].next = N + 1
  /\ LET f == flush(Thread(r))
         h == synchronize(f)
         used == Launch(Eval(h, [v \in Params |-> v]), "arrayfire",
                        <<[op |-> "step", i |-> host[r].iteration]>>)
     IN  IF f.host.threw # "no" THEN Became(r, f)
         ELSE Became(r, [used EXCEPT !.host.next = 1, !.host.launched = {},
                                     !.host.iteration = @ + 1])

------------------------------------------------------------------------------
(* The streams.  Operations of one stream are executed in order. *)

Pop(ss, r, s) == [ss EXCEPT ![r][s] = Tail(@)]

Executes(r, s, kind) ==
  /\ streams[r][s] # <<>> /\ Head(streams[r][s]).op = kind
  /\ streams' = Pop(streams, r, s)
  /\ executed' = [executed EXCEPT ![r][s] = @ + 1]
  /\ UNCHANGED <<config, host>>

Wait(r, s) ==
  /\ Executes(r, s, "wait")
  /\ LET e == Head(streams[r][s]).event IN executed[r][e[1]] >= e[2]
  /\ UNCHANGED <<memory, buffer, badUse>>

Compute(r, s) ==
  /\ Executes(r, s, "compute")
  /\ LET o == Head(streams[r][s])
     IN  memory' = [memory EXCEPT ![r][o.v] = <<"local", o.i>>]
  /\ UNCHANGED <<buffer, badUse>>

Bytes(o) == (o.at + 1)..(o.at + bytes[o.v])

CopyIn(r, s) ==
  /\ Executes(r, s, "copyIn")
  /\ LET o == Head(streams[r][s])
     IN  buffer' = [buffer EXCEPT ![r] =
                      [b \in DOMAIN @ |-> IF b \in Bytes(o)
                                          THEN <<o.v, memory[r][o.v]>> ELSE @[b]]]
  /\ UNCHANGED <<memory, badUse>>

CopyOut(r, s) ==
  /\ Executes(r, s, "copyOut")
  /\ LET o == Head(streams[r][s])
         c == buffer[r][o.at + 1]
         whole == \A b \in Bytes(o) : buffer[r][b] = c /\ c[1] = o.v
     IN  memory' = [memory EXCEPT ![r][o.v] = IF whole THEN c[2] ELSE Garbage]
  /\ UNCHANGED <<buffer, badUse>>

\* The optimizer's step reads every gradient.
Step(r, s) ==
  /\ Executes(r, s, "step")
  /\ LET i == Head(streams[r][s]).i
     IN  badUse' = (badUse \/ \E v \in Params : memory[r][v] # <<"sum", i>>)
  /\ UNCHANGED <<memory, buffer>>

\* What a reduction leaves where the ranks hold the contents in S: the sum, if
\* each rank contributed its gradient of the same iteration.
Sum(S) ==
  IF \E i \in 1..Iterations : S = {<<"local", i>>}
  THEN <<"sum", (CHOOSE c \in S : TRUE)[2]>> ELSE Garbage

SumByte(S) ==
  IF \E v \in Params : \A c \in S : c[1] = v
  THEN <<(CHOOSE c \in S : TRUE)[1], Sum({c[2] : c \in S})>> ELSE GarbageByte

\* A reduction needs all ranks: it runs once every rank has reached it.
Reduce(s) ==
  /\ \A r \in Ranks : streams[r][s] # <<>>
  /\ \E o \in {Head(streams[r][s]) : r \in Ranks} :
       /\ \A r \in Ranks : Head(streams[r][s]) = o
       /\ \/ /\ o.op = "reduce"
             /\ memory' = [r \in Ranks |-> [v \in Params |->
                  IF v \in Range(o.vs) THEN Sum({memory[q][v] : q \in Ranks})
                  ELSE memory[r][v]]]
             /\ UNCHANGED buffer
          \/ /\ o.op = "reduceBuffer"
             /\ buffer' = [r \in Ranks |-> [b \in 1..kCoalesceCacheSize |->
                  IF b <= o.count THEN SumByte({buffer[q][b] : q \in Ranks})
                  ELSE buffer[r][b]]]
             /\ UNCHANGED memory
  /\ streams' = [r \in Ranks |-> [streams[r] EXCEPT ![s] = Tail(@)]]
  /\ executed' = [r \in Ranks |-> [executed[r] EXCEPT ![s] = @ + 1]]
  /\ UNCHANGED <<config, host, badUse>>

Execute(r, s) ==
  Wait(r, s) \/ Compute(r, s) \/ CopyIn(r, s) \/ CopyOut(r, s) \/ Step(r, s)

Finished(r) ==
  /\ host[r].threw # "no" \/ host[r].iteration > Iterations
  /\ \A s \in Streams : streams[r][s] = <<>>

Terminated == (\A r \in Ranks : Finished(r)) /\ UNCHANGED vars

Next ==
  \/ \E r \in Ranks, s \in Streams : Execute(r, s)
  \/ \E s \in Streams : Reduce(s)
  \/ \E r \in Ranks : add(r) \/ finalize(r)
  \/ Terminated

\* Something that can go on, goes on.  Hosts and streams run through finitely many
\* operations, so that this lets none of them starve.
Fairness == WF_vars(Next)

Spec == Init /\ [][Next]_vars /\ Fairness

------------------------------------------------------------------------------
(* Properties *)

Contents == ({"local", "sum"} \X (1..Iterations)) \cup {Garbage}

\* Types; the bytes cached by add (currCacheSize_) are those of the cached
\* gradients, and only the copies of allReduceMultiple use the worker stream.
TypeOK ==
  /\ memory \in [Ranks -> [Params -> Contents]]
  /\ badUse \in BOOLEAN
  /\ \A r \in Ranks :
       /\ host[r].threw \in {"no", "types", "size"}
       /\ host[r].threw = "no" =>
            host[r].currCacheSize =
              Total(host[r].cache, Len(host[r].cache))
       /\ \A s \in Streams : executed[r][s] \in Nat
       /\ \A k \in DOMAIN streams[r]["worker"] :
            streams[r]["worker"][k].op \in {"wait", "copyIn", "copyOut"}

\* Every step of the optimizer reads, for every parameter, the gradient of that
\* iteration summed over all ranks (CoalescingReducer::finalize, syncDistributed):
\* never the local one, that of an earlier iteration or a buffer half written.
StepUsesSums == ~badUse

\* No rank is left behind by another that threw or took a different path: all
\* hosts get through their iterations, unless gradients of several types meet in
\* one contiguous reduction, and all that was launched is executed.  The exception
\* of allReduceMultiple for gradients larger than the buffer is never thrown: add
\* flushes in time.
IterationsEnd ==
  <>(\A r \in Ranks :
       /\ Finished(r)
       /\ host[r].threw # "no" =>
            host[r].threw # "size" /\ contiguous /\ half # {})
==============================================================================
