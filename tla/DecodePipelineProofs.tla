------------------------ MODULE DecodePipelineProofs ------------------------
(***************************************************************************)
(* For any numbers of threads, any bound of the queue and any dataset,     *)
(* with a ConvLM or without, Decode.cpp hands every sample to exactly one  *)
(* decoder and its totals count each once.  The slices of runAmForward     *)
(* partition the dataset, which is arithmetic on the strides.  That no     *)
(* emission is lost is an invariant of the steps of the pipeline.  That    *)
(* tasks run once and units arrive once is taken from the proofs about the *)
(* ThreadPool and the ProducerConsumerQueue.                               *)
(***************************************************************************)
EXTENDS DecodePipeline, FiniteSetTheorems, TLAPS

------------------------------------------------------------------------------
(* The order of startThreadsAndJoin *)

\* The operations of the main thread.
OpNames == {"pool", "enqueue", "get", "finishAdding", "destroy"}
Ops == OpNames \X Int

\* The sequence r is s followed by u.
Joined(r, s, u) ==
  /\ r \in Seq(Ops) /\ Len(r) = Len(s) + Len(u) /\ Len(s) \in Nat /\ Len(u) \in Nat
  /\ \A k \in 1..Len(s) : r[k] = s[k]
  /\ \A k \in 1..Len(u) : r[Len(s) + k] = u[k]
  /\ \A k \in 1..Len(r) : k \in 1..Len(s) \/ \E j \in 1..Len(u) : k = Len(s) + j

\* Concatenation, element by element.
LEMMA Concat ==
  ASSUME NEW s \in Seq(Ops), NEW u \in Seq(Ops)
  PROVE  Joined(s \o u, s, u)
<1>1. /\ s \o u \in Seq(Ops) /\ Len(s \o u) = Len(s) + Len(u)
      /\ Len(s) \in Nat /\ Len(u) \in Nat
  OBVIOUS
<1>2. \A k \in 1..Len(s) : (s \o u)[k] = s[k]
  OBVIOUS
<1>3. \A k \in 1..Len(u) : (s \o u)[Len(s) + k] = u[k]
  OBVIOUS
<1>4. ASSUME NEW k \in 1..Len(s \o u), k \notin 1..Len(s)
      PROVE  \E j \in 1..Len(u) : k = Len(s) + j
  <2>1. k - Len(s) \in 1..Len(u) /\ k = Len(s) + (k - Len(s))
    BY <1>1, <1>4
  <2> QED
    BY <2>1, Zenon
<1> QED
  BY <1>1, <1>2, <1>3, <1>4, Zenon DEF Joined

\* The script s has operation e; e comes only after x; and e never comes after x.
Has(s, e) == \E k \in 1..Len(s) : s[k] = e
After(s, e, x) ==
  \A k \in 1..Len(s) : s[k] = e => \E j \in 1..Len(s) : j < k /\ s[j] = x
NeverAfter(s, e, x) ==
  \A k \in 1..Len(s) : s[k] = e => ~\E j \in 1..Len(s) : j < k /\ s[j] = x

\* What a concatenation has.
LEMMA ConcatHas ==
  ASSUME NEW s \in Seq(Ops), NEW u \in Seq(Ops)
  PROVE  /\ s \o u \in Seq(Ops)
         /\ \A e : Has(s \o u, e) <=> Has(s, e) \/ Has(u, e)
<1> DEFINE r == s \o u
<1>0. Joined(r, s, u)
  BY Concat, Zenon
<1> HIDE DEF r
<1>1. ASSUME NEW e, NEW k \in 1..Len(s), s[k] = e PROVE Has(r, e)
  <2>1. k \in 1..Len(r) /\ r[k] = e
    BY <1>0, <1>1 DEF Joined
  <2> QED
    BY <2>1, Zenon DEF Has
<1>2. ASSUME NEW e, NEW k \in 1..Len(u), u[k] = e PROVE Has(r, e)
  <2>1. Len(s) + k \in 1..Len(r) /\ r[Len(s) + k] = e
    BY <1>0, <1>2 DEF Joined
  <2> QED
    BY <2>1, Zenon DEF Has
<1>3. ASSUME NEW e, NEW k \in 1..Len(r), r[k] = e PROVE Has(s, e) \/ Has(u, e)
  BY <1>0, <1>3, Zenon DEF Joined, Has
<1> QED
  BY <1>0, <1>1, <1>2, <1>3, Zenon DEF Joined, Has, r

\* What comes after what in a concatenation.
LEMMA ConcatAfter ==
  ASSUME NEW s \in Seq(Ops), NEW u \in Seq(Ops), NEW e, NEW x,
         \/ ~Has(s, e) /\ After(u, e, x)
         \/ After(s, e, x) /\ (Has(s, x) \/ ~Has(u, e))
  PROVE  After(s \o u, e, x)
<1> DEFINE r == s \o u
<1>0. Joined(r, s, u)
  BY Concat, Zenon
<1> HIDE DEF r
<1>1. ASSUME NEW k \in 1..Len(s), r[k] = e
      PROVE  \E j \in 1..Len(r) : j < k /\ r[j] = x
  <2>1. s[k] = e
    BY <1>0, <1>1, Zenon DEF Joined
  <2>2. PICK j \in 1..Len(s) : j < k /\ s[j] = x
    BY <2>1, Zenon DEF Has, After
  <2>3. j \in 1..Len(r) /\ r[j] = x
    BY <1>0, <2>2 DEF Joined
  <2> QED
    BY <2>2, <2>3, Zenon
<1>2. ASSUME NEW i \in 1..Len(u), r[Len(s) + i] = e
      PROVE  \E j \in 1..Len(r) : j < Len(s) + i /\ r[j] = x
  <2>1. u[i] = e
    BY <1>0, <1>2, Zenon DEF Joined
  <2>2. ASSUME NEW j \in 1..Len(s), s[j] = x
        PROVE  j \in 1..Len(r) /\ r[j] = x /\ j < Len(s) + i
    BY <1>0, <2>2 DEF Joined
  <2>3. ASSUME NEW j \in 1..Len(u), j < i, u[j] = x
        PROVE  Len(s) + j \in 1..Len(r) /\ r[Len(s) + j] = x /\ Len(s) + j < Len(s) + i
    BY <1>0, <2>3 DEF Joined
  <2>4. \/ \E j \in 1..Len(s) : s[j] = x
        \/ \E j \in 1..Len(u) : j < i /\ u[j] = x
    BY <2>1, Zenon DEF Has, After
  <2> QED
    BY <2>2, <2>3, <2>4, Zenon
<1>3. \A k \in 1..Len(r) : k \in 1..Len(s) \/ \E i \in 1..Len(u) : k = Len(s) + i
  BY <1>0, Zenon DEF Joined
<1>4. \A k \in 1..Len(r) : r[k] = e => \E j \in 1..Len(r) : j < k /\ r[j] = x
  BY <1>1, <1>2, <1>3, Zenon
<1> QED
  BY <1>4, Zenon DEF After, r

\* What never comes after what in a concatenation.
LEMMA ConcatNeverAfter ==
  ASSUME NEW s \in Seq(Ops), NEW u \in Seq(Ops), NEW e, NEW x,
         NeverAfter(s, e, x), NeverAfter(u, e, x), ~Has(s, x) \/ ~Has(u, e)
  PROVE  NeverAfter(s \o u, e, x)
<1> DEFINE r == s \o u
<1>0. Joined(r, s, u)
  BY Concat, Zenon
<1> HIDE DEF r
<1>1. ASSUME NEW k \in 1..Len(r), r[k] = e, NEW j \in 1..Len(r), j < k, r[j] = x
      PROVE  FALSE
  <2>1. CASE k \in 1..Len(s)
    <3>1. j \in 1..Len(s) /\ s[k] = e /\ s[j] = x
      BY <1>0, <1>1, <2>1 DEF Joined
    <3> QED
      BY <1>1, <2>1, <3>1, Zenon DEF NeverAfter
  <2>2. ASSUME NEW i \in 1..Len(u), k = Len(s) + i PROVE FALSE
    <3>1. u[i] = e
      BY <1>0, <1>1, <2>2, Zenon DEF Joined
    <3>2. CASE j \in 1..Len(s)
      <4>1. s[j] = x
        BY <1>0, <1>1, <3>2, Zenon DEF Joined
      <4> QED
        BY <3>1, <3>2, <4>1, Zenon DEF Has
    <3>3. ASSUME NEW l \in 1..Len(u), j = Len(s) + l PROVE FALSE
      <4>1. l < i /\ u[l] = x
        BY <1>0, <1>1, <2>2, <3>3 DEF Joined
      <4> QED
        BY <3>1, <4>1, Zenon DEF NeverAfter
    <3> QED
      BY <1>0, <3>2, <3>3, Zenon DEF Joined
  <2> QED
    BY <1>0, <2>1, <2>2, Zenon DEF Joined
<1> QED
  BY <1>1, Zenon DEF NeverAfter, r

\* A loop over tasks.
LEMMA LoopHas ==
  ASSUME NEW op \in OpNames, NEW first \in Nat, NEW n \in Nat
  PROVE  /\ For(op, first, n) \in Seq(Ops)
         /\ \A e : Has(For(op, first, n), e)
                     <=> \E t \in first..(first + n - 1) : e = <<op, t>>
<1> DEFINE s == For(op, first, n)
<1>1. s \in [1..n -> Ops] /\ \A k \in 1..n : s[k] = <<op, first + k - 1>>
  <2>1. \A k \in 1..n : <<op, first + k - 1>> \in Ops
    BY DEF Ops
  <2> QED
    BY <2>1, Zenon DEF For
<1> HIDE DEF s
<1>2. s \in Seq(Ops) /\ Len(s) = n
  BY <1>1
<1>3. ASSUME NEW t \in first..(first + n - 1) PROVE Has(s, <<op, t>>)
  <2>1. t - first + 1 \in 1..n /\ first + (t - first + 1) - 1 = t
    OBVIOUS
  <2> QED
    BY <1>1, <1>2, <2>1, Zenon DEF Has
<1>4. ASSUME NEW k \in 1..n PROVE \E t \in first..(first + n - 1) : s[k] = <<op, t>>
  <2>1. first + k - 1 \in first..(first + n - 1)
    OBVIOUS
  <2> QED
    BY <1>1, <2>1, Zenon
<1>5. ASSUME NEW e, Has(s, e) PROVE \E t \in first..(first + n - 1) : e = <<op, t>>
  BY <1>2, <1>4, <1>5, Zenon DEF Has
<1>6. \A e : Has(s, e) <=> \E t \in first..(first + n - 1) : e = <<op, t>>
  BY <1>3, <1>5, Zenon
<1> QED
  BY <1>2, <1>6, Zenon DEF s

\* A single operation.
LEMMA OneHas ==
  ASSUME NEW a \in Ops
  PROVE  <<a>> \in Seq(Ops) /\ \A e : Has(<<a>>, e) <=> e = a
BY DEF Has

\* The loops over the forward and the decoder tasks.
LEMMA Loops ==
  ASSUME NEW op \in OpNames
  PROVE  /\ AmFor(op) \in Seq(Ops) /\ DecoderFor(op) \in Seq(Ops)
         /\ \A e : Has(AmFor(op), e) <=> \E t \in AmTasks : e = <<op, t>>
         /\ \A e : Has(DecoderFor(op), e) <=> \E t \in DecoderTasks : e = <<op, t>>
<1>0. nAmThreads \in Nat /\ nDecoderThreads \in Nat
  BY PipelineAssumption, Zenon
<1>1. /\ For(op, 0, nAmThreads) \in Seq(Ops)
      /\ \A e : Has(For(op, 0, nAmThreads), e) <=> \E t \in AmTasks : e = <<op, t>>
  <2> DEFINE first == 0
  <2>1. first \in Nat /\ first..(first + nAmThreads - 1) = AmTasks
    BY <1>0 DEF AmTasks
  <2> HIDE DEF first
  <2>2. /\ For(op, first, nAmThreads) \in Seq(Ops)
        /\ \A e : Has(For(op, first, nAmThreads), e)
                     <=> \E t \in first..(first + nAmThreads - 1) : e = <<op, t>>
    BY <1>0, <2>1, LoopHas, Zenon
  <2>3. /\ For(op, first, nAmThreads) \in Seq(Ops)
        /\ \A e : Has(For(op, first, nAmThreads), e) <=> \E t \in AmTasks : e = <<op, t>>
    BY <2>1, <2>2, Zenon
  <2> QED
    BY <2>3, Zenon DEF first
<1>2. /\ For(op, nAmThreads, nDecoderThreads) \in Seq(Ops)
      /\ \A e : Has(For(op, nAmThreads, nDecoderThreads), e)
                   <=> \E t \in DecoderTasks : e = <<op, t>>
  BY <1>0, LoopHas, Zenon DEF DecoderTasks
<1> QED
  BY <1>1, <1>2, Zenon DEF AmFor, DecoderFor

\* A part of the script with no get and no finishAdding; and one that got every
\* forward task before finishAdding and no decoder yet.
Fin == <<"finishAdding", 0>>
Quiet(s) == s \in Seq(Ops) /\ ~Has(s, Fin) /\ \A t : ~Has(s, <<"get", t>>)
AmAwaited(s) ==
  /\ s \in Seq(Ops)
  /\ \A t \in DecoderTasks : ~Has(s, <<"get", t>>)
  /\ \A t \in AmTasks : After(s, Fin, <<"get", t>>)

\* The enqueuing loops, and making and destroying a pool.
LEMMA QuietParts ==
  /\ Quiet(AmFor("enqueue")) /\ Quiet(DecoderFor("enqueue"))
  /\ Quiet(<<<<"destroy", 0>>>>)
  /\ \A n \in Nat : Quiet(<<<<"pool", n>>>>) /\ Quiet(<<<<"destroy", 0>>, <<"pool", n>>>>)
<1>1. "enqueue" \in OpNames /\ \A t, n : <<"enqueue", n>> # <<"get", t>> /\ <<"enqueue", n>> # Fin
  BY Zenon DEF OpNames, Fin
<1>2. Quiet(AmFor("enqueue")) /\ Quiet(DecoderFor("enqueue"))
  BY <1>1, Loops DEF Quiet
<1>3. ASSUME NEW a \in Ops, NEW b \in Ops, a # Fin, b # Fin,
             \A t : a # <<"get", t>> /\ b # <<"get", t>>
      PROVE  Quiet(<<a>>) /\ Quiet(<<a, b>>)
  BY <1>3 DEF Quiet, Has
<1>4. ASSUME NEW n \in Nat
      PROVE  /\ <<"destroy", 0>> \in Ops /\ <<"pool", n>> \in Ops
             /\ <<"destroy", 0>> # Fin /\ <<"pool", n>> # Fin
             /\ \A t : <<"destroy", 0>> # <<"get", t>> /\ <<"pool", n>> # <<"get", t>>
  BY DEF Ops, OpNames, Fin
<1> DEFINE D == <<"destroy", 0>>
           P(n) == <<"pool", n>>
<1>5. \A n \in Nat : /\ D \in Ops /\ P(n) \in Ops /\ D # Fin /\ P(n) # Fin
                     /\ \A t : D # <<"get", t>> /\ P(n) # <<"get", t>>
  BY <1>4, Zenon
<1> HIDE DEF D, P
<1>6. \A n \in Nat : Quiet(<<D>>) /\ Quiet(<<P(n)>>) /\ Quiet(<<D, P(n)>>)
  BY <1>3, <1>5, Zenon
<1> QED
  BY <1>2, <1>6, Zenon DEF D, P

\* Two such parts after one another.
LEMMA QuietConcat ==
  ASSUME NEW s, NEW u, Quiet(s), Quiet(u)
  PROVE  Quiet(s \o u)
BY ConcatHas, Zenon DEF Quiet

\* Waiting for the forward tasks and then calling finishAdding.
LEMMA AwaitsAm ==
  ASSUME NEW s, Quiet(s)
  PROVE  AmAwaited(s \o AwaitAm)
<1> DEFINE gets == AmFor("get")
<1>0. Fin \in Ops /\ "get" \in OpNames
  BY DEF Ops, OpNames, Fin
<1>1. /\ gets \in Seq(Ops) /\ <<Fin>> \in Seq(Ops)
      /\ \A e : Has(gets, e) <=> \E t \in AmTasks : e = <<"get", t>>
      /\ \A e : Has(<<Fin>>, e) <=> e = Fin
  BY <1>0, Loops, OneHas, Zenon
<1>2. AwaitAm = gets \o <<Fin>>
  BY Zenon DEF AwaitAm, Fin
<1>3. ~Has(gets, Fin)
  BY <1>1, Zenon DEF Fin
<1> HIDE DEF gets
<1>4. ASSUME NEW t \in AmTasks PROVE After(s \o AwaitAm, Fin, <<"get", t>>)
  <2>1. After(gets, Fin, <<"get", t>>) /\ Has(gets, <<"get", t>>)
    BY <1>1, <1>3, Zenon DEF After, Has
  <2>2. After(AwaitAm, Fin, <<"get", t>>) /\ AwaitAm \in Seq(Ops)
    BY <1>1, <1>2, <2>1, ConcatHas, ConcatAfter, Zenon
  <2> QED
    BY <2>2, ConcatAfter, Zenon DEF Quiet
<1>5. ASSUME NEW t \in DecoderTasks PROVE ~Has(AwaitAm, <<"get", t>>)
  <2>1. <<"get", t>> # Fin /\ t \notin AmTasks
    BY PipelineAssumption DEF Fin, AmTasks, DecoderTasks
  <2>2. ~Has(gets, <<"get", t>>) /\ ~Has(<<Fin>>, <<"get", t>>)
    BY <1>1, <2>1, Zenon
  <2> QED
    BY <1>1, <1>2, <2>2, ConcatHas, Zenon
<1>6. AwaitAm \in Seq(Ops)
  BY <1>1, <1>2, ConcatHas, Zenon
<1>7. s \o AwaitAm \in Seq(Ops) /\ \A t \in DecoderTasks : ~Has(s \o AwaitAm, <<"get", t>>)
  BY <1>5, <1>6, ConcatHas, Zenon DEF Quiet
<1> QED
  BY <1>4, <1>7, Zenon DEF AmAwaited

\* Something else after that.
LEMMA StaysAwaited ==
  ASSUME NEW s, NEW u, AmAwaited(s), Quiet(u)
  PROVE  AmAwaited(s \o u)
BY ConcatHas, ConcatAfter, Zenon DEF AmAwaited, Quiet

\* What is needed of the whole script: it waits for every decoder, it waits for every
\* forward task before finishAdding, and it launches no pool once it has waited for a
\* decoder.
Ordered(s) ==
  /\ s \in Seq(Ops)
  /\ \A t \in DecoderTasks : Has(s, <<"get", t>>)
  /\ \A t \in AmTasks : After(s, <<"finishAdding", 0>>, <<"get", t>>)
  /\ \A t \in DecoderTasks, n \in Workers : NeverAfter(s, <<"pool", n>>, <<"get", t>>)

\* Waiting for the decoders and destroying their pool.
LEMMA AwaitsDecoders ==
  ASSUME NEW s, AmAwaited(s)
  PROVE  Ordered(s \o DecoderFor("get") \o <<<<"destroy", 0>>>>)
<1> DEFINE gets == DecoderFor("get")
           End == <<<<"destroy", 0>>>>
<1>0. <<"destroy", 0>> \in Ops /\ "get" \in OpNames
  BY DEF Ops, OpNames
<1>1. /\ s \in Seq(Ops) /\ gets \in Seq(Ops) /\ End \in Seq(Ops)
      /\ \A e : Has(gets, e) <=> \E t \in DecoderTasks : e = <<"get", t>>
      /\ \A e : Has(End, e) <=> e = <<"destroy", 0>>
  BY <1>0, Loops, OneHas, Zenon DEF AmAwaited
<1>2. ~Has(gets, Fin) /\ ~Has(End, Fin)
  BY <1>1 DEF Fin
<1>3. ASSUME NEW n \in Workers PROVE ~Has(gets, <<"pool", n>>) /\ ~Has(End, <<"pool", n>>)
  BY <1>1
<1> HIDE DEF gets, End
<1>4. s \o gets \in Seq(Ops) /\ s \o gets \o End \in Seq(Ops)
  BY <1>1, ConcatHas, Zenon
<1>5. \A t \in DecoderTasks : Has(s \o gets \o End, <<"get", t>>)
  BY <1>1, <1>4, ConcatHas, Zenon
<1>6. \A t \in AmTasks : After(s \o gets \o End, Fin, <<"get", t>>)
  <2>1. \A t \in AmTasks : After(s \o gets, Fin, <<"get", t>>)
    BY <1>1, <1>2, ConcatAfter, Zenon DEF AmAwaited
  <2> QED
    BY <1>1, <1>2, <1>4, <2>1, ConcatAfter, Zenon
<1>7. ASSUME NEW t \in DecoderTasks, NEW n \in Workers
      PROVE  NeverAfter(s \o gets \o End, <<"pool", n>>, <<"get", t>>)
  <2>1. /\ NeverAfter(s, <<"pool", n>>, <<"get", t>>)
        /\ NeverAfter(gets, <<"pool", n>>, <<"get", t>>)
        /\ NeverAfter(End, <<"pool", n>>, <<"get", t>>)
    BY <1>3, Zenon DEF AmAwaited, Has, NeverAfter
  <2>2. NeverAfter(s \o gets, <<"pool", n>>, <<"get", t>>)
    BY <1>1, <1>3, <2>1, ConcatNeverAfter
  <2> QED
    BY <1>1, <1>3, <1>4, <2>1, <2>2, ConcatNeverAfter, Zenon
<1> QED
  BY <1>4, <1>5, <1>6, <1>7 DEF Ordered, gets, End, Fin

\* The order of startThreadsAndJoin, with a ConvLM or without.
LEMMA ScriptOrder ==
  ASSUME convlm \in BOOLEAN
  PROVE  Ordered(startThreadsAndJoin)
<1>1. /\ nAmThreads + nDecoderThreads \in Nat /\ nAmThreads \in Nat /\ nDecoderThreads \in Nat
  BY PipelineAssumption
<1>2. CASE ~convlm
  <2>1. Quiet(<<<<"pool", nAmThreads + nDecoderThreads>>>> \o AmFor("enqueue")
                \o DecoderFor("enqueue"))
    BY <1>1, QuietParts, QuietConcat, Zenon
  <2> QED
    BY <1>2, <2>1, AwaitsAm, AwaitsDecoders, Zenon DEF startThreadsAndJoin, InParallel
<1>3. CASE convlm
  <2>1. Quiet(<<<<"pool", nAmThreads>>>> \o AmFor("enqueue"))
    BY <1>1, QuietParts, QuietConcat, Zenon
  <2>2. AmAwaited(<<<<"pool", nAmThreads>>>> \o AmFor("enqueue") \o AwaitAm
                    \o <<<<"destroy", 0>>, <<"pool", nDecoderThreads>>>>
                    \o DecoderFor("enqueue"))
    BY <1>1, <2>1, QuietParts, AwaitsAm, StaysAwaited, Zenon
  <2> QED
    BY <1>3, <2>2, AwaitsDecoders DEF startThreadsAndJoin, InTwoPhases
<1> QED
  BY <1>2, <1>3, Zenon

------------------------------------------------------------------------------
(* The inductive invariant *)

Tasks == AmTasks \cup DecoderTasks

\* The main thread has got past this operation.
Passed(op, a) ==
  \E k \in 1..Len(startThreadsAndJoin) : k < pc /\ startThreadsAndJoin[k] = <<op, a>>

Position ==
  /\ convlm \in BOOLEAN /\ nSamples \in 0..MaxSamples /\ pc \in -1..Done
  /\ \A t \in AmTasks : Cardinality(selectedIds(t)) \in Nat

\* Every forward pass of task t was made and its emissions were added.
AllAdded(t) == sent[t] = Cardinality(selectedIds(t))

\* A task that runs the acoustic model returned, or was waited for, only after its
\* last add, and so finishAdding came after the last add of all.
Adding ==
  /\ \A t \in AmTasks :
       /\ sent[t] <= Cardinality(selectedIds(t))
       /\ status[t] = "value" \/ Passed("get", t) => AllAdded(t)
  /\ isAddingFinished => \A t \in AmTasks : AllAdded(t)

\* Every unit that was added is in the queue or with a decoder.
NothingLost ==
  \A t \in AmTasks : \A k \in 1..sent[t] :
    \/ \E i \in DOMAIN queue : queue[i] = <<t, k>>
    \/ \E d \in DecoderTasks : \E j \in DOMAIN received[d] : received[d][j] = <<t, k>>

\* A decoder that returned has counted all it received, and left nothing to decode.
Emptied(t) ==
  queue = <<>> /\ isAddingFinished /\ sliceNumSamples[t] = Len(received[t])

Counting ==
  /\ sliceNumSamples \in [DecoderTasks -> Nat]
  /\ \A t \in DecoderTasks :
       /\ sliceNumSamples[t] <= Len(received[t])
       /\ status[t] = "value" => Emptied(t)
       /\ Passed("get", t) => status[t] = "value"

PipelineInv == Position /\ Adding /\ NothingLost /\ Counting

\* What the pool guarantees of the tasks.
TasksOK ==
  /\ status \in [Tasks -> {"new", "queued", "running", "rejected", "value", "exception"}]
  /\ \A w \in Workers :
       worker[w] = "running" => job[w] \in Tasks /\ status[job[w]] = "running"
  /\ tasks # <<>> => Head(tasks) \in Tasks /\ status[Head(tasks)] = "queued"

\* What the queue guarantees of the units.
UnitsOK ==
  /\ queue \in Seq(AmTasks \X (1..MaxSamples))
  /\ received \in [DecoderTasks -> Seq(AmTasks \X (1..MaxSamples))]
  /\ sent \in [AmTasks -> 0..MaxSamples]

\* A task returns only when it is through.
Through(t) == (t \in AmTasks => AllAdded(t)) /\ (t \in DecoderTasks => Emptied(t))

\* The statuses of the tasks that have returned, in a step.
Returns ==
  \A t \in Tasks :
    /\ status[t] = "value" => status'[t] = "value"
    /\ status'[t] = "value" => status[t] = "value" \/ Through(t)

\* The units and their counts are not touched.
KeepsUnits ==
  UNCHANGED <<queue, isAddingFinished, sent, received, sliceNumSamples>>

\* The main thread passes get only for a task that has returned.
Advances ==
  \A t \in Tasks : Passed("get", t)' => Passed("get", t) \/ status[t] = "value"

------------------------------------------------------------------------------
\* Passing an operation.
LEMMA PassOne ==
  ASSUME Position, convlm' = convlm, pc' = pc + 1, NEW op, NEW a, NEW op2, NEW b,
         pc \in 1..Len(startThreadsAndJoin), startThreadsAndJoin[pc] = <<op, a>>,
         Passed(op2, b)'
  PROVE  Passed(op2, b) \/ <<op, a>> = <<op2, b>>
<1>1. startThreadsAndJoin' = startThreadsAndJoin
  BY Zenon DEF startThreadsAndJoin
<1>2. Len(startThreadsAndJoin) \in Nat
  BY ScriptOrder DEF Ordered, Position
<1>3. PICK k \in 1..Len(startThreadsAndJoin) :
        k < pc + 1 /\ startThreadsAndJoin[k] = <<op2, b>>
  BY <1>1, Zenon DEF Passed
<1>4. k < pc \/ k = pc
  BY <1>2, <1>3
<1> QED
  BY <1>3, <1>4, Zenon DEF Passed

\* The position of the main thread, when it does not go on.
LEMMA PassNone ==
  ASSUME Position, convlm' = convlm, pc' = pc \/ pc' = 0 \/ pc' = -1,
         NEW op, NEW a, Passed(op, a)'
  PROVE  Passed(op, a)
<1>1. startThreadsAndJoin' = startThreadsAndJoin
  BY Zenon DEF startThreadsAndJoin
<1> QED
  BY <1>1 DEF Passed

\* The size of a slice depends on the dataset only.
LEMMA SameSlices ==
  ASSUME UNCHANGED flags
  PROVE  \A t \in AmTasks : Cardinality(selectedIds(t))' = Cardinality(selectedIds(t))
BY Zenon DEF flags, selectedIds

\* flags never change and the main thread stays in its script.
LEMMA PositionStep ==
  ASSUME Position, Next
  PROVE  Position' /\ UNCHANGED flags
<1>0. Len(startThreadsAndJoin) \in Nat
  BY ScriptOrder DEF Ordered, Position
<1>1. UNCHANGED flags
  BY Zenon DEF Next, MainStep, LaunchPool, Enqueue, Notify, GetFuture, FinishAdding, DestroyPool,
         WorkerStep, runAmForward, AddEmission, AmReturns, AmThrows, runDecoder, GetEmission,
         DecoderReturns, Decode, DecodeThrows, SpuriousWakeup
<1>2. pc' = pc \/ pc' = 0 \/ pc' = -1 \/ (pc \in 1..Len(startThreadsAndJoin) /\ pc' = pc + 1)
  BY Zenon DEF Next, MainStep, LaunchPool, Enqueue, Notify, GetFuture, FinishAdding, DestroyPool,
         WorkerStep, runAmForward, AddEmission, AmReturns, AmThrows, runDecoder, GetEmission,
         DecoderReturns, Decode, DecodeThrows, SpuriousWakeup, At, Unwinding, Failed
<1>3. startThreadsAndJoin' = startThreadsAndJoin
  BY <1>1, Zenon DEF startThreadsAndJoin, flags
<1> QED
  BY <1>0, <1>1, <1>2, <1>3, SameSlices DEF Position, Done, flags

------------------------------------------------------------------------------
\* A step that leaves the units alone keeps the invariant if what returns is through.
LEMMA QuietStep ==
  ASSUME PipelineInv, KeepsUnits, UNCHANGED flags, Returns, Advances
  PROVE  Adding' /\ NothingLost' /\ Counting'
<1>1. /\ queue' = queue /\ isAddingFinished' = isAddingFinished /\ sent' = sent
      /\ received' = received /\ sliceNumSamples' = sliceNumSamples
  BY Zenon DEF KeepsUnits
<1>2. \A t \in AmTasks : AllAdded(t)' <=> AllAdded(t)
  BY <1>1, SameSlices DEF AllAdded
<1>3. \A t \in DecoderTasks : Emptied(t)' <=> Emptied(t)
  BY <1>1, Zenon DEF Emptied
<1>4. Adding'
  BY <1>1, <1>2, SameSlices DEF PipelineInv, Adding, Returns, Advances, Through, Tasks
<1>5. NothingLost'
  BY <1>1, Zenon DEF PipelineInv, NothingLost
<1>6. Counting'
  BY <1>1, <1>3, Zenon DEF PipelineInv, Counting, Returns, Advances, Through, Tasks
<1> QED
  BY <1>4, <1>5, <1>6

\* Nothing changes for the tasks.
LEMMA SameTasks ==
  ASSUME UNCHANGED status
  PROVE  Returns
BY Zenon DEF Returns

\* The main thread stays where it is.
LEMMA SamePosition ==
  ASSUME Position, UNCHANGED flags, UNCHANGED pc
  PROVE  Advances
BY PassNone, Zenon DEF Advances, flags

\* The constructor of a pool: its tasks are new, and no decoder was waited for.
LEMMA LaunchStep ==
  ASSUME PipelineInv, NEW n \in Workers, LaunchPool(n)
  PROVE  Adding' /\ NothingLost' /\ Counting'
<1>1. /\ queue' = queue /\ isAddingFinished' = isAddingFinished /\ sent' = sent
      /\ received' = received /\ sliceNumSamples' = sliceNumSamples
      /\ UNCHANGED flags /\ pc' = pc + 1
      /\ pc \in 1..Len(startThreadsAndJoin) /\ startThreadsAndJoin[pc] = <<"pool", n>>
      /\ convlm' = convlm
      /\ status' = [t \in Tasks |-> "new"]
  BY Zenon DEF LaunchPool, emissions, At, Tasks, flags
<1>2. \A t \in AmTasks : AllAdded(t)' <=> AllAdded(t)
  BY <1>1, SameSlices, Zenon DEF AllAdded
<1>3. \A t \in Tasks : status'[t] # "value"
  BY <1>1, Zenon
<1>4. \A t \in Tasks : Passed("get", t)' => Passed("get", t)
  <2>1. \A t : <<"pool", n>> # <<"get", t>>
    BY Zenon
  <2> QED
    BY <1>1, <2>1, PassOne DEF PipelineInv
<1>5. Adding'
  BY <1>1, <1>2, <1>3, <1>4, SameSlices, Zenon DEF PipelineInv, Adding, Tasks
<1>6. NothingLost'
  BY <1>1, Zenon DEF PipelineInv, NothingLost
<1>7. \A t \in DecoderTasks : ~Passed("get", t)
  BY <1>1, ScriptOrder, Zenon DEF Ordered, PipelineInv, Position, Passed, NeverAfter
<1>8. Counting'
  BY <1>1, <1>3, <1>4, <1>7 DEF PipelineInv, Counting, Tasks
<1> QED
  BY <1>5, <1>6, <1>8

\* finishAdding comes after the last add.
LEMMA FinishStep ==
  ASSUME PipelineInv, FinishAdding
  PROVE  Adding' /\ NothingLost' /\ Counting'
<1>1. /\ queue' = queue /\ isAddingFinished' = TRUE /\ sent' = sent
      /\ received' = received /\ sliceNumSamples' = sliceNumSamples
      /\ UNCHANGED flags /\ pc' = pc + 1
      /\ pc \in 1..Len(startThreadsAndJoin)
      /\ startThreadsAndJoin[pc] = <<"finishAdding", 0>>
      /\ status' = status /\ convlm' = convlm
  BY Zenon DEF FinishAdding, Queue!finishAdding, At, flags, pool
<1>2. \A t \in AmTasks : AllAdded(t)' <=> AllAdded(t)
  BY <1>1, SameSlices, Zenon DEF AllAdded
<1>3. \A t \in Tasks : Passed("get", t)' => Passed("get", t)
  <2>1. \A t : <<"finishAdding", 0>> # <<"get", t>>
    BY Zenon
  <2> QED
    BY <1>1, <2>1, PassOne DEF PipelineInv
<1>4. \A t \in AmTasks : Passed("get", t)
  BY <1>1, ScriptOrder, Zenon DEF Ordered, PipelineInv, Position, Passed, After
<1>5. Adding'
  BY <1>1, <1>2, <1>3, <1>4, SameSlices DEF PipelineInv, Adding, Tasks
<1>6. NothingLost'
  BY <1>1, Zenon DEF PipelineInv, NothingLost
<1>7. Counting'
  BY <1>1, <1>3, Zenon DEF PipelineInv, Counting, Emptied, Tasks
<1> QED
  BY <1>5, <1>6, <1>7

\* add: the forward pass of a task that is not through, so adding is not finished.
LEMMA PushStep ==
  ASSUME PipelineInv, UnitsOK, NEW w, NEW t \in AmTasks, status[t] = "running",
         AddEmission(w, t), ~Queue!AddBlocks(t)
  PROVE  Adding' /\ NothingLost' /\ Counting'
<1> DEFINE u == <<t, sent[t] + 1>>
<1>1. t \in AmTasks /\ status[t] = "running" /\ sent[t] < Cardinality(selectedIds(t))
  BY Zenon DEF AddEmission
<1>2. ~AllAdded(t) /\ ~isAddingFinished /\ Cardinality(selectedIds(t)) \in Nat
  <2>1. sent[t] \in Nat /\ Cardinality(selectedIds(t)) \in Nat
    BY PipelineAssumption DEF UnitsOK, PipelineInv, Position
  <2>2. ~AllAdded(t)
    BY <1>1, <2>1 DEF AllAdded
  <2> QED
    BY <1>1, <2>1, <2>2 DEF PipelineInv, Adding
<1>3. /\ queue' = Append(queue, u) /\ isAddingFinished' = isAddingFinished
      /\ sent' = [sent EXCEPT ![t] = sent[t] + 1]
      /\ received' = received /\ sliceNumSamples' = sliceNumSamples
      /\ status' = status /\ UNCHANGED flags /\ UNCHANGED pc /\ sent[t] < MaxSamples
  BY <1>2, Zenon DEF AddEmission, Queue!add, Queue!AddIgnored, Queue!AddPushes, Queue!MayAdd, pool
<1>4. \A a \in Tasks : Passed("get", a)' => Passed("get", a)
  BY <1>3, PassNone, Zenon DEF PipelineInv, flags
<1>5. \A a \in AmTasks : a # t => sent'[a] = sent[a]
  BY <1>3, Zenon DEF UnitsOK
<1>6. sent'[t] = sent[t] + 1 /\ sent[t] \in Nat
  BY <1>1, <1>3, PipelineAssumption DEF UnitsOK
<1> HIDE DEF u
<1>7. Adding'
  <2>1. ~Passed("get", t) /\ status[t] # "value"
    BY <1>1, <1>2, Zenon DEF PipelineInv, Adding
  <2>2. \A a \in AmTasks : a # t => (AllAdded(a)' <=> AllAdded(a))
    BY <1>3, <1>5, SameSlices DEF AllAdded
  <2>3. sent'[t] <= Cardinality(selectedIds(t))'
    <3>1. sent'[t] <= Cardinality(selectedIds(t))
      BY <1>1, <1>2, <1>6
    <3> QED
      BY <1>1, <1>3, <3>1, SameSlices
  <2>4. ASSUME NEW a \in AmTasks
        PROVE  /\ sent'[a] <= Cardinality(selectedIds(a))'
               /\ status'[a] = "value" \/ Passed("get", a)' => AllAdded(a)'
    <3>1. CASE a = t
      BY <1>3, <1>4, <2>1, <2>3, <3>1 DEF Tasks
    <3>2. CASE a # t
      <4>1. sent'[a] = sent[a] /\ Cardinality(selectedIds(a))' = Cardinality(selectedIds(a))
        BY <1>3, <1>5, <3>2, SameSlices
      <4>2. /\ sent[a] <= Cardinality(selectedIds(a))
            /\ status[a] = "value" \/ Passed("get", a) => AllAdded(a)
        BY Zenon DEF PipelineInv, Adding
      <4> QED
        BY <1>3, <1>4, <2>2, <3>2, <4>1, <4>2 DEF Tasks
    <3> QED
      BY <3>1, <3>2
  <2> QED
    BY <1>2, <1>3, <2>4, Zenon DEF Adding
<1>8. NothingLost'
  <2>1. u \in AmTasks \X (1..MaxSamples)
    BY <1>1, <1>3, <1>6, PipelineAssumption DEF u
  <2>2. /\ DOMAIN queue' = DOMAIN queue \cup {Len(queue) + 1}
        /\ queue'[Len(queue) + 1] = u
        /\ \A i \in DOMAIN queue : queue'[i] = queue[i]
    <3> DEFINE U == AmTasks \X (1..MaxSamples)
    <3>1. queue \in Seq(U) /\ u \in U /\ queue' = Append(queue, u)
      BY <1>3, <2>1 DEF UnitsOK
    <3> HIDE DEF U
    <3> QED
      BY <3>1
  <2> SUFFICES ASSUME NEW a \in AmTasks, NEW k \in 1..sent'[a]
               PROVE  \/ \E i \in DOMAIN queue' : queue'[i] = <<a, k>>
                      \/ \E d \in DecoderTasks : \E j \in DOMAIN received[d] :
                           received[d][j] = <<a, k>>
    BY <1>3, Zenon DEF NothingLost
  <2>3. CASE a = t /\ k = sent[t] + 1
    <3>1. queue'[Len(queue) + 1] = <<a, k>>
      BY <2>2, <2>3, Zenon DEF u
    <3> QED
      BY <2>2, <3>1, Zenon
  <2>4. CASE ~(a = t /\ k = sent[t] + 1)
    <3>1. k \in 1..sent[a]
      BY <1>5, <1>6, <2>4
    <3> QED
      BY <2>2, <3>1, Zenon DEF PipelineInv, NothingLost
  <2> QED
    BY <2>3, <2>4
<1>9. Counting'
  <2>1. \A d \in DecoderTasks : status[d] # "value"
    BY <1>2 DEF PipelineInv, Counting, Emptied
  <2> QED
    BY <1>3, <1>4, <2>1 DEF PipelineInv, Counting, Tasks
<1> QED
  BY <1>7, <1>8, <1>9

\* get: the front of the queue goes to a decoder, which has not returned.
LEMMA PopStep ==
  ASSUME PipelineInv, UnitsOK, NEW w, NEW t \in DecoderTasks, status[t] = "running",
         GetEmission(w, t), ~Queue!GetBlocks(t)
  PROVE  Adding' /\ NothingLost' /\ Counting'
<1>1. /\ queue # <<>> /\ queue' = Tail(queue) /\ isAddingFinished' = isAddingFinished
      /\ received' = [received EXCEPT ![t] = Append(received[t], Head(queue))]
      /\ sent' = sent /\ sliceNumSamples' = sliceNumSamples
      /\ status' = status /\ UNCHANGED flags /\ UNCHANGED pc
  BY DEF GetEmission, Queue!GetReturnsUnit, Queue!isEmpty, pool
<1>2. \A a \in Tasks : Passed("get", a)' => Passed("get", a)
  BY <1>1, PassNone, Zenon DEF PipelineInv, flags
<1>3. Adding'
  <2>1. \A a \in AmTasks : AllAdded(a)' <=> AllAdded(a)
    BY <1>1, SameSlices, Zenon DEF AllAdded
  <2> QED
    BY <1>1, <1>2, <2>1, SameSlices, Zenon DEF PipelineInv, Adding, Tasks
<1> DEFINE U == AmTasks \X (1..MaxSamples)
           last == Len(received[t]) + 1
<1>4. queue \in Seq(U) /\ received \in [DecoderTasks -> Seq(U)]
  BY Zenon DEF UnitsOK
<1> HIDE DEF U
<1>5. /\ Head(queue) = queue[1] /\ Head(queue) \in U
      /\ \A i \in DOMAIN queue : i = 1 \/ (i - 1 \in DOMAIN queue' /\ queue'[i - 1] = queue[i])
  BY <1>1, <1>4
<1>6. /\ received'[t] = Append(received[t], Head(queue))
      /\ \A d \in DecoderTasks : d # t => received'[d] = received[d]
  BY <1>1, <1>4, Zenon
<1>7. /\ DOMAIN received'[t] = DOMAIN received[t] \cup {last}
      /\ received'[t][last] = Head(queue)
      /\ \A j \in DOMAIN received[t] : received'[t][j] = received[t][j]
      /\ Len(received[t]) \in Nat /\ Len(received'[t]) = last
  BY <1>4, <1>5, <1>6
<1>8. NothingLost'
  <2> SUFFICES ASSUME NEW a \in AmTasks, NEW k \in 1..sent[a]
               PROVE  \/ \E i \in DOMAIN queue' : queue'[i] = <<a, k>>
                      \/ \E d \in DecoderTasks : \E j \in DOMAIN received'[d] :
                           received'[d][j] = <<a, k>>
    BY <1>1, Zenon DEF NothingLost
  <2>1. ASSUME NEW i \in DOMAIN queue, queue[i] = <<a, k>>
        PROVE  \/ \E l \in DOMAIN queue' : queue'[l] = <<a, k>>
               \/ \E j \in DOMAIN received'[t] : received'[t][j] = <<a, k>>
    <3>1. CASE i = 1
      <4>1. received'[t][last] = <<a, k>> /\ last \in DOMAIN received'[t]
        BY <1>5, <1>7, <2>1, <3>1
      <4> QED
        BY <4>1
    <3>2. CASE i # 1
      <4>1. i - 1 \in DOMAIN queue' /\ queue'[i - 1] = <<a, k>>
        BY <1>5, <2>1, <3>2
      <4> QED
        BY <4>1
    <3> QED
      BY <3>1, <3>2
  <2>2. ASSUME NEW d \in DecoderTasks, NEW j \in DOMAIN received[d], received[d][j] = <<a, k>>
        PROVE  j \in DOMAIN received'[d] /\ received'[d][j] = <<a, k>>
    BY <1>6, <1>7, <2>2
  <2> QED
    BY <2>1, <2>2, Zenon DEF PipelineInv, NothingLost
<1>9. Counting'
  <2>1. \A d \in DecoderTasks : status[d] # "value"
    BY <1>1, Zenon DEF PipelineInv, Counting, Emptied
  <2>2. \A d \in DecoderTasks : sliceNumSamples[d] <= Len(received'[d])
    <3>1. sliceNumSamples[t] <= Len(received[t]) /\ sliceNumSamples[t] \in Nat
      BY Zenon DEF PipelineInv, Counting
    <3>2. sliceNumSamples[t] <= Len(received'[t])
      BY <1>7, <3>1
    <3> QED
      BY <1>6, <3>2 DEF PipelineInv, Counting
  <2> QED
    BY <1>1, <1>2, <2>1, <2>2 DEF PipelineInv, Counting, Tasks
<1> QED
  BY <1>3, <1>8, <1>9

\* A decoder counts the sample it has decoded.
LEMMA DecodeStep ==
  ASSUME PipelineInv, UnitsOK, NEW w, NEW t \in DecoderTasks, status[t] = "running",
         Decode(w, t)
  PROVE  Adding' /\ NothingLost' /\ Counting'
<1>1. /\ queue' = queue /\ isAddingFinished' = isAddingFinished /\ received' = received
      /\ sent' = sent /\ sliceNumSamples' = [sliceNumSamples EXCEPT ![t] = sliceNumSamples[t] + 1]
      /\ status' = status /\ UNCHANGED flags /\ UNCHANGED pc
      /\ Len(received[t]) > sliceNumSamples[t]
  BY Zenon DEF Decode, Decoding, emissions, pool
<1>2. \A a \in Tasks : Passed("get", a)' => Passed("get", a)
  BY <1>1, PassNone DEF PipelineInv, flags
<1>3. Adding'
  <2>1. \A a \in AmTasks : AllAdded(a)' <=> AllAdded(a)
    BY <1>1, SameSlices DEF AllAdded
  <2> QED
    BY <1>1, <1>2, <2>1, SameSlices DEF PipelineInv, Adding, Tasks
<1>4. NothingLost'
  BY <1>1, Zenon DEF PipelineInv, NothingLost
<1>5. Counting'
  <2>1. sliceNumSamples \in [DecoderTasks -> Nat] /\ Len(received[t]) \in Nat
    BY DEF PipelineInv, Counting, UnitsOK
  <2>2. /\ sliceNumSamples' \in [DecoderTasks -> Nat]
        /\ sliceNumSamples'[t] <= Len(received[t])
        /\ \A d \in DecoderTasks : d # t => sliceNumSamples'[d] = sliceNumSamples[d]
    BY <1>1, <2>1
  <2>3. ASSUME NEW d \in DecoderTasks
        PROVE  /\ sliceNumSamples'[d] <= Len(received'[d])
               /\ status'[d] = "value" => Emptied(d)'
               /\ Passed("get", d)' => status'[d] = "value"
    BY <1>1, <1>2, <2>2, Zenon DEF PipelineInv, Counting, Emptied, Tasks
  <2> QED
    BY <2>2, <2>3 DEF Counting
<1> QED
  BY <1>3, <1>4, <1>5

------------------------------------------------------------------------------
\* A worker takes a task from the queue of the pool, or goes around its loop.
LEMMA PoolStepReturns ==
  ASSUME TasksOK, NEW w \in Workers,
         Pool!Block(w) \/ Pool!Exit(w) \/ Pool!Take(w) \/ Pool!SpuriousWakeup(w)
  PROVE  Returns
<1>1. CASE Pool!Take(w)
  <2>1. /\ status' = [status EXCEPT ![Head(tasks)] = "running"]
        /\ Head(tasks) \in Tasks /\ status[Head(tasks)] = "queued"
    BY <1>1, Zenon DEF Pool!Take, TasksOK
  <2> QED
    BY <2>1, Zenon DEF TasksOK, Returns
<1> QED
  BY <1>1, SameTasks, Zenon DEF Pool!Block, Pool!Exit, Pool!SpuriousWakeup

\* The end of a task that was running.
LEMMA EndReturns ==
  ASSUME TasksOK, NEW w \in Workers, worker[w] = "running",
         \/ Pool!Finish(w, "exception")
         \/ Pool!Finish(w, "value") /\ Through(job[w])
  PROVE  Returns
<1>1. job[w] \in Tasks /\ status[job[w]] = "running"
  BY Zenon DEF TasksOK
<1>2. \E o \in {"value", "exception"} :
        /\ status' = [status EXCEPT ![job[w]] = o]
        /\ o = "value" => Through(job[w])
  BY Zenon DEF Pool!Finish
<1> QED
  BY <1>1, <1>2, Zenon DEF TasksOK, Returns

\* A step of a worker.
LEMMA WorkersStep ==
  ASSUME PipelineInv, TasksOK, UnitsOK, NEW w \in Workers, WorkerStep(w)
  PROVE  Adding' /\ NothingLost' /\ Counting'
<1> DEFINE Goal == Adding' /\ NothingLost' /\ Counting'
<1> HIDE DEF Goal
<1>0. ASSUME Returns, KeepsUnits, UNCHANGED flags, UNCHANGED pc PROVE Goal
  BY <1>0, QuietStep, SamePosition DEF Goal, PipelineInv
<1>1. ASSUME Pool!Block(w) \/ Pool!Exit(w) \/ Pool!Take(w),
             UNCHANGED <<emissions, flags, sliceNumSamples, pc>>
      PROVE  Goal
  BY <1>0, <1>1, PoolStepReturns DEF KeepsUnits, emissions
<1>2. ASSUME worker[w] = "running", NEW t \in AmTasks, job[w] = t, runAmForward(w, t)
      PROVE  Goal
  <2>0. status[t] = "running"
    BY <1>2, Zenon DEF TasksOK
  <2>1. CASE AddEmission(w, t) /\ ~Queue!AddBlocks(t)
    BY <2>0, <2>1, PushStep DEF Goal
  <2>2. CASE AddEmission(w, t) /\ Queue!AddBlocks(t)
    <3>1. KeepsUnits /\ UNCHANGED <<flags, pc, status>>
      BY <2>2, Zenon DEF AddEmission, Queue!AddBlocks, KeepsUnits, pool
    <3> QED
      BY <1>0, <3>1, SameTasks
  <2>3. CASE AmReturns(w, t)
    <3>1. Through(job[w])
      <4>1. t \notin DecoderTasks
        BY PipelineAssumption DEF AmTasks, DecoderTasks
      <4> QED
        BY <1>2, <2>3, <4>1, Zenon DEF Through, AmReturns, AllAdded
    <3>2. Returns
      BY <1>2, <2>3, <3>1, EndReturns, Zenon DEF AmReturns
    <3> QED
      BY <1>0, <2>3, <3>2, Zenon DEF AmReturns, KeepsUnits, emissions
  <2>4. CASE AmThrows(w, t)
    <3>1. Returns
      BY <1>2, <2>4, EndReturns, Zenon DEF AmThrows
    <3> QED
      BY <1>0, <2>4, <3>1, Zenon DEF AmThrows, KeepsUnits, emissions
  <2> QED
    BY <1>2, <2>1, <2>2, <2>3, <2>4 DEF runAmForward
<1>3. ASSUME worker[w] = "running", NEW t \in DecoderTasks, job[w] = t, runDecoder(w, t)
      PROVE  Goal
  <2>0. status[t] = "running"
    BY <1>3 DEF TasksOK
  <2>1. CASE GetEmission(w, t) /\ ~Queue!GetBlocks(t)
    BY <2>0, <2>1, PopStep DEF Goal
  <2>2. CASE GetEmission(w, t) /\ Queue!GetBlocks(t)
    <3>1. KeepsUnits /\ UNCHANGED <<flags, pc, status>>
      BY <2>2, Zenon DEF GetEmission, Queue!GetBlocks, KeepsUnits, pool
    <3> QED
      BY <1>0, <3>1, SameTasks
  <2>3. CASE DecoderReturns(w, t)
    <3>1. KeepsUnits /\ UNCHANGED <<flags, pc>>
      BY <2>3, Zenon DEF DecoderReturns, Queue!GetReturnsFalse, KeepsUnits
    <3>2. Emptied(t)
      <4>1. queue = <<>> /\ isAddingFinished
        BY <2>3 DEF DecoderReturns, Queue!GetReturnsFalse, Queue!isEmpty, UnitsOK
      <4>2. ~(Len(received[t]) > sliceNumSamples[t])
        BY <2>3, Zenon DEF DecoderReturns, Decoding
      <4>3. /\ sliceNumSamples[t] <= Len(received[t]) /\ sliceNumSamples[t] \in Nat
            /\ Len(received[t]) \in Nat
        BY DEF PipelineInv, Counting, UnitsOK
      <4> QED
        BY <4>1, <4>2, <4>3 DEF Emptied
    <3>3. Through(job[w])
      <4>1. t \notin AmTasks
        BY PipelineAssumption DEF AmTasks, DecoderTasks
      <4> QED
        BY <1>3, <3>2, <4>1, Zenon DEF Through
    <3>4. Returns
      BY <1>3, <2>3, <3>3, EndReturns, Zenon DEF DecoderReturns
    <3> QED
      BY <1>0, <3>1, <3>4, Zenon
  <2>4. CASE Decode(w, t)
    BY <2>0, <2>4, DecodeStep, Zenon DEF Goal
  <2>5. CASE DecodeThrows(w, t)
    <3>1. Returns
      BY <1>3, <2>5, EndReturns, Zenon DEF DecodeThrows
    <3> QED
      BY <1>0, <2>5, <3>1, Zenon DEF DecodeThrows, KeepsUnits, emissions
  <2> QED
    BY <1>3, <2>1, <2>2, <2>3, <2>4, <2>5 DEF runDecoder
<1> QED
  BY <1>1, <1>2, <1>3 DEF WorkerStep, Goal

\* A step of the main thread.
LEMMA MainThreadStep ==
  ASSUME PipelineInv, TasksOK, MainStep
  PROVE  Adding' /\ NothingLost' /\ Counting'
<1> DEFINE Goal == Adding' /\ NothingLost' /\ Counting'
<1> HIDE DEF Goal
<1>0. ASSUME Returns, KeepsUnits, UNCHANGED flags, Advances PROVE Goal
  BY <1>0, QuietStep, Zenon DEF Goal
<1>1. ASSUME NEW n \in Workers, LaunchPool(n) PROVE Goal
  BY <1>1, LaunchStep, Zenon DEF Goal
<1>2. ASSUME NEW t \in Tasks, Enqueue(t) PROVE Goal
  <2>1. /\ KeepsUnits /\ UNCHANGED flags /\ convlm' = convlm /\ pc' = pc + 1
        /\ pc \in 1..Len(startThreadsAndJoin) /\ startThreadsAndJoin[pc] = <<"enqueue", t>>
        /\ status[t] = "new" /\ status' = [status EXCEPT ![t] = "queued"]
    BY <1>2, Zenon DEF Enqueue, Pool!enqueue, At, KeepsUnits, emissions, flags
  <2>2. Returns
    BY <2>1, Zenon DEF TasksOK, Returns
  <2>3. Advances
    <3>1. \A a : <<"enqueue", t>> # <<"get", a>>
      BY Zenon
    <3> QED
      BY <2>1, <3>1, PassOne DEF PipelineInv, Advances
  <2> QED
    BY <1>0, <2>1, <2>2, <2>3, Zenon
<1>3. ASSUME NEW t \in Tasks, GetFuture(t) PROVE Goal
  <2>1. /\ KeepsUnits /\ UNCHANGED flags /\ convlm' = convlm /\ status' = status
        /\ pc \in 1..Len(startThreadsAndJoin) /\ startThreadsAndJoin[pc] = <<"get", t>>
        /\ (status[t] = "value" /\ pc' = pc + 1) \/ pc' = 0
    BY <1>3, Zenon DEF GetFuture, At, KeepsUnits, emissions, flags, pool, Unwinding
  <2>2. Advances
    <3>1. CASE pc' = 0
      BY <2>1, <3>1, PassNone DEF PipelineInv, Advances
    <3>2. CASE status[t] = "value" /\ pc' = pc + 1
      <4>1. \A a : <<"get", t>> = <<"get", a>> => t = a
        BY Zenon
      <4> QED
        BY <2>1, <3>2, <4>1, PassOne DEF PipelineInv, Advances
    <3> QED
      BY <2>1, <3>1, <3>2, Zenon
  <2> QED
    BY <1>0, <2>1, <2>2, SameTasks
<1>4. CASE Notify
  <2>1. KeepsUnits /\ UNCHANGED <<flags, pc, status>>
    BY <1>4, Zenon DEF Notify, Pool!NotifyOne, KeepsUnits, emissions
  <2> QED
    BY <1>0, <2>1, SameTasks, SamePosition, Zenon DEF PipelineInv, Goal
<1>5. CASE FinishAdding
  BY <1>5, FinishStep, Zenon DEF Goal
<1>6. CASE DestroyPool
  <2>1. KeepsUnits /\ UNCHANGED <<flags, status>>
    BY <1>6, Zenon DEF DestroyPool, Pool!SetStop, Pool!NotifyAll, Pool!Join, KeepsUnits, emissions
  <2>2. Advances
    <3>1. CASE pc' = pc \/ pc' = -1
      BY <2>1, <3>1, PassNone DEF PipelineInv, Advances, flags
    <3>2. CASE At("destroy", 0) /\ pc' = pc + 1
      <4>1. /\ pc \in 1..Len(startThreadsAndJoin) /\ convlm' = convlm
            /\ startThreadsAndJoin[pc] = <<"destroy", 0>>
        BY <2>1, <3>2, Zenon DEF At, flags
      <4>2. \A a : <<"destroy", 0>> # <<"get", a>>
        BY Zenon
      <4> QED
        BY <3>2, <4>1, <4>2, PassOne DEF PipelineInv, Advances
    <3> QED
      BY <1>6, <3>1, <3>2 DEF DestroyPool, Failed
  <2> QED
    BY <1>0, <2>1, <2>2, SameTasks, Zenon DEF Goal
<1> QED
  BY <1>1, <1>2, <1>3, <1>4, <1>5, <1>6 DEF MainStep, Goal, Tasks

\* Any step.
LEMMA PipelineStep ==
  ASSUME PipelineInv, TasksOK, UnitsOK, Next
  PROVE  PipelineInv'
<1>1. Position' /\ UNCHANGED flags
  BY PositionStep, Zenon DEF PipelineInv
<1>2. CASE SpuriousWakeup
  <2>1. KeepsUnits /\ UNCHANGED pc
    BY <1>2, Zenon DEF SpuriousWakeup, Queue!SpuriousWakeup, KeepsUnits, emissions
  <2>2. Returns
    BY <1>2, PoolStepReturns, SameTasks, Zenon DEF SpuriousWakeup, pool
  <2> QED
    BY <1>1, <2>1, <2>2, QuietStep, SamePosition DEF PipelineInv
<1> QED
  BY <1>1, <1>2, WorkersStep, MainThreadStep DEF Next, PipelineInv

\* Steps of others.
LEMMA PipelineStutters ==
  ASSUME PipelineInv, UNCHANGED vars
  PROVE  PipelineInv'
<1>1. UNCHANGED <<pool, emissions, flags, sliceNumSamples, pc>>
  BY Zenon DEF vars
<1>2. KeepsUnits /\ UNCHANGED status
  BY <1>1, Zenon DEF KeepsUnits, emissions, pool
<1>3. Adding' /\ NothingLost' /\ Counting'
  BY <1>1, <1>2, QuietStep, SameTasks, SamePosition DEF PipelineInv
<1>4. Position'
  BY <1>1, SameSlices, Zenon DEF PipelineInv, Position, Done, startThreadsAndJoin, flags
<1> QED
  BY <1>3, <1>4, Zenon DEF PipelineInv

------------------------------------------------------------------------------
(* The slices of the dataset *)

\* The slice of sample i, i % nAmThreads, and its position there.
LEMMA DivMod ==
  ASSUME NEW n \in Nat \ {0}, NEW i \in Nat
  PROVE  i = (i \div n) * n + (i % n) /\ i % n \in 0..(n - 1) /\ i \div n \in Nat
OBVIOUS

\* A sample has one slice and one position in it.
LEMMA UniqueDivision ==
  ASSUME NEW n \in Nat \ {0}, NEW a \in 0..(n - 1), NEW b \in 0..(n - 1),
         NEW k \in Nat, NEW l \in Nat, a + k * n = b + l * n
  PROVE  a = b /\ k = l
OBVIOUS

\* How many strides of selectedIds fit.
LEMMA Multiples ==
  ASSUME NEW n \in Nat \ {0}, NEW q \in Nat, NEW r \in 0..(n - 1), NEW m \in Nat
  PROVE  m * n \in Nat /\ (m * n <= q * n + r <=> m <= q)
<1>0. m * n \in Nat /\ q * n \in Nat
  OBVIOUS
<1>1. ASSUME m <= q PROVE m * n <= q * n + r
  <2>1. PICK d \in Nat : q = m + d
    <3>1. q - m \in Nat /\ q = m + (q - m)
      BY <1>1
    <3> QED
      BY <3>1
  <2>2. q * n = m * n + d * n /\ d * n \in Nat
    BY <2>1
  <2> QED
    BY <1>0, <2>2
<1>2. ASSUME m > q PROVE ~(m * n <= q * n + r)
  <2>1. PICK d \in Nat : m = q + 1 + d
    <3>1. m - q - 1 \in Nat /\ m = q + 1 + (m - q - 1)
      BY <1>2
    <3> QED
      BY <3>1
  <2>2. m * n = q * n + n + d * n /\ d * n \in Nat
    BY <2>1
  <2> QED
    BY <1>0, <2>2
<1> QED
  BY <1>0, <1>1, <1>2

\* The slice of task t has a k-th sample as long as the strides of selectedIds stay
\* inside the dataset.
LEMMA SliceSize ==
  ASSUME nSamples \in Nat, NEW t \in AmTasks
  PROVE  /\ Cardinality(selectedIds(t)) \in Nat
         /\ \A k \in Nat \ {0} :
              k <= Cardinality(selectedIds(t)) <=> t + (k - 1) * nAmThreads < nSamples
<1> DEFINE n == nAmThreads
           q == (nSamples - 1 - t) \div n
           c == IF t < nSamples THEN q + 1 ELSE 0
<1>0. n \in Nat \ {0} /\ t \in 0..(n - 1) /\ t \in Nat
  BY PipelineAssumption DEF AmTasks
<1>1. c \in Nat /\ \A k \in Nat \ {0} : k <= c <=> t + (k - 1) * n < nSamples
  <2>1. CASE t < nSamples
    <3> DEFINE r == (nSamples - 1 - t) % n
    <3>1. /\ nSamples - 1 - t \in Nat /\ q \in Nat /\ r \in 0..(n - 1)
          /\ nSamples - 1 - t = q * n + r
      <4>1. nSamples - 1 - t \in Nat
        BY <1>0, <2>1
      <4> QED
        BY <1>0, <4>1, DivMod, Zenon
    <3>2. c = q + 1
      BY <2>1
    <3> HIDE DEF q, r, n, c
    <3>3. ASSUME NEW k \in Nat \ {0} PROVE k <= c <=> t + (k - 1) * n < nSamples
      <4>1. k - 1 \in Nat
        OBVIOUS
      <4>2. (k - 1) * n \in Nat /\ ((k - 1) * n <= q * n + r <=> k - 1 <= q)
        BY <1>0, <3>1, <4>1, Multiples
      <4>3. q * n \in Nat
        BY <1>0, <3>1
      <4> DEFINE x == (k - 1) * n
                 y == q * n
      <4> HIDE DEF x, y
      <4>4. x \in Nat /\ y \in Nat /\ (x <= y + r <=> k - 1 <= q) /\ nSamples - 1 - t = y + r
        BY <3>1, <4>2, <4>3 DEF x, y
      <4>5. k <= c <=> t + x < nSamples
        BY <1>0, <3>1, <3>2, <4>4
      <4> QED
        BY <4>5 DEF x
    <3> QED
      BY <3>1, <3>2, <3>3
  <2>2. CASE ~(t < nSamples)
    <3>1. c = 0
      BY <2>2, Zenon
    <3>2. ASSUME NEW k \in Nat \ {0} PROVE ~(t + (k - 1) * n < nSamples)
      <4>1. (k - 1) * n \in Nat
        <5>1. k - 1 \in Nat
          OBVIOUS
        <5> QED
          BY <1>0, <5>1
      <4> QED
        BY <1>0, <2>2, <4>1
    <3> HIDE DEF c
    <3> QED
      BY <3>1, <3>2
  <2> QED
    BY <2>1, <2>2, Zenon
<1> HIDE DEF c, q, n
<1> DEFINE f == [k \in 1..c |-> t + (k - 1) * n]
<1>2. ASSUME NEW k \in 1..c PROVE t + (k - 1) * n \in selectedIds(t)
  <2> DEFINE i == t + (k - 1) * n
  <2>1. k \in Nat \ {0} /\ k - 1 \in Nat /\ i < nSamples
    BY <1>1
  <2>2. i \in Nat
    BY <1>0, <2>1
  <2>3. /\ i = (i \div n) * n + (i % n) /\ i % n \in 0..(n - 1)
        /\ i \div n \in Nat
    BY <1>0, <2>2, DivMod, Zenon
  <2>4. t + (k - 1) * n = (i % n) + (i \div n) * n
    <3>1. (i \div n) * n \in Nat
      BY <1>0, <2>3
    <3> QED
      BY <2>3, <3>1
  <2> HIDE DEF i
  <2>5. t = i % n
    <3> DEFINE a == i % n
               b == i \div n
               l == k - 1
    <3>1. /\ a \in 0..(n - 1) /\ b \in Nat /\ l \in Nat
          /\ t + l * n = a + b * n
      BY <2>1, <2>3, <2>4
    <3> HIDE DEF a, b, l
    <3>2. t = a
      BY <1>0, <3>1, UniqueDivision
    <3> QED
      BY <3>2 DEF a
  <2>6. i \in selectedIds(t)
    BY <2>1, <2>2, <2>5 DEF selectedIds, n
  <2> QED
    BY <2>6 DEF i
<1>3. ASSUME NEW i \in selectedIds(t) PROVE \E k \in 1..c : f[k] = i
  <2>1. i \in Nat /\ i < nSamples /\ i % n = t
    BY DEF selectedIds, n
  <2>2. i = (i \div n) * n + t /\ i \div n \in Nat
    BY <1>0, <2>1, DivMod, Zenon
  <2> DEFINE k == (i \div n) + 1
  <2>3. k \in Nat \ {0} /\ t + (k - 1) * n = i
    BY <1>0, <2>2
  <2> HIDE DEF k
  <2>4. k \in 1..c
    BY <1>1, <2>1, <2>3
  <2> QED
    BY <2>3, <2>4
<1>4. ASSUME NEW k \in 1..c, NEW l \in 1..c, f[k] = f[l] PROVE k = l
  <2>1. t + (k - 1) * n = t + (l - 1) * n
    BY <1>4
  <2>2. k - 1 \in Nat /\ l - 1 \in Nat
    BY <1>1
  <2>3. k - 1 = l - 1
    BY <1>0, <2>1, <2>2, UniqueDivision
  <2> QED
    BY <1>1, <2>3
<1>5. f \in [1..c -> selectedIds(t)]
  BY <1>2
<1> HIDE DEF f
<1>6. f \in Bijection(1..c, selectedIds(t))
  BY <1>3, <1>4, <1>5 DEF Bijection, Injection, Surjection, IsInjective
<1>7. Cardinality(selectedIds(t)) = c
  BY <1>1, <1>6, FS_CountingElements DEF ExistsBijection
<1> QED
  BY <1>1, <1>7 DEF n

\* The k-th sample of the slice of task t, for every k: the units are the samples.
LEMMA UnitsAreSamples ==
  ASSUME nSamples \in Nat
  PROVE  /\ \A t \in AmTasks : \A k \in 1..Cardinality(selectedIds(t)) :
              SampleOf(<<t, k>>) \in 0..(nSamples - 1)
         /\ \A i \in 0..(nSamples - 1) :
              \E t \in AmTasks : \E k \in 1..Cardinality(selectedIds(t)) :
                SampleOf(<<t, k>>) = i
         /\ \A t, u \in AmTasks : \A k, l \in Nat \ {0} :
              SampleOf(<<t, k>>) = SampleOf(<<u, l>>) => t = u /\ k = l
<1> DEFINE n == nAmThreads
<1>0. n \in Nat \ {0} /\ AmTasks = 0..(n - 1)
  BY PipelineAssumption DEF AmTasks
<1>1. \A t, k : SampleOf(<<t, k>>) = t + (k - 1) * n
  BY Zenon DEF SampleOf
<1> HIDE DEF n
<1>2. ASSUME NEW t \in AmTasks, NEW k \in 1..Cardinality(selectedIds(t))
      PROVE  SampleOf(<<t, k>>) \in 0..(nSamples - 1)
  <2>1. k \in Nat \ {0} /\ k - 1 \in Nat /\ t + (k - 1) * n < nSamples
    BY SliceSize DEF n
  <2>2. (k - 1) * n \in Nat /\ t \in Nat
    BY <1>0, <2>1
  <2> QED
    BY <1>1, <2>1, <2>2
<1>3. ASSUME NEW i \in 0..(nSamples - 1)
      PROVE  \E t \in AmTasks : \E k \in 1..Cardinality(selectedIds(t)) :
               SampleOf(<<t, k>>) = i
  <2> DEFINE t == i % n
             b == i \div n
             k == b + 1
  <2>1. i \in Nat /\ i = b * n + t /\ t \in 0..(n - 1) /\ b \in Nat
    <3>1. i \in Nat
      OBVIOUS
    <3> QED
      BY <1>0, <3>1, DivMod, Zenon
  <2> HIDE DEF t, b
  <2>2. k \in Nat \ {0} /\ k - 1 = b /\ b * n \in Nat
    BY <1>0, <2>1
  <2> HIDE DEF k
  <2>3. t + (k - 1) * n = i
    BY <2>1, <2>2
  <2>4. k \in 1..Cardinality(selectedIds(t))
    BY <1>0, <2>1, <2>2, <2>3, SliceSize DEF n
  <2> QED
    BY <1>0, <1>1, <2>1, <2>3, <2>4, Zenon
<1>4. ASSUME NEW t \in AmTasks, NEW u \in AmTasks, NEW k \in Nat \ {0}, NEW l \in Nat \ {0},
             SampleOf(<<t, k>>) = SampleOf(<<u, l>>)
      PROVE  t = u /\ k = l
  <2> DEFINE x == k - 1
             y == l - 1
  <2>1. t + x * n = u + y * n /\ x \in Nat /\ y \in Nat
    BY <1>1, <1>4
  <2> HIDE DEF x, y
  <2>2. t = u /\ x = y
    BY <1>0, <2>1, UniqueDivision
  <2> QED
    BY <2>2 DEF x, y
<1> QED
  BY <1>2, <1>3, <1>4

\* The decoders hold every unit of every slice, each once, and counted what they hold.
AllDecoded ==
  /\ nSamples \in 0..MaxSamples
  /\ received \in [DecoderTasks -> Seq(AmTasks \X (1..MaxSamples))]
  /\ \A c, d \in DecoderTasks :
       \A i \in DOMAIN received[c], j \in DOMAIN received[d] :
         <<c, i>> # <<d, j>> => received[c][i] # received[d][j]
  /\ \A c \in DecoderTasks : \A j \in DOMAIN received[c] :
       received[c][j][2] <= Cardinality(selectedIds(received[c][j][1]))
  /\ \A t \in AmTasks : \A k \in 1..Cardinality(selectedIds(t)) :
       \E c \in DecoderTasks : \E j \in DOMAIN received[c] : received[c][j] = <<t, k>>
  /\ \A c \in DecoderTasks : sliceNumSamples[c] = Len(received[c])

\* Then every sample was handed out once and the counts add up to the dataset.
LEMMA AllCounted ==
  ASSUME AllDecoded
  PROVE  (\A i \in 0..(nSamples - 1) : Deliveries(i) = 1) /\ totalSamples = nSamples
<1> DEFINE Ids == 0..(nSamples - 1)
           Taken == UNION {{c} \X (1..sliceNumSamples[c]) : c \in DecoderTasks}
           id(c, j) == SampleOf(received[c][j])
<1>0. nSamples \in Nat /\ MaxSamples \in Nat /\ nSamples <= MaxSamples
  BY PipelineAssumption DEF AllDecoded
<1>1. \A c \in DecoderTasks :
        /\ DOMAIN received[c] = 1..Len(received[c]) /\ Len(received[c]) \in Nat
        /\ sliceNumSamples[c] = Len(received[c])
        /\ \A j \in DOMAIN received[c] : received[c][j] \in AmTasks \X (1..MaxSamples)
  BY DEF AllDecoded
<1>2. ASSUME NEW c \in DecoderTasks, NEW j \in DOMAIN received[c]
      PROVE  /\ received[c][j] = <<received[c][j][1], received[c][j][2]>>
             /\ received[c][j][1] \in AmTasks /\ received[c][j][2] \in Nat \ {0}
             /\ received[c][j][2] \in 1..Cardinality(selectedIds(received[c][j][1]))
  <2>1. received[c][j] \in AmTasks \X (1..MaxSamples)
    BY <1>1, Zenon
  <2>2. /\ received[c][j] = <<received[c][j][1], received[c][j][2]>>
        /\ received[c][j][1] \in AmTasks /\ received[c][j][2] \in 1..MaxSamples
    BY <2>1
  <2>3. Cardinality(selectedIds(received[c][j][1])) \in Nat
    BY <1>0, <2>2, SliceSize, Zenon
  <2>4. received[c][j][2] <= Cardinality(selectedIds(received[c][j][1]))
    BY Zenon DEF AllDecoded
  <2> QED
    BY <1>0, <2>2, <2>3, <2>4
<1>3. \A c \in DecoderTasks : \A j \in DOMAIN received[c] : id(c, j) \in Ids
  <2> SUFFICES ASSUME NEW c \in DecoderTasks, NEW j \in DOMAIN received[c]
               PROVE  id(c, j) \in Ids
    OBVIOUS
  <2> DEFINE u == received[c][j]
  <2>1. /\ u = <<u[1], u[2]>> /\ u[1] \in AmTasks
        /\ u[2] \in 1..Cardinality(selectedIds(u[1]))
    BY <1>2
  <2> HIDE DEF u
  <2>2. SampleOf(<<u[1], u[2]>>) \in Ids
    BY <1>0, <2>1, UnitsAreSamples
  <2> QED
    BY <2>1, <2>2 DEF u
<1>4. ASSUME NEW c \in DecoderTasks, NEW d \in DecoderTasks, NEW j \in DOMAIN received[c],
             NEW l \in DOMAIN received[d], id(c, j) = id(d, l)
      PROVE  c = d /\ j = l
  <2> DEFINE u == received[c][j]
             v == received[d][l]
  <2>1. /\ u = <<u[1], u[2]>> /\ u[1] \in AmTasks /\ u[2] \in Nat \ {0}
        /\ v = <<v[1], v[2]>> /\ v[1] \in AmTasks /\ v[2] \in Nat \ {0}
        /\ SampleOf(u) = SampleOf(v)
    BY <1>2, <1>4
  <2> HIDE DEF u, v
  <2>2. SampleOf(<<u[1], u[2]>>) = SampleOf(<<v[1], v[2]>>)
    BY <2>1
  <2>3. u[1] = v[1] /\ u[2] = v[2]
    BY <1>0, <2>1, <2>2, UnitsAreSamples
  <2>4. received[c][j] = received[d][l]
    BY <2>1, <2>3, Zenon DEF u, v
  <2> QED
    BY <2>4 DEF AllDecoded
<1>5. \A i \in Ids : \E c \in DecoderTasks : \E j \in DOMAIN received[c] : id(c, j) = i
  <2> SUFFICES ASSUME NEW i \in Ids
               PROVE  \E c \in DecoderTasks : \E j \in DOMAIN received[c] : id(c, j) = i
    BY Zenon
  <2>1. PICK t \in AmTasks :
          \E k \in 1..Cardinality(selectedIds(t)) : SampleOf(<<t, k>>) = i
    BY <1>0, UnitsAreSamples, Zenon
  <2>2. PICK k \in 1..Cardinality(selectedIds(t)) : SampleOf(<<t, k>>) = i
    BY <2>1, Zenon
  <2>3. PICK c \in DecoderTasks : \E j \in DOMAIN received[c] : received[c][j] = <<t, k>>
    BY Zenon DEF AllDecoded
  <2> QED
    BY <2>2, <2>3, Zenon
<1>6. IsFiniteSet(Ids) /\ Cardinality(Ids) = nSamples
  BY <1>0, FS_Interval
<1> HIDE DEF Ids, id
<1>7. ASSUME NEW c \in DecoderTasks PROVE Len(received[c]) <= MaxSamples
  <2> DEFINE f == [j \in 1..Len(received[c]) |-> id(c, j)]
  <2>1. f \in Injection(1..Len(received[c]), Ids)
    <3>1. f \in [1..Len(received[c]) -> Ids]
      BY <1>1, <1>3, Zenon
    <3>2. ASSUME NEW j \in 1..Len(received[c]), NEW l \in 1..Len(received[c]), f[j] = f[l]
          PROVE  j = l
      <4>1. id(c, j) = id(c, l)
        BY <3>2, Zenon
      <4> QED
        BY <1>1, <1>4, <4>1
    <3> HIDE DEF f
    <3> QED
      BY <3>1, <3>2, Zenon DEF Injection, IsInjective
  <2> HIDE DEF f
  <2>2. Cardinality(1..Len(received[c])) <= nSamples
    BY <1>6, <2>1, FS_Injection, Zenon
  <2>3. Cardinality(1..Len(received[c])) = Len(received[c])
    <3> DEFINE m == Len(received[c])
    <3>1. m \in Nat
      BY <1>1, Zenon
    <3> HIDE DEF m
    <3>2. Cardinality(1..m) = m
      BY <3>1, FS_Interval
    <3> QED
      BY <3>2, Zenon DEF m
  <2> QED
    BY <1>0, <1>1, <2>2, <2>3
<1>8. ASSUME NEW i \in Ids PROVE Deliveries(i) = 1
  <2> DEFINE G == {g \in DecoderTasks \X (1..MaxSamples) :
                     g[2] <= Len(received[g[1]]) /\ SampleOf(received[g[1]][g[2]]) = i}
  <2>0. PICK c \in DecoderTasks : \E j \in DOMAIN received[c] : id(c, j) = i
    BY <1>5
  <2>1. PICK j \in DOMAIN received[c] : id(c, j) = i
    BY <2>0
  <2>2. <<c, j>> \in G
    <3>1. j \in 1..MaxSamples /\ j <= Len(received[c])
      BY <1>0, <1>1, <1>7
    <3> QED
      BY <2>1, <3>1 DEF id
  <2>3. ASSUME NEW g \in G PROVE g = <<c, j>>
    <3>1. g = <<g[1], g[2]>> /\ g[1] \in DecoderTasks /\ g[2] \in DOMAIN received[g[1]]
      BY <1>0, <1>1
    <3>2. id(g[1], g[2]) = i
      BY Zenon DEF id
    <3> QED
      BY <1>4, <2>1, <3>1, <3>2
  <2> HIDE DEF G
  <2>4. G = {<<c, j>>}
    BY <2>2, <2>3, Zenon
  <2> QED
    BY <2>4, FS_Singleton, Zenon DEF Deliveries, G
<1>9. totalSamples = nSamples
  <2> DEFINE f == [g \in Taken |-> id(g[1], g[2])]
  <2>1. \A g \in Taken :
          g = <<g[1], g[2]>> /\ g[1] \in DecoderTasks /\ g[2] \in DOMAIN received[g[1]]
    BY <1>1
  <2>2. \A c \in DecoderTasks : \A j \in DOMAIN received[c] : <<c, j>> \in Taken
    BY <1>1
  <2> HIDE DEF Taken
  <2>3. f \in [Taken -> Ids]
    BY <1>3, <2>1
  <2>4. IsInjective(f)
    <3> SUFFICES ASSUME NEW g \in Taken, NEW h \in Taken, f[g] = f[h] PROVE g = h
      BY Zenon DEF IsInjective
    <3>1. id(g[1], g[2]) = id(h[1], h[2])
      BY Zenon
    <3> QED
      BY <1>4, <2>1, <3>1
  <2>5. \A i \in Ids : \E g \in Taken : f[g] = i
    <3> SUFFICES ASSUME NEW i \in Ids PROVE \E g \in Taken : f[g] = i
      OBVIOUS
    <3>0. PICK c \in DecoderTasks : \E j \in DOMAIN received[c] : id(c, j) = i
      BY <1>5
    <3>1. PICK j \in DOMAIN received[c] : id(c, j) = i
      BY <3>0
    <3>2. <<c, j>> \in Taken /\ f[<<c, j>>] = i
      BY <2>2, <3>1
    <3> QED
      BY <3>2
  <2> HIDE DEF f
  <2>6. f \in Injection(Taken, Ids) /\ f \in Surjection(Taken, Ids)
    BY <2>3, <2>4, <2>5 DEF Injection, Surjection
  <2>7. Cardinality(Taken) = Cardinality(Ids)
    BY <1>6, <2>6, FS_Injection
  <2> QED
    BY <1>6, <2>7, Zenon DEF totalSamples, Taken
<1> QED
  BY <1>8, <1>9, Zenon DEF Ids

------------------------------------------------------------------------------
(* The beginning and the end *)

\* A pool that was just constructed, with any number of threads.
FreshPool ==
  /\ tasks = <<>> /\ stop = FALSE /\ notifying = {} /\ owner = "alive"
  /\ worker \in [Workers -> {"loop", "exited"}]
  /\ job = [w \in Workers |-> -1]
  /\ status = [t \in Tasks |-> "new"]

\* The program starts with no pool and an empty queue.
LEMMA PipelineStarts == Init => PipelineInv /\ FreshPool
<1> SUFFICES ASSUME Init PROVE PipelineInv /\ FreshPool
  OBVIOUS
<1>1. FreshPool
  BY DEF Init, Pool!ThreadPool, FreshPool, Tasks
<1>2. Position
  <2>1. convlm \in BOOLEAN
    BY Zenon DEF Init
  <2>2. Len(startThreadsAndJoin) \in Nat
    BY <2>1, ScriptOrder DEF Ordered
  <2>3. nSamples \in 0..MaxSamples
    BY PipelineAssumption, Zenon DEF Init
  <2>4. \A t \in AmTasks : Cardinality(selectedIds(t)) \in Nat
    BY <2>3, SliceSize, PipelineAssumption
  <2> QED
    BY <2>1, <2>2, <2>3, <2>4 DEF Init, Position, Done
<1>3. \A a : ~Passed("get", a)
  BY DEF Init, Passed
<1>4. \A t \in Tasks : status[t] # "value"
  BY <1>1 DEF FreshPool
<1>5. /\ isAddingFinished = FALSE /\ sent = [t \in AmTasks |-> 0]
      /\ received = [t \in DecoderTasks |-> <<>>]
      /\ sliceNumSamples = [t \in DecoderTasks |-> 0]
  BY DEF Init, Queue!Init
<1>6. Adding
  <2>1. \A t \in AmTasks : 0 <= Cardinality(selectedIds(t))
    BY <1>2 DEF Position
  <2> QED
    BY <1>3, <1>4, <1>5, <2>1 DEF Adding, Tasks
<1>7. NothingLost
  BY <1>5 DEF NothingLost
<1>8. Counting
  BY <1>3, <1>4, <1>5 DEF Counting, Tasks
<1> QED
  BY <1>1, <1>2, <1>6, <1>7, <1>8 DEF PipelineInv

\* At the end the decoders hold all there is.
LEMMA EndIsAllDecoded ==
  ASSUME PipelineInv, UnitsOK, pc = Done,
         \A c, d \in DecoderTasks :
           \A i \in DOMAIN received[c], j \in DOMAIN received[d] :
             <<c, i>> # <<d, j>> => received[c][i] # received[d][j],
         \A c \in DecoderTasks : \A j \in DOMAIN received[c] :
           received[c][j][2] <= sent[received[c][j][1]]
  PROVE  AllDecoded
<1>1. \A t \in DecoderTasks : Passed("get", t)
  <2>1. startThreadsAndJoin \in Seq(Ops)
        /\ \A t \in DecoderTasks : Has(startThreadsAndJoin, <<"get", t>>)
    BY ScriptOrder DEF Ordered, PipelineInv, Position
  <2>2. \A k \in 1..Len(startThreadsAndJoin) : k < pc
    <3>1. Len(startThreadsAndJoin) \in Nat
      BY <2>1
    <3> QED
      BY <3>1 DEF Done
  <2> QED
    BY <2>1, <2>2, Zenon DEF Has, Passed
<1>2. \A t \in DecoderTasks : Emptied(t)
  BY <1>1 DEF PipelineInv, Counting
<1>3. queue = <<>> /\ isAddingFinished
  <2>1. nAmThreads \in DecoderTasks
    BY PipelineAssumption DEF DecoderTasks
  <2> QED
    BY <1>2, <2>1 DEF Emptied
<1>4. \A t \in AmTasks : sent[t] = Cardinality(selectedIds(t))
  BY <1>3, Zenon DEF PipelineInv, Adding, AllAdded
<1>5. \A t \in AmTasks : \A k \in 1..Cardinality(selectedIds(t)) :
        \E c \in DecoderTasks : \E j \in DOMAIN received[c] : received[c][j] = <<t, k>>
  <2>1. DOMAIN queue = {}
    BY <1>3
  <2> QED
    BY <1>4, <2>1, Zenon DEF PipelineInv, NothingLost
<1>6. \A c \in DecoderTasks : \A j \in DOMAIN received[c] : received[c][j][1] \in AmTasks
  BY DEF UnitsOK
<1>7. \A c \in DecoderTasks : sliceNumSamples[c] = Len(received[c])
  BY <1>2, Zenon DEF Emptied
<1> QED
  BY <1>4, <1>5, <1>6, <1>7, Zenon DEF AllDecoded, UnitsOK, PipelineInv, Position

------------------------------------------------------------------------------
(* The queue, from its own proof *)

QueueProofs == INSTANCE ProducerConsumerQueueProofs
                 WITH Producers <- AmTasks, Consumers <- DecoderTasks,
                      maxSize <- emission_queue_size, MaxUnits <- MaxSamples,
                      MaxResets <- 0

\* The constants are ones the queue may be used with.
LEMMA QueueAssumptionHolds == QueueProofs!QueueAssumption
<1>1. AmTasks \cap DecoderTasks = {}
  BY PipelineAssumption DEF AmTasks, DecoderTasks
<1> QED
  BY <1>1, PipelineAssumption, Zenon DEF QueueProofs!QueueAssumption

\* What the invariant of the queue says to the pipeline.
LEMMA FromQueue == ASSUME QueueProofs!DeliveryInv PROVE UnitsOK
BY DEF QueueProofs!DeliveryInv, QueueProofs!TypeOK, QueueProofs!Units, UnitsOK

\* The pipeline uses the queue as its specification allows.
LEMMA UsesQueue ==
  ASSUME Next
  PROVE  QueueProofs!Next \/ UNCHANGED emissions
<1>1. ASSUME NEW t \in AmTasks, Queue!add(t) PROVE QueueProofs!Next
  <2>1. QueueProofs!add(t)
    <3>1. CASE Queue!AddBlocks(t)
      BY <3>1 DEF Queue!AddBlocks, QueueProofs!AddBlocks, Queue!MayAdd, QueueProofs!MayAdd,
                  Queue!isFull, QueueProofs!isFull, QueueProofs!add
    <3>2. CASE Queue!AddIgnored(t)
      BY <3>2 DEF Queue!AddIgnored, QueueProofs!AddIgnored, Queue!MayAdd, QueueProofs!MayAdd,
                  QueueProofs!add
    <3>3. CASE Queue!AddPushes(t)
      BY <3>3, Zenon DEF Queue!AddPushes, QueueProofs!AddPushes, Queue!MayAdd, QueueProofs!MayAdd,
                  Queue!isFull, QueueProofs!isFull, Queue!NotifyOne, QueueProofs!NotifyOne,
                  Queue!AddWakesProducer, QueueProofs!AddWakesProducer, QueueProofs!add
    <3> QED
      BY <1>1, <3>1, <3>2, <3>3 DEF Queue!add
  <2> QED
    BY <2>1 DEF QueueProofs!Next
<1>2. ASSUME NEW t \in DecoderTasks,
             Queue!GetBlocks(t) \/ Queue!GetReturnsUnit(t) \/ Queue!GetReturnsFalse(t)
      PROVE  QueueProofs!Next
  <2>1. QueueProofs!get(t)
    <3>1. CASE Queue!GetBlocks(t)
      BY <3>1 DEF Queue!GetBlocks, QueueProofs!GetBlocks, Queue!isEmpty, QueueProofs!isEmpty,
                  QueueProofs!get
    <3>2. CASE Queue!GetReturnsFalse(t)
      BY <3>2 DEF Queue!GetReturnsFalse, QueueProofs!GetReturnsFalse, Queue!isEmpty,
                  QueueProofs!isEmpty, QueueProofs!get
    <3>3. CASE Queue!GetReturnsUnit(t)
      BY <3>3, Zenon DEF Queue!GetReturnsUnit, QueueProofs!GetReturnsUnit, Queue!isEmpty,
                  QueueProofs!isEmpty, Queue!NotifyOne, QueueProofs!NotifyOne,
                  Queue!GetWakesConsumer, QueueProofs!GetWakesConsumer,
                  Queue!GetWakesProducer, QueueProofs!GetWakesProducer, QueueProofs!get
    <3> QED
      BY <1>2, <3>1, <3>2, <3>3
  <2> QED
    BY <2>1 DEF QueueProofs!Next
<1>3. ASSUME NEW w \in Workers, WorkerStep(w) PROVE QueueProofs!Next \/ UNCHANGED emissions
  BY <1>1, <1>2, <1>3, Zenon
  DEF WorkerStep, runAmForward, AddEmission, AmReturns, AmThrows, runDecoder, GetEmission,
      DecoderReturns, Decode, DecodeThrows
<1>4. CASE SpuriousWakeup
  <2>1. ASSUME Queue!SpuriousWakeup PROVE QueueProofs!Next
    BY <2>1 DEF Queue!SpuriousWakeup, QueueProofs!SpuriousWakeup, QueueProofs!Next
  <2> QED
    BY <1>4, <2>1 DEF SpuriousWakeup
<1>5. CASE FinishAdding
  BY <1>5 DEF FinishAdding, Queue!finishAdding, QueueProofs!finishAdding, QueueProofs!Next
<1>6. CASE MainStep
  BY <1>5, <1>6, Zenon DEF MainStep, LaunchPool, Enqueue, Notify, GetFuture, DestroyPool
<1> QED
  BY <1>3, <1>4, <1>6 DEF Next

\* The queue keeps its invariant.
LEMMA QueueKept ==
  ASSUME QueueProofs!DeliveryInv, [Next]_vars
  PROVE  QueueProofs!DeliveryInv'
<1>1. QueueProofs!Next \/ UNCHANGED emissions
  BY UsesQueue DEF vars
<1> QED
  BY <1>1, QueueAssumptionHolds, QueueProofs!DeliveryStep DEF emissions, QueueProofs!vars

\* The empty queue satisfies it.
LEMMA QueueStarts == Init => QueueProofs!DeliveryInv
<1> SUFFICES ASSUME Init PROVE QueueProofs!DeliveryInv
  OBVIOUS
<1>1. QueueProofs!Init
  BY DEF Init, Queue!Init, QueueProofs!Init
<1>2. QueueProofs!TypeOK
  BY <1>1, QueueAssumptionHolds, QueueProofs!InitInv DEF QueueProofs!Inv
<1> QED
  BY <1>1, <1>2 DEF QueueProofs!Init, QueueProofs!DeliveryInv, QueueProofs!UnitsWereSent,
                    QueueProofs!DeliveredOnceInOrder

\* With what the queue guarantees, nothing is missing or counted twice at the end.
LEMMA EndIsCounted ==
  ASSUME PipelineInv, QueueProofs!DeliveryInv
  PROVE  EverySampleCountedOnce
<1> SUFFICES ASSUME pc = Done
             PROVE  /\ \A i \in 0..(nSamples - 1) : Deliveries(i) = 1
                    /\ totalSamples = nSamples
  BY DEF EverySampleCountedOnce
<1>1. /\ \A c, d \in DecoderTasks :
           \A i \in DOMAIN received[c], j \in DOMAIN received[d] :
             <<c, i>> # <<d, j>> => received[c][i] # received[d][j]
      /\ \A c \in DecoderTasks : \A j \in DOMAIN received[c] :
           received[c][j][2] <= sent[received[c][j][1]]
  BY DEF QueueProofs!DeliveryInv, QueueProofs!DeliveredOnceInOrder,
         QueueProofs!UnitsWereSent
<1>2. AllDecoded
  BY <1>1, FromQueue, EndIsAllDecoded
<1> QED
  BY <1>2, AllCounted

------------------------------------------------------------------------------
(* The pool, from its own proof *)

PoolProofs == INSTANCE ThreadPoolProofs
                WITH Clients <- {Main}, Tasks <- AmTasks \cup DecoderTasks,
                     NoTask <- -1

\* The threads and tasks are ones the pool may be used with.
LEMMA PoolAssumptionHolds == PoolProofs!PoolAssumption
<1>1. IsFiniteSet({Main}) /\ IsFiniteSet(Workers)
  <2>1. nAmThreads + nDecoderThreads \in Int /\ 1 \in Int
    BY PipelineAssumption
  <2> QED
    BY <2>1, FS_Singleton, FS_Interval, Zenon DEF Workers
<1>2. /\ -1 \notin AmTasks \cup DecoderTasks /\ {Main} \cap Workers = {}
      /\ Workers # {}
  <2>1. 1 \in Workers
    BY PipelineAssumption DEF Workers
  <2> QED
    BY <2>1, PipelineAssumption DEF AmTasks, DecoderTasks, Main, Workers
<1> QED
  BY <1>1, <1>2 DEF PoolProofs!PoolAssumption, PoolProofs!IsFiniteSet, IsFiniteSet

\* What the invariant of the pool says to the pipeline.
LEMMA FromPool == ASSUME PoolProofs!TaskInv PROVE TasksOK
<1>1. /\ status \in [Tasks -> {"new", "queued", "running", "rejected", "value", "exception"}]
      /\ tasks \in Seq(Tasks)
  BY DEF PoolProofs!TaskInv, PoolProofs!TypeOK, PoolProofs!Outcomes, Tasks
<1>2. \A w \in Workers :
        worker[w] = "running" => job[w] \in Tasks /\ status[job[w]] = "running"
  BY DEF PoolProofs!TaskInv, PoolProofs!EachTaskOnce, PoolProofs!Running, Tasks
<1>3. tasks # <<>> => Head(tasks) \in Tasks /\ status[Head(tasks)] = "queued"
  <2> SUFFICES ASSUME tasks # <<>>
               PROVE  Head(tasks) \in Tasks /\ status[Head(tasks)] = "queued"
    OBVIOUS
  <2>1. 1 \in 1..Len(tasks) /\ Head(tasks) = tasks[1] /\ Head(tasks) \in Tasks
    BY <1>1
  <2> QED
    BY <2>1 DEF PoolProofs!TaskInv, PoolProofs!EachTaskOnce
<1> QED
  BY <1>1, <1>2, <1>3 DEF TasksOK

\* The constructor establishes that invariant.
LEMMA FreshTasks == FreshPool => PoolProofs!TaskInv
<1> SUFFICES ASSUME FreshPool PROVE PoolProofs!TaskInv
  OBVIOUS
<1>1. /\ \A w \in Workers : worker[w] # "running" /\ job[w] = -1
      /\ \A t \in Tasks : status[t] = "new"
      /\ Len(tasks) = 0 /\ tasks \in Seq(Tasks)
  BY DEF FreshPool
<1>2. /\ stop \in BOOLEAN /\ notifying = {} /\ owner = "alive"
      /\ worker \in [Workers -> {"loop", "waiting", "running", "exited"}]
      /\ job \in [Workers -> Tasks \cup {-1}]
  BY Zenon DEF FreshPool
<1>3. status \in [Tasks -> {"new", "queued", "running", "rejected"} \cup PoolProofs!Outcomes]
  BY DEF FreshPool
<1>4. PoolProofs!TypeOK
  BY <1>1, <1>2, <1>3 DEF PoolProofs!TypeOK, Tasks
<1>5. PoolProofs!Running = {}
  BY <1>1 DEF PoolProofs!Running
<1>6. PoolProofs!EachTaskOnce
  BY <1>1, <1>5 DEF PoolProofs!EachTaskOnce, Tasks
<1>7. PoolProofs!RunningIsRun
  BY <1>1 DEF PoolProofs!RunningIsRun, Tasks
<1> QED
  BY <1>4, <1>6, <1>7, Zenon DEF PoolProofs!TaskInv

\* A step of the pipeline that is not a constructor or an enqueue is one the pool's
\* specification allows, or none of the pool's business.
LEMMA UsesPool ==
  ASSUME Next
  PROVE  \/ PoolProofs!Next \/ UNCHANGED pool
         \/ \E n \in Workers : LaunchPool(n)
         \/ \E t \in Tasks : Enqueue(t)
<1> DEFINE Goal == PoolProofs!Next \/ UNCHANGED pool
<1>1. ASSUME NEW w \in Workers,
             \/ Pool!Block(w) \/ Pool!Exit(w) \/ Pool!Take(w) \/ Pool!SpuriousWakeup(w)
             \/ \E o \in {"value", "exception"} : Pool!Finish(w, o)
      PROVE  PoolProofs!Next
  <2>1. CASE Pool!Block(w)
    BY <2>1, Zenon DEF Pool!Block, PoolProofs!Block, PoolProofs!WorkerStep, PoolProofs!Next
  <2>2. CASE Pool!Exit(w)
    BY <2>2, Zenon DEF Pool!Exit, PoolProofs!Exit, PoolProofs!WorkerStep, PoolProofs!Next
  <2>3. CASE Pool!Take(w)
    BY <2>3, Zenon DEF Pool!Take, PoolProofs!Take, PoolProofs!WorkerStep, PoolProofs!Next
  <2>4. CASE Pool!SpuriousWakeup(w)
    BY <2>4, Zenon DEF Pool!SpuriousWakeup, PoolProofs!SpuriousWakeup, PoolProofs!Next
  <2>5. ASSUME NEW o \in {"value", "exception"}, Pool!Finish(w, o) PROVE PoolProofs!Next
    <3>1. o \in PoolProofs!Outcomes /\ PoolProofs!Finish(w, o)
      BY <2>5 DEF Pool!Finish, PoolProofs!Finish, PoolProofs!Outcomes
    <3> QED
      BY <3>1 DEF PoolProofs!WorkerStep, PoolProofs!Next
  <2> QED
    BY <1>1, <2>1, <2>2, <2>3, <2>4, <2>5
<1>2. ASSUME NEW w \in Workers, WorkerStep(w) PROVE Goal
  BY <1>1, <1>2, Zenon
  DEF WorkerStep, runAmForward, AddEmission, AmReturns, AmThrows, runDecoder, GetEmission,
      DecoderReturns, Decode, DecodeThrows
<1>3. CASE SpuriousWakeup
  BY <1>1, <1>3 DEF SpuriousWakeup
<1>4. CASE Notify
  <2>1. PoolProofs!NotifyOne(Main)
    BY <1>4 DEF Notify, Pool!NotifyOne, PoolProofs!NotifyOne, Pool!Waiting, PoolProofs!Waiting
  <2> QED
    BY <2>1 DEF PoolProofs!Next
<1>5. CASE DestroyPool
  <2>1. PoolProofs!SetStop \/ PoolProofs!NotifyAll \/ PoolProofs!Join
    BY <1>5 DEF DestroyPool, Pool!SetStop, PoolProofs!SetStop, Pool!NotifyAll,
                PoolProofs!NotifyAll, Pool!Join, PoolProofs!Join
  <2> QED
    BY <2>1 DEF PoolProofs!Destroy, PoolProofs!Next
<1>6. ASSUME (\E t \in Tasks : GetFuture(t)) \/ FinishAdding PROVE UNCHANGED pool
  BY <1>6 DEF GetFuture, FinishAdding
<1> QED
  BY <1>2, <1>3, <1>4, <1>5, <1>6 DEF Next, MainStep, Tasks

\* The pool keeps its invariant.
LEMMA PoolKept ==
  ASSUME PoolProofs!TaskInv, [Next]_vars
  PROVE  PoolProofs!TaskInv'
<1>1. CASE PoolProofs!Next \/ UNCHANGED pool
  BY <1>1, PoolAssumptionHolds, PoolProofs!NextTaskInv DEF pool, PoolProofs!vars
<1>2. ASSUME NEW n \in Workers, LaunchPool(n) PROVE PoolProofs!TaskInv'
  <2>1. FreshPool'
    BY <1>2 DEF LaunchPool, FreshPool, Tasks
  <2> QED
    BY <2>1, FreshTasks, PTL
<1>3. ASSUME NEW t \in Tasks, Enqueue(t) PROVE PoolProofs!TaskInv'
  <2>1. PoolProofs!enqueue(Main, t)
    BY <1>3 DEF Enqueue, Pool!enqueue, PoolProofs!enqueue
  <2> QED
    BY <2>1, PoolAssumptionHolds, PoolProofs!EnqueueInv DEF Tasks
<1>4. CASE UNCHANGED vars
  BY <1>1, <1>4 DEF vars
<1> QED
  BY <1>1, <1>2, <1>3, <1>4, UsesPool

------------------------------------------------------------------------------
(* Theorem *)

IInv == PipelineInv /\ QueueProofs!DeliveryInv /\ PoolProofs!TaskInv

\* When startThreadsAndJoin has returned, every sample of the dataset was decoded exactly
\* once and totalSamples counts each once, whatever the numbers of threads, the size of
\* the queue and the interleaving.
THEOREM DecodingIsComplete == Spec => []EverySampleCountedOnce
<1>1. Init => IInv
  BY PipelineStarts, QueueStarts, FreshTasks DEF IInv
<1>2. IInv /\ [Next]_vars => IInv'
  <2> SUFFICES ASSUME IInv, [Next]_vars PROVE PipelineInv'
    BY QueueKept, PoolKept DEF IInv
  <2>1. CASE Next
    BY <2>1, PipelineStep, FromPool, FromQueue DEF IInv
  <2> QED
    BY <2>1, PipelineStutters DEF IInv
<1>3. IInv => EverySampleCountedOnce
  BY EndIsCounted DEF IInv
<1> QED
  BY <1>1, <1>2, <1>3, PTL DEF Spec
==============================================================================
