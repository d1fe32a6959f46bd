------------------------------ MODULE Datasets ------------------------------
(***************************************************************************)
(* How the samples of an epoch are divided over the ranks of a job:        *)
(* createDataset of the ASR applications, DistributedDataset of the image  *)
(* applications and TextDataset of the language model, over the adapters   *)
(* and partitions of fl/dataset.                                           *)
(*                                                                         *)
(* A dataset is the sequence of what get(0), get(1)... return.  Samples    *)
(* are numbered from 0; a batch is the sequence of its samples.            *)
(***************************************************************************)
EXTENDS Integers, Sequences, FiniteSets, FiniteSetsExt, SequencesExt

VARIABLES
  request,   \* which dataset is made, with its arguments
  shares     \* what each rank was given

datasetVars == <<request, shares>>

Throws == <<"throws">>
Unshared == <<"unshared">>

\* count numbers from offset on.
Numbers(offset, count) == [b \in 1..count |-> b - 1 + offset]

\* std::partial_sum, with the 0 in front.
Cumulative(sizes) ==
  FoldLeft(LAMBDA sums, size : Append(sums, sums[Len(sums)] + size), <<0>>, sizes)

------------------------------------------------------------------------------
(* Adapters *)

\* upper_bound finds the dataset that an index belongs to, past empty ones.
ConcatDataset(datasets) ==
  LET ends == Cumulative([k \in DOMAIN datasets |-> Len(datasets[k])]) IN
  [i \in 1..Last(ends) |->
     LET k == Max({j \in DOMAIN ends : ends[j] <= i - 1}) IN
     datasets[k][i - ends[k]]]

ResampleDataset(dataset, resampleVec) ==
  [i \in DOMAIN resampleVec |-> dataset[resampleVec[i] + 1]]

BatchDataset(dataset, batchSize, policy) ==
  LET preBatchSize == Len(dataset)
      size == IF policy = "SKIP_LAST" THEN preBatchSize \div batchSize
              ELSE (preBatchSize + batchSize - 1) \div batchSize IN
  [i \in 1..size |->
     SubSeq(dataset, batchSize * (i - 1) + 1, Min({batchSize * i, preBatchSize}))]

\* The constructor for batches of given sizes.
BatchDatasetOf(dataset, batchSizes) ==
  LET ends == Cumulative(batchSizes) IN
  IF batchSizes = <<>> THEN Throws
  ELSE [i \in DOMAIN batchSizes |->
          SubSeq(dataset, ends[i] + 1, Min({ends[i + 1], Len(dataset)}))]

------------------------------------------------------------------------------
(* Partitions *)

\* Whole global batches, and a last one that is shared evenly.
\* Mutant: the ranks that get one sample more are not skipped over.
PartitionOverlaps(numSamples, partitionId, numPartitions, batchSz, allowEmpty) ==
  LET global == numPartitions * batchSz
      rest == numSamples % global
      start == numSamples - rest
      least == rest \div numPartitions
      remaining == rest % numPartitions IN
  FlattenSeq([i \in 1..(numSamples \div global) |->
                Numbers((i - 1) * global + batchSz * partitionId, batchSz)])
  \o IF rest >= numPartitions \/ (allowEmpty /\ rest > 0)
     THEN Numbers(start + least * partitionId,
                  least + IF partitionId < remaining THEN 1 ELSE 0)
     ELSE <<>>

partitionByRoundRobin(numSamples, partitionId, numPartitions, batchSz, allowEmpty) ==
  LET global == numPartitions * batchSz
      rest == numSamples % global
      start == numSamples - rest
      least == rest \div numPartitions
      remaining == rest % numPartitions IN
  FlattenSeq([i \in 1..(numSamples \div global) |->
                Numbers((i - 1) * global + batchSz * partitionId, batchSz)])
  \o IF rest >= numPartitions \/ (allowEmpty /\ rest > 0)
     THEN Numbers(start + least * partitionId + Min({partitionId, remaining}),
                  least + IF partitionId < remaining THEN 1 ELSE 0)
     ELSE <<>>

\* One sample of the packing loop: it joins the batch, or begins the next one when
\* the batch, padded to its longest sample, would be too large.
Pack(pack, size, maxSizePerBatch) ==
  LET longest == Max({pack.longest, size}) IN
  IF (pack.count + 1) * longest > maxSizePerBatch
  THEN [batches |-> Append(pack.batches, pack.count), count |-> 1, longest |-> size]
  ELSE [pack EXCEPT !.count = @ + 1, !.longest = longest]

\* The sizes of all batches.  The last one is left out when it is exactly full.
PackedSizes(sizes, maxSizePerBatch) ==
  LET last == FoldLeft(LAMBDA pack, size : Pack(pack, size, maxSizePerBatch),
                       [batches |-> <<>>, count |-> 0, longest |-> 0], sizes) IN
  IF last.count * last.longest < maxSizePerBatch
  THEN Append(last.batches, last.count) ELSE last.batches

\* A sample for which the packing loop throws.
SampleTooLong(sizes, maxSizePerBatch) == \E i \in DOMAIN sizes : sizes[i] > maxSizePerBatch

\* The batches of partitionId: the numbers of its samples, and its batch sizes.
dynamicPartitionByRoundRobin(sizes, partitionId, numPartitions, maxSizePerBatch, allowEmpty) ==
  LET batchSizes == PackedSizes(sizes, maxSizePerBatch)
      offsets == Cumulative(batchSizes)
      n == Len(batchSizes)
      global == n \div numPartitions
                + IF allowEmpty /\ n % numPartitions > 0 THEN 1 ELSE 0
      indices == SelectSeq([i \in 1..global |-> (i - 1) * numPartitions + partitionId + 1],
                           LAMBDA index : index <= n) IN
  [samples |-> FlattenSeq([i \in DOMAIN indices |->
                 Numbers(offsets[indices[i]], batchSizes[indices[i]])]),
   batchSizes |-> [i \in DOMAIN indices |-> batchSizes[indices[i]]]]

------------------------------------------------------------------------------
(* createDataset of app/asr/runtime/Helpers.cpp *)

\* The samples of all lists, the longest first.
SortedIds(sizes) ==
  SortSeq(Numbers(0, Len(sizes)),
          LAMBDA l, r : \/ sizes[l + 1] > sizes[r + 1]
                        \/ sizes[l + 1] = sizes[r + 1] /\ l < r)

\* q.order is the permutation of the random strategies, the same on all ranks.
createDataset(q, worldRank) ==
  LET lists == [k \in DOMAIN q.lists |->
                  Numbers(Cumulative([j \in DOMAIN q.lists |-> Len(q.lists[j])])[k],
                          Len(q.lists[k]))]
      sizes == FlattenSeq(q.lists)
      ids == IF q.order = <<>> THEN SortedIds(sizes) ELSE q.order
      sorted == ResampleDataset(ConcatDataset(lists), ids)
      fixed == partitionByRoundRobin(Len(sorted), worldRank, q.worldSize, q.batchSize,
                                     q.allowEmpty)
      dynamic == dynamicPartitionByRoundRobin(ResampleDataset(sizes, ids), worldRank,
                                              q.worldSize, q.batchSize, q.allowEmpty) IN
  IF ~q.dynamic
  THEN BatchDataset(ResampleDataset(sorted, fixed), q.batchSize, "INCLUDE_LAST")
  ELSE IF SampleTooLong(sizes, q.batchSize) THEN Throws
  ELSE BatchDatasetOf(ResampleDataset(sorted, dynamic.samples), dynamic.batchSizes)

------------------------------------------------------------------------------
(* DistributedDataset of ext/image *)

\* q.order is what ShuffleDataset made of the seed, the same on all ranks.
DistributedDataset(q, worldRank) ==
  LET n == Len(q.order)
      partitionSize == n \div q.worldSize + IF worldRank < n % q.worldSize THEN 1 ELSE 0
      perm == [i \in 1..partitionSize |->
                 ((i - 1) * q.worldSize + worldRank) \div q.nRepeated] IN
  BatchDataset(ResampleDataset(q.order, perm), q.batchSize, q.policy)

------------------------------------------------------------------------------
(* PartialFileReader and TextDataset *)

\* A file is the numbers of words of its lines, of one letter each; q.newline says
\* whether its last line ends in a newline.
Bytes(q) ==
  [i \in DOMAIN q.words |->
     Max({1, 2 * q.words[i]}) - IF i = Len(q.words) /\ ~q.newline THEN 1 ELSE 0]

\* Where a getline from position ends; tellg cannot tell after the end of the file.
AfterLine(q, position) ==
  LET ends == Cumulative(Bytes(q))
      end == Min({e \in ToSet(ends) : e > position}) IN
  IF end = Last(ends) /\ ~q.newline THEN -1 ELSE end

\* The lines that the reader of a rank returns: none after its stream has failed.
loadFile(q, rank) ==
  LET starts == Cumulative(Bytes(q))
      fileSize == Last(starts)
      chunkSize == fileSize \div q.worldSize
      end == IF rank < q.worldSize - 1 THEN AfterLine(q, chunkSize * (rank + 1))
             ELSE fileSize
      begin == IF rank > 0 THEN AfterLine(q, chunkSize * rank) ELSE 0 IN
  IF end = -1 \/ begin = -1 THEN <<>>
  ELSE SelectSeq([i \in DOMAIN q.words |-> i], LAMBDA i : starts[i] \in begin..(end - 1))

\* The break mode none: the text in samples of tokensPerSample tokens, the last one
\* shorter, as pairs of the first and the last position.
BreakNone(q, lines) ==
  LET nTokens == 1 + MapThenSumSet(LAMBDA i : q.words[lines[i]] + 1, DOMAIN lines)
      nSamples == (nTokens + q.tokensPerSample - 1) \div q.tokensPerSample IN
  BatchDataset([s \in 1..nSamples |->
                  <<(s - 1) * q.tokensPerSample,
                    Min({s * q.tokensPerSample, nTokens}) - 1>>],
               q.batchSize, "INCLUDE_LAST")

\* One line of the break mode eos, where a sample is a line with an eos on each side.
AddSentence(q, acc, line) ==
  LET batch == Append(acc.batch, line)
      isFull == IF q.dynamic
                THEN (q.words[line] + 2) * (Len(batch) + 1) > q.batchSize * q.tokensPerSample
                ELSE Len(batch) = q.batchSize IN
  IF isFull THEN [batches |-> Append(acc.batches, batch), batch |-> <<>>]
  ELSE [acc EXCEPT !.batch = batch]

BreakEos(q, lines) ==
  LET sorted == IF q.dynamic
                THEN SortSeq(lines, LAMBDA l, r : q.words[l] < q.words[r]) ELSE lines
      end == FoldLeft(LAMBDA acc, line : AddSentence(q, acc, line),
                      [batches |-> <<>>, batch |-> <<>>], sorted) IN
  IF end.batch = <<>> THEN end.batches ELSE Append(end.batches, end.batch)

TextDataset(q, rank) ==
  IF q.breakMode = "none" THEN BreakNone(q, loadFile(q, rank))
  ELSE BreakEos(q, loadFile(q, rank))

------------------------------------------------------------------------------
(* Every rank makes its dataset from the same request *)

MakeDataset ==
  /\ shares = Unshared
  /\ shares' = [rank \in 0..(request.worldSize - 1) |->
                  CASE request.kind = "asr" -> createDataset(request, rank)
                    [] request.kind = "image" -> DistributedDataset(request, rank)
                    [] request.kind = "text" -> TextDataset(request, rank)]
  /\ UNCHANGED request

------------------------------------------------------------------------------
(* Properties *)

Ranks == 0..(request.worldSize - 1)

\* The places <<rank, batch, position>> of all ranks where sample is used.
Uses(sample) ==
  {<<r, b, i>> \in UNION {UNION {{<<r, b, i>> : i \in DOMAIN shares[r][b]} :
                                   b \in DOMAIN shares[r]} : r \in Ranks} :
     shares[r][b][i] = sample}

\* The numbers of batches of two ranks differ by at most most.
Balanced(most) == \A r, s \in Ranks : Len(shares[r]) <= Len(shares[s]) + most

AsrDivided ==
  LET sizes == FlattenSeq(request.lists)
      ids == IF request.order = <<>> THEN SortedIds(sizes) ELSE request.order
      left == {i \in DOMAIN ids : Uses(ids[i]) = {}}
      longest(S) == Max({sizes[x + 1] : x \in S}) IN
  /\ \A x \in ToSet(ids) : Cardinality(Uses(x)) <= 1
  /\ Balanced(IF request.allowEmpty THEN 1 ELSE 0)
  /\ \A i \in left, j \in DOMAIN ids : i < j => j \in left
  /\ \A r \in Ranks : \A b \in DOMAIN shares[r] :
       LET batch == shares[r][b] IN
       IF request.dynamic
       THEN batch = <<>> \/ Len(batch) * longest(ToSet(batch)) <= request.batchSize
       ELSE Len(batch) \in 1..request.batchSize
  /\ IF request.dynamic
     THEN request.allowEmpty /\ left # {} =>
            Cardinality(left) * longest({ids[i] : i \in left}) = request.batchSize
     ELSE Cardinality(left) < IF request.allowEmpty THEN 1 ELSE request.worldSize

\* A sample is too long for all ranks, or there are no batches for some.
AsrThrows ==
  \/ \A r \in Ranks : shares[r] = Throws
  \/ \A r \in Ranks : shares[r] # Throws => Len(shares[r]) = 1

ImageDivided ==
  LET n == Len(request.order)
      uses(i) == Uses(request.order[i])
      skipped == IF request.policy = "SKIP_LAST" THEN request.batchSize - 1 ELSE 0 IN
  /\ \A i \in 1..n : Cardinality(uses(i)) <= request.nRepeated
  /\ \A i \in 1..n : request.nRepeated <= request.worldSize =>
       \A u, v \in uses(i) : u # v => u[1] # v[1]
  /\ MapThenSumSet(LAMBDA i : Cardinality(uses(i)), 1..n) \in (n - request.worldSize * skipped)..n
  /\ Balanced(1)

TextDivided ==
  IF request.breakMode = "none"
  THEN \A r \in Ranks :
         LET samples == FlattenSeq(shares[r]) IN
         /\ samples # <<>> /\ Head(samples)[1] = 0
         /\ \A i \in 2..Len(samples) : samples[i][1] = samples[i - 1][2] + 1
         /\ \A i \in DOMAIN samples : samples[i][1] <= samples[i][2]
         /\ \A b \in DOMAIN shares[r] : Len(shares[r][b]) <= request.batchSize
  ELSE /\ \A line \in DOMAIN request.words :
            Cardinality(Uses(line)) = 1 \/ (~request.newline /\ Uses(line) = {})
       /\ \A r \in Ranks : \A b \in DOMAIN shares[r] :
            request.dynamic \/ Len(shares[r][b]) \in 1..request.batchSize

\* The ranks divide the samples of an epoch among them without talking to each other:
\* no sample is given to two of them (for DistributedDataset: to more than nRepeated, or
\* twice to one), no batch is larger than asked for, and the ranks agree on the number
\* of batches, which the collectives of an update rely on; with allowEmpty, and in
\* DistributedDataset, it differs by at most one.  What createDataset leaves out is the
\* end of the order: fewer samples than ranks for fixed batches; with allowEmpty nothing,
\* or a last dynamic batch that is exactly full.  Every line of a file that ends in a
\* newline is read by exactly one rank.
EpochIsDivided ==
  shares # Unshared =>
    CASE request.kind = "asr" ->
           IF \E r \in Ranks : shares[r] = Throws THEN AsrThrows ELSE AsrDivided
      [] request.kind = "image" -> ImageDivided
      [] request.kind = "text" -> TextDivided

==============================================================================
