----------------------------- MODULE BlobDataset -----------------------------
(***************************************************************************)
(* fl/dataset/BlobDataset.{h,cpp} with FileBlobDataset.cpp or              *)
(* MemoryBlobDataset.cpp, used by several threads, closed, or lost in a    *)
(* crash, and opened again.                                                *)
(*                                                                         *)
(* The blob is a sequence of cells, and offset o is cell o + 1.  A number  *)
(* of the header or the index takes one cell, an entry of the table two,   *)
(* its size and its offset; a cell of an array says which array it is of.  *)
(*                                                                         *)
(* Each thread has its own stream on the file.  A stream keeps what it     *)
(* wrote last until it is flushed, closed or moved to another place, and   *)
(* one that met the end of the file fails from then on.                    *)
(***************************************************************************)
EXTENDS Integers, Sequences, FiniteSets, FiniteSetsExt, SequencesExt

CONSTANTS
  BlobThreads,
  SampleShapes, \* samples to add, as the sizes of their arrays
  ChunkSizes,   \* for add of a blob
  MaxSamples, MaxOpens  \* bounds for TLC

VARIABLES
  onDisk,    \* a FileBlobDataset, or a MemoryBlobDataset
  store,     \* the cells, and for each thread what its stream holds, and if it failed
  blob,      \* entries_, sizes_, offsets_, indexOffset_
  thread,    \* what each thread does
  samples,   \* what was added, by whom, and whether that thread then flushed it
  indexed,   \* whether writeIndex was the last to change the index
  raced,     \* whether entries_ was read while it was moved
  answer,    \* of get, when it returns
  opens, kept  \* how often it was opened; whether all samples were there

blobVars == <<onDisk, store, blob, thread, samples, indexed, raced, answer, opens, kept>>

Cell(array, v) == [array |-> array, v |-> v]
Num(v) == Cell(0, v)
magicNumber == Num(77)
HeaderSize == 2
Content(array, size) == [k \in 1..size |-> Cell(array, k)]
NoWrite == [at |-> 0, cells |-> <<>>]
Idle == [op |-> "idle"]

------------------------------------------------------------------------------
(* writeData, readData, flushData, by thread t on store s *)

Put(cells, w) ==
  IF w.cells = <<>> THEN cells
  ELSE [k \in 1..Max({Len(cells), w.at + Len(w.cells)}) |->
          IF k > w.at /\ k <= w.at + Len(w.cells) THEN w.cells[k - w.at]
          ELSE IF k <= Len(cells) THEN cells[k] ELSE Num(0)]

flushData(s, t) ==
  [s EXCEPT !.cells = Put(@, s.pending[t]), !.pending = [@ EXCEPT ![t] = NoWrite]]

writeData(s, t, at, cells) ==
  LET w == [at |-> at, cells |-> cells] IN
  IF onDisk THEN [flushData(s, t) EXCEPT !.pending = [@ EXCEPT ![t] = w]]
  ELSE [s EXCEPT !.cells = Put(@, w)]

\* The memory gives what there is; the buffer of the caller was zero.
readData(s, at, n) ==
  [k \in 1..n |-> IF at + k <= Len(s.cells) THEN s.cells[at + k] ELSE Num(0)]
Past(s, at, n) == onDisk /\ at + n > Len(s.cells)

Fold2(Op(_, _), s, q) ==
  LET f[k \in 0..Len(q)] ==
        IF k = 0 THEN s ELSE CHOOSE r \in {Op(p, q[k]) : p \in {f[k - 1]}} : TRUE IN
  f[Len(q)]

------------------------------------------------------------------------------
(* The index *)

NewBlob == [entries |-> <<>>, sizes |-> <<>>, offsets |-> <<>>, indexOffset |-> HeaderSize]
NoBlob == <<>>

Nums(q) == [k \in DOMAIN q |-> Num(q[k])]
TableOf(entries) ==
  FlattenSeq([k \in DOMAIN entries |-> Nums(<<entries[k].size, entries[k].at>>)])

\* The writes of writeIndex, in their order.
IndexWrites(b) ==
  LET n == Len(b.sizes)
      start == b.indexOffset IN
  <<[at |-> 0, cells |-> <<magicNumber>>],
    [at |-> 1, cells |-> <<Num(start)>>],
    [at |-> start, cells |-> <<Num(n)>>],
    [at |-> start + 1, cells |-> <<Num(Len(b.entries))>>],
    [at |-> start + 2, cells |-> Nums(b.sizes)],
    [at |-> start + 2 + n, cells |-> Nums(b.offsets)],
    [at |-> start + 2 + 2 * n, cells |-> TableOf(b.entries)]>>

WriteAll(s, t, writes) ==
  Fold2(LAMBDA p, w : writeData(p, t, w.at, w.cells), s, writes)

\* What the constructor reads, or NoBlob if it throws or reads an array as numbers.
readIndex(s) ==
  LET Number(o) == s.cells[o + 1].v
      start == Number(1)
      n == Number(start)
      m == Number(start + 1)
      entry(k) == start + 2 + 2 * n + 2 * (k - 1)
      last == start + 2 + 2 * n + 2 * m
      Numbers(o, k) == [i \in 1..k |-> Number(o + i - 1)] IN
  IF s.cells = <<>> THEN NewBlob
  ELSE IF \/ Len(s.cells) < HeaderSize \/ s.cells[1] # magicNumber
          \/ start + 2 > Len(s.cells) \/ last > Len(s.cells)
          \/ \E o \in start..(last - 1) : s.cells[o + 1].array # 0
  THEN NoBlob
  ELSE [sizes |-> Numbers(start + 2, n), offsets |-> Numbers(start + 2 + n, n),
        entries |-> [k \in 1..m |-> [size |-> Number(entry(k)), at |-> Number(entry(k) + 1)]],
        indexOffset |-> start]

EntriesOf(b, idx) ==
  SubSeq(b.entries, b.offsets[idx] + 1, b.offsets[idx] + b.sizes[idx])

------------------------------------------------------------------------------
(* BlobThreads that use an open blob *)

NoAnswer == [idx |-> 0, promised |-> FALSE, threw |-> FALSE, arrays |-> <<>>]

Open == blob # NoBlob /\ ~raced
Free(t) == thread[t] = Idle
Others(t) == {u \in BlobThreads \ {t} : thread[u] # Idle}

\* t flushed what it added before.
SettledBy(q, t) ==
  [n \in DOMAIN q |-> IF q[n].by = t /\ q[n].done THEN [q[n] EXCEPT !.settled = TRUE] ELSE q[n]]

Added(arrays, t, done) == [arrays |-> arrays, by |-> t, done |-> done, settled |-> FALSE]

EntriesFrom(at, shape) ==
  [i \in DOMAIN shape |->
     [size |-> shape[i], at |-> at + FoldLeft(+, 0, SubSeq(shape, 1, i - 1))]]

\* add(sample), under the mutex.  A table that grows out of its memory moves.
addIndex(t, shape, moves) ==
  LET n == Len(samples) + 1 IN
  /\ Open /\ Free(t) /\ n <= MaxSamples
  /\ blob' = [blob EXCEPT !.offsets = Append(@, Len(blob.entries)),
                          !.sizes = Append(@, Len(shape)),
                          !.entries = @ \o EntriesFrom(blob.indexOffset, shape),
                          !.indexOffset = @ + FoldLeft(+, 0, shape)]
  /\ samples' = Append(samples,
                  Added([i \in DOMAIN shape |-> Content(10 * n + i, shape[i])], t, FALSE))
  /\ thread' = [thread EXCEPT ![t] = [op |-> "add", n |-> n, next |-> 1,
                                      entryOffset |-> Len(blob.entries)]]
  /\ indexed' = FALSE
  /\ raced' = (moves /\ Others(t) # {})
  /\ answer' = NoAnswer
  /\ UNCHANGED <<onDisk, store, opens, kept>>

\* add(sample), after the mutex: the next array, or the return.
addArray(t) ==
  LET a == thread[t]
      sample == samples[a.n] IN
  /\ Open /\ a.op = "add"
  /\ IF a.next > Len(sample.arrays)
     THEN /\ samples' = [samples EXCEPT ![a.n].done = TRUE]
          /\ thread' = [thread EXCEPT ![t] = Idle]
          /\ UNCHANGED <<store, raced>>
     ELSE IF store.failed[t]
     THEN /\ thread' = [thread EXCEPT ![t] = Idle]
          /\ UNCHANGED <<store, samples, raced>>
     ELSE LET e == blob.entries[a.entryOffset + a.next] IN
          /\ store' = writeData(store, t, e.at, sample.arrays[a.next])
          /\ thread' = [thread EXCEPT ![t].next = @ + 1]
          \* The memory, when it grows, moves under those who read.
          /\ raced' = (/\ Len(store'.cells) > Len(store.cells) /\ ~onDisk
                       /\ \E u \in Others(t) : thread[u].op = "get")
          /\ UNCHANGED samples
  /\ answer' = NoAnswer
  /\ UNCHANGED <<onDisk, blob, indexed, opens, kept>>

\* The blob that add(blob) is given: two samples, in memory.
OtherArrays == << <<Content(91, 2)>>, <<Content(92, 1), Content(93, 0)>> >>
Other ==
  [blob |-> [sizes |-> <<1, 2>>, offsets |-> <<0, 1>>,
             entries |-> EntriesFrom(HeaderSize, <<2, 1, 0>>), indexOffset |-> HeaderSize + 3],
   cells |-> <<Num(0), Num(0)>> \o Content(91, 2) \o Content(92, 1)]

\* The sizes that copyChunk is called with.
Chunks(copySize, chunkSize) ==
  LET remain == copySize % chunkSize IN
  [i \in 1..(copySize \div chunkSize) |-> chunkSize]
  \o (IF remain > 0 THEN <<remain>> ELSE <<>>)

ChunkWrites(at, chunks) ==
  [i \in DOMAIN chunks |->
     LET done == FoldLeft(+, 0, SubSeq(chunks, 1, i - 1)) IN
     [at |-> at + done,
      cells |-> readData(Other, HeaderSize + done, chunks[i])]]

\* With a stream that failed it throws at the first chunk.
addBlob(t, chunkSize, moves) ==
  LET copySize == Other.blob.indexOffset - HeaderSize
      writes == ChunkWrites(blob.indexOffset, Chunks(copySize, chunkSize)) IN
  /\ Open /\ Free(t) /\ Len(samples) < MaxSamples
  /\ blob' = [sizes |-> blob.sizes \o Other.blob.sizes,
              offsets |-> blob.offsets
                          \o [k \in 1..2 |-> Other.blob.offsets[k] + Len(blob.entries)],
              entries |-> blob.entries
                          \o [k \in 1..3 |-> [Other.blob.entries[k] EXCEPT
                                                !.at = @ + blob.indexOffset - HeaderSize]],
              indexOffset |-> blob.indexOffset + (IF store.failed[t] THEN 0 ELSE copySize)]
  /\ store' = IF store.failed[t] THEN store ELSE WriteAll(store, t, writes)
  /\ samples' = samples \o [k \in 1..2 |-> Added(OtherArrays[k], t, ~store.failed[t])]
  /\ indexed' = FALSE
  /\ raced' = (moves /\ Others(t) # {})
  /\ answer' = NoAnswer
  /\ UNCHANGED <<onDisk, thread, opens, kept>>

\* get(idx) by t is called, and reads the arrays one after the other.
getBegin(t, idx) ==
  /\ Open /\ Free(t) /\ idx <= Len(blob.sizes)
  /\ thread' = [thread EXCEPT ![t] =
       [op |-> "get", idx |-> idx,
        promised |-> /\ samples[idx].done /\ ~store.failed[t]
                     /\ samples[idx].settled \/ samples[idx].by = t]]
  /\ answer' = NoAnswer
  /\ UNCHANGED <<onDisk, store, blob, samples, indexed, raced, opens, kept>>

get(t) ==
  LET g == thread[t]
      own == flushData(store, t)
      entries == EntriesOf(blob, g.idx)
      reads == {i \in DOMAIN entries : entries[i].size > 0}
      throws == \/ store.failed[t] /\ reads # {}
                \/ \E i \in reads : Past(own, entries[i].at, entries[i].size) IN
  /\ Open /\ g.op = "get"
  /\ store' = IF reads = {} \/ store.failed[t] THEN store
              ELSE [own EXCEPT !.failed[t] = throws]
  /\ answer' = [idx |-> g.idx, promised |-> g.promised, threw |-> throws,
                arrays |-> IF throws THEN <<>>
                           ELSE [i \in DOMAIN entries |->
                                   readData(own, entries[i].at, entries[i].size)]]
  /\ thread' = [thread EXCEPT ![t] = Idle]
  /\ UNCHANGED <<onDisk, blob, samples, indexed, raced, opens, kept>>

\* A stream that failed holds nothing.
flush(t) ==
  /\ Open /\ Free(t) /\ ~store.failed[t]
  /\ store' = flushData(store, t)
  /\ samples' = SettledBy(samples, t)
  /\ answer' = NoAnswer
  /\ UNCHANGED <<onDisk, blob, thread, indexed, raced, opens, kept>>

\* Mutant: writeIndex leaves the index to the stream.
WriteIndexNoFlush(t) ==
  /\ Open /\ Free(t) /\ ~store.failed[t]
  /\ store' = WriteAll(store, t, IndexWrites(blob))
  /\ samples' = SettledBy(samples, t)
  /\ indexed' = TRUE
  /\ answer' = NoAnswer
  /\ UNCHANGED <<onDisk, blob, thread, raced, opens, kept>>

\* With a stream that failed it throws before it writes.
writeIndex(t) ==
  /\ Open /\ Free(t) /\ ~store.failed[t]
  /\ store' = flushData(WriteAll(store, t, IndexWrites(blob)), t)
  /\ samples' = SettledBy(samples, t)
  /\ indexed' = TRUE
  /\ answer' = NoAnswer
  /\ UNCHANGED <<onDisk, blob, thread, raced, opens, kept>>

------------------------------------------------------------------------------
(* BlobThreads that end, the destructor, crashes and the constructor *)

CloseStreams(s, ts) ==
  [cells |-> Fold2(LAMBDA cells, t : Put(cells, s.pending[t]), s.cells, SetToSeq(ts)),
   pending |-> [t \in BlobThreads |-> IF t \in ts THEN NoWrite ELSE s.pending[t]],
   failed |-> [t \in BlobThreads |-> t \notin ts /\ s.failed[t]]]

\* The streams of a thread go with it; another takes its place.
threadEnds(t) ==
  /\ Open /\ Free(t) /\ onDisk
  /\ store' = CloseStreams(store, {t})
  /\ samples' = SettledBy(samples, t)
  /\ answer' = NoAnswer
  /\ UNCHANGED <<onDisk, blob, thread, indexed, raced, opens, kept>>

close ==
  /\ Open /\ onDisk /\ \A t \in BlobThreads : Free(t)
  /\ store' = CloseStreams(store, BlobThreads)
  /\ samples' = [n \in DOMAIN samples |-> [samples[n] EXCEPT !.settled = samples[n].done]]
  /\ blob' = NoBlob
  /\ answer' = NoAnswer
  /\ UNCHANGED <<onDisk, thread, indexed, raced, opens, kept>>

\* The process ends, in the middle of whatever its threads do.  Of what the
\* streams hold some may have reached the file.
crash ==
  /\ Open /\ onDisk
  /\ \E ts \in SUBSET BlobThreads :
       store' = [CloseStreams(store, ts) EXCEPT
                   !.pending = [t \in BlobThreads |-> NoWrite],
                   !.failed = [t \in BlobThreads |-> FALSE]]
  /\ blob' = NoBlob
  /\ thread' = [t \in BlobThreads |-> Idle]
  /\ answer' = NoAnswer
  /\ UNCHANGED <<onDisk, samples, indexed, raced, opens, kept>>

\* The process ends in writeIndex, after k of its writes.
crashInWriteIndex(t, k) ==
  /\ Open /\ Free(t) /\ ~store.failed[t] /\ onDisk
  /\ store' = [flushData(WriteAll(store, t, SubSeq(IndexWrites(blob), 1, k)), t) EXCEPT
                 !.pending = [u \in BlobThreads |-> NoWrite],
                 !.failed = [u \in BlobThreads |-> FALSE]]
  /\ blob' = NoBlob
  /\ thread' = [u \in BlobThreads |-> Idle]
  /\ answer' = NoAnswer
  /\ UNCHANGED <<onDisk, samples, indexed, raced, opens, kept>>

\* Whether the file must hold all that was added.
Clean == indexed /\ \A n \in DOMAIN samples : samples[n].settled

\* Opened again to read and write.  Without an index of all of it the samples
\* are lost, and the behaviour ends.
reopen ==
  LET b == readIndex(store) IN
  /\ blob = NoBlob /\ ~raced /\ kept /\ onDisk /\ opens < MaxOpens
  /\ opens' = opens + 1
  /\ kept' = (b # NoBlob /\ Len(b.sizes) = Len(samples))
  /\ blob' = IF Clean THEN b ELSE NoBlob
  /\ IF Clean THEN UNCHANGED indexed ELSE indexed' = FALSE
  /\ answer' = NoAnswer
  /\ UNCHANGED <<onDisk, store, thread, samples, raced>>

NoStore ==
  [cells |-> <<>>, pending |-> [t \in BlobThreads |-> NoWrite], failed |-> [t \in BlobThreads |-> FALSE]]

BlobInit ==
  /\ onDisk \in BOOLEAN /\ store = NoStore /\ blob = NewBlob
  /\ thread = [t \in BlobThreads |-> Idle] /\ samples = <<>>
  /\ indexed = FALSE /\ raced = FALSE /\ answer = NoAnswer
  /\ opens = 1 /\ kept = TRUE

BlobStep ==
  \/ \E t \in BlobThreads :
       \/ \E shape \in SampleShapes, moves \in BOOLEAN : addIndex(t, shape, moves)
       \/ addArray(t)
       \/ \E chunkSize \in ChunkSizes, moves \in BOOLEAN : addBlob(t, chunkSize, moves)
       \/ \E idx \in DOMAIN samples : getBegin(t, idx)
       \/ get(t)
       \/ flush(t)
       \/ writeIndex(t)
       \/ threadEnds(t)
       \/ \E k \in 1..6 : crashInWriteIndex(t, k)
  \/ close
  \/ crash
  \/ reopen

------------------------------------------------------------------------------

\* A get answers with the arrays of its sample whenever that was added by the
\* same thread, or by one that flushed, wrote the index or ended since (unless
\* the stream of the reader had failed); and a file whose index was written
\* after the last add has all its samples, after the destructor or a crash,
\* when each was flushed by the thread that added it.  Both while no table
\* moves under another thread, in spite of adds that interleave, writes that a
\* stream still holds, an index that data overwrites and blobs added in chunks.
BlobReadsBack ==
  ~raced =>
    /\ answer.promised => ~answer.threw /\ answer.arrays = samples[answer.idx].arrays
    /\ kept \/ ~Clean
==============================================================================
