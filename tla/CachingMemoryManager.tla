------------------------ MODULE CachingMemoryManager ------------------------
(***************************************************************************)
(* The caching device allocator of                                         *)
(* fl/memory/managers/CachingMemoryManager.{h,cpp}: the DeviceMemoryInfo   *)
(* of the active device.  Every operation holds mutexAll_ from start to    *)
(* end, so each is one step.                                               *)
(*                                                                         *)
(* A Block object is named by its ptr_, the address of the memory it       *)
(* stands for; live blocks never share one (BlocksDisjoint below).  When a *)
(* block changes its ptr_ (it is split off, or merged into its left        *)
(* neighbour) the links that point to the object follow the new name.      *)
(* The counters of native calls are statistics only and are left out.      *)
(***************************************************************************)
EXTENDS Integers, FiniteSets, FiniteSetsExt

CONSTANTS kMinBlockSize, kSmallSize, kSmallBuffer, kLargeBuffer,
          kMinLargeAlloc, kRoundLarge,
          Requests,            \* sizes a caller may ask for
          NativeBases,         \* addresses the native allocator may return
          DeviceEnd,           \* end of the device memory
          RecyclingSizeLimits, \* values given to setRecyclingSizeLimit
          SplitSizeLimits,     \* values given to setSplitSizeLimit
          UserPtrs,            \* buffers the program got from the native
                               \* allocator itself, of kMinBlockSize bytes
          SizeMod,             \* 2^64: size_t arithmetic is modulo this
          MaxLive              \* bound: blocks handed out at the same time

nullptr == 0

\* The relations between the constants that the algorithm relies on.
ASSUME SizeAssumption ==
  /\ kMinBlockSize \in Nat \ {0}
  /\ {kSmallSize, kSmallBuffer, kLargeBuffer, kMinLargeAlloc, kRoundLarge}
        \subseteq Nat \ {0}
  /\ \A k \in {kSmallSize, kSmallBuffer, kLargeBuffer, kRoundLarge} :
        k % kMinBlockSize = 0
  /\ kSmallSize < kSmallBuffer
  /\ kSmallSize < kMinLargeAlloc /\ kMinLargeAlloc <= kLargeBuffer
  /\ Requests \subseteq Nat
  /\ NativeBases \subseteq Nat \ {0} /\ UserPtrs \subseteq Nat \ {0}
  /\ DeviceEnd \in Nat
  /\ RecyclingSizeLimits \subseteq Nat /\ SplitSizeLimits \subseteq Nat
  /\ SizeMod \in Nat \ {0} /\ MaxLive \in Nat

\* The device memory is addressed with a size_t.
ASSUME AddressAssumption == DeviceEnd < SizeMod

VARIABLES info,                \* the DeviceMemoryInfo, see Init
          native,              \* native allocations: address -> size
          userHeld,            \* the UserPtrs the program has not freed
          recyclingSizeLimit, splitSizeLimit,
          oomSize              \* native size of an alloc that just threw, or 0

vars == <<info, native, userHeld, recyclingSizeLimit, splitSizeLimit, oomSize>>

------------------------------------------------------------------------------
(* Sizes *)

roundSize(size) ==
  IF size < kMinBlockSize
  THEN kMinBlockSize
  ELSE kMinBlockSize * ((size + kMinBlockSize - 1) \div kMinBlockSize)

getAllocationSize(size) ==
  IF size <= kSmallSize THEN kSmallBuffer
  ELSE IF size < kMinLargeAlloc THEN kLargeBuffer
  ELSE kRoundLarge * ((size + kRoundLarge - 1) \div kRoundLarge)

------------------------------------------------------------------------------
(* Blocks and pools.  m is a DeviceMemoryInfo. *)

\* managerLock_ and userLock_ are the members of locks.
Block(size) ==
  [size |-> size, locks |-> {}, prev |-> nullptr, next |-> nullptr]

SetLocks(blocks, p, locks) == [blocks EXCEPT ![p] = [@ EXCEPT !.locks = locks]]

isSplit(b) == b.prev # nullptr \/ b.next # nullptr

inUse(b) == b.locks # {}

PoolOf(size) == IF size <= kSmallSize THEN "small" ELSE "large"

Cached(m) == m.pool["small"] \cup m.pool["large"]

\* BlockComparator: by size, then by address.
BlockComparator(m, p, q) ==
  \/ m.blocks[p].size < m.blocks[q].size
  \/ m.blocks[p].size = m.blocks[q].size /\ p < q

\* pool.lower_bound(&searchKey): the set of the first block of the pool that is
\* no smaller than the request, empty if it has none.
LowerBound(m, pool, size) ==
  LET fits == {p \in m.pool[pool] : m.blocks[p].size >= size}
  IN  {p \in fits : \A q \in fits \ {p} : BlockComparator(m, p, q)}

\* Unsigned subtraction.
Minus(a, b) == (a - b) % SizeMod

\* Block l and its right neighbour become one, named l; the block after them
\* points back to it.
Merged(blocks, l) ==
  LET r == blocks[l].next
  IN  [q \in DOMAIN blocks \ {r} |->
        IF q = l THEN [blocks[l] EXCEPT !.size = @ + blocks[r].size,
                                        !.next = blocks[r].next]
        ELSE IF q = blocks[r].next THEN [blocks[q] EXCEPT !.prev = l]
        ELSE blocks[q]]

\* The early return of tryMergeBlocks.  Mutant: it merges with a block in use.
UnmergeableIfNull(m, dst, src) == src = nullptr

Unmergeable(m, dst, src) == src = nullptr \/ inUse(m.blocks[src])

\* pool.erase(block).
Erase(pools, pool, p) == [pools EXCEPT ![pool] = @ \ {p}]

Insert(pools, pool, p) == [pools EXCEPT ![pool] = @ \cup {p}]

\* dst has no lock, so whichever object survives, the merged block is the same.
tryMergeBlocks(m, dst, src, pool) ==
  IF Unmergeable(m, dst, src)
  THEN m
  ELSE [m EXCEPT
         !.blocks = Merged(@, IF m.blocks[dst].prev = src THEN src ELSE dst),
         !.pool = Erase(@, pool, src),
         !.cachedBytes = Minus(@, m.blocks[src].size)]

\* freeBlock(p).  The pool is chosen by the size before merging; d is the name
\* of the block once it took in its left neighbour.
freeBlock(m, p) ==
  LET pool == PoolOf(m.blocks[p].size)
      left == tryMergeBlocks(m, p, m.blocks[p].prev, pool)
      d    == IF p \in DOMAIN left.blocks THEN p ELSE m.blocks[p].prev
      both == tryMergeBlocks(left, d, left.blocks[d].next, pool)
  IN  [both EXCEPT
        !.pool = Insert(@, pool, d),
        !.cachedBytes = @ + both.blocks[d].size]

\* The cached blocks that are a whole native allocation.  Mutant: only those of
\* the large pool.
ReleasableLarge(m) == {p \in m.pool["large"] : ~isSplit(m.blocks[p])}

Releasable(m) == {p \in Cached(m) : ~isSplit(m.blocks[p])}

\* signalMemoryCleanup: freeBlocks on the large, then on the small pool.
signalMemoryCleanup(m) ==
  LET gone  == Releasable(m)
      bytes == MapThenSumSet(LAMBDA p : m.blocks[p].size, gone)
  IN  [m EXCEPT
        !.blocks = [p \in DOMAIN m.blocks \ gone |-> m.blocks[p]],
        !.pool = [q \in {"small", "large"} |-> m.pool[q] \ gone],
        !.allocatedBytes = Minus(@, bytes),
        !.cachedBytes = Minus(@, bytes)]

\* The rest of alloc once block p is at hand: split off what is not needed,
\* lock the block and register it.
SplitThreshold(pool) == IF pool = "small" THEN kMinBlockSize ELSE kSmallSize

Splits(b, size, pool, limit) ==
  b.size - size >= SplitThreshold(pool) /\ b.size < limit

\* What is left of block b = *p when size bytes are split off its front.  The
\* mutant forgets one of the assignments to remaining.
RemainingKeepsSize(b, p, size) == [b EXCEPT !.prev = p]

Remaining(b, p, size) == [b EXCEPT !.size = @ - size, !.prev = p]

\* Block p is cut in two: size bytes, locked by who, and the remaining ones.
Split(blocks, p, size, who) ==
  LET b    == blocks[p]
      rest == p + size
  IN  [q \in DOMAIN blocks \cup {rest} |->
        IF q = p THEN [b EXCEPT !.size = size, !.locks = {who}, !.next = rest]
        ELSE IF q = rest THEN Remaining(b, p, size)
        ELSE IF q = b.next THEN [blocks[q] EXCEPT !.prev = rest]
        ELSE blocks[q]]

HandOut(m, p, size, pool, limit, who) ==
  LET b == m.blocks[p]
  IN  IF Splits(b, size, pool, limit)
      THEN [m EXCEPT
             !.blocks = Split(@, p, size, who),
             !.pool = Insert(@, pool, p + size),
             !.cachedBytes = @ + (b.size - size),
             !.allocated = @ \cup {p}]
      ELSE [m EXCEPT
             !.blocks = SetLocks(@, p, {who}),
             !.allocated = @ \cup {p}]

\* A block is taken out of its pool to be handed out again.  Mutant:
\* cachedBytes_ keeps counting the block.
RecycleUncounted(m, p, pool) == [m EXCEPT !.pool = Erase(@, pool, p)]

Recycle(m, p, pool) ==
  [m EXCEPT !.pool = Erase(@, pool, p),
            !.cachedBytes = Minus(@, m.blocks[p].size)]

\* A new block for a fresh native allocation.
NewBlock(m, p, size) ==
  [m EXCEPT
    !.blocks = [q \in DOMAIN m.blocks \cup {p} |->
                  IF q = p THEN Block(size) ELSE m.blocks[q]],
    !.allocatedBytes = @ + size]

------------------------------------------------------------------------------
(* The native allocator of the device (external): it returns any address    *)
(* with enough free room behind it and throws when there is none.           *)

NativeGaps(nat, user, size) ==
  {a \in NativeBases :
     /\ a + size <= DeviceEnd
     /\ \A b \in DOMAIN nat : a + size <= b \/ b + nat[b] <= a
     /\ \A u \in user : a + size <= u \/ u + kMinBlockSize <= a}

NativeAlloc(nat, a, size) ==
  [b \in DOMAIN nat \cup {a} |-> IF b = a THEN size ELSE nat[b]]

NativeFree(nat, gone) == [b \in DOMAIN nat \ gone |-> nat[b]]

------------------------------------------------------------------------------
(* Operations *)

Init ==
  /\ info = [blocks |-> [p \in {} |-> Block(0)],
             pool |-> [q \in {"small", "large"} |-> {}],
             allocated |-> {}, allocatedBytes |-> 0, cachedBytes |-> 0]
  /\ native = [a \in {} |-> 0]
  /\ userHeld = UserPtrs
  /\ recyclingSizeLimit \in RecyclingSizeLimits
  /\ splitSizeLimit \in SplitSizeLimits
  /\ oomSize = 0

Locks == {"manager", "user"}

limits == <<recyclingSizeLimit, splitSizeLimit>>

\* alloc of nothing returns nullptr.
AllocNothing ==
  /\ 0 \in Requests
  /\ oomSize' = 0
  /\ UNCHANGED <<info, native, userHeld, limits>>

\* The blocks alloc may recycle for a request: at most one.
Recyclable(size, pool) ==
  {p \in LowerBound(info, pool, size) :
     pool = "small" \/ info.blocks[p].size < recyclingSizeLimit}

AllocRecycled(req, who) ==
  LET size == roundSize(req)
      pool == PoolOf(size)
  IN  \E p \in Recyclable(size, pool) :
        /\ info' = HandOut(Recycle(info, p, pool), p, size, pool,
                           splitSizeLimit, who)
        /\ oomSize' = 0
        /\ UNCHANGED <<native, userHeld, limits>>

\* mallocWithRetry succeeds at the first attempt.
AllocNative(req, who) ==
  LET size      == roundSize(req)
      pool      == PoolOf(size)
      allocSize == getAllocationSize(size)
  IN  /\ Recyclable(size, pool) = {}
      /\ \E a \in NativeGaps(native, userHeld, allocSize) :
           /\ native' = NativeAlloc(native, a, allocSize)
           /\ info' = HandOut(NewBlock(info, a, allocSize), a, size, pool,
                              splitSizeLimit, who)
      /\ oomSize' = 0
      /\ UNCHANGED <<userHeld, limits>>

\* mallocWithRetry fails, returns every whole cached allocation to the device
\* and tries again; if that fails too, alloc throws.
AllocAfterCleanup(req, who) ==
  LET size      == roundSize(req)
      pool      == PoolOf(size)
      allocSize == getAllocationSize(size)
      m         == signalMemoryCleanup(info)
      nat       == NativeFree(native, Releasable(info))
      user      == userHeld \ Releasable(info)
      gaps      == NativeGaps(nat, user, allocSize)
  IN  /\ Recyclable(size, pool) = {}
      /\ NativeGaps(native, userHeld, allocSize) = {}
      /\ \/ \E a \in gaps :
              /\ native' = NativeAlloc(nat, a, allocSize)
              /\ info' = HandOut(NewBlock(m, a, allocSize), a, size, pool,
                                 splitSizeLimit, who)
              /\ oomSize' = 0
         \/ /\ gaps = {}
            /\ native' = nat
            /\ info' = m
            /\ oomSize' = allocSize
      /\ userHeld' = user
      /\ UNCHANGED limits

alloc(req, who) ==
  /\ req > 0 /\ Cardinality(info.allocated) < MaxLive
  /\ \/ AllocRecycled(req, who)
     \/ AllocNative(req, who)
     \/ AllocAfterCleanup(req, who)

\* unlock(ptr, userUnlock) of a block the manager handed out.  Mutant: whoever
\* unlocks releases both locks.
unlockBoth(p, who) ==
  /\ p \in info.allocated
  /\ info' = freeBlock([info EXCEPT !.blocks = SetLocks(@, p, {}),
                                   !.allocated = @ \ {p}], p)
  /\ oomSize' = 0
  /\ UNCHANGED <<native, userHeld, limits>>

unlock(p, who) ==
  LET m == [info EXCEPT
              !.blocks = SetLocks(@, p, info.blocks[p].locks \ {who})]
  IN  /\ p \in info.allocated
      /\ info' = IF inUse(m.blocks[p]) THEN m
                 ELSE freeBlock([m EXCEPT !.allocated = @ \ {p}], p)
      /\ oomSize' = 0
      /\ UNCHANGED <<native, userHeld, limits>>

\* unlock of a pointer the manager does not know: it "came from user".
unlockUnknown(p) ==
  /\ p \in userHeld \ info.allocated
  /\ userHeld' = userHeld \ {p}
  /\ oomSize' = 0
  /\ UNCHANGED <<info, native, limits>>

\* userLock of a pointer the manager handed out.
userLock(p) ==
  /\ p \in info.allocated
  /\ info' = [info EXCEPT
       !.blocks = SetLocks(@, p, info.blocks[p].locks \cup {"user"})]
  /\ oomSize' = 0
  /\ UNCHANGED <<native, userHeld, limits>>

\* shutdown(), or signalMemoryCleanup() called from outside.
shutdown ==
  /\ info' = signalMemoryCleanup(info)
  /\ native' = NativeFree(native, Releasable(info))
  /\ userHeld' = userHeld \ Releasable(info)
  /\ oomSize' = 0
  /\ UNCHANGED limits

setRecyclingSizeLimit ==
  /\ recyclingSizeLimit' \in RecyclingSizeLimits
  /\ oomSize' = 0
  /\ UNCHANGED <<info, native, userHeld, splitSizeLimit>>

setSplitSizeLimit ==
  /\ splitSizeLimit' \in SplitSizeLimits
  /\ oomSize' = 0
  /\ UNCHANGED <<info, native, userHeld, recyclingSizeLimit>>

Next ==
  \/ AllocNothing
  \/ \E req \in Requests, who \in Locks : alloc(req, who)
  \/ \E p \in info.allocated, who \in Locks : unlock(p, who)
  \/ \E p \in info.allocated : userLock(p)
  \/ \E p \in userHeld : unlockUnknown(p)
  \/ shutdown
  \/ setRecyclingSizeLimit
  \/ setSplitSizeLimit

Spec == Init /\ [][Next]_vars

------------------------------------------------------------------------------
(* Properties *)

\* Type invariant: every link, pool entry and registered pointer names a block.
TypeOK ==
  LET B == DOMAIN info.blocks
  IN  /\ \A p \in B :
           LET b == info.blocks[p]
           IN  /\ p \in Nat \ {0} /\ b.size \in Nat \ {0}
               /\ b.locks \subseteq Locks
               /\ b.prev \in B \cup {nullptr} /\ b.next \in B \cup {nullptr}
      /\ info.pool \in [{"small", "large"} -> SUBSET B]
      /\ info.allocated \subseteq B
      /\ \A a \in DOMAIN native : a \in Nat \ {0} /\ native[a] \in Nat \ {0}
      /\ userHeld \subseteq UserPtrs
      /\ recyclingSizeLimit \in RecyclingSizeLimits
      /\ splitSizeLimit \in SplitSizeLimits
      /\ oomSize \in Nat

NextLinked(blocks, p) ==
  blocks[p].next # nullptr =>
    /\ blocks[p].next = p + blocks[p].size
    /\ blocks[p].next \in DOMAIN blocks
    /\ blocks[blocks[p].next].prev = p

PrevLinked(blocks, p) ==
  blocks[p].prev # nullptr =>
    /\ blocks[p].prev \in DOMAIN blocks
    /\ blocks[blocks[p].prev].next = p

InNative(blocks, nat, p) ==
  \E a \in DOMAIN nat :
    /\ a <= p /\ p + blocks[p].size <= a + nat[a]
    /\ blocks[p].prev = nullptr <=> p = a
    /\ blocks[p].next = nullptr <=> p + blocks[p].size = a + nat[a]

LinksTile(blocks, nat) ==
  \A p \in DOMAIN blocks :
    NextLinked(blocks, p) /\ PrevLinked(blocks, p) /\ InNative(blocks, nat, p)

\* The prev_/next_ lists describe the memory: following next_ is moving to the
\* adjacent address, prev_ is its inverse, and the two ends of a list are the
\* two ends of one native allocation.  Split and merge in alloc and
\* tryMergeBlocks rewrite up to four links each.
LinksTileNative == LinksTile(info.blocks, native)

Apart(blocks) ==
  \A p, q \in DOMAIN blocks :
    p # q => p + blocks[p].size <= q \/ q + blocks[q].size <= p

\* Memory safety of the allocator: whatever was split, merged, recycled and
\* returned to the device before, two blocks never share a byte and every block
\* lies in memory the manager holds from the device.
BlocksDisjoint ==
  /\ Apart(info.blocks)
  /\ \A p \in DOMAIN info.blocks : \E a \in DOMAIN native :
       a <= p /\ p + info.blocks[p].size <= a + native[a]

\* A block is in exactly one place: registered in allocatedBlocks_ if somebody
\* locks it, otherwise in exactly one of the two pools.  freeBlock relies on
\* neighbours being in the same pool, chosen by the size of the freed block.
PoolsExact ==
  /\ info.allocated = {p \in DOMAIN info.blocks : inUse(info.blocks[p])}
  /\ info.pool["small"] \cap info.pool["large"] = {}
  /\ Cached(info) = DOMAIN info.blocks \ info.allocated

\* Freed neighbours never stay apart ("combine previously split blocks"), so
\* fragmentation is only ever caused by blocks in use.
FreeNeighboursMerged ==
  \A p \in DOMAIN info.blocks :
    info.blocks[p].next # nullptr =>
      inUse(info.blocks[p]) \/ inUse(info.blocks[info.blocks[p].next])

\* stats_: cachedBytes_ is what the pools hold and allocatedBytes_ what the
\* manager got from the device and has not returned.
BytesAccounted ==
  /\ info.cachedBytes =
       MapThenSumSet(LAMBDA p : info.blocks[p].size, Cached(info))
  /\ info.allocatedBytes =
       MapThenSumSet(LAMBDA a : native[a], DOMAIN native)

\* alloc throws only when the device has no room even after everything that
\* can be returned to it was returned.
OutOfMemoryIsReal ==
  oomSize > 0 =>
    /\ \A p \in Cached(info) : isSplit(info.blocks[p])
    /\ NativeGaps(native, userHeld, oomSize) = {}

\* What the program holds, for the abstract specification.
held == [p \in info.allocated |->
           [size |-> info.blocks[p].size, locks |-> info.blocks[p].locks]]

Memory == INSTANCE DeviceMemory WITH
            Addresses <- 1..DeviceEnd, Sizes <- 1..DeviceEnd

\* Caching, splitting, merging and releasing implement a plain device memory.
ImplementsDeviceMemory == Memory!Spec

==============================================================================
