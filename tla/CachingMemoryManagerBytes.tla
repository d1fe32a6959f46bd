---------------------- MODULE CachingMemoryManagerBytes ----------------------
(***************************************************************************)
(* The statistics of CachingMemoryManager are exact: cachedBytes_ is what  *)
(* the pools hold and allocatedBytes_ what the manager has from the        *)
(* device.  The counters are unsigned and every operation adds to or       *)
(* subtracts from them, so this also says that none ever wraps around.     *)
(***************************************************************************)
EXTENDS CachingMemoryManagerProofs, FiniteSums

------------------------------------------------------------------------------
(* The bytes of blocks and of native allocations *)

SizeOf(bs) == [p \in DOMAIN bs |-> bs[p].size]

Within(nat) == \A a \in DOMAIN nat : a + nat[a] <= DeviceEnd

\* Counted(m) and Held(m, nat) are the two halves of BytesAccounted.
Counted(m) == m.cachedBytes = Total(SizeOf(m.blocks), Cached(m))

Held(m, nat) == m.allocatedBytes = Total(nat, DOMAIN nat)

\* The sum over blocks that BytesAccounted takes, as a Total.
LEMMA SizeSum ==
  ASSUME NEW bs, NEW S \in SUBSET DOMAIN bs
  PROVE  MapThenSumSet(LAMBDA p : bs[p].size, S) = Total(SizeOf(bs), S)
<1> DEFINE one(g) == [s \in SUBSET S |-> IF s = {} THEN 0
                        ELSE bs[Pick(s)].size + g[s \ {Pick(s)}]]
           two(g) == [s \in SUBSET S |-> IF s = {} THEN 0
                        ELSE SizeOf(bs)[Pick(s)] + g[s \ {Pick(s)}]]
<1>1. MapThenSumSet(LAMBDA p : bs[p].size, S) = (CHOOSE g : g = one(g))[S]
  BY Zenon DEF MapThenSumSet, MapThenFoldSet, Pick
<1>2. Total(SizeOf(bs), S) = (CHOOSE g : g = two(g))[S]
  BY SumIs, Zenon DEF IsSum
<1>3. \A s \in SUBSET S : s # {} => SizeOf(bs)[Pick(s)] = bs[Pick(s)].size
  BY PickIn, Zenon DEF SizeOf
<1>4. \A g : one(g) = two(g)
  BY <1>3, Zenon
<1> HIDE DEF one, two
<1>5. (CHOOSE g : g = one(g)) = (CHOOSE g : g = two(g))
  BY <1>4
<1> QED
  BY <1>1, <1>2, <1>5, Zenon

\* The blocks of a part of the memory are finitely many and fit the device.
LEMMA PartBytes ==
  ASSUME NEW bs, NEW nat, WellFormed(bs, nat), Within(nat),
         NEW T \in SUBSET DOMAIN bs
  PROVE  /\ IsFiniteSet(T) /\ NatOn(SizeOf(bs), T)
         /\ Total(SizeOf(bs), T) \in Nat /\ Total(SizeOf(bs), T) <= DeviceEnd
<1>1. \A p \in T : p \in Nat \ {0} /\ SizeOf(bs)[p] = bs[p].size
                   /\ bs[p].size \in Nat \ {0}
  BY Zenon DEF WellFormed, IsBlocks, BlockType, SizeOf
<1>2. DeviceEnd \in Nat
  BY SizeAssumption, Zenon
<1>3. ASSUME NEW p \in T PROVE p + bs[p].size <= DeviceEnd
  <2>1. PICK a \in DOMAIN nat : p + bs[p].size <= a + nat[a]
    BY Zenon DEF WellFormed, LinksTile, InNative
  <2>2. a \in Nat /\ nat[a] \in Nat /\ a + nat[a] <= DeviceEnd
    BY Zenon DEF WellFormed, IsNative, Within
  <2>3. p \in Nat /\ bs[p].size \in Nat
    BY <1>1, Zenon
  <2> QED
    BY <2>1, <2>2, <2>3, <1>2
<1>4. T \in SUBSET Nat /\ \A p \in T : p <= DeviceEnd
  <2>1. ASSUME NEW p \in T PROVE p \in Nat /\ p <= DeviceEnd
    <3>1. p \in Nat /\ bs[p].size \in Nat /\ p + bs[p].size <= DeviceEnd
      BY <1>1, <1>3, Zenon
    <3> QED
      BY <3>1, <1>2
  <2> QED
    BY <2>1, Zenon
<1>5. IsFiniteSet(T)
  BY <1>2, <1>4, FS_BoundedSetOfNaturals, Zenon
<1>6. NatOn(SizeOf(bs), T)
  BY <1>1, Zenon DEF NatOn
<1>7. Areas(SizeOf(bs), T)
  <2>1. \A p, q \in T : p # q => p + bs[p].size <= q \/ q + bs[q].size <= p
    BY Zenon DEF WellFormed, Apart
  <2> QED
    BY <2>1, <1>1, Zenon DEF Areas
<1>8. EndBy(SizeOf(bs), T, DeviceEnd)
  BY <1>1, <1>3, Zenon DEF EndBy
<1> QED
  BY <1>2, <1>4, <1>5, <1>6, <1>7, <1>8, SumOfApart, SumNat, Zenon

\* The native allocations are apart, so that their bytes fit into the device.
LEMMA NativeBytes ==
  ASSUME NEW nat, IsNative(nat), Within(nat), NEW T \in SUBSET DOMAIN nat
  PROVE  /\ IsFiniteSet(T) /\ NatOn(nat, T)
         /\ Total(nat, T) \in Nat /\ Total(nat, T) <= DeviceEnd
<1>1. DeviceEnd \in Nat
  BY SizeAssumption, Zenon
<1>2. \A a \in T : a \in Nat \ {0} /\ nat[a] \in Nat \ {0} /\ a + nat[a] <= DeviceEnd
  BY Zenon DEF IsNative, Within
<1>3. T \in SUBSET Nat /\ \A a \in T : a <= DeviceEnd
  <2>1. ASSUME NEW a \in T PROVE a \in Nat /\ a <= DeviceEnd
    <3>1. a \in Nat /\ nat[a] \in Nat /\ a + nat[a] <= DeviceEnd
      BY <1>2, Zenon
    <3> QED
      BY <3>1, <1>1
  <2> QED
    BY <2>1, Zenon
<1>4. IsFiniteSet(T)
  BY <1>1, <1>3, FS_BoundedSetOfNaturals, Zenon
<1>5. NatOn(nat, T) /\ EndBy(nat, T, DeviceEnd)
  BY <1>2, Zenon DEF NatOn, EndBy
<1>6. Areas(nat, T)
  BY <1>2, Zenon DEF Areas, IsNative
<1> QED
  BY <1>1, <1>3, <1>4, <1>5, <1>6, SumOfApart, SumNat, Zenon

\* No subtraction of bytes goes below zero, or is of a number too large.
LEMMA MinusExact ==
  ASSUME NEW a \in Nat, NEW b \in Nat, b <= a, a <= DeviceEnd
  PROVE  Minus(a, b) = a - b
<1>1. DeviceEnd \in Nat /\ SizeMod \in Nat \ {0} /\ DeviceEnd < SizeMod
  BY SizeAssumption, AddressAssumption, Zenon
<1>2. a - b \in Nat /\ a - b < SizeMod
  BY <1>1
<1>3. (a - b) % SizeMod = a - b
  BY <1>1, <1>2
<1> QED
  BY <1>3, Zenon DEF Minus

\* A cached block p is taken out of a pool.
LEMMA TakenOut ==
  ASSUME NEW bs, NEW nat, WellFormed(bs, nat), Within(nat),
         NEW T \in SUBSET DOMAIN bs, NEW p \in T
  PROVE  Minus(Total(SizeOf(bs), T), bs[p].size) = Total(SizeOf(bs), T \ {p})
<1> DEFINE V == T \ {p}
           f == SizeOf(bs)
<1>1. /\ IsFiniteSet(T) /\ NatOn(f, T)
      /\ Total(f, T) \in Nat /\ Total(f, T) <= DeviceEnd
  BY PartBytes, Zenon
<1>2. V \in SUBSET DOMAIN bs
  BY Zenon
<1>3. f[p] = bs[p].size /\ f[p] \in Nat
  BY <1>1, Zenon DEF SizeOf, NatOn
<1>4. Total(f, T) = f[p] + Total(f, V)
  <2> HIDE DEF f
  <2> QED
    BY <1>1, SumRemove
<1> HIDE DEF V, f
<1>5. Total(f, V) \in Nat
  BY <1>2, PartBytes, Zenon DEF f
<1>6. f[p] <= Total(f, T) /\ Total(f, T) - f[p] = Total(f, V)
  BY <1>1, <1>3, <1>4, <1>5
<1>7. Minus(Total(f, T), f[p]) = Total(f, V)
  BY <1>1, <1>3, <1>6, MinusExact, Zenon
<1> QED
  BY <1>3, <1>7, Zenon DEF V, f

\* A block p is put into a pool.
LEMMA PutIn ==
  ASSUME NEW bs, NEW nat, WellFormed(bs, nat), Within(nat),
         NEW T \in SUBSET DOMAIN bs, NEW p \in DOMAIN bs, p \notin T
  PROVE  Total(SizeOf(bs), T \cup {p}) = Total(SizeOf(bs), T) + bs[p].size
<1> DEFINE f == SizeOf(bs)
           P == {p}
<1>1. IsFiniteSet(T) /\ NatOn(f, T) /\ Total(f, T) \in Nat
  BY PartBytes, Zenon
<1>2. P \in SUBSET DOMAIN bs
  BY Zenon
<1>3. NatOn(f, P)
  <2> HIDE DEF P
  <2> QED
    BY <1>2, PartBytes, Zenon
<1>4. f[p] = bs[p].size /\ f[p] \in Nat
  BY <1>3, Zenon DEF SizeOf, NatOn
<1> HIDE DEF f
<1>5. Total(f, T \cup {p}) = f[p] + Total(f, T)
  BY <1>1, <1>4, SumAdd, Zenon
<1>6. Total(f, T \cup {p}) = Total(f, T) + f[p]
  BY <1>1, <1>4, <1>5
<1> QED
  BY <1>4, <1>6, Zenon DEF f

\* Only the sizes of the blocks in T count.
LEMMA SameSizes ==
  ASSUME NEW bs, NEW new, NEW T, IsFiniteSet(T),
         \A q \in T : q \in DOMAIN bs /\ q \in DOMAIN new /\ new[q].size = bs[q].size
  PROVE  Total(SizeOf(new), T) = Total(SizeOf(bs), T)
<1> DEFINE f == SizeOf(new)
           h == SizeOf(bs)
<1>1. \A q \in T : f[q] = h[q]
  BY Zenon DEF SizeOf
<1> HIDE DEF f, h
<1>2. Total(f, T) = Total(h, T)
  BY <1>1, SumAgree
<1> QED
  BY <1>2, Zenon DEF f, h

------------------------------------------------------------------------------
(* What the operations do to the counters *)

\* Cached and the two pools.
LEMMA CachedErased ==
  ASSUME NEW m, NEW n, NEW c \in Pools, NEW p, Erased(n.pool, m.pool, c, p),
         \A d \in Pools \ {c} : p \notin m.pool[d]
  PROVE  Cached(n) = Cached(m) \ {p}
<1>1. CASE c = "small"
  BY <1>1, Zenon DEF Erased, Pools, Cached
<1>2. CASE c = "large"
  BY <1>2, Zenon DEF Erased, Pools, Cached
<1> QED
  BY <1>1, <1>2, Zenon DEF Pools

\* A block that is put into a pool is cached.
LEMMA CachedInserted ==
  ASSUME NEW m, NEW n, NEW c \in Pools, NEW p, Inserted(n.pool, m.pool, c, p)
  PROVE  Cached(n) = Cached(m) \cup {p}
<1>1. CASE c = "small"
  BY <1>1, Zenon DEF Inserted, Pools, Cached
<1>2. CASE c = "large"
  BY <1>2, Zenon DEF Inserted, Pools, Cached
<1> QED
  BY <1>1, <1>2, Zenon DEF Pools

\* What is cached are blocks.
LEMMA CachedSubset ==
  ASSUME NEW m, IsPools(m.pool, DOMAIN m.blocks)
  PROVE  Cached(m) \in SUBSET DOMAIN m.blocks
  BY Zenon DEF IsPools, Pools, Cached

\* Recycle subtracts the size of the block it takes out of its pool.
LEMMA RecycleCounted ==
  ASSUME NEW m, NEW nat, Inv(m, nat), Within(nat), Counted(m),
         NEW c \in Pools, NEW p \in m.pool[c],
         NEW n, n = Recycle(m, p, c)
  PROVE  Counted(n) /\ n.allocatedBytes = m.allocatedBytes
<1>1. /\ IsInfo(m) /\ WellFormed(m.blocks, nat)
      /\ Exact(m.blocks, m.pool, m.allocated)
  BY Zenon DEF Inv, Parts, Core
<1>2. /\ n.blocks = m.blocks /\ n.pool = Erase(m.pool, c, p)
      /\ n.cachedBytes = Minus(m.cachedBytes, m.blocks[p].size)
      /\ n.allocatedBytes = m.allocatedBytes
  BY <1>1, Zenon DEF Recycle, IsInfo, Fields
<1>3. IsPools(m.pool, DOMAIN m.blocks) /\ p \in DOMAIN m.blocks
  BY <1>1, Zenon DEF Exact, IsPools
<1>4. Cached(n) = Cached(m) \ {p}
  <2>1. Erased(n.pool, m.pool, c, p)
    BY <1>2, <1>3, EraseFields, Zenon
  <2>2. \A d \in Pools \ {c} : p \notin m.pool[d]
    <3>1. ~ (p \in m.pool["small"] /\ p \in m.pool["large"])
      BY <1>1, <1>3, Zenon DEF Exact
    <3> QED
      BY <3>1 DEF Pools
  <2> QED
    BY <2>1, <2>2, CachedErased, Zenon
<1>5. Cached(m) \in SUBSET DOMAIN m.blocks /\ p \in Cached(m)
  BY <1>3, CachedSubset, Zenon DEF Cached, Pools
<1>6. Minus(Total(SizeOf(m.blocks), Cached(m)), m.blocks[p].size)
        = Total(SizeOf(m.blocks), Cached(m) \ {p})
  BY <1>1, <1>5, TakenOut, Zenon
<1> QED
  BY <1>2, <1>4, <1>6, Zenon DEF Counted

\* The end of alloc adds what is left of a block it splits.
LEMMA HandOutCounted ==
  ASSUME NEW m, NEW nat, NEW c \in Pools, NEW p,
         Detached(m, nat, p, c), Within(nat), Counted(m),
         NEW size \in Nat \ {0}, IsMultiple(size), size <= m.blocks[p].size,
         c = PoolOf(size), NEW limit \in Nat, limit > kSmallBuffer,
         NEW who \in Locks,
         NEW n, n = HandOut(m, p, size, c, limit, who)
  PROVE  Counted(n) /\ n.allocatedBytes = m.allocatedBytes
<1> DEFINE bs == m.blocks
           new == n.blocks
           rest == p + size
<1>1. /\ IsInfo(m) /\ p \in DOMAIN bs /\ IsPools(m.pool, DOMAIN bs)
      /\ ~ InPools(m.pool, p) /\ Ready(bs, m.pool, m.allocated, nat, p, c)
  BY Zenon DEF Detached, Ready
<1>2. WellFormed(bs, nat) /\ IsBlocks(bs)
  BY <1>1, Zenon DEF Ready, Core, WellFormed
<1>3. /\ Cached(m) \in SUBSET DOMAIN bs /\ p \notin Cached(m)
      /\ IsFiniteSet(Cached(m))
  BY <1>1, <1>2, CachedSubset, PartBytes, Zenon DEF InPools, Cached
<1>4. Inv(n, nat)
  BY HandOutInv, Zenon
<1>5. WellFormed(new, nat) /\ IsPools(n.pool, DOMAIN new)
  BY <1>4, Zenon DEF Inv, Parts, Core, Exact
<1>6. CASE Splits(bs[p], size, c, limit)
  <2>1. bs[p].size \in Nat
    BY <1>1, <1>2, Zenon DEF IsBlocks, BlockType
  <2>2. size < bs[p].size
    <3>1. SplitThreshold(c) \in Nat \ {0}
      BY SizeAssumption, Zenon DEF SplitThreshold
    <3> QED
      BY <3>1, <2>1, <1>6 DEF Splits
  <2>3. rest \notin DOMAIN bs /\ bs[p].next # p
    BY <2>2, <1>1, <1>2, SplitWellFormed, Zenon
  <2>4. SplitOf(Split(bs, p, size, who), bs, p, size, rest, who)
    BY <2>2, <2>3, <1>1, <1>2, SplitFields, Zenon
  <2>5. /\ new = Split(bs, p, size, who)
        /\ n.pool = Insert(m.pool, c, rest)
        /\ n.cachedBytes = m.cachedBytes + (bs[p].size - size)
        /\ n.allocatedBytes = m.allocatedBytes
    BY <1>1, <1>6, Zenon DEF HandOut, IsInfo, Fields
  <2>6. /\ rest \in DOMAIN new /\ new[rest].size = bs[p].size - size
        /\ DOMAIN new = DOMAIN bs \cup {rest}
        /\ \A q \in DOMAIN bs \ {p} : new[q].size = bs[q].size
    <3> HIDE DEF new, rest
    <3>1. SplitOf(new, bs, p, size, rest, who)
      BY <2>4, <2>5, Zenon
    <3> QED
      BY <3>1, Zenon DEF SplitOf
  <2>7. Cached(n) = Cached(m) \cup {rest}
    <3>1. IsPools(m.pool, DOMAIN new)
      BY <1>1, <2>6, Zenon DEF IsPools
    <3> HIDE DEF new, rest
    <3>2. Inserted(n.pool, m.pool, c, rest)
      BY <3>1, <2>5, <2>6, InsertFields
    <3> QED
      BY <3>2, CachedInserted, Zenon
  <2> HIDE DEF new, rest
  <2>8. Total(SizeOf(new), Cached(m)) = Total(SizeOf(bs), Cached(m))
    <3>1. \A q \in Cached(m) : /\ q \in DOMAIN bs /\ q \in DOMAIN new
                               /\ new[q].size = bs[q].size
      BY <1>3, <2>6, Zenon
    <3> QED
      BY <3>1, <1>3, SameSizes, Zenon
  <2>9. Cached(m) \in SUBSET DOMAIN new /\ rest \notin Cached(m)
    BY <1>3, <2>3, <2>6, Zenon
  <2>10. Total(SizeOf(new), Cached(m) \cup {rest})
           = Total(SizeOf(new), Cached(m)) + new[rest].size
    BY <1>5, <2>6, <2>9, PutIn, Zenon
  <2> QED
    BY <2>5, <2>6, <2>7, <2>8, <2>10, Zenon DEF Counted, new
<1>7. CASE ~ Splits(bs[p], size, c, limit)
  <2>1. {who} \in SUBSET Locks
    BY Zenon
  <2>2. LockedOf(SetLocks(bs, p, {who}), bs, p, {who})
    BY <2>1, <1>1, <1>2, LockedFields, Zenon
  <2>3. /\ new = SetLocks(bs, p, {who}) /\ n.pool = m.pool
        /\ n.cachedBytes = m.cachedBytes
        /\ n.allocatedBytes = m.allocatedBytes
    BY <1>1, <1>7, Zenon DEF HandOut, IsInfo, Fields
  <2>4. Cached(n) = Cached(m)
    BY <2>3, Zenon DEF Cached
  <2>5. \A q \in Cached(m) : /\ q \in DOMAIN bs /\ q \in DOMAIN new
                             /\ new[q].size = bs[q].size
    BY <1>3, <2>2, <2>3, Zenon DEF LockedOf
  <2> HIDE DEF new
  <2>6. Total(SizeOf(new), Cached(m)) = Total(SizeOf(bs), Cached(m))
    BY <2>5, <1>3, SameSizes, Zenon
  <2> QED
    BY <2>3, <2>4, <2>6, Zenon DEF Counted, new
<1> QED
  BY <1>6, <1>7, Zenon

\* NewBlock adds a native allocation and no cached block.
LEMMA NewBlockCounted ==
  ASSUME NEW m, NEW nat, Inv(m, nat), Within(nat), Counted(m), Held(m, nat),
         NEW a \in Nat \ {0}, NEW size \in Nat \ {0},
         \A b \in DOMAIN nat : a + size <= b \/ b + nat[b] <= a,
         NEW n, n = NewBlock(m, a, size),
         NEW nat2, nat2 = NativeAlloc(nat, a, size)
  PROVE  Counted(n) /\ Held(n, nat2)
<1> DEFINE bs == m.blocks
           new == WithBlock(bs, a, size)
<1>1. /\ IsInfo(m) /\ WellFormed(bs, nat) /\ IsPools(m.pool, DOMAIN bs)
  BY Zenon DEF Inv, Parts, Core, Exact
<1>2. a \notin DOMAIN bs
  BY <1>1, NewWellFormed
<1>3. /\ n.blocks = new /\ n.pool = m.pool /\ n.cachedBytes = m.cachedBytes
      /\ n.allocatedBytes = m.allocatedBytes + size
  BY <1>1, Zenon DEF NewBlock, WithBlock, IsInfo, Fields
<1>4. Cached(n) = Cached(m)
  BY <1>3, Zenon DEF Cached
<1>5. Cached(m) \in SUBSET DOMAIN bs /\ IsFiniteSet(Cached(m))
  BY <1>1, CachedSubset, PartBytes, Zenon
<1>6. \A q \in Cached(m) : /\ q \in DOMAIN bs /\ q \in DOMAIN new
                           /\ new[q].size = bs[q].size
  BY <1>2, <1>5, Zenon DEF WithBlock
<1> HIDE DEF new
<1>7. Total(SizeOf(new), Cached(m)) = Total(SizeOf(bs), Cached(m))
  BY <1>5, <1>6, SameSizes, Zenon
<1>8. Counted(n)
  BY <1>3, <1>4, <1>7, Zenon DEF Counted
<1>9. IsNative(nat)
  BY <1>1, Zenon DEF WellFormed
<1>10. a \notin DOMAIN nat
  <2> SUFFICES ASSUME a \in DOMAIN nat PROVE FALSE
    BY Zenon
  <2>1. nat[a] \in Nat \ {0} /\ (a + size <= a \/ a + nat[a] <= a)
    BY <1>9, Zenon DEF IsNative
  <2> QED
    BY <2>1
<1>11. /\ DOMAIN nat2 = DOMAIN nat \cup {a} /\ nat2[a] = size
       /\ \A b \in DOMAIN nat : nat2[b] = nat[b]
  BY <1>10, Zenon DEF NativeAlloc
<1>12. /\ IsFiniteSet(DOMAIN nat) /\ NatOn(nat, DOMAIN nat)
       /\ Total(nat, DOMAIN nat) \in Nat
  <2>1. DOMAIN nat \in SUBSET DOMAIN nat
    BY Zenon
  <2> QED
    BY <2>1, <1>9, NativeBytes, Zenon
<1>13. Total(nat2, DOMAIN nat) = Total(nat, DOMAIN nat)
  BY <1>11, <1>12, SumAgree
<1>14. NatOn(nat2, DOMAIN nat) /\ nat2[a] \in Nat
  BY <1>11, <1>12, Zenon DEF NatOn
<1>15. Total(nat2, DOMAIN nat \cup {a}) = nat2[a] + Total(nat2, DOMAIN nat)
  BY <1>10, <1>12, <1>14, SumAdd, Zenon
<1>16. Held(n, nat2)
  <2>1. n.allocatedBytes = Total(nat, DOMAIN nat) + size
    BY <1>3, Zenon DEF Held
  <2>2. Total(nat2, DOMAIN nat2) = size + Total(nat, DOMAIN nat)
    BY <1>11, <1>13, <1>15, Zenon
  <2>3. Total(nat, DOMAIN nat) + size = size + Total(nat, DOMAIN nat)
    BY <1>12
  <2> QED
    BY <2>1, <2>2, <2>3, Zenon DEF Held
<1> QED
  BY <1>8, <1>16, Zenon

\* signalMemoryCleanup subtracts what it returns to the device from both.
LEMMA CleanupCounted ==
  ASSUME NEW m, NEW nat, Inv(m, nat), Within(nat), Counted(m), Held(m, nat),
         NEW n, n = signalMemoryCleanup(m),
         NEW nat2, nat2 = NativeFree(nat, Releasable(m))
  PROVE  Counted(n) /\ Held(n, nat2)
<1> DEFINE bs == m.blocks
           new == n.blocks
           gone == Releasable(m)
           C == Cached(m)
           D == DOMAIN nat
           bytes == Total(SizeOf(bs), gone)
<1>1. IsInfo(m) /\ WellFormed(bs, nat) /\ IsPools(m.pool, DOMAIN bs)
  BY Zenon DEF Inv, Parts, Core, Exact
<1>2. C \in SUBSET DOMAIN bs
  BY <1>1, CachedSubset, Zenon
<1>3. gone \in SUBSET C /\ \A p \in gone : ~ isSplit(bs[p])
  BY Zenon DEF Releasable
<1>4. gone \in SUBSET DOMAIN bs
  BY <1>2, <1>3, Zenon
<1>5. /\ new = Without(bs, gone)
      /\ n.pool = [q \in {"small", "large"} |-> m.pool[q] \ gone]
      /\ n.allocatedBytes = Minus(m.allocatedBytes, bytes)
      /\ n.cachedBytes = Minus(m.cachedBytes, bytes)
  <2>1. MapThenSumSet(LAMBDA p : bs[p].size, gone) = bytes
    <3> HIDE DEF gone
    <3> QED
      BY <1>4, SizeSum, Zenon
  <2> QED
    BY <2>1, <1>1, Zenon DEF signalMemoryCleanup, Without, IsInfo, Fields
<1>6. Cached(n) = C \ gone
  <2> HIDE DEF gone
  <2>1. /\ n.pool["small"] = m.pool["small"] \ gone
        /\ n.pool["large"] = m.pool["large"] \ gone
    BY <1>5, Zenon
  <2> QED
    BY <2>1, Zenon DEF Cached
<1>7. /\ IsFiniteSet(C) /\ NatOn(SizeOf(bs), C)
      /\ Total(SizeOf(bs), C) \in Nat /\ Total(SizeOf(bs), C) <= DeviceEnd
  BY <1>1, <1>2, PartBytes, Zenon
<1>8. DeviceEnd \in Nat
  BY SizeAssumption, Zenon
<1>9. Counted(n)
  <2> HIDE DEF gone, C, new
  <2> DEFINE R == C \ gone
             f == SizeOf(bs)
  <2>1. /\ Total(f, C) = bytes + Total(f, R) /\ bytes \in Nat /\ Total(f, R) \in Nat
    <3>1. bytes = Total(f, gone) /\ NatOn(f, C)
      BY <1>7, Zenon
    <3> HIDE DEF f, bytes
    <3> QED
      BY <3>1, <1>3, <1>7, SumWithout
  <2>2. \A q \in R : q \in DOMAIN bs /\ q \in DOMAIN new /\ new[q].size = bs[q].size
    BY <1>2, <1>5, Zenon DEF Without
  <2>3. IsFiniteSet(R)
    BY <1>7, FS_Difference, Zenon
  <2> HIDE DEF R, bytes
  <2>4. Total(SizeOf(new), R) = Total(f, R)
    BY <2>2, <2>3, SameSizes, Zenon
  <2> HIDE DEF f
  <2>5. bytes <= Total(f, C) /\ Total(f, C) - bytes = Total(f, R)
    BY <2>1
  <2>6. Minus(Total(f, C), bytes) = Total(f, R)
    BY <2>1, <2>5, <1>7, MinusExact, Zenon DEF f
  <2> QED
    BY <2>4, <2>6, <1>5, <1>6, Zenon DEF Counted, R, C, new, f
<1>10. \A p \in gone : p \in D /\ nat[p] = bs[p].size
  <2> SUFFICES ASSUME NEW p \in gone PROVE p \in D /\ nat[p] = bs[p].size
    BY Zenon
  <2>1. p \in DOMAIN bs /\ bs[p].prev = nullptr /\ bs[p].next = nullptr
    BY <1>3, <1>4, Zenon DEF isSplit
  <2> HIDE DEF gone
  <2>2. PICK a \in D : p = a /\ p + bs[p].size = a + nat[a]
    BY <2>1, <1>1, Zenon DEF WellFormed, LinksTile, InNative
  <2>3. p \in Nat /\ bs[p].size \in Nat /\ nat[a] \in Nat
    BY <2>1, <1>1, Zenon DEF WellFormed, IsBlocks, BlockType, IsNative
  <2> QED
    BY <2>2, <2>3
<1>11. /\ IsFiniteSet(D) /\ NatOn(nat, D)
       /\ Total(nat, D) \in Nat /\ Total(nat, D) <= DeviceEnd
  <2>1. D \in SUBSET DOMAIN nat /\ IsNative(nat)
    BY <1>1, Zenon DEF WellFormed
  <2> QED
    BY <2>1, NativeBytes, Zenon
<1>12. Held(n, nat2)
  <2> DEFINE R == D \ gone
  <2>1. DOMAIN nat2 = R /\ \A a \in R : nat2[a] = nat[a]
    BY Zenon DEF NativeFree
  <2> HIDE DEF gone
  <2>2. gone \in SUBSET D
    BY <1>10, Zenon
  <2> HIDE DEF D
  <2>3. /\ Total(nat, D) = Total(nat, gone) + Total(nat, R)
        /\ Total(nat, gone) \in Nat /\ Total(nat, R) \in Nat
    BY <2>2, <1>11, SumWithout, Zenon
  <2>4. IsFiniteSet(R) /\ IsFiniteSet(gone)
    BY <2>2, <1>11, FS_Difference, FS_Subset, Zenon
  <2> HIDE DEF R
  <2>5. Total(nat2, R) = Total(nat, R)
    BY <2>1, <2>4, SumAgree
  <2>6. Total(nat, gone) = bytes
    <3>1. \A p \in gone : nat[p] = SizeOf(bs)[p]
      BY <1>4, <1>10, Zenon DEF SizeOf
    <3> QED
      BY <3>1, <2>4, SumAgree, Zenon
  <2> HIDE DEF bytes
  <2>7. /\ bytes \in Nat /\ bytes <= Total(nat, D)
        /\ Total(nat, D) - bytes = Total(nat, R)
    BY <2>3, <2>6
  <2>8. Minus(Total(nat, D), bytes) = Total(nat, R)
    BY <2>7, <1>11, MinusExact, Zenon
  <2> QED
    BY <2>1, <2>5, <2>8, <1>5, Zenon DEF Held, D
<1> QED
  BY <1>9, <1>12, Zenon

\* The neighbour that tryMergeBlocks takes in is in the pool it is erased from.
LEMMA NeighbourCached ==
  ASSUME NEW bs, NEW pool, NEW allocated, NEW nat, NEW p, NEW c \in Pools,
         Freed(bs, pool, allocated, nat, p, c),
         NEW l \in DOMAIN bs, NEW r, r = bs[l].next, r # nullptr,
         NEW src \in DOMAIN bs, ~ inUse(bs[src]), src # p,
         \/ l = p /\ r = src
         \/ l = src /\ r = p
  PROVE  src \in pool[c] /\ \A d \in Pools \ {c} : src \notin pool[d]
<1> DEFINE full == Insert(pool, c, p)
<1>1. /\ p \in DOMAIN bs /\ ~ inUse(bs[p]) /\ IsPools(pool, DOMAIN bs)
      /\ Core(bs, full, allocated, nat)
  BY Zenon DEF Freed
<1>2. Inserted(full, pool, c, p)
  BY <1>1, InsertFields, Zenon
<1> HIDE DEF full
<1>3. Uniform(bs, full) /\ Exact(bs, full, allocated)
  BY <1>1, Zenon DEF Core
<1>4. PoolFor(bs, full, src) = PoolFor(bs, full, p)
  BY <1>3, Zenon DEF Uniform
<1>5. p \in full[c]
  BY <1>2, Zenon DEF Inserted
<1>6. /\ InPools(full, src) /\ ~ (src \in full["small"] /\ src \in full["large"])
      /\ ~ (p \in full["small"] /\ p \in full["large"])
  BY <1>1, <1>3, Zenon DEF Exact
<1>7. src \in full[c] /\ \A d \in Pools \ {c} : src \notin full[d]
  <2>1. CASE c = "small"
    BY <2>1, <1>1, <1>4, <1>5, <1>6 DEF PoolFor, InPools, Pools
  <2>2. CASE c = "large"
    BY <2>2, <1>1, <1>4, <1>5, <1>6 DEF PoolFor, InPools, Pools
  <2> QED
    BY <2>1, <2>2, Zenon DEF Pools
<1> QED
  BY <1>2, <1>7, Zenon DEF Inserted

\* tryMergeBlocks subtracts the block that it takes out of the pool.
LEMMA TryMergeCounted ==
  ASSUME NEW m, NEW nat, NEW p, NEW c \in Pools, FreedInfo(m, nat, p, c),
         Within(nat), Counted(m),
         NEW src \in {m.blocks[p].prev, m.blocks[p].next},
         NEW n, n = tryMergeBlocks(m, p, src, c)
  PROVE  Counted(n) /\ n.allocatedBytes = m.allocatedBytes
<1> DEFINE bs == m.blocks
           new == n.blocks
           l == IF bs[p].prev = src THEN src ELSE p
           r == bs[l].next
<1>1. /\ IsInfo(m) /\ p \in DOMAIN bs /\ ~ inUse(bs[p])
      /\ WellFormed(bs, nat) /\ IsPools(m.pool, DOMAIN bs)
      /\ ~ InPools(m.pool, p) /\ Freed(bs, m.pool, m.allocated, nat, p, c)
  BY Zenon DEF FreedInfo, Freed, Core
<1>2. CASE Unmergeable(m, p, src)
  BY <1>2, Zenon DEF tryMergeBlocks
<1>3. CASE ~ Unmergeable(m, p, src)
  <2>1. src # nullptr /\ ~ inUse(bs[src])
    BY <1>3, Zenon DEF Unmergeable
  <2>2. p # nullptr
    BY <1>1, Zenon DEF WellFormed, IsBlocks, nullptr
  <2>3. bs[p].prev = src => src \in DOMAIN bs /\ bs[src].next = p
    BY <2>1, <1>1, Zenon DEF WellFormed, LinksTile, PrevLinked
  <2>4. /\ l \in DOMAIN bs /\ r # nullptr
        /\ (l = p /\ r = src) \/ (l = src /\ r = p)
    BY <2>1, <2>2, <2>3, <1>1, Zenon
  <2>5. /\ new = Merged(bs, l) /\ n.pool = Erase(m.pool, c, src)
        /\ n.cachedBytes = Minus(m.cachedBytes, bs[src].size)
        /\ n.allocatedBytes = m.allocatedBytes
    BY <1>1, <1>3, Zenon DEF tryMergeBlocks, IsInfo, Fields
  <2> HIDE DEF l, new
  <2>6. r \in DOMAIN bs /\ r > l /\ bs[r].next # l /\ l \in Nat
    BY <2>4, <1>1, RightNeighbour DEF WellFormed, IsBlocks
  <2>7. src \in DOMAIN bs /\ src # p /\ l # r
    BY <2>4, <2>6, Zenon
  <2>8. MergedOf(Merged(bs, l), bs, l, r)
    BY <2>4, <2>6, <2>7, <1>1, MergedFields, Zenon DEF WellFormed
  <2>9. /\ DOMAIN new = DOMAIN bs \ {r}
        /\ \A q \in DOMAIN bs \ {l, r} : new[q].size = bs[q].size
    BY <2>5, <2>8, Zenon DEF MergedOf
  <2>10. src \in m.pool[c] /\ \A d \in Pools \ {c} : src \notin m.pool[d]
    BY <2>1, <2>4, <2>7, <1>1, NeighbourCached
  <2>11. Cached(n) = Cached(m) \ {src}
    <3>1. Erased(n.pool, m.pool, c, src)
      BY <2>5, <1>1, EraseFields, Zenon
    <3> QED
      BY <3>1, <2>10, CachedErased, Zenon
  <2>12. /\ Cached(m) \in SUBSET DOMAIN bs /\ src \in Cached(m)
         /\ p \notin Cached(m)
    BY <2>10, <1>1, CachedSubset, Zenon DEF Cached, Pools, InPools
  <2>13. Minus(Total(SizeOf(bs), Cached(m)), bs[src].size)
           = Total(SizeOf(bs), Cached(m) \ {src})
    BY <2>12, <1>1, TakenOut, Zenon
  <2> DEFINE R == Cached(m) \ {src}
  <2>14. R \in SUBSET DOMAIN bs
    BY <2>12, Zenon
  <2>15. \A q \in R : q \in DOMAIN bs /\ q \in DOMAIN new /\ new[q].size = bs[q].size
    BY <2>4, <2>9, <2>12, Zenon
  <2> HIDE DEF R
  <2>16. IsFiniteSet(R)
    BY <2>14, <1>1, PartBytes, Zenon
  <2>17. Total(SizeOf(new), R) = Total(SizeOf(bs), R)
    BY <2>15, <2>16, SameSizes, Zenon
  <2> QED
    BY <2>5, <2>11, <2>13, <2>17, Zenon DEF Counted, R, new
<1> QED
  BY <1>2, <1>3, Zenon

\* freeBlock adds the size of the block that results.
LEMMA FreeBlockCounted ==
  ASSUME NEW m, NEW nat, NEW p, NEW c, c = PoolOf(m.blocks[p].size),
         FreedInfo(m, nat, p, c), Within(nat), Counted(m),
         NEW n, n = freeBlock(m, p)
  PROVE  Counted(n) /\ n.allocatedBytes = m.allocatedBytes
<1> DEFINE left == tryMergeBlocks(m, p, m.blocks[p].prev, c)
           d == IF p \in DOMAIN left.blocks THEN p ELSE m.blocks[p].prev
           both == tryMergeBlocks(left, d, left.blocks[d].next, c)
<1>1. c \in Pools
  BY Zenon DEF PoolOf, Pools
<1>2. n = [both EXCEPT !.pool = Insert(both.pool, c, d),
                       !.cachedBytes = both.cachedBytes + both.blocks[d].size]
  BY Zenon DEF freeBlock
<1>3. FreedInfo(left, nat, d, c) /\ LeftUsed(left.blocks, d)
  BY <1>1, TryMergeLeft, Zenon
<1>4. Counted(left) /\ left.allocatedBytes = m.allocatedBytes
  <2>1. /\ left = tryMergeBlocks(m, p, m.blocks[p].prev, c)
        /\ m.blocks[p].prev \in {m.blocks[p].prev, m.blocks[p].next}
    BY Zenon
  <2> HIDE DEF left
  <2> QED
    BY <2>1, <1>1, TryMergeCounted
<1> HIDE DEF left, d
<1>5. Counted(both) /\ both.allocatedBytes = left.allocatedBytes
  <2>1. /\ both = tryMergeBlocks(left, d, left.blocks[d].next, c)
        /\ left.blocks[d].next \in {left.blocks[d].prev, left.blocks[d].next}
    BY Zenon
  <2> HIDE DEF both
  <2> QED
    BY <2>1, <1>1, <1>3, <1>4, TryMergeCounted
<1>6. FreedInfo(both, nat, d, c)
  BY <1>1, <1>3, TryMergeRight, Zenon
<1> HIDE DEF both
<1>7. /\ IsInfo(both) /\ d \in DOMAIN both.blocks
      /\ IsPools(both.pool, DOMAIN both.blocks) /\ ~ InPools(both.pool, d)
      /\ WellFormed(both.blocks, nat)
  BY <1>6, Zenon DEF FreedInfo, Freed, Core
<1>8. /\ n.blocks = both.blocks /\ n.pool = Insert(both.pool, c, d)
      /\ n.cachedBytes = both.cachedBytes + both.blocks[d].size
      /\ n.allocatedBytes = both.allocatedBytes
  BY <1>2, <1>7, Zenon DEF IsInfo, Fields
<1>9. Cached(n) = Cached(both) \cup {d}
  <2>1. Inserted(n.pool, both.pool, c, d)
    BY <1>1, <1>7, <1>8, InsertFields, Zenon
  <2>2. CASE c = "small"
    BY <2>1, <2>2, Zenon DEF Inserted, Pools, Cached
  <2>3. CASE c = "large"
    BY <2>1, <2>3, Zenon DEF Inserted, Pools, Cached
  <2> QED
    BY <2>2, <2>3, <1>1, Zenon DEF Pools
<1>10. Cached(both) \in SUBSET DOMAIN both.blocks /\ d \notin Cached(both)
  BY <1>7, CachedSubset, Zenon DEF InPools, Cached
<1>11. Total(SizeOf(both.blocks), Cached(both) \cup {d})
         = Total(SizeOf(both.blocks), Cached(both)) + both.blocks[d].size
  BY <1>7, <1>10, PutIn, Zenon
<1> QED
  BY <1>4, <1>5, <1>8, <1>9, <1>11, Zenon DEF Counted

\* alloc from the native allocator, before or after a cleanup.
LEMMA NativeCounted ==
  ASSUME NEW m, NEW nat, Inv(m, nat), Within(nat), Counted(m), Held(m, nat),
         NEW req \in Nat \ {0}, NEW user,
         NEW size, size = roundSize(req),
         NEW allocSize, allocSize = getAllocationSize(size),
         NEW a \in NativeGaps(nat, user, allocSize),
         NEW limit \in Nat, limit > kSmallBuffer, NEW who \in Locks,
         NEW n, n = HandOut(NewBlock(m, a, allocSize), a, size, PoolOf(size),
                            limit, who),
         NEW nat2, nat2 = NativeAlloc(nat, a, allocSize)
  PROVE  Counted(n) /\ Held(n, nat2)
<1> DEFINE c == PoolOf(size)
           k == NewBlock(m, a, allocSize)
<1>1. size \in Nat \ {0} /\ IsMultiple(size)
  BY RoundSize, Zenon
<1>2. /\ allocSize \in Nat \ {0} /\ allocSize >= size
      /\ IsMultiple(allocSize)
      /\ c = "small" => allocSize = kSmallBuffer
  BY <1>1, AllocationSize, Zenon
<1>3. /\ a \in Nat \ {0} /\ c \in Pools /\ a + allocSize <= DeviceEnd
      /\ \A b \in DOMAIN nat : a + allocSize <= b \/ b + nat[b] <= a
  BY SizeAssumption, Zenon DEF NativeGaps, PoolOf, Pools
<1>4. Detached(k, nat2, a, c) /\ k.blocks[a].size = allocSize
  BY <1>2, <1>3, NewBlockDetached
<1>5. Counted(k) /\ Held(k, nat2)
  <2>1. k = NewBlock(m, a, allocSize)
    BY Zenon
  <2> HIDE DEF k, c
  <2> QED
    BY <2>1, <1>2, <1>3, NewBlockCounted, Zenon
<1>6. Within(nat2)
  BY <1>3, Zenon DEF Within, NativeAlloc
<1>7. n = HandOut(k, a, size, c, limit, who)
  BY Zenon
<1>8. c = PoolOf(size)
  BY Zenon
<1> HIDE DEF k, c
<1>9. size <= k.blocks[a].size
  BY <1>1, <1>2, <1>4, Zenon
<1>10. Counted(n) /\ n.allocatedBytes = k.allocatedBytes
  BY <1>1, <1>3, <1>4, <1>5, <1>6, <1>7, <1>8, <1>9, HandOutCounted
<1> QED
  BY <1>5, <1>10, Zenon DEF Held

\* An allocation from a pool keeps the counters exact.
LEMMA RecycledCounted ==
  ASSUME Inv(info, native), Within(native), Counted(info),
         NEW req \in Nat \ {0}, NEW who \in Locks,
         splitSizeLimit \in Nat, splitSizeLimit > kSmallBuffer,
         AllocRecycled(req, who)
  PROVE  Counted(info') /\ info'.allocatedBytes = info.allocatedBytes
<1> DEFINE size == roundSize(req)
           c == PoolOf(size)
<1>1. size \in Nat \ {0} /\ IsMultiple(size) /\ c \in Pools
  BY RoundSize, Zenon DEF PoolOf, Pools
<1>2. PICK p \in Recyclable(size, c) :
        info' = HandOut(Recycle(info, p, c), p, size, c, splitSizeLimit, who)
  BY Zenon DEF AllocRecycled
<1>3. p \in info.pool[c] /\ info.blocks[p].size >= size
  BY Zenon DEF Recyclable, LowerBound
<1> DEFINE n == Recycle(info, p, c)
<1>4. Detached(n, native, p, c) /\ n.blocks = info.blocks
  BY <1>1, <1>3, RecycleDetaches, Zenon
<1>5. Counted(n) /\ n.allocatedBytes = info.allocatedBytes
  <2>1. n = Recycle(info, p, c)
    BY Zenon
  <2> HIDE DEF n, c
  <2> QED
    BY <2>1, <1>1, <1>3, RecycleCounted
<1>6. p \in DOMAIN info.blocks /\ info.blocks[p].size \in Nat
  <2>1. Ready(n.blocks, n.pool, n.allocated, native, p, c)
    BY <1>4, Zenon DEF Detached
  <2> HIDE DEF n
  <2>2. WellFormed(n.blocks, native) /\ p \in DOMAIN n.blocks
    BY <2>1, Zenon DEF Ready, Core
  <2> QED
    BY <2>2, <1>4, Zenon DEF WellFormed, IsBlocks, BlockType
<1>7. c = PoolOf(size)
  BY Zenon
<1> HIDE DEF n, size, c
<1>8. size <= n.blocks[p].size
  BY <1>1, <1>3, <1>4, <1>6, Zenon
<1>9. info' = HandOut(n, p, size, c, splitSizeLimit, who)
  BY <1>2, Zenon DEF n
<1>10. Counted(info') /\ info'.allocatedBytes = n.allocatedBytes
  BY <1>1, <1>4, <1>5, <1>7, <1>8, <1>9, HandOutCounted
<1> QED
  BY <1>5, <1>10, Zenon

\* So does one after signalMemoryCleanup.
LEMMA AfterCleanupCounted ==
  ASSUME Inv(info, native), Within(native), Counted(info), Held(info, native),
         NEW req \in Nat \ {0}, NEW who \in Locks,
         splitSizeLimit \in Nat, splitSizeLimit > kSmallBuffer,
         AllocAfterCleanup(req, who)
  PROVE  Counted(info') /\ Held(info', native')
<1> DEFINE size == roundSize(req)
           allocSize == getAllocationSize(size)
           m    == signalMemoryCleanup(info)
           nat  == NativeFree(native, Releasable(info))
           user == userHeld \ Releasable(info)
<1>1. Inv(m, nat)
  BY CleanupInv, Zenon
<1>2. Counted(m) /\ Held(m, nat)
  <2>1. m = signalMemoryCleanup(info)
        /\ nat = NativeFree(native, Releasable(info))
    BY Zenon
  <2> HIDE DEF m, nat
  <2> QED
    BY <2>1, CleanupCounted, Zenon
<1>3. Within(nat)
  BY Zenon DEF Within, NativeFree
<1>4. \/ \E a \in NativeGaps(nat, user, allocSize) :
           /\ native' = NativeAlloc(nat, a, allocSize)
           /\ info' = HandOut(NewBlock(m, a, allocSize), a, size,
                              PoolOf(size), splitSizeLimit, who)
      \/ native' = nat /\ info' = m
  BY Zenon DEF AllocAfterCleanup
<1> HIDE DEF m, nat, user
<1>5. CASE native' = nat /\ info' = m
  BY <1>2, <1>5, Zenon
<1>6. CASE ~ (native' = nat /\ info' = m)
  <2>1. PICK a \in NativeGaps(nat, user, allocSize) :
          /\ native' = NativeAlloc(nat, a, allocSize)
          /\ info' = HandOut(NewBlock(m, a, allocSize), a, size, PoolOf(size),
                             splitSizeLimit, who)
    BY <1>4, <1>6, Zenon
  <2> QED
    BY <2>1, <1>1, <1>2, <1>3, NativeCounted, Zenon
<1> QED
  BY <1>5, <1>6, Zenon

\* A change of locks alone changes no counter.
LEMMA LockedCounted ==
  ASSUME NEW m, NEW nat, Inv(m, nat), Within(nat), Counted(m),
         NEW p, NEW L, NEW new, LockedOf(new, m.blocks, p, L),
         NEW n, n.blocks = new, n.pool = m.pool,
         n.cachedBytes = m.cachedBytes
  PROVE  Counted(n)
<1>1. WellFormed(m.blocks, nat) /\ IsPools(m.pool, DOMAIN m.blocks)
  BY Zenon DEF Inv, Parts, Core, Exact
<1>2. Cached(m) \in SUBSET DOMAIN m.blocks /\ IsFiniteSet(Cached(m))
  BY <1>1, CachedSubset, PartBytes, Zenon
<1>3. Cached(n) = Cached(m)
  BY Zenon DEF Cached
<1>4. \A q \in Cached(m) : /\ q \in DOMAIN m.blocks /\ q \in DOMAIN new
                           /\ new[q].size = m.blocks[q].size
  BY <1>2, Zenon DEF LockedOf
<1>5. Total(SizeOf(new), Cached(m)) = Total(SizeOf(m.blocks), Cached(m))
  BY <1>2, <1>4, SameSizes, Zenon
<1> QED
  BY <1>3, <1>5, Zenon DEF Counted

\* unlock and freeBlock.
LEMMA UnlockCounted ==
  ASSUME Inv(info, native), Within(native), Counted(info),
         NEW p \in info.allocated, NEW who \in Locks, unlock(p, who)
  PROVE  Counted(info') /\ info'.allocatedBytes = info.allocatedBytes
<1> DEFINE bs == info.blocks
           L == bs[p].locks \ {who}
           new == SetLocks(bs, p, L)
           m == [info EXCEPT !.blocks = new]
           f == [m EXCEPT !.allocated = m.allocated \ {p}]
<1>1. /\ p \in DOMAIN bs /\ inUse(bs[p]) /\ bs[p].locks \in SUBSET Locks
      /\ IsBlocks(bs) /\ IsInfo(info)
  BY Registered, Zenon DEF Inv
<1>2. L \in SUBSET Locks
  BY <1>1, Zenon
<1>3. Has(m, new, info.pool, info.allocated)
  BY <1>1, Zenon DEF Has, IsInfo, Fields
<1>4. /\ m.cachedBytes = info.cachedBytes
      /\ m.allocatedBytes = info.allocatedBytes
      /\ f.cachedBytes = info.cachedBytes
      /\ f.allocatedBytes = info.allocatedBytes
  BY <1>1, Zenon DEF IsInfo, Fields
<1>5. info' = IF inUse(m.blocks[p]) THEN m ELSE freeBlock(f, p)
  BY Zenon DEF unlock
<1>6. Has(f, new, info.pool, info.allocated \ {p})
  BY <1>3, Zenon DEF Has, IsInfo, Fields
<1> HIDE DEF L
<1>7. LockedOf(new, bs, p, L)
  BY <1>1, <1>2, LockedFields, Zenon
<1> HIDE DEF m, f, new
<1>8. /\ m.blocks = new /\ m.pool = info.pool
      /\ f.blocks = new /\ f.pool = info.pool
  BY <1>3, <1>6, Zenon DEF Has
<1>9. CASE inUse(new[p])
  <2>1. Counted(m)
    BY <1>4, <1>7, <1>8, LockedCounted, Zenon
  <2> QED
    BY <2>1, <1>4, <1>5, <1>8, <1>9, Zenon
<1>10. CASE ~ inUse(new[p])
  <2> DEFINE c == PoolOf(bs[p].size)
  <2>1. L = {}
    BY <1>7, <1>10, Zenon DEF LockedOf, inUse
  <2>2. Counted(f)
    BY <1>4, <1>7, <1>8, LockedCounted, Zenon
  <2>3. Freed(new, info.pool, info.allocated \ {p}, native, p, c)
    <3>1. Parts(bs, info.pool, info.allocated, native)
      BY Zenon DEF Inv
    <3> QED
      BY <3>1, <2>1, <1>1, <1>7, ReleasedFreed, Zenon
  <2> HIDE DEF c
  <2>4. FreedInfo(f, native, p, c)
    BY <2>3, <1>6, FreedInfoHas, Zenon
  <2>5. c = PoolOf(f.blocks[p].size)
    BY <1>1, <1>7, <1>8, Zenon DEF LockedOf, c
  <2>6. info' = freeBlock(f, p)
    BY <1>5, <1>8, <1>10, Zenon
  <2>7. Counted(info') /\ info'.allocatedBytes = f.allocatedBytes
    BY <2>2, <2>4, <2>5, <2>6, FreeBlockCounted, Zenon
  <2> QED
    BY <2>7, <1>4, Zenon
<1> QED
  BY <1>9, <1>10, Zenon

\* So does userLock.
LEMMA UserLockCounted ==
  ASSUME Inv(info, native), Within(native), Counted(info),
         NEW p \in info.allocated, userLock(p)
  PROVE  Counted(info') /\ info'.allocatedBytes = info.allocatedBytes
<1> DEFINE bs == info.blocks
           L == bs[p].locks \cup {"user"}
           new == SetLocks(bs, p, L)
<1>1. /\ p \in DOMAIN bs /\ bs[p].locks \in SUBSET Locks
      /\ IsBlocks(bs) /\ IsInfo(info)
  BY Registered, Zenon DEF Inv
<1>2. L \in SUBSET Locks
  BY <1>1, Zenon DEF Locks
<1>3. /\ info'.blocks = new /\ info'.pool = info.pool
      /\ info'.cachedBytes = info.cachedBytes
      /\ info'.allocatedBytes = info.allocatedBytes
  BY <1>1, Zenon DEF userLock, IsInfo, Fields
<1> HIDE DEF L
<1>4. LockedOf(new, bs, p, L)
  BY <1>1, <1>2, LockedFields, Zenon
<1> HIDE DEF new
<1> QED
  BY <1>3, <1>4, LockedCounted, Zenon

\* The inductive invariant behind the two counters.
BytesInv == IInv /\ InDevice /\ Counted(info) /\ Held(info, native)

\* Both counters start at 0.
LEMMA BytesInit ==
  ASSUME Init
  PROVE  BytesInv
<1>1. /\ DOMAIN native = {} /\ Cached(info) = {}
      /\ info.cachedBytes = 0 /\ info.allocatedBytes = 0
  BY Zenon DEF Init, Cached
<1>2. InDevice
  BY <1>1, Zenon DEF InDevice
<1>3. Counted(info) /\ Held(info, native)
  BY <1>1, SumEmpty, Zenon DEF Counted, Held
<1> QED
  BY <1>2, <1>3, InitIInv, Zenon DEF BytesInv

\* Every step keeps the counters exact.
LEMMA BytesStep ==
  ASSUME \A l \in SplitSizeLimits : l > kSmallBuffer, BytesInv, [Next]_vars
  PROVE  BytesInv'
<1>1. IInv' /\ InDevice'
  BY StepIInv, InDeviceStep, Zenon DEF BytesInv
<1> SUFFICES (Counted(info) /\ Held(info, native))'
  BY <1>1, Zenon DEF BytesInv
<1>2. /\ Inv(info, native) /\ Within(native)
      /\ Counted(info) /\ Held(info, native)
  BY Zenon DEF BytesInv, IInv, InDevice, Within
<1>3. CASE UNCHANGED <<info, native>>
  BY <1>2, <1>3, Zenon DEF Counted, Held, Cached
<1>4. ASSUME Counted(info'), info'.allocatedBytes = info.allocatedBytes,
             native' = native
      PROVE  (Counted(info) /\ Held(info, native))'
  BY <1>2, <1>4, Zenon DEF Held
<1>5. ASSUME NEW req \in Requests, NEW who \in Locks, alloc(req, who)
      PROVE  (Counted(info) /\ Held(info, native))'
  <2>1. /\ req \in Nat \ {0} /\ splitSizeLimit \in Nat
        /\ splitSizeLimit > kSmallBuffer
    BY <1>5, SizeAssumption DEF alloc, BytesInv, IInv, Rest
  <2>2. CASE AllocRecycled(req, who)
    <3>1. native' = native
      BY <2>2, Zenon DEF AllocRecycled
    <3> QED
      BY <3>1, <2>1, <2>2, <1>2, <1>4, RecycledCounted, Zenon
  <2>3. CASE AllocNative(req, who)
    <3> DEFINE size == roundSize(req)
               allocSize == getAllocationSize(size)
    <3>1. PICK a \in NativeGaps(native, userHeld, allocSize) :
            /\ native' = NativeAlloc(native, a, allocSize)
            /\ info' = HandOut(NewBlock(info, a, allocSize), a, size,
                               PoolOf(size), splitSizeLimit, who)
      BY <2>3, Zenon DEF AllocNative
    <3> QED
      BY <3>1, <2>1, <1>2, NativeCounted, Zenon
  <2>4. CASE AllocAfterCleanup(req, who)
    BY <2>1, <2>4, <1>2, AfterCleanupCounted, Zenon
  <2> QED
    BY <2>2, <2>3, <2>4, <1>5, Zenon DEF alloc
<1>6. ASSUME NEW p \in info.allocated, NEW who \in Locks, unlock(p, who)
      PROVE  (Counted(info) /\ Held(info, native))'
  <2>1. native' = native
    BY <1>6, Zenon DEF unlock
  <2> QED
    BY <2>1, <1>2, <1>4, <1>6, UnlockCounted, Zenon
<1>7. ASSUME NEW p \in info.allocated, userLock(p)
      PROVE  (Counted(info) /\ Held(info, native))'
  <2>1. native' = native
    BY <1>7, Zenon DEF userLock
  <2> QED
    BY <2>1, <1>2, <1>4, <1>7, UserLockCounted, Zenon
<1>8. CASE shutdown
  <2>1. /\ info' = signalMemoryCleanup(info)
        /\ native' = NativeFree(native, Releasable(info))
    BY <1>8, Zenon DEF shutdown
  <2> QED
    BY <2>1, <1>2, CleanupCounted
<1> QED
  BY <1>3, <1>5, <1>6, <1>7, <1>8
  DEF Next, vars, AllocNothing, unlockUnknown, setRecyclingSizeLimit,
      setSplitSizeLimit

\* BytesAccounted is part of the invariant.
LEMMA BytesImplies ==
  ASSUME BytesInv
  PROVE  BytesAccounted
<1>1. IsPools(info.pool, DOMAIN info.blocks)
  BY Zenon DEF BytesInv, IInv, Inv, Parts, Core, Exact
<1>2. Cached(info) \in SUBSET DOMAIN info.blocks
  BY <1>1, CachedSubset, Zenon
<1>3. MapThenSumSet(LAMBDA p : info.blocks[p].size, Cached(info))
        = Total(SizeOf(info.blocks), Cached(info))
  BY <1>2, SizeSum, Zenon
<1>4. MapThenSumSet(LAMBDA a : native[a], DOMAIN native)
        = Total(native, DOMAIN native)
  BY Zenon DEF Total
<1> QED
  BY <1>3, <1>4, Zenon DEF BytesInv, Counted, Held, BytesAccounted

\* For any sizes, addresses and requests, and any limits on splitting above
\* kSmallBuffer: after any history of alloc, unlock, userLock and
\* signalMemoryCleanup, with the splits and merges they make, cachedBytes_ is
\* exactly the sum of the sizes of the blocks in the two pools and
\* allocatedBytes_ that of the native allocations.  The unsigned subtractions in
\* alloc, tryMergeBlocks and freeBlocks never wrap.
THEOREM BytesExact ==
  ASSUME \A l \in SplitSizeLimits : l > kSmallBuffer
  PROVE  Spec => []BytesAccounted
<1>1. Init => BytesInv
  BY BytesInit, Zenon
<1>2. BytesInv /\ [Next]_vars => BytesInv'
  BY BytesStep, Zenon
<1>3. BytesInv => BytesAccounted
  BY BytesImplies, Zenon
<1> QED
  BY <1>1, <1>2, <1>3, PTL DEF Spec
==============================================================================
