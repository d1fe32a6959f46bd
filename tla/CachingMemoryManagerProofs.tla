--------------------- MODULE CachingMemoryManagerProofs ----------------------
(***************************************************************************)
(* For all sizes, addresses and limits that satisfy SizeAssumption, the    *)
(* allocator never lets two blocks overlap and keeps its lists and pools   *)
(* consistent, reports that memory is out only when it is, and implements  *)
(* a plain device memory.  What one step of an operation does to the       *)
(* blocks comes first, then the invariant and the refinement.              *)
(***************************************************************************)
EXTENDS CachingMemoryManager, TLAPS

BlockType == [size : Nat \ {0}, locks : SUBSET Locks, prev : Nat, next : Nat]

IsBlocks(bs) ==
  /\ bs = [p \in DOMAIN bs |-> bs[p]]
  /\ \A p \in DOMAIN bs : p \in Nat \ {0} /\ bs[p] \in BlockType

IsNative(nat) ==
  /\ \A a \in DOMAIN nat : a \in Nat \ {0} /\ nat[a] \in Nat \ {0}
  /\ \A a, b \in DOMAIN nat : a # b => a + nat[a] <= b \/ b + nat[b] <= a

\* The facts about blocks and native allocations that do not mention pools.
WellFormed(bs, nat) ==
  IsBlocks(bs) /\ IsNative(nat) /\ LinksTile(bs, nat) /\ Apart(bs)

\* new is bs with block l and its right neighbour r made one, field by field.
MergedOf(new, bs, l, r) ==
  /\ DOMAIN new = DOMAIN bs \ {r}
  /\ IsBlocks(new)
  /\ new[l].size = bs[l].size + bs[r].size
  /\ new[l].next = bs[r].next
  /\ new[l].prev = bs[l].prev
  /\ new[l].locks = bs[l].locks
  /\ \A q \in DOMAIN bs \ {l, r} :
       /\ new[q].size = bs[q].size
       /\ new[q].next = bs[q].next
       /\ new[q].locks = bs[q].locks
       /\ new[q].prev = IF q = bs[r].next THEN l ELSE bs[q].prev

\* What Merged returns.
LEMMA MergedFields ==
  ASSUME NEW bs, IsBlocks(bs), NEW l \in DOMAIN bs,
         NEW r \in DOMAIN bs, r = bs[l].next, l # r, bs[r].next # l
  PROVE  MergedOf(Merged(bs, l), bs, l, r)
<1> DEFINE new == Merged(bs, l)
<1>1. DOMAIN new = DOMAIN bs \ {r}
  BY Zenon DEF Merged
<1>2. new[l] = [bs[l] EXCEPT !.size = @ + bs[r].size, !.next = bs[r].next]
  BY Zenon DEF Merged
<1>3. \A q \in DOMAIN bs \ {l, r} :
        new[q] = IF q = bs[r].next THEN [bs[q] EXCEPT !.prev = l] ELSE bs[q]
  BY Zenon DEF Merged
<1>4. \A q \in DOMAIN bs : q \in Nat \ {0} /\ bs[q] \in BlockType
  BY Zenon DEF IsBlocks
<1>5. new[l] \in BlockType
  <2>1. bs[l].size + bs[r].size \in Nat \ {0} /\ bs[r].next \in Nat
    BY <1>4 DEF BlockType
  <2>2. [bs[l] EXCEPT !.size = bs[l].size + bs[r].size, !.next = bs[r].next]
          \in BlockType
    BY <2>1, <1>4, Zenon DEF BlockType
  <2> QED
    BY <1>2, <2>2, Zenon
<1>6. ASSUME NEW q \in DOMAIN bs \ {l, r} PROVE new[q] \in BlockType
  <2>1. [bs[q] EXCEPT !.prev = l] \in BlockType
    BY <1>4, Zenon DEF BlockType
  <2> QED
    BY <2>1, <1>3, <1>4, Zenon
<1>7. IsBlocks(new)
  <2>1. new = [q \in DOMAIN new |-> new[q]]
    BY Zenon DEF Merged
  <2> QED
    BY <2>1, <1>1, <1>4, <1>5, <1>6, Zenon DEF IsBlocks
<1>8. /\ new[l].size = bs[l].size + bs[r].size
      /\ new[l].next = bs[r].next
      /\ new[l].prev = bs[l].prev
      /\ new[l].locks = bs[l].locks
  BY <1>2, <1>4, Zenon DEF BlockType
<1>9. ASSUME NEW q \in DOMAIN bs \ {l, r}
      PROVE  /\ new[q].size = bs[q].size
             /\ new[q].next = bs[q].next
             /\ new[q].locks = bs[q].locks
             /\ new[q].prev = IF q = bs[r].next THEN l ELSE bs[q].prev
  BY <1>3, <1>4, Zenon DEF BlockType
<1> QED
  BY <1>1, <1>7, <1>8, <1>9, Zenon DEF MergedOf

\* The neighbour on the right: linked both ways, adjacent, further right than
\* the block and in the same native allocation.
LEMMA RightNeighbour ==
  ASSUME NEW bs, NEW nat, WellFormed(bs, nat), NEW l \in DOMAIN bs,
         bs[l].next # nullptr
  PROVE  /\ bs[l].next \in DOMAIN bs
         /\ bs[l].next = l + bs[l].size
         /\ bs[bs[l].next].prev = l
         /\ bs[l].next > l
         /\ bs[bs[l].next].next # l
         /\ bs[bs[l].next].next # bs[l].next
<1> DEFINE r == bs[l].next
<1>1. /\ r \in DOMAIN bs /\ r = l + bs[l].size /\ bs[r].prev = l
      /\ bs[r].next # nullptr => bs[r].next = r + bs[r].size
  BY Zenon DEF WellFormed, LinksTile, NextLinked
<1>2. /\ l \in Nat \ {0} /\ bs[l].size \in Nat \ {0}
      /\ r \in Nat \ {0} /\ bs[r].size \in Nat \ {0}
  BY <1>1, Zenon DEF WellFormed, IsBlocks, BlockType
<1> QED
  BY <1>1, <1>2 DEF nullptr

\* Merging a block with its right neighbour keeps the lists and the memory
\* well formed (tryMergeBlocks).
LEMMA MergedWellFormed ==
  ASSUME NEW bs, NEW nat, WellFormed(bs, nat), NEW l \in DOMAIN bs,
         bs[l].next # nullptr
  PROVE  WellFormed(Merged(bs, l), nat)
<1> DEFINE r == bs[l].next
           new == Merged(bs, l)
<1>1. /\ r \in DOMAIN bs /\ r = l + bs[l].size /\ bs[r].prev = l
      /\ r > l /\ bs[r].next # l /\ bs[r].next # r /\ l # r
      /\ r = bs[l].next
  <2>1. l \in Nat
    BY Zenon DEF WellFormed, IsBlocks
  <2> QED
    BY <2>1, RightNeighbour
<1>2. MergedOf(new, bs, l, r)
  BY <1>1, MergedFields, Zenon DEF WellFormed
<1>4. \A q \in DOMAIN bs :
        /\ q \in Nat \ {0} /\ bs[q].size \in Nat \ {0}
        /\ bs[q].prev \in Nat /\ bs[q].next \in Nat
  BY Zenon DEF WellFormed, IsBlocks, BlockType
<1>5. \A q \in DOMAIN bs :
        NextLinked(bs, q) /\ PrevLinked(bs, q) /\ InNative(bs, nat, q)
  BY Zenon DEF WellFormed, LinksTile
<1> HIDE DEF new, r
<1>6. ASSUME NEW p \in DOMAIN new PROVE NextLinked(new, p)
  <2> SUFFICES ASSUME new[p].next # nullptr
               PROVE  /\ new[p].next = p + new[p].size
                      /\ new[p].next \in DOMAIN new
                      /\ new[new[p].next].prev = p
    BY Zenon DEF NextLinked
  <2>1. CASE p = l
    <3>1. /\ bs[r].next = r + bs[r].size /\ bs[r].next \in DOMAIN bs
          /\ bs[bs[r].next].prev = r
      BY <1>1, <1>2, <1>5, <2>1, Zenon DEF MergedOf, NextLinked
    <3> QED
      BY <2>1, <3>1, <1>1, <1>2, <1>4 DEF MergedOf
  <2>2. CASE p # l
    <3>1. /\ p \in DOMAIN bs \ {l, r} /\ new[p].next = bs[p].next
          /\ new[p].size = bs[p].size
      BY <2>2, <1>2, Zenon DEF MergedOf
    <3>2. /\ bs[p].next = p + bs[p].size /\ bs[p].next \in DOMAIN bs
          /\ bs[bs[p].next].prev = p
      BY <3>1, <1>5, Zenon DEF NextLinked
    <3>3. bs[p].next # r
      BY <3>1, <3>2, <1>1, Zenon
    <3>4. bs[p].next = l => new[l].prev = p
      BY <3>2, <1>2, Zenon DEF MergedOf
    <3>5. bs[r].next # nullptr => bs[bs[r].next].prev = r
      BY <1>1, <1>5, Zenon DEF NextLinked
    <3>6. bs[p].next # bs[r].next
      BY <3>1, <3>2, <3>5, Zenon
    <3> QED
      BY <3>1, <3>2, <3>3, <3>4, <3>6, <1>2 DEF MergedOf
  <2> QED
    BY <2>1, <2>2, Zenon
<1>7. ASSUME NEW p \in DOMAIN new PROVE PrevLinked(new, p)
  <2> SUFFICES ASSUME new[p].prev # nullptr
               PROVE  /\ new[p].prev \in DOMAIN new
                      /\ new[new[p].prev].next = p
    BY Zenon DEF PrevLinked
  <2>1. CASE p = l
    <3>1. bs[l].prev \in DOMAIN bs /\ bs[bs[l].prev].next = l
      BY <2>1, <1>2, <1>5, Zenon DEF MergedOf, PrevLinked
    <3>2. bs[l].prev # l /\ bs[l].prev # r
      BY <3>1, <1>1, <1>4, Zenon
    <3> QED
      BY <2>1, <3>1, <3>2, <1>2 DEF MergedOf
  <2>2. CASE p # l /\ p = bs[r].next
    BY <2>2, <1>1, <1>2, Zenon DEF MergedOf
  <2>3. CASE p # l /\ p # bs[r].next
    <3>1. /\ p \in DOMAIN bs \ {l, r} /\ new[p].prev = bs[p].prev
      BY <2>3, <1>2, Zenon DEF MergedOf
    <3>2. bs[p].prev \in DOMAIN bs /\ bs[bs[p].prev].next = p
      BY <3>1, <1>5, Zenon DEF PrevLinked
    <3>3. bs[p].prev # r /\ bs[p].prev # l
      BY <3>1, <3>2, <2>3, <1>1, Zenon
    <3> QED
      BY <3>1, <3>2, <3>3, <1>2 DEF MergedOf
  <2> QED
    BY <2>1, <2>2, <2>3, Zenon
<1>8. ASSUME NEW p \in DOMAIN new PROVE InNative(new, nat, p)
  <2>1. CASE p = l
    <3>1. PICK a \in DOMAIN nat :
            /\ a <= l /\ l + bs[l].size <= a + nat[a]
            /\ bs[l].prev = nullptr <=> l = a
            /\ bs[l].next = nullptr <=> l + bs[l].size = a + nat[a]
      BY <1>5, Zenon DEF InNative
    <3>2. PICK b \in DOMAIN nat :
            /\ b <= r /\ r + bs[r].size <= b + nat[b]
            /\ bs[r].next = nullptr <=> r + bs[r].size = b + nat[b]
      BY <1>1, <1>5, Zenon DEF InNative
    <3>3. r < a + nat[a]
      BY <3>1, <1>1, <1>4 DEF WellFormed, IsNative, r
    <3>4. a = b
      BY <3>1, <3>2, <3>3, <1>1, <1>4 DEF WellFormed, IsNative
    <3>5. l + (bs[l].size + bs[r].size) = r + bs[r].size
      BY <1>1, <1>4
    <3> QED
      BY <2>1, <3>1, <3>2, <3>4, <3>5, <1>2 DEF MergedOf, InNative
  <2>2. CASE p # l
    <3>1. /\ p \in DOMAIN bs \ {l, r} /\ new[p].size = bs[p].size
          /\ new[p].next = bs[p].next
      BY <2>2, <1>2, Zenon DEF MergedOf
    <3>2. new[p].prev = nullptr <=> bs[p].prev = nullptr
      <4>1. p = bs[r].next => bs[p].prev = r
        BY <1>1, <1>5, <3>1, <1>4, Zenon DEF NextLinked, nullptr
      <4> QED
        BY <4>1, <3>1, <1>1, <1>2, <1>4, Zenon DEF MergedOf, nullptr
    <3> QED
      BY <3>1, <3>2, <1>5, Zenon DEF InNative
  <2> QED
    BY <2>1, <2>2, Zenon
<1>9. Apart(new)
  <2>1. Apart(bs)
    BY Zenon DEF WellFormed
  <2> SUFFICES ASSUME NEW p \in DOMAIN new, NEW q \in DOMAIN new, p # q
               PROVE  p + new[p].size <= q \/ q + new[q].size <= p
    BY Zenon DEF Apart
  <2>2. /\ p + bs[p].size <= q \/ q + bs[q].size <= p
        /\ r + bs[r].size <= q \/ q + bs[q].size <= r
        /\ r + bs[r].size <= p \/ p + bs[p].size <= r
    BY <2>1, <1>1, <1>2, Zenon DEF MergedOf, Apart
  <2>3. CASE p = l
    BY <2>2, <2>3, <1>1, <1>2, <1>4 DEF MergedOf
  <2>4. CASE q = l
    BY <2>2, <2>4, <1>1, <1>2, <1>4 DEF MergedOf
  <2>5. CASE p # l /\ q # l
    BY <2>2, <2>5, <1>2, Zenon DEF MergedOf
  <2> QED
    BY <2>3, <2>4, <2>5, Zenon
<1> QED
  BY <1>2, <1>6, <1>7, <1>8, <1>9, Zenon DEF MergedOf, WellFormed, LinksTile, new

\* new is bs with block p cut in two, field by field.
SplitOf(new, bs, p, size, rest, who) ==
  /\ DOMAIN new = DOMAIN bs \cup {rest}
  /\ IsBlocks(new)
  /\ new[p].size = size
  /\ new[p].locks = {who}
  /\ new[p].prev = bs[p].prev
  /\ new[p].next = rest
  /\ new[rest].size = bs[p].size - size
  /\ new[rest].locks = bs[p].locks
  /\ new[rest].prev = p
  /\ new[rest].next = bs[p].next
  /\ \A q \in DOMAIN bs \ {p} :
       /\ new[q].size = bs[q].size
       /\ new[q].next = bs[q].next
       /\ new[q].locks = bs[q].locks
       /\ new[q].prev = IF q = bs[p].next THEN rest ELSE bs[q].prev

\* What Split returns.
LEMMA SplitFields ==
  ASSUME NEW bs, IsBlocks(bs), NEW p \in DOMAIN bs, NEW size \in Nat \ {0},
         NEW who \in Locks, size < bs[p].size, bs[p].next # p,
         p + size \notin DOMAIN bs
  PROVE  SplitOf(Split(bs, p, size, who), bs, p, size, p + size, who)
<1> DEFINE new == Split(bs, p, size, who)
           rest == p + size
<1>1. \A q \in DOMAIN bs : q \in Nat \ {0} /\ bs[q] \in BlockType
  BY Zenon DEF IsBlocks
<1>2. rest \in Nat \ {0} /\ rest # p
  BY <1>1
<1>3. DOMAIN new = DOMAIN bs \cup {rest}
  BY Zenon DEF Split
<1>4. new[p] = [bs[p] EXCEPT !.size = size, !.locks = {who}, !.next = rest]
  BY Zenon DEF Split
<1>5. new[rest] = [bs[p] EXCEPT !.size = bs[p].size - size, !.prev = p]
  BY <1>2, Zenon DEF Split, Remaining
<1>6. \A q \in DOMAIN bs \ {p} :
        new[q] = IF q = bs[p].next THEN [bs[q] EXCEPT !.prev = rest] ELSE bs[q]
  BY Zenon DEF Split
<1>7. new[p] \in BlockType
  <2>1. {who} \in SUBSET Locks
    BY Zenon
  <2> QED
    BY <2>1, <1>1, <1>2, <1>4, Zenon DEF BlockType
<1>8. new[rest] \in BlockType
  <2>1. bs[p].size - size \in Nat \ {0} /\ p \in Nat
    BY <1>1 DEF BlockType
  <2> QED
    BY <2>1, <1>1, <1>5, ZenonT(40) DEF BlockType
<1>9. ASSUME NEW q \in DOMAIN bs \ {p} PROVE new[q] \in BlockType
  <2>1. [bs[q] EXCEPT !.prev = rest] \in BlockType
    BY <1>1, <1>2, Zenon DEF BlockType
  <2> QED
    BY <2>1, <1>1, <1>6, Zenon
<1>10. IsBlocks(new)
  <2>1. new = [q \in DOMAIN new |-> new[q]]
    BY Zenon DEF Split
  <2> QED
    BY <2>1, <1>1, <1>2, <1>3, <1>7, <1>8, <1>9, Zenon DEF IsBlocks
<1>11. /\ new[p].size = size /\ new[p].locks = {who}
       /\ new[p].prev = bs[p].prev /\ new[p].next = rest
  BY <1>1, <1>4, Zenon DEF BlockType
<1>12. /\ new[rest].size = bs[p].size - size /\ new[rest].locks = bs[p].locks
       /\ new[rest].prev = p /\ new[rest].next = bs[p].next
  BY <1>1, <1>5, Zenon DEF BlockType
<1>13. ASSUME NEW q \in DOMAIN bs \ {p}
       PROVE  /\ new[q].size = bs[q].size
              /\ new[q].next = bs[q].next
              /\ new[q].locks = bs[q].locks
              /\ new[q].prev = IF q = bs[p].next THEN rest ELSE bs[q].prev
  BY <1>1, <1>6, Zenon DEF BlockType
<1> QED
  BY <1>3, <1>10, <1>11, <1>12, <1>13, Zenon DEF SplitOf

\* Splitting a block keeps the lists and the memory well formed (alloc).
LEMMA SplitWellFormed ==
  ASSUME NEW bs, NEW nat, WellFormed(bs, nat), NEW p \in DOMAIN bs,
         NEW size \in Nat \ {0}, NEW who \in Locks, size < bs[p].size
  PROVE  WellFormed(Split(bs, p, size, who), nat)
         /\ p + size \notin DOMAIN bs /\ bs[p].next # p
<1> DEFINE new == Split(bs, p, size, who)
           rest == p + size
<1>1. \A q \in DOMAIN bs :
        /\ q \in Nat \ {0} /\ bs[q].size \in Nat \ {0}
        /\ bs[q].prev \in Nat /\ bs[q].next \in Nat
  BY Zenon DEF WellFormed, IsBlocks, BlockType
<1>2. \A q \in DOMAIN bs :
        NextLinked(bs, q) /\ PrevLinked(bs, q) /\ InNative(bs, nat, q)
  BY Zenon DEF WellFormed, LinksTile
<1>3. Apart(bs)
  BY Zenon DEF WellFormed
<1>4. rest \notin DOMAIN bs /\ rest \in Nat \ {0} /\ rest # p /\ rest = p + size
  BY <1>1, <1>3 DEF Apart
<1>5. bs[p].next # p
  BY <1>1, <1>2 DEF NextLinked, nullptr
<1>6. SplitOf(new, bs, p, size, rest, who)
  BY <1>4, <1>5, SplitFields, Zenon DEF WellFormed
<1> HIDE DEF new, rest
<1>7. ASSUME NEW q \in DOMAIN new PROVE NextLinked(new, q)
  <2> SUFFICES ASSUME new[q].next # nullptr
               PROVE  /\ new[q].next = q + new[q].size
                      /\ new[q].next \in DOMAIN new
                      /\ new[new[q].next].prev = q
    BY Zenon DEF NextLinked
  <2>1. CASE q = p
    BY <2>1, <1>1, <1>4, <1>6, Zenon DEF SplitOf
  <2>2. CASE q = rest
    <3>1. /\ bs[p].next = p + bs[p].size /\ bs[p].next \in DOMAIN bs
      BY <2>2, <1>2, <1>6, Zenon DEF SplitOf, NextLinked
    <3>2. rest + (bs[p].size - size) = p + bs[p].size
      BY <1>1, <1>4
    <3> QED
      BY <2>2, <3>1, <3>2, <1>4, <1>5, <1>6 DEF SplitOf
  <2>3. CASE q # p /\ q # rest
    <3>1. /\ bs[q].next = q + bs[q].size /\ bs[q].next \in DOMAIN bs
          /\ bs[bs[q].next].prev = q /\ q \in DOMAIN bs \ {p}
      BY <2>3, <1>2, <1>6 DEF SplitOf, NextLinked
    <3>2. bs[q].next # bs[p].next
      BY <2>3, <3>1, <1>1, <1>2, Zenon DEF NextLinked, nullptr
    <3> QED
      BY <2>3, <3>1, <3>2, <1>6 DEF SplitOf
  <2> QED
    BY <2>1, <2>2, <2>3, Zenon
<1>8. ASSUME NEW q \in DOMAIN new PROVE PrevLinked(new, q)
  <2> SUFFICES ASSUME new[q].prev # nullptr
               PROVE  /\ new[q].prev \in DOMAIN new
                      /\ new[new[q].prev].next = q
    BY Zenon DEF PrevLinked
  <2>1. CASE q = p
    <3>1. bs[p].prev \in DOMAIN bs /\ bs[bs[p].prev].next = p
      BY <2>1, <1>2, <1>6, Zenon DEF SplitOf, PrevLinked
    <3> QED
      BY <2>1, <3>1, <1>5, <1>6 DEF SplitOf
  <2>2. CASE q = rest
    BY <2>2, <1>6, Zenon DEF SplitOf
  <2>3. CASE q # p /\ q # rest /\ q = bs[p].next
    BY <2>3, <1>6, Zenon DEF SplitOf
  <2>4. CASE q # p /\ q # rest /\ q # bs[p].next
    <3>1. /\ bs[q].prev \in DOMAIN bs /\ bs[bs[q].prev].next = q
          /\ q \in DOMAIN bs \ {p}
      BY <2>4, <1>2, <1>6 DEF SplitOf, PrevLinked
    <3> QED
      BY <2>4, <3>1, <1>6 DEF SplitOf
  <2> QED
    BY <2>1, <2>2, <2>3, <2>4, Zenon
<1>9. ASSUME NEW q \in DOMAIN new PROVE InNative(new, nat, q)
  <2>1. PICK a \in DOMAIN nat :
          /\ a <= p /\ p + bs[p].size <= a + nat[a]
          /\ bs[p].prev = nullptr <=> p = a
          /\ bs[p].next = nullptr <=> p + bs[p].size = a + nat[a]
    BY <1>2, Zenon DEF InNative
  <2>2. a \in Nat /\ nat[a] \in Nat
    BY Zenon DEF WellFormed, IsNative
  <2>3. CASE q = p
    <3>1. p + size < a + nat[a]
      BY <1>1, <2>1, <2>2
    <3>2. rest # nullptr
      BY <1>4, Zenon DEF nullptr
    <3> QED
      BY <2>1, <2>2, <2>3, <3>1, <3>2, <1>1, <1>6 DEF SplitOf, InNative
  <2>4. CASE q = rest
    <3>1. rest + new[rest].size = p + bs[p].size
      BY <1>1, <1>4, <1>6 DEF SplitOf
    <3>2. a <= rest /\ rest # a
      BY <1>1, <2>1, <2>2, <1>4
    <3>3. new[rest].prev # nullptr
      BY <1>1, <1>6, Zenon DEF SplitOf, nullptr
    <3>4. new[rest].next = nullptr <=> rest + new[rest].size = a + nat[a]
      BY <3>1, <2>1, <1>6, Zenon DEF SplitOf
    <3> QED
      BY <2>1, <2>4, <3>1, <3>2, <3>3, <3>4, Zenon DEF InNative
  <2>5. CASE q # p /\ q # rest
    <3>1. q \in DOMAIN bs \ {p}
      BY <2>5, <1>6, Zenon DEF SplitOf
    <3>2. new[q].prev = nullptr <=> bs[q].prev = nullptr
      <4>1. q = bs[p].next => bs[q].prev = p
        BY <1>1, <1>2, <3>1, Zenon DEF NextLinked, nullptr
      <4> QED
        BY <4>1, <3>1, <1>1, <1>4, <1>6 DEF SplitOf, nullptr
    <3> QED
      BY <3>1, <3>2, <1>2, <1>6 DEF SplitOf, InNative
  <2> QED
    BY <2>3, <2>4, <2>5, Zenon
<1>10. Apart(new)
  <2> SUFFICES ASSUME NEW q \in DOMAIN new, NEW s \in DOMAIN new, q # s
               PROVE  q + new[q].size <= s \/ s + new[s].size <= q
    BY Zenon DEF Apart
  <2>1. ASSUME NEW t \in DOMAIN bs, t # p
        PROVE  p + bs[p].size <= t \/ t + bs[t].size <= p
    BY <2>1, <1>3, Zenon DEF Apart
  <2>2. CASE q \in {p, rest} /\ s \in {p, rest}
    BY <2>2, <1>1, <1>4, <1>6 DEF SplitOf
  <2>3. CASE q \in {p, rest} /\ s \notin {p, rest}
    BY <2>1, <2>3, <1>1, <1>4, <1>6 DEF SplitOf
  <2>4. CASE q \notin {p, rest} /\ s \in {p, rest}
    BY <2>1, <2>4, <1>1, <1>4, <1>6 DEF SplitOf
  <2>5. CASE q \notin {p, rest} /\ s \notin {p, rest}
    BY <2>5, <1>3, <1>6 DEF SplitOf, Apart
  <2> QED
    BY <2>2, <2>3, <2>4, <2>5, Zenon
<1> QED
  BY <1>4, <1>5, <1>6, <1>7, <1>8, <1>9, <1>10, Zenon
  DEF WellFormed, LinksTile, SplitOf, new, rest


------------------------------------------------------------------------------
(* Locks, new native allocations and memory returned to the device *)

\* new is bs with other locks on block p, field by field.
LockedOf(new, bs, p, L) ==
  /\ DOMAIN new = DOMAIN bs
  /\ IsBlocks(new)
  /\ new[p].locks = L
  /\ \A q \in DOMAIN bs :
       /\ new[q].size = bs[q].size
       /\ new[q].prev = bs[q].prev
       /\ new[q].next = bs[q].next
       /\ q # p => new[q].locks = bs[q].locks

\* Setting the locks of a block.
LEMMA LockedFields ==
  ASSUME NEW bs, IsBlocks(bs), NEW p \in DOMAIN bs, NEW L \in SUBSET Locks
  PROVE  LockedOf(SetLocks(bs, p, L), bs, p, L)
<1> DEFINE new == SetLocks(bs, p, L)
<1>1. /\ DOMAIN new = DOMAIN bs
      /\ new[p] = [bs[p] EXCEPT !.locks = L]
      /\ \A q \in DOMAIN bs \ {p} : new[q] = bs[q]
  BY Zenon DEF SetLocks
<1>2. \A q \in DOMAIN bs : q \in Nat \ {0} /\ bs[q] \in BlockType
  BY Zenon DEF IsBlocks
<1>3. new[p] \in BlockType
  <2>1. [bs[p] EXCEPT !.locks = L] \in BlockType
    BY <1>2, Zenon DEF BlockType
  <2> QED
    BY <1>1, <2>1, Zenon
<1>4. IsBlocks(new)
  <2>1. new = [q \in DOMAIN new |-> new[q]]
    BY Zenon DEF SetLocks
  <2> QED
    BY <2>1, <1>1, <1>2, <1>3, Zenon DEF IsBlocks
<1>5. /\ new[p].locks = L /\ new[p].size = bs[p].size
      /\ new[p].prev = bs[p].prev /\ new[p].next = bs[p].next
  BY <1>1, <1>2, Zenon DEF BlockType
<1> QED
  BY <1>1, <1>4, <1>5, Zenon DEF LockedOf

\* Locks have no part in the lists.
LEMMA LockedWellFormed ==
  ASSUME NEW bs, NEW nat, WellFormed(bs, nat), NEW new, NEW p \in DOMAIN bs,
         NEW L, LockedOf(new, bs, p, L)
  PROVE  WellFormed(new, nat)
<1>1. \A q \in DOMAIN bs : NextLinked(new, q) /\ PrevLinked(new, q)
  BY DEF LockedOf, WellFormed, LinksTile, NextLinked, PrevLinked
<1>2. \A q \in DOMAIN bs : InNative(new, nat, q)
  BY DEF LockedOf, WellFormed, LinksTile, InNative
<1>3. Apart(new)
  BY Zenon DEF LockedOf, WellFormed, Apart
<1> QED
  BY <1>1, <1>2, <1>3, Zenon DEF LockedOf, WellFormed, LinksTile

WithBlock(bs, a, size) ==
  [q \in DOMAIN bs \cup {a} |-> IF q = a THEN Block(size) ELSE bs[q]]

\* A native allocation that overlaps no other one, with one block for all of it.
LEMMA NewWellFormed ==
  ASSUME NEW bs, NEW nat, WellFormed(bs, nat), NEW a \in Nat \ {0},
         NEW size \in Nat \ {0},
         \A b \in DOMAIN nat : a + size <= b \/ b + nat[b] <= a
  PROVE  /\ a \notin DOMAIN bs
         /\ WellFormed(WithBlock(bs, a, size), NativeAlloc(nat, a, size))
<1> DEFINE new == WithBlock(bs, a, size)
           nat2 == NativeAlloc(nat, a, size)
<1>1. \A q \in DOMAIN bs :
        /\ q \in Nat \ {0} /\ bs[q] \in BlockType
        /\ bs[q].size \in Nat \ {0} /\ bs[q].prev \in Nat /\ bs[q].next \in Nat
  BY Zenon DEF WellFormed, IsBlocks, BlockType
<1>2. \A b \in DOMAIN nat : b \in Nat \ {0} /\ nat[b] \in Nat \ {0}
  BY Zenon DEF WellFormed, IsNative
<1>3. ASSUME NEW q \in DOMAIN bs
      PROVE  a + size <= q \/ q + bs[q].size <= a
  <2>1. PICK b \in DOMAIN nat : b <= q /\ q + bs[q].size <= b + nat[b]
    BY Zenon DEF WellFormed, LinksTile, InNative
  <2> QED
    BY <2>1, <1>1, <1>2
<1>4. a \notin DOMAIN bs
  BY <1>1, <1>3
<1>5. a \notin DOMAIN nat
  BY <1>2
<1>6. /\ DOMAIN new = DOMAIN bs \cup {a} /\ new[a] = Block(size)
      /\ \A q \in DOMAIN bs : new[q] = bs[q]
      /\ DOMAIN nat2 = DOMAIN nat \cup {a} /\ nat2[a] = size
      /\ \A b \in DOMAIN nat : nat2[b] = nat[b]
  BY <1>4, <1>5, Zenon DEF WithBlock, NativeAlloc
<1>7. IsBlocks(new)
  <2>1. new = [q \in DOMAIN new |-> new[q]]
    BY Zenon DEF WithBlock
  <2>2. {} \in SUBSET Locks
    BY Zenon
  <2>3. Block(size) \in BlockType
    BY <2>2, Zenon DEF Block, BlockType, nullptr
  <2> QED
    BY <2>1, <2>3, <1>1, <1>6, Zenon DEF IsBlocks
<1>8. IsNative(nat2)
  BY <1>2, <1>6 DEF WellFormed, IsNative
<1>9. /\ new[a].size = size /\ new[a].prev = nullptr /\ new[a].next = nullptr
  BY <1>6 DEF Block
<1> HIDE DEF new, nat2
<1>10. \A q \in DOMAIN new : NextLinked(new, q) /\ PrevLinked(new, q)
  <2>1. \A q \in DOMAIN bs : NextLinked(new, q) /\ PrevLinked(new, q)
    BY <1>4, <1>6 DEF WellFormed, LinksTile, NextLinked, PrevLinked
  <2> QED
    BY <2>1, <1>6, <1>9, Zenon DEF NextLinked, PrevLinked
<1>11. \A q \in DOMAIN new : InNative(new, nat2, q)
  <2>1. ASSUME NEW q \in DOMAIN bs PROVE InNative(new, nat2, q)
    BY <1>4, <1>5, <1>6 DEF WellFormed, LinksTile, InNative
  <2>2. InNative(new, nat2, a)
    BY <1>6, <1>9 DEF InNative
  <2> QED
    BY <2>1, <2>2, <1>6, Zenon
<1>12. Apart(new)
  BY <1>1, <1>3, <1>6, <1>9 DEF WellFormed, Apart
<1> QED
  BY <1>4, <1>7, <1>8, <1>10, <1>11, <1>12, Zenon
  DEF WellFormed, LinksTile, new, nat2

Without(bs, gone) == [q \in DOMAIN bs \ gone |-> bs[q]]

\* Blocks that are a whole native allocation can go together with it.
LEMMA FewerWellFormed ==
  ASSUME NEW bs, NEW nat, WellFormed(bs, nat), NEW gone \in SUBSET DOMAIN bs,
         \A p \in gone : ~ isSplit(bs[p])
  PROVE  WellFormed(Without(bs, gone), NativeFree(nat, gone))
<1> DEFINE new == Without(bs, gone)
           nat2 == NativeFree(nat, gone)
<1>1. \A q \in DOMAIN bs :
        /\ q \in Nat \ {0} /\ bs[q] \in BlockType
        /\ bs[q].size \in Nat \ {0} /\ bs[q].prev \in Nat /\ bs[q].next \in Nat
  BY Zenon DEF WellFormed, IsBlocks, BlockType
<1>2. \A b \in DOMAIN nat : b \in Nat \ {0} /\ nat[b] \in Nat \ {0}
  BY Zenon DEF WellFormed, IsNative
<1>3. /\ DOMAIN new = DOMAIN bs \ gone
      /\ \A q \in DOMAIN new : new[q] = bs[q]
      /\ DOMAIN nat2 = DOMAIN nat \ gone
      /\ \A b \in DOMAIN nat2 : nat2[b] = nat[b]
  BY Zenon DEF Without, NativeFree
<1>4. IsBlocks(new)
  <2>1. new = [q \in DOMAIN new |-> new[q]]
    BY Zenon DEF Without
  <2> QED
    BY <2>1, <1>1, <1>3, Zenon DEF IsBlocks
<1>5. IsNative(nat2)
  BY <1>3, Zenon DEF WellFormed, IsNative
<1> HIDE DEF new, nat2
<1>6. ASSUME NEW q \in DOMAIN new PROVE NextLinked(new, q) /\ PrevLinked(new, q)
  <2>1. NextLinked(bs, q) /\ PrevLinked(bs, q) /\ q \in Nat \ {0}
    BY <1>1, <1>3, Zenon DEF WellFormed, LinksTile
  <2>2. bs[q].next \notin gone
    BY <2>1, <1>1, Zenon DEF NextLinked, isSplit, nullptr
  <2>3. bs[q].prev \notin gone
    BY <2>1, <1>1, Zenon DEF PrevLinked, isSplit, nullptr
  <2> QED
    BY <2>1, <2>2, <2>3, <1>3, Zenon DEF NextLinked, PrevLinked
<1>7. ASSUME NEW q \in DOMAIN new PROVE InNative(new, nat2, q)
  <2>1. PICK b \in DOMAIN nat :
          /\ b <= q /\ q + bs[q].size <= b + nat[b]
          /\ bs[q].prev = nullptr <=> q = b
          /\ bs[q].next = nullptr <=> q + bs[q].size = b + nat[b]
    BY <1>3, Zenon DEF WellFormed, LinksTile, InNative
  <2>2. b \notin gone
    <3> SUFFICES ASSUME b \in gone PROVE FALSE
      BY Zenon
    <3>1. PICK d \in DOMAIN nat :
            /\ d <= b /\ b + bs[b].size <= d + nat[d]
            /\ bs[b].prev = nullptr <=> b = d
            /\ bs[b].next = nullptr <=> b + bs[b].size = d + nat[d]
      BY Zenon DEF WellFormed, LinksTile, InNative
    <3>2. d = b /\ bs[b].size = nat[b]
      BY <3>1, <1>1, <1>2 DEF isSplit
    <3>3. q # b
      BY <1>3, Zenon
    <3>4. b + bs[b].size <= q \/ q + bs[q].size <= b
      BY <3>3, <1>3, Zenon DEF WellFormed, Apart
    <3> QED
      BY <3>2, <3>3, <3>4, <2>1, <1>1, <1>2, <1>3
  <2> QED
    BY <2>1, <2>2, <1>3, Zenon DEF InNative
<1>8. Apart(new)
  BY <1>3, Zenon DEF WellFormed, Apart
<1> QED
  BY <1>4, <1>5, <1>6, <1>7, <1>8, Zenon DEF WellFormed, LinksTile, new, nat2

------------------------------------------------------------------------------
(* The pools.  freeBlock looks for both neighbours of a block in the pool of  *)
(* that block's size, so the invariant says that linked blocks belong to the  *)
(* same pool: the one they are in, or will be freed to.                       *)

Pools == {"small", "large"}

PoolFor(bs, pool, p) ==
  IF inUse(bs[p]) THEN PoolOf(bs[p].size)
  ELSE IF p \in pool["small"] THEN "small" ELSE "large"

IsPools(pool, S) == pool \in [Pools -> SUBSET S]

InPools(pool, p) == p \in pool["small"] \/ p \in pool["large"]

Exact(bs, pool, allocated) ==
  /\ IsPools(pool, DOMAIN bs)
  /\ allocated \subseteq DOMAIN bs
  /\ \A p \in DOMAIN bs : p \in allocated <=> inUse(bs[p])
  /\ \A p \in DOMAIN bs : inUse(bs[p]) <=> ~ InPools(pool, p)
  /\ \A p \in DOMAIN bs : ~ (p \in pool["small"] /\ p \in pool["large"])

Uniform(bs, pool) ==
  \A p \in DOMAIN bs :
    bs[p].next # nullptr =>
      PoolFor(bs, pool, p) = PoolFor(bs, pool, bs[p].next)

InSmallBuffer(bs, nat, p) ==
  \E a \in DOMAIN nat :
    nat[a] = kSmallBuffer /\ a <= p /\ p + bs[p].size <= a + nat[a]

SmallInSmallBuffers(bs, pool, nat) ==
  \A p \in DOMAIN bs :
    PoolFor(bs, pool, p) = "small" => InSmallBuffer(bs, nat, p)

IsMultiple(size) == \E n \in Nat : size = n * kMinBlockSize

Multiples(bs) == \A p \in DOMAIN bs : IsMultiple(bs[p].size)

Core(bs, pool, allocated, nat) ==
  /\ WellFormed(bs, nat)
  /\ Exact(bs, pool, allocated)
  /\ Uniform(bs, pool)
  /\ SmallInSmallBuffers(bs, pool, nat)
  /\ Multiples(bs)

\* Sizes used below: the sum and the positive difference of two multiples.
LEMMA MultiplePlus ==
  ASSUME NEW s \in Nat, NEW t \in Nat, IsMultiple(s), IsMultiple(t)
  PROVE  IsMultiple(s + t)
<1>1. PICK n \in Nat : s = n * kMinBlockSize
  BY Zenon DEF IsMultiple
<1>2. PICK k \in Nat : t = k * kMinBlockSize
  BY Zenon DEF IsMultiple
<1>3. s + t = (n + k) * kMinBlockSize /\ n + k \in Nat
  BY <1>1, <1>2, SizeAssumption
<1> QED
  BY <1>3, Zenon DEF IsMultiple

\* What is left of a block that is split is a multiple of kMinBlockSize.
LEMMA MultipleMinus ==
  ASSUME NEW s \in Nat, NEW t \in Nat, IsMultiple(s), IsMultiple(t), t < s
  PROVE  IsMultiple(s - t) /\ s - t >= kMinBlockSize
<1>1. PICK n \in Nat : s = n * kMinBlockSize
  BY Zenon DEF IsMultiple
<1>2. PICK k \in Nat : t = k * kMinBlockSize
  BY Zenon DEF IsMultiple
<1>3. kMinBlockSize \in Nat \ {0}
  BY SizeAssumption, Zenon
<1>4. s - t = (n - k) * kMinBlockSize
  BY <1>1, <1>2, <1>3
<1>5. n - k > 0
  BY <1>1, <1>2, <1>3, <1>4
<1>6. n - k \in Nat /\ (n - k) * kMinBlockSize >= kMinBlockSize
  BY <1>3, <1>5
<1> QED
  BY <1>4, <1>6, Zenon DEF IsMultiple

\* Taking a block out of a pool and putting one in.
Erased(new, pool, c, p) ==
  /\ new[c] = pool[c] \ {p}
  /\ \A d \in Pools \ {c} : new[d] = pool[d]

Inserted(new, pool, c, p) ==
  /\ new[c] = pool[c] \cup {p}
  /\ \A d \in Pools \ {c} : new[d] = pool[d]

\* Erase, pool by pool.
LEMMA EraseFields ==
  ASSUME NEW S, NEW pool, IsPools(pool, S), NEW c \in Pools, NEW p
  PROVE  IsPools(Erase(pool, c, p), S) /\ Erased(Erase(pool, c, p), pool, c, p)
  BY Zenon DEF Erase, IsPools, Erased

\* Insert, pool by pool.
LEMMA InsertFields ==
  ASSUME NEW S, NEW pool, IsPools(pool, S), NEW c \in Pools, NEW p \in S
  PROVE  IsPools(Insert(pool, c, p), S) /\ Inserted(Insert(pool, c, p), pool, c, p)
  BY Zenon DEF Insert, IsPools, Inserted

\* Pools with the same blocks are equal.
LEMMA SamePools ==
  ASSUME NEW S, NEW one, NEW two, IsPools(one, S), IsPools(two, S),
         \A d \in Pools : one[d] = two[d]
  PROVE  one = two
  BY DEF IsPools

\* Erase undoes Insert.
LEMMA EraseInsert ==
  ASSUME NEW S, NEW pool, IsPools(pool, S), NEW c \in Pools, NEW p \in S,
         p \notin pool[c]
  PROVE  Erase(Insert(pool, c, p), c, p) = pool
<1> DEFINE mid == Insert(pool, c, p)
           new == Erase(mid, c, p)
<1>1. IsPools(mid, S) /\ Inserted(mid, pool, c, p)
  BY InsertFields, Zenon
<1> HIDE DEF mid
<1>2. IsPools(new, S) /\ Erased(new, mid, c, p)
  BY <1>1, EraseFields, Zenon
<1> HIDE DEF new
<1>3. \A d \in Pools : new[d] = pool[d]
  BY <1>1, <1>2, Zenon DEF Erased, Inserted
<1>4. new = pool
  BY <1>2, <1>3, SamePools, Zenon
<1> QED
  BY <1>4, Zenon DEF new, mid

\* Insert undoes Erase.
LEMMA InsertErase ==
  ASSUME NEW S, NEW pool, IsPools(pool, S), NEW c \in Pools, NEW p \in S,
         p \in pool[c]
  PROVE  Insert(Erase(pool, c, p), c, p) = pool
<1> DEFINE mid == Erase(pool, c, p)
           new == Insert(mid, c, p)
<1>1. IsPools(mid, S) /\ Erased(mid, pool, c, p)
  BY EraseFields, Zenon
<1> HIDE DEF mid
<1>2. IsPools(new, S) /\ Inserted(new, mid, c, p)
  BY <1>1, InsertFields, Zenon
<1> HIDE DEF new
<1>3. \A d \in Pools : new[d] = pool[d]
  BY <1>1, <1>2, Zenon DEF Erased, Inserted
<1>4. new = pool
  BY <1>2, <1>3, SamePools, Zenon
<1> QED
  BY <1>4, Zenon DEF new, mid

\* Erase and Insert of two blocks can be swapped.
LEMMA EraseOther ==
  ASSUME NEW S, NEW pool, IsPools(pool, S), NEW c \in Pools, NEW p \in S,
         NEW r, r # p
  PROVE  Erase(Insert(pool, c, p), c, r) = Insert(Erase(pool, c, r), c, p)
<1> DEFINE in == Insert(pool, c, p)
           out == Erase(pool, c, r)
           one == Erase(in, c, r)
           two == Insert(out, c, p)
<1>1. IsPools(in, S) /\ Inserted(in, pool, c, p)
  BY InsertFields, Zenon
<1>2. IsPools(out, S) /\ Erased(out, pool, c, r)
  BY EraseFields, Zenon
<1> HIDE DEF in, out
<1>3. IsPools(one, S) /\ Erased(one, in, c, r)
  BY <1>1, EraseFields, Zenon
<1>4. IsPools(two, S) /\ Inserted(two, out, c, p)
  BY <1>2, InsertFields, Zenon
<1> HIDE DEF one, two
<1>5. \A d \in Pools : one[d] = two[d]
  BY <1>1, <1>2, <1>3, <1>4 DEF Erased, Inserted
<1>6. one = two
  BY <1>3, <1>4, <1>5, SamePools, Zenon
<1> QED
  BY <1>6, Zenon DEF one, two, in, out


\* Two linked free blocks are made one: it keeps the pool of the left one.
LEMMA MergeKeepsCore ==
  ASSUME NEW bs, NEW pool, NEW allocated, NEW nat,
         Core(bs, pool, allocated, nat), NEW l \in DOMAIN bs, NEW r,
         r = bs[l].next, r # nullptr, ~ inUse(bs[l]), ~ inUse(bs[r]),
         NEW c \in Pools, l \in pool[c]
  PROVE  /\ r \in pool[c]
         /\ MergedOf(Merged(bs, l), bs, l, r)
         /\ Core(Merged(bs, l), Erase(pool, c, r), allocated, nat)
<1> DEFINE new == Merged(bs, l)
           pool2 == Erase(pool, c, r)
<1>1. /\ WellFormed(bs, nat) /\ Exact(bs, pool, allocated)
      /\ Uniform(bs, pool) /\ SmallInSmallBuffers(bs, pool, nat)
      /\ Multiples(bs)
  BY Zenon DEF Core
<1>2. /\ r \in DOMAIN bs /\ bs[r].prev = l /\ r > l
      /\ bs[r].next # l /\ bs[r].next # r
  BY <1>1, RightNeighbour
<1>3. l \in Nat /\ r \in Nat /\ bs[l].size \in Nat /\ bs[r].size \in Nat
  BY <1>1, <1>2, Zenon DEF WellFormed, IsBlocks, BlockType
<1>4. l # r
  BY <1>2, <1>3, Zenon
<1>5. MergedOf(new, bs, l, r)
  BY <1>1, <1>2, <1>4, MergedFields, Zenon DEF WellFormed
<1>6. WellFormed(new, nat)
  BY <1>1, MergedWellFormed, Zenon
<1>7. IsPools(pool, DOMAIN bs)
  BY <1>1, Zenon DEF Exact
<1>8. IsPools(pool2, DOMAIN bs) /\ Erased(pool2, pool, c, r)
  BY <1>7, EraseFields, Zenon
<1> HIDE DEF new, pool2
<1>9. PoolFor(bs, pool, l) = PoolFor(bs, pool, r)
  BY <1>1, Zenon DEF Uniform
<1>10. r \in pool[c]
  BY <1>1, <1>2, <1>9, Zenon DEF PoolFor, Exact, InPools, Pools
<1>11. ASSUME NEW q \in DOMAIN new
       PROVE  /\ q \in DOMAIN bs /\ q # r
              /\ inUse(new[q]) <=> inUse(bs[q])
              /\ q # l => new[q].size = bs[q].size
  BY <1>5 DEF MergedOf, inUse
<1>12. \A d \in Pools : \A q : q # r => (q \in pool2[d] <=> q \in pool[d])
  BY <1>8, Zenon DEF Erased
<1>13. Exact(new, pool2, allocated)
  <2>1. DOMAIN new = DOMAIN bs \ {r} /\ r \notin allocated
    BY <1>1, <1>2, <1>5, Zenon DEF MergedOf, Exact
  <2>2. IsPools(pool2, DOMAIN new)
    <3>1. \A d \in Pools : r \notin pool2[d]
      BY <1>1, <1>2, <1>8, <1>10 DEF Erased, Exact, Pools
    <3> QED
      BY <3>1, <2>1, <1>8, Zenon DEF IsPools
  <2>3. \A q \in DOMAIN new : InPools(pool2, q) <=> InPools(pool, q)
    BY <1>11, <1>12, Zenon DEF InPools, Pools
  <2>4. \A q \in DOMAIN new : ~ (q \in pool2["small"] /\ q \in pool2["large"])
    BY <1>1, <1>11, <1>12, Zenon DEF Exact, Pools
  <2> QED
    BY <2>1, <2>2, <2>3, <2>4, <1>1, <1>11, Zenon DEF Exact
<1>14. \A q \in DOMAIN new : PoolFor(new, pool2, q) = PoolFor(bs, pool, q)
  BY <1>11, <1>12, Zenon DEF PoolFor, Pools
<1>15. Uniform(new, pool2)
  <2> SUFFICES ASSUME NEW q \in DOMAIN new, new[q].next # nullptr
               PROVE  PoolFor(bs, pool, q) = PoolFor(bs, pool, new[q].next)
    BY <1>6, <1>14, Zenon DEF Uniform, WellFormed, LinksTile, NextLinked
  <2>1. CASE q = l
    BY <2>1, <1>1, <1>2, <1>5, <1>9, SMTT(30) DEF MergedOf, Uniform
  <2>2. CASE q # l
    BY <2>2, <1>1, <1>5, SMTT(30) DEF MergedOf, Uniform
  <2> QED
    BY <2>1, <2>2, Zenon
<1>16. SmallInSmallBuffers(new, pool2, nat)
  <2> SUFFICES ASSUME NEW q \in DOMAIN new, PoolFor(bs, pool, q) = "small"
               PROVE  InSmallBuffer(new, nat, q)
    BY <1>14, Zenon DEF SmallInSmallBuffers
  <2>1. PICK a \in DOMAIN nat :
          nat[a] = kSmallBuffer /\ a <= q /\ q + bs[q].size <= a + nat[a]
    BY <1>1, <1>11, Zenon DEF SmallInSmallBuffers, InSmallBuffer
  <2>2. PICK b \in DOMAIN nat : b <= q /\ q + new[q].size <= b + nat[b]
    BY <1>6, Zenon DEF WellFormed, LinksTile, InNative
  <2>3. /\ q \in Nat /\ bs[q].size \in Nat \ {0} /\ new[q].size \in Nat \ {0}
    BY <1>1, <1>6, <1>11, Zenon DEF WellFormed, IsBlocks, BlockType
  <2>4. a = b
    BY <2>1, <2>2, <2>3, <1>1, SMTT(30) DEF WellFormed, IsNative
  <2> QED
    BY <2>1, <2>2, <2>4, Zenon DEF InSmallBuffer
<1>17. Multiples(new)
  <2>1. IsMultiple(bs[l].size + bs[r].size)
    BY <1>1, <1>2, <1>3, MultiplePlus, Zenon DEF Multiples
  <2> QED
    BY <2>1, <1>1, <1>5, SMTT(30) DEF MergedOf, Multiples
<1> QED
  BY <1>5, <1>6, <1>10, <1>13, <1>15, <1>16, <1>17, Zenon DEF Core, new, pool2

\* Only the locks and the pools change, and no block changes its pool.
LEMMA LockedKeepsCore ==
  ASSUME NEW bs, NEW pool, NEW allocated, NEW nat,
         Core(bs, pool, allocated, nat), NEW p \in DOMAIN bs, NEW L, NEW new,
         LockedOf(new, bs, p, L), NEW pool2, NEW allocated2,
         Exact(new, pool2, allocated2),
         \A q \in DOMAIN bs : PoolFor(new, pool2, q) = PoolFor(bs, pool, q)
  PROVE  Core(new, pool2, allocated2, nat)
<1>1. /\ WellFormed(bs, nat) /\ Uniform(bs, pool) /\ Multiples(bs)
      /\ SmallInSmallBuffers(bs, pool, nat)
  BY Zenon DEF Core
<1>2. WellFormed(new, nat)
  BY <1>1, LockedWellFormed, Zenon
<1>3. /\ DOMAIN new = DOMAIN bs
      /\ \A q \in DOMAIN bs : new[q].size = bs[q].size /\ new[q].next = bs[q].next
  BY Zenon DEF LockedOf
<1>4. Uniform(new, pool2)
  <2>1. \A q \in DOMAIN bs : bs[q].next # nullptr => bs[q].next \in DOMAIN bs
    BY <1>1, Zenon DEF WellFormed, LinksTile, NextLinked
  <2> QED
    BY <2>1, <1>1, <1>3, SMTT(30) DEF Uniform
<1>5. SmallInSmallBuffers(new, pool2, nat)
  BY <1>1, <1>3, Zenon DEF SmallInSmallBuffers, InSmallBuffer
<1>6. Multiples(new)
  BY <1>1, <1>3, Zenon DEF Multiples
<1> QED
  BY <1>2, <1>4, <1>5, <1>6, Zenon DEF Core

\* Other locks on a block in use.
LEMMA RelockKeepsCore ==
  ASSUME NEW bs, NEW pool, NEW allocated, NEW nat,
         Core(bs, pool, allocated, nat), NEW p \in DOMAIN bs, inUse(bs[p]),
         NEW L, L # {}, NEW new, LockedOf(new, bs, p, L)
  PROVE  Core(new, pool, allocated, nat)
<1>1. /\ DOMAIN new = DOMAIN bs
      /\ \A q \in DOMAIN bs : inUse(new[q]) <=> inUse(bs[q])
      /\ \A q \in DOMAIN bs : new[q].size = bs[q].size
  BY Zenon DEF LockedOf, inUse
<1>2. Exact(new, pool, allocated)
  BY <1>1, Zenon DEF Core, Exact
<1>3. \A q \in DOMAIN bs : PoolFor(new, pool, q) = PoolFor(bs, pool, q)
  BY <1>1, Zenon DEF PoolFor
<1> QED
  BY <1>2, <1>3, LockedKeepsCore, Zenon

\* The last lock goes: the block moves to the pool of its size.
LEMMA ReleaseKeepsCore ==
  ASSUME NEW bs, NEW pool, NEW allocated, NEW nat,
         Core(bs, pool, allocated, nat), NEW p \in DOMAIN bs, inUse(bs[p]),
         NEW c, c = PoolOf(bs[p].size), NEW new, LockedOf(new, bs, p, {})
  PROVE  Core(new, Insert(pool, c, p), allocated \ {p}, nat)
<1> DEFINE pool2 == Insert(pool, c, p)
<1>1. c \in Pools
  BY Zenon DEF PoolOf, Pools
<1>2. Exact(bs, pool, allocated)
  BY Zenon DEF Core
<1>3. IsPools(pool2, DOMAIN bs) /\ Inserted(pool2, pool, c, p)
  BY <1>1, <1>2, InsertFields, Zenon DEF Exact
<1> HIDE DEF pool2
<1>4. /\ DOMAIN new = DOMAIN bs /\ ~ inUse(new[p])
      /\ \A q \in DOMAIN bs \ {p} : inUse(new[q]) <=> inUse(bs[q])
      /\ \A q \in DOMAIN bs : new[q].size = bs[q].size
  BY Zenon DEF LockedOf, inUse
<1>5. ~ InPools(pool, p)
  BY <1>2, Zenon DEF Exact
<1>6. \A d \in Pools : \A q : q # p => (q \in pool2[d] <=> q \in pool[d])
  BY <1>3, Zenon DEF Inserted
<1>7. \A d \in Pools : p \in pool2[d] <=> d = c
  BY <1>3, <1>5, Zenon DEF Inserted, InPools, Pools
<1>8. Exact(new, pool2, allocated \ {p})
  <2>1. \A q \in DOMAIN bs \ {p} : InPools(pool2, q) <=> InPools(pool, q)
    BY <1>6, Zenon DEF InPools, Pools
  <2>2. InPools(pool2, p)
    BY <1>1, <1>7, Zenon DEF InPools, Pools
  <2>3. \A q \in DOMAIN bs : ~ (q \in pool2["small"] /\ q \in pool2["large"])
    BY <1>2, <1>6, <1>7, Zenon DEF Exact, Pools
  <2> QED
    BY <2>1, <2>2, <2>3, <1>2, <1>3, <1>4, Zenon DEF Exact
<1>9. \A q \in DOMAIN bs : PoolFor(new, pool2, q) = PoolFor(bs, pool, q)
  <2>1. PoolFor(new, pool2, p) = PoolFor(bs, pool, p)
    BY <1>1, <1>4, <1>7, Zenon DEF PoolFor, Pools
  <2>2. ASSUME NEW q \in DOMAIN bs \ {p}
        PROVE  PoolFor(new, pool2, q) = PoolFor(bs, pool, q)
    BY <1>4, <1>6, Zenon DEF PoolFor, Pools
  <2> QED
    BY <2>1, <2>2, Zenon
<1> QED
  BY <1>8, <1>9, LockedKeepsCore DEF pool2

\* A cached block of its pool's sizes is handed out whole.
LEMMA TakeKeepsCore ==
  ASSUME NEW bs, NEW pool, NEW allocated, NEW nat,
         Core(bs, pool, allocated, nat), NEW c \in Pools, NEW p \in DOMAIN bs,
         p \in pool[c], c = PoolOf(bs[p].size), NEW L, L # {},
         NEW new, LockedOf(new, bs, p, L)
  PROVE  Core(new, Erase(pool, c, p), allocated \cup {p}, nat)
<1> DEFINE pool2 == Erase(pool, c, p)
<1>1. Exact(bs, pool, allocated)
  BY Zenon DEF Core
<1>2. IsPools(pool2, DOMAIN bs) /\ Erased(pool2, pool, c, p)
  BY <1>1, EraseFields, Zenon DEF Exact
<1> HIDE DEF pool2
<1>3. /\ DOMAIN new = DOMAIN bs /\ inUse(new[p])
      /\ \A q \in DOMAIN bs \ {p} : inUse(new[q]) <=> inUse(bs[q])
      /\ \A q \in DOMAIN bs : new[q].size = bs[q].size
  BY Zenon DEF LockedOf, inUse
<1>4. \A d \in Pools : p \in pool[d] <=> d = c
  BY <1>1, Zenon DEF Exact, Pools
<1>5. ~ inUse(bs[p])
  BY <1>1, <1>4, Zenon DEF Exact, InPools, Pools
<1>6. \A d \in Pools : \A q : q # p => (q \in pool2[d] <=> q \in pool[d])
  BY <1>2, Zenon DEF Erased
<1>7. \A d \in Pools : p \notin pool2[d]
  BY <1>2, <1>4, Zenon DEF Erased
<1>8. Exact(new, pool2, allocated \cup {p})
  <2>1. \A q \in DOMAIN bs \ {p} : InPools(pool2, q) <=> InPools(pool, q)
    BY <1>6, Zenon DEF InPools, Pools
  <2>2. ~ InPools(pool2, p)
    BY <1>7, Zenon DEF InPools, Pools
  <2>3. \A q \in DOMAIN bs : ~ (q \in pool2["small"] /\ q \in pool2["large"])
    BY <1>1, <1>6, <1>7, Zenon DEF Exact, Pools
  <2> QED
    BY <2>1, <2>2, <2>3, <1>1, <1>2, <1>3, Zenon DEF Exact
<1>9. \A q \in DOMAIN bs : PoolFor(new, pool2, q) = PoolFor(bs, pool, q)
  <2>1. PoolFor(new, pool2, p) = PoolFor(bs, pool, p)
    BY <1>3, <1>4, <1>5, Zenon DEF PoolFor, Pools
  <2>2. ASSUME NEW q \in DOMAIN bs \ {p}
        PROVE  PoolFor(new, pool2, q) = PoolFor(bs, pool, q)
    BY <1>3, <1>6, Zenon DEF PoolFor, Pools
  <2> QED
    BY <2>1, <2>2, Zenon
<1> QED
  BY <1>8, <1>9, LockedKeepsCore DEF pool2


------------------------------------------------------------------------------
(* Blocks that are split, added or removed *)

\* A cached block is cut in two: the front is handed out, the rest stays in the
\* pool.
LEMMA SplitKeepsCore ==
  ASSUME NEW bs, NEW pool, NEW allocated, NEW nat,
         Core(bs, pool, allocated, nat), NEW c \in Pools, NEW p \in DOMAIN bs,
         p \in pool[c], NEW size \in Nat \ {0}, size < bs[p].size,
         IsMultiple(size), c = PoolOf(size), NEW who \in Locks,
         NEW rest, rest = p + size
  PROVE  /\ SplitOf(Split(bs, p, size, who), bs, p, size, rest, who)
         /\ rest \notin DOMAIN bs
         /\ Core(Split(bs, p, size, who), Insert(Erase(pool, c, p), c, rest),
                 allocated \cup {p}, nat)
<1> DEFINE new == Split(bs, p, size, who)
           mid == Erase(pool, c, p)
           pool2 == Insert(mid, c, rest)
<1>1. /\ WellFormed(bs, nat) /\ Exact(bs, pool, allocated)
      /\ Uniform(bs, pool) /\ SmallInSmallBuffers(bs, pool, nat)
      /\ Multiples(bs)
  BY Zenon DEF Core
<1>2. p \in Nat \ {0} /\ bs[p].size \in Nat \ {0}
  BY <1>1, Zenon DEF WellFormed, IsBlocks, BlockType
<1>3. WellFormed(new, nat) /\ rest \notin DOMAIN bs /\ bs[p].next # p
  BY <1>1, SplitWellFormed, Zenon
<1>4. SplitOf(new, bs, p, size, rest, who)
  BY <1>1, <1>2, <1>3, SplitFields, Zenon DEF WellFormed
<1>5. IsPools(mid, DOMAIN bs) /\ Erased(mid, pool, c, p)
  BY <1>1, EraseFields, Zenon DEF Exact
<1> HIDE DEF new, mid
<1>6. DOMAIN new = DOMAIN bs \cup {rest}
  BY <1>4, Zenon DEF SplitOf
<1>7. IsPools(mid, DOMAIN new)
  BY <1>5, <1>6, Zenon DEF IsPools
<1>8. IsPools(pool2, DOMAIN new) /\ Inserted(pool2, mid, c, rest)
  BY <1>6, <1>7, InsertFields, Zenon
<1> HIDE DEF pool2
<1>9. \A d \in Pools : p \in pool[d] <=> d = c
  BY <1>1, Zenon DEF Exact, Pools
<1>10. ~ inUse(bs[p])
  BY <1>1, <1>9, Zenon DEF Exact, InPools, Pools
<1>11. /\ inUse(new[p]) /\ ~ inUse(new[rest]) /\ rest # p
       /\ \A q \in DOMAIN bs \ {p} : inUse(new[q]) <=> inUse(bs[q])
       /\ \A q \in DOMAIN bs \ {p} : new[q].size = bs[q].size
  BY <1>3, <1>4, <1>10, Zenon DEF SplitOf, inUse
<1>12. \A d \in Pools : \A q \in DOMAIN bs \ {p} :
         q \in pool2[d] <=> q \in pool[d]
  BY <1>3, <1>5, <1>8 DEF Inserted, Erased
<1>13. \A d \in Pools : p \notin pool2[d] /\ (rest \in pool2[d] <=> d = c)
  <2>1. \A d \in Pools : rest \notin mid[d]
    BY <1>3, <1>5, Zenon DEF IsPools
  <2> QED
    BY <2>1, <1>5, <1>8, <1>9, <1>11 DEF Inserted, Erased
<1>14. Exact(new, pool2, allocated \cup {p})
  <2>1. \A q \in DOMAIN bs \ {p} : InPools(pool2, q) <=> InPools(pool, q)
    BY <1>12, Zenon DEF InPools, Pools
  <2>2. ~ InPools(pool2, p) /\ InPools(pool2, rest)
    BY <1>13, Zenon DEF InPools, Pools
  <2>3. \A q \in DOMAIN new : ~ (q \in pool2["small"] /\ q \in pool2["large"])
    BY <1>1, <1>6, <1>12, <1>13, Zenon DEF Exact, Pools
  <2>4. rest \notin allocated
    BY <1>1, <1>3, Zenon DEF Exact
  <2> QED
    BY <2>1, <2>2, <2>3, <2>4, <1>1, <1>6, <1>8, <1>11, Zenon DEF Exact
<1>15. /\ \A q \in DOMAIN bs : PoolFor(new, pool2, q) = PoolFor(bs, pool, q)
       /\ PoolFor(new, pool2, rest) = PoolFor(bs, pool, p)
  <2>1. PoolFor(bs, pool, p) = c
    BY <1>9, <1>10, Zenon DEF PoolFor, Pools
  <2>2. PoolFor(new, pool2, p) = c
    BY <1>4, <1>11, Zenon DEF PoolFor, SplitOf
  <2>3. PoolFor(new, pool2, rest) = c
    BY <1>11, <1>13, Zenon DEF PoolFor, Pools
  <2>4. ASSUME NEW q \in DOMAIN bs \ {p}
        PROVE  PoolFor(new, pool2, q) = PoolFor(bs, pool, q)
    BY <1>11, <1>12, Zenon DEF PoolFor, Pools
  <2> QED
    BY <2>1, <2>2, <2>3, <2>4, Zenon
<1>16. Uniform(new, pool2)
  <2> SUFFICES ASSUME NEW q \in DOMAIN new, new[q].next # nullptr
               PROVE  PoolFor(new, pool2, q) = PoolFor(new, pool2, new[q].next)
    BY Zenon DEF Uniform
  <2>0. \A x \in DOMAIN bs : bs[x].next # nullptr => bs[x].next \in DOMAIN bs
    BY <1>1, Zenon DEF WellFormed, LinksTile, NextLinked
  <2>1. CASE q = p
    BY <2>1, <1>4, <1>15, Zenon DEF SplitOf
  <2>2. CASE q = rest
    <3>1. new[q].next = bs[p].next
      BY <2>2, <1>4, Zenon DEF SplitOf
    <3> QED
      BY <3>1, <2>0, <2>2, <1>1, <1>15, Zenon DEF Uniform
  <2>3. CASE q \in DOMAIN bs \ {p}
    <3>1. new[q].next = bs[q].next
      BY <2>3, <1>4, Zenon DEF SplitOf
    <3> QED
      BY <3>1, <2>0, <2>3, <1>1, <1>15, Zenon DEF Uniform
  <2> QED
    BY <1>6, <2>1, <2>2, <2>3, Zenon
<1>17. SmallInSmallBuffers(new, pool2, nat)
  <2> SUFFICES ASSUME NEW q \in DOMAIN new, PoolFor(new, pool2, q) = "small"
               PROVE  InSmallBuffer(new, nat, q)
    BY Zenon DEF SmallInSmallBuffers
  <2>1. ASSUME q \in {p, rest} PROVE InSmallBuffer(new, nat, q)
    <3>1. PoolFor(bs, pool, p) = "small"
      BY <2>1, <1>15, Zenon
    <3>2. PICK a \in DOMAIN nat :
            nat[a] = kSmallBuffer /\ a <= p /\ p + bs[p].size <= a + nat[a]
      BY <3>1, <1>1, Zenon DEF SmallInSmallBuffers, InSmallBuffer
    <3>3. a \in Nat /\ nat[a] \in Nat
      BY <1>1, Zenon DEF WellFormed, IsNative
    <3>4. new[p].size = size /\ new[rest].size = bs[p].size - size
      BY <1>4, Zenon DEF SplitOf
    <3>5. a <= q /\ q + new[q].size <= a + nat[a]
      BY <2>1, <3>2, <3>3, <3>4, <1>2
    <3> QED
      BY <3>2, <3>5, Zenon DEF InSmallBuffer
  <2>2. ASSUME q \in DOMAIN bs \ {p} PROVE InSmallBuffer(new, nat, q)
    BY <2>2, <1>1, <1>11, <1>15, Zenon DEF SmallInSmallBuffers, InSmallBuffer
  <2> QED
    BY <1>6, <2>1, <2>2, Zenon
<1>18. Multiples(new)
  <2>1. IsMultiple(bs[p].size - size)
    BY <1>1, <1>2, MultipleMinus, Zenon DEF Multiples
  <2>2. IsMultiple(new[p].size) /\ IsMultiple(new[rest].size)
    BY <2>1, <1>4, Zenon DEF SplitOf
  <2> QED
    BY <2>2, <1>1, <1>6, <1>11, Zenon DEF Multiples
<1> QED
  BY <1>3, <1>4, <1>14, <1>16, <1>17, <1>18, Zenon DEF Core, new, mid, pool2

\* A fresh native allocation, as if its block were cached in pool c.
LEMMA NewKeepsCore ==
  ASSUME NEW bs, NEW pool, NEW allocated, NEW nat,
         Core(bs, pool, allocated, nat), NEW c \in Pools,
         NEW a \in Nat \ {0}, NEW size \in Nat \ {0}, IsMultiple(size),
         c = "small" => size = kSmallBuffer,
         \A b \in DOMAIN nat : a + size <= b \/ b + nat[b] <= a
  PROVE  Core(WithBlock(bs, a, size), Insert(pool, c, a),
              allocated, NativeAlloc(nat, a, size))
<1> DEFINE new == WithBlock(bs, a, size)
           nat2 == NativeAlloc(nat, a, size)
           pool2 == Insert(pool, c, a)
<1>1. /\ WellFormed(bs, nat) /\ Exact(bs, pool, allocated)
      /\ Uniform(bs, pool) /\ SmallInSmallBuffers(bs, pool, nat)
      /\ Multiples(bs)
  BY Zenon DEF Core
<1>2. WellFormed(new, nat2) /\ a \notin DOMAIN bs
  BY <1>1, NewWellFormed, Zenon
<1>3. a \notin DOMAIN nat
  BY <1>1 DEF WellFormed, IsNative
<1>4. /\ DOMAIN new = DOMAIN bs \cup {a} /\ new[a] = Block(size)
      /\ \A q \in DOMAIN bs : new[q] = bs[q]
  BY <1>2, Zenon DEF WithBlock
<1>5. /\ DOMAIN nat2 = DOMAIN nat \cup {a} /\ nat2[a] = size
      /\ \A b \in DOMAIN nat : nat2[b] = nat[b]
  BY <1>3, Zenon DEF NativeAlloc
<1> HIDE DEF new, nat2
<1>6. IsPools(pool, DOMAIN new) /\ IsPools(pool, DOMAIN bs)
  BY <1>1, <1>4, Zenon DEF Exact, IsPools
<1>7. IsPools(pool2, DOMAIN new) /\ Inserted(pool2, pool, c, a)
  BY <1>4, <1>6, InsertFields, Zenon
<1> HIDE DEF pool2
<1>8. ~ inUse(new[a]) /\ new[a].next = nullptr /\ new[a].size = size
  BY <1>4 DEF inUse, Block
<1>9. \A d \in Pools : \A q \in DOMAIN bs : q \in pool2[d] <=> q \in pool[d]
  BY <1>2, <1>7 DEF Inserted
<1>10. \A d \in Pools : a \in pool2[d] <=> d = c
  <2>1. \A d \in Pools : a \notin pool[d]
    BY <1>2, <1>6, Zenon DEF IsPools
  <2> QED
    BY <2>1, <1>7, Zenon DEF Inserted
<1>11. Exact(new, pool2, allocated)
  <2>1. \A q \in DOMAIN bs : InPools(pool2, q) <=> InPools(pool, q)
    BY <1>9, Zenon DEF InPools, Pools
  <2>2. InPools(pool2, a) /\ ~ (a \in pool2["small"] /\ a \in pool2["large"])
    BY <1>10, Zenon DEF InPools, Pools
  <2>3. \A q \in DOMAIN bs : ~ (q \in pool2["small"] /\ q \in pool2["large"])
    BY <1>1, <1>9, Zenon DEF Exact, Pools
  <2>4. a \notin allocated
    BY <1>1, <1>2, Zenon DEF Exact
  <2> QED
    BY <2>1, <2>2, <2>3, <2>4, <1>1, <1>4, <1>7, <1>8, Zenon DEF Exact
<1>12. \A q \in DOMAIN bs : PoolFor(new, pool2, q) = PoolFor(bs, pool, q)
  BY <1>4, <1>9, Zenon DEF PoolFor, Pools
<1>13. Uniform(new, pool2)
  <2>1. \A q \in DOMAIN bs :
          bs[q].next # nullptr => bs[q].next \in DOMAIN bs
    BY <1>1, Zenon DEF WellFormed, LinksTile, NextLinked
  <2> QED
    BY <2>1, <1>1, <1>4, <1>8, <1>12, Zenon DEF Uniform
<1>14. SmallInSmallBuffers(new, pool2, nat2)
  <2>1. ASSUME NEW q \in DOMAIN bs, PoolFor(new, pool2, q) = "small"
        PROVE  InSmallBuffer(new, nat2, q)
    <3>1. InSmallBuffer(bs, nat, q)
      BY <2>1, <1>1, <1>12, Zenon DEF SmallInSmallBuffers
    <3> QED
      BY <3>1, <1>4, <1>5, Zenon DEF InSmallBuffer
  <2>2. ASSUME PoolFor(new, pool2, a) = "small"
        PROVE  InSmallBuffer(new, nat2, a)
    <3>1. c = "small"
      BY <2>2, <1>8, <1>10, Zenon DEF PoolFor, Pools
    <3> QED
      BY <3>1, <1>5, <1>8 DEF InSmallBuffer
  <2> QED
    BY <2>1, <2>2, <1>4, Zenon DEF SmallInSmallBuffers
<1>15. Multiples(new)
  BY <1>1, <1>4, <1>8, Zenon DEF Multiples
<1> QED
  BY <1>2, <1>11, <1>13, <1>14, <1>15, Zenon DEF Core, new, nat2, pool2

\* Cached blocks that are a whole native allocation are returned to the device.
LEMMA CleanupKeepsCore ==
  ASSUME NEW bs, NEW pool, NEW allocated, NEW nat,
         Core(bs, pool, allocated, nat), NEW gone,
         \A p \in gone : InPools(pool, p) /\ ~ isSplit(bs[p])
  PROVE  Core(Without(bs, gone), [d \in Pools |-> pool[d] \ gone],
              allocated, NativeFree(nat, gone))
<1> DEFINE new == Without(bs, gone)
           nat2 == NativeFree(nat, gone)
           pool2 == [d \in Pools |-> pool[d] \ gone]
<1>1. /\ WellFormed(bs, nat) /\ Exact(bs, pool, allocated)
      /\ Uniform(bs, pool) /\ SmallInSmallBuffers(bs, pool, nat)
      /\ Multiples(bs)
  BY Zenon DEF Core
<1>2. gone \in SUBSET DOMAIN bs
  BY <1>1, Zenon DEF Exact, IsPools, InPools, Pools
<1>3. WellFormed(new, nat2)
  BY <1>1, <1>2, FewerWellFormed, Zenon
<1>4. /\ DOMAIN new = DOMAIN bs \ gone
      /\ \A q \in DOMAIN new : new[q] = bs[q] /\ q \in DOMAIN bs
  BY Zenon DEF Without
<1>5. /\ DOMAIN nat2 = DOMAIN nat \ gone
      /\ \A b \in DOMAIN nat2 : nat2[b] = nat[b]
  BY Zenon DEF NativeFree
<1> HIDE DEF new, nat2
<1>6. \A d \in Pools : pool2[d] = pool[d] \ gone
  BY Zenon
<1>7. IsPools(pool2, DOMAIN new)
  BY <1>1, <1>4, Zenon DEF Exact, IsPools
<1> HIDE DEF pool2
<1>8. \A d \in Pools : \A q \in DOMAIN new : q \in pool2[d] <=> q \in pool[d]
  BY <1>4, <1>6, Zenon
<1>9. Exact(new, pool2, allocated)
  <2>1. \A q \in DOMAIN new : InPools(pool2, q) <=> InPools(pool, q)
    BY <1>8, Zenon DEF InPools, Pools
  <2>2. \A q \in DOMAIN new : ~ (q \in pool2["small"] /\ q \in pool2["large"])
    BY <1>1, <1>4, <1>8, Zenon DEF Exact, Pools
  <2>3. \A q \in gone : q \notin allocated
    BY <1>1, <1>2, Zenon DEF Exact
  <2> QED
    BY <2>1, <2>2, <2>3, <1>1, <1>4, <1>7, Zenon DEF Exact
<1>10. \A q \in DOMAIN new : PoolFor(new, pool2, q) = PoolFor(bs, pool, q)
  BY <1>4, <1>8, Zenon DEF PoolFor, Pools
<1>11. Uniform(new, pool2)
  <2>1. \A q \in DOMAIN new : new[q].next # nullptr => new[q].next \in DOMAIN new
    BY <1>3, Zenon DEF WellFormed, LinksTile, NextLinked
  <2> QED
    BY <2>1, <1>1, <1>4, <1>10, Zenon DEF Uniform
<1>12. SmallInSmallBuffers(new, pool2, nat2)
  <2> SUFFICES ASSUME NEW q \in DOMAIN new, PoolFor(bs, pool, q) = "small"
               PROVE  InSmallBuffer(new, nat2, q)
    BY <1>10, Zenon DEF SmallInSmallBuffers
  <2>1. PICK a \in DOMAIN nat :
          nat[a] = kSmallBuffer /\ a <= q /\ q + bs[q].size <= a + nat[a]
    BY <1>1, <1>4, Zenon DEF SmallInSmallBuffers, InSmallBuffer
  <2>2. PICK b \in DOMAIN nat2 : b <= q /\ q + new[q].size <= b + nat2[b]
    BY <1>3, Zenon DEF WellFormed, LinksTile, InNative
  <2>3. q \in Nat /\ bs[q].size \in Nat \ {0} /\ new[q] = bs[q]
    BY <1>1, <1>4, Zenon DEF WellFormed, IsBlocks, BlockType
  <2>4. b \in DOMAIN nat /\ nat2[b] = nat[b]
    BY <1>5, Zenon
  <2>5. a = b
    BY <2>1, <2>2, <2>3, <2>4, <1>1 DEF WellFormed, IsNative
  <2> QED
    BY <2>1, <2>2, <2>4, <2>5, Zenon DEF InSmallBuffer
<1>13. Multiples(new)
  BY <1>1, <1>4, Zenon DEF Multiples
<1> QED
  BY <1>3, <1>9, <1>11, <1>12, <1>13, Zenon DEF Core, new, nat2, pool2

------------------------------------------------------------------------------
(* Sizes *)

\* Rounding up to a multiple of k.
LEMMA RoundedUp ==
  ASSUME NEW k \in Nat \ {0}, NEW size \in Nat \ {0}
  PROVE  /\ (size + k - 1) \div k \in Nat
         /\ k * ((size + k - 1) \div k) \in Nat
         /\ k * ((size + k - 1) \div k) >= size
<1> DEFINE n == (size + k - 1) \div k
           s == size + k - 1
<1>1. s \in Nat /\ n \in Nat /\ s % k \in 0..(k - 1) /\ s = k * n + (s % k)
  OBVIOUS
<1>2. k * n \in Nat
  BY <1>1
<1>3. k * n >= size
  BY <1>1, <1>2
<1> QED
  BY <1>1, <1>2, <1>3, Zenon

\* The test for a multiple.
LEMMA DivisibleIsMultiple ==
  ASSUME NEW s \in Nat, s % kMinBlockSize = 0
  PROVE  IsMultiple(s)
<1>1. kMinBlockSize \in Nat \ {0}
  BY SizeAssumption, Zenon
<1>2. /\ s \div kMinBlockSize \in Nat
      /\ s = kMinBlockSize * (s \div kMinBlockSize) + (s % kMinBlockSize)
  BY <1>1
<1>3. s = (s \div kMinBlockSize) * kMinBlockSize
  BY <1>1, <1>2
<1> QED
  BY <1>2, <1>3, Zenon DEF IsMultiple

\* roundSize returns a multiple of kMinBlockSize no smaller than the request.
LEMMA RoundSize ==
  ASSUME NEW req \in Nat \ {0}
  PROVE  /\ roundSize(req) \in Nat \ {0} /\ roundSize(req) >= req
         /\ IsMultiple(roundSize(req))
<1> DEFINE n == (req + kMinBlockSize - 1) \div kMinBlockSize
<1>1. kMinBlockSize \in Nat \ {0}
  BY SizeAssumption, Zenon
<1>2. n \in Nat /\ kMinBlockSize * n \in Nat /\ kMinBlockSize * n >= req
  BY <1>1, RoundedUp, Zenon
<1> HIDE DEF n
<1>3. CASE req < kMinBlockSize
  <2>1. kMinBlockSize = 1 * kMinBlockSize
    BY <1>1
  <2> QED
    BY <2>1, <1>1, <1>3 DEF roundSize, IsMultiple
<1>4. CASE ~ (req < kMinBlockSize)
  <2>1. roundSize(req) = kMinBlockSize * n
    BY <1>4, Zenon DEF roundSize, n
  <2>2. kMinBlockSize * n = n * kMinBlockSize
    BY <1>1, <1>2
  <2> QED
    BY <2>1, <2>2, <1>2 DEF IsMultiple
<1> QED
  BY <1>3, <1>4, Zenon

\* getAllocationSize returns a multiple no smaller than the rounded request, and
\* one small buffer for the small ones.
LEMMA AllocationSize ==
  ASSUME NEW size \in Nat \ {0}
  PROVE  /\ getAllocationSize(size) \in Nat \ {0}
         /\ getAllocationSize(size) >= size
         /\ IsMultiple(getAllocationSize(size))
         /\ PoolOf(size) = "small" => getAllocationSize(size) = kSmallBuffer
<1> DEFINE n == (size + kRoundLarge - 1) \div kRoundLarge
<1>1. /\ kMinBlockSize \in Nat \ {0}
      /\ kRoundLarge \in Nat \ {0} /\ kRoundLarge % kMinBlockSize = 0
      /\ kSmallBuffer \in Nat \ {0} /\ kSmallBuffer % kMinBlockSize = 0
      /\ kLargeBuffer \in Nat \ {0} /\ kLargeBuffer % kMinBlockSize = 0
      /\ kSmallSize \in Nat /\ kMinLargeAlloc \in Nat
      /\ kSmallSize < kSmallBuffer /\ kMinLargeAlloc <= kLargeBuffer
  BY SizeAssumption, Zenon
<1>2. n \in Nat /\ kRoundLarge * n \in Nat /\ kRoundLarge * n >= size
  BY <1>1, RoundedUp, Zenon
<1>3. IsMultiple(kSmallBuffer) /\ IsMultiple(kLargeBuffer)
  BY <1>1, DivisibleIsMultiple, Zenon
<1>4. IsMultiple(kRoundLarge * n)
  <2>1. PICK k \in Nat : kRoundLarge = k * kMinBlockSize
    BY <1>1, DivisibleIsMultiple, Zenon DEF IsMultiple
  <2> HIDE DEF n
  <2>2. kRoundLarge * n = (k * n) * kMinBlockSize /\ k * n \in Nat
    BY <2>1, <1>1, <1>2
  <2> QED
    BY <2>2, Zenon DEF IsMultiple
<1>5. \/ getAllocationSize(size) = kSmallBuffer /\ size <= kSmallSize
      \/ /\ getAllocationSize(size) = kLargeBuffer /\ size < kMinLargeAlloc
         /\ ~ (size <= kSmallSize)
      \/ getAllocationSize(size) = kRoundLarge * n /\ ~ (size <= kSmallSize)
  BY Zenon DEF getAllocationSize
<1> HIDE DEF n
<1> QED
  BY <1>1, <1>2, <1>3, <1>4, <1>5 DEF PoolOf

------------------------------------------------------------------------------
(* Free neighbours *)

FreeApart(bs) ==
  \A p \in DOMAIN bs :
    bs[p].next # nullptr => inUse(bs[p]) \/ inUse(bs[bs[p].next])

\* Splitting a free block leaves no free neighbours: one part is used.
LEMMA SplitFreeApart ==
  ASSUME NEW bs, NEW nat, WellFormed(bs, nat), FreeApart(bs),
         NEW p \in DOMAIN bs, ~ inUse(bs[p]), NEW new, NEW size, NEW who,
         NEW rest, rest \notin DOMAIN bs, SplitOf(new, bs, p, size, rest, who)
  PROVE  FreeApart(new)
<1> SUFFICES ASSUME NEW q \in DOMAIN new, new[q].next # nullptr
             PROVE  inUse(new[q]) \/ inUse(new[new[q].next])
  BY Zenon DEF FreeApart
<1>1. \A x \in DOMAIN bs : bs[x].next # nullptr => bs[x].next \in DOMAIN bs
  BY Zenon DEF WellFormed, LinksTile, NextLinked
<1>2. /\ DOMAIN new = DOMAIN bs \cup {rest} /\ inUse(new[p])
      /\ new[rest].next = bs[p].next
      /\ \A x \in DOMAIN bs \ {p} :
           new[x].next = bs[x].next /\ (inUse(new[x]) <=> inUse(bs[x]))
  BY Zenon DEF SplitOf, inUse
<1>3. \A x \in DOMAIN bs : inUse(bs[x]) => inUse(new[x])
  BY <1>2, Zenon
<1>4. CASE q = p
  BY <1>2, <1>4, Zenon
<1>5. CASE q = rest
  BY <1>1, <1>2, <1>3, <1>5, Zenon DEF FreeApart
<1>6. CASE q \in DOMAIN bs \ {p}
  BY <1>1, <1>2, <1>3, <1>6, Zenon DEF FreeApart
<1> QED
  BY <1>2, <1>4, <1>5, <1>6, Zenon

\* Nor does locking a block.
LEMMA LockedFreeApart ==
  ASSUME NEW bs, NEW nat, WellFormed(bs, nat), FreeApart(bs),
         NEW p \in DOMAIN bs, NEW L, L # {}, NEW new, LockedOf(new, bs, p, L)
  PROVE  FreeApart(new)
<1>1. \A x \in DOMAIN bs : bs[x].next # nullptr => bs[x].next \in DOMAIN bs
  BY Zenon DEF WellFormed, LinksTile, NextLinked
<1>2. /\ DOMAIN new = DOMAIN bs
      /\ \A x \in DOMAIN bs : new[x].next = bs[x].next
      /\ \A x \in DOMAIN bs : inUse(bs[x]) => inUse(new[x])
  BY Zenon DEF LockedOf, inUse
<1> QED
  BY <1>1, <1>2, Zenon DEF FreeApart

\* Nor does a new block, which has no neighbours.
LEMMA NewFreeApart ==
  ASSUME NEW bs, NEW nat, WellFormed(bs, nat), FreeApart(bs), NEW a,
         a \notin DOMAIN bs, NEW size
  PROVE  FreeApart(WithBlock(bs, a, size))
<1> DEFINE new == WithBlock(bs, a, size)
<1>1. \A x \in DOMAIN bs : bs[x].next # nullptr => bs[x].next \in DOMAIN bs
  BY Zenon DEF WellFormed, LinksTile, NextLinked
<1>2. /\ DOMAIN new = DOMAIN bs \cup {a} /\ new[a].next = nullptr
      /\ \A q \in DOMAIN bs : new[q] = bs[q]
  BY Zenon DEF WithBlock, Block
<1> HIDE DEF new
<1>3. FreeApart(new)
  BY <1>1, <1>2, Zenon DEF FreeApart
<1> QED
  BY <1>3, Zenon DEF new

\* Nor does taking whole native allocations away.
LEMMA FewerFreeApart ==
  ASSUME NEW bs, FreeApart(bs), NEW gone, NEW nat,
         WellFormed(Without(bs, gone), nat)
  PROVE  FreeApart(Without(bs, gone))
<1> DEFINE new == Without(bs, gone)
<1>1. \A x \in DOMAIN new : new[x].next # nullptr => new[x].next \in DOMAIN new
  BY Zenon DEF WellFormed, LinksTile, NextLinked
<1>2. /\ DOMAIN new \subseteq DOMAIN bs
      /\ \A q \in DOMAIN new : new[q] = bs[q]
  BY Zenon DEF Without
<1> HIDE DEF new
<1>3. FreeApart(new)
  BY <1>1, <1>2, Zenon DEF FreeApart
<1> QED
  BY <1>3, Zenon DEF new

------------------------------------------------------------------------------
(* The inductive invariant of a DeviceMemoryInfo *)

Fields == {"blocks", "pool", "allocated", "allocatedBytes", "cachedBytes"}

IsInfo(m) == DOMAIN m = Fields

\* The three fields of m that the invariant is about.
Has(m, bs, pool, allocated) ==
  IsInfo(m) /\ m.blocks = bs /\ m.pool = pool /\ m.allocated = allocated

Parts(bs, pool, allocated, nat) ==
  Core(bs, pool, allocated, nat) /\ FreeApart(bs)

Inv(m, nat) == IsInfo(m) /\ Parts(m.blocks, m.pool, m.allocated, nat)

\* The invariant, from its parts.
LEMMA InvParts ==
  ASSUME NEW m, NEW bs, NEW pool, NEW allocated, NEW nat,
         Has(m, bs, pool, allocated), Parts(bs, pool, allocated, nat)
  PROVE  Inv(m, nat)
  BY Zenon DEF Has, Inv

\* Block p, out of its pool c, is about to be handed out.
Ready(bs, pool, allocated, nat, p, c) ==
  /\ p \in DOMAIN bs /\ ~ InPools(pool, p) /\ IsPools(pool, DOMAIN bs)
  /\ Core(bs, Insert(pool, c, p), allocated, nat) /\ FreeApart(bs)

Detached(m, nat, p, c) ==
  IsInfo(m) /\ Ready(m.blocks, m.pool, m.allocated, nat, p, c)

\* Recycle takes a cached block out of its pool.
LEMMA RecycleReady ==
  ASSUME NEW bs, NEW pool, NEW allocated, NEW nat,
         Parts(bs, pool, allocated, nat), NEW c \in Pools, NEW p \in pool[c]
  PROVE  Ready(bs, Erase(pool, c, p), allocated, nat, p, c)
<1> DEFINE pool1 == Erase(pool, c, p)
<1>1. Exact(bs, pool, allocated)
  BY Zenon DEF Parts, Core
<1>2. IsPools(pool, DOMAIN bs) /\ p \in DOMAIN bs
  BY <1>1, Zenon DEF Exact, IsPools
<1>3. IsPools(pool1, DOMAIN bs) /\ Erased(pool1, pool, c, p)
  BY <1>2, EraseFields, Zenon
<1>4. Insert(pool1, c, p) = pool
  BY <1>2, InsertErase, Zenon
<1> HIDE DEF pool1
<1>5. ~ InPools(pool1, p)
  BY <1>1, <1>2, <1>3, Zenon DEF Exact, Erased, InPools, Pools
<1> QED
  BY <1>2, <1>3, <1>4, <1>5, Zenon DEF Ready, Parts, pool1

\* A block taken out of its pool can be handed out.
LEMMA RecycleDetaches ==
  ASSUME NEW m, NEW nat, Inv(m, nat), NEW c \in Pools, NEW p \in m.pool[c]
  PROVE  /\ Detached(Recycle(m, p, c), nat, p, c)
         /\ Recycle(m, p, c).blocks = m.blocks
<1> DEFINE n == Recycle(m, p, c)
<1>1. Has(n, m.blocks, Erase(m.pool, c, p), m.allocated)
  BY Zenon DEF Has, Inv, IsInfo, Fields, Recycle
<1> HIDE DEF n
<1>2. Ready(m.blocks, Erase(m.pool, c, p), m.allocated, nat, p, c)
  BY RecycleReady, Zenon DEF Inv
<1>3. n.blocks = m.blocks /\ Detached(n, nat, p, c)
  BY <1>1, <1>2, Zenon DEF Has, Detached
<1> QED
  BY <1>3, Zenon DEF n

\* NewBlock on a gap of the device memory.
LEMMA NewReady ==
  ASSUME NEW bs, NEW pool, NEW allocated, NEW nat,
         Parts(bs, pool, allocated, nat), NEW c \in Pools,
         NEW a \in Nat \ {0}, NEW size \in Nat \ {0}, IsMultiple(size),
         c = "small" => size = kSmallBuffer,
         \A b \in DOMAIN nat : a + size <= b \/ b + nat[b] <= a
  PROVE  Ready(WithBlock(bs, a, size), pool, allocated,
               NativeAlloc(nat, a, size), a, c)
<1> DEFINE new == WithBlock(bs, a, size)
           nat2 == NativeAlloc(nat, a, size)
<1>1. /\ Exact(bs, pool, allocated) /\ WellFormed(bs, nat) /\ FreeApart(bs)
      /\ Core(bs, pool, allocated, nat)
  BY Zenon DEF Parts, Core
<1>2. a \notin DOMAIN bs
  BY <1>1, NewWellFormed, Zenon
<1>3. Core(new, Insert(pool, c, a), allocated, nat2)
  BY <1>1, NewKeepsCore, Zenon
<1>4. FreeApart(new)
  BY <1>1, <1>2, NewFreeApart, Zenon
<1>5. DOMAIN new = DOMAIN bs \cup {a}
  BY Zenon DEF WithBlock
<1> HIDE DEF new, nat2
<1>6. IsPools(pool, DOMAIN new) /\ ~ InPools(pool, a)
  BY <1>1, <1>2, <1>5, Zenon DEF Exact, IsPools, InPools, Pools
<1> QED
  BY <1>3, <1>4, <1>5, <1>6, Zenon DEF Ready, new, nat2

\* So can a new one.
LEMMA NewBlockDetached ==
  ASSUME NEW m, NEW nat, Inv(m, nat), NEW c \in Pools,
         NEW a \in Nat \ {0}, NEW size \in Nat \ {0}, IsMultiple(size),
         c = "small" => size = kSmallBuffer,
         \A b \in DOMAIN nat : a + size <= b \/ b + nat[b] <= a
  PROVE  /\ Detached(NewBlock(m, a, size), NativeAlloc(nat, a, size), a, c)
         /\ NewBlock(m, a, size).blocks[a].size = size
<1> DEFINE n == NewBlock(m, a, size)
           new == WithBlock(m.blocks, a, size)
<1>1. Has(n, new, m.pool, m.allocated)
  BY Zenon DEF Has, Inv, IsInfo, Fields, NewBlock, WithBlock
<1>2. new[a].size = size
  BY Zenon DEF WithBlock, Block
<1>3. Ready(new, m.pool, m.allocated, NativeAlloc(nat, a, size), a, c)
  BY NewReady, Zenon DEF Inv
<1> HIDE DEF n, new
<1>4. n.blocks[a].size = size /\ Detached(n, NativeAlloc(nat, a, size), a, c)
  BY <1>1, <1>2, <1>3, Zenon DEF Has, Detached
<1> QED
  BY <1>4, Zenon DEF n

\* A small block is never handed out whole with room to spare, because the limit
\* on splitting is above every small buffer.
LEMMA WholeFits ==
  ASSUME NEW bs, NEW pool, NEW allocated, NEW nat,
         Core(bs, pool, allocated, nat), NEW c \in Pools, NEW p \in DOMAIN bs,
         p \in pool[c], NEW size \in Nat \ {0}, IsMultiple(size),
         size <= bs[p].size, c = PoolOf(size),
         NEW limit \in Nat, limit > kSmallBuffer,
         ~ Splits(bs[p], size, c, limit)
  PROVE  c = PoolOf(bs[p].size)
<1>1. /\ WellFormed(bs, nat) /\ Exact(bs, pool, allocated) /\ Multiples(bs)
      /\ SmallInSmallBuffers(bs, pool, nat)
  BY Zenon DEF Core
<1>2. p \in Nat /\ bs[p].size \in Nat \ {0} /\ IsMultiple(bs[p].size)
  BY <1>1, Zenon DEF WellFormed, IsBlocks, BlockType, Multiples
<1>3. kSmallSize \in Nat /\ kSmallBuffer \in Nat /\ kMinBlockSize \in Nat
  BY SizeAssumption, Zenon
<1>4. CASE c = "large"
  BY <1>2, <1>3, <1>4 DEF PoolOf
<1>5. CASE c = "small"
  <2>1. ~ inUse(bs[p])
    BY <1>1, <1>5, Zenon DEF Exact, InPools
  <2>2. InSmallBuffer(bs, nat, p)
    BY <2>1, <1>1, <1>5, Zenon DEF SmallInSmallBuffers, PoolFor
  <2>3. PICK a \in DOMAIN nat :
          nat[a] = kSmallBuffer /\ a <= p /\ p + bs[p].size <= a + nat[a]
    BY <2>2, Zenon DEF InSmallBuffer
  <2>4. a \in Nat
    BY <1>1, Zenon DEF WellFormed, IsNative
  <2>5. bs[p].size <= kSmallBuffer
    BY <2>3, <2>4, <1>2, <1>3
  <2>6. bs[p].size - size < kMinBlockSize
    BY <2>5, <1>2, <1>3, <1>5 DEF Splits, SplitThreshold
  <2>7. size < bs[p].size => bs[p].size - size >= kMinBlockSize
    BY <1>1, <1>2, MultipleMinus, Zenon
  <2>8. size = bs[p].size
    BY <2>6, <2>7, <1>2, <1>3
  <2> QED
    BY <2>8, Zenon
<1> QED
  BY <1>4, <1>5, Zenon DEF Pools

\* The end of alloc: whether the block is split or not, the front of it is
\* handed out and the rest cached.
LEMMA SplitParts ==
  ASSUME NEW bs, NEW pool, NEW allocated, NEW nat, NEW c \in Pools, NEW p,
         Ready(bs, pool, allocated, nat, p, c), NEW size \in Nat \ {0},
         IsMultiple(size), size < bs[p].size, c = PoolOf(size), NEW who \in Locks
  PROVE  Parts(Split(bs, p, size, who), Insert(pool, c, p + size),
               allocated \cup {p}, nat)
<1> DEFINE full == Insert(pool, c, p)
           new == Split(bs, p, size, who)
           rest == p + size
<1>1. /\ p \in DOMAIN bs /\ ~ InPools(pool, p) /\ IsPools(pool, DOMAIN bs)
      /\ Core(bs, full, allocated, nat) /\ FreeApart(bs)
  BY Zenon DEF Ready
<1>2. Inserted(full, pool, c, p) /\ p \notin pool[c]
  BY <1>1, InsertFields, Zenon DEF InPools, Pools
<1>3. Erase(full, c, p) = pool
  BY <1>1, <1>2, EraseInsert
<1> HIDE DEF full
<1>4. p \in full[c]
  BY <1>2, Zenon DEF Inserted
<1>5. /\ SplitOf(new, bs, p, size, rest, who) /\ rest \notin DOMAIN bs
      /\ Core(new, Insert(Erase(full, c, p), c, rest), allocated \cup {p}, nat)
  BY <1>1, <1>4, SplitKeepsCore, Zenon
<1>6. WellFormed(bs, nat) /\ ~ inUse(bs[p])
  BY <1>1, <1>4, Zenon DEF Core, Exact, InPools, Pools
<1> HIDE DEF new, rest
<1>7. FreeApart(new)
  BY <1>1, <1>5, <1>6, SplitFreeApart, Zenon
<1> QED
  BY <1>3, <1>5, <1>7, Zenon DEF Parts, new, rest

\* Handing out a block that is not split keeps the invariant.
LEMMA WholeParts ==
  ASSUME NEW bs, NEW pool, NEW allocated, NEW nat, NEW c \in Pools, NEW p,
         Ready(bs, pool, allocated, nat, p, c), NEW size \in Nat \ {0},
         IsMultiple(size), size <= bs[p].size, c = PoolOf(size),
         NEW limit \in Nat, limit > kSmallBuffer,
         ~ Splits(bs[p], size, c, limit), NEW who \in Locks
  PROVE  Parts(SetLocks(bs, p, {who}), pool, allocated \cup {p}, nat)
<1> DEFINE full == Insert(pool, c, p)
           new == SetLocks(bs, p, {who})
           L == {who}
<1>1. /\ p \in DOMAIN bs /\ ~ InPools(pool, p) /\ IsPools(pool, DOMAIN bs)
      /\ Core(bs, full, allocated, nat) /\ FreeApart(bs)
  BY Zenon DEF Ready
<1>2. Inserted(full, pool, c, p) /\ p \notin pool[c]
  BY <1>1, InsertFields, Zenon DEF InPools, Pools
<1>3. Erase(full, c, p) = pool
  BY <1>1, <1>2, EraseInsert
<1> HIDE DEF full
<1>4. p \in full[c]
  BY <1>2, Zenon DEF Inserted
<1>5. c = PoolOf(bs[p].size)
  BY <1>1, <1>4, WholeFits, Zenon
<1>6. L \in SUBSET Locks /\ L # {}
  BY Zenon
<1>7. WellFormed(bs, nat) /\ IsBlocks(bs)
  BY <1>1, Zenon DEF Core, WellFormed
<1> HIDE DEF L
<1>8. LockedOf(new, bs, p, L)
  BY <1>1, <1>6, <1>7, LockedFields, Zenon DEF L
<1> HIDE DEF new
<1>9. Core(new, Erase(full, c, p), allocated \cup {p}, nat)
  BY <1>1, <1>4, <1>5, <1>6, <1>8, TakeKeepsCore
<1>10. FreeApart(new)
  BY <1>1, <1>6, <1>7, <1>8, LockedFreeApart, Zenon
<1> QED
  BY <1>3, <1>9, <1>10, Zenon DEF Parts, new

\* Handing out a block, split or not, keeps the invariant.
LEMMA HandOutInv ==
  ASSUME NEW m, NEW nat, NEW c \in Pools, NEW p,
         Detached(m, nat, p, c), NEW size \in Nat \ {0}, IsMultiple(size),
         size <= m.blocks[p].size, c = PoolOf(size),
         NEW limit \in Nat, limit > kSmallBuffer, NEW who \in Locks
  PROVE  Inv(HandOut(m, p, size, c, limit, who), nat)
<1> DEFINE n == HandOut(m, p, size, c, limit, who)
           b == m.blocks[p]
<1>1. IsInfo(m) /\ Ready(m.blocks, m.pool, m.allocated, nat, p, c)
  BY Zenon DEF Detached
<1>2. b.size \in Nat
  BY <1>1, Zenon DEF Ready, Core, WellFormed, IsBlocks, BlockType
<1>3. CASE Splits(b, size, c, limit)
  <2>1. size < b.size
    <3>1. SplitThreshold(c) \in Nat \ {0}
      BY SizeAssumption, Zenon DEF SplitThreshold
    <3> QED
      BY <3>1, <1>2, <1>3 DEF Splits
  <2>2. Parts(Split(m.blocks, p, size, who), Insert(m.pool, c, p + size),
              m.allocated \cup {p}, nat)
    BY <2>1, <1>1, SplitParts, Zenon
  <2>3. Has(n, Split(m.blocks, p, size, who), Insert(m.pool, c, p + size),
            m.allocated \cup {p})
    BY <1>1, <1>3, Zenon DEF Has, IsInfo, Fields, HandOut
  <2> HIDE DEF n
  <2>4. Inv(n, nat)
    BY <2>2, <2>3, InvParts, Zenon
  <2> QED
    BY <2>4, Zenon DEF n
<1>4. CASE ~ Splits(b, size, c, limit)
  <2>1. Parts(SetLocks(m.blocks, p, {who}), m.pool, m.allocated \cup {p}, nat)
    BY <1>1, <1>4, WholeParts, Zenon
  <2>2. Has(n, SetLocks(m.blocks, p, {who}), m.pool, m.allocated \cup {p})
    BY <1>1, <1>4, Zenon DEF Has, IsInfo, Fields, HandOut
  <2> HIDE DEF n
  <2>3. Inv(n, nat)
    BY <2>1, <2>2, InvParts, Zenon
  <2> QED
    BY <2>3 DEF n
<1> QED
  BY <1>3, <1>4, Zenon

------------------------------------------------------------------------------
(* freeBlock *)

LeftUsed(bs, p) == bs[p].prev = nullptr \/ inUse(bs[bs[p].prev])

RightUsed(bs, p) == bs[p].next = nullptr \/ inUse(bs[bs[p].next])

\* Free neighbours are merged, except that p may have free neighbours.
FreeApartBut(bs, p) ==
  \A q \in DOMAIN bs :
    bs[q].next # nullptr /\ q # p /\ bs[q].next # p =>
      inUse(bs[q]) \/ inUse(bs[bs[q].next])

\* After a merge of l and r, of which one was p, only l may have free neighbours.
LEMMA MergedFreeApart ==
  ASSUME NEW bs, NEW nat, WellFormed(bs, nat), NEW l \in DOMAIN bs, NEW r,
         r = bs[l].next, r # nullptr, NEW p \in {l, r}, FreeApartBut(bs, p),
         NEW new, MergedOf(new, bs, l, r)
  PROVE  FreeApartBut(new, l)
<1> SUFFICES ASSUME NEW q \in DOMAIN new, new[q].next # nullptr,
                    q # l, new[q].next # l
             PROVE  inUse(new[q]) \/ inUse(new[new[q].next])
  BY Zenon DEF FreeApartBut
<1>1. /\ q \in DOMAIN bs \ {l, r} /\ new[q].next = bs[q].next
      /\ inUse(new[q]) <=> inUse(bs[q])
  BY DEF MergedOf, inUse
<1>2. bs[r].prev = l
  BY Zenon DEF WellFormed, LinksTile, NextLinked
<1>3. bs[q].next \in DOMAIN bs /\ bs[bs[q].next].prev = q
  BY <1>1, Zenon DEF WellFormed, LinksTile, NextLinked
<1>4. bs[q].next \in DOMAIN bs \ {l, r}
  BY <1>1, <1>2, <1>3, Zenon
<1>5. new[bs[q].next].locks = bs[bs[q].next].locks
  BY <1>4, Zenon DEF MergedOf
<1>6. inUse(bs[q]) \/ inUse(bs[bs[q].next])
  BY <1>1, <1>4, Zenon DEF FreeApartBut
<1> QED
  BY <1>1, <1>5, <1>6, Zenon DEF inUse

\* The neighbours of the merged block are those that l and r had outside.
LEMMA MergedLeftUsed ==
  ASSUME NEW bs, NEW nat, WellFormed(bs, nat), NEW l \in DOMAIN bs, NEW r,
         r = bs[l].next, r # nullptr, LeftUsed(bs, l),
         NEW new, MergedOf(new, bs, l, r)
  PROVE  LeftUsed(new, l)
<1> SUFFICES ASSUME bs[l].prev # nullptr PROVE inUse(new[bs[l].prev])
  BY Zenon DEF LeftUsed, MergedOf
<1>1. bs[l].prev \in DOMAIN bs /\ bs[bs[l].prev].next = l
  BY Zenon DEF WellFormed, LinksTile, PrevLinked
<1>2. bs[l].prev # r /\ bs[l].prev # l
  BY <1>1, RightNeighbour
<1>3. new[bs[l].prev].locks = bs[bs[l].prev].locks
  BY <1>1, <1>2, Zenon DEF MergedOf
<1> QED
  BY <1>3, Zenon DEF LeftUsed, inUse

\* A merged block has the right neighbour of its right half.
LEMMA MergedRightUsed ==
  ASSUME NEW bs, NEW nat, WellFormed(bs, nat), NEW l \in DOMAIN bs, NEW r,
         r = bs[l].next, r # nullptr, RightUsed(bs, r),
         NEW new, MergedOf(new, bs, l, r)
  PROVE  RightUsed(new, l)
<1> SUFFICES ASSUME bs[r].next # nullptr PROVE inUse(new[bs[r].next])
  BY Zenon DEF RightUsed, MergedOf
<1>1. r \in DOMAIN bs /\ bs[r].next # l /\ bs[r].next # r
  BY RightNeighbour, Zenon
<1>2. bs[r].next \in DOMAIN bs \ {l, r}
  BY <1>1, Zenon DEF WellFormed, LinksTile, NextLinked
<1>3. new[bs[r].next].locks = bs[bs[r].next].locks
  BY <1>2, Zenon DEF MergedOf
<1> QED
  BY <1>3, Zenon DEF RightUsed, inUse

\* Block p has lost its last lock and will be cached in pool c.
Freed(bs, pool, allocated, nat, p, c) ==
  /\ p \in DOMAIN bs /\ ~ inUse(bs[p])
  /\ ~ InPools(pool, p) /\ IsPools(pool, DOMAIN bs)
  /\ Core(bs, Insert(pool, c, p), allocated, nat)
  /\ FreeApartBut(bs, p)

\* tryMergeBlocks with the free block l on the left.
LEMMA MergeLeft ==
  ASSUME NEW bs, NEW pool, NEW allocated, NEW nat, NEW p, NEW c \in Pools,
         Freed(bs, pool, allocated, nat, p, c),
         NEW l, l = bs[p].prev, l # nullptr, ~ inUse(bs[l])
  PROVE  /\ Freed(Merged(bs, l), Erase(pool, c, l), allocated, nat, l, c)
         /\ LeftUsed(Merged(bs, l), l)
         /\ p \notin DOMAIN Merged(bs, l)
<1> DEFINE full == Insert(pool, c, p)
           new == Merged(bs, l)
           pool2 == Erase(pool, c, l)
<1>1. /\ p \in DOMAIN bs /\ ~ inUse(bs[p]) /\ ~ InPools(pool, p)
      /\ IsPools(pool, DOMAIN bs) /\ Core(bs, full, allocated, nat)
      /\ FreeApartBut(bs, p)
  BY Zenon DEF Freed
<1>2. WellFormed(bs, nat) /\ Exact(bs, full, allocated) /\ Uniform(bs, full)
  BY <1>1, Zenon DEF Core
<1>3. l \in DOMAIN bs /\ bs[l].next = p
  BY <1>1, <1>2, Zenon DEF WellFormed, LinksTile, PrevLinked
<1>4. p # nullptr
  BY <1>1, <1>2, Zenon DEF WellFormed, IsBlocks, nullptr
<1>5. l # p
  <2>1. bs[l].next > l /\ l \in Nat
    BY <1>2, <1>3, <1>4, RightNeighbour DEF WellFormed, IsBlocks
  <2> QED
    BY <2>1, <1>3
<1>6. Inserted(full, pool, c, p) /\ p \notin pool[c]
  BY <1>1, InsertFields, Zenon DEF InPools, Pools
<1>7. Erase(full, c, p) = pool
  BY <1>1, <1>6, EraseInsert
<1>8. IsPools(pool2, DOMAIN bs) /\ Erased(pool2, pool, c, l)
  BY <1>1, EraseFields, Zenon
<1> HIDE DEF full
<1>9. p \in full[c]
  BY <1>6, Zenon DEF Inserted
<1>10. PoolFor(bs, full, l) = PoolFor(bs, full, p)
  BY <1>2, <1>3, <1>4, Zenon DEF Uniform
<1>11. l \in full[c]
  BY <1>1, <1>2, <1>3, <1>9, <1>10, Zenon DEF PoolFor, Exact, InPools, Pools
<1>12. MergedOf(new, bs, l, p) /\ Core(new, Erase(full, c, p), allocated, nat)
  BY <1>1, <1>3, <1>4, <1>11, MergeKeepsCore
<1>13. l \in pool[c]
  BY <1>5, <1>6, <1>11, Zenon DEF Inserted
<1>14. Insert(pool2, c, l) = pool
  BY <1>1, <1>3, <1>13, InsertErase, SMTT(30)
<1> HIDE DEF new, pool2
<1>15. Core(new, Insert(pool2, c, l), allocated, nat)
  BY <1>7, <1>12, <1>14, Zenon
<1>16. l \in DOMAIN new /\ ~ inUse(new[l]) /\ p \notin DOMAIN new
  BY <1>3, <1>5, <1>12, Zenon DEF MergedOf, inUse
<1>17. ~ InPools(pool2, l)
  BY <1>2, <1>3, <1>6, <1>8, <1>11, <1>13, SMTT(30)
  DEF Exact, Erased, Inserted, InPools, Pools
<1>18. IsPools(pool2, DOMAIN new)
  <2>1. \A d \in Pools : p \notin pool2[d]
    BY <1>1, <1>8 DEF Erased, InPools, Pools
  <2>2. DOMAIN new = DOMAIN bs \ {p}
    BY <1>12, Zenon DEF MergedOf
  <2> QED
    BY <2>1, <2>2, <1>8, Zenon DEF IsPools
<1>19. FreeApartBut(new, l)
  BY <1>1, <1>2, <1>3, <1>4, <1>12, MergedFreeApart
<1>20. LeftUsed(bs, l)
  <2> SUFFICES ASSUME bs[l].prev # nullptr PROVE inUse(bs[bs[l].prev])
    BY Zenon DEF LeftUsed
  <2>1. bs[l].prev \in DOMAIN bs /\ bs[bs[l].prev].next = l
    BY <1>2, <1>3 DEF WellFormed, LinksTile, PrevLinked
  <2>2. bs[p].next # l
    BY <1>2, <1>3, <1>4, RightNeighbour, SMTT(30)
  <2>3. bs[l].prev # p
    BY <2>1, <2>2, Zenon
  <2> QED
    BY <2>1, <2>3, <1>1, <1>5 DEF FreeApartBut
<1>21. LeftUsed(new, l)
  BY <1>2, <1>3, <1>4, <1>12, <1>20, MergedLeftUsed, Zenon
<1> QED
  BY <1>15, <1>16, <1>17, <1>18, <1>19, <1>21, Zenon DEF Freed, new, pool2

\* tryMergeBlocks with the free block r on the right.
LEMMA MergeRight ==
  ASSUME NEW bs, NEW pool, NEW allocated, NEW nat, NEW p, NEW c \in Pools,
         Freed(bs, pool, allocated, nat, p, c), LeftUsed(bs, p),
         NEW r, r = bs[p].next, r # nullptr, ~ inUse(bs[r])
  PROVE  /\ Freed(Merged(bs, p), Erase(pool, c, r), allocated, nat, p, c)
         /\ LeftUsed(Merged(bs, p), p) /\ RightUsed(Merged(bs, p), p)
         /\ bs[p].prev # r
<1> DEFINE full == Insert(pool, c, p)
           new == Merged(bs, p)
           pool2 == Erase(pool, c, r)
<1>1. /\ p \in DOMAIN bs /\ ~ inUse(bs[p]) /\ ~ InPools(pool, p)
      /\ IsPools(pool, DOMAIN bs) /\ Core(bs, full, allocated, nat)
      /\ FreeApartBut(bs, p)
  BY Zenon DEF Freed
<1>2. WellFormed(bs, nat) /\ Exact(bs, full, allocated)
  BY <1>1, Zenon DEF Core
<1>3. /\ r \in DOMAIN bs /\ r > p /\ p \in Nat
      /\ bs[r].next # p /\ bs[r].next # r
  BY <1>1, <1>2, RightNeighbour DEF WellFormed, IsBlocks
<1>4. r # p /\ bs[p].prev # r
  <2>1. r # p
    BY <1>3, Zenon
  <2>2. bs[p].prev = r => bs[r].next = p
    BY <1>1, <1>2, Zenon DEF WellFormed, LinksTile, PrevLinked
  <2> QED
    BY <2>1, <2>2, <1>3, Zenon
<1>5. Inserted(full, pool, c, p)
  BY <1>1, InsertFields, Zenon
<1>6. Erase(full, c, r) = Insert(pool2, c, p)
  BY <1>1, <1>4, EraseOther, SMTT(30)
<1>7. IsPools(pool2, DOMAIN bs) /\ Erased(pool2, pool, c, r)
  BY <1>1, EraseFields, Zenon
<1> HIDE DEF full
<1>8. p \in full[c]
  BY <1>5, Zenon DEF Inserted
<1>9. /\ MergedOf(new, bs, p, r) /\ r \in full[c]
      /\ Core(new, Erase(full, c, r), allocated, nat)
  BY <1>1, <1>8, MergeKeepsCore
<1> HIDE DEF new, pool2
<1>10. Core(new, Insert(pool2, c, p), allocated, nat)
  BY <1>6, <1>9
<1>11. p \in DOMAIN new /\ ~ inUse(new[p])
  BY <1>1, <1>4, <1>9 DEF MergedOf, inUse
<1>12. ~ InPools(pool2, p)
  BY <1>1, <1>7 DEF Erased, InPools, Pools
<1>13. IsPools(pool2, DOMAIN new)
  <2>1. \A d \in Pools : r \notin pool2[d]
    <3>1. \A d \in Pools \ {c} : r \notin full[d]
      BY <1>2, <1>3, <1>9, SMTT(30) DEF Exact, Pools
    <3> QED
      BY <3>1, <1>5, <1>7 DEF Inserted, Erased
  <2>2. DOMAIN new = DOMAIN bs \ {r}
    BY <1>9, Zenon DEF MergedOf
  <2> QED
    BY <2>1, <2>2, <1>7 DEF IsPools
<1>14. FreeApartBut(new, p)
  BY <1>1, <1>2, <1>9, MergedFreeApart, Zenon
<1>15. LeftUsed(new, p)
  BY <1>1, <1>2, <1>9, MergedLeftUsed, Zenon
<1>16. RightUsed(bs, r)
  <2> SUFFICES ASSUME bs[r].next # nullptr PROVE inUse(bs[bs[r].next])
    BY Zenon DEF RightUsed
  <2> QED
    BY <1>1, <1>3, <1>4, Zenon DEF FreeApartBut
<1>17. RightUsed(new, p)
  BY <1>1, <1>2, <1>9, <1>16, MergedRightUsed, Zenon
<1> QED
  BY <1>4, <1>10, <1>11, <1>12, <1>13, <1>14, <1>15, <1>17, Zenon DEF Freed, new, pool2

\* Once both neighbours of a freed block are in use, it can be cached.
LEMMA FreedParts ==
  ASSUME NEW bs, NEW pool, NEW allocated, NEW nat, NEW p, NEW c,
         Freed(bs, pool, allocated, nat, p, c), LeftUsed(bs, p),
         RightUsed(bs, p)
  PROVE  Parts(bs, Insert(pool, c, p), allocated, nat)
<1>1. /\ Core(bs, Insert(pool, c, p), allocated, nat) /\ FreeApartBut(bs, p)
      /\ p \in DOMAIN bs /\ WellFormed(bs, nat)
  BY Zenon DEF Freed, Core
<1>2. \A q \in DOMAIN bs :
        bs[q].next = p => bs[p].prev = q /\ q # nullptr
  BY <1>1 DEF WellFormed, LinksTile, NextLinked, IsBlocks, nullptr
<1>3. FreeApart(bs)
  <2> SUFFICES ASSUME NEW q \in DOMAIN bs, bs[q].next # nullptr
               PROVE  inUse(bs[q]) \/ inUse(bs[bs[q].next])
    BY Zenon DEF FreeApart
  <2>1. CASE q = p
    BY <2>1, Zenon DEF RightUsed
  <2>2. CASE bs[q].next = p
    BY <2>2, <1>2 DEF LeftUsed
  <2>3. CASE q # p /\ bs[q].next # p
    BY <2>3, <1>1 DEF FreeApartBut
  <2> QED
    BY <2>1, <2>2, <2>3, Zenon
<1> QED
  BY <1>1, <1>3 DEF Parts

FreedInfo(m, nat, p, c) ==
  IsInfo(m) /\ Freed(m.blocks, m.pool, m.allocated, nat, p, c)

\* FreedInfo, from its parts.
LEMMA FreedInfoHas ==
  ASSUME NEW m, NEW bs, NEW pool, NEW allocated, NEW nat, NEW p, NEW c,
         Has(m, bs, pool, allocated), Freed(bs, pool, allocated, nat, p, c)
  PROVE  FreedInfo(m, nat, p, c) /\ m.blocks = bs
  BY Zenon DEF Has, FreedInfo

\* freeBlock merges with the left neighbour if that is free.
LEMMA TryMergeLeft ==
  ASSUME NEW m, NEW nat, NEW p, NEW c \in Pools, FreedInfo(m, nat, p, c),
         NEW left, left = tryMergeBlocks(m, p, m.blocks[p].prev, c),
         NEW d, d = IF p \in DOMAIN left.blocks THEN p ELSE m.blocks[p].prev
  PROVE  FreedInfo(left, nat, d, c) /\ LeftUsed(left.blocks, d)
<1> DEFINE l == m.blocks[p].prev
<1>1. IsInfo(m) /\ Freed(m.blocks, m.pool, m.allocated, nat, p, c)
  BY Zenon DEF FreedInfo
<1>2. CASE Unmergeable(m, p, l)
  <2>1. left = m
    BY <1>2, Zenon DEF tryMergeBlocks
  <2>2. d = p
    BY <2>1, <1>1 DEF Freed
  <2> QED
    BY <2>1, <2>2, <1>2 DEF Unmergeable, LeftUsed
<1>3. CASE ~ Unmergeable(m, p, l)
  <2>1. l # nullptr /\ ~ inUse(m.blocks[l])
    BY <1>3, Zenon DEF Unmergeable
  <2> DEFINE new == Merged(m.blocks, l)
             pool2 == Erase(m.pool, c, l)
  <2>2. /\ Freed(new, pool2, m.allocated, nat, l, c)
        /\ LeftUsed(new, l) /\ p \notin DOMAIN new
    BY <2>1, <1>1, MergeLeft
  <2>3. Has(left, new, pool2, m.allocated)
    BY <1>1, <1>3 DEF Has, IsInfo, Fields, tryMergeBlocks
  <2> HIDE DEF new, pool2
  <2>4. FreedInfo(left, nat, l, c) /\ left.blocks = new
    BY <2>2, <2>3, FreedInfoHas
  <2>5. d = l
    BY <2>2, <2>4
  <2> QED
    BY <2>2, <2>4, <2>5
<1> QED
  BY <1>2, <1>3

\* Then with the right one.
LEMMA TryMergeRight ==
  ASSUME NEW m, NEW nat, NEW p, NEW c \in Pools, FreedInfo(m, nat, p, c),
         LeftUsed(m.blocks, p),
         NEW both, both = tryMergeBlocks(m, p, m.blocks[p].next, c)
  PROVE  /\ FreedInfo(both, nat, p, c)
         /\ LeftUsed(both.blocks, p) /\ RightUsed(both.blocks, p)
<1> DEFINE r == m.blocks[p].next
<1>1. IsInfo(m) /\ Freed(m.blocks, m.pool, m.allocated, nat, p, c)
  BY Zenon DEF FreedInfo
<1>2. CASE Unmergeable(m, p, r)
  <2>1. both = m
    BY <1>2, Zenon DEF tryMergeBlocks
  <2> QED
    BY <2>1, <1>2 DEF Unmergeable, RightUsed
<1>3. CASE ~ Unmergeable(m, p, r)
  <2>1. r # nullptr /\ ~ inUse(m.blocks[r])
    BY <1>3, Zenon DEF Unmergeable
  <2> DEFINE new == Merged(m.blocks, p)
             pool2 == Erase(m.pool, c, r)
  <2>2. /\ Freed(new, pool2, m.allocated, nat, p, c)
        /\ LeftUsed(new, p) /\ RightUsed(new, p) /\ m.blocks[p].prev # r
    BY <2>1, <1>1, MergeRight, SMTT(30)
  <2>3. Has(both, new, pool2, m.allocated)
    BY <2>2, <1>1, <1>3, Zenon DEF Has, IsInfo, Fields, tryMergeBlocks
  <2> HIDE DEF new, pool2
  <2>4. FreedInfo(both, nat, p, c) /\ both.blocks = new
    BY <2>2, <2>3, FreedInfoHas, Zenon
  <2> QED
    BY <2>2, <2>4
<1> QED
  BY <1>2, <1>3

\* freeBlock restores the invariant.
LEMMA FreeBlockInv ==
  ASSUME NEW m, NEW nat, NEW p, NEW c, c = PoolOf(m.blocks[p].size),
         FreedInfo(m, nat, p, c)
  PROVE  Inv(freeBlock(m, p), nat)
<1> DEFINE left == tryMergeBlocks(m, p, m.blocks[p].prev, c)
           d == IF p \in DOMAIN left.blocks THEN p ELSE m.blocks[p].prev
           both == tryMergeBlocks(left, d, left.blocks[d].next, c)
           n == freeBlock(m, p)
<1>1. c \in Pools
  BY Zenon DEF PoolOf, Pools
<1>2. n = [both EXCEPT !.pool = Insert(both.pool, c, d),
                       !.cachedBytes = both.cachedBytes + both.blocks[d].size]
  BY DEF freeBlock
<1> HIDE DEF n
<1>3. FreedInfo(left, nat, d, c) /\ LeftUsed(left.blocks, d)
  BY <1>1, TryMergeLeft, Zenon
<1> HIDE DEF left, d
<1>4. /\ FreedInfo(both, nat, d, c)
      /\ LeftUsed(both.blocks, d) /\ RightUsed(both.blocks, d)
  BY <1>1, <1>3, TryMergeRight, Zenon
<1> HIDE DEF both
<1>5. Has(n, both.blocks, Insert(both.pool, c, d), both.allocated)
  BY <1>2, <1>4 DEF FreedInfo, Has, IsInfo, Fields
<1>6. Parts(both.blocks, Insert(both.pool, c, d), both.allocated, nat)
  BY <1>4, FreedParts DEF FreedInfo
<1>7. Inv(n, nat)
  BY <1>5, <1>6, InvParts
<1> QED
  BY <1>7, Zenon DEF n

------------------------------------------------------------------------------
(* The operations *)

Rest ==
  /\ userHeld \subseteq UserPtrs
  /\ recyclingSizeLimit \in RecyclingSizeLimits
  /\ splitSizeLimit \in SplitSizeLimits
  /\ oomSize \in Nat

\* The inductive invariant.
IInv == Inv(info, native) /\ Rest

\* The invariant holds at first.
LEMMA InitIInv ==
  ASSUME Init
  PROVE  IInv
<1>1. /\ DOMAIN info.blocks = {} /\ info.allocated = {}
      /\ info.pool = [q \in {"small", "large"} |-> {}] /\ IsInfo(info)
      /\ info.blocks = [p \in {} |-> Block(0)] /\ DOMAIN native = {}
  BY Zenon DEF Init, IsInfo, Fields
<1>2. WellFormed(info.blocks, native)
  <2>1. info.blocks = [p \in DOMAIN info.blocks |-> info.blocks[p]]
    BY <1>1, Zenon
  <2> QED
    BY <2>1, <1>1, Zenon DEF WellFormed, IsBlocks, IsNative, LinksTile, Apart
<1>3. Exact(info.blocks, info.pool, info.allocated)
  BY <1>1, Zenon DEF Exact, IsPools, Pools
<1>4. /\ Uniform(info.blocks, info.pool) /\ FreeApart(info.blocks)
      /\ SmallInSmallBuffers(info.blocks, info.pool, native)
      /\ Multiples(info.blocks)
  BY <1>1, Zenon DEF Uniform, FreeApart, SmallInSmallBuffers, Multiples
<1>5. Rest
  BY SizeAssumption, Zenon DEF Init, Rest
<1> QED
  BY <1>1, <1>2, <1>3, <1>4, <1>5, Zenon DEF IInv, Inv, Parts, Core

\* signalMemoryCleanup keeps the invariant.
LEMMA CleanupInv ==
  ASSUME NEW m, NEW nat, Inv(m, nat)
  PROVE  Inv(signalMemoryCleanup(m), NativeFree(nat, Releasable(m)))
<1> DEFINE gone == Releasable(m)
           n == signalMemoryCleanup(m)
           bs == m.blocks
           pool2 == [d \in Pools |-> m.pool[d] \ gone]
<1>1. \A p \in gone : InPools(m.pool, p) /\ ~ isSplit(bs[p])
  BY Zenon DEF Releasable, Cached, InPools
<1>2. Has(n, Without(bs, gone), pool2, m.allocated)
  BY Zenon DEF Has, Inv, IsInfo, Fields, signalMemoryCleanup, Without, Pools
<1>3. Core(bs, m.pool, m.allocated, nat) /\ FreeApart(bs)
  BY Zenon DEF Inv, Parts
<1> HIDE DEF n, gone
<1>4. Core(Without(bs, gone), pool2, m.allocated, NativeFree(nat, gone))
  BY <1>1, <1>3, CleanupKeepsCore, Zenon
<1>5. FreeApart(Without(bs, gone))
  BY <1>3, <1>4, FewerFreeApart, Zenon DEF Core
<1> HIDE DEF pool2
<1>6. Parts(Without(bs, gone), pool2, m.allocated, NativeFree(nat, gone))
  BY <1>4, <1>5, Zenon DEF Parts
<1>7. Inv(n, NativeFree(nat, gone))
  BY <1>2, <1>6, InvParts, Zenon
<1> QED
  BY <1>7, Zenon DEF n, gone

\* alloc from the native allocator, before or after a cleanup.
LEMMA NativeInv ==
  ASSUME NEW m, NEW nat, Inv(m, nat), NEW req \in Nat \ {0}, NEW user,
         NEW size, size = roundSize(req),
         NEW allocSize, allocSize = getAllocationSize(size),
         NEW a \in NativeGaps(nat, user, allocSize),
         NEW limit \in Nat, limit > kSmallBuffer, NEW who \in Locks
  PROVE  Inv(HandOut(NewBlock(m, a, allocSize), a, size, PoolOf(size), limit,
                     who),
             NativeAlloc(nat, a, allocSize))
<1> DEFINE c == PoolOf(size)
           n == NewBlock(m, a, allocSize)
           nat2 == NativeAlloc(nat, a, allocSize)
<1>1. size \in Nat \ {0} /\ IsMultiple(size)
  BY RoundSize, Zenon
<1>2. /\ allocSize \in Nat \ {0} /\ allocSize >= size
      /\ IsMultiple(allocSize)
      /\ c = "small" => allocSize = kSmallBuffer
  BY <1>1, AllocationSize, Zenon
<1>3. /\ a \in Nat \ {0} /\ c \in Pools
      /\ \A b \in DOMAIN nat : a + allocSize <= b \/ b + nat[b] <= a
  BY SizeAssumption, Zenon DEF NativeGaps, PoolOf, Pools
<1>4. Detached(n, nat2, a, c) /\ n.blocks[a].size = allocSize
  BY <1>2, <1>3, NewBlockDetached
<1> HIDE DEF n, nat2, c
<1>5. size <= n.blocks[a].size
  BY <1>1, <1>2, <1>4, Zenon
<1>6. Inv(HandOut(n, a, size, c, limit, who), nat2)
  BY <1>1, <1>3, <1>4, <1>5, HandOutInv, Zenon DEF c
<1> QED
  BY <1>6, Zenon DEF n, nat2, c

\* An allocation from a pool keeps the invariant.
LEMMA RecycledInv ==
  ASSUME Inv(info, native), NEW req \in Nat \ {0}, NEW who \in Locks,
         splitSizeLimit \in Nat, splitSizeLimit > kSmallBuffer,
         AllocRecycled(req, who)
  PROVE  Inv(info', native)
<1> DEFINE size == roundSize(req)
           c == PoolOf(size)
<1>1. size \in Nat \ {0} /\ IsMultiple(size) /\ c \in Pools
  BY RoundSize, Zenon DEF PoolOf, Pools
<1>2. PICK p \in Recyclable(size, c) :
        info' = HandOut(Recycle(info, p, c), p, size, c, splitSizeLimit, who)
  BY Zenon DEF AllocRecycled
<1>3. p \in info.pool[c] /\ info.blocks[p].size >= size
  BY Zenon DEF Recyclable, LowerBound
<1> DEFINE n == Recycle(info, p, c)
<1>4. Detached(n, native, p, c) /\ n.blocks = info.blocks
  BY <1>1, <1>3, RecycleDetaches, Zenon
<1>5. p \in DOMAIN info.blocks /\ info.blocks[p].size \in Nat
  <2>1. Ready(n.blocks, n.pool, n.allocated, native, p, c)
    BY <1>4, Zenon DEF Detached
  <2> HIDE DEF n
  <2>2. WellFormed(n.blocks, native) /\ p \in DOMAIN n.blocks
    BY <2>1, Zenon DEF Ready, Core
  <2> QED
    BY <2>2, <1>4, Zenon DEF WellFormed, IsBlocks, BlockType
<1> HIDE DEF n, size, c
<1>6. size <= n.blocks[p].size
  BY <1>1, <1>3, <1>4, <1>5, Zenon
<1>7. Inv(HandOut(n, p, size, c, splitSizeLimit, who), native)
  BY <1>1, <1>4, <1>6, HandOutInv, Zenon DEF c
<1> QED
  BY <1>2, <1>7, Zenon DEF n

\* So does one after signalMemoryCleanup.
LEMMA AfterCleanupInv ==
  ASSUME Inv(info, native), NEW req \in Nat \ {0}, NEW who \in Locks,
         splitSizeLimit \in Nat, splitSizeLimit > kSmallBuffer,
         AllocAfterCleanup(req, who)
  PROVE  Inv(info', native') /\ oomSize' \in Nat
<1> DEFINE size == roundSize(req)
           allocSize == getAllocationSize(size)
           m    == signalMemoryCleanup(info)
           nat  == NativeFree(native, Releasable(info))
           user == userHeld \ Releasable(info)
<1>1. Inv(m, nat)
  BY CleanupInv, Zenon
<1>2. allocSize \in Nat
  BY RoundSize, AllocationSize, Zenon
<1>3. \/ /\ oomSize' = 0
         /\ \E a \in NativeGaps(nat, user, allocSize) :
              /\ native' = NativeAlloc(nat, a, allocSize)
              /\ info' = HandOut(NewBlock(m, a, allocSize), a, size,
                                 PoolOf(size), splitSizeLimit, who)
      \/ native' = nat /\ info' = m /\ oomSize' = allocSize
  BY Zenon DEF AllocAfterCleanup
<1> HIDE DEF m, nat, user
<1>4. CASE native' = nat /\ info' = m /\ oomSize' = allocSize
  BY <1>1, <1>2, <1>4, Zenon
<1>5. CASE ~ (native' = nat /\ info' = m /\ oomSize' = allocSize)
  <2>1. PICK a \in NativeGaps(nat, user, allocSize) :
          /\ native' = NativeAlloc(nat, a, allocSize)
          /\ info' = HandOut(NewBlock(m, a, allocSize), a, size, PoolOf(size),
                             splitSizeLimit, who)
    BY <1>3, <1>5, Zenon
  <2>2. Inv(info', native')
    BY <2>1, <1>1, NativeInv, Zenon
  <2>3. oomSize' = 0
    BY <1>3, <1>5, Zenon
  <2> QED
    BY <2>2, <2>3, Zenon
<1> QED
  BY <1>4, <1>5, Zenon

\* Every way alloc can go.
LEMMA AllocInv ==
  ASSUME IInv, NEW req \in Requests, NEW who \in Locks, alloc(req, who),
         \A l \in SplitSizeLimits : l > kSmallBuffer
  PROVE  IInv'
<1>1. /\ req \in Nat \ {0} /\ splitSizeLimit \in Nat
      /\ splitSizeLimit > kSmallBuffer
  BY SizeAssumption DEF alloc, IInv, Rest
<1>2. Inv(info, native) /\ userHeld \subseteq UserPtrs
  BY Zenon DEF IInv, Rest
<1>3. CASE AllocRecycled(req, who)
  <2>1. Inv(info', native)
    BY <1>1, <1>2, <1>3, RecycledInv, Zenon
  <2>2. native' = native /\ UNCHANGED <<userHeld, limits>> /\ oomSize' = 0
    BY <1>3, Zenon DEF AllocRecycled
  <2> QED
    BY <2>1, <2>2, Zenon DEF IInv, Rest, limits
<1>4. CASE AllocNative(req, who)
  <2> DEFINE size == roundSize(req)
             allocSize == getAllocationSize(size)
  <2>1. PICK a \in NativeGaps(native, userHeld, allocSize) :
          /\ native' = NativeAlloc(native, a, allocSize)
          /\ info' = HandOut(NewBlock(info, a, allocSize), a, size,
                             PoolOf(size), splitSizeLimit, who)
    BY <1>4, Zenon DEF AllocNative
  <2>2. Inv(info', native')
    BY <2>1, <1>1, <1>2, NativeInv, Zenon
  <2>3. UNCHANGED <<userHeld, limits>> /\ oomSize' = 0
    BY <1>4, Zenon DEF AllocNative
  <2> QED
    BY <2>2, <2>3, Zenon DEF IInv, Rest, limits
<1>5. CASE AllocAfterCleanup(req, who)
  <2>1. Inv(info', native') /\ oomSize' \in Nat
    BY <1>1, <1>2, <1>5, AfterCleanupInv, Zenon
  <2>2. userHeld' \subseteq userHeld /\ UNCHANGED limits
    BY <1>5, Zenon DEF AllocAfterCleanup
  <2> QED
    BY <2>1, <2>2, <1>2, Zenon DEF IInv, Rest, limits
<1> QED
  BY <1>3, <1>4, <1>5, Zenon DEF alloc

\* The block whose last lock went, before freeBlock.
LEMMA ReleasedFreed ==
  ASSUME NEW bs, NEW pool, NEW allocated, NEW nat,
         Parts(bs, pool, allocated, nat), NEW p \in DOMAIN bs, inUse(bs[p]),
         NEW c, c = PoolOf(bs[p].size), NEW new, LockedOf(new, bs, p, {})
  PROVE  Freed(new, pool, allocated \ {p}, nat, p, c)
<1>1. Core(bs, pool, allocated, nat) /\ FreeApart(bs)
  BY Zenon DEF Parts
<1>2. WellFormed(bs, nat) /\ Exact(bs, pool, allocated)
  BY <1>1, Zenon DEF Core
<1>3. Core(new, Insert(pool, c, p), allocated \ {p}, nat)
  BY <1>1, ReleaseKeepsCore, Zenon
<1>4. /\ DOMAIN new = DOMAIN bs /\ ~ inUse(new[p])
      /\ \A q \in DOMAIN bs \ {p} : inUse(bs[q]) => inUse(new[q])
      /\ \A q \in DOMAIN bs : new[q].next = bs[q].next
  BY Zenon DEF LockedOf, inUse
<1>5. ~ InPools(pool, p) /\ IsPools(pool, DOMAIN new)
  BY <1>2, <1>4, Zenon DEF Exact
<1>6. \A q \in DOMAIN bs : bs[q].next # nullptr => bs[q].next \in DOMAIN bs
  BY <1>2, Zenon DEF WellFormed, LinksTile, NextLinked
<1>7. FreeApartBut(new, p)
  BY <1>1, <1>4, <1>6, Zenon DEF FreeApart, FreeApartBut
<1> QED
  BY <1>3, <1>4, <1>5, <1>7, Zenon DEF Freed

\* The facts about a registered block that unlock and userLock start from.
LEMMA Registered ==
  ASSUME NEW m, NEW nat, Inv(m, nat), NEW p \in m.allocated
  PROVE  /\ p \in DOMAIN m.blocks /\ inUse(m.blocks[p])
         /\ m.blocks[p].locks \in SUBSET Locks
         /\ WellFormed(m.blocks, nat) /\ IsBlocks(m.blocks)
<1>1. WellFormed(m.blocks, nat) /\ Exact(m.blocks, m.pool, m.allocated)
  BY Zenon DEF Inv, Parts, Core
<1>2. IsBlocks(m.blocks)
  BY <1>1, Zenon DEF WellFormed
<1>3. p \in DOMAIN m.blocks /\ inUse(m.blocks[p])
  BY <1>1, Zenon DEF Exact
<1> QED
  BY <1>1, <1>2, <1>3, Zenon DEF IsBlocks, BlockType

\* unlock keeps the block, or frees it when the last lock goes.
LEMMA UnlockInv ==
  ASSUME IInv, NEW p \in info.allocated, NEW who \in Locks, unlock(p, who)
  PROVE  IInv'
<1> DEFINE bs == info.blocks
           L == bs[p].locks \ {who}
           new == SetLocks(bs, p, L)
           m == [info EXCEPT !.blocks = new]
           f == [m EXCEPT !.allocated = m.allocated \ {p}]
<1>1. Inv(info, native) /\ Rest
  BY Zenon DEF IInv
<1>2. /\ p \in DOMAIN bs /\ inUse(bs[p]) /\ bs[p].locks \in SUBSET Locks
      /\ WellFormed(bs, native) /\ IsBlocks(bs)
  BY <1>1, Registered, Zenon
<1>3. L \in SUBSET Locks
  BY <1>2, Zenon
<1>4. Has(m, new, info.pool, info.allocated)
  BY <1>1, Zenon DEF Has, Inv, IsInfo, Fields
<1>5. /\ info' = IF inUse(m.blocks[p]) THEN m ELSE freeBlock(f, p)
      /\ UNCHANGED <<native, userHeld, limits>> /\ oomSize' = 0
  BY Zenon DEF unlock
<1> HIDE DEF L
<1>6. LockedOf(new, bs, p, L)
  BY <1>2, <1>3, LockedFields, Zenon
<1> HIDE DEF m, new
<1>7. m.blocks = new
  BY <1>4, Zenon DEF Has
<1>8. Parts(bs, info.pool, info.allocated, native)
  BY <1>1, Zenon DEF Inv
<1>9. CASE inUse(new[p])
  <2>1. L # {}
    BY <1>6, <1>9, Zenon DEF LockedOf, inUse
  <2>2. Core(new, info.pool, info.allocated, native)
    BY <2>1, <1>2, <1>6, <1>8, RelockKeepsCore, Zenon DEF Parts
  <2>3. FreeApart(new)
    BY <2>1, <1>2, <1>6, <1>8, LockedFreeApart, Zenon DEF Parts
  <2>4. Inv(m, native)
    BY <2>2, <2>3, <1>4, InvParts, Zenon DEF Parts
  <2> QED
    BY <2>4, <1>1, <1>5, <1>7, <1>9, Zenon DEF IInv, Rest, limits
<1>10. CASE ~ inUse(new[p])
  <2> DEFINE c == PoolOf(bs[p].size)
  <2>1. L = {}
    BY <1>6, <1>10, Zenon DEF LockedOf, inUse
  <2>2. Has(f, new, info.pool, info.allocated \ {p})
    BY <1>4, Zenon DEF Has, IsInfo, Fields
  <2>3. Freed(new, info.pool, info.allocated \ {p}, native, p, c)
    BY <2>1, <1>2, <1>6, <1>8, ReleasedFreed, Zenon
  <2> HIDE DEF f, c
  <2>4. FreedInfo(f, native, p, c) /\ f.blocks = new
    BY <2>2, <2>3, FreedInfoHas, Zenon
  <2>5. c = PoolOf(f.blocks[p].size)
    BY <2>4, <1>2, <1>6, Zenon DEF LockedOf, c
  <2>6. Inv(freeBlock(f, p), native)
    BY <2>4, <2>5, FreeBlockInv, Zenon
  <2> QED
    BY <2>6, <1>1, <1>5, <1>7, <1>10, Zenon DEF IInv, Rest, limits
<1> QED
  BY <1>9, <1>10, Zenon

\* userLock keeps the invariant.
LEMMA UserLockInv ==
  ASSUME IInv, NEW p \in info.allocated, userLock(p)
  PROVE  IInv'
<1> DEFINE bs == info.blocks
           L == bs[p].locks \cup {"user"}
           new == SetLocks(bs, p, L)
<1>1. Inv(info, native) /\ Rest
  BY Zenon DEF IInv
<1>2. /\ p \in DOMAIN bs /\ inUse(bs[p]) /\ bs[p].locks \in SUBSET Locks
      /\ WellFormed(bs, native) /\ IsBlocks(bs)
  BY <1>1, Registered, Zenon
<1>3. L \in SUBSET Locks /\ L # {}
  BY <1>2, Zenon DEF Locks
<1>4. /\ info' = [info EXCEPT !.blocks = new]
      /\ UNCHANGED <<native, userHeld, limits>> /\ oomSize' = 0
  BY Zenon DEF userLock
<1> HIDE DEF L
<1>5. LockedOf(new, bs, p, L)
  BY <1>2, <1>3, LockedFields, Zenon
<1> HIDE DEF new
<1>6. Has(info', new, info.pool, info.allocated)
  BY <1>1, <1>4, Zenon DEF Has, Inv, IsInfo, Fields
<1>7. Parts(bs, info.pool, info.allocated, native)
  BY <1>1, Zenon DEF Inv
<1>8. Core(new, info.pool, info.allocated, native)
  BY <1>2, <1>3, <1>5, <1>7, RelockKeepsCore DEF Parts
<1>9. FreeApart(new)
  BY <1>2, <1>3, <1>5, <1>7, LockedFreeApart, Zenon DEF Parts
<1>10. Inv(info', native)
  BY <1>6, <1>8, <1>9, InvParts, Zenon DEF Parts
<1> QED
  BY <1>1, <1>4, <1>10, Zenon DEF IInv, Rest, limits

\* The inductive invariant is inductive, when no limit on splitting lets a small
\* buffer be handed out whole.
LEMMA StepIInv ==
  ASSUME \A l \in SplitSizeLimits : l > kSmallBuffer, IInv, [Next]_vars
  PROVE  IInv'
<1>1. CASE AllocNothing
  BY <1>1, Zenon DEF AllocNothing, IInv, Rest, limits
<1>2. CASE \E req \in Requests, who \in Locks : alloc(req, who)
  BY <1>2, AllocInv, Zenon
<1>3. CASE \E p \in info.allocated, who \in Locks : unlock(p, who)
  BY <1>3, UnlockInv, Zenon
<1>4. CASE \E p \in info.allocated : userLock(p)
  BY <1>4, UserLockInv, Zenon
<1>5. CASE \E p \in userHeld : unlockUnknown(p)
  BY <1>5 DEF unlockUnknown, IInv, Rest, limits
<1>6. CASE shutdown
  <2>1. Inv(info', native')
    BY <1>6, CleanupInv, Zenon DEF shutdown, IInv
  <2> QED
    BY <2>1, <1>6, Zenon DEF shutdown, IInv, Rest, limits
<1>7. CASE setRecyclingSizeLimit
  BY <1>7, Zenon DEF setRecyclingSizeLimit, IInv, Rest
<1>8. CASE setSplitSizeLimit
  BY <1>8, Zenon DEF setSplitSizeLimit, IInv, Rest
<1>9. CASE UNCHANGED vars
  BY <1>9, Zenon DEF vars, IInv, Rest
<1> QED
  BY <1>1, <1>2, <1>3, <1>4, <1>5, <1>6, <1>7, <1>8, <1>9 DEF Next

\* The invariant implies what the run checks.
LEMMA IInvImplies ==
  ASSUME IInv
  PROVE  /\ TypeOK /\ LinksTileNative /\ BlocksDisjoint
         /\ PoolsExact /\ FreeNeighboursMerged
<1>1. /\ WellFormed(info.blocks, native) /\ FreeApart(info.blocks)
      /\ Exact(info.blocks, info.pool, info.allocated)
  BY Zenon DEF IInv, Inv, Parts, Core
<1>2. LinksTileNative
  BY <1>1, Zenon DEF WellFormed, LinksTileNative
<1>3. BlocksDisjoint
  BY <1>1, Zenon DEF WellFormed, LinksTile, InNative, BlocksDisjoint
<1>4. PoolsExact
  BY <1>1, Zenon DEF Exact, IsPools, InPools, Pools, PoolsExact, Cached
<1>5. FreeNeighboursMerged
  BY <1>1, Zenon DEF FreeApart, FreeNeighboursMerged
<1>6. TypeOK
  <2>1. ASSUME NEW p \in DOMAIN info.blocks
        PROVE  LET b == info.blocks[p]
               IN  /\ p \in Nat \ {0} /\ b.size \in Nat \ {0}
                   /\ b.locks \subseteq Locks
                   /\ b.prev \in DOMAIN info.blocks \cup {nullptr}
                   /\ b.next \in DOMAIN info.blocks \cup {nullptr}
    BY <1>1, Zenon
    DEF WellFormed, IsBlocks, BlockType, LinksTile, NextLinked, PrevLinked
  <2>2. /\ info.pool \in [{"small", "large"} -> SUBSET DOMAIN info.blocks]
        /\ info.allocated \subseteq DOMAIN info.blocks
    BY <1>1, Zenon DEF Exact, IsPools, Pools
  <2>3. \A a \in DOMAIN native : a \in Nat \ {0} /\ native[a] \in Nat \ {0}
    BY <1>1, Zenon DEF WellFormed, IsNative
  <2> QED
    BY <2>1, <2>2, <2>3, Zenon DEF TypeOK, IInv, Rest
<1> QED
  BY <1>2, <1>3, <1>4, <1>5, <1>6, Zenon

\* For any sizes, addresses and requests, and any limits on splitting above
\* kSmallBuffer: blocks never overlap and lie in memory got from the device, the
\* lists describe the memory, every block is in exactly one place and freed
\* neighbours are merged (alloc, unlock, userLock and signalMemoryCleanup of
\* CachingMemoryManager.cpp).
THEOREM AllocatorCorrect ==
  ASSUME \A l \in SplitSizeLimits : l > kSmallBuffer
  PROVE  Spec => [](/\ TypeOK /\ LinksTileNative /\ BlocksDisjoint
                    /\ PoolsExact /\ FreeNeighboursMerged)
<1>1. Init => IInv
  BY InitIInv, Zenon
<1>2. IInv /\ [Next]_vars => IInv'
  BY StepIInv, Zenon
<1>3. IInv => /\ TypeOK /\ LinksTileNative /\ BlocksDisjoint
              /\ PoolsExact /\ FreeNeighboursMerged
  BY IInvImplies, Zenon
<1> QED
  BY <1>1, <1>2, <1>3, PTL DEF Spec

\* Every block is in exactly one place, allocatedBlocks_ or one of the pools,
\* although freeBlock looks for neighbours only in the pool of the freed size.
THEOREM PoolsStayExact ==
  ASSUME \A l \in SplitSizeLimits : l > kSmallBuffer
  PROVE  Spec => []PoolsExact
BY AllocatorCorrect, PTL

------------------------------------------------------------------------------
(* Out of memory *)

\* Only the failing end of AllocAfterCleanup reports that memory is out, and it
\* does so in the state that signalMemoryCleanup left.
LEMMA OutOfMemoryStep ==
  ASSUME IInv, OutOfMemoryIsReal, [Next]_vars
  PROVE  OutOfMemoryIsReal'
<1>1. CASE UNCHANGED vars
  BY <1>1, Zenon DEF vars, OutOfMemoryIsReal, Cached, isSplit, NativeGaps
<1>2. CASE oomSize' = 0
  BY <1>2 DEF OutOfMemoryIsReal
<1>3. ASSUME NEW req \in Requests, NEW who \in Locks, oomSize' # 0,
             AllocAfterCleanup(req, who)
      PROVE  OutOfMemoryIsReal'
  <2> DEFINE size == getAllocationSize(roundSize(req))
             nat == NativeFree(native, Releasable(info))
             user == userHeld \ Releasable(info)
  <2>1. /\ info' = signalMemoryCleanup(info) /\ native' = nat
        /\ userHeld' = user /\ oomSize' = size
        /\ NativeGaps(nat, user, size) = {}
    BY <1>3, Zenon DEF AllocAfterCleanup
  <2>2. NativeGaps(native', userHeld', oomSize') = {}
    BY <2>1, Zenon
  <2>3. /\ Exact(info.blocks, info.pool, info.allocated) /\ IsInfo(info)
    BY Zenon DEF IInv, Inv, Parts, Core
  <2>4. /\ info'.blocks = Without(info.blocks, Releasable(info))
        /\ info'.pool = [q \in Pools |-> info.pool[q] \ Releasable(info)]
    BY <2>1, <2>3, Zenon DEF signalMemoryCleanup, Without, Pools, IsInfo, Fields
  <2>5. \A p \in Cached(info') :
          p \in Cached(info) /\ p \notin Releasable(info)
    BY <2>4, Zenon DEF Cached, Pools
  <2>6. \A p \in Cached(info') : info'.blocks[p] = info.blocks[p]
    BY <2>3, <2>4, <2>5, Zenon DEF Exact, IsPools, Pools, Cached, Without
  <2>7. \A p \in Cached(info') : isSplit(info'.blocks[p])
    BY <2>5, <2>6, Zenon DEF Releasable
  <2> QED
    BY <2>2, <2>7, Zenon DEF OutOfMemoryIsReal
<1>4. CASE Next /\ oomSize' # 0
  BY <1>3, <1>4, Zenon
  DEF Next, AllocNothing, alloc, AllocRecycled, AllocNative, unlock, userLock,
      unlockUnknown, shutdown, setRecyclingSizeLimit, setSplitSizeLimit
<1> QED
  BY <1>1, <1>2, <1>4, Zenon

\* alloc throws only when no cached block could be returned to the device and
\* the device still has no gap for the request (mallocWithRetry).
THEOREM OutOfMemoryReported ==
  ASSUME \A l \in SplitSizeLimits : l > kSmallBuffer
  PROVE  Spec => []OutOfMemoryIsReal
<1>1. Init => IInv /\ OutOfMemoryIsReal
  BY InitIInv DEF Init, OutOfMemoryIsReal
<1>2. IInv /\ OutOfMemoryIsReal /\ [Next]_vars => (IInv /\ OutOfMemoryIsReal)'
  BY StepIInv, OutOfMemoryStep, Zenon
<1> QED
  BY <1>1, <1>2, PTL DEF Spec

------------------------------------------------------------------------------
(* The refinement of DeviceMemory.  Whatever is done to cached blocks, the   *)
(* blocks in use keep their size and their locks.                            *)

KeepsUsed(new, bs) ==
  \A q \in DOMAIN bs :
    inUse(bs[q]) => /\ q \in DOMAIN new
                    /\ new[q].size = bs[q].size /\ new[q].locks = bs[q].locks

\* Steps that keep the used blocks, one after the other.
LEMMA KeepsUsedTwice ==
  ASSUME NEW bs, NEW mid, NEW new, KeepsUsed(mid, bs), KeepsUsed(new, mid)
  PROVE  KeepsUsed(new, bs)
BY Zenon DEF KeepsUsed, inUse

\* tryMergeBlocks changes the two free blocks it merges, and a link.
LEMMA TryMergeKeeps ==
  ASSUME NEW m, NEW nat, NEW p, NEW c \in Pools, FreedInfo(m, nat, p, c),
         NEW src \in {m.blocks[p].prev, m.blocks[p].next},
         NEW n, n = tryMergeBlocks(m, p, src, c)
  PROVE  n.allocated = m.allocated /\ KeepsUsed(n.blocks, m.blocks)
<1> DEFINE bs == m.blocks
           l == IF bs[p].prev = src THEN src ELSE p
           r == bs[l].next
<1>1. /\ IsInfo(m) /\ p \in DOMAIN bs /\ ~ inUse(bs[p])
      /\ WellFormed(bs, nat)
  BY Zenon DEF FreedInfo, Freed, Core
<1>2. CASE Unmergeable(m, p, src)
  BY <1>2, Zenon DEF tryMergeBlocks, KeepsUsed
<1>3. CASE ~ Unmergeable(m, p, src)
  <2>1. src # nullptr /\ ~ inUse(bs[src])
    BY <1>3, Zenon DEF Unmergeable
  <2>2. p # nullptr
    BY <1>1, Zenon DEF WellFormed, IsBlocks, nullptr
  <2>3. bs[p].prev = src => src \in DOMAIN bs /\ bs[src].next = p
    BY <2>1, <1>1, Zenon DEF WellFormed, LinksTile, PrevLinked
  <2>4. /\ l \in DOMAIN bs /\ r # nullptr
        /\ ~ inUse(bs[l]) /\ ~ inUse(bs[r])
    BY <2>1, <2>2, <2>3, <1>1, Zenon
  <2>5. n.allocated = m.allocated /\ n.blocks = Merged(bs, l)
    BY <1>1, <1>3, Zenon DEF tryMergeBlocks, IsInfo, Fields
  <2> HIDE DEF l
  <2>6. r \in DOMAIN bs /\ r > l /\ bs[r].next # l /\ l \in Nat
    BY <2>4, <1>1, RightNeighbour DEF WellFormed, IsBlocks
  <2>7. MergedOf(Merged(bs, l), bs, l, r)
    BY <2>4, <2>6, <1>1, MergedFields, Zenon DEF WellFormed
  <2> HIDE DEF r
  <2>8. MergedOf(n.blocks, bs, l, r)
    BY <2>5, <2>7, Zenon
  <2>9. ASSUME NEW q \in DOMAIN bs, inUse(bs[q])
        PROVE  /\ q \in DOMAIN n.blocks
               /\ n.blocks[q].size = bs[q].size /\ n.blocks[q].locks = bs[q].locks
    <3>1. q \in DOMAIN bs \ {l, r} /\ q \in DOMAIN bs \ {r}
      BY <2>4, <2>9, Zenon
    <3> QED
      BY <3>1, <2>8, Zenon DEF MergedOf
  <2> QED
    BY <2>5, <2>9, Zenon DEF KeepsUsed
<1> QED
  BY <1>2, <1>3, Zenon

\* freeBlock keeps the blocks that are in use.
LEMMA FreeBlockKeeps ==
  ASSUME NEW m, NEW nat, NEW p, NEW c, c = PoolOf(m.blocks[p].size),
         FreedInfo(m, nat, p, c)
  PROVE  /\ freeBlock(m, p).allocated = m.allocated
         /\ KeepsUsed(freeBlock(m, p).blocks, m.blocks)
<1> DEFINE left == tryMergeBlocks(m, p, m.blocks[p].prev, c)
           d == IF p \in DOMAIN left.blocks THEN p ELSE m.blocks[p].prev
           both == tryMergeBlocks(left, d, left.blocks[d].next, c)
           n == freeBlock(m, p)
<1>1. c \in Pools
  BY Zenon DEF PoolOf, Pools
<1>2. n = [both EXCEPT !.pool = Insert(both.pool, c, d),
                       !.cachedBytes = both.cachedBytes + both.blocks[d].size]
  BY Zenon DEF freeBlock
<1> HIDE DEF n
<1>3. FreedInfo(left, nat, d, c) /\ LeftUsed(left.blocks, d)
  BY <1>1, TryMergeLeft, Zenon
<1>4. left.allocated = m.allocated /\ KeepsUsed(left.blocks, m.blocks)
  BY <1>1, TryMergeKeeps, Zenon
<1> HIDE DEF left, d
<1>5. both.allocated = left.allocated /\ KeepsUsed(both.blocks, left.blocks)
  BY <1>1, <1>3, TryMergeKeeps, Zenon
<1>6. FreedInfo(both, nat, d, c)
  BY <1>1, <1>3, TryMergeRight, Zenon
<1> HIDE DEF both
<1>7. n.allocated = both.allocated /\ n.blocks = both.blocks
  BY <1>2, <1>6, Zenon DEF FreedInfo, IsInfo, Fields
<1>8. n.allocated = m.allocated /\ KeepsUsed(n.blocks, m.blocks)
  BY <1>4, <1>5, <1>7, KeepsUsedTwice, Zenon
<1> QED
  BY <1>8, Zenon DEF n

\* A block is handed out: p, locked by who.
Grows(m, n, p, who) ==
  /\ n.allocated = m.allocated \cup {p} /\ p \notin m.allocated
  /\ n.blocks[p].locks = {who} /\ KeepsUsed(n.blocks, m.blocks)

\* The end of alloc: the block handed out has one lock and a size of its own,
\* and nothing else in use changes.
LEMMA HandOutKeeps ==
  ASSUME NEW m, NEW nat, NEW c \in Pools, NEW p,
         Detached(m, nat, p, c), NEW size \in Nat \ {0},
         NEW limit, NEW who \in Locks,
         NEW n, n = HandOut(m, p, size, c, limit, who)
  PROVE  Grows(m, n, p, who)
<1> DEFINE bs == m.blocks
           full == Insert(m.pool, c, p)
<1>1. /\ IsInfo(m) /\ p \in DOMAIN bs /\ IsPools(m.pool, DOMAIN bs)
      /\ Core(bs, full, m.allocated, nat)
  BY Zenon DEF Detached, Ready
<1>2. Inserted(full, m.pool, c, p)
  BY <1>1, InsertFields, Zenon
<1> HIDE DEF full
<1>3. WellFormed(bs, nat) /\ Exact(bs, full, m.allocated) /\ IsBlocks(bs)
  BY <1>1, Zenon DEF Core, WellFormed
<1>4. ~ inUse(bs[p]) /\ p \notin m.allocated
  BY <1>1, <1>2, <1>3, Zenon DEF Inserted, Exact, InPools, Pools
<1>5. CASE Splits(bs[p], size, c, limit)
  <2>1. bs[p].size \in Nat
    BY <1>1, <1>3, Zenon DEF IsBlocks, BlockType
  <2>2. size < bs[p].size
    <3>1. SplitThreshold(c) \in Nat \ {0}
      BY SizeAssumption, Zenon DEF SplitThreshold
    <3> QED
      BY <3>1, <2>1, <1>5 DEF Splits
  <2>3. p + size \notin DOMAIN bs /\ bs[p].next # p
    BY <2>2, <1>1, <1>3, SplitWellFormed, Zenon
  <2>4. SplitOf(Split(bs, p, size, who), bs, p, size, p + size, who)
    BY <2>2, <2>3, <1>1, <1>3, SplitFields, Zenon
  <2>5. /\ n.blocks = Split(bs, p, size, who)
        /\ n.allocated = m.allocated \cup {p}
    BY <1>1, <1>5, Zenon DEF HandOut, IsInfo, Fields
  <2>a. SplitOf(n.blocks, bs, p, size, p + size, who)
    BY <2>4, <2>5, Zenon
  <2>6. n.blocks[p].locks = {who}
    BY <2>a, Zenon DEF SplitOf
  <2>7. ASSUME NEW q \in DOMAIN bs, inUse(bs[q])
        PROVE  /\ q \in DOMAIN n.blocks
               /\ n.blocks[q].size = bs[q].size /\ n.blocks[q].locks = bs[q].locks
    <3>1. q \in DOMAIN bs \ {p}
      BY <2>7, <1>4, Zenon
    <3>2. n.blocks[q].size = bs[q].size /\ n.blocks[q].locks = bs[q].locks
      BY <3>1, <2>a, Zenon DEF SplitOf
    <3>3. q \in DOMAIN n.blocks
      BY <2>a, Zenon DEF SplitOf
    <3> QED
      BY <3>2, <3>3, Zenon
  <2> QED
    BY <2>5, <2>6, <2>7, <1>4, Zenon DEF KeepsUsed, Grows
<1>6. CASE ~ Splits(bs[p], size, c, limit)
  <2>1. {who} \in SUBSET Locks
    BY Zenon
  <2>2. LockedOf(SetLocks(bs, p, {who}), bs, p, {who})
    BY <2>1, <1>1, <1>3, LockedFields, Zenon
  <2>3. /\ n.blocks = SetLocks(bs, p, {who})
        /\ n.allocated = m.allocated \cup {p}
    BY <1>1, <1>6, Zenon DEF HandOut, IsInfo, Fields
  <2> QED
    BY <2>2, <2>3, <1>4, Zenon DEF LockedOf, KeepsUsed, Grows
<1> QED
  BY <1>5, <1>6, Zenon

\* alloc from the native allocator, before or after a cleanup.
LEMMA NativeGrows ==
  ASSUME NEW m, NEW nat, Inv(m, nat), NEW req \in Nat \ {0}, NEW user,
         NEW size, size = roundSize(req),
         NEW allocSize, allocSize = getAllocationSize(size),
         NEW a \in NativeGaps(nat, user, allocSize),
         NEW limit, NEW who \in Locks,
         NEW n, n = HandOut(NewBlock(m, a, allocSize), a, size, PoolOf(size),
                            limit, who)
  PROVE  Grows(m, n, a, who)
<1> DEFINE c == PoolOf(size)
           mid == NewBlock(m, a, allocSize)
           nat2 == NativeAlloc(nat, a, allocSize)
<1>1. size \in Nat \ {0}
  BY RoundSize, Zenon
<1>2. /\ allocSize \in Nat \ {0} /\ IsMultiple(allocSize)
      /\ c = "small" => allocSize = kSmallBuffer
  BY <1>1, AllocationSize, Zenon
<1>3. /\ a \in Nat \ {0} /\ c \in Pools
      /\ \A b \in DOMAIN nat : a + allocSize <= b \/ b + nat[b] <= a
  BY SizeAssumption, Zenon DEF NativeGaps, PoolOf, Pools
<1>4. Detached(mid, nat2, a, c)
  BY <1>2, <1>3, NewBlockDetached, Zenon
<1>5. a \notin DOMAIN m.blocks
  <2>1. WellFormed(m.blocks, nat)
    BY Zenon DEF Inv, Parts, Core
  <2> QED
    BY <2>1, <1>2, <1>3, NewWellFormed, SMTT(30)
<1>6. mid.allocated = m.allocated /\ KeepsUsed(mid.blocks, m.blocks)
  BY <1>5, Zenon DEF Inv, IsInfo, Fields, NewBlock, KeepsUsed
<1> HIDE DEF mid, nat2, c
<1>7. Grows(mid, n, a, who)
  BY <1>1, <1>3, <1>4, HandOutKeeps, Zenon DEF mid, c
<1> QED
  BY <1>6, <1>7, KeepsUsedTwice, Zenon DEF Grows

\* signalMemoryCleanup returns only blocks nobody uses.
LEMMA CleanupKeeps ==
  ASSUME NEW m, NEW nat, Inv(m, nat)
  PROVE  /\ signalMemoryCleanup(m).allocated = m.allocated
         /\ KeepsUsed(signalMemoryCleanup(m).blocks, m.blocks)
<1>1. IsInfo(m) /\ Exact(m.blocks, m.pool, m.allocated)
  BY Zenon DEF Inv, Parts, Core
<1>2. /\ signalMemoryCleanup(m).allocated = m.allocated
      /\ signalMemoryCleanup(m).blocks = Without(m.blocks, Releasable(m))
  BY <1>1, Zenon DEF signalMemoryCleanup, Without, IsInfo, Fields
<1>3. \A q \in DOMAIN m.blocks : inUse(m.blocks[q]) => q \notin Releasable(m)
  BY <1>1, Zenon DEF Exact, InPools, Releasable, Cached
<1> QED
  BY <1>2, <1>3, Zenon DEF Without, KeepsUsed

\* What alloc does to the blocks in use: one more, or none if it throws.
LEMMA AllocGrows ==
  ASSUME IInv, NEW req \in Requests, NEW who \in Locks, alloc(req, who)
  PROVE  \/ \E p : Grows(info, info', p, who)
         \/ /\ info'.allocated = info.allocated
            /\ KeepsUsed(info'.blocks, info.blocks)
<1> DEFINE size == roundSize(req)
           c == PoolOf(size)
           allocSize == getAllocationSize(size)
           m == signalMemoryCleanup(info)
           nat == NativeFree(native, Releasable(info))
           user == userHeld \ Releasable(info)
<1>1. req \in Nat \ {0} /\ Inv(info, native)
  BY SizeAssumption DEF alloc, IInv
<1>2. CASE AllocRecycled(req, who)
  <2>1. size \in Nat \ {0} /\ c \in Pools
    BY <1>1, RoundSize, Zenon DEF PoolOf, Pools
  <2>2. PICK p \in Recyclable(size, c) :
          info' = HandOut(Recycle(info, p, c), p, size, c, splitSizeLimit, who)
    BY <1>2, Zenon DEF AllocRecycled
  <2>3. p \in info.pool[c]
    BY Zenon DEF Recyclable, LowerBound
  <2> DEFINE mid == Recycle(info, p, c)
  <2>4. Detached(mid, native, p, c) /\ mid.blocks = info.blocks
    BY <2>1, <2>3, <1>1, RecycleDetaches, Zenon
  <2>5. mid.allocated = info.allocated
    BY <1>1, Zenon DEF Recycle, Inv, IsInfo, Fields
  <2> HIDE DEF mid, size, c
  <2>6. info' = HandOut(mid, p, size, c, splitSizeLimit, who)
    BY <2>2, Zenon DEF mid
  <2>7. Grows(mid, info', p, who)
    BY <2>1, <2>4, <2>6, HandOutKeeps, Zenon
  <2> QED
    BY <2>4, <2>5, <2>7, Zenon DEF Grows
<1>3. CASE AllocNative(req, who)
  <2>1. PICK a \in NativeGaps(native, userHeld, allocSize) :
          info' = HandOut(NewBlock(info, a, allocSize), a, size, PoolOf(size),
                          splitSizeLimit, who)
    BY <1>3, Zenon DEF AllocNative
  <2> QED
    BY <2>1, <1>1, NativeGrows, Zenon
<1>4. CASE AllocAfterCleanup(req, who)
  <2>1. Inv(m, nat)
    BY <1>1, CleanupInv, Zenon
  <2>2. m.allocated = info.allocated /\ KeepsUsed(m.blocks, info.blocks)
    BY <1>1, CleanupKeeps, Zenon
  <2>3. \/ info' = m
        \/ \E a \in NativeGaps(nat, user, allocSize) :
             info' = HandOut(NewBlock(m, a, allocSize), a, size, PoolOf(size),
                             splitSizeLimit, who)
    BY <1>4, Zenon DEF AllocAfterCleanup
  <2> HIDE DEF m, nat, user
  <2>4. CASE info' = m
    BY <2>2, <2>4, Zenon
  <2>5. ASSUME NEW a \in NativeGaps(nat, user, allocSize),
               info' = HandOut(NewBlock(m, a, allocSize), a, size,
                               PoolOf(size), splitSizeLimit, who)
        PROVE  Grows(info, info', a, who)
    <3>1. Grows(m, info', a, who)
      BY <2>1, <2>5, <1>1, NativeGrows, Zenon
    <3> QED
      BY <3>1, <2>2, KeepsUsedTwice, Zenon DEF Grows
  <2> QED
    BY <2>3, <2>4, <2>5, Zenon
<1> QED
  BY <1>2, <1>3, <1>4, Zenon DEF alloc

\* The native allocator stays within the device.
InDevice == \A a \in DOMAIN native : a + native[a] <= DeviceEnd

\* Native allocations stay inside the device.
LEMMA InDeviceStep ==
  ASSUME InDevice, [Next]_vars
  PROVE  InDevice'
<1>1. CASE UNCHANGED native
  BY <1>1, Zenon DEF InDevice
<1>2. ASSUME NEW gone, native' = NativeFree(native, gone) PROVE InDevice'
  BY <1>2, Zenon DEF InDevice, NativeFree
<1>3. ASSUME NEW gone, NEW user, NEW size,
             NEW a \in NativeGaps(NativeFree(native, gone), user, size),
             native' = NativeAlloc(NativeFree(native, gone), a, size)
      PROVE  InDevice'
  BY <1>3, Zenon DEF InDevice, NativeFree, NativeAlloc, NativeGaps
<1>4. ASSUME NEW user, NEW size, NEW a \in NativeGaps(native, user, size),
             native' = NativeAlloc(native, a, size)
      PROVE  InDevice'
  BY <1>4, Zenon DEF InDevice, NativeAlloc, NativeGaps
<1>5. ASSUME NEW req \in Requests, NEW who \in Locks, alloc(req, who)
      PROVE  InDevice'
  <2>1. CASE AllocRecycled(req, who)
    BY <2>1, <1>1, Zenon DEF AllocRecycled
  <2>2. CASE AllocNative(req, who)
    BY <2>2, <1>4, Zenon DEF AllocNative
  <2>3. CASE AllocAfterCleanup(req, who)
    BY <2>3, <1>2, <1>3 DEF AllocAfterCleanup
  <2> QED
    BY <2>1, <2>2, <2>3, <1>5, Zenon DEF alloc
<1>6. CASE shutdown
  BY <1>2, <1>6, Zenon DEF shutdown
<1> QED
  BY <1>1, <1>5, <1>6, Zenon
  DEF Next, vars, AllocNothing, unlock, userLock, unlockUnknown,
      setRecyclingSizeLimit, setSplitSizeLimit

\* Nothing in use changes: the program cannot tell the two states apart.
LEMMA SameHeld ==
  ASSUME IInv, info'.allocated = info.allocated,
         KeepsUsed(info'.blocks, info.blocks)
  PROVE  held' = held
<1>1. \A q \in info.allocated : q \in DOMAIN info.blocks /\ inUse(info.blocks[q])
  BY Registered, Zenon DEF IInv
<1> QED
  BY <1>1, Zenon DEF held, KeepsUsed

\* A block handed out is a new region, apart from all others and in the device.
LEMMA GrowsIsAlloc ==
  ASSUME IInv, IInv', InDevice', NEW p, NEW who \in Locks,
         Grows(info, info', p, who)
  PROVE  Memory!Alloc(who)
<1> DEFINE s == info'.blocks[p].size
<1>1. \A q \in info.allocated :
        /\ q \in DOMAIN info.blocks /\ inUse(info.blocks[q])
        /\ q \in DOMAIN info'.blocks /\ q # p
        /\ info'.blocks[q].size = info.blocks[q].size
        /\ info'.blocks[q].locks = info.blocks[q].locks
  BY Registered, Zenon DEF IInv, Grows, KeepsUsed
<1>2. info'.allocated = info.allocated \cup {p} /\ p \notin info.allocated
  BY Zenon DEF Grows
<1>3. /\ WellFormed(info'.blocks, native')
      /\ Exact(info'.blocks, info'.pool, info'.allocated)
  BY Zenon DEF IInv, Inv, Parts, Core
<1>4. p \in DOMAIN info'.blocks
  BY <1>2, <1>3, Zenon DEF Exact
<1>5. p \in Nat \ {0} /\ s \in Nat \ {0}
  BY <1>3, <1>4, Zenon DEF WellFormed, IsBlocks, BlockType
<1>6. PICK a \in DOMAIN native' : a <= p /\ p + s <= a + native'[a]
  BY <1>3, <1>4, Zenon DEF WellFormed, LinksTile, InNative
<1>7. a \in Nat /\ native'[a] \in Nat /\ a + native'[a] <= DeviceEnd
  BY <1>3, <1>6, Zenon DEF WellFormed, IsNative, InDevice
<1>8. p \in 1..DeviceEnd /\ s \in 1..DeviceEnd
  BY <1>5, <1>6, <1>7, SizeAssumption
<1>9. \A q \in info.allocated :
        p + s <= q \/ q + info.blocks[q].size <= p
  BY <1>1, <1>3, <1>4, Zenon DEF WellFormed, Apart
<1>10. /\ DOMAIN held = info.allocated /\ DOMAIN held' = info'.allocated
       /\ held'[p] = [size |-> s, locks |-> {who}]
       /\ \A q \in info.allocated :
            held'[q] = held[q] /\ held[q].size = info.blocks[q].size
       /\ held' = [q \in DOMAIN held' |-> held'[q]]
  BY <1>1, <1>2, Zenon DEF held, Grows
<1> HIDE DEF s
<1>11. held' = [q \in DOMAIN held \cup {p} |->
                  IF q = p THEN [size |-> s, locks |-> {who}] ELSE held[q]]
  BY <1>1, <1>2, <1>10
<1>12. \A q \in DOMAIN held : Memory!Disjoint(p, s, q, held[q].size)
  BY <1>9, <1>10, Zenon DEF Memory!Disjoint
<1>13. p \in (1..DeviceEnd \cap DOMAIN held') \ DOMAIN held /\ held'[p].size = s
  BY <1>2, <1>8, <1>10
<1> HIDE DEF held
<1> QED
  BY <1>8, <1>11, <1>12, <1>13, Zenon DEF Memory!Alloc

\* userLock adds a lock to a region the program holds.
LEMMA UserLockIsLock ==
  ASSUME IInv, NEW p \in info.allocated, userLock(p)
  PROVE  Memory!Lock(p, "user")
<1> DEFINE bs == info.blocks
           L == bs[p].locks \cup {"user"}
           new == SetLocks(bs, p, L)
<1>1. /\ p \in DOMAIN bs /\ bs[p].locks \in SUBSET Locks /\ IsBlocks(bs)
      /\ info.allocated \subseteq DOMAIN bs /\ IsInfo(info)
  BY Registered, Zenon DEF IInv, Inv
<1>2. L \in SUBSET Locks
  BY <1>1, Zenon DEF Locks
<1>3. info'.blocks = new /\ info'.allocated = info.allocated
  BY <1>1, Zenon DEF userLock, IsInfo, Fields
<1> HIDE DEF L
<1>4. LockedOf(new, bs, p, L)
  BY <1>1, <1>2, LockedFields, Zenon
<1> HIDE DEF new
<1>5. \A q \in info.allocated :
        /\ info'.blocks[q].size = bs[q].size
        /\ info'.blocks[q].locks = IF q = p THEN L ELSE bs[q].locks
  BY <1>1, <1>3, <1>4, Zenon DEF LockedOf
<1>6. held' = [held EXCEPT ![p].locks = L]
  BY <1>3, <1>5, Zenon DEF held
<1>7. held[p].locks = bs[p].locks
  BY Zenon DEF held
<1> QED
  BY <1>6, <1>7, Zenon DEF Memory!Lock, L

\* unlock takes a lock off a region, which goes when it was the last one.
LEMMA UnlockIsUnlock ==
  ASSUME IInv, NEW p \in info.allocated, NEW who \in Locks, unlock(p, who)
  PROVE  Memory!Unlock(p, who)
<1> DEFINE bs == info.blocks
           L == bs[p].locks \ {who}
           new == SetLocks(bs, p, L)
           m == [info EXCEPT !.blocks = new]
           f == [m EXCEPT !.allocated = m.allocated \ {p}]
<1>1. /\ p \in DOMAIN bs /\ inUse(bs[p]) /\ bs[p].locks \in SUBSET Locks
      /\ IsBlocks(bs) /\ IsInfo(info)
      /\ Parts(bs, info.pool, info.allocated, native)
  BY Registered, Zenon DEF IInv, Inv
<1>2. \A q \in info.allocated : q \in DOMAIN bs /\ inUse(bs[q])
  BY Registered, Zenon DEF IInv
<1>3. L \in SUBSET Locks
  BY <1>1, Zenon
<1>4. Has(m, new, info.pool, info.allocated)
  BY <1>1, Zenon DEF Has, IsInfo, Fields
<1>5. info' = IF inUse(m.blocks[p]) THEN m ELSE freeBlock(f, p)
  BY Zenon DEF unlock
<1> HIDE DEF L
<1>6. LockedOf(new, bs, p, L)
  BY <1>1, <1>3, LockedFields, Zenon
<1> HIDE DEF m, new
<1>7. m.blocks = new /\ m.allocated = info.allocated
  BY <1>4, Zenon DEF Has
<1>8. held[p].locks \ {who} = L /\ DOMAIN held = info.allocated
  BY Zenon DEF held, L
<1>9. CASE inUse(new[p])
  <2>1. L # {}
    BY <1>1, <1>6, <1>9, Zenon DEF LockedOf, inUse
  <2>2. info' = m
    BY <1>5, <1>7, <1>9, Zenon
  <2>3. \A q \in info.allocated :
          /\ info'.blocks[q].size = bs[q].size
          /\ info'.blocks[q].locks = IF q = p THEN L ELSE bs[q].locks
    BY <2>2, <1>2, <1>6, <1>7 DEF LockedOf
  <2>4. held' = [held EXCEPT ![p].locks = L]
    BY <2>2, <2>3, <1>7, Zenon DEF held
  <2> QED
    BY <2>1, <2>4, <1>8, Zenon DEF Memory!Unlock
<1>10. CASE ~ inUse(new[p])
  <2> DEFINE c == PoolOf(bs[p].size)
  <2>1. L = {}
    BY <1>1, <1>6, <1>10 DEF LockedOf, inUse
  <2>2. Has(f, new, info.pool, info.allocated \ {p})
    BY <1>4 DEF Has, IsInfo, Fields
  <2>3. Freed(new, info.pool, info.allocated \ {p}, native, p, c)
    BY <2>1, <1>1, <1>6, ReleasedFreed, Zenon
  <2>4. info' = freeBlock(f, p)
    BY <1>5, <1>7, <1>10
  <2> HIDE DEF f, c
  <2>5. FreedInfo(f, native, p, c) /\ f.blocks = new
    BY <2>2, <2>3, FreedInfoHas
  <2>6. c = PoolOf(f.blocks[p].size)
    BY <2>5, <1>1, <1>6, Zenon DEF LockedOf, c
  <2>7. info'.allocated = f.allocated /\ KeepsUsed(info'.blocks, f.blocks)
    BY <2>4, <2>5, <2>6, FreeBlockKeeps
  <2>8. info'.allocated = info.allocated \ {p}
    BY <2>2, <2>7, Zenon DEF Has
  <2>9. \A q \in info.allocated \ {p} :
          /\ info'.blocks[q].size = bs[q].size
          /\ info'.blocks[q].locks = bs[q].locks
    BY <2>5, <2>7, <1>2, <1>6 DEF LockedOf, KeepsUsed, inUse
  <2>10. held' = [q \in DOMAIN held \ {p} |-> held[q]]
    BY <2>8, <2>9, Zenon DEF held
  <2> QED
    BY <2>1, <2>10, <1>8, Zenon DEF Memory!Unlock
<1> QED
  BY <1>9, <1>10, Zenon

\* Every step of the allocator is a step of the device memory or invisible.
LEMMA StepRefines ==
  ASSUME IInv, IInv', InDevice', [Next]_vars
  PROVE  [Memory!Next]_held
<1>1. DOMAIN held = info.allocated
  BY Zenon DEF held
<1>2. CASE UNCHANGED info
  BY <1>2, Zenon DEF held
<1>3. ASSUME NEW req \in Requests, NEW who \in Locks, alloc(req, who)
      PROVE  [Memory!Next]_held
  <2>1. ASSUME NEW p, Grows(info, info', p, who) PROVE Memory!Alloc(who)
    BY <2>1, GrowsIsAlloc, Zenon
  <2>2. Memory!Alloc(who) \/ held' = held
    BY <2>1, <1>3, AllocGrows, SameHeld, Zenon
  <2> QED
    BY <2>2, Zenon DEF Memory!Next
<1>4. ASSUME NEW p \in info.allocated, NEW who \in Locks, unlock(p, who)
      PROVE  [Memory!Next]_held
  <2>1. Memory!Unlock(p, who)
    BY <1>4, UnlockIsUnlock, Zenon
  <2> QED
    BY <2>1, <1>1, Zenon DEF Memory!Next
<1>5. ASSUME NEW p \in info.allocated, userLock(p)
      PROVE  [Memory!Next]_held
  <2>1. Memory!Lock(p, "user") /\ "user" \in Locks
    BY <1>5, UserLockIsLock, Zenon DEF Locks
  <2> QED
    BY <2>1, <1>1, Zenon DEF Memory!Next
<1>6. CASE shutdown
  <2>1. held' = held
    BY <1>6, CleanupKeeps, SameHeld, Zenon DEF shutdown, IInv
  <2> QED
    BY <2>1, Zenon
<1> QED
  BY <1>2, <1>3, <1>4, <1>5, <1>6, Zenon
  DEF Next, vars, AllocNothing, unlockUnknown, setRecyclingSizeLimit,
      setSplitSizeLimit

\* Caching, splitting, merging and returning memory are invisible: alloc, unlock
\* and userLock behave as those of a plain device memory, in which a region
\* handed out overlaps no other and stays as it is until its last unlock.
THEOREM AllocatorImplementsDeviceMemory ==
  ASSUME \A l \in SplitSizeLimits : l > kSmallBuffer
  PROVE  Spec => ImplementsDeviceMemory
<1>1. Init => IInv /\ InDevice
  BY InitIInv, Zenon DEF Init, InDevice
<1>2. Init => Memory!Init
  BY DEF Init, Memory!Init, held
<1>3. IInv /\ InDevice /\ [Next]_vars => (IInv /\ InDevice)'
  BY StepIInv, InDeviceStep, Zenon
<1>4. IInv /\ (IInv /\ InDevice)' /\ [Next]_vars => [Memory!Next]_held
  BY StepRefines, Zenon
<1> QED
  BY <1>1, <1>2, <1>3, <1>4, PTL DEF Spec, ImplementsDeviceMemory, Memory!Spec
==============================================================================
