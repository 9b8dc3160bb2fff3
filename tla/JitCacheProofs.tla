---------------------------- MODULE JitCacheProofs ----------------------------
(***************************************************************************)
(* Proofs about JitCache, for every size of memory, cache and pool and for *)
(* every decoder: its type invariant, that hooked stores leave no stale    *)
(* block behind, and that host code is never overwritten while it can run. *)
(***************************************************************************)
EXTENDS JitCache, TLAPS

-------------------------------------------------------------------------------
(* Addresses, pages and slots *)

\* jit_hash, jit_nojit_hash, jit_hot_hash and jit_smc_page_bit index their
\* tables within bounds.
LEMMA HashRange ==
  ASSUME NEW p \in Nat
  PROVE  /\ Hash(p) \in Slot
         /\ NojitHash(p) \in 0 .. NojitEntries - 1
         /\ HotHash(p) \in 0 .. HotEntries - 1
         /\ PageBit(p) \in 0 .. PageBits - 1
<1>1. \A n \in Nat, k \in Nat \ {0} : n % k \in 0 .. k - 1
  OBVIOUS
<1>2. p * HashMul \in Nat
  BY SizesAssumption
<1>3. p \div PageSize \in Nat
  BY SizesAssumption
<1> QED
  BY <1>1, <1>2, <1>3, SizesAssumption DEF Hash, NojitHash, HotHash, PageBit, Slot

\* The bytes from p to the end of its page have the page bit of p.
LEMMA SamePage ==
  ASSUME NEW p \in Nat, NEW a \in Nat, p <= a,
         a < p + (PageSize - (p % PageSize))
  PROVE  a \div PageSize = p \div PageSize
<1> DEFINE k == PageSize  q == p \div k  r == p % k  q2 == a \div k  r2 == a % k
<1>1. k \in Nat \ {0}
  BY SizesAssumption
<1>2. /\ q \in Nat /\ r \in 0 .. k - 1 /\ p = k * q + r
      /\ q2 \in Nat /\ r2 \in 0 .. k - 1 /\ a = k * q2 + r2
  BY <1>1
<1> HIDE DEF k, q, r, q2, r2
<1>3. a < p + (k - r)
  BY DEF k, r
<1>4. k * q2 < k * (q + 1)
  BY <1>1, <1>2, <1>3
<1>5. q2 < q + 1
  BY <1>1, <1>2, <1>4
<1>6. k * q < k * (q2 + 1)
  BY <1>1, <1>2
<1>7. q < q2 + 1
  BY <1>1, <1>2, <1>6
<1> QED
  BY <1>2, <1>5, <1>7 DEF q, q2, k

\* What the scanner leaves of a page ends inside RAM and inside the page.
LEMMA ScanRange ==
  ASSUME NEW p \in Nat, p < MemSize
  PROVE  /\ ScanEnd(p) \in Nat /\ p < ScanEnd(p) /\ ScanEnd(p) <= MemSize
         /\ ScanEnd(p) <= p + (PageSize - (p % PageSize))
<1>1. p % PageSize \in 0 .. PageSize - 1
  BY SizesAssumption
<1> QED
  BY <1>1, SizesAssumption DEF ScanEnd, MinOf

\* A block cut at a boundary of the scan is a piece of RAM inside one page.
LEMMA BoundaryRange ==
  ASSUME NEW p \in Nat, p < MemSize, NEW e \in Boundaries(p)
  PROVE  /\ e \in Nat /\ p < e /\ e <= MemSize
         /\ Insns(p)[e] \in Nat
         /\ \A a \in p .. e - 1 : PageBit(a) = PageBit(p)
<1>1. e \in p + 1 .. ScanEnd(p) /\ Insns(p)[e] \in 1 .. ScanLimit
  BY DEF Boundaries
<1>2. /\ ScanEnd(p) \in Nat /\ p < ScanEnd(p) /\ ScanEnd(p) <= MemSize
      /\ ScanEnd(p) <= p + (PageSize - (p % PageSize))
  BY ScanRange
<1>3. p % PageSize \in Nat /\ PageSize \in Nat /\ MemSize \in Nat /\ ScanLimit \in Nat
  BY SizesAssumption
<1>4. e \in Nat /\ p < e /\ e <= MemSize /\ Insns(p)[e] \in Nat
  BY <1>1, <1>2, <1>3
<1>5. ASSUME NEW a \in p .. e - 1 PROVE PageBit(a) = PageBit(p)
  <2>1. a \in Nat /\ p <= a /\ a < p + (PageSize - (p % PageSize))
    BY <1>1, <1>2, <1>3
  <2> QED
    BY <2>1, SamePage DEF PageBit
<1> QED
  BY <1>4, <1>5

-------------------------------------------------------------------------------
(* The building blocks of the actions *)

\* An empty slot and a NOJIT slot are block records.
LEMMA PlainBlocks ==
  /\ EmptyBlock \in BlockType /\ ~Valid(EmptyBlock)
  /\ \A p \in Nat : NojitBlock(p) \in BlockType /\ ~Valid(NojitBlock(p))
<1>1. NoCode \in [{} -> Byte]
  BY DEF NoCode
<1>2. {} \in SUBSET Addr
  OBVIOUS
<1>3. NoCode \in Code
  BY <1>1, <1>2 DEF Code
<1> QED
  BY <1>3 DEF EmptyBlock, NojitBlock, BareBlock, BlockType, Valid

\* The bytes a block is compiled from.
LEMMA CodeOf ==
  ASSUME NEW p \in Nat, p < MemSize, NEW e \in Nat, e <= MemSize,
         mem \in [Addr -> Byte]
  PROVE  [a \in p .. e - 1 |-> mem[a]] \in Code
<1>1. p .. e - 1 \in SUBSET Addr
  BY SizesAssumption DEF Addr
<1>2. [a \in p .. e - 1 |-> mem[a]] \in [p .. e - 1 -> Byte]
  BY <1>1
<1> QED
  BY <1>1, <1>2 DEF Code

\* Invalidation keeps the type of the slots; a block valid after it is the
\* block that was there, and neither it nor the slot it links to is a victim.
LEMMA InvalidateEffect ==
  ASSUME NEW bs \in [Slot -> BlockType], NEW vs
  PROVE  /\ InvalidateSlots(bs, vs) \in [Slot -> BlockType]
         /\ \A s \in Slot : Valid(InvalidateSlots(bs, vs)[s]) =>
              /\ InvalidateSlots(bs, vs)[s] = bs[s]
              /\ s \notin vs /\ bs[s].link \notin vs
BY PlainBlocks DEF InvalidateSlots

\* jit_invalidate_range: the same, and with all pages marked that valid blocks
\* lie in, a survivor does not overlap the range.
LEMMA RangeEffect ==
  ASSUME NEW bs \in [Slot -> BlockType], NEW lo \in Int, NEW hi \in Int,
         NEW cs \in InvalidateRange(bs, lo, hi)
  PROVE  /\ cs \in [Slot -> BlockType]
         /\ \A s \in Slot : Valid(cs[s]) =>
              /\ cs[s] = bs[s]
              /\ (\A a \in bs[s].paddr .. bs[s].end - 1 : PageBit(a) \in pages)
                   => \A a \in bs[s].paddr .. bs[s].end - 1 : a \notin lo .. hi - 1
<1>1. CASE MaybeHasCode(lo, hi)
  <2> DEFINE vs == Overlapping(bs, lo, hi)
  <2>1. PICK rs \in SUBSET vs : Reached(bs, vs, rs) /\ cs = InvalidateSlots(bs, rs)
    BY <1>1 DEF InvalidateRange
  <2>2. ASSUME NEW s \in Slot, Valid(bs[s]), s \notin vs,
               NEW a \in bs[s].paddr .. bs[s].end - 1
        PROVE  a \notin lo .. hi - 1
    <3>1. bs[s].paddr \in Nat /\ bs[s].end \in Nat
      BY DEF BlockType
    <3>2. ~(bs[s].paddr < hi /\ bs[s].end > lo)
      BY <2>2 DEF Overlapping
    <3> QED
      BY <3>1, <3>2
  <2> HIDE DEF vs
  <2>3. ASSUME NEW s \in Slot, Valid(cs[s])
        PROVE  cs[s] = bs[s] /\ s \notin vs
    BY <2>1, <2>3, InvalidateEffect DEF Reached
  <2> QED
    BY <2>1, <2>2, <2>3, InvalidateEffect
<1>2. CASE ~MaybeHasCode(lo, hi)
  <2>1. cs = bs
    BY <1>2 DEF InvalidateRange
  <2> QED
    BY <1>2, <2>1 DEF MaybeHasCode
<1> QED
  BY <1>1, <1>2


\* What jit_translate has before it scans: room for the longest block, and
\* slots that are the old ones, or empty after an eviction or a flush.
LEMMA AllocEffect ==
  ASSUME TablesOK, NEW p \in Nat
  PROVE  /\ AllocBlocks(p) \in [Slot -> BlockType]
         /\ AllocPool \in Nat /\ AllocPool + BlockMax <= PoolSize
         /\ AllocPages \subseteq 0 .. PageBits - 1
         /\ AllocRaw \subseteq Addr
         /\ \A s \in Slot : Valid(AllocBlocks(p)[s]) =>
              /\ AllocBlocks(p)[s] = blocks[s]
              /\ AllocPool = pool /\ AllocPages = pages /\ AllocRaw = raw
<1>1. Evicted(p) \in [Slot -> BlockType]
      /\ \A s \in Slot : Valid(Evicted(p)[s]) => Evicted(p)[s] = blocks[s]
  BY InvalidateEffect DEF TablesOK, Evicted
<1>2. CASE PoolFull
  BY <1>2, PlainBlocks, SizesAssumption
     DEF AllocBlocks, AllocPool, AllocPages, AllocRaw
<1>3. CASE ~PoolFull
  <2>1. pool + BlockMax <= PoolSize
    BY <1>3, SizesAssumption DEF PoolFull, TablesOK
  <2> QED
    BY <1>1, <1>3, <2>1, SizesAssumption
       DEF AllocBlocks, AllocPool, AllocPages, AllocRaw, TablesOK
<1> QED
  BY <1>2, <1>3

\* What the commit of a block writes.
LEMMA CommitEffect ==
  ASSUME TablesOK, NEW p \in Nat, NEW e \in Nat, NEW h \in 1 .. BlockMax,
         NEW full \in BOOLEAN, TranslateCommit(p, e, h, full)
  PROVE  /\ p < MemSize /\ p < e /\ e <= MemSize
         /\ \A a \in p .. e - 1 : PageBit(a) = PageBit(p)
         /\ NewBlock(p, e, h, full) \in BlockType
         /\ blocks' = [AllocBlocks(p) EXCEPT ![Hash(p)] = NewBlock(p, e, h, full)]
         /\ pool' = AllocPool + h /\ pool' \in 0 .. PoolSize
         /\ pages' = AllocPages \cup MarkedPages(p, e)
         /\ MarkedPages(p, e) \subseteq 0 .. PageBits - 1
         /\ raw' = AllocRaw /\ nojit' = nojit
<1>1. p < MemSize /\ e \in Boundaries(p)
  BY DEF TranslateCommit
<1>2. /\ p < e /\ e <= MemSize /\ Insns(p)[e] \in Nat
      /\ \A a \in p .. e - 1 : PageBit(a) = PageBit(p)
  BY <1>1, BoundaryRange
<1>3. blocks' = [AllocBlocks(p) EXCEPT ![Hash(p)] = NewBlock(p, e, h, full)]
  BY DEF TranslateCommit
<1>4. pool' = AllocPool + h /\ pool' \in 0 .. PoolSize
  BY AllocEffect, SizesAssumption DEF TranslateCommit
<1>5. MarkedPages(p, e) \subseteq 0 .. PageBits - 1
  <2>1. e - 1 \in Nat
    BY <1>2
  <2> QED
    BY <2>1, HashRange DEF MarkedPages
<1>6. NewBlock(p, e, h, full) \in BlockType
  <2>1. [a \in p .. e - 1 |-> mem[a]] \in Code
    BY <1>1, <1>2, CodeOf DEF TablesOK
  <2>2. NoCode \in Code
    BY PlainBlocks DEF EmptyBlock, BareBlock, BlockType
  <2>3. Hash(e) \in Slot
    BY HashRange
  <2>4. AllocBlocks(p)[Hash(e)] \in BlockType
    BY <2>3, AllocEffect
  <2>5. AllocBlocks(p)[Hash(e)].code \in Code /\ AllocBlocks(p)[Hash(e)].insns \in Nat
    BY <2>4 DEF BlockType
  <2>6. h \in Nat /\ AllocPool \in Nat
    BY AllocEffect, SizesAssumption
  <2> QED
    BY <1>2, <2>1, <2>2, <2>3, <2>5, <2>6 DEF NewBlock, BlockType
<1> QED
  BY <1>1, <1>2, <1>3, <1>4, <1>5, <1>6 DEF TranslateCommit


-------------------------------------------------------------------------------
(* Type correctness *)

\* Every step keeps the types of memory, blocks and tables.
LEMMA TablesStep ==
  ASSUME TablesOK, [Next]_vars
  PROVE  TablesOK'
<1> USE SizesAssumption
<1>0. /\ mem \in [Addr -> Byte] /\ blocks \in [Slot -> BlockType]
      /\ raw \subseteq Addr /\ Addr \subseteq Nat /\ orphans \subseteq Slot
  BY DEF TablesOK, Addr
<1>1. ASSUME NEW lo \in Addr, NEW hi \in 1 .. MemSize, Store(lo, hi)
      PROVE  TablesOK'
  <2>1. lo \in Int /\ hi \in Int
    BY DEF Addr
  <2>2. mem' \in [Addr -> Byte]
    <3>1. PICK w \in [lo .. hi - 1 -> Byte] : mem' = Overwrite(lo, hi, w)
      BY <1>1 DEF Store
    <3> QED
      BY <1>0, <3>1 DEF Overwrite
  <2>3. blocks' \in [Slot -> BlockType]
    BY <1>0, <1>1, <2>1, RangeEffect DEF Store
  <2> QED
    BY <1>0, <1>1, <2>2, <2>3 DEF Store, KeepOrphans, TablesOK
<1>2. ASSUME NEW end \in 1 .. MemSize, NEW start \in Addr, NEW n \in 1 .. end,
             NEW m \in 1 .. MemSize - start, StoreSplit(end, n, start, m)
      PROVE  TablesOK'
  <2>1. end - n \in Int /\ end \in Int /\ start \in Int /\ start + m \in Int
    BY DEF Addr
  <2>2. mem' \in [Addr -> Byte]
    <3> DEFINE D == (end - n .. end - 1) \cup (start .. start + m - 1)
    <3>1. PICK w \in [D -> Byte] :
            mem' = [a \in Addr |-> IF a \in DOMAIN w THEN w[a] ELSE mem[a]]
      BY <1>2 DEF StoreSplit
    <3>2. DOMAIN w = D /\ \A a \in D : w[a] \in Byte
      OBVIOUS
    <3> HIDE DEF D
    <3> QED
      BY <1>0, <3>1, <3>2
  <2>3. PICK mid \in InvalidateRange(blocks, end - n, end) :
          blocks' \in InvalidateRange(mid, start, start + m)
    BY <1>2 DEF StoreSplit
  <2>4. blocks' \in [Slot -> BlockType]
    BY <1>0, <2>1, <2>3, RangeEffect
  <2> QED
    BY <1>0, <1>2, <2>2, <2>4 DEF StoreSplit, KeepOrphans, TablesOK
<1>3. ASSUME NEW lo \in Addr, NEW hi \in 1 .. MemSize, NEW w \in [lo .. hi - 1 -> Byte]
      PROVE  Overwrite(lo, hi, w) \in [Addr -> Byte] /\ lo .. hi - 1 \subseteq Addr
  BY <1>0 DEF Overwrite, Addr
<1>4. ASSUME NEW lo \in Addr, NEW hi \in 1 .. MemSize, InsString(lo, hi)
      PROVE  TablesOK'
  <2>1. mem' \in [Addr -> Byte] /\ raw' \subseteq Addr
    <3>1. PICK w \in [lo .. hi - 1 -> Byte] : mem' = Overwrite(lo, hi, w)
      BY <1>4 DEF InsString
    <3> QED
      BY <1>0, <1>3, <1>4, <3>1 DEF InsString
  <2>2. UNCHANGED <<blocks, pages, nojit, hot, pool, cool, orphans>>
    BY <1>4 DEF InsString
  <2> QED
    BY <2>1, <2>2 DEF TablesOK
<1>5. ASSUME NEW lo \in Addr, NEW hi \in 1 .. MemSize, Reset(lo, hi)
      PROVE  TablesOK'
  BY <1>0, <1>3, <1>5 DEF Reset, TablesOK
<1>6. CASE MovCr0 \/ MovCr3 \/ SetSegCS
  BY <1>6, PlainBlocks DEF MovCr0, MovCr3, SetSegCS, FlushAll, TablesOK
<1>7. CASE TryCooldown
  BY <1>7 DEF TryCooldown, TablesOK
<1>8. ASSUME NEW p \in Fetch, TryNojit(p)
      PROVE  TablesOK'
  BY <1>8 DEF TryNojit, TablesOK
<1>9. ASSUME NEW p \in Fetch, HotUpdate(p)
      PROVE  hot' \in [0 .. HotEntries - 1 -> [addr : Nat \cup {NoAddr}, hits : 0 .. HotThreshold]]
  <2>1. HotHash(p) \in 0 .. HotEntries - 1 /\ p \in Nat
    BY HashRange DEF Fetch
  <2>2. hot[HotHash(p)] \in [addr : Nat \cup {NoAddr}, hits : 0 .. HotThreshold]
    BY <2>1 DEF TablesOK
  <2>3. MinOf(HotEntry(p).hits + 1, HotThreshold) \in 0 .. HotThreshold
    BY <2>2 DEF HotEntry, MinOf
  <2>4. 1 \in 0 .. HotThreshold
    OBVIOUS
  <2> QED
    BY <1>9, <2>1, <2>3, <2>4 DEF HotUpdate, TablesOK
<1>10. ASSUME NEW p \in Fetch, TryCold(p)
       PROVE  TablesOK'
  BY <1>9, <1>10 DEF TryCold, TablesOK
<1>11. ASSUME NEW p \in Fetch, TryTranslate(p)
       PROVE  TablesOK'
  <2>1. p \in Nat /\ Hash(p) \in Slot /\ NojitHash(p) \in 0 .. NojitEntries - 1
    BY HashRange DEF Fetch
  <2>2. NojitBlock(p) \in BlockType
    BY <2>1, PlainBlocks
  <2>3. /\ hot' \in [0 .. HotEntries - 1 -> [addr : Nat \cup {NoAddr}, hits : 0 .. HotThreshold]]
        /\ mem' = mem /\ cool' = cool /\ code16' = code16 /\ pg' = pg
    BY <1>9, <1>11 DEF TryTranslate
  <2>4. CASE TranslateOutside(p)
    <3>1. orphans' \subseteq Slot
      BY <1>0, <2>4 DEF TranslateOutside, NewOrphans
    <3> QED
      BY <1>0, <2>1, <2>2, <2>3, <2>4, <3>1 DEF TranslateOutside, MarkNojit, TablesOK
  <2>5. CASE TranslateBail(p)
    <3>1. blocks' \in [Slot -> BlockType]
      BY <2>1, <2>2, <2>5, AllocEffect DEF TranslateBail
    <3>2. nojit' \in [0 .. NojitEntries - 1 -> Nat \cup {NoAddr}]
      BY <2>1, <2>5 DEF TranslateBail, MarkNojit, TablesOK
    <3>3. /\ pool' \in 0 .. PoolSize /\ pages' \subseteq 0 .. PageBits - 1
          /\ raw' \subseteq Addr /\ orphans' \subseteq Slot
      BY <1>0, <2>1, <2>5, AllocEffect DEF TranslateBail, KeepOrphans
    <3> QED
      BY <2>3, <3>1, <3>2, <3>3 DEF TablesOK
  <2>6. ASSUME NEW e \in 1 .. MemSize, NEW h \in 1 .. BlockMax, NEW full \in BOOLEAN,
               TranslateCommit(p, e, h, full)
        PROVE  TablesOK'
    <3>1. e \in Nat
      OBVIOUS
    <3>2. blocks' \in [Slot -> BlockType]
      <4>1. /\ NewBlock(p, e, h, full) \in BlockType
            /\ blocks' = [AllocBlocks(p) EXCEPT ![Hash(p)] = NewBlock(p, e, h, full)]
        BY <2>1, <2>6, <3>1, CommitEffect
      <4>2. AllocBlocks(p) \in [Slot -> BlockType]
        BY <2>1, AllocEffect
      <4> QED
        BY <2>1, <4>1, <4>2
    <3>3. /\ pool' \in 0 .. PoolSize /\ nojit' = nojit
          /\ pages' = AllocPages \cup MarkedPages(p, e)
          /\ MarkedPages(p, e) \subseteq 0 .. PageBits - 1
          /\ raw' = AllocRaw
      BY <2>1, <2>6, <3>1, CommitEffect
    <3>4. /\ pages' \subseteq 0 .. PageBits - 1 /\ raw' \subseteq Addr
          /\ orphans' \subseteq Slot
      BY <1>0, <2>1, <2>6, <3>3, AllocEffect DEF TranslateCommit, KeepOrphans
    <3> QED
      BY <2>3, <3>2, <3>3, <3>4 DEF TablesOK
  <2> QED
    BY <1>11, <2>4, <2>5, <2>6 DEF TryTranslate
<1>12. CASE UNCHANGED vars
  BY <1>12 DEF vars, TablesOK
<1> QED
  BY <1>1, <1>2, <1>4, <1>5, <1>6, <1>7, <1>8, <1>10, <1>11, <1>12 DEF Next

\* Every step keeps the processor state boolean.
LEMMA FlagsStep ==
  ASSUME FlagsOK, [Next]_vars
  PROVE  FlagsOK'
<1>1. CASE UNCHANGED <<code16, pg>>
  BY <1>1, Zenon DEF FlagsOK
<1>2. CASE MovCr0 \/ MovCr3 \/ SetSegCS
  BY <1>2, Zenon DEF MovCr0, MovCr3, SetSegCS, FlagsOK
<1>3. ASSUME NEW lo \in Addr, NEW hi \in 1 .. MemSize, Reset(lo, hi)
      PROVE  FlagsOK'
  BY <1>3, Zenon DEF Reset, FlagsOK
<1>4. ASSUME NEW lo \in Addr, NEW hi \in 1 .. MemSize, Store(lo, hi) \/ InsString(lo, hi)
      PROVE  UNCHANGED <<code16, pg>>
  BY <1>4, Zenon DEF Store, InsString
<1>5. ASSUME NEW end \in 1 .. MemSize, NEW start \in Addr, NEW n \in 1 .. end,
             NEW m \in 1 .. MemSize - start, StoreSplit(end, n, start, m)
      PROVE  UNCHANGED <<code16, pg>>
  BY <1>5, Zenon DEF StoreSplit
<1>6. ASSUME NEW p \in Fetch, TryNojit(p) \/ TryCold(p) \/ TryTranslate(p)
      PROVE  UNCHANGED <<code16, pg>>
  BY <1>6, Zenon DEF TryNojit, TryCold, TryTranslate
<1>7. CASE TryCooldown \/ UNCHANGED vars
  BY <1>1, <1>7, Zenon DEF TryCooldown, vars
<1> QED
  BY <1>1, <1>2, <1>3, <1>4, <1>5, <1>6, <1>7, Zenon DEF Next

\* The initial states have the type.
LEMMA TypeInit == Init => TypeOK
<1>1. Init => TablesOK
  BY PlainBlocks, SizesAssumption DEF Init, TablesOK
<1>2. Init => FlagsOK
  BY Zenon DEF Init, FlagsOK
<1> QED
  BY <1>1, <1>2 DEF TypeOK

\* The type invariant of the cache, of its tables and of guest memory.
THEOREM TypeCorrect == Spec => []TypeOK
<1>1. TypeOK /\ [Next]_vars => TypeOK'
  BY TablesStep, FlagsStep DEF TypeOK
<1> QED
  BY <1>1, TypeInit, PTL DEF Spec

-------------------------------------------------------------------------------
(* Coherence *)

\* Coherent is not inductive alone: a store whose page bit is clear skips the
\* scan, so the page bits of all valid blocks (Marked) must be known as well.
CodeInv == TypeOK /\ Marked /\ Coherent

\* What Marked and Coherent say of one slot.
MarkedAt(s) ==
  /\ blocks[s].paddr < blocks[s].end /\ blocks[s].end <= MemSize
  /\ \A a \in blocks[s].paddr .. blocks[s].end - 1 : PageBit(a) \in pages
CoherentAt(s) ==
  \A a \in blocks[s].paddr .. blocks[s].end - 1 :
     a \in raw \/ blocks[s].code[a] = mem[a]

LEMMA SlotWise ==
  /\ Marked <=> \A s \in Slot : Valid(blocks[s]) => MarkedAt(s)
  /\ Coherent <=> \A s \in Slot : Valid(blocks[s]) => CoherentAt(s)
BY DEF Marked, MarkedAt, Coherent, CoherentAt

\* A step that keeps the valid blocks it leaves, adds no byte to them, and
\* changes memory only at bytes it adds to raw or that no such block holds.
LEMMA KeepCode ==
  ASSUME CodeInv, NEW s \in Slot, Valid(blocks[s]), blocks'[s] = blocks[s],
         pages \subseteq pages',
         \A a \in blocks[s].paddr .. blocks[s].end - 1 :
            \/ a \in raw'
            \/ mem'[a] = mem[a] /\ (a \in raw => a \in raw')
  PROVE  MarkedAt(s)' /\ CoherentAt(s)'
<1>1. MarkedAt(s) /\ CoherentAt(s)
  BY SlotWise DEF CodeInv
<1> QED
  BY <1>1 DEF MarkedAt, CoherentAt

\* A new block is coherent and its page is marked.
LEMMA NewCode ==
  ASSUME TypeOK, NEW p \in Nat, NEW e \in Nat, NEW h \in 1 .. BlockMax,
         NEW full \in BOOLEAN, TranslateCommit(p, e, h, full), mem' = mem
  PROVE  MarkedAt(Hash(p))' /\ CoherentAt(Hash(p))'
<1>1. /\ p < e /\ e <= MemSize
      /\ \A a \in p .. e - 1 : PageBit(a) = PageBit(p)
      /\ blocks' = [AllocBlocks(p) EXCEPT ![Hash(p)] = NewBlock(p, e, h, full)]
      /\ pages' = AllocPages \cup MarkedPages(p, e)
  <2>1. TablesOK
    BY DEF TypeOK
  <2> QED
    BY <2>1, CommitEffect
<1>2. AllocBlocks(p) \in [Slot -> BlockType] /\ Hash(p) \in Slot
  BY AllocEffect, HashRange DEF TypeOK
<1>3. blocks'[Hash(p)] = NewBlock(p, e, h, full)
  BY <1>1, <1>2
<1>4. /\ blocks'[Hash(p)].paddr = p /\ blocks'[Hash(p)].end = e
      /\ \A a \in p .. e - 1 : blocks'[Hash(p)].code[a] = mem[a]
  BY <1>3 DEF NewBlock
<1>5. PageBit(p) \in pages'
  BY <1>1 DEF MarkedPages
<1> QED
  BY <1>1, <1>4, <1>5 DEF MarkedAt, CoherentAt

LEMMA CodeStep ==
  ASSUME CodeInv, [Next]_vars
  PROVE  Marked' /\ Coherent'
<1> SUFFICES ASSUME NEW s \in Slot, Valid(blocks[s])'
             PROVE  MarkedAt(s)' /\ CoherentAt(s)'
  BY DEF Marked, MarkedAt, Coherent, CoherentAt, Valid
<1> USE SizesAssumption
<1>0. TypeOK /\ blocks \in [Slot -> BlockType] /\ Valid(blocks'[s])
  BY DEF CodeInv, TypeOK, TablesOK, Valid
<1>1. ASSUME Valid(blocks[s])
      PROVE  \A a \in blocks[s].paddr .. blocks[s].end - 1 : a \in Addr /\ PageBit(a) \in pages
  <2>1. MarkedAt(s)
    BY <1>1, SlotWise DEF CodeInv
  <2>2. blocks[s].paddr \in Nat /\ blocks[s].end \in Nat
    BY <1>0 DEF BlockType
  <2> QED
    BY <2>1, <2>2 DEF MarkedAt, Addr
<1>2. ASSUME NEW lo \in Addr, NEW hi \in 1 .. MemSize, Store(lo, hi)
      PROVE  MarkedAt(s)' /\ CoherentAt(s)'
  <2>1. lo \in Int /\ hi \in Int
    BY DEF Addr
  <2>2. /\ blocks'[s] = blocks[s] /\ Valid(blocks[s])
        /\ \A a \in blocks[s].paddr .. blocks[s].end - 1 : a \notin lo .. hi - 1
    BY <1>0, <1>1, <1>2, <2>1, RangeEffect DEF Store
  <2>3. \A a \in Addr : a \notin lo .. hi - 1 => mem'[a] = mem[a]
    BY <1>2 DEF Store, Overwrite
  <2>4. pages' = pages /\ raw' = raw \ (lo .. hi - 1)
    BY <1>2 DEF Store
  <2> QED
    BY <1>1, <2>2, <2>3, <2>4, KeepCode
<1>3. ASSUME NEW end \in 1 .. MemSize, NEW start \in Addr, NEW n \in 1 .. end,
             NEW m \in 1 .. MemSize - start, StoreSplit(end, n, start, m)
      PROVE  MarkedAt(s)' /\ CoherentAt(s)'
  <2> DEFINE D == (end - n .. end - 1) \cup (start .. start + m - 1)
  <2>1. end - n \in Int /\ end \in Int /\ start \in Int /\ start + m \in Int
    BY DEF Addr
  <2>2. PICK mid \in InvalidateRange(blocks, end - n, end) :
          blocks' \in InvalidateRange(mid, start, start + m)
    BY <1>3 DEF StoreSplit
  <2>3. mid \in [Slot -> BlockType]
    BY <1>0, <2>1, <2>2, RangeEffect
  <2>4. Valid(mid[s]) /\ blocks'[s] = mid[s]
    BY <1>0, <2>1, <2>2, <2>3, RangeEffect
  <2>5. Valid(blocks[s]) /\ mid[s] = blocks[s]
    BY <1>0, <2>1, <2>4, RangeEffect
  <2>6. \A a \in blocks[s].paddr .. blocks[s].end - 1 : a \notin end - n .. end - 1
    BY <1>0, <1>1, <2>1, <2>4, <2>5, RangeEffect
  <2>7. \A a \in blocks[s].paddr .. blocks[s].end - 1 : a \notin start .. start + m - 1
    BY <1>0, <1>1, <2>1, <2>2, <2>3, <2>5, RangeEffect
  <2>8. \A a \in Addr : a \notin D => mem'[a] = mem[a]
    <3>1. PICK w \in [D -> Byte] :
            mem' = [a \in Addr |-> IF a \in DOMAIN w THEN w[a] ELSE mem[a]]
      BY <1>3 DEF StoreSplit
    <3>2. DOMAIN w = D
      OBVIOUS
    <3> HIDE DEF D
    <3> QED
      BY <3>1, <3>2
  <2>9. pages' = pages /\ raw' = raw \ D
    BY <1>3 DEF StoreSplit
  <2> QED
    BY <1>1, <2>4, <2>5, <2>6, <2>7, <2>8, <2>9, KeepCode
<1>4. ASSUME NEW lo \in Addr, NEW hi \in 1 .. MemSize, InsString(lo, hi) \/ Reset(lo, hi)
      PROVE  MarkedAt(s)' /\ CoherentAt(s)'
  <2>1. /\ blocks' = blocks /\ pages' = pages /\ raw' = raw \cup (lo .. hi - 1)
        /\ \A a \in Addr : a \notin lo .. hi - 1 => mem'[a] = mem[a]
    BY <1>4 DEF InsString, Reset, Overwrite
  <2> QED
    BY <1>0, <1>1, <2>1, KeepCode
<1>5. CASE MovCr0 \/ MovCr3 \/ SetSegCS
  BY <1>0, <1>5, PlainBlocks DEF MovCr0, MovCr3, SetSegCS, FlushAll
<1>6. CASE UNCHANGED <<mem, blocks, pages, raw>>
  BY <1>0, <1>6, KeepCode
<1>7. CASE TryCooldown \/ UNCHANGED vars
  BY <1>6, <1>7 DEF TryCooldown, vars
<1>8. ASSUME NEW p \in Fetch, TryNojit(p) \/ TryCold(p)
      PROVE  MarkedAt(s)' /\ CoherentAt(s)'
  BY <1>6, <1>8 DEF TryNojit, TryCold
<1>9. ASSUME NEW p \in Fetch, TryTranslate(p)
      PROVE  MarkedAt(s)' /\ CoherentAt(s)'
  <2>1. p \in Nat /\ Hash(p) \in Slot /\ mem' = mem /\ ~Valid(NojitBlock(p))
    BY <1>9, HashRange, PlainBlocks DEF Fetch, TryTranslate
  <2>2. ASSUME s # Hash(p), blocks'[s] = AllocBlocks(p)[s],
               AllocPages \subseteq pages', raw' = AllocRaw
        PROVE  MarkedAt(s)' /\ CoherentAt(s)'
    <3>1. Valid(AllocBlocks(p)[s])
      BY <1>0, <2>2
    <3>2. /\ AllocBlocks(p)[s] = blocks[s] /\ AllocPages = pages /\ AllocRaw = raw
      BY <2>1, <3>1, <1>0, AllocEffect DEF TypeOK
    <3> QED
      BY <2>1, <2>2, <3>1, <3>2, KeepCode
  <2>3. CASE TranslateOutside(p)
    <3>1. s # Hash(p) /\ blocks'[s] = blocks[s] /\ pages' = pages /\ raw' = raw
      BY <1>0, <2>1, <2>3 DEF TranslateOutside
    <3> QED
      BY <1>0, <2>1, <3>1, KeepCode
  <2>4. CASE TranslateBail(p)
    <3>1. AllocBlocks(p) \in [Slot -> BlockType]
      BY <2>1, <1>0, AllocEffect DEF TypeOK
    <3>2. s # Hash(p) /\ blocks'[s] = AllocBlocks(p)[s]
      BY <1>0, <2>1, <2>4, <3>1 DEF TranslateBail
    <3> QED
      BY <2>2, <2>4, <3>2 DEF TranslateBail
  <2>5. ASSUME NEW e \in 1 .. MemSize, NEW h \in 1 .. BlockMax, NEW full \in BOOLEAN,
               TranslateCommit(p, e, h, full)
        PROVE  MarkedAt(s)' /\ CoherentAt(s)'
    <3>1. CASE s = Hash(p)
      BY <1>0, <2>1, <2>5, <3>1, NewCode
    <3>2. CASE s # Hash(p)
      <4>1. AllocBlocks(p) \in [Slot -> BlockType]
        BY <2>1, <1>0, AllocEffect DEF TypeOK
      <4> QED
        BY <2>1, <2>2, <2>5, <3>2, <4>1 DEF TranslateCommit
    <3> QED
      BY <3>1, <3>2
  <2> QED
    BY <1>9, <2>3, <2>4, <2>5 DEF TryTranslate
<1> QED
  BY <1>2, <1>3, <1>4, <1>5, <1>7, <1>8, <1>9 DEF Next

LEMMA CodeInit == Init => Marked /\ Coherent
  BY PlainBlocks DEF Init, Marked, Coherent

\* For every size of memory and cache, every hash and every decoder: a block
\* that a lookup can run was compiled from the bytes memory holds now, bytes
\* written past the store hooks apart.
THEOREM CoherentAlways == Spec => []Coherent
<1>1. Init => CodeInv
  BY TypeInit, CodeInit DEF CodeInv
<1>2. CodeInv /\ [Next]_vars => CodeInv'
  BY CodeStep, TablesStep, FlagsStep DEF CodeInv, TypeOK
<1>3. CodeInv => Coherent
  BY DEF CodeInv
<1> QED
  BY <1>1, <1>2, <1>3, PTL DEF Spec

\* The bitmap in front of the scan never hides a block from a store.
THEOREM MarkedAlways == Spec => []Marked
<1>1. Init => CodeInv
  BY TypeInit, CodeInit DEF CodeInv
<1>2. CodeInv /\ [Next]_vars => CodeInv'
  BY CodeStep, TablesStep, FlagsStep DEF CodeInv, TypeOK
<1>3. CodeInv => Marked
  BY DEF CodeInv
<1> QED
  BY <1>1, <1>2, <1>3, PTL DEF Spec


-------------------------------------------------------------------------------
(* Slots and host code *)

HostIn(bs, top) ==
  \A s \in Slot : Valid(bs[s]) =>
    /\ s = Hash(bs[s].paddr)
    /\ bs[s].host + bs[s].hlen <= top
    /\ \A t \in Slot \ {s} : Valid(bs[t]) =>
         \/ bs[s].host + bs[s].hlen <= bs[t].host
         \/ bs[t].host + bs[t].hlen <= bs[s].host

LEMMA HostWise == Findable /\ PoolSound <=> HostIn(blocks, pool)
BY DEF Findable, PoolSound, HostIn

\* Outside jit_translate no slot gains a block and the pool only falls empty
\* together with all slots.
LEMMA OnlyLoses ==
  ASSUME TablesOK, [Next]_vars, \A p \in Fetch : ~TryTranslate(p)
  PROVE  \/ \A s \in Slot : ~Valid(blocks'[s])
         \/ pool' = pool /\ \A s \in Slot : Valid(blocks'[s]) => blocks'[s] = blocks[s]
<1>0. blocks \in [Slot -> BlockType]
  BY DEF TablesOK
<1>1. ASSUME NEW lo \in Addr, NEW hi \in 1 .. MemSize, Store(lo, hi)
      PROVE  pool' = pool /\ \A s \in Slot : Valid(blocks'[s]) => blocks'[s] = blocks[s]
  <2>1. lo \in Int /\ hi \in Int
    BY SizesAssumption DEF Addr
  <2> QED
    BY <1>0, <1>1, <2>1, RangeEffect DEF Store
<1>2. ASSUME NEW end \in 1 .. MemSize, NEW start \in Addr, NEW n \in 1 .. end,
             NEW m \in 1 .. MemSize - start, StoreSplit(end, n, start, m)
      PROVE  pool' = pool /\ \A s \in Slot : Valid(blocks'[s]) => blocks'[s] = blocks[s]
  <2>1. end - n \in Int /\ end \in Int /\ start \in Int /\ start + m \in Int
    BY SizesAssumption DEF Addr
  <2>2. PICK mid \in InvalidateRange(blocks, end - n, end) :
          blocks' \in InvalidateRange(mid, start, start + m)
    BY <1>2 DEF StoreSplit
  <2>3. mid \in [Slot -> BlockType] /\ \A s \in Slot : Valid(mid[s]) => mid[s] = blocks[s]
    BY <1>0, <2>1, <2>2, RangeEffect
  <2>4. \A s \in Slot : Valid(blocks'[s]) => blocks'[s] = mid[s]
    BY <2>1, <2>2, <2>3, RangeEffect
  <2> QED
    BY <1>2, <2>3, <2>4 DEF StoreSplit
<1>3. ASSUME NEW lo \in Addr, NEW hi \in 1 .. MemSize, InsString(lo, hi) \/ Reset(lo, hi)
      PROVE  pool' = pool /\ blocks' = blocks
  BY <1>3 DEF InsString, Reset
<1>4. CASE MovCr0 \/ MovCr3 \/ SetSegCS
  BY <1>4, PlainBlocks DEF MovCr0, MovCr3, SetSegCS, FlushAll
<1>5. ASSUME NEW p \in Fetch, TryNojit(p) \/ TryCold(p)
      PROVE  pool' = pool /\ blocks' = blocks
  BY <1>5 DEF TryNojit, TryCold
<1>6. CASE TryCooldown \/ UNCHANGED vars
  BY <1>6 DEF TryCooldown, vars
<1> QED
  BY <1>1, <1>2, <1>3, <1>4, <1>5, <1>6 DEF Next

LEMMA HostStep ==
  ASSUME TablesOK, HostIn(blocks, pool), [Next]_vars
  PROVE  HostIn(blocks', pool')
<1>2. CASE \A p \in Fetch : ~TryTranslate(p)
  <2>1. CASE \A s \in Slot : ~Valid(blocks'[s])
    BY <2>1 DEF HostIn
  <2>2. CASE pool' = pool /\ \A s \in Slot : Valid(blocks'[s]) => blocks'[s] = blocks[s]
    BY <2>2 DEF HostIn
  <2> QED
    BY <1>2, <2>1, <2>2, OnlyLoses
<1>3. ASSUME NEW p \in Fetch, TryTranslate(p)
      PROVE  HostIn(blocks', pool')
  <2>1. p \in Nat /\ Hash(p) \in Slot /\ ~Valid(NojitBlock(p))
    BY HashRange, PlainBlocks DEF Fetch
  <2>2. HostIn(AllocBlocks(p), AllocPool) /\ AllocBlocks(p) \in [Slot -> BlockType]
        /\ AllocPool \in Nat
    BY <2>1, AllocEffect DEF HostIn
  <2>3. CASE TranslateOutside(p)
    <3>1. /\ blocks' = [blocks EXCEPT ![Hash(p)] = NojitBlock(p)] /\ pool' = pool
          /\ blocks \in [Slot -> BlockType]
      BY <2>3 DEF TranslateOutside, TablesOK
    <3>2. \A s \in Slot : Valid(blocks'[s]) => blocks'[s] = blocks[s]
      BY <2>1, <3>1
    <3> QED
      BY <3>1, <3>2 DEF HostIn
  <2>4. CASE TranslateBail(p)
    <3>1. blocks' = [AllocBlocks(p) EXCEPT ![Hash(p)] = NojitBlock(p)] /\ pool' = AllocPool
      BY <2>4 DEF TranslateBail
    <3>2. \A s \in Slot : Valid(blocks'[s]) => blocks'[s] = AllocBlocks(p)[s]
      BY <2>1, <2>2, <3>1
    <3> QED
      BY <2>2, <3>1, <3>2 DEF HostIn
  <2>5. ASSUME NEW e \in 1 .. MemSize, NEW h \in 1 .. BlockMax, NEW full \in BOOLEAN,
               TranslateCommit(p, e, h, full)
        PROVE  HostIn(blocks', pool')
    <3> DEFINE b == NewBlock(p, e, h, full)
    <3>1. e \in Nat /\ h \in Nat
      BY SizesAssumption
    <3>2. blocks' = [AllocBlocks(p) EXCEPT ![Hash(p)] = b] /\ pool' = AllocPool + h
      BY <2>1, <2>5, <3>1, CommitEffect
    <3>3. b.paddr = p /\ b.host = AllocPool /\ b.hlen = h
      BY DEF NewBlock
    <3>4. blocks'[Hash(p)] = b /\ \A s \in Slot \ {Hash(p)} : blocks'[s] = AllocBlocks(p)[s]
      BY <2>1, <2>2, <3>2
    <3>5. \A s \in Slot : AllocBlocks(p)[s].host \in Nat /\ AllocBlocks(p)[s].hlen \in Nat
      BY <2>2 DEF BlockType
    <3> HIDE DEF b
    <3>6. ASSUME NEW s \in Slot, Valid(blocks'[s]), s # Hash(p)
          PROVE  /\ s = Hash(blocks'[s].paddr)
                 /\ blocks'[s].host + blocks'[s].hlen <= AllocPool
      BY <2>2, <3>4, <3>6 DEF HostIn
    <3>7. ASSUME NEW s \in Slot, Valid(blocks'[s]), s # Hash(p),
                 NEW t \in Slot \ {s}, Valid(blocks'[t]), t # Hash(p)
          PROVE  \/ blocks'[s].host + blocks'[s].hlen <= blocks'[t].host
                 \/ blocks'[t].host + blocks'[t].hlen <= blocks'[s].host
      BY <2>2, <3>4, <3>7 DEF HostIn
    <3>8. \A s \in Slot : blocks'[s].host \in Nat /\ blocks'[s].hlen \in Nat
      BY <2>2, <3>1, <3>3, <3>4, <3>5
    <3> QED
      BY <2>2, <3>1, <3>2, <3>3, <3>4, <3>6, <3>7, <3>8 DEF HostIn
  <2> QED
    BY <1>3, <2>3, <2>4, <2>5 DEF TryTranslate
<1> QED
  BY <1>2, <1>3

\* The host code of two valid blocks never overlaps and lies below pool_used,
\* where no later commit writes; and the one slot a lookup of an address probes
\* is the only one that can hold its block.
THEOREM HostAlways == Spec => [](Findable /\ PoolSound)
<1>1. Init => TypeOK /\ HostIn(blocks, pool)
  BY TypeInit, PlainBlocks DEF Init, HostIn
<1>2. TypeOK /\ HostIn(blocks, pool) /\ [Next]_vars => TypeOK' /\ HostIn(blocks, pool)'
  BY HostStep, TablesStep, FlagsStep DEF TypeOK
<1>3. HostIn(blocks, pool) => Findable /\ PoolSound
  BY HostWise
<1> QED
  BY <1>1, <1>2, <1>3, PTL DEF Spec


-------------------------------------------------------------------------------
(* Links *)

LinkAt(bs, s) ==
  /\ bs[s].link \in Slot
  /\ Valid(bs[bs[s].link]) /\ ~Linked(bs[bs[s].link])
  /\ bs[bs[s].link].paddr = bs[s].end /\ bs[s].lpaddr = bs[s].end
  /\ bs[s].lcode = bs[bs[s].link].code /\ bs[s].linsns = bs[bs[s].link].insns

LinksIn(bs, O) ==
  \A s \in Slot : s \notin O /\ Valid(bs[s]) /\ Linked(bs[s]) => LinkAt(bs, s)

LEMMA LinkWise ==
  ASSUME blocks \in [Slot -> BlockType]
  PROVE  LinkSound <=> LinksIn(blocks, orphans)
<1>1. \A s \in Slot : Linked(blocks[s]) => blocks[s].link \in Slot
  BY DEF Linked, BlockType
<1> QED
  BY <1>1 DEF LinkSound, LinkAlive, LinksIn, LinkAt

\* A survivor's target survives with it, unless it is an orphan: the target is
\* no victim, and linking nowhere it falls with no other.
LEMMA LinksSurvive ==
  ASSUME NEW bs \in [Slot -> BlockType], NEW vs \in SUBSET Slot, NEW O, LinksIn(bs, O)
  PROVE  LinksIn(InvalidateSlots(bs, vs), O)
<1> DEFINE cs == InvalidateSlots(bs, vs)
<1> SUFFICES ASSUME NEW s \in Slot, s \notin O, Valid(cs[s]), Linked(cs[s])
             PROVE  LinkAt(cs, s)
  BY DEF LinksIn
<1>1. cs[s] = bs[s] /\ bs[s].link \notin vs /\ LinkAt(bs, s)
  BY InvalidateEffect DEF LinksIn
<1> DEFINE t == bs[s].link
<1>2. t \in Slot /\ Valid(bs[t]) /\ ~Linked(bs[t]) /\ t \notin vs
  BY <1>1 DEF LinkAt
<1>3. bs[t].link \notin vs
  BY <1>2 DEF Linked, NoLink, Slot
<1>4. cs[t] = bs[t]
  BY <1>2, <1>3 DEF InvalidateSlots
<1> HIDE DEF cs, t
<1> QED
  BY <1>1, <1>4 DEF LinkAt, t

LEMMA LinksSurviveRange ==
  ASSUME NEW bs \in [Slot -> BlockType], NEW lo \in Int, NEW hi \in Int, NEW O,
         LinksIn(bs, O), NEW cs \in InvalidateRange(bs, lo, hi)
  PROVE  LinksIn(cs, O)
<1>1. Overlapping(bs, lo, hi) \in SUBSET Slot
  BY DEF Overlapping
<1>2. cs = bs \/ \E rs \in SUBSET Slot : cs = InvalidateSlots(bs, rs)
  BY <1>1 DEF InvalidateRange
<1> QED
  BY <1>2, LinksSurvive

\* Where a step only empties slots, no orphan that stays is forgotten.
LEMMA OrphansKept ==
  ASSUME LinksIn(blocks', orphans), KeepOrphans,
         \A s \in Slot : Valid(blocks'[s]) => blocks'[s] = blocks[s]
  PROVE  LinksIn(blocks', orphans')
BY DEF KeepOrphans, LinksIn

\* jit_translate on a missed address in RAM: the slot of the new block is free,
\* and only orphans are linked to it.
LEMMA LinksAlloc ==
  ASSUME TablesOK, LinksIn(blocks, orphans), NEW p \in Nat, ~Hit(p)
  PROVE  /\ LinksIn(AllocBlocks(p), orphans)
         /\ \A s \in Slot : Valid(AllocBlocks(p)[s]) =>
              s # Hash(p) /\ (s \notin orphans => AllocBlocks(p)[s].link # Hash(p))
<1>0. Hash(p) \in Slot /\ blocks \in [Slot -> BlockType]
  BY HashRange DEF TablesOK
<1>1. CASE PoolFull
  BY <1>1, PlainBlocks DEF AllocBlocks, LinksIn
<1>2. CASE ~PoolFull /\ Valid(blocks[Hash(p)])
  <2>1. AllocBlocks(p) = InvalidateSlots(blocks, {Hash(p)})
    BY <1>2 DEF AllocBlocks, Evicted, Hit
  <2>2. {Hash(p)} \in SUBSET Slot
    BY <1>0
  <2>3. \A s \in Slot : Valid(InvalidateSlots(blocks, {Hash(p)})[s]) =>
           /\ InvalidateSlots(blocks, {Hash(p)})[s] = blocks[s]
           /\ s # Hash(p) /\ blocks[s].link # Hash(p)
    BY <1>0, InvalidateEffect
  <2> QED
    BY <1>0, <2>1, <2>2, <2>3, LinksSurvive
<1>3. CASE ~PoolFull /\ ~Valid(blocks[Hash(p)])
  <2>1. AllocBlocks(p) = blocks
    BY <1>3 DEF AllocBlocks, Evicted
  <2>2. ASSUME NEW s \in Slot, Valid(blocks[s]), s \notin orphans
        PROVE  blocks[s].link # Hash(p)
    <3>1. CASE Linked(blocks[s])
      BY <1>3, <2>2, <3>1 DEF LinksIn, LinkAt
    <3>2. CASE ~Linked(blocks[s])
      BY <1>0, <3>2 DEF Linked, NoLink, Slot
    <3> QED
      BY <3>1, <3>2
  <2> QED
    BY <1>3, <2>1, <2>2
<1> QED
  BY <1>1, <1>2, <1>3

\* A slot that is free and linked to by orphans only takes any block whose own
\* link is sound.
LEMMA LinksFill ==
  ASSUME NEW bs \in [Slot -> BlockType], NEW q \in Slot, NEW b \in BlockType, NEW O,
         LinksIn(bs, O),
         \A s \in Slot : Valid(bs[s]) => s # q /\ (s \notin O => bs[s].link # q),
         Valid(b) /\ Linked(b) =>
           /\ b.link \in Slot /\ Valid(bs[b.link]) /\ ~Linked(bs[b.link])
           /\ bs[b.link].paddr = b.end /\ b.lpaddr = b.end
           /\ b.lcode = bs[b.link].code /\ b.linsns = bs[b.link].insns
  PROVE  LinksIn([bs EXCEPT ![q] = b], O \ {q})
<1> DEFINE cs == [bs EXCEPT ![q] = b]
<1>1. cs[q] = b /\ \A s \in Slot \ {q} : cs[s] = bs[s]
  OBVIOUS
<1> HIDE DEF cs
<1>2. ASSUME Valid(b), Linked(b)
      PROVE  LinkAt(cs, q)
  <2>1. b.link \in Slot \ {q}
    BY <1>2
  <2> QED
    BY <1>1, <1>2, <2>1 DEF LinkAt
<1>3. ASSUME NEW s \in Slot \ {q}, s \notin O, Valid(bs[s]), Linked(bs[s])
      PROVE  LinkAt(cs, s)
  <2>1. LinkAt(bs, s) /\ bs[s].link \in Slot \ {q}
    BY <1>3 DEF LinksIn, LinkAt
  <2> QED
    BY <1>1, <2>1 DEF LinkAt
<1> QED
  BY <1>1, <1>2, <1>3 DEF LinksIn, cs

\* A new block, or the mark that there is none, in the slot that jit_translate
\* has freed.
LEMMA LinksCommit ==
  ASSUME TablesOK, LinksIn(blocks, orphans), NEW p \in Nat, ~Hit(p), NEW b \in BlockType,
         blocks' = [AllocBlocks(p) EXCEPT ![Hash(p)] = b], KeepOrphans,
         Valid(b) /\ Linked(b) =>
           LET t == AllocBlocks(p)[b.link]
           IN  /\ b.link \in Slot /\ Valid(t) /\ ~Linked(t)
               /\ t.paddr = b.end /\ b.lpaddr = b.end
               /\ b.lcode = t.code /\ b.linsns = t.insns
  PROVE  LinksIn(blocks', orphans')
<1> DEFINE bs == AllocBlocks(p)  q == Hash(p)
<1>1. /\ q \in Slot /\ bs \in [Slot -> BlockType] /\ LinksIn(bs, orphans)
      /\ \A s \in Slot : Valid(bs[s]) => s # q /\ (s \notin orphans => bs[s].link # q)
      /\ \A s \in Slot : Valid(bs[s]) => bs[s] = blocks[s]
  BY HashRange, AllocEffect, LinksAlloc
<1> HIDE DEF bs, q
<1>2. LinksIn([bs EXCEPT ![q] = b], orphans \ {q})
  BY <1>1, LinksFill DEF bs, q
<1>3. blocks' = [bs EXCEPT ![q] = b]
  BY DEF bs, q
<1>4. ASSUME NEW s \in Slot, s \in orphans \ {q}, Valid(blocks'[s])
      PROVE  s \in orphans'
  BY <1>1, <1>3, <1>4 DEF KeepOrphans
<1> QED
  BY <1>2, <1>3, <1>4 DEF LinksIn

LEMMA LinkStep ==
  ASSUME TablesOK, LinksIn(blocks, orphans), [Next]_vars
  PROVE  LinksIn(blocks', orphans')
<1>0. blocks \in [Slot -> BlockType]
  BY DEF TablesOK
<1>1. ASSUME NEW lo \in Addr, NEW hi \in 1 .. MemSize, Store(lo, hi)
      PROVE  LinksIn(blocks', orphans')
  <2>1. lo \in Int /\ hi \in Int
    BY SizesAssumption DEF Addr
  <2>2. LinksIn(blocks', orphans)
    BY <1>0, <1>1, <2>1, LinksSurviveRange DEF Store
  <2>3. \A s \in Slot : Valid(blocks'[s]) => blocks'[s] = blocks[s]
    BY <1>0, <1>1, <2>1, RangeEffect DEF Store
  <2> QED
    BY <1>1, <2>2, <2>3, OrphansKept DEF Store
<1>2. ASSUME NEW end \in 1 .. MemSize, NEW start \in Addr, NEW n \in 1 .. end,
             NEW m \in 1 .. MemSize - start, StoreSplit(end, n, start, m)
      PROVE  LinksIn(blocks', orphans')
  <2>1. end - n \in Int /\ end \in Int /\ start \in Int /\ start + m \in Int
    BY SizesAssumption DEF Addr
  <2>2. PICK mid \in InvalidateRange(blocks, end - n, end) :
          blocks' \in InvalidateRange(mid, start, start + m)
    BY <1>2 DEF StoreSplit
  <2>3. /\ mid \in [Slot -> BlockType] /\ LinksIn(mid, orphans)
        /\ \A s \in Slot : Valid(mid[s]) => mid[s] = blocks[s]
    BY <1>0, <2>1, <2>2, RangeEffect, LinksSurviveRange
  <2>4. LinksIn(blocks', orphans)
    BY <2>1, <2>2, <2>3, LinksSurviveRange
  <2>5. \A s \in Slot : Valid(blocks'[s]) => blocks'[s] = mid[s]
    BY <2>1, <2>2, <2>3, RangeEffect
  <2> QED
    BY <1>2, <2>3, <2>4, <2>5, OrphansKept DEF StoreSplit
<1>3. ASSUME NEW lo \in Addr, NEW hi \in 1 .. MemSize, InsString(lo, hi) \/ Reset(lo, hi)
      PROVE  UNCHANGED <<blocks, orphans>>
  BY <1>3 DEF InsString, Reset
<1>4. CASE MovCr0 \/ MovCr3 \/ SetSegCS
  BY <1>4, PlainBlocks DEF MovCr0, MovCr3, SetSegCS, FlushAll, LinksIn
<1>5. ASSUME NEW p \in Fetch, TryNojit(p) \/ TryCold(p)
      PROVE  UNCHANGED <<blocks, orphans>>
  BY <1>5 DEF TryNojit, TryCold
<1>6. CASE TryCooldown \/ UNCHANGED vars
  BY <1>6 DEF TryCooldown, vars
<1>7. ASSUME NEW p \in Fetch, TryTranslate(p)
      PROVE  LinksIn(blocks', orphans')
  <2>1. p \in Nat /\ ~Hit(p) /\ Hash(p) \in Slot
    BY <1>7, HashRange, SizesAssumption DEF Fetch, TryTranslate
  <2>2. NojitBlock(p) \in BlockType /\ ~Valid(NojitBlock(p))
    BY <2>1, PlainBlocks
  <2>3. CASE TranslateOutside(p)
    <3> DEFINE q == Hash(p)
    <3>1. /\ blocks' = [blocks EXCEPT ![q] = NojitBlock(p)]
          /\ orphans' = (orphans \cup NewOrphans(p)) \ {q}
      BY <2>3 DEF TranslateOutside
    <3>2. q \in Slot /\ blocks'[q] = NojitBlock(p) /\ \A s \in Slot \ {q} : blocks'[s] = blocks[s]
      BY <1>0, <2>1, <3>1
    <3>3. ASSUME NEW s \in Slot, s \notin orphans', Valid(blocks'[s]), Linked(blocks'[s])
          PROVE  LinkAt(blocks', s)
      <4>1. s # q /\ blocks'[s] = blocks[s]
        BY <2>2, <3>2, <3>3
      <4>2. s \notin orphans /\ blocks[s].link # q
        BY <3>1, <3>3, <4>1 DEF NewOrphans
      <4>3. LinkAt(blocks, s)
        BY <3>3, <4>1, <4>2 DEF LinksIn
      <4>4. blocks'[blocks[s].link] = blocks[blocks[s].link]
        BY <3>2, <4>2, <4>3 DEF LinkAt
      <4> QED
        BY <4>1, <4>3, <4>4 DEF LinkAt
    <3> QED
      BY <3>3 DEF LinksIn
  <2>4. CASE TranslateBail(p)
    <3>1. blocks' = [AllocBlocks(p) EXCEPT ![Hash(p)] = NojitBlock(p)] /\ KeepOrphans
      BY <2>4 DEF TranslateBail
    <3> QED
      BY <2>1, <2>2, <3>1, LinksCommit
  <2>5. ASSUME NEW e \in 1 .. MemSize, NEW h \in 1 .. BlockMax, NEW full \in BOOLEAN,
               TranslateCommit(p, e, h, full)
        PROVE  LinksIn(blocks', orphans')
    <3> DEFINE b == NewBlock(p, e, h, full)  bs == AllocBlocks(p)
    <3>1. e \in Nat /\ KeepOrphans
      BY <2>5, SizesAssumption DEF TranslateCommit
    <3>2. b \in BlockType /\ blocks' = [bs EXCEPT ![Hash(p)] = b] /\ Hash(e) \in Slot
      BY <2>1, <2>5, <3>1, CommitEffect, HashRange
    <3>3. ASSUME Linked(b)
          PROVE  /\ b.link = Hash(e) /\ b.end = e /\ b.lpaddr = e /\ LinkTarget(bs, e)
                 /\ b.lcode = bs[Hash(e)].code /\ b.linsns = bs[Hash(e)].insns
      <4>1. CASE CallReach /\ ~full /\ ~EndsBlock(p, e) /\ LinkTarget(bs, e)
        BY <4>1 DEF NewBlock
      <4>2. CASE ~(CallReach /\ ~full /\ ~EndsBlock(p, e) /\ LinkTarget(bs, e))
        BY <3>3, <4>2 DEF NewBlock, Linked
      <4> QED
        BY <4>1, <4>2
    <3>4. Linked(b) =>
            /\ b.link \in Slot /\ Valid(bs[b.link]) /\ ~Linked(bs[b.link])
            /\ bs[b.link].paddr = b.end /\ b.lpaddr = b.end
            /\ b.lcode = bs[b.link].code /\ b.linsns = bs[b.link].insns
      BY <3>2, <3>3 DEF LinkTarget
    <3> HIDE DEF b
    <3> QED
      BY <2>1, <3>1, <3>2, <3>4, LinksCommit
  <2> QED
    BY <1>7, <2>3, <2>4, <2>5 DEF TryTranslate
<1>8. CASE UNCHANGED <<blocks, orphans>>
  BY <1>8
<1> QED
  BY <1>1, <1>2, <1>3, <1>4, <1>5, <1>6, <1>7, <1>8 DEF Next

\* A direct call emitted into another block outlives the translation it was
\* emitted for only where a translation outside RAM has overwritten that one's
\* slot, wherever the guest fetches from.
THEOREM LinkAlways == Spec => []LinkSound
<1>1. Init => TypeOK /\ LinksIn(blocks, orphans)
  BY TypeInit, PlainBlocks DEF Init, LinksIn
<1>2. TypeOK /\ LinksIn(blocks, orphans) /\ [Next]_vars => TypeOK' /\ LinksIn(blocks, orphans)'
  BY LinkStep, TablesStep, FlagsStep DEF TypeOK
<1>3. TypeOK /\ LinksIn(blocks, orphans) => LinkSound
  BY LinkWise DEF TypeOK, TablesOK
<1> QED
  BY <1>1, <1>2, <1>3, PTL DEF Spec

===============================================================================
