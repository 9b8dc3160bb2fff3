------------------------------- MODULE JitCache -------------------------------
(***************************************************************************)
(* The translated-block cache of the Xtensa JIT (esp/main/jit_lx7.c) and   *)
(* the hooks by which the i386 core keeps it coherent with guest memory    *)
(* (tiny386/i386.c).                                                       *)
(*                                                                         *)
(* A translated block is reduced to the guest bytes it was compiled from:  *)
(* running its host code is running those bytes, whatever guest memory     *)
(* holds by then.  The decoder is reduced to the length of the instruction *)
(* an opcode byte starts (0: unsupported or disabled) and to whether the   *)
(* instruction ends a block.  Host code lengths are counted in aligned     *)
(* words, so jit_align4 is the identity.  Statistics and traces are left   *)
(* out.                                                                    *)
(*                                                                         *)
(* Linear addresses are physical addresses: jit_try_execute makes the same *)
(* identification (paddr = laddr) with paging on or off.  The pool is      *)
(* there: without one jit_try_execute returns at once, and jit_acquire_pool*)
(* returns none that is not mapped for execution, so that jit_translate's  *)
(* exit for such a pool (pool_exec) is never taken.                        *)
(***************************************************************************)
EXTENDS Integers, FiniteSets

CONSTANTS
  MemSize,      \* phys_mem_size
  FetchTop,     \* the guest fetches instructions below this address, which may
                \* lie past the end of RAM
  PageSize,     \* JIT_GUEST_PAGE_SIZE
  PageBits,     \* JIT_SMC_PAGE_BITS
  Entries,      \* JIT_CACHE_ENTRIES
  NojitEntries, \* JIT_NOJIT_ENTRIES
  HotEntries,   \* JIT_HOT_ENTRIES
  HashMul,      \* the multiplier of jit_hash, modulo the table size
  ScanLimit,    \* JIT_SCAN_LIMIT
  MinScan,      \* bytes the scanner wants left in the page (6)
  BlockMax,     \* JIT_BLOCK_MAXBYTES, in words
  PoolSize,     \* JIT_POOL_SIZE, in words
  HotThreshold, \* TINY386_JIT_HOT_THRESHOLD
  NojitCooldown,\* TINY386_JIT_PRESTEP_COOLDOWN_NOJIT
  Byte,         \* values of a guest byte
  Len,          \* length of the instruction an opcode byte starts, 0: none
  Ends,         \* opcodes whose action ends a block (ACT_JMP, ACT_JCC)
  Breaks,       \* opcodes that stop the scan (MOV_RR in a block of its own)
  CallReach,    \* whether a CALL8 stub can reach the pool (host memory map)
  RawMax        \* bound: this many bytes of RAM may be stale at a time

ASSUME SizesAssumption ==
  /\ MemSize \in Nat \ {0} /\ FetchTop \in Nat /\ PageSize \in Nat \ {0}
  /\ PageBits \in Nat \ {0} /\ Entries \in Nat \ {0}
  /\ NojitEntries \in Nat \ {0} /\ HotEntries \in Nat \ {0} /\ HashMul \in Nat
  /\ ScanLimit \in Nat \ {0} /\ MinScan \in Nat
  /\ BlockMax \in Nat \ {0} /\ PoolSize \in Nat /\ BlockMax <= PoolSize
  /\ HotThreshold \in 1..255 /\ NojitCooldown \in Nat
  /\ CallReach \in BOOLEAN /\ RawMax \in Nat

ASSUME DecoderAssumption ==
  /\ Byte # {}
  /\ Len \in [Byte -> Nat]
  /\ Ends \subseteq Byte /\ Breaks \subseteq Byte

VARIABLES
  mem,     \* guest RAM
  blocks,  \* JITState.blocks
  pages,   \* JITState.smc_page_bitmap, the set of its 1 bits
  nojit,   \* JITState.nojit_table: the address each entry holds, or -1
  hot,     \* JITState.hot_table: address (or -1) and hits of each entry
  pool,    \* JITState.pool_used
  cool,    \* JITState.prestep_cooldown
  code16,  \* CPUI386.code16
  pg,      \* CR0.PG
  raw,     \* history: bytes written past the store hooks since the last
           \* hooked store to them, or since the last flush of the cache
  orphans  \* history: slots of the blocks linked to a slot that a translation
           \* outside RAM has overwritten since they were compiled

vars == <<mem, blocks, pages, nojit, hot, pool, cool, code16, pg, raw, orphans>>

Addr == 0 .. MemSize - 1
Fetch == 0 .. FetchTop - 1
Slot == 0 .. Entries - 1
NoLink == -1                      \* JIT_LINK_NONE
NoAddr == -1                      \* an entry whose valid byte is 0

\* jit_hash, jit_nojit_hash and jit_hot_hash: Knuth's multiplicative hash.
Hash(p) == (p * HashMul) % Entries
NojitHash(p) == (p * HashMul) % NojitEntries
HotHash(p) == (p * HashMul) % HotEntries
PageBit(p) == (p \div PageSize) % PageBits

NoCode == [a \in {} |-> 0]

\* A slot that holds no code.
BareBlock(status, p) ==
  [status |-> status, paddr |-> p, end |-> 0, code |-> NoCode, insns |-> 0,
   host |-> 0, hlen |-> 0, link |-> NoLink, lpaddr |-> 0, lcode |-> NoCode,
   linsns |-> 0]

\* A slot whose status is JIT_EMPTY: nothing reads its other fields.
EmptyBlock == BareBlock("EMPTY", 0)

\* jit_mark_nojit: the slot remembers that p cannot be translated.
NojitBlock(p) == BareBlock("NOJIT", p)

Valid(b) == b.status = "VALID"
Linked(b) == b.link # NoLink

-------------------------------------------------------------------------------
(* Invalidation *)

\* Mutant: the blocks linked to a victim stay.
InvalidateSlotsOnly(bs, vs) ==
  [s \in Slot |-> IF Valid(bs[s]) /\ s \in vs THEN EmptyBlock ELSE bs[s]]

\* jit_invalidate_slot_and_links for every slot of vs: the VALID blocks of vs
\* and the VALID blocks linked to one of them are emptied.
InvalidateSlots(bs, vs) ==
  [s \in Slot |-> IF Valid(bs[s]) /\ (s \in vs \/ bs[s].link \in vs)
                    THEN EmptyBlock ELSE bs[s]]

\* Mutants: the first or the last byte of a block does not count.
OverlappingLate(bs, lo, hi) ==
  {s \in Slot : Valid(bs[s]) /\ bs[s].paddr + 1 < hi /\ bs[s].end > lo}
OverlappingShort(bs, lo, hi) ==
  {s \in Slot : Valid(bs[s]) /\ bs[s].paddr < hi /\ bs[s].end > lo + 1}

\* The VALID blocks whose source bytes overlap lo .. hi - 1.
Overlapping(bs, lo, hi) ==
  {s \in Slot : Valid(bs[s]) /\ bs[s].paddr < hi /\ bs[s].end > lo}

\* jit_smc_range_maybe_has_code: the bitmap filter in front of the scan.
MaybeHasCode(lo, hi) == \E a \in lo .. hi - 1 : PageBit(a) \in pages

\* rs are the victims of vs that the scan, slot after slot, still finds VALID:
\* the others have fallen with the victim in an earlier slot they link to.
Reached(bs, vs, rs) ==
  \A v \in vs : v \in rs <=> ~(bs[v].link \in rs /\ bs[v].link < v)

\* jit_invalidate_range on a non-empty range of RAM: the set of its outcomes,
\* of which there is one.
InvalidateRange(bs, lo, hi) ==
  LET vs == Overlapping(bs, lo, hi)
  IN  IF MaybeHasCode(lo, hi)
        THEN {InvalidateSlots(bs, rs) : rs \in {r \in SUBSET vs : Reached(bs, vs, r)}}
        ELSE {bs}

\* The orphans whose block this step leaves in place.
KeepOrphans == orphans' = {s \in orphans : blocks'[s] = blocks[s]}

\* jit_invalidate_all, as jit_state_change_invalidate calls it.  The nojit and
\* hot tables survive a flush.
FlushAll ==
  /\ blocks' = [s \in Slot |-> EmptyBlock]
  /\ pool' = 0
  /\ pages' = {}
  /\ raw' = {}
  /\ orphans' = {}

-------------------------------------------------------------------------------
(* Guest memory writes *)

\* Bound: the bytes written past the hooks stay few.
RawWithin(lo, hi) == Cardinality(raw \cup (lo .. hi - 1)) <= RawMax

\* Bytes lo .. hi - 1 of memory replaced by those of w.
Overwrite(lo, hi, w) == [a \in Addr |-> IF a \in lo .. hi - 1 THEN w[a] ELSE mem[a]]

\* store8/16/32 of contiguous bytes: pstore*, then jit_store_invalidate.
Store(lo, hi) ==
  /\ hi - lo \in {1, 2, 4}
  /\ \E w \in [lo .. hi - 1 -> Byte] : mem' = Overwrite(lo, hi, w)
  /\ blocks' \in InvalidateRange(blocks, lo, hi)
  /\ KeepOrphans
  /\ raw' = raw \ (lo .. hi - 1)
  /\ UNCHANGED <<pages, nojit, hot, pool, cool, code16, pg>>

\* store16/32 of an operand that straddles two pages: n bytes at the end of one
\* physical page and m at the start of another, each stored and invalidated on
\* its own (store32 cuts three bytes in two, which comes to the same).
StoreSplit(end, n, start, m) ==
  /\ end % PageSize = 0 /\ start % PageSize = 0
  /\ n + m \in {2, 4} /\ n + m <= PageSize
  /\ \E w \in [(end - n .. end - 1) \cup (start .. start + m - 1) -> Byte] :
        mem' = [a \in Addr |-> IF a \in DOMAIN w THEN w[a] ELSE mem[a]]
  /\ \E bs \in InvalidateRange(blocks, end - n, end) :
        blocks' \in InvalidateRange(bs, start, start + m)
  /\ KeepOrphans
  /\ raw' = raw \ ((end - n .. end - 1) \cup (start .. start + m - 1))
  /\ UNCHANGED <<pages, nojit, hot, pool, cool, code16, pg>>

\* The fast path of REP INS: io_read_string writes device data straight into
\* phys_mem, inside one page.  No store hook runs.
InsString(lo, hi) ==
  /\ lo < hi /\ lo \div PageSize = (hi - 1) \div PageSize
  /\ RawWithin(lo, hi)
  /\ \E w \in [lo .. hi - 1 -> Byte] : mem' = Overwrite(lo, hi, w)
  /\ raw' = raw \cup (lo .. hi - 1)
  /\ UNCHANGED <<blocks, pages, nojit, hot, pool, cool, code16, pg, orphans>>

-------------------------------------------------------------------------------
(* Changes of processor state *)

\* MOV CR0 that changes PG, WP or PE: tlb_clear, then a flush of the cache.
MovCr0 ==
  /\ pg' \in BOOLEAN
  /\ FlushAll
  /\ UNCHANGED <<mem, nojit, hot, cool, code16>>

\* MOV CR3, and the CR3 load of task_switch.
MovCr3 ==
  /\ FlushAll
  /\ UNCHANGED <<mem, nojit, hot, cool, code16, pg>>

\* set_seg of CS with another code size; one that keeps it flushes nothing.
SetSegCS ==
  /\ code16' = ~code16
  /\ FlushAll
  /\ UNCHANGED <<mem, nojit, hot, cool, pg>>

\* load_bios_and_reset: ROM images are copied over RAM and the core is reset,
\* to 32-bit code when a kernel is booted.  The JIT is not told.
Reset(lo, hi) ==
  /\ lo < hi /\ RawWithin(lo, hi)
  /\ \E w \in [lo .. hi - 1 -> Byte] : mem' = Overwrite(lo, hi, w)
  /\ raw' = raw \cup (lo .. hi - 1)
  /\ code16' \in BOOLEAN
  /\ pg' = FALSE
  /\ UNCHANGED <<blocks, pages, nojit, hot, pool, cool, orphans>>

-------------------------------------------------------------------------------
(* jit_translate *)

MinOf(a, b) == IF a < b THEN a ELSE b

\* One past the last byte the scanner may read: the end of p's page or of RAM.
ScanEnd(p) == p + MinOf(PageSize - (p % PageSize), MemSize - p)

\* The scanner accepts the instruction at b.
Admitted(p, b) ==
  /\ ScanEnd(p) - b >= MinScan
  /\ Len[mem[b]] # 0
  /\ b + Len[mem[b]] <= ScanEnd(p)

\* Insns(p)[a]: how many instructions the scan has accepted when it stands at
\* a, or -1 when it never does.
Insns(p) ==
  LET n[a \in p .. ScanEnd(p)] ==
        LET Arrives(b) == Admitted(p, b) /\ b + Len[mem[b]] = a
            Goes(b) == /\ n[b] \in 0 .. ScanLimit - 1
                       /\ \A c \in p .. b - 1 :
                            n[c] >= 0 /\ c + Len[mem[c]] = b
                              => mem[c] \notin Ends \cup Breaks
            from == {b \in p .. a - 1 : Arrives(b) /\ Goes(b)}
        IN  IF a = p THEN 0
            ELSE IF from = {} THEN -1 ELSE n[CHOOSE b \in from : TRUE] + 1
  IN n

\* The addresses at which an accepted instruction ends.
Boundaries(p) == {a \in p + 1 .. ScanEnd(p) : Insns(p)[a] \in 1 .. ScanLimit}

\* The block p .. e - 1 ends with ACT_JMP or ACT_JCC.
EndsBlock(p, e) ==
  \E b \in p .. e - 1 : Insns(p)[b] >= 0 /\ b + Len[mem[b]] = e /\ mem[b] \in Ends

\* Mutant: chains of links.
LinkTargetChained(bs, e) == LET t == bs[Hash(e)] IN Valid(t) /\ t.paddr = e

\* jit_find_link_target for the address e that a block falls through to.
LinkTarget(bs, e) ==
  LET t == bs[Hash(e)] IN Valid(t) /\ t.paddr = e /\ ~Linked(t)

MarkNojit(p) == nojit' = [nojit EXCEPT ![NojitHash(p)] = p]

\* The slot's old block is evicted when another address holds it ...
Evicted(p) ==
  IF Valid(blocks[Hash(p)]) /\ blocks[Hash(p)].paddr # p
    THEN InvalidateSlots(blocks, {Hash(p)}) ELSE blocks

\* Mutant: room for one word too many.
PoolFullLate == pool + BlockMax > PoolSize + 1

\* ... and a pool without room for the longest block is flushed.
PoolFull == pool + BlockMax > PoolSize

\* Mutant: the pool is emptied without its blocks.
AllocBlocksKept(p) == Evicted(p)

AllocBlocks(p) == IF PoolFull THEN [s \in Slot |-> EmptyBlock] ELSE Evicted(p)
AllocPool == IF PoolFull THEN 0 ELSE pool
AllocPages == IF PoolFull THEN {} ELSE pages
AllocRaw == IF PoolFull THEN {} ELSE raw

\* Mutant: the page of the byte behind the block.
MarkedPagesBehind(p, e) == {PageBit(e)}

\* jit_smc_mark_page for the first and the last byte of the new block.
MarkedPages(p, e) == {PageBit(p), PageBit(e - 1)}

\* The blocks linked to the slot that p is about to take.
NewOrphans(p) == {s \in Slot : Valid(blocks[s]) /\ blocks[s].link = Hash(p)}

\* p lies outside RAM: the slot is marked before anything is evicted, and the
\* blocks linked to the one it held keep their direct call.
TranslateOutside(p) ==
  /\ p >= MemSize
  /\ blocks' = [blocks EXCEPT ![Hash(p)] = NojitBlock(p)]
  /\ orphans' = (orphans \cup NewOrphans(p)) \ {Hash(p)}
  /\ MarkNojit(p)
  /\ UNCHANGED <<pages, pool, raw>>

\* Nothing to translate at p, or no room for it in the host buffer.
TranslateBail(p) ==
  /\ p < MemSize
  /\ blocks' = [AllocBlocks(p) EXCEPT ![Hash(p)] = NojitBlock(p)]
  /\ pool' = AllocPool
  /\ pages' = AllocPages
  /\ raw' = AllocRaw
  /\ KeepOrphans
  /\ MarkNojit(p)

\* The block p .. e - 1, of h words of host code.  One that falls through is
\* linked to a cached successor if the CALL8 stub reaches it and fits.
NewBlock(p, e, h, full) ==
  LET bs == AllocBlocks(p)
      t  == bs[Hash(e)]
      lk == CallReach /\ ~full /\ ~EndsBlock(p, e) /\ LinkTarget(bs, e)
  IN  [status |-> "VALID", paddr |-> p, end |-> e,
       code |-> [a \in p .. e - 1 |-> mem[a]], insns |-> Insns(p)[e],
       host |-> AllocPool, hlen |-> h,
       link |-> IF lk THEN Hash(e) ELSE NoLink,
       lpaddr |-> IF lk THEN e ELSE 0,
       lcode |-> IF lk THEN t.code ELSE NoCode,
       linsns |-> IF lk THEN t.insns ELSE 0]

\* A block is committed; it stops short of the scan when the buffer is full.
TranslateCommit(p, e, h, full) ==
  /\ p < MemSize
  /\ e \in Boundaries(p)
  /\ full \/ \A f \in Boundaries(p) : f <= e
  /\ blocks' = [AllocBlocks(p) EXCEPT ![Hash(p)] = NewBlock(p, e, h, full)]
  /\ pool' = AllocPool + h
  /\ pages' = AllocPages \cup MarkedPages(p, e)
  /\ raw' = AllocRaw
  /\ KeepOrphans
  /\ UNCHANGED nojit

-------------------------------------------------------------------------------
(* jit_try_execute at the address p *)

\* A NOJIT answer suspends the next attempts.
TryCooldown ==
  /\ ~code16 /\ cool > 0
  /\ cool' = cool - 1
  /\ UNCHANGED <<mem, blocks, pages, nojit, hot, pool, code16, pg, raw, orphans>>

\* The lookup is reached: 32-bit code, no cooldown, and inside RAM when paging.
Looks(p) == ~code16 /\ cool = 0 /\ (pg => p < MemSize)

KnownNojit(p) ==
  \/ nojit[NojitHash(p)] = p
  \/ blocks[Hash(p)].status = "NOJIT" /\ blocks[Hash(p)].paddr = p

Hit(p) == Valid(blocks[Hash(p)]) /\ blocks[Hash(p)].paddr = p

TryNojit(p) ==
  /\ Looks(p) /\ KnownNojit(p)
  /\ cool' = NojitCooldown
  /\ UNCHANGED <<mem, blocks, pages, nojit, hot, pool, code16, pg, raw, orphans>>

\* jit_hot_threshold_skip: its answer and the entry it leaves.
HotEntry(p) == hot[HotHash(p)]
HotSkip(p) ==
  HotThreshold > 1 /\ (HotEntry(p).addr # p \/ HotEntry(p).hits + 1 < HotThreshold)
HotUpdate(p) ==
  hot' = IF HotThreshold = 1 THEN hot
         ELSE [hot EXCEPT ![HotHash(p)] =
                [addr |-> p,
                 hits |-> IF HotEntry(p).addr # p THEN 1
                          ELSE MinOf(HotEntry(p).hits + 1, HotThreshold)]]

TryCold(p) ==
  /\ Looks(p) /\ ~KnownNojit(p) /\ ~Hit(p) /\ HotSkip(p)
  /\ HotUpdate(p)
  /\ UNCHANGED <<mem, blocks, pages, nojit, pool, cool, code16, pg, raw, orphans>>

\* A miss on a hot address: jit_translate, and on success the new block runs.
TryTranslate(p) ==
  /\ Looks(p) /\ ~KnownNojit(p) /\ ~Hit(p) /\ ~HotSkip(p)
  /\ HotUpdate(p)
  /\ \/ TranslateOutside(p)
     \/ TranslateBail(p)
     \/ \E e \in 1 .. MemSize, h \in 1 .. BlockMax, full \in BOOLEAN :
           TranslateCommit(p, e, h, full)
  /\ UNCHANGED <<mem, cool, code16, pg>>

-------------------------------------------------------------------------------
Init ==
  /\ mem \in [Addr -> Byte]
  /\ blocks = [s \in Slot |-> EmptyBlock]
  /\ pages = {}
  /\ nojit = [i \in 0 .. NojitEntries - 1 |-> NoAddr]
  /\ hot = [i \in 0 .. HotEntries - 1 |-> [addr |-> NoAddr, hits |-> 0]]
  /\ pool = 0
  /\ cool = 0
  /\ code16 = TRUE
  /\ pg = FALSE
  /\ raw = {}
  /\ orphans = {}

Next ==
  \/ \E lo \in Addr, hi \in 1 .. MemSize : Store(lo, hi)
  \/ \E end \in 1 .. MemSize, start \in Addr :
       \E n \in 1 .. end, m \in 1 .. MemSize - start : StoreSplit(end, n, start, m)
  \/ \E lo \in Addr, hi \in 1 .. MemSize : InsString(lo, hi)
  \/ \E lo \in Addr, hi \in 1 .. MemSize : Reset(lo, hi)
  \/ MovCr0 \/ MovCr3 \/ SetSegCS
  \/ TryCooldown
  \/ \E p \in Fetch : TryNojit(p) \/ TryCold(p) \/ TryTranslate(p)

Spec == Init /\ [][Next]_vars

-------------------------------------------------------------------------------
(* Properties *)

\* The guest bytes at some addresses of RAM.
Code == UNION {[S -> Byte] : S \in SUBSET Addr}

BlockType ==
  [status : {"EMPTY", "VALID", "NOJIT"}, paddr : Nat, end : Nat, code : Code,
   insns : Nat, host : Nat, hlen : Nat, link : Slot \cup {NoLink},
   lpaddr : Nat, lcode : Code, linsns : Nat]

TablesOK ==
  /\ mem \in [Addr -> Byte]
  /\ blocks \in [Slot -> BlockType]
  /\ pages \subseteq 0 .. PageBits - 1
  /\ nojit \in [0 .. NojitEntries - 1 -> Nat \cup {NoAddr}]
  /\ hot \in [0 .. HotEntries - 1 -> [addr : Nat \cup {NoAddr}, hits : 0 .. HotThreshold]]
  /\ pool \in 0 .. PoolSize
  /\ cool \in 0 .. NojitCooldown
  /\ raw \subseteq Addr /\ orphans \subseteq Slot

FlagsOK == code16 \in BOOLEAN /\ pg \in BOOLEAN

\* Type invariant of the cache and its tables (JITState, JITBlock), of guest
\* memory and of the processor state the JIT reads.
TypeOK == TablesOK /\ FlagsOK

\* A block the lookup may run holds the bytes guest memory holds now, except
\* bytes written past the store hooks: jit_invalidate_range, behind its bitmap
\* filter, misses no block a hooked store overlaps.
Coherent ==
  \A s \in Slot : Valid(blocks[s]) =>
    \A a \in blocks[s].paddr .. blocks[s].end - 1 :
       a \in raw \/ blocks[s].code[a] = mem[a]

\* The block in slot s links to nothing, or the slot it links to still holds
\* the very translation its direct call was emitted for, at the address where
\* the block ends, and that one links no further (jit_try_execute accounts for
\* one link only).
LinkAlive(s) ==
  Valid(blocks[s]) /\ Linked(blocks[s]) =>
    LET b == blocks[s]  t == blocks[b.link]
    IN  /\ Valid(t) /\ ~Linked(t)
        /\ t.paddr = b.end /\ b.lpaddr = b.end
        /\ b.lcode = t.code /\ b.linsns = t.insns

\* A block compiled with a direct call into its successor does not outlive it,
\* over any order of stores, flushes, evictions and reuse of its slot, with one
\* exception: the guest has since tried to run an address outside RAM that
\* hashes to the successor's slot (jit_translate marks that slot before it
\* comes to the eviction).  Such an orphan spoils no other block's link.
LinkSound == \A s \in Slot \ orphans : LinkAlive(s)

\* What docs/jit-dev-plan.md says of links: a block that replaces another in
\* its slot clears the blocks linked there, whatever the guest runs.
LinksCleared == \A s \in Slot : LinkAlive(s)

\* A valid block is a piece of RAM, and the bits of all the pages it lies in are
\* set, so that the bitmap never filters out a store that hits it.
Marked ==
  \A s \in Slot : Valid(blocks[s]) =>
    LET b == blocks[s]
    IN  /\ b.paddr < b.end /\ b.end <= MemSize
        /\ \A a \in b.paddr .. b.end - 1 : PageBit(a) \in pages

\* No two valid blocks share host code, and none reaches past pool_used: the
\* next translation overwrites nothing that can still be run.
PoolSound ==
  \A s \in Slot : Valid(blocks[s]) =>
    LET b == blocks[s]
    IN  /\ b.host + b.hlen <= pool
        /\ \A t \in Slot \ {s} : Valid(blocks[t]) =>
             \/ b.host + b.hlen <= blocks[t].host
             \/ blocks[t].host + blocks[t].hlen <= b.host

\* A valid block sits in the slot its address hashes to: the lookup, which
\* probes that slot only, finds every block, and no address has two.
Findable ==
  \A s \in Slot : Valid(blocks[s]) => s = Hash(blocks[s].paddr)

\* What docs/jit-dev-plan.md asks of the store hooks, writes to RAM by the IDE
\* and by DMA included: a valid block is always the code in memory.
StrictlyCoherent ==
  \A s \in Slot : Valid(blocks[s]) =>
    \A a \in blocks[s].paddr .. blocks[s].end - 1 : blocks[s].code[a] = mem[a]

===============================================================================
