------------------------------ MODULE MCJitCache ------------------------------
(***************************************************************************)
(* Small instances of JitCache, and the loop of jit_invalidate_range as    *)
(* written, against which the closed form of JitCache is checked.          *)
(***************************************************************************)
EXTENDS JitCache, TLC

CONSTANTS op, jmp, bad   \* guest bytes: opcodes by the shape they have

\* Short instructions and bytes the decoder rejects.
PlainBytes == {op, bad}
PlainLen == (op :> 1) @@ (bad :> 0)

\* Two-byte jumps, which end a block and may be cut by the end of memory.
MixedBytes == {op, jmp}
MixedLen == (op :> 1) @@ (jmp :> 2)
Jumps == {jmp}
None == {}

\* The loop of jit_invalidate_range: slots in order, the links of each victim
\* dropped before the next slot is looked at.
ScanLoop(lo, hi) ==
  LET after[i \in 0 .. Entries] ==
        IF i = 0 THEN blocks
        ELSE LET bs == after[i - 1]
             IN  IF i - 1 \in Overlapping(bs, lo, hi)
                   THEN InvalidateSlots(bs, {i - 1}) ELSE bs
  IN after[Entries]

\* InvalidateRange is what the loop does, and the order in which the loop visits
\* the slots does not matter unless there are orphans: a victim emptied early as
\* the source of a link still has its own sources dropped, because no other
\* block that links is linked to. (With fewer than two victims there is no
\* order.)
ScanOrder ==
  \A lo \in Addr, hi \in 1 .. MemSize :
    lo < hi /\ Cardinality(Overlapping(blocks, lo, hi)) > 1 /\ MaybeHasCode(lo, hi) =>
      /\ InvalidateRange(blocks, lo, hi) = {ScanLoop(lo, hi)}
      /\ orphans = {} => ScanLoop(lo, hi) = InvalidateSlots(blocks, Overlapping(blocks, lo, hi))

===============================================================================
