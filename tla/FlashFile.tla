------------------------------ MODULE FlashFile -------------------------------
(***************************************************************************)
(* A disk image in a flash partition: the file of flash_stdio.c, and       *)
(* BlockDeviceFile of ide.c on top of it.                                  *)
(*                                                                         *)
(* Flash is erased in blocks and the file writes any run of sectors, so a  *)
(* write reads each block it meets, erases it and programs it again.  The  *)
(* three steps may each fail, and the power may go between them.  Data is  *)
(* counted in disk sectors of 512 bytes: every transfer of the disk is a   *)
(* multiple of one, and a block holds BlockSectors of them.                *)
(*                                                                         *)
(* Nobody compares a request with the size of the disk: ide_get_sector     *)
(* yields any 28-bit number, or -1 from cylinder, head and sector, and the *)
(* seek of a block device is not looked at.                                *)
(***************************************************************************)
EXTENDS Integers

CONSTANTS
  Blocks,        \* erase blocks of the partition
  BlockSectors,  \* disk sectors of a block
  Value,         \* contents of a sector
  Lost,          \* contents of a sector erased or half programmed
  Start,         \* start_offset: sectors in front of the disk, its header
  OffHalf,       \* off_t counts from -OffHalf to OffHalf - 1 sectors
  Asked,         \* bound: sectors the guest asks for, on the disk or not
  MaxCount,      \* bound: sectors of one request
  Writable       \* the image is opened "r+b" rather than "rb"

FlashSizes ==
  /\ Blocks \in Nat \ {0} /\ BlockSectors \in Nat \ {0} /\ MaxCount \in Nat
  /\ Start \in Nat /\ Asked \subseteq Int
  /\ OffHalf \in Nat /\ OffHalf > Blocks * BlockSectors
  /\ Lost \notin Value /\ Writable \in BOOLEAN

VARIABLES
  flash,  \* the sectors of the partition
  pos,    \* the position of the file
  op,     \* the request in hand, or the outcome of the last one
  old     \* history: the partition when that request was made

flashVars == <<flash, pos, op, old>>

Size == Blocks * BlockSectors
Sector == 0 .. Size - 1
Run(from, n) == from .. from + n - 1
BlockOf(s) == s \div BlockSectors

\* A sector of the disk as an off_t.
OffT(s) == ((Start + s + OffHalf) % (2 * OffHalf)) - OffHalf

\* Mutant: the header in front of the disk is forgotten.
SeekToBare(s) == IF OffT(s - Start) \in 0 .. Size THEN OffT(s - Start) ELSE pos

\* fseeko(SEEK_SET): a position outside the partition is refused and nothing
\* moves.  Neither caller looks at the result.
SeekTo(s) == IF OffT(s) \in 0 .. Size THEN OffT(s) ELSE pos

NoOp == [pc |-> "none"]
LostBlock == [k \in 0 .. BlockSectors - 1 |-> Lost]
InHand == op.pc \in {"merge", "erase", "program"}

-------------------------------------------------------------------------------
(* Reads *)

\* bf_read_async: a read runs to the end of the partition at most, and one that
\* fails leaves the buffer as it was; the caller is told neither.
Read(s, n) ==
  /\ ~InHand
  /\ LET p == SeekTo(s)
         m == IF p + n <= Size THEN n ELSE Size - p
     IN  \/ /\ op' = [pc |-> "read", from |-> s, n |-> n,
                      buf |-> [k \in 0 .. m - 1 |-> flash[p + k]]]
            /\ pos' = p + m
         \/ /\ op' = [pc |-> "read_failed"]
            /\ pos' = p
  /\ old' = flash
  /\ UNCHANGED flash

-------------------------------------------------------------------------------
(* Writes *)

Fits(p, n) == p + n <= Size

\* bf_write_async and the checks of __wrap_fwrite.
WriteCall(s, n, data) ==
  /\ ~InHand
  /\ LET p == SeekTo(s)
     IN  /\ pos' = p
         /\ op' = IF Writable /\ Fits(p, n)
                    THEN [pc |-> "merge", from |-> s, was |-> pos, at |-> p, n |-> n, done |-> 0,
                          data |-> data, block |-> LostBlock]
                    ELSE [pc |-> "refused"]
  /\ old' = flash
  /\ UNCHANGED flash

\* The sector the write has come to, the block it lies in, and how many sectors
\* of the request go into that block.
Here == op.at + op.done
Base == Here - (Here % BlockSectors)
\* Mutant: the offset in the block is forgotten.
ChunkWhole ==
  IF BlockSectors > op.n - op.done THEN op.n - op.done ELSE BlockSectors
Chunk ==
  LET room == BlockSectors - (Here % BlockSectors)
  IN  IF room > op.n - op.done THEN op.n - op.done ELSE room

\* Mutant: the block is not read first.
MergedBlank ==
  [k \in 0 .. BlockSectors - 1 |->
     IF Base + k \in Run(Here, Chunk) THEN op.data[Base + k - op.at] ELSE Lost]

\* The block as it is, with the chunk of the request laid over it.
Merged ==
  [k \in 0 .. BlockSectors - 1 |->
     IF Base + k \in Run(Here, Chunk) THEN op.data[Base + k - op.at] ELSE flash[Base + k]]

Merge ==
  /\ op.pc = "merge"
  /\ op' = [op EXCEPT !.pc = "erase", !.block = Merged]
  /\ UNCHANGED <<flash, pos, old>>

\* The partition with the sectors of P, which lie in the current block, erased, or
\* programmed from the merged block.
Current == Run(Base, BlockSectors)
Erased(P) == [s \in Sector |-> IF s \in P THEN Lost ELSE flash[s]]
Programmed(P) == [s \in Sector |-> IF s \in P THEN op.block[s - Base] ELSE flash[s]]

Erase ==
  /\ op.pc = "erase"
  /\ flash' = Erased(Current)
  /\ op' = [op EXCEPT !.pc = "program"]
  /\ UNCHANGED <<pos, old>>

\* Mutant: the position is moved by every chunk and by the whole request.
ProgramMoves ==
  /\ op.pc = "program"
  /\ flash' = Programmed(Current)
  /\ op' = [op EXCEPT !.done = @ + Chunk,
                      !.pc = IF op.done + Chunk = op.n THEN "written" ELSE "merge"]
  /\ pos' = IF op.done + Chunk = op.n THEN pos + op.n ELSE pos + Chunk
  /\ UNCHANGED old

Program ==
  /\ op.pc = "program"
  /\ flash' = Programmed(Current)
  /\ op' = [op EXCEPT !.done = @ + Chunk,
                      !.pc = IF op.done + Chunk = op.n THEN "written" ELSE "merge"]
  /\ pos' = IF op.done + Chunk = op.n THEN pos + op.n ELSE pos
  /\ UNCHANGED old

\* A step breaks off: the block is left as it was before the step, or with any
\* part of it erased or programmed.
Torn ==
  \/ op.pc = "merge" /\ flash' = flash
  \/ op.pc = "erase" /\ \E P \in SUBSET Current : flash' = Erased(P)
  \/ op.pc = "program" /\ \E P \in SUBSET Current : flash' = Programmed(P)

\* An error ends fwrite, which has moved the position by what was done.
Fails ==
  /\ InHand
  /\ Torn
  /\ op' = [op EXCEPT !.pc = "failed"]
  /\ pos' = pos + op.done
  /\ UNCHANGED old

\* The power goes; the file is opened again, and left at its end.
PowerCut ==
  /\ op.pc # "none"
  /\ IF InHand THEN Torn ELSE flash' = flash
  /\ op' = IF InHand THEN [op EXCEPT !.pc = "cut"] ELSE NoOp
  /\ pos' = Size
  /\ UNCHANGED old

-------------------------------------------------------------------------------

FlashInit ==
  /\ flash \in [Sector -> Value] /\ old = flash
  /\ pos = Size /\ op = NoOp

FlashNext ==
  \/ \E s \in Asked, n \in 1 .. MaxCount : Read(s, n)
  \/ \E s \in Asked, n \in 1 .. MaxCount :
       \E data \in [0 .. n - 1 -> Value] : WriteCall(s, n, data)
  \/ Merge \/ Erase \/ Program \/ Fails \/ PowerCut

FlashSpec == FlashInit /\ [][FlashNext]_flashVars

-------------------------------------------------------------------------------
(* Properties *)

Contents == Value \cup {Lost}
Writes ==
  [pc : {"merge", "erase", "program", "written", "failed", "cut"}, from : Asked, was : 0 .. Size,
   at : 0 .. Size, n : 1 .. MaxCount, done : 0 .. MaxCount,
   data : UNION {[0 .. n - 1 -> Value] : n \in 1 .. MaxCount},
   block : [0 .. BlockSectors - 1 -> Contents]]
Reads ==
  [pc : {"read"}, from : Asked, n : 1 .. MaxCount,
   buf : UNION {[0 .. m - 1 -> Contents] : m \in 0 .. MaxCount}]

FlashTypeOK ==
  /\ flash \in [Sector -> Contents] /\ old \in [Sector -> Contents]
  /\ pos \in 0 .. Size
  /\ \/ op \in {NoOp, [pc |-> "refused"], [pc |-> "read_failed"]}
     \/ op \in Writes \cup Reads

\* Where the sectors of a request lie in the partition.  A request the disk does
\* not have goes where the conversion to off_t takes it, and when that is outside
\* the partition too, on from the place where the request before it had ended
\* (op.was): the guest is told of neither.
Due == IF Start + op.from \in 0 .. Size THEN Start + op.from
       ELSE IF OffT(op.from) \in 0 .. Size THEN OffT(op.from) ELSE op.was

\* While a write is in hand, and after an error or a power cut has ended it, only
\* the block it had come to is in doubt: what was done before is on flash, and
\* every other sector is what it was, in the blocks it meets too.
DamageConfined ==
  op.pc \in {"merge", "erase", "program", "failed", "cut"} =>
    \A s \in Sector : s \notin Current =>
      flash[s] = IF s \in Run(Due, op.done) THEN op.data[s - Due] ELSE old[s]

\* A write that comes to its end has changed as many sectors as it was asked to,
\* each to its own data, across the borders of blocks, and no other: those asked
\* for when it begins on the disk, whatever went before, and those of Due when it
\* does not.  One that would pass the end of the partition never gets here.  The
\* position is left behind it, where such a request would go on.
WrittenExactly ==
  op.pc = "written" =>
    /\ Due + op.n <= Size /\ pos = Due + op.n
    /\ \A s \in Sector :
         flash[s] = IF s \in Run(Due, op.n) THEN op.data[s - Due] ELSE old[s]

\* A write that begins on the disk changes its sectors and no other, and one that
\* begins elsewhere changes those of Due; one that fails or loses power damages
\* its current erase block only (__wrap_fseeko, __wrap_fwrite).
FlashSound == FlashTypeOK /\ DamageConfined /\ WrittenExactly

===============================================================================
